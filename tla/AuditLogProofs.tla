---------------------------- MODULE AuditLogProofs ----------------------------
(***************************************************************************)
(* Proofs about AuditLog, for every size of the ring, every set of kinds,  *)
(* every checksum, any number of boots and any number of faults.           *)
(***************************************************************************)
EXTENDS AuditLog, SequenceTheorems, TLAPS

-----------------------------------------------------------------------------
(* Chains and images *)

\* A chain is a sequence of kinds that fits the ring.
LEMMA ChainIsSeq ==
    \A r : r \in Chain <=> r \in Seq(Kinds) /\ Len(r) <= RingCap
<1>. USE AuditAssumption
<1>1. ASSUME NEW r \in Chain PROVE r \in Seq(Kinds) /\ Len(r) <= RingCap
  <2>1. PICK n \in 0 .. RingCap : r \in [1 .. n -> Kinds] BY DEF Chain
  <2>. QED BY <2>1
<1>2. ASSUME NEW r \in Seq(Kinds), Len(r) <= RingCap PROVE r \in Chain
  <2>1. Len(r) \in 0 .. RingCap /\ r \in [1 .. Len(r) -> Kinds] BY <1>2
  <2>. QED BY <2>1 DEF Chain
<1>. QED BY <1>1, <1>2

\* encode_ring then decode_ring gives the ring back.
LEMMA DecodeOfEncode ==
    ASSUME NEW r \in Chain
    PROVE  Decode(Encode(r)) = [ok |-> TRUE, ring |-> r]
<1>. DEFINE img == Encode(r)
            recs == [i \in 1 .. RingCap |-> IF i > Len(r) THEN Blank
                        ELSE [kind |-> r[i], prev |-> SubSeq(r, 1, i - 1)]]
<1>1. r \in Seq(Kinds) /\ Len(r) \in 0 .. RingCap BY ChainIsSeq
<1>2. RingCap \in Nat \ {0} BY AuditAssumption
<1>3. img[1] = [count |-> Len(r), tip |-> r] BY <1>2 DEF Encode, Sector
<1>4. \A i \in 1 .. RingCap : img[i + 1].rec = recs[i] BY <1>2 DEF Encode, Sector
<1>5. img[RingCap + 1].sum = Checksum(Len(r), recs) BY <1>2 DEF Encode, Sector
<1>6. recs = Records(img) BY <1>4 DEF Records
<1>7. \A i \in 1 .. Len(r) : recs[i].kind = r[i] /\ recs[i].prev = SubSeq(r, 1, i - 1)
  BY <1>1, <1>2
<1>. HIDE DEF img, recs
<1>8. img[1].count = Len(r) /\ img[1].tip = r BY <1>3
<1>9. Replayed(img) = r BY <1>1, <1>6, <1>7, <1>8 DEF Replayed
<1>10. img[1] # Unwritten
  <2>1. r # <<0>> \/ Len(r) # 0 BY <1>1
  <2>. QED BY <1>3, <2>1 DEF Unwritten
<1>11. Linked(img)
  <2>1. DOMAIN r = 1 .. Len(r) /\ \A i \in 1 .. Len(r) : r[i] \in Kinds BY <1>1
  <2>2. \A i \in 1 .. Len(r) : Records(img)[i].prev = SubSeq(r, 1, i - 1) BY <1>6, <1>7
  <2>. QED BY <1>9, <2>1, <2>2 DEF Linked
<1>12. img[1].count <= RingCap BY <1>1, <1>2, <1>8
<1>13. Decode(img) = [ok |-> TRUE, ring |-> r]
  BY <1>5, <1>6, <1>8, <1>9, <1>10, <1>11, <1>12 DEF Decode
<1>. QED BY <1>13 DEF img

\* The header sector of an image.
LEMMA HeaderOfEncode ==
    ASSUME NEW r
    PROVE  Encode(r)[1] = [count |-> Len(r), tip |-> r]
BY AuditAssumption DEF Encode, Sector

-----------------------------------------------------------------------------
(* The inductive invariant *)

\* The header on disk is that of a chain some flush began to write.
HeaderWasWritten ==
    disk[1] = Unwritten \/ \E w \in written : disk[1] = [count |-> Len(w), tip |-> w]

\* A flush writes the staged image while nothing else is recorded, and knows of
\* every sector it has read back that it holds what it should.
FlushKnows ==
    flush.pc # "idle" =>
        /\ phase \in {"loaded", "running"} /\ on /\ torn = "cut"
        /\ staged \in written /\ flush.i \in Sector
        /\ flush.pc = "read" => \A s \in 1 .. flush.i - 1 : disk[s] = Encode(staged)[s]
        /\ flush.pc = "ack" => disk = Encode(staged)

\* After an event the staged image is the ring's, and unless it waits for a flush
\* the disk holds it.
RingIsStaged ==
    phase = "running" => staged = ring /\ (~ on => disk = Encode(ring))

\* The chain matched on disk is there, unless a flush has begun since.
PromiseIsOnDisk ==
    torn = "no" => promised = << >> \/ disk = Encode(promised)

IInv ==
    /\ TypeOK /\ disk = [s \in Sector |-> disk[s]]
    /\ HeaderWasWritten /\ FlushKnows /\ RingIsStaged /\ PromiseIsOnDisk
    /\ HistoryContinues

\* The empty ring is a chain.
LEMMA EmptyChain == << >> \in Chain
<1>1. << >> \in Seq(Kinds) /\ Len(<< >>) = 0 OBVIOUS
<1>2. Len(<< >>) <= RingCap BY <1>1, AuditAssumption
<1>. QED BY <1>1, <1>2, ChainIsSeq, Zenon

\* A prefix, entry by entry.
LEMMA PrefixEntries ==
    ASSUME NEW p \in Chain, NEW r \in Chain
    PROVE  IsPrefix(p, r) <=> Len(p) <= Len(r) /\ \A i \in 1 .. Len(p) : p[i] = r[i]
<1>1. p \in Seq(Kinds) /\ r \in Seq(Kinds) BY ChainIsSeq
<1>2. ASSUME IsPrefix(p, r) PROVE Len(p) <= Len(r) /\ \A i \in 1 .. Len(p) : p[i] = r[i]
  <2>1. Len(p) <= Len(r) /\ SubSeq(p, 1, Len(p)) = SubSeq(r, 1, Len(p)) BY <1>2 DEF IsPrefix
  <2>2. \A i \in 1 .. Len(p) : SubSeq(p, 1, Len(p))[i] = p[i] /\ SubSeq(r, 1, Len(p))[i] = r[i]
    BY <1>1, <2>1
  <2>. QED BY <2>1, <2>2
<1>3. ASSUME Len(p) <= Len(r), \A i \in 1 .. Len(p) : p[i] = r[i] PROVE IsPrefix(p, r)
  BY <1>1, <1>3 DEF IsPrefix
<1>. QED BY <1>2, <1>3

\* What append does to a chain.
LEMMA AppendedKeeps ==
    ASSUME NEW r \in Chain, NEW k \in Kinds
    PROVE  /\ Appended(r, k) \in Chain
           /\ \A p \in Chain : IsPrefix(p, r) => IsPrefix(p, Appended(r, k))
<1>1. r \in Seq(Kinds) /\ Len(r) <= RingCap BY ChainIsSeq
<1>2. RingCap \in Nat BY AuditAssumption
<1>3. Appended(r, k) \in Chain
  <2>1. CASE Len(r) >= RingCap BY <2>1 DEF Appended
  <2>2. CASE Len(r) < RingCap
    <3>1. Append(r, k) \in Seq(Kinds) /\ Len(Append(r, k)) = Len(r) + 1 BY <1>1
    <3>2. Len(Append(r, k)) <= RingCap BY <1>1, <1>2, <2>2, <3>1
    <3>3. Append(r, k) \in Chain BY <3>1, <3>2, ChainIsSeq, Zenon
    <3>. QED BY <1>1, <1>2, <2>2, <3>3 DEF Appended
  <2>. QED BY <1>1, <1>2, <2>1, <2>2
<1>4. Len(r) <= Len(Appended(r, k)) /\ \A i \in 1 .. Len(r) : Appended(r, k)[i] = r[i]
  BY <1>1, <1>2 DEF Appended
<1>5. ASSUME NEW p \in Chain, IsPrefix(p, r) PROVE IsPrefix(p, Appended(r, k))
  <2>1. p \in Seq(Kinds) /\ Appended(r, k) \in Seq(Kinds) BY <1>3, ChainIsSeq
  <2>2. Len(p) <= Len(r) /\ \A i \in 1 .. Len(p) : p[i] = r[i] BY <1>5, PrefixEntries
  <2>. QED BY <1>1, <1>3, <1>4, <2>1, <2>2, PrefixEntries
<1>. QED BY <1>3, <1>5

\* What joining a history does.
LEMMA JoinedKeeps ==
    ASSUME NEW p \in Chain, NEW r \in Chain, Len(p) + Len(r) <= RingCap
    PROVE  p \o r \in Chain /\ IsPrefix(p, p \o r)
<1>1. p \in Seq(Kinds) /\ r \in Seq(Kinds) BY ChainIsSeq
<1>2. p \o r \in Seq(Kinds) /\ Len(p \o r) = Len(p) + Len(r) BY <1>1
<1>3. p \o r \in Chain BY <1>2, ChainIsSeq
<1>4. Len(p) <= Len(p \o r) /\ \A i \in 1 .. Len(p) : p[i] = (p \o r)[i] BY <1>1, <1>2
<1>. QED BY <1>3, <1>4, PrefixEntries, Zenon

\* Whatever is on the disk, the ring stays a chain: decode_ring checks every kind.
LEMMA AdoptIsChain ==
    ASSUME NEW r \in Chain, NEW img, img[1].count \in 0 .. RingCap
    PROVE  Adopt(r, img) \in Chain
<1>1. CASE ~ Decode(img).ok BY <1>1 DEF Adopt
<1>2. CASE Decode(img).ok
  <2>1. Linked(img) /\ Decode(img).ring = Replayed(img) BY <1>2 DEF Decode
  <2>2. Replayed(img) \in Chain
    <3>1. Replayed(img) = [i \in 1 .. img[1].count |-> Records(img)[i].kind] BY DEF Replayed
    <3>2. \A i \in 1 .. img[1].count : Replayed(img)[i] \in Kinds BY <2>1, <3>1 DEF Linked
    <3>3. Replayed(img) \in [1 .. img[1].count -> Kinds] BY <3>1, <3>2
    <3>. QED BY <3>3 DEF Chain
  <2>. QED BY <2>1, <2>2, JoinedKeeps DEF Adopt
<1>. QED BY <1>1, <1>2

\* Every chain extends the empty one and itself.
LEMMA TrivialPrefixes == \A r \in Chain : IsPrefix(<< >>, r) /\ IsPrefix(r, r)
<1>. SUFFICES ASSUME NEW r \in Chain PROVE IsPrefix(<< >>, r) /\ IsPrefix(r, r) OBVIOUS
<1>1. r \in Seq(Kinds) BY ChainIsSeq
<1>. QED BY <1>1, EmptyChain, PrefixEntries

-----------------------------------------------------------------------------
(* The initial state and the steps *)

\* The initial state: an empty ring and a blank disk.
LEMMA IInvInit == Init => IInv
<1>. SUFFICES ASSUME Init PROVE IInv OBVIOUS
<1>. USE AuditAssumption DEF Init
<1>1. << >> \in Chain BY EmptyChain
<1>2. disk[1] = Unwritten /\ disk = [s \in Sector |-> disk[s]] BY DEF BlankDisk, Sector
<1>3. disk[1].count = 0 BY <1>2 DEF Unwritten
<1>4. TypeOK
  <2>1. disk[1].count \in 0 .. RingCap BY <1>3
  <2>2. flush \in [pc : {"idle", "write", "read", "ack"}, i : 0 .. RingCap + 1] BY DEF Idle
  <2>3. 0 \in 0 .. MaxBoots /\ 0 \in 0 .. MaxFaults OBVIOUS
  <2>. QED BY <1>1, <2>1, <2>2, <2>3 DEF TypeOK
<1>. QED BY <1>2, <1>4 DEF IInv, HeaderWasWritten, FlushKnows, RingIsStaged, PromiseIsOnDisk, HistoryContinues, Idle

\* Every append, sector write, crash and boot keeps the invariant.
LEMMA IInvStep == IInv /\ [Next]_vars => IInv'
<1>. SUFFICES ASSUME IInv, [Next]_vars PROVE IInv' OBVIOUS
<1>. USE AuditAssumption
<1>0. << >> \in Chain BY EmptyChain
<1>i. Idle \in [pc : {"idle", "write", "read", "ack"}, i : 0 .. RingCap + 1] BY DEF Idle
<1>1. CASE Boot
  <2>1. Appended(<< >>, BootKind) \in Chain BY <1>0, AppendedKeeps
  <2>2. TypeOK' BY <1>0, <1>1, <2>1 DEF Boot, IInv, TypeOK, Idle
  <2>. QED BY <1>1, <2>2 DEF Boot, IInv, HeaderWasWritten, FlushKnows, RingIsStaged,
         PromiseIsOnDisk, HistoryContinues, Idle
<1>2. CASE Load
  <2>1. flush.pc = "idle" BY <1>2 DEF Load, IInv, FlushKnows
  <2>2. ring' \in Chain /\ IsPrefix(promised', ring') /\ promised' \in {promised, << >>}
    <3>1. ring \in Chain /\ promised \in Chain /\ phase = "booted" BY <1>2 DEF Load, IInv, TypeOK
    <3>2. ring' = Adopt(ring, disk) BY <1>2 DEF Load
    <3>3. ring' \in Chain BY <3>1, <3>2, AdoptIsChain DEF IInv, TypeOK
    <3>4. CASE promised' = << >> BY <3>3, <3>4, TrivialPrefixes
    <3>5. CASE promised' # << >>
      <4>1. promised' = promised /\ torn = "no" /\ ~ Len(promised) + Len(ring) > RingCap
        BY <1>2, <3>5 DEF Load
      <4>2. disk = Encode(promised) BY <3>5, <4>1 DEF IInv, PromiseIsOnDisk
      <4>3. Decode(disk) = [ok |-> TRUE, ring |-> promised] BY <3>1, <4>2, DecodeOfEncode
      <4>4. Len(promised) \in Nat /\ Len(ring) \in Nat BY <3>1, ChainIsSeq
      <4>5. Len(promised) + Len(ring) <= RingCap BY <4>1, <4>4
      <4>6. ring' = promised \o ring BY <3>2, <4>3, <4>5 DEF Adopt
      <4>. QED BY <3>1, <3>3, <4>1, <4>5, <4>6, JoinedKeeps
    <3>. QED BY <3>3, <3>4, <3>5, <1>2 DEF Load
  <2>3. TypeOK' BY <1>0, <1>2, <2>2 DEF Load, IInv, TypeOK
  <2>. QED BY <1>2, <2>1, <2>2, <2>3 DEF Load, IInv, HeaderWasWritten, FlushKnows, RingIsStaged,
         PromiseIsOnDisk, HistoryContinues
<1>3. CASE LoadFails
  <2>1. flush.pc = "idle" BY <1>3 DEF LoadFails, IInv, FlushKnows
  <2>2. TypeOK' BY <1>0, <1>3 DEF LoadFails, IInv, TypeOK
  <2>. QED BY <1>3, <2>1, <2>2, TrivialPrefixes DEF LoadFails, IInv, TypeOK, HeaderWasWritten,
         FlushKnows, RingIsStaged, PromiseIsOnDisk, HistoryContinues
<1>4. CASE Record
  <2>1. PICK kind \in Kinds : RecordEvent(kind) BY <1>4 DEF Record
  <2>2. ring' \in Chain /\ (IsPrefix(promised, ring) => IsPrefix(promised, ring'))
    BY <2>1, AppendedKeeps DEF RecordEvent, IInv, TypeOK
  <2>3. TypeOK' BY <1>4, <2>1, <2>2 DEF Record, RecordEvent, IInv, TypeOK
  <2>. QED BY <1>4, <2>1, <2>2, <2>3 DEF Record, RecordEvent, IInv, HeaderWasWritten, FlushKnows,
         RingIsStaged, PromiseIsOnDisk, HistoryContinues, Idle
<1>5. CASE GuestStart
  BY <1>5 DEF GuestStart, IInv, TypeOK, HeaderWasWritten, FlushKnows,
         RingIsStaged, PromiseIsOnDisk, HistoryContinues
<1>6. CASE GuestEnd
  BY <1>6 DEF GuestEnd, IInv, TypeOK, HeaderWasWritten, FlushKnows,
         RingIsStaged, PromiseIsOnDisk, HistoryContinues
<1>7. CASE FlushStart
  <2>1. TypeOK' BY <1>7 DEF FlushStart, IInv, TypeOK
  <2>2. flush' = [pc |-> "write", i |-> 1] /\ 1 \in Sector BY <1>7 DEF FlushStart, Sector
  <2>. QED BY <1>7, <2>1, <2>2 DEF FlushStart, IInv, HeaderWasWritten, FlushKnows,
         RingIsStaged, PromiseIsOnDisk, HistoryContinues
<1>8. CASE WriteSector
  <2>1. flush.pc = "write" /\ flush.i \in Sector /\ staged \in written /\ torn = "cut"
        /\ phase \in {"loaded", "running"} /\ on
    BY <1>8 DEF WriteSector, IInv, FlushKnows
  <2>2. flush' \in {[pc |-> "read", i |-> 1], [pc |-> "write", i |-> flush.i + 1]} /\ flush'.i \in Sector
    BY <1>8, <2>1 DEF WriteSector, Step, Sector
  <2>3. disk' = [disk EXCEPT ![flush.i] = Encode(staged)[flush.i]] /\ 1 \in Sector
    BY <1>8 DEF WriteSector, Sector
  <2>4. disk' = [s \in Sector |-> disk'[s]] BY <2>3 DEF IInv
  <2>5. disk'[1] = disk[1] \/ disk'[1] = [count |-> Len(staged), tip |-> staged]
    BY <2>1, <2>3, HeaderOfEncode DEF IInv
  <2>6. HeaderWasWritten' BY <1>8, <2>1, <2>5 DEF WriteSector, IInv, HeaderWasWritten
  <2>7. TypeOK'
    <3>1. Len(staged) \in 0 .. RingCap BY ChainIsSeq DEF IInv, TypeOK
    <3>2. disk'[1].count \in 0 .. RingCap BY <2>5, <3>1 DEF IInv, TypeOK
    <3>. QED BY <1>8, <2>2, <3>2 DEF WriteSector, IInv, TypeOK, Sector
  <2>8. FlushKnows'
    <3>1. flush'.pc \in {"read", "write"} /\ (flush'.pc = "read" => flush'.i = 1) BY <2>2
    <3>. QED BY <1>8, <2>1, <2>2, <3>1 DEF WriteSector, FlushKnows
  <2>. QED BY <1>8, <2>1, <2>4, <2>6, <2>7, <2>8 DEF WriteSector, IInv, RingIsStaged,
         PromiseIsOnDisk, HistoryContinues
<1>9. CASE WriteLost
  <2>1. flush.pc = "write" /\ flush.i \in Sector /\ staged \in written /\ torn = "cut"
        /\ phase \in {"loaded", "running"} /\ on
    BY <1>9 DEF WriteLost, IInv, FlushKnows
  <2>2. flush' \in {[pc |-> "read", i |-> 1], [pc |-> "write", i |-> flush.i + 1]} /\ flush'.i \in Sector
    BY <1>9, <2>1 DEF WriteLost, Step, Sector
  <2>3. TypeOK' BY <1>9, <2>2 DEF WriteLost, IInv, TypeOK, Sector
  <2>4. FlushKnows'
    <3>1. flush'.pc \in {"read", "write"} /\ (flush'.pc = "read" => flush'.i = 1) BY <2>2
    <3>. QED BY <1>9, <2>1, <2>2, <3>1 DEF WriteLost, FlushKnows
  <2>. QED BY <1>9, <2>1, <2>3, <2>4 DEF WriteLost, IInv, HeaderWasWritten, RingIsStaged,
         PromiseIsOnDisk, HistoryContinues
<1>10. CASE TransferFails
  <2>1. TypeOK' BY <1>10 DEF TransferFails, IInv, TypeOK, Idle
  <2>. QED BY <1>10, <2>1 DEF TransferFails, IInv, HeaderWasWritten, FlushKnows,
         RingIsStaged, PromiseIsOnDisk, HistoryContinues, Idle
<1>11. CASE ReadBack
  <2>1. flush.pc = "read" /\ flush.i \in Sector /\ staged \in written /\ torn = "cut"
        /\ phase \in {"loaded", "running"} /\ on
        /\ \A s \in 1 .. flush.i - 1 : disk[s] = Encode(staged)[s]
    BY <1>11 DEF ReadBack, IInv, FlushKnows
  <2>2. CASE disk[flush.i] # Encode(staged)[flush.i]
    <3>1. flush' = Idle BY <1>11, <2>2 DEF ReadBack
    <3>2. TypeOK' BY <1>i, <1>11, <3>1 DEF ReadBack, IInv, TypeOK
    <3>. QED BY <1>11, <3>1, <3>2 DEF ReadBack, IInv, HeaderWasWritten, FlushKnows,
         RingIsStaged, PromiseIsOnDisk, HistoryContinues, Idle
  <2>3. CASE disk[flush.i] = Encode(staged)[flush.i]
    <3>1. \A s \in 1 .. flush.i : disk[s] = Encode(staged)[s] BY <2>1, <2>3 DEF Sector
    <3>2. flush' = IF flush.i = RingCap + 1 THEN [pc |-> "ack", i |-> 1]
                   ELSE [pc |-> "read", i |-> flush.i + 1]
      BY <1>11, <2>3 DEF ReadBack, Step
    <3>3. flush' \in [pc : {"idle", "write", "read", "ack"}, i : Sector] BY <2>1, <3>2 DEF Sector
    <3>4. TypeOK' BY <1>11, <3>3 DEF ReadBack, IInv, TypeOK, Sector
    <3>5. flush'.pc = "ack" => disk = Encode(staged)
      <4>1. flush'.pc = "ack" => flush.i = RingCap + 1 BY <3>2
      <4>2. Encode(staged) = [s \in Sector |-> Encode(staged)[s]] BY DEF Encode
      <4>. HIDE DEF IInv
      <4>. QED BY <3>1, <4>1, <4>2 DEF IInv, Sector
    <3>6. flush'.pc = "read" => \A s \in 1 .. flush'.i - 1 : disk[s] = Encode(staged)[s]
      BY <2>1, <3>1, <3>2 DEF Sector
    <3>7. FlushKnows' BY <1>11, <2>1, <3>3, <3>5, <3>6 DEF ReadBack, FlushKnows
    <3>. QED BY <1>11, <3>4, <3>7 DEF ReadBack, IInv, HeaderWasWritten,
         RingIsStaged, PromiseIsOnDisk, HistoryContinues
  <2>. QED BY <2>2, <2>3
<1>12. CASE Ack
  <2>1. disk = Encode(staged) /\ phase \in {"loaded", "running"} BY <1>12 DEF Ack, IInv, FlushKnows
  <2>2. TypeOK'
    <3>1. promised' \in Chain /\ torn' \in {"no", "cut", "stale"} BY <1>12 DEF Ack, IInv, TypeOK
    <3>. QED BY <1>i, <1>12, <3>1 DEF Ack, IInv, TypeOK
  <2>3. HistoryContinues' BY <1>12, TrivialPrefixes DEF Ack, IInv, TypeOK, HistoryContinues
  <2>. QED BY <1>12, <2>1, <2>2, <2>3 DEF Ack, IInv, HeaderWasWritten, FlushKnows,
         RingIsStaged, PromiseIsOnDisk, Idle
<1>13. CASE PowerLoss
  <2>1. TypeOK' BY <1>0, <1>i, <1>13 DEF PowerLoss, IInv, TypeOK
  <2>. QED BY <1>13, <2>1 DEF PowerLoss, IInv, HeaderWasWritten, FlushKnows,
         RingIsStaged, PromiseIsOnDisk, HistoryContinues, Idle
<1>14. CASE UNCHANGED vars
  BY <1>14 DEF vars, IInv, TypeOK, HeaderWasWritten, FlushKnows,
         RingIsStaged, PromiseIsOnDisk, HistoryContinues
<1>. QED BY <1>1, <1>2, <1>3, <1>4, <1>5, <1>6, <1>7, <1>8, <1>9, <1>10, <1>11, <1>12, <1>13, <1>14
         DEF Next

-----------------------------------------------------------------------------
(* The theorems *)

\* The ring, the staged image and the counters keep their types; in particular a
\* ring never outgrows AUDIT_RING_CAP, whatever is found on disk.
THEOREM TypeCorrect == Spec => []TypeOK
<1>1. IInv => TypeOK BY DEF IInv
<1>. QED BY <1>1, IInvInit, IInvStep, PTL DEF Spec

\* decode_ring accepts no mixture of two images: what decodes is a chain that
\* flush_audit_chain set out to write, at whatever sector it was cut short.
THEOREM TornImagesAreRefused == Spec => []TornImageRefused
<1>1. IInv => TornImageRefused
  <2>. SUFFICES ASSUME IInv, Decode(disk).ok PROVE Decode(disk).ring \in written
    BY DEF TornImageRefused
  <2>1. disk[1] # Unwritten /\ disk[1].tip = Replayed(disk) /\ Decode(disk).ring = Replayed(disk)
    BY DEF Decode
  <2>2. PICK w \in written : disk[1] = [count |-> Len(w), tip |-> w]
    BY <2>1 DEF IInv, HeaderWasWritten
  <2>. QED BY <2>1, <2>2
<1>. QED BY <1>1, IInvInit, IInvStep, PTL DEF Spec

\* ack_staged is reached only when the disk holds the ring: nothing left to flush
\* means that the next boot will read it.
THEOREM AcknowledgedIsOnDisk == Spec => []AckedIsDurable
<1>1. IInv => AckedIsDurable
  <2>. SUFFICES ASSUME IInv, phase = "running", ~ on
                PROVE  Decode(disk).ok /\ Decode(disk).ring = ring
    BY DEF AckedIsDurable
  <2>1. disk = Encode(ring) /\ ring \in Chain BY DEF IInv, RingIsStaged, TypeOK
  <2>. QED BY <2>1, DecodeOfEncode
<1>. QED BY <1>1, IInvInit, IInvStep, PTL DEF Spec

\* Over any number of boots the ring continues the chain that was matched on disk.
THEOREM HistoryIsContinued == Spec => []HistoryContinues
<1>1. IInv => HistoryContinues BY DEF IInv
<1>. QED BY <1>1, IInvInit, IInvStep, PTL DEF Spec
=============================================================================

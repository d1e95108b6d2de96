----------------------------- MODULE FwServices -----------------------------
(***************************************************************************)
(* The RayNu-F services that share the page pool (raynu_f/services.rs):    *)
(* pool buffers, the protocol data base (raynu_f/protocol.rs) and the      *)
(* image services, with the part of the exit handler that enters and       *)
(* leaves a started image (vmx/guest_uefi.rs).                             *)
(*                                                                         *)
(* A call is one I/O exit, handled to its end.  The guest is the programs  *)
(* on the firmware's stack: the one the launcher entered, and the images   *)
(* it started, one by the other.  Every image has the same handle,         *)
(* HANDLE_IMAGE, and the firmware keeps one record of an image and one     *)
(* saved context for all of them.  A call that is refused before it        *)
(* changes anything is a stuttering step and has no action of its own.     *)
(***************************************************************************)
EXTENDS FwPool, SequencesExt

CONSTANTS
    ProtSlots,   \* PROTOCOL_SLOTS
    MaxMint,     \* MAX_DYNAMIC_HANDLES
    PairLists,   \* (guid, interface) lists a program installs
    MaxLoads,    \* bound: images loaded
    MaxDepth,    \* bound: programs on the stack
    LoaderPages  \* report-RAM under a boot loader

ASSUME ServicesAssumption ==
    /\ ProtSlots \in Nat /\ MaxMint \in Nat /\ MaxLoads \in Nat /\ MaxDepth \in Nat
    /\ LoaderPages \in 0 .. MaxMapped
    /\ Types # {}
    /\ PairLists \subseteq Seq(STRING \X STRING)

VARIABLES
    guest,    \* which services the programs call: see ServNext
    media,    \* fat_media_id and append_kernel_serial: install disk or library CD
    prot,     \* Protocols.slots: (handle, guid) |-> interface
    minted,   \* Protocols.minted
    lf2,      \* initrd_lf2_this
    bufs,     \* pool buffers: runs whose header in guest memory has the magic
    img,      \* image_base, image_size; ghosts: which load it was, and its success
    started,  \* image_started
    ctx,      \* RAYNU_F_START_CTX: how deep the stack was that it saved
    frames,   \* the programs on the stack, the running one last
    grub,     \* grub_open_pending
    ghost     \* last load, plain returns, frames or record spoilt, installs that stand

fwVars == <<mapped, pool, live, last, guest, media, prot, minted, lf2, bufs, img,
            started, ctx, frames, grub, ghost>>

\* EFI_LOADER_CODE, EFI_LOADER_DATA and EFI_BOOT_SERVICES_DATA: no guard tells them apart.
LoaderType == CHOOSE t \in Types : TRUE

\* Handles: NULL, in whose place one is minted (1 .. minted), and the fixed ones.
NoHandle    == 0
DiskHandle  == -1
ImageHandle == -2
Absent      == "none"

NoImage == [addr |-> 0, n |-> 0, id |-> 0, ok |-> FALSE]

Protocols == <<prot, minted, lf2>>
Image     == <<img, started, ctx, frames, grub>>
Fixed     == <<mapped, guest, media>>
Called(what) == last' = what

-----------------------------------------------------------------------------
(* Protocols: the table p is a function of the pairs (handle, guid) in it.  *)

InterfaceFor(p, h, g) == IF <<h, g>> \in DOMAIN p THEN p[<<h, g>>] ELSE Absent

\* Protocols::install: replaces the pair, or takes a free slot.
CanInstall(p, h, g) == <<h, g>> \in DOMAIN p \/ Cardinality(DOMAIN p) < ProtSlots
Install(p, h, g, i) ==
    IF CanInstall(p, h, g)
    THEN [x \in DOMAIN p \cup {<<h, g>>} |-> IF x = <<h, g>> THEN i ELSE p[x]] ELSE p

\* Protocols::uninstall: only the interface that is installed.
Without(p, h, guids) == [x \in DOMAIN p \ ({h} \X guids) |-> p[x]]
Uninstall(p, h, g, i) == IF InterfaceFor(p, h, g) = i THEN Without(p, h, {g}) ELSE p

\* The loops over the first k pairs of a list.  An uninstall touches the row of its
\* own pair only, and of several installs in one row the last stands.
UninstallFirst(p, h, pairs, k) ==
    Without(p, h, {pairs[j][1] : j \in {m \in 1 .. k : InterfaceFor(p, h, pairs[m][1]) = pairs[m][2]}})
InstallFirst(p, h, pairs, k) ==
    LET rows == {h} \X {pairs[j][1] : j \in 1 .. k}
        final(g) == Max({j \in 1 .. k : pairs[j][1] = g})
    IN  [x \in DOMAIN p \cup rows |-> IF x \in rows THEN pairs[final(x[2])][2] ELSE p[x]]

\* install_multiple's loop: at the first failure the pairs before it are uninstalled.
InstallPairs(p, h, pairs) ==
    LET tab(k) == InstallFirst(p, h, pairs, k)
        bad == {k \in 1 .. Len(pairs) : ~CanInstall(tab(k - 1), h, pairs[k][1])}
    IN  IF bad = {} THEN [ok |-> TRUE, tab |-> tab(Len(pairs))]
        ELSE [ok |-> FALSE, tab |-> UninstallFirst(tab(Min(bad) - 1), h, pairs, Min(bad) - 1)]

\* GRUB's initrd: a LoadFile2 together with the vendor path; adopt_initrd_loadfile
\* publishes the firmware's shim in its place and remembers the struct.
Lf2Of(pairs) == {x[2] : x \in {y \in ToSet(pairs) : y[1] = "LoadFile2"}}
IsInitrd(pairs) == <<"DevicePath", "initrd">> \in ToSet(pairs) /\ Lf2Of(pairs) # {}
FirstLf2(pairs) == pairs[Min({k \in DOMAIN pairs : pairs[k][1] = "LoadFile2"})][2]

\* Mutant: the interface has to be the one that is published.
WantedPublished(p, this, h, g, i) == i

\* loadfile_uninstall_interface: GRUB names its own struct, the table has the shim.
Wanted(p, this, h, g, i) ==
    IF g = "LoadFile2" /\ i = this /\ InterfaceFor(p, h, g) = "shim" THEN "shim" ELSE i

CanUninstall(p, this, h, pairs) ==
    \A x \in ToSet(pairs) : InterfaceFor(p, h, x[1]) = Wanted(p, this, h, x[1], x[2])

Guids(pairs) == {y[1] : y \in ToSet(pairs)}

Disturbs(h, pairs, x) == x.h = h /\ Guids(pairs) \cap Guids(x.pairs) # {}

Handles == {DiskHandle} \cup 1 .. minted

\* InstallMultipleProtocolInterfaces; the NULL handle mints one.
InstallMultiple(h0, pairs, stored) ==
    /\ h0 = NoHandle => minted < MaxMint
    /\ \E h \in {IF h0 = NoHandle THEN minted + 1 ELSE h0} :
       \E r \in {InstallPairs(prot, h, pairs)} :
       \E ok \in {r.ok /\ (h0 = NoHandle => stored)} :
       \E adopt \in {ok /\ IsInitrd(pairs)} :
         /\ prot' = IF ~r.ok THEN r.tab
                    ELSE IF ~ok THEN UninstallFirst(r.tab, h, pairs, Len(pairs))
                    ELSE IF adopt THEN Install(r.tab, h, "LoadFile2", "shim")
                    ELSE r.tab
         /\ lf2' = IF adopt THEN FirstLf2(pairs) ELSE lf2
         /\ minted' = IF h0 = NoHandle THEN h ELSE minted
         /\ Called([op |-> "install", ok |-> ok])
         /\ ghost' = [ghost EXCEPT !.given =
                       {x \in @ : ~Disturbs(h, pairs, x) /\ ~(adopt /\ IsInitrd(x.pairs))}
                       \cup IF ok THEN {[h |-> h, pairs |-> pairs]} ELSE {}]
    /\ UNCHANGED <<pool, live, bufs, Fixed, Image>>

\* InstallProtocolInterface: an unwritable handle is reported, not rolled back.
InstallProtocol(h0, g, i) ==
    /\ h0 = NoHandle => minted < MaxMint
    /\ \E h \in {IF h0 = NoHandle THEN minted + 1 ELSE h0} :
         /\ prot' = Install(prot, h, g, i)
         /\ minted' = IF h0 = NoHandle THEN h ELSE minted
         /\ ghost' = [ghost EXCEPT !.given = {x \in @ : ~Disturbs(h, <<<<g, i>>>>, x)}]
    /\ Called([op |-> "service"])
    /\ UNCHANGED <<lf2, pool, live, bufs, Fixed, Image>>

\* UninstallMultipleProtocolInterfaces: every pair or none.
UninstallMultiple(h, pairs) ==
    /\ CanUninstall(prot, lf2, h, pairs)
    /\ prot' = Without(prot, h, Guids(pairs))
    /\ ghost' = [ghost EXCEPT !.given = {x \in @ : ~Disturbs(h, pairs, x)}]
    /\ Called([op |-> "service"])
    /\ UNCHANGED <<minted, lf2, pool, live, bufs, Fixed, Image>>

-----------------------------------------------------------------------------
(* The start.                                                               *)

\* raynu_f_stage_bootloader_from_volume, before the guest is entered: the file in one
\* page that nobody frees, its image of n pages, recorded as HANDLE_IMAGE with
\* image_started clear, a page for its FilePath, and LoadedImage when it can be
\* written.  No volume, a read or parse error ("file") or a PE load error ("image")
\* leaves the pages taken so far and the built-in test app, with no image on record.
StageBootloader(n, end, path, published) ==
    LET file  == Answer(NewPool, "any", LoaderType, 1, 0)
        got   == Taken(NewPool, file, LoaderType)
        image == Answer(got, "any", LoaderType, n, 0)
        both  == Taken(got, image, LoaderType)
        node  == Answer(both, "any", LoaderType, 1, 0)
        staged == file.st = "ok" /\ image.st = "ok" /\ end = "ok"
    IN  /\ pool = IF end = "none" THEN NewPool
                  ELSE IF file.st # "ok" \/ end = "file" THEN got
                  ELSE IF staged /\ path THEN Taken(both, node, LoaderType)
                  ELSE both
        /\ img = IF staged THEN [addr |-> image.addr, n |-> n, id |-> 1, ok |-> TRUE]
                 ELSE NoImage
        /\ prot = IF staged /\ published THEN Install(<<>>, ImageHandle, "LoadedImage", "li")
                  ELSE <<>>

\* FirmwareState::new() and the program that the launcher enters: the boot loader it
\* staged, or the test app.
ServInit ==
    /\ mapped \in 0 .. MaxMapped /\ live = {} /\ last = [op |-> "launch"]
    /\ guest \in {"memory", "images", "protocols"} /\ media \in {"disk", "cd"}
    /\ guest # "images" => media = "disk"
    /\ guest # "memory" => mapped = LoaderPages
    /\ \E n \in 1 .. 2, path, published \in BOOLEAN,
          end \in IF guest = "memory" THEN {"none"} ELSE {"none", "file", "image", "ok"} :
             StageBootloader(n, end, path, published)
    /\ media = "cd" => img.ok
    /\ minted = 0 /\ lf2 = Absent
    /\ bufs = {}
    /\ started = FALSE /\ ctx = 0
    /\ frames = <<img>>
    /\ grub = FALSE
    /\ ghost = [loads |-> 1, plain |-> FALSE, spoilt |-> FALSE, given |-> {}]

-----------------------------------------------------------------------------
(* Pool buffers.                                                            *)

\* AllocatePool, and LocateHandleBuffer for its result: one page with a header;
\* given back when the header or the caller's pointer cannot be written.
AllocatePool(stored) ==
    LET r == Answer(pool, "any", LoaderType, 1, 0) IN
    /\ r.st = "ok"
    /\ pool' = IF stored THEN Taken(pool, r, LoaderType)
               ELSE FreeAt(Taken(pool, r, LoaderType), r.addr, 1).pool
    /\ bufs' = IF stored THEN bufs \cup {[addr |-> r.addr, n |-> 1]} ELSE bufs
    /\ Called([op |-> "service"])
    /\ UNCHANGED <<live, ghost, Fixed, Protocols, Image>>

LocateHandleBuffer(stored) == DOMAIN prot # {} /\ AllocatePool(stored)

FreePool(x) ==
    /\ pool' = FreeAt(pool, x.addr, x.n).pool
    /\ bufs' = bufs \ {x}
    /\ Called([op |-> "service"])
    /\ UNCHANGED <<live, ghost, Fixed, Protocols, Image>>

-----------------------------------------------------------------------------
(* Images.                                                                  *)

\* File.Open of grubx64.efi on the install disk (note_grub_open).
OpenGrub ==
    /\ media = "disk"
    /\ grub' = TRUE
    /\ Called([op |-> "service"])
    /\ UNCHANGED <<pool, live, bufs, ghost, Fixed, Protocols, img, started, ctx, frames>>

\* LoadImage of an image of n pages.  It may end in a PE error, before the image is
\* recorded, or when LoadedImage or the caller's handle cannot be written, after it.
LoadImage(n, end) ==
    LET r   == Answer(pool, "any", LoaderType, n, 0)
        got == Taken(pool, r, LoaderType)
        r2  == Answer(got, "any", LoaderType, 1, 0)
        prefixed == grub /\ r2.st = "ok"
        all == IF prefixed THEN Taken(got, r2, LoaderType) ELSE got
    IN  /\ r.st = "ok" /\ ghost.loads < MaxLoads
        /\ IF end = "pe"
           THEN /\ pool' = FreeAt(got, r.addr, n).pool
                /\ UNCHANGED <<prot, img, grub, ghost>>
           ELSE /\ pool' = IF end = "ok" THEN all ELSE FreeAt(all, r.addr, n).pool
                /\ img' = [addr |-> r.addr, n |-> n, id |-> ghost.loads + 1, ok |-> end = "ok"]
                /\ grub' = (prefixed /\ end # "ok")
                /\ prot' = IF end = "publish" THEN prot
                           ELSE Install(prot, ImageHandle, "LoadedImage", "li")
                /\ ghost' = [ghost EXCEPT !.loads = @ + 1]
        /\ Called([op |-> "service"])
        /\ UNCHANGED <<live, bufs, Fixed, minted, lf2, started, ctx, frames>>

\* append_library_serial: on the library CD a page for the longer command line.
SerialPage(amended) ==
    LET r == Answer(pool, "any", LoaderType, 1, 0) IN
    IF media = "cd" /\ amended /\ r.st = "ok" THEN Taken(pool, r, LoaderType) ELSE pool

\* Mutant: the caller's context is saved for the outermost image only.
SavedFirst == IF started THEN ctx ELSE Len(frames)

\* The context of the caller, saved by the exit handler.
Saved == Len(frames)

\* StartImage.  A program starts an image that is not running already.
StartImage(amended) ==
    /\ img.addr # 0
    /\ img.id \notin {f.id : f \in ToSet(frames)} /\ Len(frames) < MaxDepth
    /\ pool' = SerialPage(amended)
    /\ started' = TRUE
    /\ ctx' = Saved
    /\ frames' = Append(frames, img)
    /\ ghost' = [ghost EXCEPT !.plain = FALSE, !.spoilt = @ \/ ~img.ok]
    /\ Called([op |-> "service"])
    /\ UNCHANGED <<live, bufs, Fixed, Protocols, img, grub>>

\* A started image returns with ret, as a call would; the firmware is not told.
ImageReturns ==
    /\ Len(frames) > 1
    /\ frames' = Front(frames)
    /\ ghost' = [ghost EXCEPT !.plain = TRUE]
    /\ Called([op |-> "service"])
    /\ UNCHANGED <<pool, live, bufs, Fixed, Protocols, img, started, ctx, grub>>

\* Exit: back to the saved context.  Beyond the stack that is a dead frame, and
\* where the guest goes on is unknown (no frames).
Exit ==
    /\ started
    /\ started' = FALSE
    /\ frames' = IF ctx <= Len(frames) THEN SubSeq(frames, 1, ctx) ELSE <<>>
    /\ Called([op |-> "exit"])
    /\ UNCHANGED <<pool, live, bufs, ghost, Fixed, Protocols, img, ctx, grub>>

\* Mutant: the record of the image is kept.
UnloadedKept == img

\* What UnloadImage leaves of the record.
Unloaded == NoImage

\* UnloadImage.  image_started is clear too while the program that the launcher entered
\* is the image on record: it may free the pages it runs in.
UnloadImage ==
    /\ ~started /\ img.addr # 0
    /\ pool' = FreeAt(pool, img.addr, img.n).pool
    /\ live' = IF img.ok THEN live
               ELSE {x \in live : Run(x.addr, x.n) \cap Run(img.addr, img.n) = {}}
    /\ prot' = Uninstall(prot, ImageHandle, "LoadedImage", "li")
    /\ img' = Unloaded
    /\ ghost' = [ghost EXCEPT !.spoilt = @ \/ ~img.ok \/ img = frames[1]]
    /\ Called([op |-> "service"])
    /\ UNCHANGED <<bufs, Fixed, minted, lf2, started, ctx, frames, grub>>

-----------------------------------------------------------------------------
\* What each guest program does.  The first tries every argument of the memory
\* services; the other two free what they were given.
Memory ==
    /\ \/ guest = "memory" /\ Next
       \/ guest = "images" /\ \E stored \in BOOLEAN : AllocatePages("any", LoaderType, 1, 0, stored)
       \/ guest = "images" /\ \E x \in live : FreePages(x.addr, x.n)
    /\ UNCHANGED <<guest, media, bufs, ghost, Protocols, Image>>

Images ==
    \/ \E stored \in BOOLEAN : AllocatePool(stored)
    \/ \E x \in bufs : FreePool(x)
    \/ OpenGrub
    \/ \E n \in 1 .. 2, end \in {"ok", "pe", "publish", "handle"} : LoadImage(n, end)
    \/ \E amended \in BOOLEAN : StartImage(amended)
    \/ ImageReturns
    \/ Exit
    \/ UnloadImage

Publish ==
    \/ \E h \in Handles \cup {NoHandle}, pairs \in PairLists, stored \in BOOLEAN :
          InstallMultiple(h, pairs, stored)
    \/ \E h \in Handles \cup {NoHandle}, pairs \in PairLists :
          InstallProtocol(h, pairs[1][1], pairs[1][2])
    \/ \E h \in Handles, pairs \in PairLists : UninstallMultiple(h, pairs)
    \/ \E stored \in BOOLEAN : LocateHandleBuffer(stored)
    \/ \E x \in bufs : FreePool(x)
    \/ \E end \in {"ok", "publish", "handle"} : LoadImage(1, end)
    \/ UnloadImage

\* A guest that jumped to a dead frame, freed the image it runs in, or used the record
\* of a failed load, is not followed further.
ServNext ==
    /\ frames # <<>> /\ ~ghost.spoilt
    /\ \/ Memory
       \/ guest = "images" /\ Images
       \/ guest = "protocols" /\ Publish

ServSpec == ServInit /\ [][ServNext]_fwVars

-----------------------------------------------------------------------------
(* Properties.                                                              *)

\* Who holds pages of the pool: the caller, pool buffers, the image on record and
\* the images on the stack.
Held ==
    {[who |-> <<"caller", 0>>, addr |-> x.addr, n |-> x.n] : x \in live}
    \cup {[who |-> <<"buffer", 0>>, addr |-> x.addr, n |-> x.n] : x \in bufs}
    \cup {[who |-> <<"image", x.id>>, addr |-> x.addr, n |-> x.n] : x \in {f \in ToSet(frames) : f.ok}}
    \cup {[who |-> <<"image", x.id>>, addr |-> x.addr, n |-> x.n] : x \in {f \in {img} : f.ok}}

\* Pages have one holder and stay allocated while they are held: no service frees or
\* hands out the pages of a buffer, of the caller, of the image on record or of a
\* running image, the boot loader that the launcher entered included, however images
\* replace each other on the record.  Two uses are excepted, and the guest is not
\* followed after them: UnloadImage by that boot loader while it is still the image on
\* record, and the use of the record of a LoadImage that failed (services.rs: "only a
\* loaded-and-not-running image can go").
OneHolder ==
    ~ghost.spoilt =>
        /\ \A x \in Held : \A p \in Run(x.addr, x.n) : PageType(p) # "free"
        /\ \A x, y \in Held : x = y \/ Run(x.addr, x.n) \cap Run(y.addr, y.n) = {}

\* An Exit that is accepted goes back to the program that started the exiting image
\* (guest_uefi.rs: "Unwind to the StartImage caller"), through nested images, unless
\* an image has returned by ret since the last StartImage: that leaves image_started
\* set and the saved context stale.
ExitReturnsToCaller ==
    [][last'.op = "exit" /\ ~ghost.plain => frames' = Front(frames)]_fwVars

\* What an InstallMultiple published can be taken back by naming the same pairs, the
\* initrd's LoadFile2 included, for which the table holds the firmware's shim; until
\* another call touches one of the pairs or another initrd is adopted.
InstalledCanBeUninstalled ==
    \A x \in ghost.given : CanUninstall(prot, lf2, x.h, x.pairs)
=============================================================================

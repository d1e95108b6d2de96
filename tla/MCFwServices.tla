---------------------------- MODULE MCFwServices ----------------------------
(***************************************************************************)
(* A pool of a few pages with fewer tail spans than tail pages; a data     *)
(* base of three slots, which a loaded image and two pairs fill.           *)
(***************************************************************************)
EXTENDS FwServices

MCTypes == {"data"}
MCBadTypes == {"reserved"}

\* GRUB's initrd and the same struct, or another one, without or with its path.
MCPairLists ==
    {<<<<"LoadFile2", "a">>>>,
     <<<<"LoadFile2", "a">>, <<"DevicePath", "initrd">>>>,
     <<<<"DevicePath", "initrd">>, <<"LoadFile2", "b">>>>}

\* The test app after the loader's image could not be loaded: otherwise it only has
\* more pages.  The protocol services need pages for one image or two buffers.
InUse == Cardinality({p \in Managed : PageType(p) # "free"})
MCInit ==
    /\ ServInit
    /\ guest = "images" => InUse > 1
    /\ guest = "protocols" => InUse > 2
MCSpec == MCInit /\ [][ServNext]_fwVars

\* No action reads the ghost last, and every step is checked before it is dropped.
WithoutLast == <<mapped, pool, live, guest, media, prot, minted, lf2, bufs, img,
                 started, ctx, frames, grub, ghost>>
=============================================================================

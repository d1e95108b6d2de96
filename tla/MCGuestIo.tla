----------------------------- MODULE MCGuestIo -----------------------------
EXTENDS GuestIo

Guest(order, phases, apic, lapic) ==
    [order : {order}, phase : phases, apic : apic, lapic : lapic]

\* The order PCI probing gives: functions 00:02.0, 00:03.0, then the network card.
\* The product ISO in both interrupt modes while the console answers run; without the
\* network card, or without the ISO (an installed image), the local APIC too.
ProbeOrder ==
    Guest(<<"disk", "iso", "net">>, {"login", "mounted", "packages"}, BOOLEAN, {FALSE})
      \cup Guest(<<"disk", "iso">>, {"login"}, BOOLEAN, {TRUE})
      \cup Guest(<<"disk", "net">>, {"done"}, BOOLEAN, {TRUE})
=============================================================================

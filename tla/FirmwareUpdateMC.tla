-------------------------- MODULE FirmwareUpdateMC --------------------------
(* FirmwareUpdate, where two clients at once have short images and no other *)
(* fault than a power failure follows.                                      *)
EXTENDS FirmwareUpdate

ShortWhenTwo ==
    "second" \in seen =>
        /\ seen \subseteq {"power", "second"} /\ faults <= 2
        /\ \A a \in DOMAIN images : images[a].sam <= 3 /\ images[a].mdm <= 3
=============================================================================

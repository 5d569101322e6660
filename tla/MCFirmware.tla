----------------------------- MODULE MCFirmware -----------------------------
(* Two atoms, the S3 and a board that boards.toml does not permit.          *)
EXTENDS Firmware

CONSTANTS s1, s2, atomA, atomB

MCSuite == s1 :> {"soak", "l2cap"} @@ s2 :> {"dos_floor"}
\* One of the scenarios that build before they ask for the lock.
MCUnlocked == s1 :> {"soak"} @@ s2 :> {"mcu_to_mcu"}
MCQuiesceMap == <<atomA, atomB>>

ASSUME SuiteAssumption == SeparateBuilds <=> Suite = MCSuite
=============================================================================

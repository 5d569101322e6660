----------------------------- MODULE MCLabDaemon -----------------------------
(* Small sessions of LabDaemon: one or two objects, at most two outsiders.  *)
EXTENDS LabDaemon

CONSTANTS legit, rogue, old, labPort, roguePort

OnePort == [d \in {legit} |-> labPort]
TwoPorts == [d \in {legit, rogue} |-> IF d = legit THEN labPort ELSE roguePort]
=============================================================================

----------------------------- MODULE MCLabRunner -----------------------------
(* A scenario over a systemd node the lab controls and one whose commands    *)
(* may time out.                                                             *)
EXTENDS LabRunner

Setting(restarts, keys, stops, samples, captures, d) ==
    [restart |-> restarts, keylog |-> keys, stop |-> stops,
     rssi |-> samples, capture |-> captures, dry |-> d, publish |-> FALSE]

\* lab-2node-ble restarts the nodes and samples RSSI, lab-3node-isolated
\* captures without a restart, both leave the nodes up; the other settings
\* without threads, dry runs too, and one of them published.  Bound: RSSI and
\* captures not in one run.
Settings ==
    {Setting(TRUE, TRUE, FALSE, TRUE, FALSE, FALSE),
     Setting(FALSE, TRUE, FALSE, FALSE, TRUE, FALSE)}
    \cup {Setting(r, k, TRUE, FALSE, FALSE, d) : r, k, d \in BOOLEAN}
    \cup {[Setting(FALSE, TRUE, TRUE, FALSE, FALSE, FALSE) EXCEPT !.publish = TRUE]}
=============================================================================

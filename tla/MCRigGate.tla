------------------------------ MODULE MCRigGate ------------------------------
(* One link handshake and one session handshake, a few datagrams.           *)
EXTENDS RigGate
CONSTANTS ik, xk
=============================================================================

----------------------------- MODULE MCAcceptor -----------------------------
(***************************************************************************)
(* Model-checking instance of Acceptor: two slots, a limit of two          *)
(* connections, and one connection identity more than the limit, so that   *)
(* exceeding it is possible.                                               *)
(***************************************************************************)
EXTENDS Acceptor

CONSTANTS k1, k2, k3

MCSlots == {0, 1}
MCConns == {k1, k2, k3}
MCAllFaults == {"deny", "endpoint", "accept", "create"}
MCDeny == {"deny"}
=============================================================================

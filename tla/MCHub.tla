-------------------------------- MODULE MCHub --------------------------------
(***************************************************************************)
(* A small instance of Hub.                                                *)
(***************************************************************************)
EXTENDS Hub, TLC

CONSTANTS t1, c1, c2, c3, w1, w2, m1, m2, m3

OneTopic == [c \in Conns |-> t1]

=============================================================================

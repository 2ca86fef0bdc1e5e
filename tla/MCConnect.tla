------------------------------ MODULE MCConnect -------------------------------
(***************************************************************************)
(* Three players with one online thread, with and without factories and    *)
(* the OT thread, but not with both.                                       *)
(***************************************************************************)
EXTENDS ConnectProps

MCSystems == {[online |-> 1, fhe |-> 0, ot |-> 0], [online |-> 1, fhe |-> 0, ot |-> 1], [online |-> 1, fhe |-> 2, ot |-> 0]}
=============================================================================

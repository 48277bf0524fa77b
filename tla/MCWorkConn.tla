----------------------------- MODULE MCWorkConn -----------------------------
(***************************************************************************)
(* Instances of WorkConn for TLC.                                          *)
(***************************************************************************)
EXTENDS WorkConn, TLC

Symmetry == Permutations(User) \cup Permutations(Conn)
=============================================================================

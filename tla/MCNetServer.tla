---------------------------- MODULE MCNetServer ----------------------------
(* Instances of NetServer for TLC. *)
EXTENDS NetServer, TLC

Interchangeable == Permutations(Conn)
=============================================================================

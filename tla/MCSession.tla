----------------------------- MODULE MCSession -----------------------------
(* Instances of Session for TLC. *)
EXTENDS Session, TLC

ConnSymmetry == Permutations(Conn)
=============================================================================

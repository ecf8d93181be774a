----------------------------- MODULE MCObjects -----------------------------
(* Two threads and one object of one class, for TLC. *)
EXTENDS ObjectSystem
MCParent == [c \in Class |-> BaseClass]
=============================================================================

---- MODULE MCVisitorMemory ----
(* A small instance of VisitorMemory for TLC. *)
EXTENDS VisitorMemory, TLC

\* Facts and workers are interchangeable.
MemorySymmetry == Permutations(Facts) \cup Permutations(Workers)
====

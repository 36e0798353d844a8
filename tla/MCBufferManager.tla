-------------------------- MODULE MCBufferManager --------------------------
(* Instances of BufferManager for TLC.  Holders are interchangeable, and so *)
(* are the contents they write.                                             *)
EXTENDS BufferManager, TLC

Symmetry == Permutations(Clients) \cup Permutations(Values)

=============================================================================

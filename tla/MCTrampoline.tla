--------------------------- MODULE MCTrampoline ---------------------------
(* Instances of Trampoline for TLC.                                        *)
EXTENDS Trampoline

(* Trampolines are interchangeable memory.                                 *)
Memory == Permutations(Trampolines)
=============================================================================

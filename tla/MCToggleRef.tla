---------------------------- MODULE MCToggleRef ----------------------------
(* Instances of ToggleRef for TLC.                                         *)
EXTENDS ToggleRef

(* Bound: idle operations queued at once, all objects together.  Only runs *)
(* with several threads can exceed it.                                     *)
CONSTANT MaxQueue

QueueBound == Len(queue) <= MaxQueue

(* Every thread but the main one may be exchanged for another.             *)
OtherThreads == Permutations(Threads \ {Main})
=============================================================================

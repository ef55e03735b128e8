------------------------------- MODULE MCDBus -------------------------------
(***************************************************************************)
(* A proxy of one property with two values, whose program waits in loops   *)
(* of two names.                                                           *)
(***************************************************************************)
EXTENDS DBus
=============================================================================

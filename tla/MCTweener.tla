----------------------------- MODULE MCTweener -----------------------------
(* Instances of Tweener for TLC.                                           *)
EXTENDS Tweener

CONSTANTS x, y

Tween(props, delay, duration) ==
    [props |-> props, count |-> 0, waitFrames |-> FALSE, delay |-> delay, duration |-> duration]
Caller(count, waitFrames, duration) ==
    [props |-> {}, count |-> count, waitFrames |-> waitFrames, delay |-> 0, duration |-> duration]

(* A tween and a caller of every kind the code tells apart: immediate,     *)
(* over in the next frame or later, delayed; one property or both.         *)
FewRequests ==
    {Tween({x}, 0, 0), Tween({x}, 1, 1), Tween({x, y}, 0, 2),
     Caller(3, FALSE, 2), Caller(2, TRUE, 1)}
=============================================================================

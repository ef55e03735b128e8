----------------------------- MODULE RootMirror -----------------------------
(***************************************************************************)
(* What the toggle-reference machinery of gi/object.cpp promises, with no  *)
(* reference counts, threads or main loop in sight: the garbage-collector  *)
(* root of a wrapper is a delayed copy of "something besides the wrapper   *)
(* holds the GObject".  Each change of that fact is news for the main      *)
(* loop; news is delivered in order, and while the news that an object     *)
(* became shared is still on its way the object stays shared               *)
(* (queue_toggle_idle takes a reference for exactly that purpose).         *)
(***************************************************************************)
EXTENDS Sequences

CONSTANT Objects

VARIABLES
    wrapped,    \* wrapped[o]: a wrapper is associated with o
    shared,     \* shared[o]: a reference besides the wrapper's own exists
    rooted,     \* rooted[o]: the wrapper is in the keep-alive
    news        \* news[o]: the changes of shared[o] not yet acted upon

vars == <<wrapped, shared, rooted, news>>

(* The only queues of news the comment in queue_toggle_idle admits.        *)
LegalNews == {<<>>, <<"UP">>, <<"DOWN">>, <<"DOWN", "UP">>}

Init ==
    /\ wrapped = [o \in Objects |-> FALSE]
    /\ shared  = [o \in Objects |-> FALSE]
    /\ rooted  = [o \in Objects |-> FALSE]
    /\ news    = [o \in Objects |-> <<>>]

(* A new wrapper starts shared and rooted, with nothing to report.         *)
Associate(o) ==
    /\ ~wrapped[o]
    /\ wrapped' = [wrapped EXCEPT ![o] = TRUE]
    /\ shared'  = [shared EXCEPT ![o] = TRUE]
    /\ rooted'  = [rooted EXCEPT ![o] = TRUE]
    /\ UNCHANGED news

Share(o) ==
    /\ wrapped[o] /\ ~shared[o]
    /\ shared' = [shared EXCEPT ![o] = TRUE]
    /\ news'   = [news EXCEPT ![o] = Append(@, "UP")]
    /\ UNCHANGED <<wrapped, rooted>>

Unshare(o) ==
    /\ shared[o] /\ news[o] = <<>>
    /\ shared' = [shared EXCEPT ![o] = FALSE]
    /\ news'   = [news EXCEPT ![o] = <<"DOWN">>]
    /\ UNCHANGED <<wrapped, rooted>>

Deliver(o) ==
    /\ news[o] # <<>>
    /\ rooted' = [rooted EXCEPT ![o] = Head(news[o]) = "UP"]
    /\ news'   = [news EXCEPT ![o] = Tail(@)]
    /\ UNCHANGED <<wrapped, shared>>

Next == \E o \in Objects : Associate(o) \/ Share(o) \/ Unshare(o) \/ Deliver(o)

Fairness == \A o \in Objects : WF_vars(Deliver(o))

SafetySpec == Init /\ [][Next]_vars

Spec == SafetySpec /\ Fairness

-----------------------------------------------------------------------------
TypeOK ==
    /\ wrapped \in [Objects -> BOOLEAN]
    /\ shared \in [Objects -> BOOLEAN]
    /\ rooted \in [Objects -> BOOLEAN]
    /\ news \in [Objects -> LegalNews]

(* Once all news is delivered the wrapper is rooted exactly when the       *)
(* object is shared; the two disagree only while news is on its way, and   *)
(* the last piece of news always tells the present state.                  *)
NewsTellsTheTruth ==
    \A o \in Objects :
        /\ news[o] = <<>> => (shared[o] <=> rooted[o])
        /\ news[o] = <<"DOWN">> => ~shared[o]
        /\ news[o] \in {<<"UP">>, <<"DOWN", "UP">>} => shared[o]
=============================================================================

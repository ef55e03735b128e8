------------------------------- MODULE Tweener -------------------------------
(***************************************************************************)
(* modules/tweener/tweener.js and tweenList.js: the list of tweens and the *)
(* engine that walks it once a frame, with the default FrameTicker.        *)
(*                                                                         *)
(* Tweener calls the user back in the middle of its loops (onStart,        *)
(* onUpdate, onComplete while it updates a tween, onOverwrite while a new  *)
(* tween displaces an old one) and remembers indices of _tweenList across  *)
(* those calls.  A callback may do whatever code outside one may, and      *)
(* throw; logError does not exist, so what a callback throws goes on to    *)
(* whoever called Tweener.  Code between two callbacks is one step.  A     *)
(* callback that was not given is one that returns at once.                *)
(*                                                                         *)
(* Time is counted in frames.  Property values, transitions, special       *)
(* properties and the time scale are left out.  addTween on a list of      *)
(* scopes is a call for each; pausing, resuming and removing stop after    *)
(* the first scope affected, so they are calls for some of them in turn.   *)
(* Callbacks do not run nested main loops.                                 *)
(***************************************************************************)
EXTENDS Integers, FiniteSets, SequencesExt

CONSTANTS
    Scopes,         \* objects that are animated
    Properties,     \* their properties
    Requests,       \* the arguments of addTween and addCaller
    MaxTweens,      \* bound: tweens made
    MaxTime,        \* bound: the clock stops there, and tweens end by then
    MaxDepth        \* bound: callbacks within callbacks

(* count is 0 for addTween, for addCaller how often the callback is called,*)
(* at the latest in one frame or once a frame (waitFrames).                *)
ASSUME TweenerAssumption ==
    /\ {MaxTweens, MaxTime, MaxDepth} \subseteq Nat
    /\ \A r \in Requests :
        /\ r.props \subseteq Properties /\ r.count \in Nat /\ r.waitFrames \in BOOLEAN
        /\ r.delay \in Nat /\ r.duration \in Nat
        /\ r.props = {} <=> r.count > 0

VARIABLES
    tweens,         \* every TweenList object made, by its number
    _tweenList,     \* numbers of them; Removed for null
    _engineExists,
    ticker,         \* the ticker's timeout source is attached ("on"), or GLib
                    \* removed it after an exception ("dead")
    now,            \* _ticker.getTime()
    walk,           \* index of _updateTweens' loop; 0 when it does not run
    stack           \* callbacks running, innermost first

vars == <<tweens, _tweenList, _engineExists, ticker, now, walk, stack>>

Removed == 0
Ids == 1..MaxTweens

Fates == {"new", "listed", "removed", "completed"}

(* shifted and fate are not in the code: the tween was moved in time by    *)
(* resuming it; where it is or what became of it.                          *)
Tweens == [scope : Scopes, props : SUBSET Properties,
           timeStart : 0..MaxTime, timeComplete : 0..MaxTime,
           isPaused : BOOLEAN, timePaused : 0..MaxTime, hasStarted : BOOLEAN,
           count : Nat, timesCalled : Nat, waitFrames : BOOLEAN,
           shifted : BOOLEAN, fate : Fates]
Garbage == [fate : Fates]

(* Callbacks: what is called and at which index of _tweenList; tween is    *)
(* the one updated, or the new one for onOverwrite; walking tells an       *)
(* update in _updateTweens from one in _addTweenOrCaller.                  *)
Frames == [calls : {"onStart", "onUpdate", "onCall", "onComplete", "onOverwrite"},
           tween : Ids, at : Nat \ {0}, walking : BOOLEAN]

Init ==
    /\ tweens = <<>> /\ _tweenList = <<>>
    /\ _engineExists = FALSE /\ ticker = "off" /\ now = 0
    /\ walk = 0 /\ stack = <<>>

(* User code runs: outside of Tweener, or in the innermost callback.       *)
User == walk = 0 \/ stack # <<>>

Slots == DOMAIN _tweenList
Present(list) == {i \in DOMAIN list : list[i] # Removed}
Over(tw) == now >= tw.timeComplete

Frame(calls, id, at, walking) ==
    [calls |-> calls, tween |-> id, at |-> at, walking |-> walking]
Top == Head(stack)
Calling(what) == stack # <<>> /\ Top.calls = what

Fate(tws, ids, fate) ==
    [id \in DOMAIN tws |-> IF id \in ids THEN [tws[id] EXCEPT !.fate = fate] ELSE tws[id]]

(* Of an object that nothing refers to any more only the fate is kept.     *)
Referred(list, callbacks) ==
    ToSet(list) \union {callbacks[k].tween : k \in DOMAIN callbacks}
Collected(tws, list, callbacks) ==
    [id \in DOMAIN tws |->
        IF id \in Referred(list, callbacks) THEN tws[id] ELSE [fate |-> tws[id].fate]]

(* The tweens, the list and the callbacks after a step.                    *)
Become(tws, list, callbacks) ==
    /\ tweens' = Collected(tws, list, callbacks)
    /\ _tweenList' = list
    /\ stack' = callbacks

-----------------------------------------------------------------------------
(* _removeTweenByIndex without finalRemoval: the slots stay.               *)
_removeTweenByIndex(list, slots) ==
    [i \in DOMAIN list |-> IF i \in slots THEN Removed ELSE list[i]]

(* Mutant: a tween that is over stays in its slot.                         *)
mutant_over_stays(tws, i, walking, goesOn, callbacks) ==
    /\ Become(tws, _tweenList, callbacks)
    /\ walk' = IF walking THEN walk + 1 ELSE walk

(* _updateTweenByIndex(i), cut at its callbacks, returns goesOn.  After an *)
(* update _updateTweens splices the slot out if the tween is over or was   *)
(* removed meanwhile; _addTweenOrCaller always leaves a null there.        *)
UpdateReturns(tws, i, walking, goesOn, callbacks) ==
    LET list == IF goesOn /\ walking THEN _tweenList ELSE _removeTweenByIndex(_tweenList, {i})
    IN \/ /\ walking /\ list[i] = Removed
          /\ Become(tws, RemoveAt(list, i), callbacks)
          /\ UNCHANGED walk
       \/ /\ walking /\ list[i] # Removed
          /\ Become(tws, list, callbacks)
          /\ walk' = walk + 1
       \/ /\ ~walking
          /\ Become(tws, list, callbacks)
          /\ UNCHANGED walk

(* A caller is due for its next call (with a linear transition).           *)
Due(tw, called) ==
    (now - tw.timeStart) * tw.count >= (tw.timeComplete - tw.timeStart) * (called + 1)

(* The first callback for a tween that is in its time; skipUpdates may let *)
(* one pass that has started and is not over.                              *)
FirstCallback(tw) ==
    IF tw.count > 0 THEN "onCall" ELSE IF tw.hasStarted THEN "onUpdate" ELSE "onStart"
Passes(tw) ==
    \/ now < tw.timeStart
    \/ tw.count > 0 /\ ~Due(tw, tw.timesCalled)
MayPass(tw) == Passes(tw) \/ (tw.count = 0 /\ tw.hasStarted /\ ~Over(tw))

onStart_returns ==
    /\ Calling("onStart")
    /\ tweens' = [tweens EXCEPT ![Top.tween].hasStarted = TRUE]
    /\ stack' = [stack EXCEPT ![1].calls = "onUpdate"]
    /\ UNCHANGED <<_tweenList, walk>>

onUpdate_returns ==
    /\ Calling("onUpdate")
    /\ \/ /\ Over(tweens[Top.tween])
          /\ stack' = [stack EXCEPT ![1].calls = "onComplete"]
          /\ UNCHANGED <<tweens, _tweenList, walk>>
       \/ /\ ~Over(tweens[Top.tween])
          /\ UpdateReturns(tweens, Top.at, Top.walking, TRUE, Tail(stack))

(* onUpdate of a caller: the loop makes up for the calls it is behind with.*)
(* A caller without time and delay that waits for frames gets one call:    *)
(* _addTweenOrCaller removes it.                                           *)
onCall_returns ==
    /\ Calling("onCall")
    /\ LET called == tweens[Top.tween].timesCalled + 1
           tws == [tweens EXCEPT ![Top.tween].timesCalled = called]
           tw  == tws[Top.tween]
           more == ~tw.waitFrames /\ Due(tw, called)
       IN \/ /\ called >= tw.count
             /\ Become(tws, _tweenList, [stack EXCEPT ![1].calls = "onComplete"])
             /\ UNCHANGED walk
          \/ /\ called < tw.count /\ more
             /\ Become(tws, _tweenList, stack)
             /\ UNCHANGED walk
          \/ /\ called < tw.count /\ ~more
             /\ UpdateReturns(IF Top.walking THEN tws ELSE Fate(tws, {Top.tween}, "removed"),
                              Top.at, Top.walking, TRUE, Tail(stack))

onComplete_returns ==
    /\ Calling("onComplete")
    /\ UpdateReturns(Fate(tweens, {Top.tween}, "completed"),
                     Top.at, Top.walking, FALSE, Tail(stack))

-----------------------------------------------------------------------------
(* The engine.                                                             *)

(* A call starts the engine if there is none, and its clock with it.       *)
_startEngine ==
    /\ _engineExists' = TRUE
    /\ ticker' = IF _engineExists THEN ticker ELSE "on"
    /\ now' = IF _engineExists THEN now ELSE 0

(* Mutant: _engineExists is not reset.                                     *)
mutant_stop_keeps_flag == ticker' = "off" /\ now' = 0 /\ UNCHANGED _engineExists

_stopEngine == _engineExists' = FALSE /\ ticker' = "off" /\ now' = 0

(* No slot is left, not even one of a paused tween.                        *)
NoTweens == _tweenList = <<>>

(* The timeout source: _onEnterFrame, up to the loop of _updateTweens.     *)
_onEnterFrame ==
    /\ stack = <<>> /\ walk = 0 /\ ticker = "on"
    /\ \/ /\ ~NoTweens
          /\ now' = IF now < MaxTime THEN now + 1 ELSE now
          /\ walk' = 1
          /\ UNCHANGED <<_engineExists, ticker>>
       \/ /\ NoTweens
          /\ _stopEngine
          /\ UNCHANGED walk
    /\ UNCHANGED <<tweens, _tweenList, stack>>

_updateTweens ==
    /\ walk # 0 /\ stack = <<>>
    /\ \/ /\ walk > Len(_tweenList)
          /\ walk' = 0
          /\ UNCHANGED <<tweens, _tweenList, stack>>
       \/ /\ walk \in Slots /\ _tweenList[walk] = Removed
          /\ UpdateReturns(tweens, walk, TRUE, FALSE, stack)
       \/ /\ walk \in Present(_tweenList)
          /\ LET tw == tweens[_tweenList[walk]] IN
              \/ /\ tw.isPaused \/ MayPass(tw)
                 /\ walk' = walk + 1
                 /\ UNCHANGED stack
              \/ /\ ~tw.isPaused /\ ~Passes(tw)
                 /\ stack' = <<Frame(FirstCallback(tw), _tweenList[walk], walk, TRUE)>>
                 /\ UNCHANGED walk
          /\ UNCHANGED <<tweens, _tweenList>>
    /\ UNCHANGED <<_engineExists, ticker, now>>
-----------------------------------------------------------------------------
(* addTween and addCaller.                                                 *)

(* The slots from i on that a new tween displaces: removeTweensByTime.     *)
(* Mutant: a tween that starts after the new one is not looked at.         *)
mutant_concurrent(a, b) == a.timeStart >= b.timeStart /\ a.timeStart < b.timeComplete
Concurrent(a, b) == a.timeComplete > b.timeStart /\ a.timeStart < b.timeComplete
Conflict(a, b) ==
    a.scope = b.scope /\ Concurrent(a, b) /\ a.props \intersect b.props # {}
Displaced(tws, list, id, from) ==
    {i \in Present(list) : i >= from /\ Conflict(tws[id], tws[list[i]])}

(* removeTweensByTime from slot from on, then the push and, for a tween    *)
(* without time and delay, its one update.  rest is what the stack is when *)
(* addTween returns.                                                       *)
AddFrom(tws, list, id, from, time, rest) ==
    LET displaced == Displaced(tws, list, id, from)
        immediate == tws[id].timeComplete = time
    IN \/ /\ displaced # {}
          /\ Become(tws, list, <<Frame("onOverwrite", id, Min(displaced), FALSE)>> \o rest)
       \/ /\ displaced = {}
          /\ Become(Fate(tws, {id}, "listed"), Append(list, id),
                    IF immediate
                    THEN <<Frame(FirstCallback(tws[id]), id, Len(list) + 1, FALSE)>> \o rest
                    ELSE rest)

_addTweenOrCaller(scope, r) ==
    /\ User
    /\ Len(tweens) < MaxTweens /\ Len(stack) < MaxDepth
    /\ _startEngine
    /\ LET tw == [scope |-> scope, props |-> r.props,
                  timeStart |-> now' + r.delay, timeComplete |-> now' + r.delay + r.duration,
                  isPaused |-> FALSE, timePaused |-> 0, hasStarted |-> FALSE,
                  count |-> r.count, timesCalled |-> 0, waitFrames |-> r.waitFrames,
                  shifted |-> FALSE, fate |-> "new"]
       IN /\ tw.timeComplete <= MaxTime
          /\ AddFrom(Append(tweens, tw), _tweenList, Len(tweens) + 1, 1, now', stack)
    /\ UNCHANGED walk

(* onOverwrite returns into removeTweensByTime.  If it emptied the slot,   *)
(* the next access to it is a TypeError, and addTween ends there.          *)
onOverwrite_returns ==
    /\ Calling("onOverwrite")
    /\ LET old == _tweenList[Top.at] IN
        \/ /\ old = Removed
           /\ Become(tweens, _tweenList, Tail(stack))
        \/ /\ old # Removed
           /\ LET left == tweens[old].props \ tweens[Top.tween].props
                  gone == IF left = {} THEN {old} ELSE {}
                  tws  == [tweens EXCEPT ![old].props = left]
              IN AddFrom(Fate(tws, gone, "removed"),
                         _removeTweenByIndex(_tweenList, {i \in Slots : _tweenList[i] \in gone}),
                         Top.tween, Top.at + 1, now, Tail(stack))
    /\ UNCHANGED walk

-----------------------------------------------------------------------------
(* pauseTweens, resumeTweens, removeTweens.                                *)

(* The k-th of a set of slots.                                             *)
Nth(S, k) == CHOOSE i \in S : Cardinality({j \in S : j <= i}) = k

clone(tw, props) == [tw EXCEPT !.props = @ \intersect props]

(* What _affectTweens applies its function to, in a call for properties    *)
(* props of scope ({}: all of them).  A tween with other properties too is *)
(* split: a clone at the end of the list takes those affected; the loop    *)
(* then comes to the clone, for which the function does nothing more.      *)
(* Reading the properties of a caller is a TypeError that ends the loop.   *)
_affectTweens(scope, props) ==
    LET Its(i)  == _tweenList[i] # Removed /\ tweens[_tweenList[i]].scope = scope
        reached == {i \in Slots : Its(i) /\ (props # {} => \A j \in 1..i :
                        Its(j) => tweens[_tweenList[j]].count = 0)}
        Of(i)   == tweens[_tweenList[i]].props
        whole   == {i \in reached : props = {} \/ (Of(i) \subseteq props /\ Of(i) # {})}
        split   == {i \in reached \ whole : Of(i) \intersect props # {}}
        added   == 1..Cardinality(split)
        ids     == {_tweenList[i] : i \in split}
        clones  == [k \in added |-> clone(tweens[_tweenList[Nth(split, k)]], props)]
        rests   == [id \in DOMAIN tweens |->
                        IF id \in ids THEN [tweens[id] EXCEPT !.props = @ \ props] ELSE tweens[id]]
    IN [tweens |-> rests \o clones,
        list |-> _tweenList \o [k \in added |-> Len(tweens) + k],
        affected |-> whole \union {Len(_tweenList) + k : k \in added}]

_mapOverTweens == [tweens |-> tweens, list |-> _tweenList, affected |-> Present(_tweenList)]

_resumeTweenByIndex(tw) ==
    LET paused == now - tw.timePaused IN
    IF tw.isPaused
    THEN [tw EXCEPT !.timeStart = @ + paused, !.timeComplete = @ + paused,
                    !.timePaused = 0, !.isPaused = FALSE, !.shifted = @ \/ paused > 0]
    ELSE tw

_pauseTweenByIndex(tw) ==
    IF tw.isPaused THEN tw ELSE [tw EXCEPT !.timePaused = now, !.isPaused = TRUE]

(* a is one of the two above.                                              *)
Changed(a, Change(_)) ==
    LET ids == {a.list[i] : i \in a.affected} IN
    [id \in DOMAIN a.tweens |-> IF id \in ids THEN Change(a.tweens[id]) ELSE a.tweens[id]]

pauseTweens(a) == Become(Changed(a, _pauseTweenByIndex), a.list, stack)

resumeTweens(a) ==
    LET tws == Changed(a, _resumeTweenByIndex) IN
    /\ \A i \in a.affected : tws[a.list[i]].timeComplete <= MaxTime
    /\ Become(tws, a.list, stack)

removeTweens(a) ==
    Become(Fate(a.tweens, {a.list[i] : i \in a.affected}, "removed"),
           _removeTweenByIndex(a.list, a.affected), stack)

Affect(a) ==
    /\ User
    /\ Len(a.tweens) <= MaxTweens
    /\ pauseTweens(a) \/ resumeTweens(a) \/ removeTweens(a)
    /\ UNCHANGED <<_engineExists, ticker, now, walk>>

-----------------------------------------------------------------------------
(* A callback ends.                                                        *)

CallbackReturns ==
    /\ onStart_returns \/ onUpdate_returns \/ onCall_returns \/ onComplete_returns
        \/ onOverwrite_returns
    /\ UNCHANGED <<_engineExists, ticker, now>>

(* _callOnFunction catches the exception, and its logError is another one. *)
(* Out of addTween it reaches the user's code; out of _updateTweens it     *)
(* goes through emit to the ticker's timeout function, whose result is     *)
(* then FALSE, and GLib removes the source.                                *)
_callOnFunction ==
    /\ stack # <<>>
    /\ Become(tweens, _tweenList, Tail(stack))
    /\ \/ /\ Top.walking
          /\ walk' = 0 /\ ticker' = "dead"
       \/ /\ ~Top.walking
          /\ UNCHANGED <<walk, ticker>>
    /\ UNCHANGED <<_engineExists, now>>

Next ==
    \/ \E s \in Scopes, r \in Requests : _addTweenOrCaller(s, r)
    \/ Affect(_mapOverTweens)
    \/ \E s \in Scopes, props \in SUBSET Properties : Affect(_affectTweens(s, props))
    \/ CallbackReturns
    \/ _callOnFunction
    \/ _onEnterFrame \/ _updateTweens

(* The main loop dispatches the ticker's source, loops go on, callbacks    *)
(* return; nobody has to call Tweener or to throw.                         *)
Spec == Init /\ [][Next]_vars
        /\ WF_vars(_onEnterFrame) /\ WF_vars(_updateTweens) /\ WF_vars(CallbackReturns)

-----------------------------------------------------------------------------
TypeOK ==
    /\ tweens \in Seq(Tweens \union Garbage) /\ Len(tweens) <= MaxTweens
    /\ _tweenList \in Seq({Removed} \union DOMAIN tweens)
    /\ \A i \in Present(_tweenList) : tweens[_tweenList[i]] \in Tweens
    /\ _engineExists \in BOOLEAN /\ ticker \in {"off", "on", "dead"}
    /\ now \in 0..MaxTime
    /\ walk \in 0..(Len(_tweenList) + 1)
    /\ stack \in Seq(Frames)

(* A tween is in the list, once, from the push until it was removed, was   *)
(* displaced or has called onComplete: no walk, splice, split or exception *)
(* loses one, keeps one that is completed or lists one twice.              *)
ListedOnce ==
    /\ \A id \in DOMAIN tweens : tweens[id].fate = "listed" <=> id \in ToSet(_tweenList)
    /\ \A i, j \in Present(_tweenList) : _tweenList[i] = _tweenList[j] => i = j

(* While a callback runs, the index remembered for its return still is the *)
(* slot of its tween, whatever it did to the list: the tween is there or   *)
(* was removed.                                                            *)
SlotsStable ==
    \A k \in DOMAIN stack :
        LET f == stack[k] IN
        /\ f.at \in Slots
        /\ f.calls # "onOverwrite" => _tweenList[f.at] \in {Removed, f.tween}
        /\ f.walking => f.at = walk /\ k = Len(stack)

(* "Remove other tweenings that occur at the same time" (tweener.js:578):  *)
(* two tweens of the list never animate one property at the same time,     *)
(* also when onOverwrite adds, splits and removes tweens in the middle of  *)
(* it - unless one was moved in time by a pause.                           *)
OneTweenPerProperty ==
    \A i, j \in Present(_tweenList) :
        LET a == tweens[_tweenList[i]]  b == tweens[_tweenList[j]] IN
        i < j /\ ~a.shifted /\ ~b.shifted => ~Conflict(a, b)

(* The engine's clock is not reset under a tween: as long as anything is   *)
(* listed, paused tweens included, the engine exists, and a paused tween   *)
(* was paused in the past of this clock.                                   *)
ClockOutlivesTweens ==
    \A i \in Present(_tweenList) :
        /\ _engineExists
        /\ tweens[_tweenList[i]].isPaused => tweens[_tweenList[i]].timePaused <= now

(* The list, the indices into it and the clock survive every callback.     *)
ListSound == TypeOK /\ ListedOnce /\ SlotsStable /\ ClockOutlivesTweens

(* A tween that is not paused ends, or is paused or removed: the engine is *)
(* started when it is needed, stopped when it is not and started again,    *)
(* and no index skips a tween for ever.  An exception in a callback of a   *)
(* frame, though, stops the ticker for good.                               *)
Running(id) ==
    id \in DOMAIN tweens /\ tweens[id].fate = "listed" /\ ~tweens[id].isPaused /\ ticker # "dead"
EveryTweenEnds == \A id \in Ids : Running(id) ~> ~Running(id)
=============================================================================

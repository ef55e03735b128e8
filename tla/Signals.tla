------------------------------ MODULE Signals ------------------------------
(***************************************************************************)
(* modules/signals.js on one emitter: connect, disconnect, disconnectAll   *)
(* and emit, with callbacks that re-enter them.  JavaScript runs on one    *)
(* thread, so the interleaving is that of nested calls: between two        *)
(* handlers of an emission the running callback may connect, disconnect    *)
(* or emit again.                                                          *)
(*                                                                         *)
(* The catch clause of emit calls logError, and context.cpp:431 defines    *)
(* that global under the name logErrpr: the clause itself throws, so an    *)
(* exception that leaves a callback leaves emit as well.                   *)
(***************************************************************************)
EXTENDS Integers, FiniteSets, SequencesExt

CONSTANTS
    Names,              \* signal names
    MaxId,              \* bound: connections ever made
    MaxDepth            \* bound: emissions inside one another

ASSUME SignalsAssumption == MaxId \in Nat /\ MaxDepth \in Nat

VARIABLES
    _signalConnections, \* ids of the connections, in array order
    _nextConnectionId,  \* 0: the machinery is not instantiated yet
    name,               \* name[id]: the signal connection id is for
    disconnected,       \* ids of connection records with the flag set
    emissions,          \* calls of emit in progress, innermost first
    throwing            \* an exception is on its way to a callback's caller

table == <<_signalConnections, _nextConnectionId, name, disconnected>>
vars  == <<table, emissions, throwing>>

Ids == 1..MaxId

(* A call of emit: its snapshot, the index it is at, the callback it is    *)
(* waiting for (0: none), whether one returned true; and, for the          *)
(* properties only, the next connection id at the call and the callbacks   *)
(* it has called.                                                          *)
Emissions == [name : Names, handlers : Seq(Ids), i : Nat, running : Ids \union {0},
              stopped : BOOLEAN, since : 1..(MaxId + 1), called : SUBSET Ids]

Init ==
    /\ _signalConnections = <<>>
    /\ _nextConnectionId = 0
    /\ name = <<>>
    /\ disconnected = {}
    /\ emissions = <<>>
    /\ throwing = FALSE

-----------------------------------------------------------------------------
(* JavaScript code that is neither inside emit's own loop nor unwinding:   *)
(* the top level, or the callback of the innermost emission.               *)
UserCode ==
    /\ ~throwing
    /\ emissions # <<>> => Head(emissions).running # 0

Inner(e) == emissions' = <<e>> \o Tail(emissions)

NewId == IF _nextConnectionId = 0 THEN 1 ELSE _nextConnectionId

_connect(n) ==
    /\ UserCode
    /\ LET id == NewId IN
        /\ id <= MaxId
        /\ _nextConnectionId' = id + 1
        /\ _signalConnections' = Append(_signalConnections, id)
        /\ name' = Append(name, n)
    /\ UNCHANGED <<disconnected, emissions, throwing>>

(* Mutant: the record is removed but not flagged.                          *)
mutant_remove_unflagged(id) ==
    _signalConnections' = RemoveFirst(_signalConnections, id) /\ UNCHANGED disconnected

RemoveConnection(id) ==
    /\ disconnected' = disconnected \union {id}
    /\ _signalConnections' = RemoveFirst(_signalConnections, id)

(* An id that is not in the array, disconnected before or never given out, *)
(* raises an error in the calling code.                                    *)
_disconnect(id) ==
    /\ UserCode
    /\ \/ /\ Contains(_signalConnections, id) /\ id \notin disconnected
          /\ RemoveConnection(id)
          /\ UNCHANGED <<_nextConnectionId, name, emissions, throwing>>
       \/ /\ Contains(_signalConnections, id) => id \in disconnected
          /\ throwing' = TRUE
          /\ UNCHANGED <<table, emissions>>

(* Its loop disconnects the first connection until none is left; a record  *)
(* already flagged would end it with an error.                             *)
_disconnectAll ==
    /\ UserCode /\ _signalConnections # <<>>
    /\ LET flagged == SelectInSeq(_signalConnections, LAMBDA id : id \in disconnected)
           done    == IF flagged = 0 THEN Len(_signalConnections) ELSE flagged - 1
       IN /\ disconnected' = disconnected \union ToSet(SubSeq(_signalConnections, 1, done))
          /\ _signalConnections' =
                SubSeq(_signalConnections, done + 1, Len(_signalConnections))
          /\ throwing' = (flagged # 0)
    /\ UNCHANGED <<_nextConnectionId, name, emissions>>

-----------------------------------------------------------------------------
(* The places in the array of the connections for signal n, in order.      *)
Snapshots(n) ==
    LET of == {k \in DOMAIN _signalConnections : name[_signalConnections[k]] = n}
    IN {at \in [1..Cardinality(of) -> of] : \A j, k \in DOMAIN at : j < k => at[j] < at[k]}

(* emit, from the call to its loop: the snapshot of the connections.       *)
_emit(n) ==
    /\ UserCode /\ _nextConnectionId # 0 /\ Len(emissions) < MaxDepth
    /\ \E at \in Snapshots(n) :
        emissions' = <<[name |-> n, handlers |-> [k \in DOMAIN at |-> _signalConnections[at[k]]],
                        i |-> 1, running |-> 0, stopped |-> FALSE,
                        since |-> _nextConnectionId, called |-> {}]>>
                     \o emissions
    /\ UNCHANGED <<table, throwing>>

(* Mutants: the loop ends one handler early; the flag is not looked at.    *)
mutant_ends_early(e) == e.stopped \/ e.i >= Len(e.handlers)
mutant_no_flag_check(id) == FALSE

LoopEnds(e) == e.stopped \/ e.i > Len(e.handlers)
Skips(id) == id \in disconnected

(* One turn of its loop: skip a handler flagged since, or call it.         *)
_emit_next ==
    /\ ~throwing /\ emissions # <<>>
    /\ LET e == Head(emissions)
           id == e.handlers[e.i]
       IN /\ e.running = 0 /\ ~LoopEnds(e)
          /\ \/ Skips(id) /\ Inner([e EXCEPT !.i = @ + 1])
             \/ ~Skips(id)
                /\ Inner([e EXCEPT !.running = id, !.called = @ \union {id}])
    /\ UNCHANGED <<table, throwing>>

(* A callback returns; true stops the emission.                            *)
CallbackReturns(ret) ==
    /\ ~throwing /\ emissions # <<>>
    /\ LET e == Head(emissions) IN
        /\ e.running # 0
        /\ Inner([e EXCEPT !.running = 0, !.i = @ + 1, !.stopped = ret])
    /\ UNCHANGED <<table, throwing>>

_emit_return ==
    /\ ~throwing /\ emissions # <<>>
    /\ LET e == Head(emissions) IN e.running = 0 /\ LoopEnds(e)
    /\ emissions' = Tail(emissions)
    /\ UNCHANGED <<table, throwing>>

CallbackThrows ==
    /\ ~throwing
    /\ emissions # <<>> /\ Head(emissions).running # 0
    /\ throwing' = TRUE
    /\ UNCHANGED <<table, emissions>>

(* emit's catch clause: logError is not defined, so evaluating it throws a *)
(* ReferenceError into the code that called emit.                          *)
_emit_catch ==
    /\ throwing /\ emissions # <<>>
    /\ emissions' = Tail(emissions)
    /\ UNCHANGED <<table, throwing>>

(* The callback itself, or the top level, deals with the exception.        *)
Handled ==
    /\ throwing
    /\ throwing' = FALSE
    /\ UNCHANGED <<table, emissions>>

Next ==
    \/ \E n \in Names : _connect(n) \/ _emit(n)
    \/ \E id \in Ids : _disconnect(id)
    \/ _disconnectAll
    \/ _emit_next \/ _emit_return \/ _emit_catch
    \/ \E ret \in BOOLEAN : CallbackReturns(ret)
    \/ CallbackThrows \/ Handled

Spec == Init /\ [][Next]_vars

-----------------------------------------------------------------------------
TypeOK ==
    /\ _signalConnections \in Seq(Ids)
    /\ _nextConnectionId \in 0..(MaxId + 1)
    /\ name \in Seq(Names)
    /\ disconnected \in SUBSET Ids
    /\ emissions \in Seq(Emissions)
    /\ throwing \in BOOLEAN

(* A step in which the innermost emission calls a callback.                *)
Starts ==
    /\ emissions # <<>> /\ Len(emissions') = Len(emissions)
    /\ Head(emissions).running = 0 /\ Head(emissions').running # 0

(* The flag and the array tell the same story: a connection was made and   *)
(* is in the array exactly once, or it was made and carries the flag.  So  *)
(* the "already disconnected" error cannot happen, disconnectAll cannot    *)
(* fail half-way, and no id is given to two connections.                   *)
FlagMatchesArray ==
    /\ TypeOK
    /\ ToSet(_signalConnections) \intersect disconnected = {}
    /\ ToSet(_signalConnections) \union disconnected = 1..Len(name)
    /\ \A i, j \in DOMAIN _signalConnections :
            i < j => _signalConnections[i] < _signalConnections[j]

(* "just before invoking each handler we check its disconnected flag"      *)
(* (signals.js:92): a callback starts only while its connection stands,    *)
(* whatever callbacks of this or an outer emission disconnected since the  *)
(* snapshot; handlers start in the order of connection, each at most once  *)
(* in an emission, and those connected after its start not at all.         *)
CallsOnlyConnected ==
    [][Starts => LET e  == Head(emissions)
                     id == Head(emissions').running
                 IN /\ Contains(_signalConnections, id)
                    /\ name[id] = e.name
                    /\ id < e.since
                    /\ \A c \in e.called : c < id]_vars

(* Emission e has called all it had to: a callback returned true, or every *)
(* connection made for its signal before the call ran or was disconnected. *)
Done(e) ==
    e.stopped \/ {id \in 1..(e.since - 1) : name[id] = e.name} \subseteq e.called \union disconnected

(* An emission that returns has called every handler it had to, whatever   *)
(* its callbacks did to the table while it walked its snapshot.            *)
EmissionComplete ==
    [][Len(emissions') < Len(emissions) /\ ~throwing => Done(Head(emissions))]_vars

=============================================================================

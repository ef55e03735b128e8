-------------------------------- MODULE Lang --------------------------------
(***************************************************************************)
(* modules/lang.js: classes, interfaces and parent().  A class is defined  *)
(* from its parent, the interfaces it implements and the methods it has of *)
(* its own; the definition throws when an interface is not satisfied.  Its *)
(* methods are wrapped, so that parent() finds from which class the method *)
(* that runs came: the wrapper puts itself in __caller__ of the object and *)
(* takes itself out when the method returns.                               *)
(***************************************************************************)
EXTENDS Naturals, SequencesExt

CONSTANTS
    Methods,            \* names of methods
    Interfaces,
    Requires,           \* Requires[i]: the interfaces that i requires
    Member,             \* Member[i][n]: "none", "unimplemented" or "default"
    Definitions,        \* [own, implements]: what classes are defined with
    MaxClasses,         \* bound: classes that are defined
    MaxFrames           \* bound: calls in each other

ASSUME LangAssumption ==
    /\ Requires \in [Interfaces -> SUBSET Interfaces]
    /\ Member \in [Interfaces -> [Methods -> {"none", "unimplemented", "default"}]]
    /\ \A d \in Definitions :
        d.own \subseteq Methods /\ d.implements \in Seq(Interfaces) /\ IsInjective(d.implements)
    /\ MaxClasses \in Nat /\ MaxFrames \in Nat

VARIABLES
    classes,            \* in order: [parent, proto, interfaces, listed]; parent 0 is _Base
    object,             \* the class of the object; 0 is no object
    caller,             \* __caller__ of the object: a wrapper [owner, name]
    stack               \* the calls on the object that have not returned

langVars == <<classes, object, caller, stack>>

NoCaller == [owner |-> 0, name |-> "null"]

LangInit == classes = << >> /\ object = 0 /\ caller = NoCaller /\ stack = << >>

-----------------------------------------------------------------------------
(* Classes.  proto[n] is what the prototype has under n itself: "wrapped", *)
(* or the member of an interface, or "none".                               *)

(* The prototype chain of a class: itself and the classes above it.        *)
Line(cs) ==
    LET line[c \in 0..Len(cs)] == IF c = 0 THEN {} ELSE {c} \union line[cs[c].parent]
    IN line

(* _interfacePresent and Class.implements: the interfaces of a class and   *)
(* of the classes above it.                                                *)
_interfacePresent(cs, c) == UNION {Range(cs[d].interfaces) : d \in Line(cs)[c]}

(* The class in whose prototype the lookup of n in class c ends, the first *)
(* on the chain that has it; 0 is none.  Parents are defined first, so     *)
(* their numbers are smaller.                                              *)
Found(cs, c, n) == Max({0} \union {d \in Line(cs)[c] : cs[d].proto[n] # "none"})

Value(cs, c, n) == LET at == Found(cs, c, n) IN IF at = 0 THEN "none" ELSE cs[at].proto[n]

(* Class._init: the members of the interfaces, later ones over earlier     *)
(* ones, then the class's own methods, wrapped.                            *)
_init(own, implements) ==
    [n \in Methods |->
        LET has == {k \in DOMAIN implements : Member[implements[k]][n] # "none"} IN
        IF n \in own THEN "wrapped"
        ELSE IF has = {} THEN "none"
        ELSE Member[implements[CHOOSE k \in has : \A l \in has : l <= k]][n]]

(* Mutant: a member that is not implemented is taken for one when the      *)
(* prototype has it.                                                       *)
mutant_member_in_proto(cs, i) ==
    LET c == Len(cs) IN
    /\ Requires[i] \subseteq _interfacePresent(cs, c)
    /\ \A n \in Methods : Member[i][n] = "unimplemented" => Found(cs, c, n) # 0

(* Interface._check of the last class: what interface i requires is there, *)
(* and listed before i or inherited; and no member is unimplemented.       *)
_check(cs, i) ==
    LET c == Len(cs)
        Before(r) == ~\E k, l \in DOMAIN cs[c].interfaces :
                        cs[c].interfaces[k] = i /\ cs[c].interfaces[l] = r /\ k < l
    IN /\ \A r \in Requires[i] : r \in _interfacePresent(cs, c) /\ Before(r)
       /\ \A n \in Methods :
            Member[i][n] = "unimplemented" => Value(cs, c, n) \notin {"none", "unimplemented"}

(* Class._construct: "If the parent already implements an interface, then  *)
(* we do too", so only the others are checked.  A class that fails a check *)
(* is not returned.                                                        *)
Class(d, parent) ==
    /\ stack = << >> /\ object = 0 /\ Len(classes) < MaxClasses
    /\ LET inherited == _interfacePresent(classes, parent)
           new == [parent |-> parent, proto |-> _init(d.own, d.implements),
                   interfaces |-> SelectSeq(d.implements, LAMBDA i : i \notin inherited),
                   listed |-> Range(d.implements)]
           with == Append(classes, new)
       IN /\ \A k \in DOMAIN new.interfaces : _check(with, new.interfaces[k])
          /\ classes' = with
    /\ UNCHANGED <<object, caller, stack>>

-----------------------------------------------------------------------------
(* Calls.  A frame is a method that runs: the class and the name it was    *)
(* found under, whether it is wrapped, the __caller__ that its wrapper     *)
(* remembers, how it was called, and whether it, or an interface's method  *)
(* that it called, caught an exception.                                    *)

New(c) ==
    /\ object = 0 /\ object' = c
    /\ caller' = NoCaller
    /\ UNCHANGED <<classes, stack>>

Top == stack[Len(stack)]

Callable(c, n) == Value(classes, c, n) \in {"wrapped", "default"}

(* wrapFunction's wrapper, on the way in.                                  *)
Enters(c, n, via) ==
    LET at == Found(classes, c, n)
        wrapped == Value(classes, c, n) = "wrapped"
    IN /\ Len(stack) < MaxFrames
       /\ stack' = Append(stack, [owner |-> at, name |-> n, wrapped |-> wrapped,
                                  prev |-> caller, via |-> via, caught |-> FALSE])
       /\ caller' = IF wrapped THEN [owner |-> at, name |-> n] ELSE caller

(* Mutant: the wrapper does not restore __caller__.                        *)
mutant_not_restored(f) == caller

Restored(f) == IF f.wrapped THEN f.prev ELSE caller

Returns ==
    /\ stack # << >>
    /\ caller' = Restored(Top)
    /\ stack' = Front(stack)
    /\ UNCHANGED <<classes, object>>

(* An exception ends the calls above the k-th, which catches it.  The      *)
(* wrappers have no finally: __caller__ stays as it is.                    *)
RaisedTo(k) ==
    /\ stack' = [j \in 1..k |->
                    IF \A l \in j + 1..k : ~stack[l].wrapped
                    THEN [stack[j] EXCEPT !.caught = TRUE] ELSE stack[j]]
    /\ UNCHANGED caller

Throws ==
    /\ stack # << >>
    /\ \E k \in 0..Len(stack) - 1 : RaisedTo(k)
    /\ UNCHANGED <<classes, object>>

Raises == \E k \in 0..Len(stack) : RaisedTo(k)

Calls(n) ==
    /\ object # 0
    /\ \/ Callable(object, n) /\ Enters(object, n, "call")
       \/ ~Callable(object, n) /\ Raises
    /\ UNCHANGED <<classes, object>>

(* Mutant: parent() goes up from the class of the object.                  *)
mutant_super_of_object == classes[object].parent

(* The class that parent() looks in.                                       *)
SuperOfCaller == classes[caller.owner].parent

_parent ==
    /\ stack # << >>
    /\ IF caller # NoCaller /\ Callable(SuperOfCaller, caller.name)
       THEN Enters(SuperOfCaller, caller.name, "parent")
       ELSE Raises
    /\ UNCHANGED <<classes, object>>

LangNext ==
    \/ \E d \in Definitions, p \in 0..Len(classes) : Class(d, p)
    \/ \E c \in DOMAIN classes : New(c)
    \/ \E n \in Methods : Calls(n)
    \/ _parent \/ Returns \/ Throws

LangSpec == LangInit /\ [][LangNext]_langVars

-----------------------------------------------------------------------------
(* A class that was defined has, in itself or above it, every interface    *)
(* that its interfaces require.                                            *)
RequirementsMet ==
    \A c \in DOMAIN classes :
        LET all == _interfacePresent(classes, c) IN \A i \in all : Requires[i] \subseteq all

(* Exception: an interface that is listed again although a parent has it   *)
(* puts its members over the parent's methods, and is not checked again.   *)
Relisted(c) == \E d \in Line(classes)[c] : classes[d].listed # Range(classes[d].interfaces)

(* Interface.UNIMPLEMENTED: "Creating a class that doesn't override the    *)
(* function will throw an error", whatever the order of the interfaces and *)
(* whichever class above overrides it.                                     *)
MembersImplemented ==
    \A c \in DOMAIN classes :
        ~Relisted(c) =>
            \A i \in _interfacePresent(classes, c), n \in Methods :
                Member[i][n] = "unimplemented" => Callable(c, n)

(* A class has all that the interfaces it implements ask for.              *)
InterfacesImplemented == RequirementsMet /\ MembersImplemented

(* While a wrapped method runs, __caller__ is its wrapper, so that a       *)
(* method can call others without clobbering it - unless the method has    *)
(* caught an exception of one.                                             *)
CallerIsRunning ==
    stack # << >> /\ Top.wrapped /\ ~Top.caught => caller = [owner |-> Top.owner, name |-> Top.name]

Above(c) == Line(classes)[classes[c].parent]

(* parent() reaches the method of the same name in a class above the one   *)
(* that defines the running method, and never below or beside it, however  *)
(* deep the chain of parent() calls is.                                    *)
ParentGoesUp ==
    \A k \in 2..Len(stack) :
        LET f == stack[k - 1] IN
        stack[k].via = "parent" /\ f.wrapped /\ ~f.caught =>
            stack[k].name = f.name /\ stack[k].owner \in Above(f.owner)
=============================================================================

------------------------------ MODULE Wrappers ------------------------------
(***************************************************************************)
(* gi/gtype.cpp, gi/param.cpp, gi/enumeration.cpp: the JavaScript objects  *)
(* that stand for GTypes and GParamSpecs.  A type remembers its wrapper in *)
(* its qdata without keeping it alive, and the finalizer of the wrapper    *)
(* clears the qdata; a wrapper of a GParamSpec has a reference on it until *)
(* it is finalized.  Enumerations and classes have the wrapper of their    *)
(* type as $gtype.                                                         *)
(*                                                                         *)
(* JavaScriptCore runs a finalizer some time after its collection found    *)
(* the object dead, and the program runs in between.                       *)
(***************************************************************************)
EXTENDS Integers, Sequences, FiniteSets, TLC

CONSTANTS
    Enumerations,       \* an enumeration's type -> a sequence of [name, value]
    Fixed,              \* a member's name -> that name in upper case with _
    Statics,            \* type -> the names of its functions that are no methods
    PARAM,              \* the type G_TYPE_PARAM
    Pspecs,             \* the GParamSpecs
    Ids                 \* bound: the wrappers ever made

ASSUME WrappersAssumption ==
    /\ PARAM \notin DOMAIN Enumerations
    /\ Pspecs \intersect (DOMAIN Enumerations \union {PARAM}) = {}
    /\ "nothing" \notin DOMAIN Enumerations \union {PARAM} \union Pspecs
    /\ IsFiniteSet(Ids) /\ Ids = 1..Cardinality(Ids)
    /\ \A t \in DOMAIN Enumerations :
            /\ Enumerations[t] \in Seq([name : DOMAIN Fixed, value : Int])
            /\ \A n \in DOMAIN Fixed : Fixed[n] \notin Statics[t]   \* in lower case

GTypes  == DOMAIN Enumerations \union {PARAM}
Nothing == 0
Function == "function"

VARIABLES
    qdata,              \* type -> the wrapper it remembers
    of,                 \* wrapper -> the type or GParamSpec it stands for
    life,               \* wrapper -> "unused", "live", "dead" or "finalized"
    script,             \* the wrappers that JavaScript's variables reach
    defined,            \* types whose object, with $gtype, its namespace has
    gtype,              \* type -> the $gtype of that object
    members,            \* type -> the members of that object
    refs,               \* GParamSpec -> its reference count
    \* for the properties only
    owned,              \* the GParamSpecs of which C has a reference
    revived             \* wrappers returned after the collector found them dead

wrapperVars == <<qdata, of, life, script, defined, gtype, members, refs, owned, revived>>

NoMembers == [n \in {} |-> 0]

WrappersInit ==
    /\ qdata = [t \in GTypes |-> Nothing]
    /\ of = [w \in Ids |-> "nothing"] /\ life = [w \in Ids |-> "unused"]
    /\ script = {} /\ defined = {}
    /\ gtype = [t \in GTypes |-> Nothing] /\ members = [t \in GTypes |-> NoMembers]
    /\ refs = [p \in Pspecs |-> 1] /\ owned = Pspecs
    /\ revived = {}

Reached == script \union {gtype[t] : t \in defined}

-----------------------------------------------------------------------------
(* The next new object, and what making it does.                           *)
Fresh == {w \in Ids : life[w] = "unused" /\ \A v \in Ids : v < w => life[v] # "unused"}

New(w, what) ==
    /\ w \in Fresh
    /\ of' = [of EXCEPT ![w] = what]
    /\ life' = [life EXCEPT ![w] = "live"]

(* Mutant: a wrapper is made each time.                                    *)
mutant_never_cached(t, w) ==
    /\ New(w, t) /\ qdata' = [qdata EXCEPT ![t] = w] /\ UNCHANGED revived

(* gwkjs_gtype_create_gtype_wrapper returns w for type t.                  *)
gwkjs_gtype_create_gtype_wrapper(t, w) ==
    \/ /\ qdata[t] # Nothing /\ w = qdata[t]
       /\ revived' = IF life[w] = "dead" THEN revived \union {w} ELSE revived
       /\ UNCHANGED <<qdata, of, life>>
    \/ /\ qdata[t] = Nothing /\ New(w, t)
       /\ qdata' = [qdata EXCEPT ![t] = w]
       /\ UNCHANGED revived

(* A GType is converted for JavaScript.                                    *)
GTypeToJS(t, w) ==
    /\ gwkjs_gtype_create_gtype_wrapper(t, w)
    /\ script' = script \union {w}
    /\ UNCHANGED <<defined, gtype, members, refs, owned>>

(* gwkjs_define_enum_values: of members that get one name the last stays.  *)
gwkjs_define_enum_value(t, i) == Fixed[Enumerations[t][i].name]

gwkjs_define_enum_values(t) ==
    LET Values == Enumerations[t]
        Last(n) == CHOOSE i \in DOMAIN Values :
            /\ gwkjs_define_enum_value(t, i) = n
            /\ \A j \in DOMAIN Values : gwkjs_define_enum_value(t, j) = n => j <= i
    IN [n \in {gwkjs_define_enum_value(t, i) : i \in DOMAIN Values} |-> <<Values[Last(n)].value>>]

(* Functions that are no methods are put beside them.                      *)
gwkjs_define_enum_static_methods(t, object) ==
    [n \in Statics[t] \union DOMAIN object |->
        IF n \in Statics[t] THEN <<Function>> ELSE object[n]]

gwkjs_object_define_static_methods == [n \in Statics[PARAM] |-> <<Function>>]

(* The enumeration is read from its namespace, which has it or defines it. *)
gwkjs_define_enumeration(t, w) ==
    /\ t \notin defined
    /\ gwkjs_gtype_create_gtype_wrapper(t, w)
    /\ defined' = defined \union {t}
    /\ gtype' = [gtype EXCEPT ![t] = w]
    /\ members' = [members EXCEPT ![t] = gwkjs_define_enum_static_methods(t, gwkjs_define_enum_values(t))]
    /\ UNCHANGED <<script, refs, owned>>

gwkjs_lookup_enumeration(t) ==
    /\ t \in defined
    /\ script' = script \union {gtype[t]}
    /\ UNCHANGED <<qdata, of, life, defined, gtype, members, refs, owned, revived>>

(* gwkjs_define_param_class, when GObject.ParamSpec is asked for.          *)
gwkjs_define_param_class(w) ==
    /\ PARAM \notin defined
    /\ gwkjs_gtype_create_gtype_wrapper(PARAM, w)
    /\ defined' = defined \union {PARAM}
    /\ gtype' = [gtype EXCEPT ![PARAM] = w]
    /\ members' = [members EXCEPT ![PARAM] = gwkjs_object_define_static_methods]
    /\ UNCHANGED <<script, refs, owned>>

(* The namespace object is collected: the repository keeps none.           *)
NamespaceCollected(t) ==
    /\ t \in defined
    /\ defined' = defined \ {t}
    /\ gtype' = [gtype EXCEPT ![t] = Nothing]
    /\ members' = [members EXCEPT ![t] = NoMembers]
    /\ UNCHANGED <<qdata, of, life, script, refs, owned, revived>>

-----------------------------------------------------------------------------
(* The prototype comes from GObject.ParamSpec, which is defined when it is *)
(* read.                                                                   *)
gwkjs_lookup_param_prototype == PARAM \in defined

(* gwkjs_param_from_g_param makes a new wrapper each time.                 *)
gwkjs_param_from_g_param(p, w) ==
    /\ p \in owned /\ gwkjs_lookup_param_prototype
    /\ New(w, p)
    /\ refs' = [refs EXCEPT ![p] = @ + 1]
    /\ script' = script \union {w}
    /\ UNCHANGED <<qdata, defined, gtype, members, owned, revived>>

(* gwkjs_typecheck_param and gwkjs_g_param_from_param: C may take a        *)
(* reference on what JavaScript passes, and gives its references back.     *)
gwkjs_g_param_from_param(w) ==
    /\ w \in script /\ of[w] \in Pspecs \ owned
    /\ owned' = owned \union {of[w]}
    /\ refs' = [refs EXCEPT ![of[w]] = @ + 1]
    /\ UNCHANGED <<qdata, of, life, script, defined, gtype, members, revived>>

Unref(p) ==
    /\ p \in owned
    /\ owned' = owned \ {p}
    /\ refs' = [refs EXCEPT ![p] = @ - 1]
    /\ UNCHANGED <<qdata, of, life, script, defined, gtype, members, revived>>

-----------------------------------------------------------------------------
Drop(w) ==
    /\ w \in script
    /\ script' = script \ {w}
    /\ UNCHANGED <<qdata, of, life, defined, gtype, members, refs, owned, revived>>

(* The collector need not find every object that is out of reach.          *)
Collect(w) ==
    /\ life[w] = "live" /\ w \notin Reached
    /\ life' = [life EXCEPT ![w] = "dead"]
    /\ UNCHANGED <<qdata, of, script, defined, gtype, members, refs, owned, revived>>

gwkjs_gtype_finalize(w) ==
    /\ life[w] = "dead" /\ of[w] \in GTypes
    /\ life' = [life EXCEPT ![w] = "finalized"]
    /\ qdata' = [qdata EXCEPT ![of[w]] = Nothing]
    /\ UNCHANGED <<of, script, defined, gtype, members, refs, owned, revived>>

param_finalize(w) ==
    /\ life[w] = "dead" /\ of[w] \in Pspecs
    /\ life' = [life EXCEPT ![w] = "finalized"]
    /\ refs' = [refs EXCEPT ![of[w]] = @ - 1]
    /\ UNCHANGED <<qdata, of, script, defined, gtype, members, owned, revived>>

WrappersNext ==
    \/ \E t \in GTypes, w \in Ids : GTypeToJS(t, w)
    \/ \E t \in DOMAIN Enumerations, w \in Ids : gwkjs_define_enumeration(t, w)
    \/ \E t \in DOMAIN Enumerations : gwkjs_lookup_enumeration(t)
    \/ \E w \in Ids : gwkjs_define_param_class(w)
    \/ \E t \in GTypes : NamespaceCollected(t)
    \/ \E p \in Pspecs, w \in Ids : gwkjs_param_from_g_param(p, w)
    \/ \E w \in Ids : gwkjs_g_param_from_param(w)
    \/ \E p \in Pspecs : Unref(p)
    \/ \E w \in Ids : Drop(w) \/ Collect(w) \/ gwkjs_gtype_finalize(w) \/ param_finalize(w)

WrappersSpec == WrappersInit /\ [][WrappersNext]_wrapperVars

-----------------------------------------------------------------------------
(* A type has one wrapper: whichever way JavaScript got it, from a value,  *)
(* from $gtype, before or after others were collected and finalized, it    *)
(* compares equal.  A wrapper that was returned between its death and its  *)
(* finalizer is excepted (README, known defects).                          *)
OneWrapper ==
    \A v, w \in Reached \ revived : of[v] = of[w] /\ of[v] \in GTypes => v = w

(* A GParamSpec is there as long as a wrapper of it is, whatever C did     *)
(* with its references and however many wrappers it has; and no reference  *)
(* of a wrapper is left behind.                                            *)
ParamSpecsHeld ==
    \A p \in Pspecs :
        refs[p] = Cardinality({w \in Ids : of[w] = p /\ life[w] # "finalized"})
                  + (IF p \in owned THEN 1 ELSE 0)

(* Each member of an enumeration is found under its name in upper case,    *)
(* unless a later one has it too, and functions hide none.                 *)
MembersFound ==
    \A t \in defined \ {PARAM} : \A i \in DOMAIN Enumerations[t] :
        \E j \in DOMAIN Enumerations[t] :
            /\ j >= i /\ Fixed[Enumerations[t][j].name] = Fixed[Enumerations[t][i].name]
            /\ members[t][Fixed[Enumerations[t][i].name]] = <<Enumerations[t][j].value>>

(* All three hold however collections and definitions follow each other.   *)
WrappersSound == OneWrapper /\ ParamSpecsHeld /\ MembersFound
=============================================================================

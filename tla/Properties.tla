----------------------------- MODULE Properties -----------------------------
(***************************************************************************)
(* gi/object.cpp: reading and writing properties of a wrapper, the methods *)
(* found on the way, and the construction of the object from a hash of     *)
(* properties.                                                             *)
(*                                                                         *)
(* JavaScriptCore asks the hooks of an object first, then looks at what is *)
(* stored on it, then at its prototype: the holders of a name are 0, the   *)
(* wrapper, and 1, 2, ..., the prototypes of its classes, nearest first.   *)
(* Every holder has a table of the names it was asked for (priv->modules). *)
(***************************************************************************)
EXTENDS Values, FiniteSetsExt

CONSTANTS
    Classes,            \* [described, methods, interfaces, vfuncs, overrides],
                        \* the object's class first, then its parents
    Interfaces,         \* a sequence of [methods, vfuncs], as GType orders them
    Vfuncs,             \* the name JavaScript has for a vfunc -> the vfunc
    Spelled,            \* a name JavaScript has for a property -> its GObject name
    GProperties,        \* name -> [gtype, readable, writable, custom, default]
    Names,              \* every name
    Used,               \* the names that JavaScript reads
    Assigned,           \* and those it assigns, to wrappers and prototypes
    JsValues,           \* the values JavaScript writes
    CValues(_),         \* the values C gives to a property
    MaxArguments        \* properties in a construction hash

ASSUME PropertiesAssumption ==
    /\ DOMAIN GProperties \subseteq Names
    /\ Len(Classes) \in Nat /\ DOMAIN Classes = 1..Len(Classes)
    /\ \A h \in DOMAIN Classes :
        /\ Classes[h].methods \subseteq Names
        /\ DOMAIN Classes[h].interfaces = 1..Len(Classes[h].interfaces)
        /\ Len(Classes[h].interfaces) \in Nat
        /\ Range(Classes[h].interfaces) \subseteq DOMAIN Interfaces
        \* methods and vfuncs are what the typelib describes
        /\ ~Classes[h].described => Classes[h].methods = {} /\ Classes[h].vfuncs = {}
    /\ Len(Interfaces) \in Nat /\ DOMAIN Interfaces = 1..Len(Interfaces)
    /\ DOMAIN Vfuncs \union DOMAIN Spelled \subseteq Names
    /\ Used \subseteq Names /\ Assigned \subseteq Names
    /\ MaxArguments \in Nat

Wrapper == 0
Holders == {Wrapper} \union DOMAIN Classes

Absent    == JS("absent", 0, << >>)
Unknown   == JS("unknown", 0, << >>)
Method(h) == JS("function", h, << >>)       \* of class h
Interfaced(i) == JS("interface", i, << >>)  \* of interface i
Vfunc(h)  == JS("vfunc", h, << >>)          \* what class h has for the vfunc

VARIABLES
    phase,              \* of the wrapper: "new" has no GObject yet
    gobj,               \* property -> its C value
    modules,            \* holder -> name -> Unknown, Absent or a function
    stored,             \* holder -> name -> the property JavaScriptCore keeps
    params,             \* the GParameters made so far: a sequence of [name, c]
    held,               \* how many GValues are initialised
    \* for the properties only
    written,            \* name -> the value of an accepted write, until C writes
    patched             \* <<holder, name>> that JavaScript assigned itself

propertiesVars == <<phase, gobj, modules, stored, params, held, written, patched>>

PropertiesInit ==
    /\ phase = "new"
    /\ gobj = [p \in DOMAIN GProperties |-> GProperties[p].default]
    /\ modules = [h \in Holders |-> [n \in Names |-> Unknown]]
    /\ stored = [h \in Holders |-> [n \in Names |-> Absent]]
    /\ params = << >> /\ held = 0
    /\ written = [n \in Names |-> Absent] /\ patched = {}

-----------------------------------------------------------------------------
(* object_instance_new_resolve_no_info looks through every interface of    *)
(* the GType, its parents' too; the last one that has the method stays.    *)
object_instance_new_resolve_no_info(h, name) ==
    LET has == {i \in DOMAIN Interfaces :
                    /\ name \in Interfaces[i].methods
                    /\ \E k \in DOMAIN Classes : k >= h /\ i \in Range(Classes[k].interfaces)}
    IN IF has = {} THEN Absent ELSE Interfaced(Max(has))

(* What the C class h runs for a vfunc: the nearest implementation.        *)
Implementing(h, v) == {k \in DOMAIN Classes : k >= h /\ v \in Classes[k].overrides}
Address(h, v) == Min(Implementing(h, v))

Declares(h, v) ==
    v \in Classes[h].vfuncs \/ \E i \in Range(Classes[h].interfaces) : v \in Interfaces[i].vfuncs

find_vfunc_on_parents(h, v) ==
    Declares(h, v) \/ \E k \in DOMAIN Classes : k > h /\ v \in Classes[k].vfuncs

(* Mutant: what a parent defined is taken for unchanged.                   *)
mutant_inherited_unchanged(h, v) == ~Declares(h, v)

(* A vfunc that no parent implements has no address to compare with.       *)
is_vfunc_unchanged(h, v) ==
    ~Declares(h, v) /\ Implementing(h + 1, v) # {} /\ Address(h, v) = Address(h + 1, v)

(* g_object_info_find_method_using_interfaces, or else every interface.    *)
find_method(h, name) ==
    LET own == {n \in DOMAIN Classes[h].interfaces : name \in Interfaces[Classes[h].interfaces[n]].methods}
    IN CASE name \in Classes[h].methods -> Method(h)
         [] own # {} /\ name \notin Classes[h].methods -> Interfaced(Classes[h].interfaces[Min(own)])
         [] OTHER -> object_instance_new_resolve_no_info(h, name)

ResolvesOn(h, name) ==
    CASE ~Classes[h].described -> object_instance_new_resolve_no_info(h, name)
      [] Classes[h].described /\ name \in DOMAIN Vfuncs /\ find_vfunc_on_parents(h, Vfuncs[name]) ->
            IF is_vfunc_unchanged(h, Vfuncs[name]) THEN Absent ELSE Vfunc(h)
      [] OTHER -> find_method(h, name)

(* object_instance_new_resolve: on the prototypes, and on the wrapper as   *)
(* long as it has no GObject.                                              *)
object_instance_new_resolve(h, name) ==
    CASE h # Wrapper -> ResolvesOn(h, name)
      [] h = Wrapper /\ phase # "alive" -> ResolvesOn(1, name)
      [] OTHER -> Absent

(* GObject's name of a property, which JavaScript may spell in camel case. *)
gwkjs_hyphen_from_camel(name) == IF name \in DOMAIN Spelled THEN Spelled[name] ELSE name

(* The value of a GObject property, unless it cannot be read or JavaScript *)
(* implements it.                                                          *)
FromProperty(name) ==
    LET g == gwkjs_hyphen_from_camel(name) IN
    IF phase = "alive" /\ g \in DOMAIN GProperties
       /\ GProperties[g].readable /\ ~GProperties[g].custom
    THEN LET r == FromGValue(GProperties[g].gtype, gobj[g])
         IN IF r.ok THEN r.js ELSE Absent
    ELSE Absent

(* object_instance_get_prop, then what is stored.  A name that is in the   *)
(* table already is answered from it; NULL leaves it to what is stored.    *)
Answer(h, name) ==
    LET found == object_instance_new_resolve(h, name) IN
    CASE modules[h][name] \notin {Unknown, Absent} -> modules[h][name]
      [] modules[h][name] = Absent                 -> stored[h][name]
      [] modules[h][name] = Unknown /\ found # Absent -> found
      [] modules[h][name] = Unknown /\ found = Absent ->
            IF h = Wrapper /\ FromProperty(name) # Absent THEN FromProperty(name) ELSE stored[h][name]

Answering(name) == {h \in Holders : Answer(h, name) # Absent}
Asked(name) == LET answering == Answering(name) IN IF answering = {} THEN Holders ELSE 0..Min(answering)

Read(name) == LET answering == Answering(name) IN
    IF answering = {} THEN Undefined ELSE Answer(Min(answering), name)

(* Reading obj.name asks the holders up to the first that answers.  The    *)
(* table gets the name before it is resolved, and a method found is also   *)
(* stored on its prototype (gwkjs_define_function).                        *)
object_instance_get_prop(name) ==
    LET asked    == Asked(name)
        new(h)   == h \in asked /\ modules[h][name] = Unknown
        found(h) == object_instance_new_resolve(h, name)
    IN
    /\ modules' = [h \in Holders |-> [modules[h] EXCEPT ![name] = IF new(h) THEN found(h) ELSE @]]
    /\ stored' = [h \in Holders |-> [stored[h] EXCEPT ![name] =
            IF new(h) /\ found(h) # Absent THEN found(h) ELSE @]]
    /\ UNCHANGED <<phase, gobj, params, held, written, patched>>

(* init_g_param_from_property: a set of [status, c].                       *)
init_g_param_from_property(name, v, constructing) ==
    LET g == gwkjs_hyphen_from_camel(name) IN
    IF g \notin DOMAIN GProperties \/ (~constructing /\ GProperties[g].custom)
    THEN {[status |-> "none", c |-> NULL]}
    ELSE IF ~GProperties[g].writable THEN {[status |-> "error", c |-> NULL]}
    ELSE {[status |-> IF r.ok THEN "set" ELSE "error", c |-> r.c] :
              r \in ToTypedGValue(GProperties[g].gtype, v)}

(* Mutant: once the GObject is set JavaScriptCore is told so.              *)
mutant_set_answers(name, v, r) == IF r.status = "set" THEN stored[Wrapper][name] ELSE v

(* The hook answers FALSE whatever happened: JavaScriptCore stores the     *)
(* value on the wrapper too.                                               *)
StoredBySet(name, v, r) == v

(* A new value of a property ends what was written under its names.        *)
Forget(g) == [n \in Names |-> IF gwkjs_hyphen_from_camel(n) = g THEN Absent ELSE written[n]]

object_instance_set_prop(name, v) ==
    \E r \in IF phase = "alive" THEN init_g_param_from_property(name, v, FALSE)
             ELSE {[status |-> "none", c |-> NULL]} :
        /\ gobj' = IF r.status = "set" THEN [gobj EXCEPT ![gwkjs_hyphen_from_camel(name)] = r.c] ELSE gobj
        /\ stored' = [stored EXCEPT ![Wrapper][name] = StoredBySet(name, v, r)]
        /\ written' = IF r.status = "set" THEN [Forget(gwkjs_hyphen_from_camel(name)) EXCEPT ![name] = v]
                      ELSE [written EXCEPT ![name] = Absent]
        /\ patched' = patched \union {<<Wrapper, name>>}
        /\ UNCHANGED <<phase, modules, params, held>>

(* A method assigned to a prototype by JavaScript: it has no GObject.      *)
Patch(h, name, v) ==
    /\ h # Wrapper
    /\ stored' = [stored EXCEPT ![h][name] = v]
    /\ patched' = patched \union {<<h, name>>}
    /\ UNCHANGED <<phase, gobj, modules, params, held, written>>

(* C code gives the property a new value.                                  *)
Changes(name, c) ==
    /\ phase = "alive"
    /\ gobj' = [gobj EXCEPT ![name] = c]
    /\ written' = Forget(name)
    /\ UNCHANGED <<phase, modules, stored, params, held, patched>>

-----------------------------------------------------------------------------
(* object_instance_init.  _init is JavaScript and may read and write the   *)
(* wrapper before it chains up; object_instance_props_to_g_parameters then *)
(* takes the properties of the hash one by one, reading each of them,      *)
(* which may run JavaScript again.                                         *)
ChainsUp ==
    /\ phase = "new"
    /\ phase' = "collecting"
    /\ UNCHANGED <<gobj, modules, stored, params, held, written, patched>>

(* Mutant: the value that did not convert stays initialised.               *)
mutant_value_not_unset(name, v) ==
    /\ phase = "collecting" /\ Len(params) < MaxArguments
    /\ \A i \in DOMAIN params : params[i].name # name
    /\ \E r \in init_g_param_from_property(name, v, TRUE) :
        IF r.status = "set"
        THEN /\ params' = Append(params, [name |-> name, c |-> r.c])
             /\ held' = held + 1
             /\ UNCHANGED phase
        ELSE /\ phase' = "failed"
             /\ held' = IF r.status = "error" THEN 1 ELSE 0
             /\ params' = << >>
    /\ UNCHANGED <<gobj, modules, stored, written, patched>>

Collects(name, v) ==
    /\ phase = "collecting" /\ Len(params) < MaxArguments
    /\ \A i \in DOMAIN params : params[i].name # name
    /\ \E r \in init_g_param_from_property(name, v, TRUE) :
        IF r.status = "set"
        THEN /\ params' = Append(params, [name |-> name, c |-> r.c])
             /\ held' = held + 1
             /\ UNCHANGED phase
        ELSE /\ phase' = "failed"
             /\ held' = held - Len(params)
             /\ params' = << >>
    /\ UNCHANGED <<gobj, modules, stored, written, patched>>

(* g_object_newv, and the parameters are freed.                            *)
Constructed ==
    /\ phase = "collecting"
    /\ phase' = "alive"
    /\ gobj' = [p \in DOMAIN gobj |->
                    LET given == {i \in DOMAIN params : gwkjs_hyphen_from_camel(params[i].name) = p}
                    IN IF given # {} THEN params[Max(given)].c ELSE gobj[p]]
    /\ params' = << >> /\ held' = held - Len(params)
    /\ UNCHANGED <<modules, stored, written, patched>>

PropertiesNext ==
    \/ \E name \in Used : object_instance_get_prop(name)
    \/ \E name \in Assigned, v \in JsValues : object_instance_set_prop(name, v)
    \/ \E name \in Names, v \in JsValues : Collects(name, v)
    \/ \E h \in DOMAIN Classes : \E name \in Assigned \intersect Classes[h].methods : Patch(h, name, Method(-1))
    \/ \E name \in DOMAIN GProperties : \E c \in CValues(name) : Changes(name, c)
    \/ ChainsUp \/ Constructed

PropertiesSpec == PropertiesInit /\ [][PropertiesNext]_propertiesVars

-----------------------------------------------------------------------------
PropertiesTypeOK ==
    /\ phase \in {"new", "collecting", "alive", "failed"}
    /\ DOMAIN gobj = DOMAIN GProperties
    /\ modules \in [Holders -> [Names -> {Unknown, Absent} \union UNION {{Method(h), Vfunc(h)} : h \in DOMAIN Classes}
                                         \union {Interfaced(i) : i \in DOMAIN Interfaces}]]
    /\ held \in 0..MaxArguments

Unpatched(name) == \A h \in Holders : <<h, name>> \notin patched

(* The methods a class has, by itself or by an interface it implements.    *)
Provided(h) == Classes[h].methods \union UNION {Interfaces[i].methods : i \in Range(Classes[h].interfaces)}

(* A class has a method of its own with the name of one of an interface    *)
(* that it or a parent implements, or with the name of a vfunc: what hides *)
(* which depends on the holder that is asked (README, known defects).      *)
Ambiguous(name) ==
    \/ /\ \E h \in DOMAIN Classes : name \in Classes[h].methods
       /\ \E i \in DOMAIN Interfaces : name \in Interfaces[i].methods
    \/ name \in DOMAIN Vfuncs

(* A vfunc that the typelib has, and says so of every class that overrides *)
(* it ("it isn't possible to override a vfunc on an interface without      *)
(* reimplementing it", find_vfunc_on_parents).                             *)
Introspected(v) ==
    /\ \E k \in DOMAIN Classes : Classes[k].described /\ Declares(k, v)
    /\ \A k \in Implementing(1, v) : Classes[k].described /\ find_vfunc_on_parents(k, v)

MethodResolves(name) ==
    LET h == Min({k \in DOMAIN Classes : name \in Provided(k)}) IN
    IF name \in Classes[h].methods THEN Read(name) = Method(h)
    ELSE Read(name).is = "interface" /\ name \in Interfaces[Read(name).n].methods

VfuncResolves(name) ==
    /\ Read(name).is = "vfunc"
    /\ Address(Read(name).n, Vfuncs[name]) = Address(1, Vfuncs[name])

(* Whatever was read before, on whichever holder a name was remembered as  *)
(* missing, a method is found on the nearest class or interface that has   *)
(* it, and a vfunc is the one the object's class runs, unless JavaScript   *)
(* assigned the name or the object has such a property.                    *)
MethodsResolve ==
    \A name \in Names :
        Unpatched(name) /\ gwkjs_hyphen_from_camel(name) \notin DOMAIN GProperties =>
            LET provided == \E k \in DOMAIN Classes : name \in Provided(k) IN
            /\ provided /\ ~Ambiguous(name) => MethodResolves(name)
            /\ ~provided /\ name \in DOMAIN Vfuncs /\ Introspected(Vfuncs[name]) => VfuncResolves(name)

(* What JavaScript wrote to a property is what it reads, until C gives it  *)
(* another value: the first read converts it there and back, the others    *)
(* find it on the wrapper, because the hook remembers the name as missing  *)
(* and leaves the value to JavaScriptCore.                                 *)
ReadYourWrites ==
    \A name \in Names :
        written[name] # Absent /\ GProperties[gwkjs_hyphen_from_camel(name)].readable =>
            \/ Read(name) = written[name]
            \/ /\ modules[Wrapper][name] = Unknown
               /\ LET gtype == GProperties[gwkjs_hyphen_from_camel(name)].gtype IN
                  \E r \in ToTypedGValue(gtype, written[name]) : Read(name) = FromGValue(gtype, r.c).js

(* Every GValue initialised for a construction is unset, also when a later *)
(* property is unknown, read-only or of another type.                      *)
ParametersUnset == phase \in {"alive", "failed"} => held = 0
=============================================================================

------------------------------ MODULE Classes ------------------------------
(***************************************************************************)
(* gi/object.cpp, gi/ns.cpp, gi/repo.cpp, gwkjs/jsapi-dynamic-class.cpp:   *)
(* how the class of a GObject type gets its prototype.  The prototype of a *)
(* type is looked for in the object of its namespace, which is made when   *)
(* it is asked for; the class is defined when its name is read there, and  *)
(* needs the prototype of the parent type first.  Making a namespace runs  *)
(* the JavaScript of its override module, which may ask for classes too.   *)
(*                                                                         *)
(* resolve_namespace_object never returns the namespace, so that the       *)
(* repository forgets it as soon as it is made: each access makes another  *)
(* one, and each namespace object has classes of its own.                  *)
(***************************************************************************)
EXTENDS Integers, Sequences

CONSTANTS
    Types,              \* the GObject types
    Parent,             \* Parent[t]: the parent type, or NoType
    NoType,
    Namespaces,
    Home,               \* Home[t]: the namespace that describes t, or Private
    Private,            \* for types that no namespace describes
    Touches,            \* Touches[ns]: types that its override may ask for
    MaxUses,            \* bound: how often JavaScript and C ask for a class
    MaxDepth            \* bound: lookups in each other, the depth of the C stack

ASSUME ClassesAssumption ==
    /\ NoType \notin Types /\ Private \notin Namespaces
    /\ Parent \in [Types -> Types \union {NoType}]
    /\ Home \in [Types -> Namespaces \union {Private}]
    /\ Touches \in [Namespaces -> SUBSET Types]
    /\ MaxUses \in Nat /\ MaxDepth \in Nat

VARIABLES
    nss,                \* every namespace object made: [ns, modules, class]
    current,            \* ns -> its object on the repository; 0 is none
    resolving,          \* names in the repository's priv->modules
    private,            \* type -> its prototype in the private namespace
    protos,             \* every prototype made: [type, parent, info]
    stack,              \* the lookups that have not returned, innermost last
    found,              \* the prototype found by the lookup that returned last
    wrapped,            \* <<type, prototype>> of the objects wrapped so far
    uses

vars == <<nss, current, resolving, private, protos, stack, found, wrapped, uses>>

Init ==
    /\ nss = << >> /\ current = [ns \in Namespaces |-> 0] /\ resolving = {}
    /\ private = [t \in Types |-> 0] /\ protos = << >>
    /\ stack = << >> /\ found = 0
    /\ wrapped = {} /\ uses = 0

(* Frames: a lookup of a type, the definition of its class in the          *)
(* namespace object at index at, and the override module of a namespace,   *)
(* with the types it may still ask for.                                    *)
Lookup(t)           == [op |-> "lookup", type |-> t, at |-> 0, info |-> FALSE, ns |-> Private, todo |-> {}]
Read(t, at)         == [Lookup(t) EXCEPT !.op = "read", !.at = at]
Define(t, at, info) == [Lookup(t) EXCEPT !.op = "define", !.at = at, !.info = info]
Create(t, at, info) == [Define(t, at, info) EXCEPT !.op = "create"]
Override(ns)        == [Lookup(NoType) EXCEPT !.op = "override", !.ns = ns, !.todo = Touches[ns]]

Top         == stack[Len(stack)]
Rest        == SubSeq(stack, 1, Len(stack) - 1)
At(op)      == stack # << >> /\ Top.op = op
Becomes(f)  == stack' = Append(Rest, f)
Calls(f, g) == Len(stack) < MaxDepth /\ stack' = Append(Append(Rest, f), g)

-----------------------------------------------------------------------------
(* C gives an object to JavaScript (gwkjs_object_from_g_object).           *)
gwkjs_object_from_g_object(t) ==
    /\ stack = << >> /\ uses < MaxUses
    /\ uses' = uses + 1
    /\ stack' = <<[Lookup(t) EXCEPT !.op = "wrap"], Lookup(t)>>
    /\ UNCHANGED <<nss, current, resolving, private, protos, found, wrapped>>

Wraps ==
    /\ At("wrap")
    /\ wrapped' = wrapped \union {<<Top.type, found>>}
    /\ stack' = Rest
    /\ UNCHANGED <<nss, current, resolving, private, protos, found, uses>>

(* JavaScript reads a class from a namespace object that it has kept.      *)
ReadsClass(at, t) ==
    /\ stack = << >> /\ uses < MaxUses
    /\ nss[at].ns = Home[t]
    /\ uses' = uses + 1
    /\ stack' = <<Read(t, at)>>
    /\ UNCHANGED <<nss, current, resolving, private, protos, found, wrapped>>

(* Mutant: the namespace is put on the repository when its override is     *)
(* done.                                                                   *)
mutant_published_late(ns) ==
    /\ nss' = Append(nss, [ns |-> ns, modules |-> {}, class |-> [t \in Types |-> 0]])
    /\ UNCHANGED <<current, resolving>>

(* resolve_namespace_object: "Define the property early, to avoid          *)
(* reentrancy issues if the override module looks for namespaces that      *)
(* import this".                                                           *)
MakesNamespace(ns) ==
    /\ nss' = Append(nss, [ns |-> ns, modules |-> {}, class |-> [t \in Types |-> 0]])
    /\ current' = [current EXCEPT ![ns] = Len(nss) + 1]
    /\ resolving' = resolving \union {ns}

(* gwkjs_lookup_object_prototype, up to the namespace object.              *)
gwkjs_lookup_namespace_object ==
    /\ At("lookup")
    /\ LET ns == Home[Top.type] IN
        \/ /\ ns = Private
           /\ Becomes(Read(Top.type, 0))
           /\ UNCHANGED <<nss, current, resolving>>
        \/ /\ ns \in resolving
           /\ Becomes(Read(Top.type, current[ns]))
           /\ UNCHANGED <<nss, current, resolving>>
        \/ /\ ns \in Namespaces \ resolving
           /\ MakesNamespace(ns)
           /\ Calls(Read(Top.type, Len(nss) + 1), Override(ns))
    /\ UNCHANGED <<private, protos, found, wrapped, uses>>

(* The override module asks for a class, or is done, or throws: the        *)
(* namespace stays in either case, and the repository forgets its name.    *)
OverrideAsks(t) ==
    /\ At("override") /\ t \in Top.todo
    /\ Calls([Top EXCEPT !.todo = @ \ {t}], Lookup(t))
    /\ UNCHANGED <<nss, current, resolving, private, protos, found, wrapped, uses>>

OverrideEnds ==
    /\ At("override")
    /\ resolving' = resolving \ {Top.ns}
    /\ stack' = Rest
    /\ UNCHANGED <<nss, current, private, protos, found, wrapped, uses>>

(* Mutant: the name is put into the namespace's table when it is defined.  *)
mutant_marked_late(at, t) == nss[at].modules

(* ns_get_property puts the name into its table before it defines it.      *)
Marked(at, t) == nss[at].modules \union {t}

(* ns_get_property and gwkjs_lookup_object_constructor_from_info: the      *)
(* class is defined already, or now from its description, or, when its     *)
(* name is in the table and nothing is under it, without.                  *)
gwkjs_lookup_object_constructor_from_info ==
    /\ At("read")
    /\ LET t == Top.type
           at == Top.at
           known == IF at = 0 THEN private[t] ELSE nss[at].class[t]
       IN \/ /\ known # 0
             /\ found' = known
             /\ stack' = Rest
             /\ UNCHANGED nss
          \/ /\ known = 0 /\ at # 0 /\ t \notin nss[at].modules
             /\ nss' = [nss EXCEPT ![at].modules = Marked(at, t)]
             /\ Becomes(Define(t, at, TRUE))
             /\ UNCHANGED found
          \/ /\ known = 0 /\ (at # 0 => t \in nss[at].modules)
             /\ Becomes(Define(t, at, FALSE))
             /\ UNCHANGED <<nss, found>>
    /\ UNCHANGED <<current, resolving, private, protos, wrapped, uses>>

(* gwkjs_define_object_class: the prototype of the parent type first.      *)
gwkjs_define_object_class ==
    /\ At("define")
    /\ LET create == Create(Top.type, Top.at, Top.info) IN
        IF Parent[Top.type] = NoType THEN Becomes(create)
        ELSE Calls(create, Lookup(Parent[Top.type]))
    /\ UNCHANGED <<nss, current, resolving, private, protos, found, wrapped, uses>>

(* Mutant: a prototype without a parent when its parent is not the last    *)
(* class found.                                                            *)
mutant_parent_cached(t) == IF Parent[t] = NoType THEN 0 ELSE Len(protos)

ParentPrototype(t) == IF Parent[t] = NoType THEN 0 ELSE found

(* gwkjs_init_class_dynamic makes the prototype and the constructor, and   *)
(* puts the constructor under the name of the class: the one it has in its *)
(* description, or else the name of the GType, under which only the        *)
(* private namespace is searched.                                          *)
gwkjs_init_class_dynamic ==
    /\ At("create")
    /\ LET t == Top.type
           new == Len(protos) + 1
       IN /\ protos' = Append(protos, [type |-> t, parent |-> ParentPrototype(t), info |-> Top.info])
          /\ nss' = IF Top.info THEN [nss EXCEPT ![Top.at].class[t] = new] ELSE nss
          /\ private' = IF Top.at = 0 THEN [private EXCEPT ![t] = new] ELSE private
          /\ found' = new
    /\ stack' = Rest
    /\ UNCHANGED <<current, resolving, wrapped, uses>>

Step ==
    \/ Wraps \/ gwkjs_lookup_namespace_object
    \/ (\E t \in Types : OverrideAsks(t)) \/ OverrideEnds
    \/ gwkjs_lookup_object_constructor_from_info
    \/ gwkjs_define_object_class \/ gwkjs_init_class_dynamic

Next ==
    \/ Step
    \/ \E t \in Types : gwkjs_object_from_g_object(t)
    \/ \E at \in DOMAIN nss, t \in Types : ReadsClass(at, t)

(* A lookup runs to its end, as long as override modules do.               *)
Spec == Init /\ [][Next]_vars /\ WF_vars(Step)

-----------------------------------------------------------------------------
TypeOK ==
    /\ \A i \in DOMAIN nss : nss[i].ns \in Namespaces /\ nss[i].modules \subseteq Types
    /\ resolving \subseteq Namespaces
    /\ \A i \in DOMAIN protos : protos[i].type \in Types
    /\ found \in 0..Len(protos)

(* The prototypes of a class and of the classes above it are those of the  *)
(* GTypes, whatever was defined in between: gwkjs_typecheck_object asserts *)
(* that the type of a wrapper is that of its object.                       *)
ChainFollowsTypes ==
    /\ \A i \in DOMAIN protos :
        IF Parent[protos[i].type] = NoType THEN protos[i].parent = 0
        ELSE protos[i].parent # 0 /\ protos[protos[i].parent].type = Parent[protos[i].type]
    /\ \A w \in wrapped : w[2] # 0 /\ protos[w[2]].type = w[1]

(* A namespace object defines a class once, however often and wherever it  *)
(* is asked for; until it has, the definition is under way.                *)
DefinedOnce ==
    \A at \in DOMAIN nss, t \in Types :
        /\ t \in nss[at].modules <=>
                \/ nss[at].class[t] # 0
                \/ \E i \in DOMAIN stack : stack[i].op \in {"define", "create"}
                                           /\ stack[i].type = t /\ stack[i].at = at /\ stack[i].info
        /\ \A i, j \in DOMAIN stack :
                /\ stack[i].op \in {"define", "create"} /\ stack[j].op \in {"define", "create"}
                /\ stack[i].type = t /\ stack[j].type = t
                /\ stack[i].at = at /\ stack[j].at = at /\ stack[i].info /\ stack[j].info
                => i = j

(* Both hold however the definitions of classes nest.                      *)
ClassesSound == ChainFollowsTypes /\ DefinedOnce

(* A class that JavaScript has read from a namespace object stays the      *)
(* class there: subclasses and instanceof depend on it.                    *)
ClassStays ==
    [][\A at \in DOMAIN nss, t \in Types :
        nss[at].class[t] # 0 => nss'[at].class[t] = nss[at].class[t]]_vars

(* Every lookup ends, although overrides look up classes whose namespaces  *)
(* have overrides: a namespace that is being made is not made again.       *)
(* Lookups that went on for ever would stop at MaxDepth.                   *)
EveryLookupEnds == stack # << >> ~> stack = << >>
=============================================================================

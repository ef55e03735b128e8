------------------------ MODULE Repository_proofs -------------------------
(* Safety of Classes for any types, namespaces and overrides, also parents *)
(* and overrides that go round in circles; and of Wrappers for any         *)
(* enumerations, any GParamSpecs and any number of wrappers.               *)
EXTENDS Classes, Wrappers, FiniteSetTheorems, SequenceTheorems, WellFoundedInduction,
        TLAPS

Looking == {"lookup", "read", "define", "create"}

(* A frame that waits for the prototype of a type.                         *)
Waits(f)  == f.op = "wrap" \/ (f.op = "create" /\ Parent[f.type] # NoType)
Wanted(f) == IF f.op = "wrap" THEN f.type ELSE Parent[f.type]

IsPrototype(ps, p, t) == p \in DOMAIN ps /\ ps[p].type = t

PrototypesOK ==
    /\ \E S : protos \in Seq(S)
    /\ \A i \in DOMAIN protos :
        /\ protos[i].type \in Types
        /\ IF Parent[protos[i].type] = NoType THEN protos[i].parent = 0
           ELSE IsPrototype(protos, protos[i].parent, Parent[protos[i].type])
    /\ \A w \in wrapped : IsPrototype(protos, w[2], w[1])

(* What a namespace object, or the private namespace, has under a type's   *)
(* name is a class of that type.                                           *)
NamespacesOK ==
    /\ \E S : nss \in Seq(S)
    /\ \A at \in DOMAIN nss :
        /\ DOMAIN nss[at] = {"ns", "modules", "class"}
        /\ nss[at].modules \subseteq Types
        /\ DOMAIN nss[at].class = Types
        /\ \A t \in Types : nss[at].class[t] # 0 => IsPrototype(protos, nss[at].class[t], t)
    /\ DOMAIN private = Types
    /\ \A t \in Types : private[t] # 0 => IsPrototype(protos, private[t], t)
    /\ DOMAIN current = Namespaces /\ resolving \subseteq Namespaces
    /\ \A ns \in Namespaces : ns \in resolving => current[ns] \in DOMAIN nss

Fields == {"op", "type", "at", "info", "ns", "todo"}

FrameOK(f, known) ==
    /\ DOMAIN f = Fields
    /\ f.op \in Looking \union {"wrap", "override"}
    /\ f.op # "override" => f.type \in Types
    /\ f.todo \subseteq Types
    /\ f.at \in {0} \union known
    /\ f.info => f.at # 0

(* A frame that waits has the lookup it waits for above it, until that has *)
(* returned; override modules run above the read that made the namespace.  *)
StackOK ==
    /\ \E S : stack \in Seq(S)
    /\ \A k \in DOMAIN stack : FrameOK(stack[k], DOMAIN nss)
    /\ \A k \in DOMAIN stack : k + 1 \in DOMAIN stack =>
        /\ stack[k + 1].op # "wrap"
        /\ stack[k + 1].op = "override" => stack[k].op = "read"
        /\ Waits(stack[k]) => stack[k + 1].op \in Looking /\ stack[k + 1].type = Wanted(stack[k])
    /\ stack # << >> /\ Waits(Top) => IsPrototype(protos, found, Wanted(Top))

(* The definition of a class by its description is under way.              *)
Defining(f) == f.op \in {"define", "create"} /\ f.info

DefinitionsOK ==
    /\ \A at \in DOMAIN nss, t \in Types :
        /\ nss[at].class[t] # 0 => t \in nss[at].modules
        /\ t \in nss[at].modules /\ nss[at].class[t] = 0 =>
            \E i \in DOMAIN stack : Defining(stack[i]) /\ stack[i].type = t /\ stack[i].at = at
    /\ \A i \in DOMAIN stack : Defining(stack[i]) =>
            /\ stack[i].type \in nss[stack[i].at].modules
            /\ nss[stack[i].at].class[stack[i].type] = 0
    /\ \A i, j \in DOMAIN stack :
            /\ Defining(stack[i]) /\ Defining(stack[j])
            /\ stack[i].type = stack[j].type /\ stack[i].at = stack[j].at
            => i = j

IInv == PrototypesOK /\ NamespacesOK /\ StackOK /\ DefinitionsOK

-----------------------------------------------------------------------------
LEMMA FramesAre ==
    ASSUME NEW t, NEW at, NEW info, NEW ns
    PROVE  /\ Lookup(t).op = "lookup" /\ Lookup(t).type = t /\ Lookup(t).at = 0
           /\ ~Lookup(t).info /\ Lookup(t).todo = {}
           /\ Read(t, at).op = "read" /\ Read(t, at).type = t /\ Read(t, at).at = at
           /\ ~Read(t, at).info /\ Read(t, at).todo = {}
           /\ Define(t, at, info).op = "define" /\ Define(t, at, info).type = t
           /\ Define(t, at, info).at = at /\ Define(t, at, info).info = info
           /\ Define(t, at, info).todo = {}
           /\ Create(t, at, info).op = "create" /\ Create(t, at, info).type = t
           /\ Create(t, at, info).at = at /\ Create(t, at, info).info = info
           /\ Create(t, at, info).todo = {}
           /\ Override(ns).op = "override" /\ Override(ns).todo = Touches[ns]
           /\ Override(ns).at = 0 /\ ~Override(ns).info
           /\ DOMAIN Lookup(t) = Fields /\ DOMAIN Read(t, at) = Fields
           /\ DOMAIN Define(t, at, info) = Fields /\ DOMAIN Create(t, at, info) = Fields
           /\ DOMAIN Override(ns) = Fields
BY DEF Lookup, Read, Define, Create, Override, Fields

LEMMA Tops ==
    ASSUME StackOK, stack # << >>
    PROVE  /\ Len(stack) \in Nat \ {0} /\ DOMAIN stack = 1..Len(stack)
           /\ Len(stack) \in DOMAIN stack /\ Top = stack[Len(stack)] /\ FrameOK(Top, DOMAIN nss)
<1>1. PICK S : stack \in Seq(S)
  BY DEF StackOK
<1>2. /\ Len(stack) \in Nat \ {0} /\ DOMAIN stack = 1..Len(stack)
  BY <1>1, EmptySeq
<1> QED
  BY <1>2 DEF Top, StackOK

LEMMA RestIs ==
    ASSUME StackOK, stack # << >>
    PROVE  /\ \E S : Rest \in Seq(S)
           /\ DOMAIN Rest = 1..Len(stack) - 1 /\ Len(Rest) = Len(stack) - 1
           /\ \A k \in 1..Len(stack) - 1 : Rest[k] = stack[k]
<1>1. PICK S : stack \in Seq(S)
  BY DEF StackOK
<1>2. Len(stack) \in Nat \ {0} /\ DOMAIN stack = 1..Len(stack)
  BY <1>1, EmptySeq
<1>3. Rest \in Seq(S) /\ Len(Rest) = Len(stack) - 1 /\ DOMAIN Rest = 1..Len(stack) - 1
      /\ \A k \in 1..Len(stack) - 1 : Rest[k] = stack[k]
  BY <1>1, <1>2 DEF Rest
<1> QED
  BY <1>3

LEMMA BecomesIs ==
    ASSUME StackOK, stack # << >>, NEW f, Becomes(f)
    PROVE  /\ \E S : stack' \in Seq(S)
           /\ DOMAIN stack' = 1..Len(stack) /\ Len(stack') = Len(stack)
           /\ stack'[Len(stack)] = f
           /\ \A k \in 1..Len(stack) - 1 : stack'[k] = stack[k]
<1> DEFINE n == Len(stack)  r == Rest
<1>1. PICK S : r \in Seq(S)
  BY RestIs
<1>2. n \in Nat \ {0} /\ Len(r) = n - 1 /\ \A k \in 1..n - 1 : r[k] = stack[k]
  BY Tops, RestIs
<1>3. stack' = Append(r, f)
  BY DEF Becomes
<1> HIDE DEF n, r
<1>4. r \in Seq(S \union {f})
  BY <1>1, SeqMonotonic
<1>5. /\ stack' \in Seq(S \union {f}) /\ Len(stack') = n /\ DOMAIN stack' = 1..n
      /\ stack'[n] = f /\ \A k \in 1..n - 1 : stack'[k] = r[k]
  BY <1>2, <1>3, <1>4, AppendProperties
<1> QED
  BY <1>2, <1>5 DEF n

LEMMA CallsIs ==
    ASSUME StackOK, stack # << >>, NEW f, NEW g, Calls(f, g)
    PROVE  /\ \E S : stack' \in Seq(S)
           /\ DOMAIN stack' = 1..Len(stack) + 1 /\ Len(stack') = Len(stack) + 1
           /\ stack'[Len(stack)] = f /\ stack'[Len(stack) + 1] = g
           /\ \A k \in 1..Len(stack) - 1 : stack'[k] = stack[k]
<1> DEFINE n == Len(stack)  r == Rest  s == Append(r, f)
<1>1. PICK S : r \in Seq(S)
  BY RestIs
<1>2. n \in Nat \ {0} /\ Len(r) = n - 1 /\ \A k \in 1..n - 1 : r[k] = stack[k]
  BY Tops, RestIs
<1>3. stack' = Append(s, g)
  BY DEF Calls
<1> DEFINE T == S \union {f, g}
<1>4. r \in Seq(T) /\ f \in T /\ g \in T
  BY <1>1, SeqMonotonic
<1> HIDE DEF n, r, T
<1>5. /\ s \in Seq(T) /\ Len(s) = n /\ DOMAIN s = 1..n
      /\ s[n] = f /\ \A k \in 1..n - 1 : s[k] = r[k]
  BY <1>2, <1>4, AppendProperties
<1> HIDE DEF s
<1>6. /\ stack' \in Seq(T) /\ Len(stack') = n + 1 /\ DOMAIN stack' = 1..n + 1
      /\ stack'[n + 1] = g /\ \A k \in 1..n : stack'[k] = s[k]
  BY <1>2, <1>3, <1>4, <1>5, AppendProperties
<1> QED
  BY <1>2, <1>5, <1>6 DEF n

-----------------------------------------------------------------------------
(* What every step does to prototypes and namespace objects: prototypes    *)
(* stay, and namespace objects stay where they are.                        *)
Grows ==
    /\ \A p, t : IsPrototype(protos, p, t) => IsPrototype(protos', p, t)
    /\ DOMAIN nss \subseteq DOMAIN nss'

LEMMA FramesStay ==
    ASSUME Grows, NEW f, FrameOK(f, DOMAIN nss)
    PROVE  FrameOK(f, DOMAIN nss')
BY DEF Grows, FrameOK

(* f may take the place of the frame g at the top of the stack.            *)
Replaces(f, g) ==
    /\ FrameOK(f, DOMAIN nss') /\ f.op # "wrap"
    /\ f.op = "override" => g.op = "override"
    /\ g.op \in Looking => f.op \in Looking /\ f.type = g.type

(* g may be above f.                                                       *)
Above(g, f) ==
    /\ FrameOK(g, DOMAIN nss') /\ g.op # "wrap" /\ ~Waits(g)
    /\ g.op = "override" => f.op = "read"
    /\ Waits(f) => g.op \in Looking /\ g.type = Wanted(f)

LEMMA PopStack ==
    ASSUME StackOK, stack # << >>, stack' = Rest, Grows,
           Len(stack) > 1 /\ Waits(stack[Len(stack) - 1])
                => IsPrototype(protos', found', Wanted(stack[Len(stack) - 1]))
    PROVE  StackOK'
<1> DEFINE n == Len(stack)
<1>1. /\ n \in Nat \ {0} /\ DOMAIN stack = 1..n
  BY Tops
<1>2. /\ \E S : stack' \in Seq(S)
      /\ DOMAIN stack' = 1..n - 1 /\ Len(stack') = n - 1
      /\ \A k \in 1..n - 1 : stack'[k] = stack[k]
  BY RestIs
<1> HIDE DEF n
<1>3. \A k \in DOMAIN stack' : FrameOK(stack'[k], DOMAIN nss')
  BY <1>1, <1>2, FramesStay DEF StackOK
<1>4. \A k \in DOMAIN stack' : k + 1 \in DOMAIN stack' =>
        /\ stack'[k + 1].op # "wrap"
        /\ stack'[k + 1].op = "override" => stack'[k].op = "read"
        /\ Waits(stack'[k]) => stack'[k + 1].op \in Looking /\ stack'[k + 1].type = Wanted(stack'[k])
  <2> SUFFICES ASSUME NEW k \in 1..n - 1, k + 1 \in 1..n - 1
               PROVE  /\ stack[k + 1].op # "wrap"
                      /\ stack[k + 1].op = "override" => stack[k].op = "read"
                      /\ Waits(stack[k]) => stack[k + 1].op \in Looking /\ stack[k + 1].type = Wanted(stack[k])
    BY <1>2
  <2>1. k \in DOMAIN stack /\ k + 1 \in DOMAIN stack
    BY <1>1
  <2> QED
    BY <2>1 DEF StackOK
<1>5. (stack # << >> /\ Waits(Top) => IsPrototype(protos, found, Wanted(Top)))'
  <2> SUFFICES ASSUME stack' # << >>, Waits(Top)'
               PROVE  IsPrototype(protos', found', Wanted(Top)')
    BY DEF Waits, Wanted
  <2>1. n > 1
    <3>1. n # 1
      <4> SUFFICES ASSUME n = 1 PROVE FALSE
        OBVIOUS
      <4>1. PICK S : stack' \in Seq(S)
        BY <1>2
      <4>2. Len(stack') = 0
        BY <1>2
      <4> QED
        BY <4>1, <4>2, EmptySeq
    <3> QED
      BY <3>1, <1>1
  <2>2. Top' = stack[n - 1]
    BY <2>1, <1>1, <1>2 DEF Top
  <2>3. Waits(stack[n - 1]) /\ Wanted(Top)' = Wanted(stack[n - 1])
    BY <2>2 DEF Waits, Wanted
  <2> QED
    BY <2>1, <2>3 DEF n
<1> QED
  BY <1>2, <1>3, <1>4, <1>5 DEF StackOK, Waits, Wanted

LEMMA BecomesStack ==
    ASSUME StackOK, stack # << >>, Grows, NEW f, Becomes(f), Replaces(f, Top), ~Waits(f)
    PROVE  StackOK'
<1> DEFINE n == Len(stack)
<1>1. n \in Nat \ {0} /\ DOMAIN stack = 1..n /\ Top = stack[n]
  BY Tops
<1>2. /\ \E S : stack' \in Seq(S)
      /\ DOMAIN stack' = 1..n /\ Len(stack') = n /\ stack'[n] = f
      /\ \A k \in 1..n - 1 : stack'[k] = stack[k]
  BY BecomesIs
<1> HIDE DEF n
<1>3. \A k \in DOMAIN stack' : FrameOK(stack'[k], DOMAIN nss')
  <2> SUFFICES ASSUME NEW k \in 1..n PROVE FrameOK(stack'[k], DOMAIN nss')
    BY <1>2
  <2>1. CASE k = n
    BY <2>1, <1>2 DEF Replaces
  <2>2. CASE k # n
    BY SMTT(30), ZenonT(30), <2>2, <1>1, <1>2, FramesStay DEF StackOK
  <2> QED
    BY <2>1, <2>2
<1>4. \A k \in DOMAIN stack' : k + 1 \in DOMAIN stack' =>
        /\ stack'[k + 1].op # "wrap"
        /\ stack'[k + 1].op = "override" => stack'[k].op = "read"
        /\ Waits(stack'[k]) => stack'[k + 1].op \in Looking /\ stack'[k + 1].type = Wanted(stack'[k])
  <2> SUFFICES ASSUME NEW k \in 1..n, k + 1 \in 1..n
               PROVE  /\ stack'[k + 1].op # "wrap"
                      /\ stack'[k + 1].op = "override" => stack[k].op = "read"
                      /\ Waits(stack[k]) => stack'[k + 1].op \in Looking /\ stack'[k + 1].type = Wanted(stack[k])
    BY <1>1, <1>2
  <2>1. /\ stack[k + 1].op # "wrap"
        /\ stack[k + 1].op = "override" => stack[k].op = "read"
        /\ Waits(stack[k]) => stack[k + 1].op \in Looking /\ stack[k + 1].type = Wanted(stack[k])
    BY <1>1 DEF StackOK
  <2>2. CASE k + 1 = n
    BY <2>1, <2>2, <1>1, <1>2 DEF Replaces
  <2>3. CASE k + 1 # n
    BY <2>1, <2>3, <1>1, <1>2
  <2> QED
    BY <2>2, <2>3
<1>5. ~Waits(Top)'
  BY <1>1, <1>2 DEF Top, Waits
<1> QED
  BY <1>2, <1>3, <1>4, <1>5 DEF StackOK, Waits, Wanted

LEMMA CallsStack ==
    ASSUME StackOK, stack # << >>, Grows, NEW f, NEW g, Calls(f, g), Replaces(f, Top), Above(g, f)
    PROVE  StackOK'
<1> DEFINE n == Len(stack)
<1>1. n \in Nat \ {0} /\ DOMAIN stack = 1..n /\ Top = stack[n]
  BY Tops
<1>2. /\ \E S : stack' \in Seq(S)
      /\ DOMAIN stack' = 1..n + 1 /\ Len(stack') = n + 1 /\ stack'[n] = f /\ stack'[n + 1] = g
      /\ \A k \in 1..n - 1 : stack'[k] = stack[k]
  BY CallsIs
<1> HIDE DEF n
<1>3. \A k \in DOMAIN stack' : FrameOK(stack'[k], DOMAIN nss')
  <2> SUFFICES ASSUME NEW k \in 1..n + 1 PROVE FrameOK(stack'[k], DOMAIN nss')
    BY <1>2
  <2>1. CASE k \in {n, n + 1}
    BY <2>1, <1>2 DEF Replaces, Above
  <2>2. CASE k \notin {n, n + 1}
    BY <2>2, <1>1, <1>2, FramesStay DEF StackOK
  <2> QED
    BY <2>1, <2>2
<1>4. \A k \in DOMAIN stack' : k + 1 \in DOMAIN stack' =>
        /\ stack'[k + 1].op # "wrap"
        /\ stack'[k + 1].op = "override" => stack'[k].op = "read"
        /\ Waits(stack'[k]) => stack'[k + 1].op \in Looking /\ stack'[k + 1].type = Wanted(stack'[k])
  <2> SUFFICES ASSUME NEW k \in 1..n
               PROVE  /\ stack'[k + 1].op # "wrap"
                      /\ stack'[k + 1].op = "override" => stack'[k].op = "read"
                      /\ Waits(stack'[k]) => stack'[k + 1].op \in Looking /\ stack'[k + 1].type = Wanted(stack'[k])
    BY <1>1, <1>2
  <2>0. CASE k = n
    BY <2>0, <1>1, <1>2 DEF Above
  <2>1. k # n =>
        /\ stack[k + 1].op # "wrap"
        /\ stack[k + 1].op = "override" => stack[k].op = "read"
        /\ Waits(stack[k]) => stack[k + 1].op \in Looking /\ stack[k + 1].type = Wanted(stack[k])
    <3> SUFFICES ASSUME k # n
                 PROVE  /\ stack[k + 1].op # "wrap"
                        /\ stack[k + 1].op = "override" => stack[k].op = "read"
                        /\ Waits(stack[k]) => stack[k + 1].op \in Looking /\ stack[k + 1].type = Wanted(stack[k])
      OBVIOUS
    <3>1. k \in DOMAIN stack /\ k + 1 \in DOMAIN stack
      BY <1>1
    <3> QED
      BY <3>1 DEF StackOK
  <2>2. CASE k + 1 = n
    BY <2>1, <2>2, <1>1, <1>2 DEF Replaces
  <2>3. CASE k + 1 # n /\ k # n
    BY <2>1, <2>3, <1>1, <1>2
  <2> QED
    BY <2>0, <2>2, <2>3
<1>5. ~Waits(Top)'
  BY <1>1, <1>2 DEF Top, Waits, Above
<1> QED
  BY <1>2, <1>3, <1>4, <1>5 DEF StackOK, Waits, Wanted

-----------------------------------------------------------------------------
(* The same definitions are under way, in the same places.                 *)
SameDefinitions ==
    \A i : /\ i \in DOMAIN stack /\ Defining(stack[i]) <=> i \in DOMAIN stack' /\ Defining(stack'[i])
           /\ i \in DOMAIN stack /\ Defining(stack[i]) =>
                stack'[i].type = stack[i].type /\ stack'[i].at = stack[i].at

LEMMA PopSame ==
    ASSUME StackOK, stack # << >>, stack' = Rest, ~Defining(Top)
    PROVE  SameDefinitions
<1> DEFINE n == Len(stack)
<1>1. n \in Nat \ {0} /\ DOMAIN stack = 1..n /\ Top = stack[n]
  BY Tops
<1>2. DOMAIN stack' = 1..n - 1 /\ \A k \in 1..n - 1 : stack'[k] = stack[k]
  BY RestIs
<1> HIDE DEF n
<1>3. \A k \in 1..n : k \in 1..n - 1 \/ k = n
  BY <1>1
<1>4. \A k \in 1..n - 1 : k \in 1..n
  BY <1>1
<1> QED
  BY <1>1, <1>2, <1>3, <1>4 DEF SameDefinitions

LEMMA BecomesSame ==
    ASSUME StackOK, stack # << >>, NEW f, Becomes(f),
           Defining(f) <=> Defining(Top), f.type = Top.type, f.at = Top.at \/ ~Defining(f)
    PROVE  SameDefinitions
<1> DEFINE n == Len(stack)
<1>1. n \in Nat \ {0} /\ DOMAIN stack = 1..n /\ Top = stack[n]
  BY Tops
<1>2. /\ DOMAIN stack' = 1..n /\ stack'[n] = f
      /\ \A k \in 1..n - 1 : stack'[k] = stack[k]
  BY BecomesIs
<1> HIDE DEF n
<1>3. \A k \in 1..n : k \in 1..n - 1 \/ k = n
  BY <1>1
<1> QED
  BY <1>1, <1>2, <1>3 DEF SameDefinitions

LEMMA CallsSame ==
    ASSUME StackOK, stack # << >>, NEW f, NEW g, Calls(f, g), ~Defining(g),
           Defining(f) <=> Defining(Top), f.type = Top.type, f.at = Top.at \/ ~Defining(f)
    PROVE  SameDefinitions
<1> DEFINE n == Len(stack)
<1>1. n \in Nat \ {0} /\ DOMAIN stack = 1..n /\ Top = stack[n]
  BY Tops
<1>2. /\ DOMAIN stack' = 1..n + 1 /\ stack'[n] = f /\ stack'[n + 1] = g
      /\ \A k \in 1..n - 1 : stack'[k] = stack[k]
  BY CallsIs
<1> HIDE DEF n
<1>3. \A k \in 1..n + 1 : k \in 1..n - 1 \/ k = n \/ k = n + 1
  BY <1>1
<1>4. \A k \in 1..n : k \in 1..n + 1 /\ k # n + 1
  BY <1>1
<1> QED
  BY <1>1, <1>2, <1>3, <1>4 DEF SameDefinitions

LEMMA DefinedWhere ==
    ASSUME StackOK, NEW i \in DOMAIN stack, Defining(stack[i])
    PROVE  stack[i].at \in DOMAIN nss /\ stack[i].type \in Types
BY DEF StackOK, FrameOK, Defining

LEMMA DefinitionsKept ==
    ASSUME StackOK, DefinitionsOK, SameDefinitions,
           \A at \in DOMAIN nss :
                /\ at \in DOMAIN nss' 
                /\ nss'[at].modules = nss[at].modules /\ nss'[at].class = nss[at].class,
           \A at \in DOMAIN nss' \ DOMAIN nss, t \in Types :
                t \notin nss'[at].modules /\ nss'[at].class[t] = 0
    PROVE  DefinitionsOK'
<1>1. ASSUME NEW at \in DOMAIN nss', NEW t \in Types
      PROVE  /\ nss'[at].class[t] # 0 => t \in nss'[at].modules
             /\ t \in nss'[at].modules /\ nss'[at].class[t] = 0 =>
                  \E i \in DOMAIN stack' : Defining(stack'[i]) /\ stack'[i].type = t /\ stack'[i].at = at
  <2>1. CASE at \notin DOMAIN nss
    BY <1>1, <2>1
  <2>2. CASE at \in DOMAIN nss
    <3>1. nss'[at].modules = nss[at].modules /\ nss'[at].class = nss[at].class
      BY <2>2
    <3>2. nss[at].class[t] # 0 => t \in nss[at].modules
      BY <2>2 DEF DefinitionsOK
    <3>3. ASSUME t \in nss[at].modules, nss[at].class[t] = 0
          PROVE  \E i \in DOMAIN stack' : Defining(stack'[i]) /\ stack'[i].type = t /\ stack'[i].at = at
      <4>1. PICK i \in DOMAIN stack : Defining(stack[i]) /\ stack[i].type = t /\ stack[i].at = at
        BY <2>2, <3>3 DEF DefinitionsOK
      <4> QED
        BY <4>1 DEF SameDefinitions
    <3> QED
      BY <3>1, <3>2, <3>3
  <2> QED
    BY <2>1, <2>2
<1>2. ASSUME NEW i \in DOMAIN stack', Defining(stack'[i])
      PROVE  /\ stack'[i].type \in nss'[stack'[i].at].modules
             /\ nss'[stack'[i].at].class[stack'[i].type] = 0
  <2>1. /\ i \in DOMAIN stack /\ Defining(stack[i])
        /\ stack'[i].type = stack[i].type /\ stack'[i].at = stack[i].at
    BY <1>2 DEF SameDefinitions
  <2>2. stack[i].at \in DOMAIN nss
    BY <2>1, DefinedWhere
  <2>3. /\ stack[i].type \in nss[stack[i].at].modules
        /\ nss[stack[i].at].class[stack[i].type] = 0
    BY <2>1 DEF DefinitionsOK
  <2> QED
    BY <2>1, <2>2, <2>3
<1>3. ASSUME NEW i \in DOMAIN stack', NEW j \in DOMAIN stack',
             Defining(stack'[i]), Defining(stack'[j]),
             stack'[i].type = stack'[j].type, stack'[i].at = stack'[j].at
      PROVE  i = j
  <2>1. /\ i \in DOMAIN stack /\ Defining(stack[i]) /\ j \in DOMAIN stack /\ Defining(stack[j])
        /\ stack[i].type = stack[j].type /\ stack[i].at = stack[j].at
    BY <1>3 DEF SameDefinitions
  <2> QED
    BY <2>1 DEF DefinitionsOK
<1> QED
  BY <1>1, <1>2, <1>3 DEF DefinitionsOK

LEMMA NothingDefined ==
    ASSUME StackOK, DefinitionsOK, SameDefinitions, UNCHANGED nss
    PROVE  DefinitionsOK'
BY DefinitionsKept

(* A step that makes no namespace object and no prototype.                 *)
LEMMA NothingMade ==
    ASSUME UNCHANGED <<nss, current, private, protos>>, resolving' \subseteq resolving
    PROVE  Grows /\ (NamespacesOK => NamespacesOK')
<1>1. Grows
  BY DEF Grows
<1>2. NamespacesOK => NamespacesOK'
  BY DEF NamespacesOK
<1> QED
  BY <1>1, <1>2

LEMMA PrototypesKept ==
    ASSUME PrototypesOK, UNCHANGED <<protos, wrapped>>
    PROVE  PrototypesOK'
BY DEF PrototypesOK

-----------------------------------------------------------------------------
LEMMA Below ==
    ASSUME StackOK, stack # << >>, Len(stack) > 1
    PROVE  LET b == stack[Len(stack) - 1] IN
           /\ Top.op # "wrap"
           /\ Top.op = "override" => b.op = "read"
           /\ Waits(b) => Top.op \in Looking /\ Top.type = Wanted(b)
<1> DEFINE k == Len(stack) - 1
<1>1. k \in DOMAIN stack /\ k + 1 \in DOMAIN stack /\ Top = stack[k + 1]
  BY Tops
<1> HIDE DEF k
<1>2. /\ Top.op # "wrap"
      /\ Top.op = "override" => stack[k].op = "read"
      /\ Waits(stack[k]) => Top.op \in Looking /\ Top.type = Wanted(stack[k])
  BY <1>1 DEF StackOK
<1> QED
  BY <1>2 DEF k

LEMMA WrapsStep ==
    ASSUME IInv, Wraps
    PROVE  IInv'
<1>1. StackOK /\ stack # << >> /\ Top.op = "wrap" /\ stack' = Rest
  BY DEF IInv, Wraps, At
<1>2. Grows /\ NamespacesOK'
  BY NothingMade DEF IInv, Wraps
<1>3. IsPrototype(protos, found, Top.type)
  BY <1>1 DEF StackOK, Waits, Wanted
<1>4. PrototypesOK'
  <2>1. \A w \in wrapped' : IsPrototype(protos, w[2], w[1])
    BY <1>3 DEF IInv, PrototypesOK, Wraps
  <2> QED
    BY <2>1 DEF IInv, PrototypesOK, Wraps
<1>5. StackOK'
  BY <1>1, <1>2, Below, PopStack
<1>6. DefinitionsOK'
  BY <1>1, PopSame, NothingDefined DEF Defining, IInv, Wraps
<1> QED
  BY <1>2, <1>4, <1>5, <1>6 DEF IInv

LEMMA OverrideEndsStep ==
    ASSUME IInv, OverrideEnds
    PROVE  IInv'
<1>1. StackOK /\ stack # << >> /\ Top.op = "override" /\ stack' = Rest
  BY DEF IInv, OverrideEnds, At
<1>2. Grows /\ NamespacesOK'
  BY NothingMade DEF IInv, OverrideEnds
<1>3. PrototypesOK'
  BY PrototypesKept DEF IInv, OverrideEnds
<1>4. Len(stack) > 1 => ~Waits(stack[Len(stack) - 1])
  BY <1>1, Below DEF Waits
<1>5. StackOK'
  BY <1>1, <1>2, <1>4, PopStack
<1>6. DefinitionsOK'
  BY <1>1, PopSame, NothingDefined DEF Defining, IInv, OverrideEnds
<1> QED
  BY <1>2, <1>3, <1>5, <1>6 DEF IInv

LEMMA OverrideAsksStep ==
    ASSUME IInv, NEW t \in Types, OverrideAsks(t)
    PROVE  IInv'
<1> DEFINE f == [Top EXCEPT !.todo = @ \ {t}]
<1>1. StackOK /\ stack # << >> /\ Top.op = "override" /\ Calls(f, Lookup(t))
  BY DEF IInv, OverrideAsks, At
<1>2. Grows /\ NamespacesOK'
  BY NothingMade DEF IInv, OverrideAsks
<1>3. PrototypesOK'
  BY PrototypesKept DEF IInv, OverrideAsks
<1>4. FrameOK(Top, DOMAIN nss)
  BY <1>1, Tops
<1>5. /\ DOMAIN f = Fields /\ f.op = "override" /\ f.at = Top.at /\ f.info = Top.info
      /\ f.type = Top.type /\ f.todo \subseteq Top.todo
  BY <1>1, <1>4 DEF FrameOK, Fields
<1> HIDE DEF f
<1>6. FrameOK(f, DOMAIN nss)
  BY <1>1, <1>4, <1>5 DEF FrameOK
<1>7. Replaces(f, Top)
  BY <1>1, <1>2, <1>5, <1>6, FramesStay DEF Replaces, Looking
<1>8. Above(Lookup(t), f)
  BY <1>5, FramesAre DEF Above, FrameOK, Waits, Looking
<1>9. StackOK'
  BY <1>1, <1>2, <1>7, <1>8, CallsStack
<1>10. SameDefinitions
  BY <1>1, <1>5, FramesAre, CallsSame DEF Defining
<1>11. DefinitionsOK'
  BY <1>10, NothingDefined DEF IInv, OverrideAsks
<1> QED
  BY <1>2, <1>3, <1>9, <1>11 DEF IInv

LEMMA DefineStep ==
    ASSUME IInv, gwkjs_define_object_class
    PROVE  IInv'
<1> DEFINE f == Create(Top.type, Top.at, Top.info)
<1>1. /\ StackOK /\ stack # << >> /\ Top.op = "define"
      /\ \/ Parent[Top.type] = NoType /\ Becomes(f)
         \/ Parent[Top.type] # NoType /\ Calls(f, Lookup(Parent[Top.type]))
  BY DEF IInv, gwkjs_define_object_class, At
<1>2. Grows /\ NamespacesOK'
  BY NothingMade DEF IInv, gwkjs_define_object_class
<1>3. PrototypesOK'
  BY PrototypesKept DEF IInv, gwkjs_define_object_class
<1>4. FrameOK(Top, DOMAIN nss) /\ Top.type \in Types
  BY <1>1, Tops DEF FrameOK
<1>5. /\ DOMAIN f = Fields /\ f.op = "create" /\ f.at = Top.at /\ f.info = Top.info
      /\ f.type = Top.type /\ f.todo = {}
  BY DEF Create, Define, Lookup, Fields
<1> HIDE DEF f
<1>6. FrameOK(f, DOMAIN nss)
  BY <1>1, <1>4, <1>5 DEF FrameOK, Looking
<1>7. Replaces(f, Top)
  BY <1>1, <1>2, <1>5, <1>6, FramesStay DEF Replaces, Looking
<1>8. Defining(f) <=> Defining(Top)
  BY <1>1, <1>5 DEF Defining
<1>0. StackOK /\ stack # << >>
  BY <1>1
<1>9. StackOK' /\ SameDefinitions
  <2>1. CASE Parent[Top.type] = NoType /\ Becomes(f)
    <3>1. ~Waits(f)
      BY <2>1, <1>5 DEF Waits
    <3>2. StackOK'
      BY <3>1, <2>1, <1>1, <1>2, <1>7, BecomesStack
    <3>3. SameDefinitions
      BY <2>1, <1>0, <1>5, <1>8, BecomesSame
    <3> QED
      BY <3>2, <3>3
  <2>2. CASE Parent[Top.type] # NoType /\ Calls(f, Lookup(Parent[Top.type]))
    <3>1. Parent[Top.type] \in Types
      BY <2>2, <1>4, ClassesAssumption
    <3>2. Above(Lookup(Parent[Top.type]), f)
      BY <3>1, <1>5, FramesAre DEF Above, FrameOK, Waits, Wanted, Looking
    <3>3. StackOK'
      BY <3>2, <2>2, <1>1, <1>2, <1>7, CallsStack
    <3>4. SameDefinitions
      BY <2>2, <1>0, <1>5, <1>8, FramesAre, CallsSame DEF Defining
    <3> QED
      BY <3>3, <3>4
  <2> QED
    BY <1>1, <2>1, <2>2
<1>10. DefinitionsOK'
  BY <1>1, <1>9, NothingDefined DEF IInv, gwkjs_define_object_class
<1> QED
  BY <1>2, <1>3, <1>9, <1>10 DEF IInv

LEMMA WrapStarts ==
    ASSUME IInv, NEW t \in Types, gwkjs_object_from_g_object(t)
    PROVE  IInv'
<1> DEFINE f == [Lookup(t) EXCEPT !.op = "wrap"]
<1>1. stack = << >> /\ stack' = <<f, Lookup(t)>>
  BY DEF gwkjs_object_from_g_object
<1>2. Grows /\ NamespacesOK'
  BY NothingMade DEF IInv, gwkjs_object_from_g_object
<1>3. PrototypesOK'
  BY PrototypesKept DEF IInv, gwkjs_object_from_g_object
<1>4. /\ DOMAIN f = Fields /\ f.op = "wrap" /\ f.at = 0 /\ ~f.info
      /\ f.type = t /\ f.todo = {}
  BY DEF Lookup, Fields
<1>5. /\ DOMAIN Lookup(t) = Fields /\ Lookup(t).op = "lookup" /\ Lookup(t).at = 0
      /\ ~Lookup(t).info /\ Lookup(t).type = t /\ Lookup(t).todo = {}
  BY FramesAre
<1> DEFINE g == Lookup(t)
<1> HIDE DEF f, g
<1>6. stack' \in Seq({f, g}) /\ DOMAIN stack' = {1, 2} /\ Len(stack') = 2 /\ stack'[1] = f /\ stack'[2] = g
  BY <1>1 DEF g
<1>7. /\ FrameOK(f, DOMAIN nss') /\ FrameOK(g, DOMAIN nss')
      /\ g.op \in Looking /\ g.op # "wrap" /\ g.op # "override" /\ g.type = Wanted(f)
      /\ ~Waits(g) /\ ~Defining(f) /\ ~Defining(g)
  BY <1>4, <1>5 DEF FrameOK, Looking, Wanted, Waits, Defining, g
<1>8. StackOK'
  <2>1. \A k \in DOMAIN stack' : FrameOK(stack'[k], DOMAIN nss')
    BY <1>6, <1>7
  <2>2. \A k \in DOMAIN stack' : k + 1 \in DOMAIN stack' =>
        /\ stack'[k + 1].op # "wrap"
        /\ stack'[k + 1].op = "override" => stack'[k].op = "read"
        /\ Waits(stack'[k]) => stack'[k + 1].op \in Looking /\ stack'[k + 1].type = Wanted(stack'[k])
    <3>1. \A k \in DOMAIN stack' : k + 1 \in DOMAIN stack' => k = 1
      BY <1>6
    <3> QED
      BY <3>1, <1>6, <1>7
  <2>3. ~Waits(Top)'
    BY <1>6, <1>7 DEF Top, Waits
  <2> QED
    BY <2>1, <2>2, <2>3, <1>6 DEF StackOK, Waits, Wanted
<1>9. SameDefinitions
  <2>1. DOMAIN stack = {}
    BY <1>1
  <2> QED
    BY <2>1, <1>6, <1>7 DEF SameDefinitions
<1>10. DefinitionsOK'
  BY <1>9, NothingDefined DEF IInv, gwkjs_object_from_g_object
<1> QED
  BY <1>2, <1>3, <1>8, <1>10 DEF IInv

LEMMA ReadStarts ==
    ASSUME IInv, NEW at \in DOMAIN nss, NEW t \in Types, ReadsClass(at, t)
    PROVE  IInv'
<1> DEFINE f == Read(t, at)
<1>1. stack = << >> /\ stack' = <<f>>
  BY DEF ReadsClass
<1>2. Grows /\ NamespacesOK'
  BY NothingMade DEF IInv, ReadsClass
<1>3. PrototypesOK'
  BY PrototypesKept DEF IInv, ReadsClass
<1>4. DOMAIN f = Fields /\ f.op = "read" /\ f.at = at /\ ~f.info /\ f.type = t /\ f.todo = {}
  BY DEF Read, Lookup, Fields
<1> HIDE DEF f
<1>6. stack' \in Seq({f}) /\ DOMAIN stack' = {1} /\ Len(stack') = 1 /\ stack'[1] = f
  BY <1>1
<1>7. FrameOK(f, DOMAIN nss') /\ ~Waits(f) /\ ~Defining(f)
  BY <1>2, <1>4 DEF FrameOK, Looking, Waits, Defining, Grows
<1>8. StackOK'
  <2>1. \A k \in DOMAIN stack' : k + 1 \notin DOMAIN stack'
    BY <1>6
  <2>2. ~Waits(Top)'
    BY <1>6, <1>7 DEF Top, Waits
  <2> QED
    BY <2>1, <2>2, <1>6, <1>7 DEF StackOK, Waits, Wanted
<1>9. SameDefinitions
  <2>1. DOMAIN stack = {}
    BY <1>1
  <2> QED
    BY <2>1, <1>6, <1>7 DEF SameDefinitions
<1>10. DefinitionsOK'
  BY <1>9, NothingDefined DEF IInv, ReadsClass
<1> QED
  BY <1>2, <1>3, <1>8, <1>10 DEF IInv

-----------------------------------------------------------------------------
LEMMA MakesIs ==
    ASSUME IInv, NEW ns \in Namespaces, MakesNamespace(ns)
    PROVE  /\ Len(nss) + 1 \in DOMAIN nss' /\ Len(nss) + 1 # 0
           /\ DOMAIN nss' = DOMAIN nss \union {Len(nss) + 1} /\ Len(nss) + 1 \notin DOMAIN nss
           /\ \A at \in DOMAIN nss : nss'[at] = nss[at]
           /\ nss'[Len(nss) + 1] = [ns |-> ns, modules |-> {}, class |-> [t \in Types |-> 0]]
           /\ \E S : nss' \in Seq(S)
<1> DEFINE new == [ns |-> ns, modules |-> {}, class |-> [t \in Types |-> 0]]
           m == Len(nss)
<1>1. PICK S : nss \in Seq(S)
  BY DEF IInv, NamespacesOK
<1>2. nss' = Append(nss, new)
  BY DEF MakesNamespace
<1> HIDE DEF new
<1>3. nss \in Seq(S \union {new})
  BY <1>1, SeqMonotonic
<1>4. m \in Nat /\ DOMAIN nss = 1..m
  BY <1>1
<1> HIDE DEF m
<1>5. /\ nss' \in Seq(S \union {new}) /\ DOMAIN nss' = 1..m + 1
      /\ nss'[m + 1] = new /\ \A k \in 1..m : nss'[k] = nss[k]
  BY <1>2, <1>3, <1>4, AppendProperties DEF m
<1>6. 1..m + 1 = 1..m \union {m + 1} /\ m + 1 \notin 1..m /\ m + 1 # 0
  BY <1>4
<1> QED
  BY <1>4, <1>5, <1>6 DEF m, new

LEMMA MakesKeeps ==
    ASSUME IInv, NEW ns \in Namespaces, MakesNamespace(ns), UNCHANGED <<private, protos>>
    PROVE  Grows /\ NamespacesOK'
<1> DEFINE m == Len(nss) + 1
<1>1. /\ m \in DOMAIN nss' /\ DOMAIN nss' = DOMAIN nss \union {m}
      /\ \A at \in DOMAIN nss : nss'[at] = nss[at]
      /\ nss'[m] = [ns |-> ns, modules |-> {}, class |-> [t \in Types |-> 0]]
      /\ \E S : nss' \in Seq(S)
  BY MakesIs
<1>2. current' = [current EXCEPT ![ns] = m] /\ resolving' = resolving \union {ns}
  BY DEF MakesNamespace
<1> HIDE DEF m
<1>3. Grows
  BY <1>1 DEF Grows
<1>4. ASSUME NEW at \in DOMAIN nss'
      PROVE  /\ DOMAIN nss'[at] = {"ns", "modules", "class"}
             /\ nss'[at].modules \subseteq Types
             /\ DOMAIN nss'[at].class = Types
             /\ \A t \in Types : nss'[at].class[t] # 0 => IsPrototype(protos', nss'[at].class[t], t)
  <2>1. CASE at = m
    BY <2>1, <1>1
  <2>2. CASE at \in DOMAIN nss
    BY <2>2, <1>1 DEF IInv, NamespacesOK
  <2> QED
    BY <1>1, <2>1, <2>2
<1>5. DOMAIN private' = Types /\ \A t \in Types : private'[t] # 0 => IsPrototype(protos', private'[t], t)
  BY DEF IInv, NamespacesOK
<1>6. /\ DOMAIN current' = Namespaces /\ resolving' \subseteq Namespaces
      /\ \A k \in Namespaces : k \in resolving' => current'[k] \in DOMAIN nss'
  <2>1. /\ DOMAIN current = Namespaces /\ resolving \subseteq Namespaces
        /\ \A k \in Namespaces : k \in resolving => current[k] \in DOMAIN nss
    BY DEF IInv, NamespacesOK
  <2> QED
    BY <2>1, <1>1, <1>2
<1> QED
  BY <1>1, <1>3, <1>4, <1>5, <1>6 DEF NamespacesOK

LEMMA LookupStep ==
    ASSUME IInv, gwkjs_lookup_namespace_object
    PROVE  IInv'
<1> DEFINE ns == Home[Top.type]
<1>1. StackOK /\ stack # << >> /\ Top.op = "lookup"
  BY DEF IInv, gwkjs_lookup_namespace_object, At
<1>2. Top.type \in Types
  BY <1>1, Tops DEF FrameOK
<1>3. PrototypesOK'
  BY PrototypesKept DEF IInv, gwkjs_lookup_namespace_object
<1>4. \/ /\ ns = Private
         /\ Becomes(Read(Top.type, 0))
         /\ UNCHANGED <<nss, current, resolving>>
      \/ /\ ns \in resolving
         /\ Becomes(Read(Top.type, current[ns]))
         /\ UNCHANGED <<nss, current, resolving>>
      \/ /\ ns \in Namespaces \ resolving
         /\ MakesNamespace(ns)
         /\ Calls(Read(Top.type, Len(nss) + 1), Override(ns))
  BY DEF gwkjs_lookup_namespace_object
<1>5. UNCHANGED <<private, protos>>
  BY DEF gwkjs_lookup_namespace_object
<1> HIDE DEF ns
<1>6. ASSUME NEW at, at \in {0} \union DOMAIN nss'
      PROVE  LET f == Read(Top.type, at) IN
             Replaces(f, Top) /\ ~Waits(f) /\ ~Defining(f) /\ f.op = "read" /\ f.type = Top.type
  <2> DEFINE f == Read(Top.type, at)
  <2>1. DOMAIN f = Fields /\ f.op = "read" /\ f.at = at /\ ~f.info /\ f.type = Top.type /\ f.todo = {}
    BY DEF Read, Lookup, Fields
  <2> HIDE DEF f
  <2>2. Replaces(f, Top) /\ ~Waits(f) /\ ~Defining(f)
    BY <2>1, <1>1, <1>2, <1>6 DEF Replaces, FrameOK, Looking, Waits, Defining
  <2> QED
    BY <2>1, <2>2 DEF f
<1>7. ~Defining(Top)
  BY <1>1 DEF Defining
<1>8. ASSUME NEW at \in {0} \union DOMAIN nss, Becomes(Read(Top.type, at)),
             UNCHANGED <<nss, current, resolving>>
      PROVE  IInv'
  <2>1. Grows /\ NamespacesOK'
    BY <1>5, <1>8, NothingMade DEF IInv
  <2> DEFINE f == Read(Top.type, at)
  <2>2. Becomes(f) /\ Replaces(f, Top) /\ ~Waits(f) /\ ~Defining(f) /\ f.type = Top.type
    BY <1>6, <1>8
  <2> HIDE DEF f
  <2>3. StackOK'
    BY <2>1, <2>2, <1>1, BecomesStack
  <2>4. SameDefinitions
    BY <2>2, <1>1, <1>7, BecomesSame
  <2>5. DefinitionsOK'
    BY <2>4, <1>8, NothingDefined DEF IInv
  <2> QED
    BY <2>1, <2>3, <2>5, <1>3 DEF IInv
<1>9. CASE ns = Private /\ Becomes(Read(Top.type, 0)) /\ UNCHANGED <<nss, current, resolving>>
  BY <1>8, <1>9
<1>10. CASE ns \in resolving /\ Becomes(Read(Top.type, current[ns])) /\ UNCHANGED <<nss, current, resolving>>
  <2>1. current[ns] \in DOMAIN nss
    BY <1>10 DEF IInv, NamespacesOK
  <2> QED
    BY <2>1, <1>8, <1>10
<1>11. CASE /\ ns \in Namespaces \ resolving
            /\ MakesNamespace(ns)
            /\ Calls(Read(Top.type, Len(nss) + 1), Override(ns))
  <2>1. Grows /\ NamespacesOK'
    BY <1>5, <1>11, MakesKeeps
  <2> DEFINE f == Read(Top.type, Len(nss) + 1)  g == Override(ns)
  <2>2. Calls(f, g) /\ Replaces(f, Top) /\ ~Waits(f) /\ ~Defining(f) /\ f.op = "read" /\ f.type = Top.type
    BY <1>6, <1>11, MakesIs
  <2>3. g.op = "override" /\ g.todo = Touches[ns] /\ g.at = 0 /\ ~g.info /\ DOMAIN g = Fields
    BY DEF Override, Lookup, Fields
  <2>4. Touches[ns] \subseteq Types
    BY <1>11, ClassesAssumption
  <2> HIDE DEF f, g
  <2>5. Above(g, f) /\ ~Defining(g)
    BY <2>2, <2>3, <2>4 DEF Above, FrameOK, Waits, Defining
  <2>6. StackOK'
    BY <2>1, <2>2, <2>5, <1>1, CallsStack
  <2>7. SameDefinitions
    BY <2>2, <2>5, <1>1, <1>7, CallsSame
  <2>8. DefinitionsOK'
    <3>1. \A at \in DOMAIN nss : at \in DOMAIN nss' /\ nss'[at] = nss[at]
      BY <1>11, MakesIs
    <3>2. ASSUME NEW at \in DOMAIN nss' \ DOMAIN nss, NEW t \in Types
          PROVE  t \notin nss'[at].modules /\ nss'[at].class[t] = 0
      <4>1. nss'[at] = [ns |-> ns, modules |-> {}, class |-> [u \in Types |-> 0]]
        BY <1>11, <3>2, MakesIs
      <4> QED
        BY <4>1
    <3> QED
      BY <3>1, <3>2, <2>7, DefinitionsKept DEF IInv
  <2> QED
    BY <2>1, <2>6, <2>8, <1>3 DEF IInv
<1> QED
  BY <1>4, <1>9, <1>10, <1>11

-----------------------------------------------------------------------------
(* The class is there, and what waits for its prototype gets it.           *)
LEMMA FoundStep ==
    ASSUME IInv, At("read"),
           LET known == IF Top.at = 0 THEN private[Top.type] ELSE nss[Top.at].class[Top.type]
           IN  known # 0 /\ found' = known,
           stack' = Rest, UNCHANGED <<nss, current, resolving, private, protos, wrapped>>
    PROVE  IInv'
<1>1. StackOK /\ stack # << >> /\ Top.op = "read"
  BY DEF IInv, At
<1>2. Top.type \in Types /\ Top.at \in {0} \union DOMAIN nss
  BY <1>1, Tops DEF FrameOK
<1>3. Grows /\ NamespacesOK'
  BY NothingMade DEF IInv
<1>4. PrototypesOK'
  BY PrototypesKept DEF IInv
<1>5. IsPrototype(protos, found', Top.type)
  <2>1. CASE Top.at = 0
    BY <2>1, <1>2 DEF IInv, NamespacesOK
  <2>2. CASE Top.at # 0
    BY <2>2, <1>2 DEF IInv, NamespacesOK
  <2> QED
    BY <2>1, <2>2
<1>6. ASSUME Len(stack) > 1, Waits(stack[Len(stack) - 1])
      PROVE  IsPrototype(protos', found', Wanted(stack[Len(stack) - 1]))
  <2>1. Top.type = Wanted(stack[Len(stack) - 1])
    BY <1>1, <1>6, Below
  <2> QED
    BY <2>1, <1>5
<1>7. StackOK'
  BY <1>1, <1>3, <1>6, PopStack
<1>8. DefinitionsOK'
  BY <1>1, PopSame, NothingDefined DEF Defining, IInv
<1> QED
  BY <1>3, <1>4, <1>7, <1>8 DEF IInv

LEMMA ReplaceOne ==
    ASSUME NEW S, NEW s \in Seq(S), NEW i \in DOMAIN s, NEW e
    PROVE  [s EXCEPT ![i] = e] \in Seq(S \union {e})
<1>1. s \in Seq(S \union {e})
  BY SeqMonotonic
<1> QED
  BY <1>1, ExceptSeq

(* The name was not in the namespace's table, and its definition begins.   *)
LEMMA MarkStep ==
    ASSUME IInv, At("read"), UNCHANGED <<current, resolving, private, protos, wrapped>>,
           Top.at # 0, Top.type \notin nss[Top.at].modules, nss[Top.at].class[Top.type] = 0,
           nss' = [nss EXCEPT ![Top.at].modules = Marked(Top.at, Top.type)],
           Becomes(Define(Top.type, Top.at, TRUE))
    PROVE  IInv'
<1> DEFINE at == Top.at  t == Top.type  f == Define(t, at, TRUE)  n == Len(stack)
<1>1. StackOK /\ stack # << >> /\ Top.op = "read"
  BY DEF IInv, At
<1>2. t \in Types /\ at \in DOMAIN nss /\ at # 0
  BY <1>1, Tops DEF FrameOK
<1>3. PrototypesOK'
  BY PrototypesKept DEF IInv
<1>4. /\ DOMAIN nss' = DOMAIN nss
      /\ \A k \in DOMAIN nss : k # at => nss'[k] = nss[k]
      /\ nss'[at] = [nss[at] EXCEPT !.modules = nss[at].modules \union {t}]
  BY <1>2 DEF Marked
<1>5. DOMAIN nss[at] = {"ns", "modules", "class"}
  BY <1>2 DEF IInv, NamespacesOK
<1>6. /\ DOMAIN nss'[at] = {"ns", "modules", "class"}
      /\ nss'[at].modules = nss[at].modules \union {t} /\ nss'[at].class = nss[at].class
  BY <1>4, <1>5
<1>7. Grows
  BY <1>4 DEF Grows
<1>8. t \notin nss[at].modules /\ nss[at].class[t] = 0
  OBVIOUS
<1>9. Becomes(f)
  OBVIOUS
<1>10. /\ DOMAIN f = Fields /\ f.op = "define" /\ f.at = at /\ f.info
       /\ f.type = t /\ f.todo = {}
  BY DEF Define, Lookup, Fields
<1>11. at = Top.at /\ t = Top.type
  OBVIOUS
<1>12. nss' = [nss EXCEPT ![at].modules = Marked(at, t)]
  OBVIOUS
<1> HIDE DEF f, at, t
<1>13. Replaces(f, Top) /\ ~Waits(f) /\ Defining(f)
  BY <1>1, <1>2, <1>4, <1>10, <1>11 DEF Replaces, FrameOK, Looking, Waits, Defining
<1>14. StackOK'
  BY <1>1, <1>7, <1>9, <1>13, BecomesStack
<1>15. NamespacesOK'
  <2>1. \E S : nss' \in Seq(S)
    <3>1. PICK S : nss \in Seq(S)
      BY DEF IInv, NamespacesOK
    <3>2. PICK e : e = nss'[at]
      OBVIOUS
    <3>3. nss' = [nss EXCEPT ![at] = e]
      BY <3>2, <1>2, <1>12
    <3>4. [nss EXCEPT ![at] = e] \in Seq(S \union {e})
      BY <3>1, <1>2, ReplaceOne
    <3> QED
      BY <3>3, <3>4
  <2>2. ASSUME NEW k \in DOMAIN nss'
        PROVE  /\ DOMAIN nss'[k] = {"ns", "modules", "class"}
               /\ nss'[k].modules \subseteq Types
               /\ DOMAIN nss'[k].class = Types
               /\ \A u \in Types : nss'[k].class[u] # 0 => IsPrototype(protos', nss'[k].class[u], u)
    <3>1. CASE k = at
      BY <3>1, <1>2, <1>6 DEF IInv, NamespacesOK
    <3>2. CASE k # at
      BY <3>2, <1>4 DEF IInv, NamespacesOK
    <3> QED
      BY <3>1, <3>2
  <2> QED
    BY <2>1, <2>2, <1>4 DEF IInv, NamespacesOK
<1>16. n \in DOMAIN stack /\ DOMAIN stack = 1..n /\ n \in Nat \ {0}
  BY <1>1, Tops
<1>17. /\ DOMAIN stack' = 1..n /\ stack'[n] = f
       /\ \A k \in 1..n - 1 : stack'[k] = stack[k]
  BY <1>1, <1>9, BecomesIs
<1>18. ~Defining(stack[n])
  BY <1>1, Tops DEF Defining
<1> HIDE DEF n
<1>19. \A k \in 1..n : k \in 1..n - 1 \/ k = n
  BY <1>16
<1>20. ASSUME NEW i \in 1..n - 1, Defining(stack[i])
       PROVE  ~(stack[i].type = t /\ stack[i].at = at)
  <2>1. i \in DOMAIN stack
    BY <1>16
  <2>2. stack[i].type \in nss[stack[i].at].modules
    BY <2>1, <1>20 DEF IInv, DefinitionsOK
  <2> QED
    BY <2>2, <1>8
<1>21. DefinitionsOK'
  <2>1. ASSUME NEW k \in DOMAIN nss', NEW u \in Types
        PROVE  /\ nss'[k].class[u] # 0 => u \in nss'[k].modules
               /\ u \in nss'[k].modules /\ nss'[k].class[u] = 0 =>
                    \E i \in DOMAIN stack' : Defining(stack'[i]) /\ stack'[i].type = u /\ stack'[i].at = k
    <3>0. /\ nss[k].class[u] # 0 => u \in nss[k].modules
          /\ u \in nss[k].modules /\ nss[k].class[u] = 0 =>
               \E i \in DOMAIN stack : Defining(stack[i]) /\ stack[i].type = u /\ stack[i].at = k
      BY <1>4, <2>1 DEF IInv, DefinitionsOK
    <3>1. nss'[k].class[u] = nss[k].class[u] /\ (u \in nss'[k].modules <=> u \in nss[k].modules \/ (k = at /\ u = t))
      BY <1>4, <1>6, <2>1
    <3>2. CASE k = at /\ u = t
      <4>1. n \in DOMAIN stack' /\ Defining(stack'[n]) /\ stack'[n].type = u /\ stack'[n].at = k
        BY <3>2, <1>10, <1>13, <1>16, <1>17
      <4> QED
        BY <4>1, <3>1, <3>2, <1>8
    <3>3. CASE ~(k = at /\ u = t)
      <4>1. ASSUME u \in nss[k].modules, nss[k].class[u] = 0
            PROVE  \E i \in DOMAIN stack' : Defining(stack'[i]) /\ stack'[i].type = u /\ stack'[i].at = k
        <5>1. PICK i \in DOMAIN stack : Defining(stack[i]) /\ stack[i].type = u /\ stack[i].at = k
          BY <3>0, <4>1
        <5>2. i \in 1..n - 1
          BY <5>1, <1>16, <1>18, <1>19
        <5> QED
          BY <5>1, <5>2, <1>16, <1>17
      <4> QED
        BY <4>1, <3>0, <3>1, <3>3
    <3> QED
      BY <3>2, <3>3
  <2>2. ASSUME NEW i \in DOMAIN stack', Defining(stack'[i])
        PROVE  /\ stack'[i].type \in nss'[stack'[i].at].modules
               /\ nss'[stack'[i].at].class[stack'[i].type] = 0
    <3>1. CASE i = n
      BY <3>1, <1>6, <1>8, <1>10, <1>17
    <3>2. CASE i \in 1..n - 1
      <4>1. i \in DOMAIN stack /\ Defining(stack[i]) /\ stack'[i] = stack[i]
        BY <3>2, <2>2, <1>16, <1>17
      <4>2. stack[i].at \in DOMAIN nss
        BY <4>1, <1>1, DefinedWhere
      <4>3. /\ stack[i].type \in nss[stack[i].at].modules
            /\ nss[stack[i].at].class[stack[i].type] = 0
        BY <4>1 DEF IInv, DefinitionsOK
      <4> QED
        BY <4>1, <4>2, <4>3, <1>4, <1>6
    <3> QED
      BY <3>1, <3>2, <1>17, <1>19
  <2>3. ASSUME NEW i \in DOMAIN stack', NEW j \in DOMAIN stack',
               Defining(stack'[i]), Defining(stack'[j]),
               stack'[i].type = stack'[j].type, stack'[i].at = stack'[j].at
        PROVE  i = j
    <3>1. CASE i = n \/ j = n
      BY <3>1, <2>3, <1>10, <1>17, <1>19, <1>20
    <3>2. CASE i # n /\ j # n
      <4>1. i \in 1..n - 1 /\ j \in 1..n - 1 /\ i \in DOMAIN stack /\ j \in DOMAIN stack
        BY <3>2, <1>16, <1>17, <1>19
      <4>2. stack'[i] = stack[i] /\ stack'[j] = stack[j]
        BY <4>1, <1>17
      <4> QED
        BY <4>1, <4>2, <2>3 DEF IInv, DefinitionsOK
    <3> QED
      BY <3>1, <3>2
  <2> QED
    BY <2>1, <2>2, <2>3 DEF DefinitionsOK
<1> QED
  BY <1>3, <1>14, <1>15, <1>21 DEF IInv

LEMMA ConstructorStep ==
    ASSUME IInv, gwkjs_lookup_object_constructor_from_info
    PROVE  IInv'
<1> DEFINE t == Top.type  at == Top.at
           known == IF at = 0 THEN private[t] ELSE nss[at].class[t]
<1>1. /\ At("read")
      /\ \/ known # 0 /\ found' = known /\ stack' = Rest /\ UNCHANGED nss
         \/ /\ known = 0 /\ at # 0 /\ t \notin nss[at].modules
            /\ nss' = [nss EXCEPT ![at].modules = Marked(at, t)]
            /\ Becomes(Define(t, at, TRUE))
         \/ Becomes(Define(t, at, FALSE)) /\ UNCHANGED nss
      /\ UNCHANGED <<current, resolving, private, protos, wrapped>>
  BY DEF gwkjs_lookup_object_constructor_from_info
<1>2. CASE known # 0 /\ found' = known /\ stack' = Rest /\ UNCHANGED nss
  BY <1>1, <1>2, FoundStep
<1>3. CASE /\ known = 0 /\ at # 0 /\ t \notin nss[at].modules
           /\ nss' = [nss EXCEPT ![at].modules = Marked(at, t)]
           /\ Becomes(Define(t, at, TRUE))
  BY <1>1, <1>3, MarkStep
<1>4. CASE Becomes(Define(t, at, FALSE)) /\ UNCHANGED nss
  <2> DEFINE f == Define(t, at, FALSE)
  <2>1. StackOK /\ stack # << >> /\ Top.op = "read" /\ FrameOK(Top, DOMAIN nss)
    BY <1>1, Tops DEF IInv, At
  <2>2. Grows /\ NamespacesOK'
    BY <1>1, <1>4, NothingMade DEF IInv
  <2>3. PrototypesOK'
    BY <1>1, PrototypesKept DEF IInv
  <2>4. /\ DOMAIN f = Fields /\ f.op = "define" /\ f.at = Top.at /\ ~f.info
        /\ f.type = Top.type /\ f.todo = {}
    BY DEF Define, Lookup, Fields
  <2>5. Becomes(f)
    BY <1>4
  <2> HIDE DEF f
  <2>6. Replaces(f, Top) /\ ~Waits(f) /\ ~Defining(f) /\ ~Defining(Top)
    BY <2>1, <2>4, <1>4 DEF Replaces, FrameOK, Looking, Waits, Defining
  <2>7. StackOK'
    BY <2>1, <2>2, <2>5, <2>6, BecomesStack
  <2>8. SameDefinitions
    BY <2>1, <2>4, <2>5, <2>6, BecomesSame
  <2>9. DefinitionsOK'
    BY <1>4, <2>8, NothingDefined DEF IInv
  <2> QED
    BY <2>2, <2>3, <2>7, <2>9 DEF IInv
<1> QED
  BY <1>1, <1>2, <1>3, <1>4

-----------------------------------------------------------------------------
(* The prototype is made.                                                  *)
LEMMA InitClassIs ==
    ASSUME IInv, gwkjs_init_class_dynamic
    PROVE  LET n == Len(protos) + 1 IN
           /\ StackOK /\ stack # << >> /\ Top.op = "create" /\ FrameOK(Top, DOMAIN nss) /\ stack' = Rest
           /\ found' = n /\ n # 0 /\ n \notin DOMAIN protos /\ DOMAIN protos' = DOMAIN protos \union {n}
           /\ protos'[n].type = Top.type
           /\ protos'[n].parent = ParentPrototype(Top.type)
           /\ \A i \in DOMAIN protos : protos'[i] = protos[i]
           /\ \E S : protos' \in Seq(S)
<1> DEFINE new == [type |-> Top.type, parent |-> ParentPrototype(Top.type), info |-> Top.info]
           m == Len(protos)
<1>1. PICK S : protos \in Seq(S)
  BY DEF IInv, PrototypesOK
<1>2. protos' = Append(protos, new) /\ found' = m + 1
  BY DEF gwkjs_init_class_dynamic
<1>3. new.type = Top.type /\ new.parent = ParentPrototype(Top.type)
  OBVIOUS
<1>4. /\ StackOK /\ stack # << >> /\ Top.op = "create" /\ FrameOK(Top, DOMAIN nss) /\ stack' = Rest
  BY Tops DEF IInv, gwkjs_init_class_dynamic, At
<1> HIDE DEF new
<1>5. protos \in Seq(S \union {new})
  BY <1>1, SeqMonotonic
<1>6. m \in Nat /\ DOMAIN protos = 1..m
  BY <1>1
<1> HIDE DEF m
<1>7. /\ protos' \in Seq(S \union {new}) /\ DOMAIN protos' = 1..m + 1
      /\ protos'[m + 1] = new /\ \A k \in 1..m : protos'[k] = protos[k]
  BY <1>2, <1>5, <1>6, AppendProperties DEF m
<1>8. 1..m + 1 = 1..m \union {m + 1} /\ m + 1 \notin 1..m /\ m + 1 # 0
  BY <1>6
<1> QED
  BY <1>2, <1>3, <1>4, <1>6, <1>7, <1>8 DEF m

LEMMA InitClassPrototypes ==
    ASSUME IInv, gwkjs_init_class_dynamic
    PROVE  /\ PrototypesOK' /\ Grows
           /\ IsPrototype(protos', found', Top.type)
<1> DEFINE n == Len(protos) + 1  t == Top.type
<1>1. /\ StackOK /\ stack # << >> /\ Top.op = "create" /\ FrameOK(Top, DOMAIN nss)
      /\ found' = n /\ n \notin DOMAIN protos /\ DOMAIN protos' = DOMAIN protos \union {n}
      /\ protos'[n].type = t /\ protos'[n].parent = ParentPrototype(t)
      /\ \A i \in DOMAIN protos : protos'[i] = protos[i]
      /\ \E S : protos' \in Seq(S)
  BY InitClassIs
<1> HIDE DEF n
<1>2. t \in Types
  BY <1>1 DEF FrameOK
<1>3. \A p, u : IsPrototype(protos, p, u) => IsPrototype(protos', p, u)
  BY <1>1 DEF IsPrototype
<1>4. IF Parent[t] = NoType THEN protos'[n].parent = 0
      ELSE IsPrototype(protos', protos'[n].parent, Parent[t])
  <2>1. CASE Parent[t] = NoType
    BY <2>1, <1>1 DEF ParentPrototype
  <2>2. CASE Parent[t] # NoType
    <3>1. Waits(Top) /\ Wanted(Top) = Parent[t]
      BY <2>2, <1>1 DEF Waits, Wanted
    <3>2. IsPrototype(protos, found, Parent[t])
      BY <3>1, <1>1 DEF StackOK
    <3> QED
      BY <3>2, <2>2, <1>1, <1>3 DEF ParentPrototype
  <2> QED
    BY <2>1, <2>2
<1>5. ASSUME NEW i \in DOMAIN protos'
      PROVE  /\ protos'[i].type \in Types
             /\ IF Parent[protos'[i].type] = NoType THEN protos'[i].parent = 0
                ELSE IsPrototype(protos', protos'[i].parent, Parent[protos'[i].type])
  <2>1. CASE i = n
    BY <2>1, <1>1, <1>2, <1>4
  <2>2. CASE i # n
    <3>1. i \in DOMAIN protos /\ protos'[i] = protos[i]
      BY <2>2, <1>1
    <3>2. /\ protos[i].type \in Types
          /\ IF Parent[protos[i].type] = NoType THEN protos[i].parent = 0
             ELSE IsPrototype(protos, protos[i].parent, Parent[protos[i].type])
      BY <3>1 DEF IInv, PrototypesOK
    <3> QED
      BY <3>1, <3>2, <1>3
  <2> QED
    BY <2>1, <2>2
<1>6. \A w \in wrapped' : IsPrototype(protos', w[2], w[1])
  BY <1>3 DEF IInv, PrototypesOK, gwkjs_init_class_dynamic
<1>7. DOMAIN nss \subseteq DOMAIN nss'
  BY DEF gwkjs_init_class_dynamic
<1> QED
  BY <1>1, <1>3, <1>5, <1>6, <1>7 DEF PrototypesOK, Grows, IsPrototype

LEMMA InitClassNss ==
    ASSUME IInv, gwkjs_init_class_dynamic
    PROVE  LET t == Top.type  at == Top.at IN
           /\ t \in Types /\ (Top.info => at \in DOMAIN nss)
           /\ DOMAIN nss' = DOMAIN nss
           /\ \A k \in DOMAIN nss : ~(Top.info /\ k = at) => nss'[k] = nss[k]
           /\ Top.info => /\ DOMAIN nss'[at] = {"ns", "modules", "class"}
                          /\ nss'[at].modules = nss[at].modules
                          /\ DOMAIN nss'[at].class = Types
                          /\ nss'[at].class[t] = found'
                          /\ \A u \in Types : u # t => nss'[at].class[u] = nss[at].class[u]
           /\ \E S : nss' \in Seq(S)
<1> DEFINE t == Top.type  at == Top.at  info == Top.info
<1>1. FrameOK(Top, DOMAIN nss) /\ Top.op = "create"
  BY InitClassIs
<1>2. t \in Types /\ (info => at \in DOMAIN nss)
  BY <1>1 DEF FrameOK
<1>3. nss' = IF info THEN [nss EXCEPT ![at].class[t] = found'] ELSE nss
  BY DEF gwkjs_init_class_dynamic
<1>4. PICK S : nss \in Seq(S)
  BY DEF IInv, NamespacesOK
<1> SUFFICES /\ DOMAIN nss' = DOMAIN nss
             /\ \A k \in DOMAIN nss : ~(info /\ k = at) => nss'[k] = nss[k]
             /\ info => /\ DOMAIN nss'[at] = {"ns", "modules", "class"}
                        /\ nss'[at].modules = nss[at].modules
                        /\ DOMAIN nss'[at].class = Types
                        /\ nss'[at].class[t] = found'
                        /\ \A u \in Types : u # t => nss'[at].class[u] = nss[at].class[u]
             /\ \E R : nss' \in Seq(R)
  BY <1>2
<1> HIDE DEF t, at, info
<1>5. CASE ~info
  BY <1>3, <1>4, <1>5
<1>6. CASE info
  <2>1. at \in DOMAIN nss /\ t \in Types
    BY <1>2, <1>6
  <2>2. DOMAIN nss[at] = {"ns", "modules", "class"} /\ DOMAIN nss[at].class = Types
    BY <2>1 DEF IInv, NamespacesOK
  <2>3. PICK e : e = [nss[at] EXCEPT !.class = [nss[at].class EXCEPT ![t] = found']]
    OBVIOUS
  <2>4. nss' = [nss EXCEPT ![at] = e]
    BY <1>3, <1>6, <2>3
  <2>5. /\ DOMAIN e = {"ns", "modules", "class"} /\ e.modules = nss[at].modules
        /\ DOMAIN e.class = Types /\ e.class[t] = found'
        /\ \A u \in Types : u # t => e.class[u] = nss[at].class[u]
    BY <2>1, <2>2, <2>3
  <2>6. [nss EXCEPT ![at] = e] \in Seq(S \union {e})
    BY <1>4, <2>1, ReplaceOne
  <2>7. DOMAIN nss' = DOMAIN nss /\ nss'[at] = e /\ \A k \in DOMAIN nss : k # at => nss'[k] = nss[k]
    BY <2>1, <2>4
  <2>8. \E R : nss' \in Seq(R)
    BY <2>4, <2>6
  <2> QED
    BY <1>6, <2>5, <2>7, <2>8
<1> QED
  BY <1>5, <1>6

LEMMA InitClassStep ==
    ASSUME IInv, gwkjs_init_class_dynamic
    PROVE  IInv'
<1> DEFINE n == Len(stack)  t == Top.type  at == Top.at
<1>1. StackOK /\ stack # << >> /\ Top.op = "create" /\ stack' = Rest /\ found' # 0
  BY InitClassIs
<1>2. PrototypesOK' /\ Grows /\ IsPrototype(protos', found', t)
  BY InitClassPrototypes
<1>3. /\ t \in Types /\ (Top.info => at \in DOMAIN nss)
      /\ DOMAIN nss' = DOMAIN nss
      /\ \A k \in DOMAIN nss : ~(Top.info /\ k = at) => nss'[k] = nss[k]
      /\ Top.info => /\ DOMAIN nss'[at] = {"ns", "modules", "class"}
                     /\ nss'[at].modules = nss[at].modules
                     /\ DOMAIN nss'[at].class = Types
                     /\ nss'[at].class[t] = found'
                     /\ \A u \in Types : u # t => nss'[at].class[u] = nss[at].class[u]
      /\ \E S : nss' \in Seq(S)
  BY InitClassNss
<1>4. /\ private' = IF at = 0 THEN [private EXCEPT ![t] = found'] ELSE private
      /\ UNCHANGED <<current, resolving>>
  BY DEF gwkjs_init_class_dynamic
<1>5. ASSUME n > 1, Waits(stack[n - 1])
      PROVE  IsPrototype(protos', found', Wanted(stack[n - 1]))
  <2>1. t = Wanted(stack[n - 1])
    BY <1>1, <1>5, Below
  <2> QED
    BY <2>1, <1>2
<1>6. StackOK'
  BY <1>1, <1>2, <1>5, PopStack
<1>7. at = Top.at /\ t = Top.type
  OBVIOUS
<1> HIDE DEF t, at
<1>8. NamespacesOK'
  <2>1. ASSUME NEW k \in DOMAIN nss'
        PROVE  /\ DOMAIN nss'[k] = {"ns", "modules", "class"}
               /\ nss'[k].modules \subseteq Types
               /\ DOMAIN nss'[k].class = Types
               /\ \A u \in Types : nss'[k].class[u] # 0 => IsPrototype(protos', nss'[k].class[u], u)
    <3>0. /\ k \in DOMAIN nss
          /\ DOMAIN nss[k] = {"ns", "modules", "class"}
          /\ nss[k].modules \subseteq Types
          /\ DOMAIN nss[k].class = Types
          /\ \A u \in Types : nss[k].class[u] # 0 => IsPrototype(protos, nss[k].class[u], u)
      BY <1>3, <2>1 DEF IInv, NamespacesOK
    <3>1. \A u \in Types : nss[k].class[u] # 0 => IsPrototype(protos', nss[k].class[u], u)
      BY <3>0, <1>2 DEF Grows
    <3>2. CASE Top.info /\ k = at
      <4>1. \A u \in Types : nss'[k].class[u] # 0 => IsPrototype(protos', nss'[k].class[u], u)
        BY <3>1, <3>2, <1>2, <1>3
      <4> QED
        BY <4>1, <3>0, <3>2, <1>3
    <3>3. CASE ~(Top.info /\ k = at)
      BY <3>0, <3>1, <3>3, <1>3
    <3> QED
      BY <3>2, <3>3
  <2>2. DOMAIN private' = Types
    BY <1>4 DEF IInv, NamespacesOK
  <2>3. ASSUME NEW u \in Types, private'[u] # 0
        PROVE  IsPrototype(protos', private'[u], u)
    <3>1. private[u] # 0 => IsPrototype(protos', private[u], u)
      BY <1>2 DEF Grows, IInv, NamespacesOK
    <3>2. DOMAIN private = Types
      BY DEF IInv, NamespacesOK
    <3>3. CASE at = 0 /\ u = t
      BY <3>2, <3>3, <1>2, <1>4
    <3>4. CASE ~(at = 0 /\ u = t)
      BY <3>1, <3>2, <3>4, <2>3, <1>4
    <3> QED
      BY <3>3, <3>4
  <2>4. /\ DOMAIN current' = Namespaces /\ resolving' \subseteq Namespaces
        /\ \A k \in Namespaces : k \in resolving' => current'[k] \in DOMAIN nss'
    BY <1>3, <1>4 DEF IInv, NamespacesOK
  <2> QED
    BY <2>1, <2>2, <2>3, <2>4, <1>3 DEF NamespacesOK
<1>9. DefinitionsOK'
  <2>1. CASE ~Top.info
    <3>1. SameDefinitions
      BY <2>1, <1>1, PopSame DEF Defining
    <3>2. UNCHANGED nss
      BY <2>1 DEF gwkjs_init_class_dynamic
    <3> QED
      BY <3>1, <3>2, <1>1, NothingDefined DEF IInv
  <2>2. CASE Top.info
    <3>1. n \in DOMAIN stack /\ DOMAIN stack = 1..n /\ n \in Nat \ {0} /\ Top = stack[n]
      BY <1>1, Tops
    <3>2. DOMAIN stack' = 1..n - 1 /\ \A k \in 1..n - 1 : stack'[k] = stack[k]
      BY <1>1, RestIs
    <3>3. Defining(stack[n]) /\ stack[n].type = t /\ stack[n].at = at
      BY <2>2, <3>1, <1>1, <1>7 DEF Defining
    <3> HIDE DEF n
    <3>4. \A k \in 1..n : k \in 1..n - 1 \/ k = n
      BY <3>1
    <3>5. \A k \in 1..n - 1 : k \in 1..n /\ k # n
      BY <3>1
    <3>6. ASSUME NEW i \in 1..n - 1, Defining(stack[i])
          PROVE  ~(stack[i].type = t /\ stack[i].at = at)
      BY <3>1, <3>3, <3>5, <3>6 DEF IInv, DefinitionsOK
    <3>7. t \in nss[at].modules
      BY <3>1, <3>3 DEF IInv, DefinitionsOK
    <3>8. ASSUME NEW k \in DOMAIN nss', NEW u \in Types
          PROVE  /\ nss'[k].class[u] # 0 => u \in nss'[k].modules
                 /\ u \in nss'[k].modules /\ nss'[k].class[u] = 0 =>
                      \E i \in DOMAIN stack' : Defining(stack'[i]) /\ stack'[i].type = u /\ stack'[i].at = k
      <4>1. /\ nss[k].class[u] # 0 => u \in nss[k].modules
            /\ u \in nss[k].modules /\ nss[k].class[u] = 0 =>
                 \E i \in DOMAIN stack : Defining(stack[i]) /\ stack[i].type = u /\ stack[i].at = k
        BY <1>3, <3>8 DEF IInv, DefinitionsOK
      <4>2. CASE k = at /\ u = t
        BY <4>2, <1>1, <1>3, <2>2, <3>7
      <4>3. CASE ~(k = at /\ u = t)
        <5>1. nss'[k].class[u] = nss[k].class[u] /\ nss'[k].modules = nss[k].modules
          BY <4>3, <1>3, <2>2, <3>8
        <5>2. ASSUME u \in nss[k].modules, nss[k].class[u] = 0
              PROVE  \E i \in DOMAIN stack' : Defining(stack'[i]) /\ stack'[i].type = u /\ stack'[i].at = k
          <6>1. PICK i \in DOMAIN stack : Defining(stack[i]) /\ stack[i].type = u /\ stack[i].at = k
            BY <4>1, <5>2
          <6>2. i \in 1..n - 1
            BY <6>1, <4>3, <3>1, <3>3, <3>4
          <6> QED
            BY <6>1, <6>2, <3>2
        <5> QED
          BY <5>1, <5>2, <4>1
      <4> QED
        BY <4>2, <4>3
    <3>9. ASSUME NEW i \in DOMAIN stack', Defining(stack'[i])
          PROVE  /\ stack'[i].type \in nss'[stack'[i].at].modules
                 /\ nss'[stack'[i].at].class[stack'[i].type] = 0
      <4>1. i \in 1..n - 1 /\ i \in DOMAIN stack /\ stack'[i] = stack[i] /\ Defining(stack[i])
        BY <3>1, <3>2, <3>5, <3>9
      <4>2. stack[i].at \in DOMAIN nss /\ stack[i].type \in Types
        BY <4>1, <1>1, DefinedWhere
      <4>3. /\ stack[i].type \in nss[stack[i].at].modules
            /\ nss[stack[i].at].class[stack[i].type] = 0
        BY <4>1 DEF IInv, DefinitionsOK
      <4>4. ~(stack[i].type = t /\ stack[i].at = at)
        BY <4>1, <3>6
      <4> QED
        BY <4>1, <4>2, <4>3, <4>4, <1>3, <2>2
    <3>10. ASSUME NEW i \in DOMAIN stack', NEW j \in DOMAIN stack',
                  Defining(stack'[i]), Defining(stack'[j]),
                  stack'[i].type = stack'[j].type, stack'[i].at = stack'[j].at
           PROVE  i = j
      <4>1. /\ i \in DOMAIN stack /\ stack'[i] = stack[i]
            /\ j \in DOMAIN stack /\ stack'[j] = stack[j]
        BY <3>1, <3>2, <3>5
      <4> QED
        BY <4>1, <3>10 DEF IInv, DefinitionsOK
    <3> QED
      BY <3>8, <3>9, <3>10 DEF DefinitionsOK
  <2> QED
    BY <2>1, <2>2
<1> QED
  BY <1>2, <1>6, <1>8, <1>9 DEF IInv

-----------------------------------------------------------------------------
LEMMA InitIInv == Init => IInv
<1> SUFFICES ASSUME Init PROVE IInv
  OBVIOUS
<1>1. /\ nss = << >> /\ protos = << >> /\ stack = << >> /\ wrapped = {} /\ resolving = {}
      /\ private = [t \in Types |-> 0] /\ current = [ns \in Namespaces |-> 0]
  BY DEF Init
<1>2. << >> \in Seq({}) /\ DOMAIN << >> = {}
  OBVIOUS
<1>3. PrototypesOK
  BY <1>1, <1>2 DEF PrototypesOK
<1>4. NamespacesOK
  BY <1>1, <1>2 DEF NamespacesOK
<1>5. StackOK
  BY <1>1, <1>2 DEF StackOK
<1>6. DefinitionsOK
  BY <1>1, <1>2 DEF DefinitionsOK
<1> QED
  BY <1>3, <1>4, <1>5, <1>6 DEF IInv

LEMMA Stuttering ==
    ASSUME IInv, UNCHANGED vars
    PROVE  IInv'
<1>1. PrototypesOK'
  BY DEF IInv, vars, PrototypesOK
<1>2. NamespacesOK'
  BY DEF IInv, vars, NamespacesOK
<1>3. StackOK'
  BY DEF IInv, vars, StackOK, Top, Waits, Wanted
<1>4. DefinitionsOK'
  BY DEF IInv, vars, DefinitionsOK
<1> QED
  BY <1>1, <1>2, <1>3, <1>4 DEF IInv

LEMMA NextIInv ==
    ASSUME IInv, [Next]_vars
    PROVE  IInv'
<1>1. CASE Wraps
  BY <1>1, WrapsStep
<1>2. CASE gwkjs_lookup_namespace_object
  BY <1>2, LookupStep
<1>3. CASE \E t \in Types : OverrideAsks(t)
  BY <1>3, OverrideAsksStep
<1>4. CASE OverrideEnds
  BY <1>4, OverrideEndsStep
<1>5. CASE gwkjs_lookup_object_constructor_from_info
  BY <1>5, ConstructorStep
<1>6. CASE gwkjs_define_object_class
  BY <1>6, DefineStep
<1>7. CASE gwkjs_init_class_dynamic
  BY <1>7, InitClassStep
<1>8. CASE \E t \in Types : gwkjs_object_from_g_object(t)
  BY <1>8, WrapStarts
<1>9. CASE \E at \in DOMAIN nss, t \in Types : ReadsClass(at, t)
  BY <1>9, ReadStarts
<1>10. CASE UNCHANGED vars
  BY <1>10, Stuttering
<1> QED
  BY <1>1, <1>2, <1>3, <1>4, <1>5, <1>6, <1>7, <1>8, <1>9, <1>10 DEF Next, Step

LEMMA IInvHolds == Spec => []IInv
<1>1. IInv /\ [Next]_vars => IInv'
  BY NextIInv
<1> QED
  BY <1>1, InitIInv, PTL DEF Spec

LEMMA Sound == IInv => ClassesSound
<1> SUFFICES ASSUME IInv PROVE ChainFollowsTypes /\ DefinedOnce
  BY DEF ClassesSound
<1>1. \A p, t : IsPrototype(protos, p, t) => p # 0 /\ protos[p].type = t
  <2>1. PICK S : protos \in Seq(S)
    BY DEF IInv, PrototypesOK
  <2>2. 0 \notin DOMAIN protos
    BY <2>1
  <2> QED
    BY <2>2 DEF IsPrototype
<1>2. ChainFollowsTypes
  BY <1>1 DEF ChainFollowsTypes, IInv, PrototypesOK
<1>3. ASSUME NEW at \in DOMAIN nss, NEW t \in Types
      PROVE  t \in nss[at].modules <=>
                \/ nss[at].class[t] # 0
                \/ \E i \in DOMAIN stack : stack[i].op \in {"define", "create"}
                                           /\ stack[i].type = t /\ stack[i].at = at /\ stack[i].info
  BY <1>3 DEF IInv, DefinitionsOK, Defining
<1>4. ASSUME NEW at \in DOMAIN nss, NEW t \in Types, NEW i \in DOMAIN stack, NEW j \in DOMAIN stack,
             stack[i].op \in {"define", "create"}, stack[j].op \in {"define", "create"},
             stack[i].type = t, stack[j].type = t,
             stack[i].at = at, stack[j].at = at, stack[i].info, stack[j].info
      PROVE  i = j
  BY <1>4 DEF IInv, DefinitionsOK, Defining
<1>5. DefinedOnce
  BY <1>3, <1>4 DEF DefinedOnce
<1> QED
  BY <1>2, <1>5

(* Whatever the classes, namespaces and overrides: prototypes chain up as  *)
(* their types do, the wrappers have the prototypes of their objects'      *)
(* types, and a namespace object has each class once or is defining it     *)
(* (gwkjs_define_object_class, ns_get_property).                           *)
THEOREM ClassesAreSound == Spec => []ClassesSound
BY IInvHolds, Sound, PTL

LEMMA StaysStep ==
    ASSUME IInv, [Next]_vars, NEW at \in DOMAIN nss, NEW t \in Types, nss[at].class[t] # 0
    PROVE  nss'[at].class[t] = nss[at].class[t]
<1>1. CASE UNCHANGED nss
  BY <1>1
<1>2. CASE gwkjs_lookup_namespace_object /\ ~UNCHANGED nss
  <2>1. /\ Home[Top.type] \in Namespaces \ resolving
        /\ MakesNamespace(Home[Top.type])
    BY <1>2 DEF gwkjs_lookup_namespace_object
  <2> QED
    BY <2>1, MakesIs
<1>3. CASE gwkjs_lookup_object_constructor_from_info /\ ~UNCHANGED nss
  <2>1. nss' = [nss EXCEPT ![Top.at].modules = Marked(Top.at, Top.type)]
    BY <1>3 DEF gwkjs_lookup_object_constructor_from_info
  <2>2. DOMAIN nss[at] = {"ns", "modules", "class"}
    BY DEF IInv, NamespacesOK
  <2> QED
    BY <2>1, <2>2
<1>4. CASE gwkjs_init_class_dynamic
  <2>1. CASE Top.info /\ at = Top.at /\ t = Top.type
    <3>1. /\ Len(stack) \in DOMAIN stack /\ Top = stack[Len(stack)] /\ Top.op = "create"
      BY <1>4, InitClassIs, Tops
    <3>2. nss[at].class[t] = 0
      BY <2>1, <3>1 DEF IInv, DefinitionsOK, Defining
    <3> QED
      BY <3>2
  <2>2. CASE ~(Top.info /\ at = Top.at /\ t = Top.type)
    <3>1. /\ ~(Top.info /\ at = Top.at) => nss'[at] = nss[at]
          /\ Top.info => \A u \in Types : u # Top.type => nss'[Top.at].class[u] = nss[Top.at].class[u]
      BY <1>4, InitClassNss
    <3> QED
      BY <2>2, <3>1
  <2> QED
    BY <2>1, <2>2
<1>5. \/ UNCHANGED nss \/ gwkjs_lookup_namespace_object
      \/ gwkjs_lookup_object_constructor_from_info \/ gwkjs_init_class_dynamic
  BY DEF Next, Step, vars, Wraps, OverrideAsks, OverrideEnds, gwkjs_define_object_class,
         gwkjs_object_from_g_object, ReadsClass
<1> QED
  BY <1>1, <1>2, <1>3, <1>4, <1>5

(* No step replaces a class that a namespace object has, so that a class   *)
(* read from it stays the class there (gwkjs_init_class_dynamic).          *)
THEOREM ClassesStay == Spec => ClassStays
<1>1. IInv /\ [Next]_vars =>
        [\A at \in DOMAIN nss, t \in Types :
            nss[at].class[t] # 0 => nss'[at].class[t] = nss[at].class[t]]_vars
  BY StaysStep
<1> QED
  BY <1>1, IInvHolds, PTL DEF Spec, ClassStays

-----------------------------------------------------------------------------
(* Wrappers.                                                               *)

(* What the variables hold.                                                *)
WrappersTypeOK ==
    /\ qdata \in [GTypes -> Ids \union {Nothing}]
    /\ of \in [Ids -> GTypes \union Pspecs \union {"nothing"}]
    /\ life \in [Ids -> {"unused", "live", "dead", "finalized"}]
    /\ script \in SUBSET Ids
    /\ defined \in SUBSET GTypes
    /\ gtype \in [GTypes -> Ids \union {Nothing}]
    /\ members = [t \in GTypes |-> members[t]]
    /\ refs \in [Pspecs -> Int]
    /\ owned \in SUBSET Pspecs
    /\ revived \in SUBSET Ids

(* The qdata of a type and its wrapper point to each other until the       *)
(* wrapper is finalized; so a type never has two that are not.             *)
QdataAgrees ==
    /\ \A t \in GTypes : qdata[t] # Nothing => of[qdata[t]] = t
    /\ \A w \in Ids : of[w] \in GTypes /\ life[w] # "finalized" => qdata[of[w]] = w
    /\ \A t \in GTypes : qdata[t] # Nothing => life[qdata[t]] \in {"live", "dead"}
    /\ \A w \in Ids : of[w] = "nothing" <=> life[w] = "unused"

(* What JavaScript reaches is alive, but for what was returned dead.       *)
ReachedLive ==
    /\ \A w \in script \ revived : life[w] = "live"
    /\ \A t \in defined : gtype[t] \in Ids /\ (gtype[t] \notin revived => life[gtype[t]] = "live")

WrappersInv == WrappersTypeOK /\ QdataAgrees /\ ReachedLive /\ ParamSpecsHeld /\ MembersFound

LEMMA IdsNotNothing == Ids \subseteq Nat /\ Nothing \notin Ids /\ IsFiniteSet(Ids)
<1>1. Cardinality(Ids) \in Nat
  BY WrappersAssumption, FS_CardinalityType
<1> QED
  BY <1>1, WrappersAssumption DEF Nothing

LEMMA NamesApart ==
    /\ "nothing" \notin GTypes /\ "nothing" \notin Pspecs
    /\ GTypes \intersect Pspecs = {}
BY WrappersAssumption DEF GTypes

(* Two wrappers of a type that JavaScript reaches are the one in its qdata.*)
LEMMA OneWrapperHolds == WrappersInv => OneWrapper
BY IdsNotNothing DEF WrappersInv, WrappersTypeOK, QdataAgrees, ReachedLive, OneWrapper, Reached

-----------------------------------------------------------------------------
(* A non-empty set of indices up to n has a largest one.                   *)
LEMMA LargestIndex ==
    ASSUME NEW n \in Nat, NEW S \in SUBSET (1..n), S # {}
    PROVE  \E i \in S : \A j \in S : j <= i
<1> DEFINE T == {n - i : i \in S}
           Smaller == {ss \in Nat \X Nat : ss[1] < ss[2]}
<1>1. \A i \in S : i \in Nat /\ n - i \in Nat
  OBVIOUS
<1>2. T \subseteq Nat /\ T # {}
  BY <1>1
<1>3. IsWellFoundedOn(Smaller, Nat)
  BY NatLessThanWellFounded, Zenon DEF OpToRel
<1>4. PICK x \in T : \A y \in T : <<y, x>> \notin Smaller
  BY <1>2, <1>3, WFMin, Zenon
<1>5. ASSUME NEW y \in T PROVE ~(y < x)
  <2>1. <<y, x>> \in Nat \X Nat /\ <<y, x>>[1] = y /\ <<y, x>>[2] = x
    BY <1>2
  <2> QED
    BY <1>4, <2>1
<1>6. PICK i \in S : x = n - i
  BY <1>4
<1>7. ASSUME NEW j \in S PROVE j <= i
  <2>1. n - j \in T
    OBVIOUS
  <2> QED
    BY <1>1, <1>5, <1>6, <2>1
<1> QED
  BY <1>7

(* Of the members of an enumeration that get one name the last one is      *)
(* found; functions, whose names are in lower case, hide none.             *)
LEMMA EnumMembers ==
    ASSUME NEW t \in DOMAIN Enumerations, NEW i \in DOMAIN Enumerations[t]
    PROVE  \E j \in DOMAIN Enumerations[t] :
            /\ j >= i /\ Fixed[Enumerations[t][j].name] = Fixed[Enumerations[t][i].name]
            /\ gwkjs_define_enum_static_methods(t, gwkjs_define_enum_values(t))
                    [Fixed[Enumerations[t][i].name]] = <<Enumerations[t][j].value>>
<1> DEFINE E == Enumerations[t]
           n == Fixed[E[i].name]
           S == {j \in DOMAIN E : Fixed[E[j].name] = n}
           last == CHOOSE j \in DOMAIN E :
                /\ Fixed[E[j].name] = n
                /\ \A k \in DOMAIN E : Fixed[E[k].name] = n => k <= j
<1>1. E \in Seq([name : DOMAIN Fixed, value : Int])
  BY WrappersAssumption
<1>2. DOMAIN E = 1..Len(E) /\ Len(E) \in Nat
  BY <1>1
<1>3. i \in S /\ S \in SUBSET (1..Len(E))
  BY <1>2
<1>4. \E j \in S : \A k \in S : k <= j
  BY <1>2, <1>3, LargestIndex
<1>5. /\ last \in DOMAIN E /\ Fixed[E[last].name] = n
      /\ \A k \in DOMAIN E : Fixed[E[k].name] = n => k <= last
  BY <1>4
<1>6. last >= i
  BY <1>2, <1>5
<1>7. n \in {gwkjs_define_enum_value(t, j) : j \in DOMAIN E}
  BY DEF gwkjs_define_enum_value
<1>8. gwkjs_define_enum_values(t)[n] = <<E[last].value>>
  BY <1>7 DEF gwkjs_define_enum_values, gwkjs_define_enum_value
<1>9. n \notin Statics[t]
  <2>1. E[i] \in [name : DOMAIN Fixed, value : Int]
    BY <1>1, <1>2, i \in 1..Len(E), ElementOfSeq, Zenon
  <2> QED
    BY <2>1, WrappersAssumption
<1>10. n \in DOMAIN gwkjs_define_enum_values(t)
  BY <1>7 DEF gwkjs_define_enum_values
<1>11. gwkjs_define_enum_static_methods(t, gwkjs_define_enum_values(t))[n] = <<E[last].value>>
  BY <1>8, <1>9, <1>10 DEF gwkjs_define_enum_static_methods
<1> QED
  BY <1>5, <1>6, <1>11

-----------------------------------------------------------------------------
(* The wrappers that hold a reference on a GParamSpec.                     *)
Holders(p) == {w \in Ids : of[w] = p /\ life[w] # "finalized"}

LEMMA InitWrappersInv == WrappersInit => WrappersInv
<1> SUFFICES ASSUME WrappersInit PROVE WrappersInv
  OBVIOUS
<1>1. WrappersTypeOK
  BY DEF WrappersInit, WrappersTypeOK
<1>2. QdataAgrees
  BY NamesApart DEF WrappersInit, QdataAgrees
<1>3. ReachedLive
  BY DEF WrappersInit, ReachedLive
<1>4. ParamSpecsHeld
  <2> SUFFICES ASSUME NEW p \in Pspecs PROVE Cardinality(Holders(p)) = 0
    BY DEF WrappersInit, ParamSpecsHeld, Holders
  <2>1. Holders(p) = {}
    BY NamesApart DEF WrappersInit, Holders
  <2> QED
    BY <2>1, FS_EmptySet
<1>5. MembersFound
  BY DEF WrappersInit, MembersFound
<1> QED
  BY <1>1, <1>2, <1>3, <1>4, <1>5 DEF WrappersInv

-----------------------------------------------------------------------------
(* What a conversion or definition can rely on when it gets a wrapper of a *)
(* type: everything alive stays alive, no GParamSpec gains or loses a      *)
(* holder, and the wrapper is alive or one that is excepted.               *)
LEMMA WrapperReturned ==
    ASSUME WrappersInv, NEW t \in GTypes, NEW w \in Ids, gwkjs_gtype_create_gtype_wrapper(t, w)
    PROVE  /\ qdata' \in [GTypes -> Ids \union {Nothing}]
           /\ of' \in [Ids -> GTypes \union Pspecs \union {"nothing"}]
           /\ life' \in [Ids -> {"unused", "live", "dead", "finalized"}]
           /\ revived' \in SUBSET Ids /\ revived \subseteq revived'
           /\ QdataAgrees'
           /\ \A v \in Ids : life[v] = "live" => life'[v] = "live"
           /\ w \in revived' \/ life'[w] = "live"
           /\ \A p \in Pspecs : Holders(p)' = Holders(p)
<1>1. CASE /\ qdata[t] # Nothing /\ w = qdata[t]
           /\ revived' = IF life[w] = "dead" THEN revived \union {w} ELSE revived
           /\ UNCHANGED <<qdata, of, life>>
  <2>1. life[w] \in {"live", "dead"}
    BY <1>1 DEF WrappersInv, QdataAgrees
  <2>2. revived' \in SUBSET Ids /\ revived \subseteq revived'
    BY <1>1 DEF WrappersInv, WrappersTypeOK
  <2>3. w \in revived' \/ life'[w] = "live"
    BY <1>1, <2>1
  <2>4. QdataAgrees'
    BY <1>1 DEF WrappersInv, QdataAgrees
  <2>5. \A p \in Pspecs : Holders(p)' = Holders(p)
    BY <1>1 DEF Holders
  <2> QED
    BY <1>1, <2>2, <2>3, <2>4, <2>5 DEF WrappersInv, WrappersTypeOK
<1>2. CASE /\ qdata[t] = Nothing /\ New(w, t)
           /\ qdata' = [qdata EXCEPT ![t] = w]
           /\ UNCHANGED revived
  <2>1. life[w] = "unused" /\ of[w] = "nothing"
    BY <1>2 DEF New, Fresh, WrappersInv, QdataAgrees
  <2>2. /\ of' = [of EXCEPT ![w] = t] /\ life' = [life EXCEPT ![w] = "live"]
        /\ qdata' = [qdata EXCEPT ![t] = w] /\ revived' = revived
    BY <1>2 DEF New
  <2>3. /\ qdata' \in [GTypes -> Ids \union {Nothing}]
        /\ of' \in [Ids -> GTypes \union Pspecs \union {"nothing"}]
        /\ life' \in [Ids -> {"unused", "live", "dead", "finalized"}]
        /\ revived' \in SUBSET Ids
    BY <2>2 DEF WrappersInv, WrappersTypeOK
  <2>4. \A v \in Ids \ {w} : of'[v] = of[v] /\ life'[v] = life[v]
    BY <2>2 DEF WrappersInv, WrappersTypeOK
  <2>5. of'[w] = t /\ life'[w] = "live" /\ qdata'[t] = w
    BY <2>2 DEF WrappersInv, WrappersTypeOK
  <2>6. \A u \in GTypes \ {t} : qdata'[u] = qdata[u]
    BY <2>2 DEF WrappersInv, WrappersTypeOK
  <2>7. \A u \in GTypes : qdata[u] # w
    BY <2>1, NamesApart, IdsNotNothing DEF WrappersInv, QdataAgrees
  <2>8. QdataAgrees'
    <3>1. \A u \in GTypes : qdata'[u] # Nothing =>
            of'[qdata'[u]] = u /\ life'[qdata'[u]] \in {"live", "dead"}
      BY <2>4, <2>5, <2>6, <2>7 DEF WrappersInv, WrappersTypeOK, QdataAgrees
    <3>2. \A v \in Ids : of'[v] \in GTypes /\ life'[v] # "finalized" => qdata'[of'[v]] = v
      BY <1>2, <2>4, <2>5, <2>6, IdsNotNothing DEF WrappersInv, WrappersTypeOK, QdataAgrees
    <3>3. \A v \in Ids : of'[v] = "nothing" <=> life'[v] = "unused"
      BY <2>4, <2>5, NamesApart DEF WrappersInv, WrappersTypeOK, QdataAgrees
    <3> QED
      BY <3>1, <3>2, <3>3 DEF QdataAgrees
  <2>9. \A p \in Pspecs : Holders(p)' = Holders(p)
    <3> SUFFICES ASSUME NEW p \in Pspecs, NEW v \in Ids
                 PROVE  of'[v] = p /\ life'[v] # "finalized" <=> of[v] = p /\ life[v] # "finalized"
      BY DEF Holders
    <3> QED
      BY <2>1, <2>4, <2>5, NamesApart
  <2> QED
    BY <2>1, <2>3, <2>4, <2>5, <2>2, <2>8, <2>9
<1> QED
  BY <1>1, <1>2, Zenon DEF gwkjs_gtype_create_gtype_wrapper

(* A step that changes no holder, reference or owner of a GParamSpec.      *)
LEMMA SameHolders ==
    ASSUME ParamSpecsHeld, UNCHANGED <<refs, owned>>, \A p \in Pspecs : Holders(p)' = Holders(p)
    PROVE  ParamSpecsHeld'
BY DEF ParamSpecsHeld, Holders

-----------------------------------------------------------------------------
(* Each operation keeps the invariant.                                     *)
LEMMA GTypeToJSStep ==
    ASSUME WrappersInv, NEW t \in GTypes, NEW w \in Ids, GTypeToJS(t, w)
    PROVE  WrappersInv'
<1>1. /\ gwkjs_gtype_create_gtype_wrapper(t, w)
      /\ script' = script \union {w}
      /\ UNCHANGED <<defined, gtype, members, refs, owned>>
  BY DEF GTypeToJS
<1>2. WrappersTypeOK'
  BY <1>1, WrapperReturned DEF WrappersInv, WrappersTypeOK
<1>3. QdataAgrees' /\ ParamSpecsHeld' /\ MembersFound'
  BY <1>1, WrapperReturned, SameHolders DEF WrappersInv, MembersFound
<1>4. ReachedLive'
  BY <1>1, WrapperReturned DEF WrappersInv, WrappersTypeOK, ReachedLive
<1> QED
  BY <1>2, <1>3, <1>4 DEF WrappersInv

(* The object of a type is defined with the wrapper as its $gtype.         *)
LEMMA DefinitionStep ==
    ASSUME WrappersInv, NEW t \in GTypes, NEW w \in Ids, t \notin defined,
           gwkjs_gtype_create_gtype_wrapper(t, w),
           defined' = defined \union {t}, gtype' = [gtype EXCEPT ![t] = w],
           UNCHANGED <<script, refs, owned>>,
           NEW object, members' = [members EXCEPT ![t] = object]
    PROVE  WrappersTypeOK' /\ QdataAgrees' /\ ReachedLive' /\ ParamSpecsHeld'
<1>1. WrappersTypeOK'
  BY WrapperReturned DEF WrappersInv, WrappersTypeOK
<1>2. QdataAgrees' /\ ParamSpecsHeld'
  BY WrapperReturned, SameHolders DEF WrappersInv
<1>3. \A u \in defined : gtype'[u] = gtype[u] /\ gtype'[t] = w
  BY DEF WrappersInv, WrappersTypeOK
<1>4. gtype'[t] = w
  BY DEF WrappersInv, WrappersTypeOK
<1>5. ReachedLive'
  BY <1>3, <1>4, WrapperReturned DEF WrappersInv, WrappersTypeOK, ReachedLive
<1> QED
  BY <1>1, <1>2, <1>5

LEMMA EnumerationStep ==
    ASSUME WrappersInv, NEW t \in DOMAIN Enumerations, NEW w \in Ids, gwkjs_define_enumeration(t, w)
    PROVE  WrappersInv'
<1>1. t \in GTypes /\ t # PARAM
  BY WrappersAssumption DEF GTypes
<1> DEFINE object == gwkjs_define_enum_static_methods(t, gwkjs_define_enum_values(t))
<1>2. defined' = defined \union {t} /\ members' = [members EXCEPT ![t] = object]
  BY DEF gwkjs_define_enumeration
<1>3. WrappersTypeOK' /\ QdataAgrees' /\ ReachedLive' /\ ParamSpecsHeld'
  <2> HIDE DEF object
  <2> QED
    BY <1>1, <1>2, DefinitionStep DEF gwkjs_define_enumeration
<1>4. MembersFound'
  <2> SUFFICES ASSUME NEW u \in defined' \ {PARAM}, NEW i \in DOMAIN Enumerations[u]
               PROVE  \E j \in DOMAIN Enumerations[u] :
                        /\ j >= i /\ Fixed[Enumerations[u][j].name] = Fixed[Enumerations[u][i].name]
                        /\ members'[u][Fixed[Enumerations[u][i].name]] = <<Enumerations[u][j].value>>
    BY DEF MembersFound
  <2>1. CASE u = t
    <3>1. members'[u] = object
      BY <1>1, <1>2, <2>1 DEF WrappersInv, WrappersTypeOK
    <3> QED
      BY <2>1, <3>1, EnumMembers
  <2>2. CASE u # t
    <3>1. u \in defined \ {PARAM} /\ members'[u] = members[u]
      BY <1>2, <2>2 DEF WrappersInv, WrappersTypeOK
    <3> QED
      BY SMTT(30), ZenonT(30), <3>1 DEF WrappersInv, MembersFound
  <2> QED
    BY <2>1, <2>2
<1> QED
  BY <1>3, <1>4 DEF WrappersInv

LEMMA ParamClassStep ==
    ASSUME WrappersInv, NEW w \in Ids, gwkjs_define_param_class(w)
    PROVE  WrappersInv'
<1>1. PARAM \in GTypes
  BY DEF GTypes
<1>2. /\ defined' = defined \union {PARAM}
      /\ members' = [members EXCEPT ![PARAM] = gwkjs_object_define_static_methods]
  BY DEF gwkjs_define_param_class
<1>3. WrappersTypeOK' /\ QdataAgrees' /\ ReachedLive' /\ ParamSpecsHeld'
  BY <1>1, <1>2, DefinitionStep DEF gwkjs_define_param_class
<1>4. \A u \in defined' \ {PARAM} : u \in defined /\ members'[u] = members[u]
  BY <1>2 DEF WrappersInv, WrappersTypeOK
<1>5. MembersFound'
  <2> SUFFICES ASSUME NEW u \in defined' \ {PARAM}, NEW i \in DOMAIN Enumerations[u]
               PROVE  \E j \in DOMAIN Enumerations[u] :
                        /\ j >= i /\ Fixed[Enumerations[u][j].name] = Fixed[Enumerations[u][i].name]
                        /\ members'[u][Fixed[Enumerations[u][i].name]] = <<Enumerations[u][j].value>>
    BY DEF MembersFound
  <2>1. u \in defined \ {PARAM} /\ members'[u] = members[u]
    BY <1>4
  <2> QED
    BY <2>1 DEF WrappersInv, MembersFound
<1> QED
  BY <1>3, <1>5 DEF WrappersInv

LEMMA NamespaceCollectedStep ==
    ASSUME WrappersInv, NEW t \in GTypes, NamespaceCollected(t)
    PROVE  WrappersInv'
<1>1. /\ t \in defined /\ defined' = defined \ {t}
      /\ gtype' = [gtype EXCEPT ![t] = Nothing]
      /\ members' = [members EXCEPT ![t] = NoMembers]
      /\ UNCHANGED <<qdata, of, life, script, refs, owned, revived>>
  BY DEF NamespaceCollected
<1>2. WrappersTypeOK'
  BY <1>1 DEF WrappersInv, WrappersTypeOK
<1>3. QdataAgrees'
  BY <1>1 DEF WrappersInv, QdataAgrees
<1>4. ParamSpecsHeld'
  BY <1>1 DEF WrappersInv, ParamSpecsHeld
<1>5. \A u \in defined' : u \in defined /\ gtype'[u] = gtype[u] /\ members'[u] = members[u]
  BY <1>1 DEF WrappersInv, WrappersTypeOK
<1>6. ReachedLive' /\ MembersFound'
  BY SMTT(30), ZenonT(30), <1>1, <1>5 DEF WrappersInv, ReachedLive, MembersFound
<1> QED
  BY <1>2, <1>3, <1>4, <1>6 DEF WrappersInv

-----------------------------------------------------------------------------
LEMMA LookupEnumerationStep ==
    ASSUME WrappersInv, NEW t \in DOMAIN Enumerations, gwkjs_lookup_enumeration(t)
    PROVE  WrappersInv'
<1>1. /\ t \in defined /\ script' = script \union {gtype[t]}
      /\ UNCHANGED <<qdata, of, life, defined, gtype, members, refs, owned, revived>>
  BY DEF gwkjs_lookup_enumeration
<1>2. gtype[t] \in Ids /\ (gtype[t] \notin revived => life[gtype[t]] = "live")
  BY <1>1 DEF WrappersInv, ReachedLive
<1>3. WrappersTypeOK' /\ ReachedLive'
  BY <1>1, <1>2 DEF WrappersInv, WrappersTypeOK, ReachedLive
<1>4. QdataAgrees'
  BY <1>1 DEF WrappersInv, QdataAgrees
<1>5. ParamSpecsHeld'
  BY <1>1 DEF WrappersInv, ParamSpecsHeld
<1>6. MembersFound'
  BY <1>1 DEF WrappersInv, MembersFound
<1> QED
  BY <1>3, <1>4, <1>5, <1>6 DEF WrappersInv

(* A new wrapper of a GParamSpec is one more holder of it.                 *)
LEMMA FromParamStep ==
    ASSUME WrappersInv, NEW p \in Pspecs, NEW w \in Ids, gwkjs_param_from_g_param(p, w)
    PROVE  WrappersInv'
<1>1. /\ New(w, p) /\ refs' = [refs EXCEPT ![p] = @ + 1] /\ script' = script \union {w}
      /\ UNCHANGED <<qdata, defined, gtype, members, owned, revived>>
  BY DEF gwkjs_param_from_g_param
<1>2. /\ of' = [of EXCEPT ![w] = p] /\ life' = [life EXCEPT ![w] = "live"]
      /\ life[w] = "unused" /\ of[w] = "nothing"
  BY <1>1 DEF New, Fresh, WrappersInv, QdataAgrees
<1>3. /\ of'[w] = p /\ life'[w] = "live"
      /\ \A v \in Ids \ {w} : of'[v] = of[v] /\ life'[v] = life[v]
  BY <1>2 DEF WrappersInv, WrappersTypeOK
<1>4. WrappersTypeOK'
  BY <1>1, <1>2 DEF WrappersInv, WrappersTypeOK
<1>5. \A t \in GTypes : qdata[t] # w
  BY <1>2, NamesApart, IdsNotNothing DEF WrappersInv, QdataAgrees
<1>6. QdataAgrees'
  <2>1. \A u \in GTypes : qdata'[u] # Nothing =>
            of'[qdata'[u]] = u /\ life'[qdata'[u]] \in {"live", "dead"}
    BY <1>1, <1>3, <1>5 DEF WrappersInv, WrappersTypeOK, QdataAgrees
  <2>2. \A v \in Ids : of'[v] \in GTypes /\ life'[v] # "finalized" => qdata'[of'[v]] = v
    BY <1>1, <1>3, NamesApart DEF WrappersInv, QdataAgrees
  <2>3. \A v \in Ids : of'[v] = "nothing" <=> life'[v] = "unused"
    BY <1>3, NamesApart DEF WrappersInv, QdataAgrees
  <2> QED
    BY <2>1, <2>2, <2>3 DEF QdataAgrees
<1>7. ReachedLive'
  BY <1>1, <1>3 DEF WrappersInv, WrappersTypeOK, ReachedLive
<1>8. ParamSpecsHeld'
  <2> SUFFICES ASSUME NEW q \in Pspecs
               PROVE  refs'[q] = Cardinality(Holders(q)') + (IF q \in owned' THEN 1 ELSE 0)
    BY DEF ParamSpecsHeld, Holders
  <2>1. refs[q] = Cardinality(Holders(q)) + (IF q \in owned THEN 1 ELSE 0)
    BY DEF WrappersInv, ParamSpecsHeld, Holders
  <2>2. IsFiniteSet(Holders(q)) /\ w \notin Holders(q)
    BY <1>2, IdsNotNothing, NamesApart, FS_Subset DEF Holders
  <2>3. CASE q = p
    <3>1. Holders(q)' = Holders(q) \union {w}
      BY <1>3, <2>3 DEF Holders
    <3>2. Cardinality(Holders(q)') = Cardinality(Holders(q)) + 1
      BY <2>2, <3>1, FS_AddElement
    <3>3. refs'[q] = refs[q] + 1
      BY <1>1, <2>3 DEF WrappersInv, WrappersTypeOK
    <3>4. Cardinality(Holders(q)) \in Nat
      BY <2>2, FS_CardinalityType
    <3> QED
      BY <1>1, <2>1, <3>2, <3>3, <3>4
  <2>4. CASE q # p
    <3>1. Holders(q)' = Holders(q)
      BY <1>2, <1>3, <2>4, NamesApart DEF Holders
    <3>2. refs'[q] = refs[q]
      BY <1>1, <2>4 DEF WrappersInv, WrappersTypeOK
    <3> QED
      BY <1>1, <2>1, <3>1, <3>2
  <2> QED
    BY <2>3, <2>4
<1>9. MembersFound'
  BY <1>1 DEF WrappersInv, MembersFound
<1> QED
  BY <1>4, <1>6, <1>7, <1>8, <1>9 DEF WrappersInv

(* C takes a reference on a GParamSpec, or gives its own back.             *)
LEMMA OwnerStep ==
    ASSUME WrappersInv, NEW p \in Pspecs,
           \/ p \notin owned /\ owned' = owned \union {p} /\ refs' = [refs EXCEPT ![p] = @ + 1]
           \/ p \in owned /\ owned' = owned \ {p} /\ refs' = [refs EXCEPT ![p] = @ - 1],
           UNCHANGED <<qdata, of, life, script, defined, gtype, members, revived>>
    PROVE  WrappersInv'
<1>1. WrappersTypeOK'
  BY DEF WrappersInv, WrappersTypeOK
<1>2. QdataAgrees' /\ ReachedLive' /\ MembersFound'
  BY DEF WrappersInv, QdataAgrees, ReachedLive, MembersFound
<1>3. ParamSpecsHeld'
  <2> SUFFICES ASSUME NEW q \in Pspecs
               PROVE  refs'[q] = Cardinality(Holders(q)') + (IF q \in owned' THEN 1 ELSE 0)
    BY DEF ParamSpecsHeld, Holders
  <2>1. refs[q] = Cardinality(Holders(q)) + (IF q \in owned THEN 1 ELSE 0)
    BY DEF WrappersInv, ParamSpecsHeld, Holders
  <2>2. Holders(q)' = Holders(q)
    BY DEF Holders
  <2>3. Cardinality(Holders(q)) \in Nat
    BY IdsNotNothing, FS_Subset, FS_CardinalityType DEF Holders
  <2> QED
    BY <2>1, <2>2, <2>3 DEF WrappersInv, WrappersTypeOK
<1> QED
  BY <1>1, <1>2, <1>3 DEF WrappersInv

LEMMA DropStep ==
    ASSUME WrappersInv, NEW w \in Ids, Drop(w)
    PROVE  WrappersInv'
<1>1. /\ script' = script \ {w}
      /\ UNCHANGED <<qdata, of, life, defined, gtype, members, refs, owned, revived>>
  BY DEF Drop
<1>2. WrappersTypeOK' /\ ReachedLive'
  BY <1>1 DEF WrappersInv, WrappersTypeOK, ReachedLive
<1>3. QdataAgrees' /\ ParamSpecsHeld' /\ MembersFound'
  BY SMTT(30), ZenonT(30), <1>1 DEF WrappersInv, QdataAgrees, ParamSpecsHeld, MembersFound
<1> QED
  BY <1>2, <1>3 DEF WrappersInv

(* The collector finds only what JavaScript does not reach.                *)
LEMMA CollectStep ==
    ASSUME WrappersInv, NEW w \in Ids, Collect(w)
    PROVE  WrappersInv'
<1>1. /\ life[w] = "live" /\ w \notin Reached /\ life' = [life EXCEPT ![w] = "dead"]
      /\ UNCHANGED <<qdata, of, script, defined, gtype, members, refs, owned, revived>>
  BY DEF Collect
<1>2. life'[w] = "dead" /\ \A v \in Ids \ {w} : life'[v] = life[v]
  BY <1>1 DEF WrappersInv, WrappersTypeOK
<1>3. WrappersTypeOK'
  BY <1>1 DEF WrappersInv, WrappersTypeOK
<1>4. QdataAgrees'
  BY <1>1, <1>2 DEF WrappersInv, WrappersTypeOK, QdataAgrees
<1>5. ReachedLive'
  BY <1>1, <1>2 DEF WrappersInv, WrappersTypeOK, ReachedLive, Reached
<1>6. \A p \in Pspecs : Holders(p)' = Holders(p)
  BY <1>1, <1>2 DEF Holders
<1>7. ParamSpecsHeld' /\ MembersFound'
  BY <1>1, <1>6, SameHolders DEF WrappersInv, MembersFound
<1> QED
  BY <1>3, <1>4, <1>5, <1>7 DEF WrappersInv

(* The finalizer of a type's wrapper clears the qdata that is its own.     *)
LEMMA GTypeFinalizeStep ==
    ASSUME WrappersInv, NEW w \in Ids, gwkjs_gtype_finalize(w)
    PROVE  WrappersInv'
<1>1. /\ life[w] = "dead" /\ of[w] \in GTypes
      /\ life' = [life EXCEPT ![w] = "finalized"]
      /\ qdata' = [qdata EXCEPT ![of[w]] = Nothing]
      /\ UNCHANGED <<of, script, defined, gtype, members, refs, owned, revived>>
  BY DEF gwkjs_gtype_finalize
<1>2. life'[w] = "finalized" /\ \A v \in Ids \ {w} : life'[v] = life[v]
  BY <1>1 DEF WrappersInv, WrappersTypeOK
<1>3. qdata'[of[w]] = Nothing /\ \A t \in GTypes \ {of[w]} : qdata'[t] = qdata[t]
  BY <1>1 DEF WrappersInv, WrappersTypeOK
<1>4. WrappersTypeOK'
  BY <1>1 DEF WrappersInv, WrappersTypeOK
<1>5. qdata[of[w]] = w
  BY <1>1 DEF WrappersInv, QdataAgrees
<1>6. QdataAgrees'
  <2>1. \A t \in GTypes : qdata'[t] # Nothing =>
            of'[qdata'[t]] = t /\ life'[qdata'[t]] \in {"live", "dead"}
    BY <1>1, <1>2, <1>3 DEF WrappersInv, WrappersTypeOK, QdataAgrees
  <2>2. \A v \in Ids : of'[v] \in GTypes /\ life'[v] # "finalized" => qdata'[of'[v]] = v
    BY <1>1, <1>2, <1>3, <1>5 DEF WrappersInv, QdataAgrees
  <2>3. \A v \in Ids : of'[v] = "nothing" <=> life'[v] = "unused"
    BY <1>1, <1>2, NamesApart DEF WrappersInv, QdataAgrees
  <2> QED
    BY <2>1, <2>2, <2>3 DEF QdataAgrees
<1>7. ReachedLive'
  BY <1>1, <1>2 DEF WrappersInv, WrappersTypeOK, ReachedLive
<1>8. \A p \in Pspecs : Holders(p)' = Holders(p)
  BY <1>1, <1>2, NamesApart DEF Holders
<1>9. ParamSpecsHeld' /\ MembersFound'
  BY <1>1, <1>8, SameHolders DEF WrappersInv, MembersFound
<1> QED
  BY <1>4, <1>6, <1>7, <1>9 DEF WrappersInv

(* The finalizer of a GParamSpec's wrapper gives its reference back.       *)
LEMMA ParamFinalizeStep ==
    ASSUME WrappersInv, NEW w \in Ids, param_finalize(w)
    PROVE  WrappersInv'
<1>1. /\ life[w] = "dead" /\ of[w] \in Pspecs
      /\ life' = [life EXCEPT ![w] = "finalized"]
      /\ refs' = [refs EXCEPT ![of[w]] = @ - 1]
      /\ UNCHANGED <<qdata, of, script, defined, gtype, members, owned, revived>>
  BY DEF param_finalize
<1>2. life'[w] = "finalized" /\ \A v \in Ids \ {w} : life'[v] = life[v]
  BY <1>1 DEF WrappersInv, WrappersTypeOK
<1>3. WrappersTypeOK'
  BY <1>1 DEF WrappersInv, WrappersTypeOK
<1>4. QdataAgrees'
  BY <1>1, <1>2, NamesApart DEF WrappersInv, WrappersTypeOK, QdataAgrees
<1>5. ReachedLive'
  BY <1>1, <1>2 DEF WrappersInv, WrappersTypeOK, ReachedLive
<1>6. ParamSpecsHeld'
  <2> SUFFICES ASSUME NEW q \in Pspecs
               PROVE  refs'[q] = Cardinality(Holders(q)') + (IF q \in owned' THEN 1 ELSE 0)
    BY DEF ParamSpecsHeld, Holders
  <2>1. refs[q] = Cardinality(Holders(q)) + (IF q \in owned THEN 1 ELSE 0)
    BY DEF WrappersInv, ParamSpecsHeld, Holders
  <2>2. IsFiniteSet(Holders(q)) /\ Cardinality(Holders(q)) \in Nat
    BY IdsNotNothing, FS_Subset, FS_CardinalityType DEF Holders
  <2>3. CASE q = of[w]
    <3>1. w \in Holders(q) /\ Holders(q)' = Holders(q) \ {w}
      BY <1>1, <1>2, <2>3 DEF Holders
    <3>2. Cardinality(Holders(q)') = Cardinality(Holders(q)) - 1
      BY <2>2, <3>1, FS_RemoveElement
    <3>3. refs'[q] = refs[q] - 1
      BY <1>1, <2>3 DEF WrappersInv, WrappersTypeOK
    <3> QED
      BY <1>1, <2>1, <2>2, <3>2, <3>3
  <2>4. CASE q # of[w]
    <3>1. Holders(q)' = Holders(q)
      BY <1>1, <1>2, <2>4 DEF Holders
    <3>2. refs'[q] = refs[q]
      BY <1>1, <2>4 DEF WrappersInv, WrappersTypeOK
    <3> QED
      BY <1>1, <2>1, <3>1, <3>2
  <2> QED
    BY <2>3, <2>4
<1>7. MembersFound'
  BY <1>1 DEF WrappersInv, MembersFound
<1> QED
  BY <1>3, <1>4, <1>5, <1>6, <1>7 DEF WrappersInv

-----------------------------------------------------------------------------
LEMMA NextWrappersInv == WrappersInv /\ [WrappersNext]_wrapperVars => WrappersInv'
<1> SUFFICES ASSUME WrappersInv, [WrappersNext]_wrapperVars PROVE WrappersInv'
  OBVIOUS
<1>1. ASSUME NEW t \in GTypes, NEW w \in Ids, GTypeToJS(t, w) PROVE WrappersInv'
  BY <1>1, GTypeToJSStep
<1>2. ASSUME NEW t \in DOMAIN Enumerations, NEW w \in Ids, gwkjs_define_enumeration(t, w) PROVE WrappersInv'
  BY <1>2, EnumerationStep
<1>3. ASSUME NEW t \in DOMAIN Enumerations, gwkjs_lookup_enumeration(t) PROVE WrappersInv'
  BY <1>3, LookupEnumerationStep
<1>4. ASSUME NEW w \in Ids, gwkjs_define_param_class(w) PROVE WrappersInv'
  BY <1>4, ParamClassStep
<1>5. ASSUME NEW t \in GTypes, NamespaceCollected(t) PROVE WrappersInv'
  BY <1>5, NamespaceCollectedStep
<1>6. ASSUME NEW p \in Pspecs, NEW w \in Ids, gwkjs_param_from_g_param(p, w) PROVE WrappersInv'
  BY <1>6, FromParamStep
<1>7. ASSUME NEW w \in Ids, gwkjs_g_param_from_param(w) PROVE WrappersInv'
  BY <1>7, OwnerStep DEF gwkjs_g_param_from_param
<1>8. ASSUME NEW p \in Pspecs, Unref(p) PROVE WrappersInv'
  BY <1>8, OwnerStep DEF Unref
<1>9. ASSUME NEW w \in Ids, Drop(w) PROVE WrappersInv'
  BY <1>9, DropStep
<1>10. ASSUME NEW w \in Ids, Collect(w) PROVE WrappersInv'
  BY <1>10, CollectStep
<1>11. ASSUME NEW w \in Ids, gwkjs_gtype_finalize(w) PROVE WrappersInv'
  BY <1>11, GTypeFinalizeStep
<1>12. ASSUME NEW w \in Ids, param_finalize(w) PROVE WrappersInv'
  BY <1>12, ParamFinalizeStep
<1>13. CASE UNCHANGED wrapperVars
  <2>1. WrappersTypeOK' /\ QdataAgrees'
    BY <1>13 DEF wrapperVars, WrappersInv, WrappersTypeOK, QdataAgrees
  <2>2. ReachedLive'
    BY <1>13 DEF wrapperVars, WrappersInv, ReachedLive
  <2>3. ParamSpecsHeld'
    BY <1>13 DEF wrapperVars, WrappersInv, ParamSpecsHeld
  <2>4. MembersFound'
    BY <1>13 DEF wrapperVars, WrappersInv, MembersFound
  <2> QED
    BY <2>1, <2>2, <2>3, <2>4 DEF WrappersInv
<1> QED
  BY <1>1, <1>2, <1>3, <1>4, <1>5, <1>6, <1>7, <1>8, <1>9, <1>10, <1>11, <1>12, <1>13
     DEF WrappersNext

(* Whatever order conversions, definitions, collections and finalizers     *)
(* come in (gtype.cpp, param.cpp, enumeration.cpp): a type has one         *)
(* wrapper, a GParamSpec has the references of its wrappers and of C, and  *)
(* an enumeration has its members.                                         *)
THEOREM WrappersAreSound == WrappersSpec => []WrappersSound
<1>1. WrappersInv => WrappersSound
  BY OneWrapperHolds DEF WrappersInv, WrappersSound
<1> QED
  BY <1>1, InitWrappersInv, NextWrappersInv, PTL DEF WrappersSpec
=============================================================================

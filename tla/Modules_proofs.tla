--------------------------- MODULE Modules_proofs ---------------------------
(* The JavaScript modules: safety of Signals for any signal names, any     *)
(* number of connections and any nesting of emissions; and parent() of     *)
(* Lang for any classes, any interfaces and calls of any depth.            *)
EXTENDS Signals, Lang, FiniteSetTheorems, SequenceTheorems, WellFoundedInduction, TLAPS

(* The ids of the connections made so far are 1..Len(name).                *)
IdsCounted == _nextConnectionId = IF name = <<>> THEN 0 ELSE Len(name) + 1

(* An emission walks its snapshot: the connections made for its signal     *)
(* before it, in order, those that were disconnected already left out; the *)
(* handlers it is past were called or were disconnected.  (nm and off are  *)
(* the variables name and disconnected.)                                   *)
Snapshot(e, nm, off) ==
    /\ e.since <= Len(nm) + 1
    /\ \A j \in DOMAIN e.handlers : e.handlers[j] < e.since /\ nm[e.handlers[j]] = e.name
    /\ \A j, k \in DOMAIN e.handlers : j < k => e.handlers[j] < e.handlers[k]
    /\ \A id \in 1..(e.since - 1) : nm[id] = e.name =>
            id \in off \/ \E j \in DOMAIN e.handlers : e.handlers[j] = id

Called(e, off) ==
    /\ e.i \in 1..(Len(e.handlers) + 1)
    /\ \A j \in 1..(e.i - 1) : e.handlers[j] \in e.called \union off
    /\ e.running = 0 => \A c \in e.called : \E j \in 1..(e.i - 1) : c = e.handlers[j]
    /\ e.running # 0 =>
        /\ e.i \in DOMAIN e.handlers /\ e.running = e.handlers[e.i]
        /\ e.running \in e.called
        /\ \A c \in e.called : \E j \in 1..e.i : c = e.handlers[j]

Walks(e, nm, off) == Snapshot(e, nm, off) /\ Called(e, off)

IInv ==
    /\ FlagMatchesArray
    /\ IdsCounted
    /\ \A k \in DOMAIN emissions : Walks(emissions[k], name, disconnected)

-----------------------------------------------------------------------------
(* A set of numbers has a least one.                                       *)
LEMMA LeastNumber ==
    ASSUME NEW T \in SUBSET Nat, T # {}
    PROVE  \E x \in T : \A y \in T : x <= y
<1> DEFINE Below == {ss \in Nat \X Nat : ss[1] < ss[2]}
<1>1. IsWellFoundedOn(Below, Nat)
  BY NatLessThanWellFounded, Zenon DEF OpToRel
<1>2. PICK x \in T : \A y \in T : <<y, x>> \notin Below
  BY <1>1, WFMin, Zenon
<1>3. ASSUME NEW y \in T PROVE x <= y
  <2>1. <<y, x>> \in Nat \X Nat /\ <<y, x>>[1] = y /\ <<y, x>>[2] = x
    OBVIOUS
  <2> QED
    BY <1>2, <2>1
<1> QED
  BY <1>3

(* t is s without one x, the k-th element.                                 *)
Without(s, x, t, k) ==
    /\ s[k] = x
    /\ Len(t) = Len(s) - 1
    /\ \A j \in 1..(Len(s) - 1) : t[j] = IF j < k THEN s[j] ELSE s[j + 1]

(* RemoveFirst takes out one element.                                      *)
LEMMA RemoveFirstTakesOne ==
    ASSUME NEW S, NEW s \in Seq(S), NEW x, Contains(s, x)
    PROVE  /\ RemoveFirst(s, x) \in Seq(S)
           /\ \E k \in DOMAIN s : Without(s, x, RemoveFirst(s, x), k)
<1> DEFINE I == {i \in 1..Len(s) : s[i] = x}
           k == CHOOSE i \in I : \A j \in I : i <= j
           front == SubSeq(s, 1, k - 1)
           back  == SubSeq(s, k + 1, Len(s))
<1>1. I \in SUBSET Nat /\ I # {}
  BY DEF Contains
<1>2. k \in I
  BY <1>1, LeastNumber
<1>3. RemoveFirst(s, x) = front \o back
  <2>1. SelectInSeq(s, LAMBDA v : v = x) = k
    BY <1>1 DEF SelectInSeq, Min
  <2> QED
    BY <1>1, <2>1 DEF RemoveFirst, RemoveAt
<1> HIDE DEF k
<1>4. k \in 1..Len(s) /\ s[k] = x
  BY <1>2
<1>5. \A i \in 1..(k - 1) : s[i] \in S
  BY <1>4
<1>6. \A i \in (k + 1)..Len(s) : s[i] \in S
  BY <1>4
<1>7. /\ front \in Seq(S) /\ Len(front) = k - 1
      /\ \A i \in 1..(k - 1) : front[i] = s[i]
  BY <1>4, <1>5, SubSeqProperties
<1>8. /\ back \in Seq(S) /\ Len(back) = Len(s) - k
      /\ \A i \in 1..(Len(s) - k) : back[i] = s[k + i]
  BY <1>4, <1>6, SubSeqProperties
<1> HIDE DEF front, back
<1>9. /\ front \o back \in Seq(S) /\ Len(front \o back) = Len(front) + Len(back)
      /\ \A i \in 1..(Len(front) + Len(back)) :
            (front \o back)[i] = IF i <= Len(front) THEN front[i] ELSE back[i - Len(front)]
  BY <1>7, <1>8, ConcatProperties
<1>10. Len(s) \in Nat /\ k \in Nat /\ Len(front) + Len(back) = Len(s) - 1
  BY <1>4, <1>7, <1>8
<1>11. ASSUME NEW i \in 1..(Len(s) - 1)
       PROVE  (front \o back)[i] = IF i < k THEN s[i] ELSE s[i + 1]
  <2>1. (front \o back)[i] = IF i <= k - 1 THEN front[i] ELSE back[i - (k - 1)]
    BY <1>7, <1>9, <1>10
  <2>2. CASE i < k
    BY <1>7, <1>10, <2>1, <2>2
  <2>3. CASE ~(i < k)
    <3>1. i - (k - 1) \in 1..(Len(s) - k) /\ k + (i - (k - 1)) = i + 1
      BY <1>4, <1>10, <2>3
    <3> QED
      BY <1>8, <1>10, <2>1, <2>3, <3>1
  <2> QED
    BY <2>2, <2>3
<1>12. k \in DOMAIN s
  BY <1>4
<1>13. \A j \in 1..(Len(s) - 1) : RemoveFirst(s, x)[j] = IF j < k THEN s[j] ELSE s[j + 1]
  BY <1>3, <1>11
<1>14. RemoveFirst(s, x) \in Seq(S) /\ Len(RemoveFirst(s, x)) = Len(s) - 1
  BY <1>3, <1>9, <1>10
<1> QED
  BY <1>4, <1>12, <1>13, <1>14, Zenon DEF Without

(* A stack of emissions whose innermost is replaced, or on which one more  *)
(* is put.                                                                 *)
LEMMA Pushed ==
    ASSUME NEW S, NEW s \in Seq(S), NEW e \in S
    PROVE  /\ <<e>> \o s \in Seq(S)
           /\ Len(<<e>> \o s) = Len(s) + 1
           /\ \A k \in 1..(Len(s) + 1) : (<<e>> \o s)[k] = IF k = 1 THEN e ELSE s[k - 1]
<1>1. <<e>> \in Seq(S) /\ Len(<<e>>) = 1 /\ <<e>>[1] = e
  OBVIOUS
<1> QED
  BY <1>1, ConcatProperties

LEMMA Replaced ==
    ASSUME NEW S, NEW s \in Seq(S), s # <<>>, NEW e \in S
    PROVE  /\ <<e>> \o Tail(s) \in Seq(S)
           /\ Len(<<e>> \o Tail(s)) = Len(s)
           /\ \A k \in 1..Len(s) : (<<e>> \o Tail(s))[k] = IF k = 1 THEN e ELSE s[k]
<1>1. /\ Tail(s) \in Seq(S) /\ Len(Tail(s)) = Len(s) - 1
      /\ \A k \in 1..(Len(s) - 1) : Tail(s)[k] = s[k + 1]
  BY HeadTailProperties
<1>2. /\ <<e>> \o Tail(s) \in Seq(S)
      /\ Len(<<e>> \o Tail(s)) = Len(Tail(s)) + 1
      /\ \A k \in 1..(Len(Tail(s)) + 1) :
            (<<e>> \o Tail(s))[k] = IF k = 1 THEN e ELSE Tail(s)[k - 1]
  BY <1>1, Pushed
<1>3. Len(s) \in Nat /\ Len(s) >= 1
  BY EmptySeq
<1> QED
  BY <1>1, <1>2, <1>3

(* What an emission knows stays true when connections are made and others  *)
(* are disconnected.                                                       *)
LEMMA WalksOn ==
    ASSUME NEW e \in Emissions, NEW nm \in Seq(Names), NEW off, NEW nm2 \in Seq(Names), NEW off2,
           Walks(e, nm, off), Len(nm) <= Len(nm2), \A id \in DOMAIN nm : nm2[id] = nm[id],
           off \subseteq off2
    PROVE  Walks(e, nm2, off2)
<1>1. e.since \in Nat /\ e.handlers \in Seq(Ids) /\ Len(nm) \in Nat /\ Len(nm2) \in Nat
  BY SignalsAssumption DEF Emissions
<1>2. \A id \in 1..(e.since - 1) : nm2[id] = nm[id]
  BY <1>1 DEF Walks, Snapshot
<1>3. \A j \in DOMAIN e.handlers : e.handlers[j] \in 1..(e.since - 1)
  BY SMTT(30), ZenonT(30), <1>1, SignalsAssumption DEF Walks, Snapshot, Ids
<1>4. Snapshot(e, nm2, off2)
  BY <1>1, <1>2, <1>3 DEF Walks, Snapshot
<1>5. Called(e, off2)
  BY DEF Walks, Called
<1> QED
  BY <1>4, <1>5 DEF Walks

-----------------------------------------------------------------------------
(* FlagMatchesArray element by element.  (s and off are the array and the  *)
(* flagged ids, n the number of connections made.)                         *)
Agrees(s, off, n) ==
    /\ \A i \in DOMAIN s : s[i] \in 1..n /\ s[i] \notin off
    /\ off \subseteq 1..n
    /\ \A id \in 1..n : id \in off \/ \E i \in DOMAIN s : s[i] = id
    /\ \A i, j \in DOMAIN s : i < j => s[i] < s[j]

LEMMA AgreesElementwise ==
    ASSUME NEW s, NEW off, NEW n
    PROVE  Agrees(s, off, n) <=>
            /\ ToSet(s) \intersect off = {}
            /\ ToSet(s) \union off = 1..n
            /\ \A i, j \in DOMAIN s : i < j => s[i] < s[j]
BY DEF Agrees, ToSet

LEMMA NamesBounded ==
    ASSUME IInv
    PROVE  /\ Len(name) \in 0..MaxId /\ MaxId \in Nat
           /\ _nextConnectionId # 0 => _nextConnectionId = Len(name) + 1
           /\ NewId = Len(name) + 1
<1>1. Len(name) \in Nat /\ (name = <<>> => Len(name) = 0)
  BY DEF IInv, FlagMatchesArray, TypeOK
<1> QED
  BY <1>1, SignalsAssumption DEF IInv, FlagMatchesArray, TypeOK, IdsCounted, NewId

LEMMA InitInv == Init => IInv
<1> SUFFICES ASSUME Init PROVE IInv
  OBVIOUS
<1>1. <<>> \in Seq(Ids) /\ <<>> \in Seq(Names) /\ <<>> \in Seq(Emissions) /\ Len(<<>>) = 0
  OBVIOUS
<1>2. TypeOK
  <2>1. 0 \in 0..(MaxId + 1)
    BY SignalsAssumption
  <2> QED
    BY <1>1, <2>1 DEF Init, TypeOK
<1>3. Agrees(<<>>, {}, 0)
  BY <1>1 DEF Agrees
<1>4. FlagMatchesArray
  BY <1>1, <1>2, <1>3, AgreesElementwise DEF Init, FlagMatchesArray
<1> QED
  BY <1>1, <1>4 DEF Init, IInv, IdsCounted

(* The calls in progress keep walking while the table changes under them.  *)
LEMMA EmissionsWalkOn ==
    ASSUME IInv, name' \in Seq(Names), Len(name) <= Len(name'),
           \A id \in DOMAIN name : name'[id] = name[id],
           disconnected \subseteq disconnected', emissions' = emissions
    PROVE  \A k \in DOMAIN emissions' : Walks(emissions'[k], name', disconnected')
<1>1. name \in Seq(Names) /\ \A k \in DOMAIN emissions : emissions[k] \in Emissions
  BY DEF IInv, FlagMatchesArray, TypeOK
<1>2. \A k \in DOMAIN emissions : Walks(emissions[k], name, disconnected)
  BY DEF IInv
<1> QED
  BY <1>1, <1>2, WalksOn

LEMMA ConnectInv ==
    ASSUME IInv, NEW n \in Names, _connect(n)
    PROVE  IInv'
<1> DEFINE id == Len(name) + 1
           s == _signalConnections
<1>1. TypeOK /\ Agrees(s, disconnected, Len(name))
  BY AgreesElementwise DEF IInv, FlagMatchesArray
<1>2. /\ id \in 1..MaxId /\ _nextConnectionId' = id + 1
      /\ _signalConnections' = Append(s, id) /\ name' = Append(name, n)
      /\ UNCHANGED <<disconnected, emissions, throwing>>
  BY NamesBounded DEF _connect
<1>3. /\ name' \in Seq(Names) /\ Len(name') = Len(name) + 1
      /\ \A k \in DOMAIN name : name'[k] = name[k]
  BY <1>1, <1>2, AppendProperties DEF TypeOK
<1>4. /\ _signalConnections' \in Seq(Ids) /\ Len(_signalConnections') = Len(s) + 1
      /\ \A i \in 1..Len(s) : _signalConnections'[i] = s[i]
      /\ _signalConnections'[Len(s) + 1] = id
  BY <1>1, <1>2, AppendProperties DEF TypeOK, Ids
<1>5. s \in Seq(Ids) /\ Len(s) \in Nat /\ Len(name) \in Nat /\ MaxId \in Nat
  BY <1>1, SignalsAssumption DEF TypeOK
<1>6. TypeOK'
  BY <1>1, <1>2, <1>3, <1>4, <1>5 DEF TypeOK
<1>7. Agrees(_signalConnections', disconnected', Len(name'))
  <2>1. \A i \in DOMAIN _signalConnections' :
            \/ i \in 1..Len(s) /\ _signalConnections'[i] = s[i]
            \/ i = Len(s) + 1 /\ _signalConnections'[i] = id
    BY <1>4, <1>5
  <2>2. \A k \in 1..Len(name') : k \in 1..Len(name) \/ k = id
    BY <1>3, <1>5
  <2>3. DOMAIN s = 1..Len(s) /\ DOMAIN _signalConnections' = 1..(Len(s) + 1)
    BY <1>4, <1>5
  <2>4. disconnected' \subseteq 1..Len(name')
    BY <1>1, <1>2, <1>3, <1>5 DEF Agrees
  <2>5. \A i \in DOMAIN _signalConnections' :
            _signalConnections'[i] \in 1..Len(name') /\ _signalConnections'[i] \notin disconnected'
    BY <1>1, <1>2, <1>3, <1>5, <2>1 DEF Agrees
  <2>6. \A k \in 1..Len(name') :
            k \in disconnected' \/ \E i \in DOMAIN _signalConnections' : _signalConnections'[i] = k
    BY <1>1, <1>2, <1>4, <1>5, <2>2, <2>3 DEF Agrees
  <2>7. \A i, j \in DOMAIN _signalConnections' :
            i < j => _signalConnections'[i] < _signalConnections'[j]
    BY <1>1, <1>5, <2>1, <2>3 DEF Agrees
  <2> QED
    BY <2>4, <2>5, <2>6, <2>7 DEF Agrees
<1>8. FlagMatchesArray'
  BY <1>6, <1>7, AgreesElementwise DEF FlagMatchesArray
<1>9. IdsCounted'
  BY <1>2, <1>3, <1>5 DEF IdsCounted
<1>10. \A k \in DOMAIN emissions' : Walks(emissions'[k], name', disconnected')
  BY <1>2, <1>3, <1>5, EmissionsWalkOn
<1> QED
  BY <1>8, <1>9, <1>10 DEF IInv

LEMMA DisconnectInv ==
    ASSUME IInv, NEW id \in Ids, _disconnect(id)
    PROVE  IInv'
<1> DEFINE s == _signalConnections
           t == RemoveFirst(s, id)
<1>1. TypeOK /\ Agrees(s, disconnected, Len(name)) /\ Len(s) \in Nat
  <2>1. TypeOK /\ Agrees(s, disconnected, Len(name))
    BY AgreesElementwise DEF IInv, FlagMatchesArray
  <2> QED
    BY <2>1 DEF TypeOK
<1>2. CASE UNCHANGED <<table, emissions>> /\ throwing' = TRUE
  <2>1. TypeOK' /\ Agrees(s', disconnected', Len(name')) /\ IdsCounted'
    BY <1>1, <1>2 DEF TypeOK, table, IInv, IdsCounted
  <2>2. \A k \in DOMAIN emissions' : Walks(emissions'[k], name', disconnected')
    BY <1>2 DEF table, IInv
  <2> QED
    BY <2>1, <2>2, AgreesElementwise DEF IInv, FlagMatchesArray
<1>3. CASE /\ Contains(s, id) /\ RemoveConnection(id)
           /\ UNCHANGED <<_nextConnectionId, name, emissions, throwing>>
  <2>1. t \in Seq(Ids) /\ \E k \in DOMAIN s : Without(s, id, t, k)
    <3>1. s \in Seq(Ids)
      BY <1>1 DEF TypeOK
    <3> QED
      BY <1>3, <3>1, RemoveFirstTakesOne, Zenon
  <2>2. PICK k \in DOMAIN s :
            /\ s[k] = id /\ t \in Seq(Ids) /\ Len(t) = Len(s) - 1
            /\ \A j \in 1..(Len(s) - 1) : t[j] = IF j < k THEN s[j] ELSE s[j + 1]
    BY <2>1, Zenon DEF Without
  <2>3. _signalConnections' = t /\ disconnected' = disconnected \union {id}
    BY <1>3 DEF RemoveConnection
  <2> HIDE DEF t
  <2>4. id \in 1..Len(name)
    BY <1>1, <2>2 DEF Agrees
  <2>5. DOMAIN s = 1..Len(s) /\ DOMAIN t = 1..(Len(s) - 1) /\ k \in 1..Len(s)
    BY <1>1, <2>2 DEF TypeOK
  <2>6. ASSUME NEW j \in DOMAIN t
        PROVE  \E i \in DOMAIN s : i # k /\ t[j] = s[i]
    <3>1. CASE j < k
      <4>1. t[j] = s[j] /\ j \in DOMAIN s /\ j # k
        BY <1>1, <2>2, <2>5, <3>1
      <4> QED
        BY <4>1
    <3>2. CASE ~(j < k)
      <4>1. t[j] = s[j + 1] /\ j + 1 \in DOMAIN s /\ j + 1 # k
        BY <1>1, <2>2, <2>5, <3>2
      <4> QED
        BY <4>1
    <3> QED
      BY <3>1, <3>2
  <2>7. ASSUME NEW i \in DOMAIN s, i # k
        PROVE  \E j \in DOMAIN t : t[j] = s[i]
    <3>1. CASE i < k
      BY <1>1, <2>2, <2>5, <3>1
    <3>2. CASE i > k
      <4>1. i - 1 \in 1..(Len(s) - 1) /\ ~(i - 1 < k) /\ (i - 1) + 1 = i
        BY <1>1, <2>5, <3>2
      <4> QED
        BY <2>2, <2>5, <4>1
    <3> QED
      BY <1>1, <2>5, <2>7, <3>1, <3>2
  <2>8. ASSUME NEW i \in DOMAIN s, i # k PROVE s[i] # id
    <3>1. \A a, b \in DOMAIN s : a < b => s[a] < s[b]
      BY <1>1 DEF Agrees
    <3>2. i < k \/ k < i
      BY <1>1, <2>5, <2>8
    <3>3. s[i] \in Nat /\ s[k] \in Nat
      BY <1>1 DEF Agrees
    <3> QED
      BY <2>2, <3>1, <3>2, <3>3
  <2>9. \A i, j \in DOMAIN t : i < j => t[i] < t[j]
    <3> SUFFICES ASSUME NEW i \in DOMAIN t, NEW j \in DOMAIN t, i < j PROVE t[i] < t[j]
      OBVIOUS
    <3>1. \A a, b \in DOMAIN s : a < b => s[a] < s[b]
      BY <1>1 DEF Agrees
    <3>2. t[i] = (IF i < k THEN s[i] ELSE s[i + 1]) /\ t[j] = (IF j < k THEN s[j] ELSE s[j + 1])
      BY <2>2, <2>5
    <3>3. i \in 1..Len(s) /\ i + 1 \in 1..Len(s) /\ j \in 1..Len(s) /\ j + 1 \in 1..Len(s)
      BY <1>1, <2>5
    <3> QED
      BY <1>1, <2>5, <3>1, <3>2, <3>3
  <2>10. Agrees(t, disconnected \union {id}, Len(name))
    <3>1. \A j \in DOMAIN t : t[j] \in 1..Len(name) /\ t[j] \notin disconnected \union {id}
      BY <1>1, <2>6, <2>8, <2>2 DEF Agrees
    <3>2. disconnected \union {id} \subseteq 1..Len(name)
      BY <1>1, <2>4 DEF Agrees
    <3>3. ASSUME NEW d \in 1..Len(name), d \notin disconnected \union {id}
          PROVE  \E j \in DOMAIN t : t[j] = d
      <4>1. PICK i \in DOMAIN s : s[i] = d
        BY <1>1, <3>3 DEF Agrees
      <4> QED
        BY <2>2, <2>7, <3>3, <4>1
    <3> QED
      BY <2>9, <3>1, <3>2, <3>3 DEF Agrees
  <2>11. TypeOK'
    BY <1>1, <1>3, <2>2, <2>3 DEF TypeOK
  <2>12. FlagMatchesArray'
    BY <1>3, <2>3, <2>10, <2>11, AgreesElementwise DEF FlagMatchesArray
  <2>13. IdsCounted'
    BY <1>3 DEF IInv, IdsCounted
  <2>14. \A j \in DOMAIN emissions' : Walks(emissions'[j], name', disconnected')
    <3>1. name' = name /\ name \in Seq(Names) /\ disconnected \subseteq disconnected' /\ emissions' = emissions
      BY <1>1, <1>3, <2>3 DEF TypeOK
    <3>2. Len(name) \in Nat
      BY <3>1
    <3> QED
      BY <3>1, <3>2, EmissionsWalkOn
  <2> QED
    BY <2>12, <2>13, <2>14 DEF IInv
<1> QED
  BY <1>2, <1>3 DEF _disconnect

LEMMA DisconnectAllInv ==
    ASSUME IInv, _disconnectAll
    PROVE  IInv'
<1> DEFINE s == _signalConnections
<1>1. TypeOK /\ s \in Seq(Ids) /\ Len(s) \in Nat
  BY DEF IInv, FlagMatchesArray, TypeOK
<1>2. Agrees(s, disconnected, Len(name))
  BY AgreesElementwise DEF IInv, FlagMatchesArray
<1>3. SelectInSeq(s, LAMBDA id : id \in disconnected) = 0
  BY <1>1, <1>2 DEF SelectInSeq, Agrees
<1>4. /\ disconnected' = disconnected \union ToSet(SubSeq(s, 1, Len(s)))
      /\ _signalConnections' = SubSeq(s, Len(s) + 1, Len(s))
      /\ throwing' = FALSE
      /\ UNCHANGED <<_nextConnectionId, name, emissions>>
  BY <1>3 DEF _disconnectAll
<1>5. SubSeq(s, 1, Len(s)) = s
  BY <1>1, SubSeqFull
<1>6. Len(s) + 1 \in Int /\ Len(s) \in Int /\ Len(s) < Len(s) + 1
  BY <1>1
<1>7. _signalConnections' = <<>>
  BY <1>4, <1>6, SubSeqEmpty
<1>8. disconnected' = 1..Len(name)
  BY <1>2, <1>4, <1>5 DEF Agrees, ToSet
<1>9. <<>> \in Seq(Ids) /\ 1..Len(name) \subseteq Ids
  BY <1>1, NamesBounded DEF Ids
<1>10. TypeOK'
  BY <1>1, <1>4, <1>7, <1>8, <1>9 DEF TypeOK
<1>11. FlagMatchesArray'
  BY <1>4, <1>7, <1>8, <1>10 DEF FlagMatchesArray, ToSet
<1>12. IdsCounted'
  BY <1>4 DEF IInv, IdsCounted
<1>13. \A k \in DOMAIN emissions' : Walks(emissions'[k], name', disconnected')
  <2>1. name' = name /\ name \in Seq(Names) /\ disconnected \subseteq disconnected' /\ emissions' = emissions
    BY <1>1, <1>4 DEF TypeOK
  <2>2. Len(name) \in Nat
    BY <2>1
  <2> QED
    BY <2>1, <2>2, EmissionsWalkOn
<1> QED
  BY <1>11, <1>12, <1>13 DEF IInv

(* An emission that starts has all its handlers before it.                 *)
LEMMA SnapshotTaken ==
    ASSUME IInv, NEW n \in Names, NEW at \in Snapshots(n), _nextConnectionId # 0,
           NEW e, e = [name |-> n, handlers |-> [k \in DOMAIN at |-> _signalConnections[at[k]]],
                       i |-> 1, running |-> 0, stopped |-> FALSE,
                       since |-> _nextConnectionId, called |-> {}]
    PROVE  e \in Emissions /\ Walks(e, name, disconnected)
<1> DEFINE s == _signalConnections
           of == {k \in DOMAIN s : name[s[k]] = n}
           c == Cardinality(of)
<1>1. TypeOK /\ s \in Seq(Ids) /\ Len(s) \in Nat /\ DOMAIN s = 1..Len(s)
  BY DEF IInv, FlagMatchesArray, TypeOK
<1>2. Agrees(s, disconnected, Len(name))
  BY AgreesElementwise DEF IInv, FlagMatchesArray
<1>3. at \in [1..c -> of] /\ \A j, k \in 1..c : j < k => at[j] < at[k]
  BY DEF Snapshots
<1>4. IsFiniteSet(of) /\ c \in Nat
  <2>1. IsFiniteSet(1..Len(s)) /\ of \subseteq 1..Len(s)
    BY <1>1, FS_Interval
  <2> QED
    BY <2>1, FS_Subset, FS_CardinalityType
<1> HIDE DEF c
<1>5. at \in Surjection(1..c, of)
  <2>1. \A j, k \in 1..c : at[j] = at[k] => j = k
    <3>1. \A j \in 1..c : at[j] \in Nat
      BY <1>1, <1>3
    <3> QED
      BY <1>3, <1>4, <3>1
  <2>2. at \in Injection(1..c, of)
    BY <1>3, <2>1 DEF Injection, IsInjective
  <2>3. Cardinality(1..c) = c
    BY <1>4, FS_Interval
  <2>4. Cardinality(1..c) = Cardinality(of) <=> at \in Surjection(1..c, of)
    BY <1>4, <2>2, FS_Injection
  <2> QED
    BY <2>3, <2>4 DEF c
<1>6. \A k \in of : \E j \in 1..c : at[j] = k
  BY <1>5 DEF Surjection
<1>7. e.handlers = [k \in 1..c |-> s[at[k]]] /\ DOMAIN e.handlers = 1..c
  BY <1>3
<1>8. e.handlers \in Seq(Ids) /\ Len(e.handlers) = c
  <2>1. \A k \in 1..c : s[at[k]] \in Ids
    BY <1>1, <1>3
  <2> QED
    BY <1>4, <1>7, <2>1, IsASeq
<1>9. _nextConnectionId = Len(name) + 1 /\ Len(name) \in 0..MaxId /\ MaxId \in Nat
  BY NamesBounded
<1>10. e.since = Len(name) + 1 /\ e.since \in 1..(MaxId + 1)
  BY <1>9
<1>11. e \in Emissions
  BY <1>8, <1>10 DEF Emissions
<1>12. Snapshot(e, name, disconnected)
  <2>1. \A j \in 1..c : at[j] \in DOMAIN s /\ name[s[at[j]]] = n
    BY <1>3
  <2>2. \A j \in DOMAIN e.handlers : e.handlers[j] < e.since /\ name[e.handlers[j]] = e.name
    BY <1>2, <1>7, <1>9, <1>10, <2>1 DEF Agrees
  <2>3. \A j, k \in DOMAIN e.handlers : j < k => e.handlers[j] < e.handlers[k]
    BY <1>2, <1>3, <1>7, <2>1 DEF Agrees
  <2>4. ASSUME NEW id \in 1..(e.since - 1), name[id] = e.name, id \notin disconnected
        PROVE  \E j \in DOMAIN e.handlers : e.handlers[j] = id
    <3>1. PICK k \in DOMAIN s : s[k] = id
      BY <1>2, <1>9, <1>10, <2>4 DEF Agrees
    <3>2. k \in of
      BY <2>4, <3>1
    <3>3. PICK j \in 1..c : at[j] = k
      BY <1>6, <3>2
    <3> QED
      BY <1>7, <3>1, <3>3
  <2>5. e.since <= Len(name) + 1
    BY <1>9, <1>10
  <2> QED
    BY <2>2, <2>3, <2>4, <2>5 DEF Snapshot
<1>13. Called(e, disconnected)
  <2>1. /\ e.i = 1 /\ e.running = 0 /\ e.called = {}
        /\ 1 \in 1..(Len(e.handlers) + 1) /\ \A j \in 1..(1 - 1) : FALSE
    BY <1>4, <1>8
  <2> QED
    BY <2>1 DEF Called
<1> QED
  BY <1>11, <1>12, <1>13 DEF Walks

LEMMA EmitInv ==
    ASSUME IInv, NEW n \in Names, _emit(n)
    PROVE  IInv'
<1> PICK at \in Snapshots(n) :
        emissions' = <<[name |-> n, handlers |-> [k \in DOMAIN at |-> _signalConnections[at[k]]],
                        i |-> 1, running |-> 0, stopped |-> FALSE,
                        since |-> _nextConnectionId, called |-> {}]>>
                     \o emissions
  BY DEF _emit
<1> DEFINE e == [name |-> n, handlers |-> [k \in DOMAIN at |-> _signalConnections[at[k]]],
                 i |-> 1, running |-> 0, stopped |-> FALSE,
                 since |-> _nextConnectionId, called |-> {}]
<1>1. e \in Emissions /\ Walks(e, name, disconnected)
  BY SnapshotTaken DEF _emit
<1>2. emissions' = <<e>> \o emissions /\ UNCHANGED <<table, throwing>>
  BY DEF _emit
<1> HIDE DEF e
<1>3. TypeOK /\ emissions \in Seq(Emissions) /\ Len(emissions) \in Nat
  BY DEF IInv, FlagMatchesArray, TypeOK
<1>4. /\ emissions' \in Seq(Emissions) /\ Len(emissions') = Len(emissions) + 1
      /\ \A k \in 1..(Len(emissions) + 1) :
            emissions'[k] = IF k = 1 THEN e ELSE emissions[k - 1]
  <2>1. /\ <<e>> \o emissions \in Seq(Emissions)
        /\ Len(<<e>> \o emissions) = Len(emissions) + 1
        /\ \A k \in 1..(Len(emissions) + 1) :
              (<<e>> \o emissions)[k] = IF k = 1 THEN e ELSE emissions[k - 1]
    BY <1>1, <1>3, Pushed
  <2> QED
    BY <1>2, <2>1
<1>5. FlagMatchesArray' /\ IdsCounted'
  BY <1>2, <1>3, <1>4 DEF IInv, FlagMatchesArray, TypeOK, IdsCounted, table
<1>6. ASSUME NEW k \in DOMAIN emissions'
      PROVE  Walks(emissions'[k], name, disconnected)
  <2>1. k \in 1..(Len(emissions) + 1)
    BY <1>4
  <2>2. CASE k = 1
    BY <1>1, <1>4, <2>1, <2>2
  <2>3. CASE k # 1
    <3>1. k - 1 \in DOMAIN emissions
      BY <1>3, <2>1, <2>3
    <3> QED
      BY <1>4, <2>1, <2>3, <3>1 DEF IInv
  <2> QED
    BY <2>2, <2>3
<1> QED
  BY <1>2, <1>5, <1>6 DEF IInv, table

(* The innermost emission is replaced by one that walks on.                *)
LEMMA InnerInv ==
    ASSUME IInv, emissions # <<>>, NEW e \in Emissions, Walks(e, name, disconnected),
           Inner(e), UNCHANGED <<table, throwing>>
    PROVE  IInv' /\ Len(emissions') = Len(emissions) /\ Head(emissions') = e
<1>1. TypeOK /\ emissions \in Seq(Emissions) /\ Len(emissions) \in Nat /\ Len(emissions) >= 1
  <2>1. TypeOK
    BY DEF IInv, FlagMatchesArray
  <2> QED
    BY <2>1, EmptySeq DEF TypeOK
<1>2. /\ emissions' \in Seq(Emissions) /\ Len(emissions') = Len(emissions)
      /\ \A k \in 1..Len(emissions) : emissions'[k] = IF k = 1 THEN e ELSE emissions[k]
  BY <1>1, Replaced DEF Inner
<1>3. FlagMatchesArray' /\ IdsCounted'
  BY <1>1, <1>2 DEF IInv, FlagMatchesArray, TypeOK, IdsCounted, table
<1>4. \A k \in DOMAIN emissions' : Walks(emissions'[k], name, disconnected)
  BY <1>1, <1>2 DEF IInv
<1>5. Head(emissions') = e
  BY <1>1, <1>2, HeadTailProperties
<1> QED
  BY <1>2, <1>3, <1>4, <1>5 DEF IInv, table

LEMMA InnermostWalks ==
    ASSUME IInv, emissions # <<>>
    PROVE  Head(emissions) \in Emissions /\ Walks(Head(emissions), name, disconnected)
<1>1. emissions \in Seq(Emissions)
  BY DEF IInv, FlagMatchesArray, TypeOK
<1>2. 1 \in DOMAIN emissions /\ Head(emissions) = emissions[1]
  BY <1>1, EmptySeq
<1> QED
  BY <1>1, <1>2 DEF IInv

LEMMA EmitNextInv ==
    ASSUME IInv, _emit_next
    PROVE  IInv' /\ (Starts => LET e  == Head(emissions)
                                   id == Head(emissions').running
                               IN /\ Contains(_signalConnections, id)
                                  /\ name[id] = e.name
                                  /\ id < e.since
                                  /\ \A c \in e.called : c < id)
<1> DEFINE e == Head(emissions)
           id == e.handlers[e.i]
<1>1. emissions # <<>> /\ e.running = 0 /\ ~LoopEnds(e) /\ UNCHANGED <<table, throwing>>
  BY DEF _emit_next
<1>2. e \in Emissions /\ Walks(e, name, disconnected)
  BY <1>1, InnermostWalks
<1>3. /\ e.handlers \in Seq(Ids) /\ Len(e.handlers) \in Nat /\ e.i \in DOMAIN e.handlers
      /\ id \in Ids /\ id # 0
  <2>1. e.handlers \in Seq(Ids) /\ e.i \in 1..(Len(e.handlers) + 1) /\ ~(e.i > Len(e.handlers))
    BY <1>1, <1>2 DEF Emissions, Walks, Called, LoopEnds
  <2>2. Len(e.handlers) \in Nat /\ e.i \in DOMAIN e.handlers
    BY <2>1
  <2>3. id \in Ids
    BY <2>1, <2>2
  <2> QED
    BY <2>1, <2>2, <2>3, SignalsAssumption DEF Ids
<1>4. CASE Skips(id) /\ Inner([e EXCEPT !.i = @ + 1])
  <2> DEFINE f == [e EXCEPT !.i = @ + 1]
  <2>1. f \in Emissions
    BY <1>2, <1>3 DEF Emissions
  <2>2. /\ f.i = e.i + 1 /\ f.handlers = e.handlers /\ f.called = e.called /\ f.running = 0
        /\ f.since = e.since /\ f.name = e.name
    BY <1>1, <1>2 DEF Emissions
  <2> HIDE DEF f
  <2>3. Snapshot(f, name, disconnected)
    BY <1>2, <2>2 DEF Walks, Snapshot
  <2>4. Called(f, disconnected)
    <3>1. \A j \in 1..(f.i - 1) : j \in 1..(e.i - 1) \/ j = e.i
      BY <1>3, <2>2
    <3>2. \A j \in 1..(e.i - 1) : j \in 1..(f.i - 1)
      BY <1>3, <2>2
    <3> QED
      BY <1>1, <1>2, <1>3, <1>4, <2>2, <3>1, <3>2 DEF Walks, Called, Skips
  <2>5. IInv' /\ Head(emissions') = f
    BY <1>1, <1>4, <2>1, <2>3, <2>4, InnerInv DEF Walks, f
  <2> QED
    BY <2>2, <2>5 DEF Starts
<1>5. CASE ~Skips(id) /\ Inner([e EXCEPT !.running = id, !.called = @ \union {id}])
  <2> DEFINE f == [e EXCEPT !.running = id, !.called = @ \union {id}]
  <2>1. f \in Emissions
    BY <1>2, <1>3 DEF Emissions
  <2>2. /\ f.i = e.i /\ f.handlers = e.handlers /\ f.called = e.called \union {id}
        /\ f.running = id /\ f.since = e.since /\ f.name = e.name
    BY <1>1, <1>2 DEF Emissions
  <2> HIDE DEF f
  <2>3. Snapshot(f, name, disconnected)
    BY <1>2, <2>2 DEF Walks, Snapshot
  <2>4. Called(f, disconnected)
    <3>1. \A j \in 1..(e.i - 1) : j \in 1..e.i
      BY <1>3
    <3>2. e.i \in 1..e.i
      BY <1>3
    <3> QED
      BY <1>1, <1>2, <1>3, <2>2, <3>1, <3>2 DEF Walks, Called
  <2>5. IInv' /\ Head(emissions') = f
    BY <1>1, <1>5, <2>1, <2>3, <2>4, InnerInv DEF Walks, f
  <2>6. id < e.since /\ name[id] = e.name
    BY <1>2, <1>3 DEF Walks, Snapshot
  <2>7. Contains(_signalConnections, id)
    <3>1. Agrees(_signalConnections, disconnected, Len(name)) /\ _signalConnections \in Seq(Ids)
      BY AgreesElementwise DEF IInv, FlagMatchesArray, TypeOK
    <3>2. id \in 1..Len(name)
      <4>1. e.since <= Len(name) + 1 /\ e.since \in Nat /\ Len(name) \in Nat /\ id \in Nat /\ id >= 1
        BY SMTT(30), ZenonT(30), <1>2, <1>3, SignalsAssumption, NamesBounded DEF Walks, Snapshot, Emissions, Ids
      <4> QED
        BY <2>6, <4>1
    <3>3. id \notin disconnected
      BY <1>5 DEF Skips
    <3> QED
      BY SMTT(30), ZenonT(30), <3>1, <3>2, <3>3 DEF Agrees, Contains
  <2>8. ASSUME NEW c \in e.called PROVE c < id
    <3>1. PICK j \in 1..(e.i - 1) : c = e.handlers[j]
      BY <1>1, <1>2 DEF Walks, Called
    <3>2. j \in DOMAIN e.handlers /\ j < e.i
      BY <1>3
    <3> QED
      BY <1>2, <1>3, <3>1, <3>2 DEF Walks, Snapshot
  <2> QED
    BY <2>2, <2>5, <2>6, <2>7, <2>8
<1> QED
  BY <1>4, <1>5 DEF _emit_next

LEMMA CallbackReturnsInv ==
    ASSUME IInv, NEW ret \in BOOLEAN, CallbackReturns(ret)
    PROVE  IInv' /\ Head(emissions').running = 0 /\ Len(emissions') = Len(emissions)
<1> DEFINE e == Head(emissions)
           f == [e EXCEPT !.running = 0, !.i = @ + 1, !.stopped = ret]
<1>1. emissions # <<>> /\ e.running # 0 /\ Inner(f) /\ UNCHANGED <<table, throwing>>
  BY DEF CallbackReturns
<1>2. e \in Emissions /\ Walks(e, name, disconnected)
  BY <1>1, InnermostWalks
<1>3. e.handlers \in Seq(Ids) /\ Len(e.handlers) \in Nat /\ e.i \in DOMAIN e.handlers
  BY <1>1, <1>2 DEF Emissions, Walks, Called
<1>4. f \in Emissions
  <2>1. e.i \in Nat /\ e.i + 1 \in Nat
    BY <1>2 DEF Emissions
  <2> QED
    BY <1>2, <2>1 DEF Emissions
<1>5. /\ f.i = e.i + 1 /\ f.handlers = e.handlers /\ f.called = e.called /\ f.running = 0
      /\ f.since = e.since /\ f.name = e.name
  BY <1>1, <1>2 DEF Emissions
<1> HIDE DEF f
<1>6. Snapshot(f, name, disconnected)
  BY <1>2, <1>5 DEF Walks, Snapshot
<1>7. Called(f, disconnected)
  <2>1. \A j \in 1..(f.i - 1) : j \in 1..(e.i - 1) \/ j = e.i
    BY <1>3, <1>5
  <2>2. f.i - 1 = e.i /\ f.i \in 1..(Len(f.handlers) + 1)
    BY <1>3, <1>5
  <2> QED
    BY <1>1, <1>2, <1>3, <1>5, <2>1, <2>2 DEF Walks, Called
<1> QED
  BY <1>1, <1>4, <1>5, <1>6, <1>7, InnerInv DEF Walks

(* emit ends, by itself or by an exception.                                *)
LEMMA EndsInv ==
    ASSUME IInv, emissions # <<>>, emissions' = Tail(emissions), UNCHANGED <<table, throwing>>
    PROVE  IInv' /\ Len(emissions') < Len(emissions)
<1>1. TypeOK /\ emissions \in Seq(Emissions) /\ Len(emissions) \in Nat /\ Len(emissions) >= 1
  <2>1. TypeOK
    BY DEF IInv, FlagMatchesArray
  <2> QED
    BY <2>1, EmptySeq DEF TypeOK
<1>2. /\ emissions' \in Seq(Emissions) /\ Len(emissions') = Len(emissions) - 1
      /\ \A k \in 1..(Len(emissions) - 1) : emissions'[k] = emissions[k + 1]
  BY <1>1, HeadTailProperties
<1>3. FlagMatchesArray' /\ IdsCounted'
  BY <1>1, <1>2 DEF IInv, FlagMatchesArray, TypeOK, IdsCounted, table
<1>4. ASSUME NEW k \in DOMAIN emissions' PROVE Walks(emissions'[k], name, disconnected)
  <2>1. k \in 1..(Len(emissions) - 1) /\ k + 1 \in DOMAIN emissions
    BY <1>1, <1>2
  <2> QED
    BY <1>2, <2>1 DEF IInv
<1> QED
  BY <1>1, <1>2, <1>3, <1>4 DEF IInv, table

(* An emission whose loop ends has called all it had to.                   *)
LEMMA ReturnsDone ==
    ASSUME IInv, _emit_return
    PROVE  Done(Head(emissions))
<1> DEFINE e == Head(emissions)
<1>1. emissions # <<>> /\ e.running = 0 /\ LoopEnds(e)
  BY DEF _emit_return
<1>2. e \in Emissions /\ Walks(e, name, disconnected)
  BY <1>1, InnermostWalks
<1>3. CASE e.i > Len(e.handlers)
  <2>1. e.handlers \in Seq(Ids) /\ Len(e.handlers) \in Nat /\ e.i = Len(e.handlers) + 1
    BY <1>2, <1>3 DEF Walks, Called, Emissions
  <2>2. \A j \in DOMAIN e.handlers : j \in 1..(e.i - 1)
    BY <2>1
  <2> QED
    BY <1>2, <2>2 DEF Done, Walks, Called, Snapshot
<1> QED
  BY <1>1, <1>3 DEF LoopEnds, Done

-----------------------------------------------------------------------------
(* What the steps do to the stack of emissions.                            *)
LEMMA Step ==
    ASSUME IInv, [Next]_vars
    PROVE  /\ IInv'
           /\ Starts => LET e  == Head(emissions)
                            id == Head(emissions').running
                        IN /\ Contains(_signalConnections, id)
                           /\ name[id] = e.name
                           /\ id < e.since
                           /\ \A c \in e.called : c < id
           /\ Len(emissions') < Len(emissions) /\ ~throwing => Done(Head(emissions))
<1>1. emissions \in Seq(Emissions) /\ Len(emissions) \in Nat
  BY DEF IInv, FlagMatchesArray, TypeOK
<1>2. CASE emissions' = emissions /\ IInv'
  BY <1>1, <1>2 DEF Starts
<1>3. ASSUME NEW n \in Names, _connect(n) PROVE IInv' /\ emissions' = emissions
  BY <1>3, ConnectInv DEF _connect
<1>4. ASSUME NEW id \in Ids, _disconnect(id) PROVE IInv' /\ emissions' = emissions
  BY <1>4, DisconnectInv DEF _disconnect
<1>5. ASSUME _disconnectAll PROVE IInv' /\ emissions' = emissions
  BY <1>5, DisconnectAllInv DEF _disconnectAll
<1>6. ASSUME NEW n \in Names, _emit(n)
      PROVE  IInv' /\ Len(emissions') = Len(emissions) + 1
  <2>1. IInv'
    BY <1>6, EmitInv
  <2>2. PICK f : emissions' = <<f>> \o emissions
    BY <1>6 DEF _emit
  <2>3. Len(emissions') = Len(<<f>>) + Len(emissions)
    <3>1. <<f>> \in Seq(Emissions \union {f}) /\ emissions \in Seq(Emissions \union {f})
      BY <1>1
    <3> QED
      BY <2>2, <3>1, ConcatProperties
  <2> QED
    BY <1>1, <2>1, <2>3
<1>7. ASSUME _emit_next PROVE Len(emissions') = Len(emissions)
  <2>1. emissions # <<>> /\ \E f : Inner(f)
    BY <1>7 DEF _emit_next
  <2>2. PICK f : emissions' = <<f>> \o Tail(emissions)
    BY <2>1 DEF Inner
  <2>3. emissions \in Seq(Emissions \union {f})
    BY <1>1
  <2> QED
    BY <2>1, <2>2, <2>3, Replaced
<1>8. ASSUME CallbackThrows \/ Handled PROVE IInv' /\ emissions' = emissions
  BY <1>8 DEF CallbackThrows, Handled, IInv, FlagMatchesArray, TypeOK, IdsCounted, table
<1>9. ASSUME UNCHANGED vars PROVE IInv' /\ emissions' = emissions
  BY <1>9 DEF vars, IInv, FlagMatchesArray, TypeOK, IdsCounted, table
<1>10. CASE \E n \in Names : _emit(n)
  BY <1>1, <1>6, <1>10 DEF Starts
<1>11. CASE _emit_next
  BY <1>1, <1>7, <1>11, EmitNextInv
<1>12. CASE \E ret \in BOOLEAN : CallbackReturns(ret)
  BY <1>1, <1>12, CallbackReturnsInv DEF Starts
<1>13. CASE _emit_return
  <2>1. emissions # <<>> /\ emissions' = Tail(emissions) /\ UNCHANGED <<table, throwing>>
    BY <1>13 DEF _emit_return
  <2>2. IInv' /\ Len(emissions') < Len(emissions)
    BY <2>1, EndsInv
  <2>3. Len(emissions') # Len(emissions)
    BY <1>1, <2>1, <2>2, HeadTailProperties
  <2> QED
    BY <1>13, <2>2, <2>3, ReturnsDone DEF Starts
<1>14. CASE _emit_catch
  <2>1. emissions # <<>> /\ emissions' = Tail(emissions) /\ UNCHANGED <<table, throwing>> /\ throwing
    BY <1>14 DEF _emit_catch
  <2>2. IInv' /\ Len(emissions') < Len(emissions)
    BY <2>1, EndsInv
  <2>3. Len(emissions') # Len(emissions)
    BY <1>1, <2>1, <2>2, HeadTailProperties
  <2> QED
    BY <2>1, <2>2, <2>3 DEF Starts
<1> QED
  BY <1>2, <1>3, <1>4, <1>5, <1>8, <1>9, <1>10, <1>11, <1>12, <1>13, <1>14 DEF Next

(* The connection table of every emitter is consistent in every state: the *)
(* array holds each connection that was made and not disconnected, once,   *)
(* in the order of the calls.                                              *)
THEOREM FlagsAndArrayAgree == Spec => []FlagMatchesArray
<1>1. IInv /\ [Next]_vars => IInv'
  BY Step
<1>2. IInv => FlagMatchesArray
  BY DEF IInv
<1> QED
  BY InitInv, <1>1, <1>2, PTL DEF Spec

(* A callback starts only while its connection stands, in the order of     *)
(* connection and once, and only if it was connected before the emission.  *)
THEOREM OnlyConnectedCalled == Spec => CallsOnlyConnected
<1>1. IInv /\ [Next]_vars => IInv'
  BY Step
<1>2. IInv /\ [Next]_vars =>
        [Starts => LET e  == Head(emissions)
                       id == Head(emissions').running
                   IN /\ Contains(_signalConnections, id)
                      /\ name[id] = e.name
                      /\ id < e.since
                      /\ \A c \in e.called : c < id]_vars
  BY Step
<1> QED
  BY InitInv, <1>1, <1>2, PTL DEF Spec, CallsOnlyConnected

(* An emission that returns has called every callback connected before it  *)
(* for its signal, but for those disconnected meanwhile, unless one of     *)
(* them stopped it.                                                        *)
THEOREM EmissionsComplete == Spec => EmissionComplete
<1>1. IInv /\ [Next]_vars => IInv'
  BY Step
<1>2. IInv /\ [Next]_vars =>
        [Len(emissions') < Len(emissions) /\ ~throwing => Done(Head(emissions))]_vars
  BY Step
<1> QED
  BY InitInv, <1>1, <1>2, PTL DEF Spec, EmissionComplete

-----------------------------------------------------------------------------
(* Lang.                                                                   *)
Fields == {"owner", "name", "wrapped", "prev", "via", "caught"}

(* The stack is a sequence of calls.                                       *)
LangTypeOK ==
    /\ \E S : stack \in Seq(S)
    /\ \A k \in DOMAIN stack :
        /\ stack[k] = [x \in Fields |-> stack[k][x]]
        /\ stack[k].wrapped \in BOOLEAN /\ stack[k].caught \in BOOLEAN

Wrapper(f) == [owner |-> f.owner, name |-> f.name]

(* The k-th call relies on its wrapper being in __caller__ when it runs.   *)
Relies(k) == stack[k].wrapped /\ ~stack[k].caught

(* The next wrapper above the k-th call remembers that it found it there;  *)
(* if there is none, it is there now.                                      *)
Remembered ==
    \A k \in DOMAIN stack : Relies(k) =>
        /\ \A l \in k + 1..Len(stack) :
                stack[l].wrapped /\ (\A j \in k + 1..l - 1 : ~stack[j].wrapped)
                => stack[l].prev = Wrapper(stack[k])
        /\ (\A j \in k + 1..Len(stack) : ~stack[j].wrapped) => caller = Wrapper(stack[k])

(* Only an object has methods that run.                                    *)
Idle == object = 0 => stack = << >>

LangInv == LangTypeOK /\ Remembered /\ Idle

LEMMA Holds == LangInv => CallerIsRunning
<1> SUFFICES ASSUME LangInv, stack # << >>, Top.wrapped, ~Top.caught
             PROVE  caller = [owner |-> Top.owner, name |-> Top.name]
  BY DEF CallerIsRunning
<1>1. PICK S : stack \in Seq(S)
  BY DEF LangInv, LangTypeOK
<1> DEFINE k == Len(stack)
<1>2. k \in DOMAIN stack /\ k \in Nat
  BY <1>1, EmptySeq
<1>3. \A j \in k + 1..Len(stack) : ~stack[j].wrapped
  BY <1>2
<1>4. Relies(k)
  BY DEF Relies, Top
<1>5. caller = Wrapper(stack[k])
  <2> HIDE DEF k
  <2> QED
    BY <1>2, <1>3, <1>4 DEF LangInv, Remembered
<1> QED
  BY <1>5 DEF Wrapper, Top

-----------------------------------------------------------------------------
(* A call enters: wrapFunction remembers __caller__ and puts itself there. *)
LEMMA EntersStep ==
    ASSUME LangInv, NEW c, NEW n, NEW via, Enters(c, n, via), object # 0, object' = object
    PROVE  LangInv'
<1> DEFINE wrapped == Value(classes, c, n) = "wrapped"
           f == [owner |-> Found(classes, c, n), name |-> n, wrapped |-> wrapped,
                 prev |-> caller, via |-> via, caught |-> FALSE]
<1>1. stack' = Append(stack, f) /\ caller' = (IF wrapped THEN Wrapper(f) ELSE caller)
  BY DEF Enters, Wrapper
<1>2. /\ f.wrapped = wrapped /\ f.prev = caller /\ f.caught = FALSE /\ wrapped \in BOOLEAN
      /\ f = [x \in Fields |-> f[x]]
  BY DEF Fields
<1> HIDE DEF f, wrapped
<1>3. PICK S : stack \in Seq(S)
  BY DEF LangInv, LangTypeOK
<1>4. /\ stack' \in Seq(S \union {f}) /\ Len(stack') = Len(stack) + 1 /\ Len(stack) \in Nat
      /\ DOMAIN stack' = 1..Len(stack) + 1 /\ DOMAIN stack = 1..Len(stack)
      /\ \A k \in 1..Len(stack) : stack'[k] = stack[k]
      /\ stack'[Len(stack) + 1] = f
  <2>1. stack \in Seq(S \union {f})
    BY <1>3, SeqMonotonic
  <2> QED
    BY <1>1, <2>1, AppendProperties
<1>5. LangTypeOK'
  <2>1. \E T : stack' \in Seq(T)
    BY <1>4
  <2>2. ASSUME NEW k \in DOMAIN stack'
        PROVE  /\ stack'[k] = [x \in Fields |-> stack'[k][x]]
               /\ stack'[k].wrapped \in BOOLEAN /\ stack'[k].caught \in BOOLEAN
    <3>1. CASE k \in DOMAIN stack
      BY <1>4, <3>1 DEF LangInv, LangTypeOK
    <3>2. CASE k = Len(stack) + 1
      BY <1>2, <1>4, <3>2
    <3> QED
      BY <1>4, <3>1, <3>2
  <2> QED
    BY <2>1, <2>2 DEF LangTypeOK
<1>6. Remembered'
  <2> SUFFICES ASSUME NEW k \in 1..Len(stack) + 1, stack'[k].wrapped, ~stack'[k].caught
               PROVE  /\ \A l \in k + 1..Len(stack) + 1 :
                            stack'[l].wrapped /\ (\A j \in k + 1..l - 1 : ~stack'[j].wrapped)
                            => stack'[l].prev = Wrapper(stack'[k])
                      /\ (\A j \in k + 1..Len(stack) + 1 : ~stack'[j].wrapped)
                            => caller' = Wrapper(stack'[k])
    BY <1>4 DEF Remembered, Relies, Wrapper
  <2>1. CASE k = Len(stack) + 1
    BY <1>1, <1>2, <1>4, <2>1
  <2>2. CASE k \in 1..Len(stack)
    <3>1. /\ \A l \in k + 1..Len(stack) :
                stack[l].wrapped /\ (\A j \in k + 1..l - 1 : ~stack[j].wrapped)
                => stack[l].prev = Wrapper(stack[k])
          /\ (\A j \in k + 1..Len(stack) : ~stack[j].wrapped) => caller = Wrapper(stack[k])
      BY <1>4, <2>2 DEF LangInv, Remembered, Relies
    <3>2. ASSUME NEW l \in k + 1..Len(stack) + 1,
                 stack'[l].wrapped, \A j \in k + 1..l - 1 : ~stack'[j].wrapped
          PROVE  stack'[l].prev = Wrapper(stack'[k])
      <4>1. \A j \in k + 1..l - 1 : j \in 1..Len(stack) /\ ~stack[j].wrapped
        BY <1>4, <2>2, <3>2
      <4>2. CASE l = Len(stack) + 1
        BY <1>2, <1>4, <2>2, <3>1, <4>1, <4>2
      <4>3. CASE l # Len(stack) + 1
        BY <1>4, <2>2, <3>1, <3>2, <4>1, <4>3
      <4> QED
        BY <4>2, <4>3
    <3>3. ASSUME \A j \in k + 1..Len(stack) + 1 : ~stack'[j].wrapped
          PROVE  caller' = Wrapper(stack'[k])
      <4>1. /\ ~stack'[Len(stack) + 1].wrapped
            /\ \A j \in k + 1..Len(stack) : j \in 1..Len(stack) /\ ~stack'[j].wrapped
        BY <1>4, <2>2, <3>3
      <4> QED
        BY <1>1, <1>2, <1>4, <2>2, <3>1, <4>1
    <3> QED
      BY <3>2, <3>3
  <2> QED
    BY <2>1, <2>2
<1> QED
  BY <1>5, <1>6 DEF LangInv, Idle

(* A call returns: its wrapper puts back what it remembers.                *)
LEMMA ReturnsStep ==
    ASSUME LangInv, Returns PROVE LangInv'
<1> DEFINE n == Len(stack)
<1>1. stack # << >> /\ caller' = Restored(stack[n]) /\ stack' = SubSeq(stack, 1, n - 1)
  BY DEF Returns, Top, Front
<1>2. PICK S : stack \in Seq(S)
  BY DEF LangInv, LangTypeOK
<1>3. n \in Nat \ {0} /\ DOMAIN stack = 1..n
  BY <1>1, <1>2, EmptySeq
<1>4. /\ stack' \in Seq(S) /\ Len(stack') = n - 1 /\ DOMAIN stack' = 1..n - 1
      /\ \A k \in 1..n - 1 : stack'[k] = stack[k]
  BY <1>1, <1>2, <1>3
<1>5. LangTypeOK'
  <2>1. \E T : stack' \in Seq(T)
    BY <1>4
  <2>2. \A k \in DOMAIN stack' : k \in DOMAIN stack /\ stack'[k] = stack[k]
    BY <1>3, <1>4
  <2> QED
    BY <2>1, <2>2 DEF LangInv, LangTypeOK
<1> HIDE DEF n
<1>6. Remembered'
  <2> SUFFICES ASSUME NEW k \in 1..n - 1, stack'[k].wrapped, ~stack'[k].caught
               PROVE  /\ \A l \in k + 1..n - 1 :
                            stack'[l].wrapped /\ (\A j \in k + 1..l - 1 : ~stack'[j].wrapped)
                            => stack'[l].prev = Wrapper(stack'[k])
                      /\ (\A j \in k + 1..n - 1 : ~stack'[j].wrapped)
                            => caller' = Wrapper(stack'[k])
    BY <1>4 DEF Remembered, Relies, Wrapper
  <2>1. /\ \A l \in k + 1..n :
                stack[l].wrapped /\ (\A j \in k + 1..l - 1 : ~stack[j].wrapped)
                => stack[l].prev = Wrapper(stack[k])
        /\ (\A j \in k + 1..n : ~stack[j].wrapped) => caller = Wrapper(stack[k])
    BY <1>3, <1>4 DEF LangInv, Remembered, Relies, n
  <2>2. ASSUME NEW l \in k + 1..n - 1,
               stack'[l].wrapped, \A j \in k + 1..l - 1 : ~stack'[j].wrapped
        PROVE  stack'[l].prev = Wrapper(stack'[k])
    <3>1. \A j \in k + 1..l - 1 : j \in 1..n - 1 /\ ~stack[j].wrapped
      BY <1>3, <1>4, <2>2
    <3> QED
      BY <1>3, <1>4, <2>1, <2>2, <3>1
  <2>3. ASSUME \A j \in k + 1..n - 1 : ~stack'[j].wrapped
        PROVE  caller' = Wrapper(stack'[k])
    <3>1. \A j \in k + 1..n - 1 : j \in 1..n - 1 /\ ~stack[j].wrapped
      BY <1>3, <1>4, <2>3
    <3>2. CASE stack[n].wrapped
      <4>1. stack[n].prev = Wrapper(stack[k])
        BY <1>3, <2>1, <3>1, <3>2
      <4> QED
        BY <1>1, <1>4, <3>2, <4>1 DEF Restored, n
    <3>3. CASE ~stack[n].wrapped
      <4>1. \A j \in k + 1..n : ~stack[j].wrapped
        BY <1>3, <3>1, <3>3
      <4> QED
        BY <1>1, <1>4, <2>1, <3>3, <4>1 DEF Restored, n
    <3> QED
      BY <3>2, <3>3
  <2> QED
    BY <2>2, <2>3
<1>7. Idle'
  BY <1>1 DEF LangInv, Idle, Returns
<1> QED
  BY <1>5, <1>6, <1>7 DEF LangInv

(* An exception ends the calls above the k-th: no wrapper puts anything    *)
(* back, and the calls that this concerns have caught it.                  *)
LEMMA RaisedStep ==
    ASSUME LangInv, NEW k \in 0..Len(stack), RaisedTo(k), object' = object
    PROVE  LangInv'
<1> DEFINE Catches(i) == \A l \in i + 1..k : ~stack[l].wrapped
           After(i) == IF Catches(i) THEN [stack[i] EXCEPT !.caught = TRUE] ELSE stack[i]
<1>1. stack' = [i \in 1..k |-> After(i)] /\ caller' = caller
  BY DEF RaisedTo
<1>2. PICK S : stack \in Seq(S)
  BY DEF LangInv, LangTypeOK
<1>3. Len(stack) \in Nat /\ DOMAIN stack = 1..Len(stack) /\ k \in Nat
  BY <1>2
<1>4. ASSUME NEW i \in 1..k
      PROVE  /\ stack'[i] = [x \in Fields |-> stack'[i][x]]
             /\ stack'[i].wrapped = stack[i].wrapped /\ stack'[i].prev = stack[i].prev
             /\ Wrapper(stack'[i]) = Wrapper(stack[i])
             /\ stack'[i].caught = (stack[i].caught \/ Catches(i))
             /\ stack'[i].wrapped \in BOOLEAN /\ stack'[i].caught \in BOOLEAN
  <2>1. /\ stack[i] = [x \in Fields |-> stack[i][x]]
        /\ stack[i].wrapped \in BOOLEAN /\ stack[i].caught \in BOOLEAN
    BY <1>3 DEF LangInv, LangTypeOK
  <2>2. stack'[i] = After(i)
    BY <1>1
  <2>3. CASE Catches(i)
    <3>1. stack'[i] = [x \in Fields |-> IF x = "caught" THEN TRUE ELSE stack[i][x]]
      BY <2>1, <2>2, <2>3
    <3> HIDE DEF Catches
    <3> QED
      BY <2>1, <2>3, <3>1 DEF Fields, Wrapper
  <2>4. CASE ~Catches(i)
    <3>1. stack'[i] = stack[i]
      BY <2>2, <2>4
    <3> HIDE DEF Catches
    <3> QED
      BY <2>1, <2>4, <3>1
  <2> QED
    BY <2>3, <2>4
<1>5. DOMAIN stack' = 1..k /\ Len(stack') = k /\ \E T : stack' \in Seq(T)
  <2> DEFINE T == {After(i) : i \in 1..k}
  <2>1. stack' \in [1..k -> T]
    BY <1>1
  <2>2. stack' \in Seq(T)
    <3> HIDE DEF T
    <3> QED
      BY <1>3, <2>1
  <2>3. DOMAIN stack' = 1..k
    BY <1>1
  <2> HIDE DEF T
  <2> QED
    BY <1>3, <2>2, <2>3
<1>6. LangTypeOK'
  BY <1>4, <1>5 DEF LangTypeOK
<1>7. /\ \A i \in 1..k : /\ stack'[i].wrapped = stack[i].wrapped
                         /\ stack'[i].prev = stack[i].prev
      /\ \A i \in 1..k : ~stack'[i].caught => ~stack[i].caught /\ ~Catches(i)
      /\ \A i \in 1..k : Wrapper(stack'[i]) = Wrapper(stack[i])
  <2> HIDE DEF Catches, After
  <2> QED
    BY <1>4
<1>8. Remembered'
  <2> SUFFICES ASSUME NEW i \in 1..k, stack'[i].wrapped, ~stack'[i].caught
               PROVE  /\ \A l \in i + 1..k :
                            stack'[l].wrapped /\ (\A j \in i + 1..l - 1 : ~stack'[j].wrapped)
                            => stack'[l].prev = Wrapper(stack'[i])
                      /\ (\A j \in i + 1..k : ~stack'[j].wrapped)
                            => caller' = Wrapper(stack'[i])
    BY <1>5 DEF Remembered, Relies, Wrapper
  <2>1. /\ stack[i].wrapped /\ ~stack[i].caught /\ ~Catches(i)
        /\ Wrapper(stack'[i]) = Wrapper(stack[i])
    BY <1>7
  <2>2. ~(\A j \in i + 1..k : ~stack'[j].wrapped)
    <3>1. PICK l \in i + 1..k : stack[l].wrapped
      BY <2>1
    <3>2. l \in 1..k /\ stack'[l].wrapped
      BY <1>3, <1>7, <3>1
    <3> QED
      BY <3>1, <3>2
  <2>3. ASSUME NEW l \in i + 1..k,
               stack'[l].wrapped, \A j \in i + 1..l - 1 : ~stack'[j].wrapped
        PROVE  stack'[l].prev = Wrapper(stack'[i])
    <3>1. l \in i + 1..Len(stack) /\ stack[l].wrapped /\ stack'[l].prev = stack[l].prev
      <4>1. l \in 1..k /\ k <= Len(stack)
        BY <1>3
      <4> QED
        BY <1>3, <1>7, <2>3, <4>1
    <3>2. \A j \in i + 1..l - 1 : ~stack[j].wrapped
      <4>1. \A j \in i + 1..l - 1 : j \in 1..k
        BY <1>3
      <4> QED
        BY <1>7, <2>3, <4>1
    <3>3. stack[l].prev = Wrapper(stack[i])
      BY <1>3, <2>1, <3>1, <3>2 DEF LangInv, Remembered, Relies
    <3> QED
      BY <2>1, <3>1, <3>3
  <2> QED
    BY <2>2, <2>3
<1>9. Idle'
  <2>1. CASE object = 0
    BY <1>3, <1>5, <2>1, EmptySeq DEF LangInv, Idle
  <2>2. CASE object # 0
    BY <2>2 DEF Idle
  <2> QED
    BY <2>1, <2>2
<1> QED
  BY <1>6, <1>8, <1>9 DEF LangInv

-----------------------------------------------------------------------------
LEMMA InitLangInv == LangInit => LangInv
<1> SUFFICES ASSUME LangInit PROVE LangInv
  OBVIOUS
<1>1. stack = << >> /\ stack \in Seq({}) /\ DOMAIN stack = {}
  BY EmptySeq DEF LangInit
<1> QED
  BY <1>1 DEF LangInv, LangTypeOK, Remembered, Idle

LEMMA NextLangInv == LangInv /\ [LangNext]_langVars => LangInv'
<1> SUFFICES ASSUME LangInv, [LangNext]_langVars PROVE LangInv'
  OBVIOUS
<1>1. ASSUME UNCHANGED stack, stack = << >> \/ UNCHANGED <<object, caller>> PROVE LangInv'
  <2>1. LangTypeOK'
    BY <1>1 DEF LangInv, LangTypeOK
  <2>2. Remembered'
    BY <1>1, EmptySeq DEF LangInv, Remembered, Relies, Wrapper
  <2>3. Idle'
    BY <1>1 DEF LangInv, Idle
  <2> QED
    BY <2>1, <2>2, <2>3 DEF LangInv
<1>2. ASSUME NEW d \in Definitions, NEW p \in 0..Len(classes), Class(d, p) PROVE LangInv'
  BY <1>1, <1>2 DEF Class
<1>3. ASSUME NEW c \in DOMAIN classes, New(c) PROVE LangInv'
  BY <1>1, <1>3 DEF New, LangInv, Idle
<1>4. ASSUME NEW n \in Methods, Calls(n) PROVE LangInv'
  BY <1>4, EntersStep, RaisedStep DEF Calls, Raises
<1>5. CASE _parent
  BY <1>5, EntersStep, RaisedStep DEF _parent, Raises, LangInv, Idle
<1>6. CASE Returns
  BY <1>6, ReturnsStep
<1>7. CASE Throws
  <2>1. PICK S : stack \in Seq(S)
    BY DEF LangInv, LangTypeOK
  <2>2. PICK k \in 0..Len(stack) - 1 : RaisedTo(k)
    BY <1>7 DEF Throws
  <2>3. k \in 0..Len(stack)
    BY <2>1, <2>2
  <2> QED
    BY <1>7, <2>2, <2>3, RaisedStep DEF Throws
<1>8. CASE UNCHANGED langVars
  BY <1>1, <1>8 DEF langVars
<1> QED
  BY <1>2, <1>3, <1>4, <1>5, <1>6, <1>7, <1>8 DEF LangNext

(* lang.js: whatever the classes, the calls in each other and what they    *)
(* throw and catch, __caller__ is the wrapper of the method that runs.     *)
THEOREM CallerIsTheWrapper == LangSpec => []CallerIsRunning
<1> QED
  BY InitLangInv, NextLangInv, Holds, PTL DEF LangSpec

-----------------------------------------------------------------------------
(* The classes.  A class is defined after its parent.                      *)
Ordered(cs) == Len(cs) \in Nat /\ \A c \in 1..Len(cs) : cs[c].parent \in 0..c - 1

(* The prototype chain is what its recursive definition says: the smallest *)
(* set that has the class and the parent of each of its classes is one     *)
(* function for which the equation holds, and Line is such a function.     *)
LEMMA LineUnfolds ==
    ASSUME NEW cs, Ordered(cs)
    PROVE  \A c \in 0..Len(cs) :
                Line(cs)[c] = IF c = 0 THEN {} ELSE {c} \union Line(cs)[cs[c].parent]
<1> DEFINE N == Len(cs)
           Closed(c, S) == /\ c # 0 => c \in S
                           /\ \A d \in S : cs[d].parent # 0 => cs[d].parent \in S
           Chain(c) == {d \in 1..N : \A S \in SUBSET (1..N) : Closed(c, S) => d \in S}
           chain == [c \in 0..N |-> Chain(c)]
           Up(f) == [c \in 0..N |-> IF c = 0 THEN {} ELSE {c} \union f[cs[c].parent]]
<1>1. N \in Nat /\ \A c \in 1..N : cs[c].parent \in 0..c - 1 /\ cs[c].parent \in 0..N
  BY DEF Ordered
<1>2. Chain(0) = {}
  <2>1. {} \in SUBSET (1..N) /\ Closed(0, {})
    OBVIOUS
  <2> QED
    BY <2>1
<1>3. ASSUME NEW c \in 1..N PROVE Chain(c) = {c} \union Chain(cs[c].parent)
  <2> DEFINE p == cs[c].parent
  <2>1. Chain(c) \subseteq {c} \union Chain(p)
    <3>1. Closed(c, {c} \union Chain(p))
      <4>1. ASSUME NEW d \in Chain(p), cs[d].parent # 0 PROVE cs[d].parent \in Chain(p)
        <5>1. d \in 1..N /\ cs[d].parent \in 1..N
          BY <1>1, <4>1
        <5>2. ASSUME NEW S \in SUBSET (1..N), Closed(p, S) PROVE cs[d].parent \in S
          BY <4>1, <5>2
        <5> QED
          BY <5>1, <5>2
      <4>2. p # 0 => p \in Chain(p)
        BY <1>1
      <4> QED
        BY <4>1, <4>2
    <3>2. {c} \union Chain(p) \in SUBSET (1..N)
      OBVIOUS
    <3> HIDE DEF Closed
    <3> QED
      BY <3>1, <3>2
  <2>2. ASSUME NEW S \in SUBSET (1..N), Closed(c, S) PROVE c \in S /\ Closed(p, S)
    BY <2>2
  <2>3. {c} \union Chain(p) \subseteq Chain(c)
    <3> HIDE DEF Closed
    <3> QED
      BY <2>2
  <2> QED
    BY <2>1, <2>3
<1>4. chain = Up(chain)
  <2> HIDE DEF Chain
  <2> QED
    BY <1>1, <1>2, <1>3
<1>5. Line(cs) = CHOOSE f : f = Up(f)
  BY DEF Line
<1>6. Line(cs) = Up(Line(cs))
  <2> HIDE DEF chain, Up
  <2> QED
    BY <1>4, <1>5
<1> QED
  <2> HIDE DEF N
  <2>1. \A c \in 0..N : Up(Line(cs))[c] = IF c = 0 THEN {} ELSE {c} \union Line(cs)[cs[c].parent]
    OBVIOUS
  <2> HIDE DEF Up
  <2> QED
    BY <1>6, <2>1 DEF N

LEMMA LineAbove ==
    ASSUME NEW cs, Ordered(cs), NEW c \in 1..Len(cs)
    PROVE  Line(cs)[c] = {c} \union Line(cs)[cs[c].parent]
<1>1. c \in 0..Len(cs) /\ c # 0
  BY DEF Ordered
<1> QED
  BY ONLY Ordered(cs), <1>1, LineUnfolds

LEMMA LineEnds ==
    ASSUME NEW cs, Ordered(cs)
    PROVE  Line(cs)[0] = {}
<1>1. 0 \in 0..Len(cs)
  BY DEF Ordered
<1> QED
  BY ONLY Ordered(cs), <1>1, LineUnfolds

(* It goes from a class to classes that were defined before.               *)
LEMMA LineGoesUp ==
    ASSUME NEW cs, Ordered(cs), NEW c \in 0..Len(cs)
    PROVE  Line(cs)[c] \subseteq 1..c
<1> DEFINE Bad == {d \in 0..Len(cs) : ~(Line(cs)[d] \subseteq 1..d)}
<1>1. SUFFICES ASSUME Bad # {} PROVE FALSE
  OBVIOUS
<1>2. Len(cs) \in Nat /\ \A d \in 1..Len(cs) : cs[d].parent \in 0..d - 1
  BY DEF Ordered
<1>3. PICK d \in Bad : \A e \in Bad : d <= e
  <2>1. Bad \in SUBSET Nat
    BY <1>2
  <2> HIDE DEF Bad
  <2> QED
    BY <1>1, <2>1, LeastNumber
<1>4. d \in 0..Len(cs) /\ ~(Line(cs)[d] \subseteq 1..d)
  OBVIOUS
<1>5. d # 0 /\ Line(cs)[d] = {d} \union Line(cs)[cs[d].parent]
  BY <1>4, LineUnfolds
<1>6. cs[d].parent \in 0..d - 1 /\ cs[d].parent \in 0..Len(cs)
  BY <1>2, <1>4, <1>5
<1>7. Line(cs)[cs[d].parent] \subseteq 1..cs[d].parent
  BY <1>3, <1>6
<1> QED
  BY <1>4, <1>5, <1>6, <1>7

(* Defining another class leaves the chains of those there are.            *)
LEMMA LineStays ==
    ASSUME NEW cs, NEW with, Ordered(cs), Ordered(with), Len(cs) <= Len(with),
           \A d \in 1..Len(cs) : with[d].parent = cs[d].parent,
           NEW c \in 0..Len(cs)
    PROVE  Line(with)[c] = Line(cs)[c]
<1> DEFINE Bad == {d \in 0..Len(cs) : Line(with)[d] # Line(cs)[d]}
<1>1. SUFFICES ASSUME Bad # {} PROVE FALSE
  OBVIOUS
<1>2. /\ Len(cs) \in Nat /\ Len(with) \in Nat /\ 0..Len(cs) \subseteq 0..Len(with)
      /\ \A d \in 1..Len(cs) : cs[d].parent \in 0..d - 1
  BY DEF Ordered
<1>3. PICK d \in Bad : \A e \in Bad : d <= e
  <2>1. Bad \in SUBSET Nat
    BY <1>2
  <2> HIDE DEF Bad
  <2> QED
    BY <1>1, <2>1, LeastNumber
<1>4. d \in 0..Len(cs) /\ d \in 0..Len(with) /\ Line(with)[d] # Line(cs)[d]
  BY <1>2
<1>5. /\ Line(cs)[d] = IF d = 0 THEN {} ELSE {d} \union Line(cs)[cs[d].parent]
      /\ Line(with)[d] = IF d = 0 THEN {} ELSE {d} \union Line(with)[with[d].parent]
  BY <1>4, LineUnfolds
<1>6. d # 0 /\ with[d].parent = cs[d].parent
  BY <1>2, <1>4, <1>5
<1>7. cs[d].parent \in 0..d - 1 /\ cs[d].parent \in 0..Len(cs)
  BY <1>2, <1>4, <1>6
<1>8. Line(with)[cs[d].parent] = Line(cs)[cs[d].parent]
  BY <1>3, <1>7
<1> QED
  BY <1>4, <1>5, <1>6, <1>8

(* A set of numbers with a bound has a greatest one.                       *)
LEMMA Greatest ==
    ASSUME NEW n \in Nat, NEW S \in SUBSET (0..n), S # {}
    PROVE  Max(S) \in S /\ \A x \in S : x <= Max(S)
<1> DEFINE T == {n - x : x \in S}
<1>1. T \in SUBSET Nat /\ T # {}
  <2>1. \A x \in S : n - x \in Nat
    OBVIOUS
  <2>2. T \subseteq Nat
    BY <2>1
  <2>3. PICK x \in S : TRUE
    OBVIOUS
  <2>4. n - x \in T
    OBVIOUS
  <2> QED
    BY <2>2, <2>4
<1>2. PICK m \in T : \A y \in T : m <= y
  <2> HIDE DEF T
  <2> QED
    BY <1>1, LeastNumber
<1>3. PICK g \in S : m = n - g
  OBVIOUS
<1>4. ASSUME NEW x \in S PROVE g >= x
  <2>1. n - x \in T
    OBVIOUS
  <2>2. n - g <= n - x
    BY <1>2, <1>3, <2>1
  <2> QED
    BY <2>2
<1> QED
  BY <1>3, <1>4 DEF Max

-----------------------------------------------------------------------------
(* What the lookups of Lang find, a class at a time.                       *)
LEMMA FoundOnLine ==
    ASSUME NEW cs, Ordered(cs), NEW c \in 0..Len(cs), NEW n
    PROVE  /\ Found(cs, c, n) \in 0..c
           /\ Found(cs, c, n) # 0 => /\ Found(cs, c, n) \in Line(cs)[c]
                                     /\ cs[Found(cs, c, n)].proto[n] # "none"
           /\ \A d \in Line(cs)[c] : cs[d].proto[n] # "none" => d <= Found(cs, c, n)
<1> DEFINE S == {0} \union {d \in Line(cs)[c] : cs[d].proto[n] # "none"}
<1>1. S \in SUBSET (0..c) /\ S # {} /\ c \in Nat
  <2>1. Line(cs)[c] \subseteq 1..c /\ c \in Nat
    BY LineGoesUp DEF Ordered
  <2>2. \A d \in 1..c : d \in 0..c
    BY <2>1
  <2>3. 0 \in 0..c
    BY <2>1
  <2> QED
    BY <2>1, <2>2, <2>3
<1>2. Max(S) \in S /\ \A x \in S : x <= Max(S)
  <2> HIDE DEF S
  <2> QED
    BY <1>1, Greatest
<1>3. Found(cs, c, n) = Max(S)
  BY DEF Found
<1> QED
  <2> DEFINE m == Max(S)
  <2>1. m \in S /\ (\A x \in S : x <= m) /\ Found(cs, c, n) = m
    BY <1>2, <1>3
  <2> HIDE DEF m
  <2> QED
    BY <1>1, <2>1

LEMMA FoundHere ==
    ASSUME NEW cs, Ordered(cs), NEW c \in 1..Len(cs), NEW n
    PROVE  Found(cs, c, n) = IF cs[c].proto[n] # "none" THEN c ELSE Found(cs, cs[c].parent, n)
<1>1. c \in 0..Len(cs) /\ c \in Nat /\ cs[c].parent \in 0..c - 1 /\ cs[c].parent \in 0..Len(cs)
  BY DEF Ordered
<1>2. Line(cs)[c] = {c} \union Line(cs)[cs[c].parent]
  BY LineAbove
<1>3. CASE cs[c].proto[n] # "none"
  <2>1. c <= Found(cs, c, n) /\ Found(cs, c, n) \in 0..c
    BY <1>1, <1>2, <1>3, FoundOnLine
  <2> QED
    BY <1>1, <1>3, <2>1
<1>4. CASE cs[c].proto[n] = "none"
  <2>1. {d \in Line(cs)[c] : cs[d].proto[n] # "none"}
            = {d \in Line(cs)[cs[c].parent] : cs[d].proto[n] # "none"}
    BY <1>2, <1>4
  <2> QED
    BY <1>4, <2>1 DEF Found
<1> QED
  BY <1>3, <1>4

(* With another class defined they find the same for the classes there are.*)
Extended(cs, with) ==
    /\ Ordered(cs) /\ Ordered(with) /\ Len(with) = Len(cs) + 1
    /\ \A d \in 1..Len(cs) : with[d] = cs[d]

LEMMA LookupsStay ==
    ASSUME NEW cs, NEW with, Extended(cs, with), NEW c \in 0..Len(cs)
    PROVE  /\ Line(with)[c] = Line(cs)[c]
           /\ \A d \in Line(cs)[c] : with[d] = cs[d]
           /\ _interfacePresent(with, c) = _interfacePresent(cs, c)
           /\ \A n : Found(with, c, n) = Found(cs, c, n) /\ Value(with, c, n) = Value(cs, c, n)
<1>1. Ordered(cs) /\ Ordered(with) /\ Len(cs) \in Nat /\ Len(with) \in Nat
  BY DEF Extended, Ordered
<1>2. Line(with)[c] = Line(cs)[c]
  BY <1>1, LineStays DEF Extended
<1>3. Line(cs)[c] \subseteq 1..c
  BY <1>1, LineGoesUp
<1>4. ASSUME NEW d \in 1..c PROVE with[d] = cs[d]
  <2>1. d \in 1..Len(cs)
    BY <1>1
  <2> QED
    BY <2>1 DEF Extended
<1>5. _interfacePresent(with, c) = _interfacePresent(cs, c)
  <2>1. {Range(with[d].interfaces) : d \in Line(cs)[c]} = {Range(cs[d].interfaces) : d \in Line(cs)[c]}
    BY <1>3, <1>4
  <2> QED
    BY <1>2, <2>1 DEF _interfacePresent
<1>6. ASSUME NEW n PROVE Found(with, c, n) = Found(cs, c, n) /\ Value(with, c, n) = Value(cs, c, n)
  <2>1. {d \in Line(with)[c] : with[d].proto[n] # "none"} = {d \in Line(cs)[c] : cs[d].proto[n] # "none"}
    BY <1>2, <1>3, <1>4
  <2>2. Found(with, c, n) = Found(cs, c, n)
    BY <2>1 DEF Found
  <2>3. Found(cs, c, n) \in 0..c
    BY <1>1, FoundOnLine
  <2>4. Found(cs, c, n) # 0 => with[Found(cs, c, n)] = cs[Found(cs, c, n)]
    BY <1>4, <2>3
  <2> QED
    BY <2>2, <2>4 DEF Value
<1> QED
  BY <1>2, <1>3, <1>4, <1>5, <1>6

-----------------------------------------------------------------------------
(* The definition of a class.                                              *)
Kinds == {"wrapped", "default", "unimplemented", "none"}

ClassesOK ==
    /\ \E T : classes \in Seq(T)
    /\ Ordered(classes)
    /\ \A c \in 1..Len(classes), n \in Methods : classes[c].proto[n] \in Kinds

(* What _init puts on the prototype: a member without implementation only  *)
(* of an interface that the definition lists.                              *)
LEMMA PrototypeOf ==
    ASSUME NEW d \in Definitions, NEW n \in Methods
    PROVE  /\ _init(d.own, d.implements)[n] \in Kinds
           /\ _init(d.own, d.implements)[n] = "unimplemented" =>
                \E i \in Range(d.implements) : Member[i][n] = "unimplemented"
<1> DEFINE list == d.implements
           has == {k \in DOMAIN list : Member[list[k]][n] # "none"}
           last == CHOOSE k \in has : \A l \in has : l <= k
<1>1. list \in Seq(Interfaces) /\ DOMAIN list = 1..Len(list) /\ Len(list) \in Nat
  BY LangAssumption
<1>2. _init(d.own, list)[n] = IF n \in d.own THEN "wrapped" ELSE IF has = {} THEN "none"
                              ELSE Member[list[last]][n]
  BY DEF _init
<1>3. ASSUME has # {} PROVE last \in has
  <2>1. has \in SUBSET (0..Len(list))
    BY <1>1
  <2>2. Max(has) \in has /\ \A x \in has : x <= Max(has)
    <3> HIDE DEF has
    <3> QED
      BY <1>1, <1>3, <2>1, Greatest
  <2> QED
    BY <2>2
<1> HIDE DEF last
<1>4. CASE n \in d.own \/ has = {}
  BY <1>2, <1>4 DEF Kinds
<1>5. CASE n \notin d.own /\ has # {}
  <2>1. last \in DOMAIN list /\ Member[list[last]][n] # "none"
    BY <1>3, <1>5
  <2>2. list[last] \in Interfaces /\ list[last] \in Range(list)
    BY <1>1, <2>1 DEF Range
  <2>3. Member[list[last]][n] \in {"none", "unimplemented", "default"}
    BY <2>2, LangAssumption
  <2> QED
    BY <1>2, <1>5, <2>1, <2>2, <2>3 DEF Kinds
<1> QED
  BY <1>4, <1>5

LEMMA ValueKinds ==
    ASSUME NEW cs, Ordered(cs), NEW c \in 0..Len(cs), NEW n \in Methods,
           \A b \in 1..Len(cs) : cs[b].proto[n] \in Kinds
    PROVE  Value(cs, c, n) \in Kinds
<1>1. Found(cs, c, n) \in 0..c /\ c \in Nat /\ Len(cs) \in Nat
  BY FoundOnLine DEF Ordered
<1>2. Found(cs, c, n) = 0 \/ Found(cs, c, n) \in 1..Len(cs)
  BY <1>1
<1> QED
  BY <1>2 DEF Value, Kinds

(* The two halves of InterfacesImplemented, for one class.                 *)
RequirementsOf(cs, c) ==
    \A i \in _interfacePresent(cs, c) : Requires[i] \subseteq _interfacePresent(cs, c)

ListedAgain(cs, c) == \E d \in Line(cs)[c] : cs[d].listed # Range(cs[d].interfaces)

MembersOf(cs, c) ==
    ~ListedAgain(cs, c) =>
        \A i \in _interfacePresent(cs, c), n \in Methods :
            Member[i][n] = "unimplemented" => Value(cs, c, n) \in {"wrapped", "default"}

LEMMA ImplementsStays ==
    ASSUME NEW cs, NEW with, Extended(cs, with), NEW c \in 1..Len(cs),
           RequirementsOf(cs, c), MembersOf(cs, c)
    PROVE  RequirementsOf(with, c) /\ MembersOf(with, c)
<1>1. c \in 0..Len(cs)
  BY DEF Extended, Ordered
<1>2. /\ Line(with)[c] = Line(cs)[c] /\ \A d \in Line(cs)[c] : with[d] = cs[d]
      /\ _interfacePresent(with, c) = _interfacePresent(cs, c)
      /\ \A n : Value(with, c, n) = Value(cs, c, n)
  BY <1>1, LookupsStay
<1>3. ListedAgain(with, c) <=> ListedAgain(cs, c)
  BY <1>2 DEF ListedAgain
<1> QED
  BY <1>2, <1>3 DEF RequirementsOf, MembersOf

(* The new class: the interfaces that are its own passed _check, and the   *)
(* others are its parent's, whose methods it only puts its own over.       *)
LEMMA NewImplements ==
    ASSUME NEW cs, NEW with, Extended(cs, with),
           NEW d \in Definitions, NEW new, with[Len(with)] = new,
           \A b \in 1..Len(cs), n \in Methods : cs[b].proto[n] \in Kinds,
           new.proto = _init(d.own, d.implements), new.listed = Range(d.implements),
           \A k \in DOMAIN new.interfaces : _check(with, new.interfaces[k]),
           new.parent # 0 => RequirementsOf(cs, new.parent) /\ MembersOf(cs, new.parent)
    PROVE  RequirementsOf(with, Len(with)) /\ MembersOf(with, Len(with))
<1> DEFINE c == Len(with)
           p == new.parent
           own == Range(new.interfaces)
<1>1. /\ c \in 1..Len(with) /\ c \in 0..Len(with) /\ Ordered(with) /\ Ordered(cs) /\ c # 0
      /\ p \in 0..Len(cs) /\ p \in 0..Len(with) /\ with[c] = new
  BY DEF Extended, Ordered
<1>2. Line(with)[c] = {c} \union Line(with)[p]
  <2>1. Line(with)[c] = {c} \union Line(with)[with[c].parent]
    <3> HIDE DEF c
    <3> QED
      BY <1>1, LineAbove
  <2> QED
    BY <1>1, <2>1
<1>3. /\ Line(with)[p] = Line(cs)[p] /\ \A e \in Line(cs)[p] : with[e] = cs[e]
      /\ _interfacePresent(with, p) = _interfacePresent(cs, p)
      /\ \A n : Value(with, p, n) = Value(cs, p, n)
  BY <1>1, LookupsStay
<1>4. _interfacePresent(with, c) = own \union _interfacePresent(cs, p)
  <2>1. _interfacePresent(with, c) = own \union _interfacePresent(with, p)
    BY <1>1, <1>2 DEF _interfacePresent
  <2> QED
    BY <1>3, <2>1
<1>5. ASSUME NEW i \in own
      PROVE  /\ Requires[i] \subseteq _interfacePresent(with, c)
             /\ \A n \in Methods :
                    Member[i][n] = "unimplemented" => Value(with, c, n) \notin {"none", "unimplemented"}
  <2>1. PICK k \in DOMAIN new.interfaces : i = new.interfaces[k]
    BY DEF Range
  <2>2. _check(with, i)
    BY <2>1
  <2> QED
    BY <2>2 DEF _check
<1>6. p = 0 => _interfacePresent(cs, p) = {} /\ Line(cs)[p] = {}
  <2>1. Line(cs)[0] = {}
    BY <1>1, LineEnds
  <2> QED
    BY <2>1 DEF _interfacePresent
<1>7. \A n \in Methods : new.proto[n] \in Kinds
  BY PrototypeOf
<1>8. \A n : Value(with, c, n) = IF new.proto[n] # "none" THEN new.proto[n] ELSE Value(cs, p, n)
  <2> TAKE n
  <2>1. Found(with, c, n) = IF new.proto[n] # "none" THEN c ELSE Found(with, p, n)
    BY <1>1, FoundHere
  <2> HIDE DEF c, p
  <2> QED
    BY <1>1, <1>3, <2>1 DEF Value
<1> HIDE DEF own, c, p
<1>9. RequirementsOf(with, c)
  <2>1. ASSUME NEW i \in _interfacePresent(cs, p) PROVE Requires[i] \subseteq _interfacePresent(cs, p)
    BY <1>6, <2>1 DEF RequirementsOf, p
  <2> QED
    BY <1>4, <1>5, <2>1 DEF RequirementsOf
<1>10. MembersOf(with, c)
  <2> SUFFICES ASSUME ~ListedAgain(with, c), NEW i \in _interfacePresent(with, c), NEW n \in Methods,
                      Member[i][n] = "unimplemented"
               PROVE  Value(with, c, n) \in {"wrapped", "default"}
    BY DEF MembersOf
  <2>1. new.listed = own /\ ~ListedAgain(cs, p)
    BY <1>1, <1>2, <1>3 DEF ListedAgain, own
  <2>2. new.proto[n] # "unimplemented"
    <3>1. SUFFICES ASSUME new.proto[n] = "unimplemented" PROVE FALSE
      OBVIOUS
    <3>2. PICK j \in Range(d.implements) : Member[j][n] = "unimplemented"
      BY <3>1, PrototypeOf
    <3>3. j \in own
      BY <2>1, <3>2
    <3> QED
      BY <1>5, <1>8, <3>1, <3>2, <3>3
  <2>3. CASE new.proto[n] # "none"
    BY <1>7, <1>8, <2>2, <2>3 DEF Kinds
  <2>4. CASE new.proto[n] = "none" /\ i \in _interfacePresent(cs, p)
    <3>1. p # 0 /\ MembersOf(cs, p)
      BY <1>6, <2>4 DEF p
    <3>2. Value(cs, p, n) \in {"wrapped", "default"}
      BY <2>1, <2>4, <3>1 DEF MembersOf
    <3> QED
      BY <1>8, <2>4, <3>2
  <2>5. CASE new.proto[n] = "none" /\ i \in own
    <3>1. Value(with, c, n) \notin {"none", "unimplemented"} /\ Value(with, c, n) = Value(cs, p, n)
      BY <1>5, <1>8, <2>5
    <3>2. Value(cs, p, n) \in Kinds
      BY <1>1, ValueKinds
    <3> QED
      BY <3>1, <3>2 DEF Kinds
  <2> QED
    BY <1>4, <2>3, <2>4, <2>5
<1> QED
  BY <1>9, <1>10 DEF c

(* Class keeps both for every class, and everything else keeps the classes.*)
ClassInv == ClassesOK /\ \A c \in 1..Len(classes) : RequirementsOf(classes, c) /\ MembersOf(classes, c)

LEMMA ClassStep ==
    ASSUME ClassInv, NEW d \in Definitions, NEW p \in 0..Len(classes), Class(d, p)
    PROVE  ClassInv' /\ Extended(classes, classes')
<1> DEFINE new == [parent |-> p, proto |-> _init(d.own, d.implements),
                   interfaces |-> SelectSeq(d.implements, LAMBDA i : i \notin _interfacePresent(classes, p)),
                   listed |-> Range(d.implements)]
<1>1. /\ classes' = Append(classes, new)
      /\ \A k \in DOMAIN new.interfaces : _check(classes', new.interfaces[k])
  BY DEF Class
<1>2. /\ new.parent = p /\ new.proto = _init(d.own, d.implements) /\ new.listed = Range(d.implements)
  OBVIOUS
<1> HIDE DEF new
<1>3. PICK T : classes \in Seq(T)
  BY DEF ClassInv, ClassesOK
<1>4. /\ classes' \in Seq(T \union {new}) /\ Len(classes') = Len(classes) + 1 /\ Len(classes) \in Nat
      /\ \A c \in 1..Len(classes) : classes'[c] = classes[c]
      /\ classes'[Len(classes) + 1] = new
  <2>1. classes \in Seq(T \union {new})
    BY <1>3, SeqMonotonic
  <2> QED
    BY <1>1, <2>1, AppendProperties
<1>5. Ordered(classes) /\ Ordered(classes')
  <2>1. Ordered(classes)
    BY DEF ClassInv, ClassesOK
  <2>2. ASSUME NEW c \in 1..Len(classes') PROVE classes'[c].parent \in 0..c - 1
    <3>1. CASE c \in 1..Len(classes)
      BY <1>4, <2>1, <3>1 DEF Ordered
    <3>2. CASE c = Len(classes) + 1
      BY <1>2, <1>4, <3>2
    <3> QED
      BY <1>4, <3>1, <3>2
  <2> QED
    BY <1>4, <2>1, <2>2 DEF Ordered
<1>6. Extended(classes, classes')
  BY <1>4, <1>5 DEF Extended
<1>7. ClassesOK'
  <2>1. ASSUME NEW c \in 1..Len(classes'), NEW n \in Methods PROVE classes'[c].proto[n] \in Kinds
    <3>1. CASE c \in 1..Len(classes)
      BY <1>4, <3>1 DEF ClassInv, ClassesOK
    <3>2. CASE c = Len(classes) + 1
      BY <1>2, <1>4, <3>2, PrototypeOf
    <3> QED
      BY <1>4, <3>1, <3>2
  <2> QED
    BY <1>4, <1>5, <2>1 DEF ClassesOK
<1>8. ASSUME NEW c \in 1..Len(classes') PROVE RequirementsOf(classes', c) /\ MembersOf(classes', c)
  <2>1. CASE c \in 1..Len(classes)
    BY <1>6, <2>1, ImplementsStays DEF ClassInv
  <2>2. CASE c = Len(classes')
    <3>1. new.parent # 0 => RequirementsOf(classes, new.parent) /\ MembersOf(classes, new.parent)
      BY <1>2, <1>4 DEF ClassInv
    <3>2. \A b \in 1..Len(classes), n \in Methods : classes[b].proto[n] \in Kinds
      BY DEF ClassInv, ClassesOK
    <3> DEFINE with == classes'
    <3>3. Extended(classes, with) /\ with[Len(with)] = new /\ \A k \in DOMAIN new.interfaces : _check(with, new.interfaces[k])
      BY <1>1, <1>4, <1>6
    <3> HIDE DEF with
    <3>4. RequirementsOf(with, Len(with)) /\ MembersOf(with, Len(with))
      BY ONLY <1>2, <3>1, <3>2, <3>3, d \in Definitions, NewImplements
    <3> QED
      BY <2>2, <3>4 DEF with
  <2> QED
    BY <1>4, <2>1, <2>2
<1> QED
  BY <1>6, <1>7, <1>8 DEF ClassInv

LEMMA NextClassInv == ClassInv /\ [LangNext]_langVars => ClassInv'
<1> SUFFICES ASSUME ClassInv, [LangNext]_langVars PROVE ClassInv'
  OBVIOUS
<1>1. ASSUME UNCHANGED classes PROVE ClassInv'
  BY <1>1 DEF ClassInv, ClassesOK, Ordered, RequirementsOf, MembersOf, ListedAgain
<1>2. ASSUME NEW d \in Definitions, NEW p \in 0..Len(classes), Class(d, p) PROVE ClassInv'
  BY <1>2, ClassStep
<1>3. (\E d \in Definitions, p \in 0..Len(classes) : Class(d, p)) \/ UNCHANGED classes
  BY DEF LangNext, New, Calls, _parent, Returns, Throws, langVars
<1> QED
  BY <1>1, <1>2, <1>3

LEMMA InitClassInv == LangInit => ClassInv
<1> SUFFICES ASSUME LangInit PROVE ClassInv
  OBVIOUS
<1>1. classes = << >> /\ classes \in Seq({}) /\ Len(classes) = 0
  BY EmptySeq DEF LangInit
<1> QED
  BY <1>1 DEF ClassInv, ClassesOK, Ordered

LEMMA ClassInvSuffices == ClassInv => InterfacesImplemented
<1> SUFFICES ASSUME ClassInv PROVE InterfacesImplemented
  OBVIOUS
<1>1. PICK T : classes \in Seq(T)
  BY DEF ClassInv, ClassesOK
<1>2. DOMAIN classes = 1..Len(classes)
  BY <1>1
<1>3. ASSUME NEW c \in DOMAIN classes PROVE RequirementsOf(classes, c) /\ MembersOf(classes, c)
  BY <1>2 DEF ClassInv
<1>4. RequirementsMet
  BY <1>3 DEF RequirementsMet, RequirementsOf
<1>5. MembersImplemented
  BY <1>3 DEF MembersImplemented, MembersOf, Relisted, ListedAgain, Callable
<1> QED
  BY <1>4, <1>5 DEF InterfacesImplemented

(* lang.js: a class that was defined has every interface its interfaces    *)
(* require, and the members they leave to be implemented, its own or one   *)
(* of a class above it, unless an interface of a parent is listed again.   *)
THEOREM ClassesImplementInterfaces == LangSpec => []InterfacesImplemented
<1> QED
  BY InitClassInv, NextClassInv, ClassInvSuffices, PTL DEF LangSpec

-----------------------------------------------------------------------------
(* parent().  The wrappers that __caller__ is, was or will be belong to    *)
(* classes, and so do the methods that run.                                *)
Known(w) == w = NoCaller \/ w.owner \in 1..Len(classes)

OwnersKnown ==
    /\ object \in 0..Len(classes) /\ Known(caller)
    /\ \A k \in DOMAIN stack : stack[k].owner \in 1..Len(classes) /\ Known(stack[k].prev)

ParentInv == LangInv /\ ClassesOK /\ OwnersKnown /\ ParentGoesUp

(* A call by parent() was made by the wrapped method below it, unless that *)
(* has caught something: so it is found above the class of that method.    *)
LEMMA EntersGoesUp ==
    ASSUME ParentInv, NEW c \in 0..Len(classes), NEW n, NEW via,
           Enters(c, n, via), Callable(c, n), UNCHANGED <<classes, object>>,
           via = "parent" => caller # NoCaller /\ n = caller.name /\ c = SuperOfCaller
    PROVE  OwnersKnown' /\ ParentGoesUp'
<1> DEFINE wrapped == Value(classes, c, n) = "wrapped"
           at == Found(classes, c, n)
           f == [owner |-> at, name |-> n, wrapped |-> wrapped,
                 prev |-> caller, via |-> via, caught |-> FALSE]
<1>1. stack' = Append(stack, f) /\ caller' = (IF wrapped THEN Wrapper(f) ELSE caller)
  BY DEF Enters, Wrapper
<1>2. f.owner = at /\ f.name = n /\ f.prev = caller /\ f.via = via /\ Wrapper(f).owner = at
  BY DEF Wrapper
<1>3. Ordered(classes)
  BY DEF ParentInv, ClassesOK
<1>4. at # 0 /\ at \in 0..c /\ at \in Line(classes)[c] /\ at \in 1..Len(classes)
  <2>1. at # 0
    BY DEF Callable, Value
  <2>2. at \in 0..c /\ at \in Line(classes)[c]
    BY <1>3, <2>1, FoundOnLine
  <2> HIDE DEF at
  <2> QED
    BY <1>3, <2>1, <2>2 DEF Ordered
<1> HIDE DEF f, at, wrapped
<1>5. PICK S : stack \in Seq(S)
  BY DEF ParentInv, LangInv, LangTypeOK
<1>6. /\ Len(stack') = Len(stack) + 1 /\ Len(stack) \in Nat
      /\ DOMAIN stack' = 1..Len(stack) + 1 /\ DOMAIN stack = 1..Len(stack)
      /\ \A k \in 1..Len(stack) : stack'[k] = stack[k]
      /\ stack'[Len(stack) + 1] = f
  <2>1. stack \in Seq(S \union {f})
    BY <1>5, SeqMonotonic
  <2> QED
    BY <1>1, <2>1, AppendProperties
<1>7. OwnersKnown'
  <2>1. ASSUME NEW k \in DOMAIN stack'
        PROVE  stack'[k].owner \in 1..Len(classes) /\ Known(stack'[k].prev)
    <3>1. CASE k \in DOMAIN stack
      BY <1>6, <3>1 DEF ParentInv, OwnersKnown
    <3>2. CASE k = Len(stack) + 1
      BY <1>2, <1>4, <1>6, <3>2 DEF ParentInv, OwnersKnown
    <3> QED
      BY <1>6, <3>1, <3>2
  <2>2. Known(caller)' /\ (object \in 0..Len(classes))'
    BY <1>1, <1>2, <1>4 DEF ParentInv, OwnersKnown, Known
  <2> QED
    BY <2>1, <2>2 DEF OwnersKnown, Known
<1>8. ParentGoesUp'
  <2> SUFFICES ASSUME NEW k \in 2..Len(stack) + 1, stack'[k].via = "parent",
                      stack'[k - 1].wrapped, ~stack'[k - 1].caught
               PROVE  /\ stack'[k].name = stack'[k - 1].name
                      /\ stack'[k].owner \in Above(stack'[k - 1].owner)
    BY <1>6 DEF ParentGoesUp, Above
  <2>1. k - 1 \in 1..Len(stack) /\ stack'[k - 1] = stack[k - 1]
    BY <1>6
  <2>2. CASE k \in 2..Len(stack)
    BY <1>6, <2>1, <2>2 DEF ParentInv, ParentGoesUp
  <2>3. CASE k = Len(stack) + 1
    <3>1. stack'[k] = f /\ stack[k - 1] = Top /\ stack # << >> /\ via = "parent"
      BY <1>2, <1>6, <2>3, EmptySeq DEF Top
    <3>2. caller = [owner |-> Top.owner, name |-> Top.name]
      BY <2>1, <3>1, Holds DEF ParentInv, CallerIsRunning
    <3>3. n = Top.name /\ c = classes[Top.owner].parent
      BY <3>1, <3>2 DEF SuperOfCaller
    <3> QED
      BY <1>2, <1>4, <2>1, <3>1, <3>3 DEF Above
  <2> QED
    BY <1>6, <2>2, <2>3
<1> QED
  BY <1>7, <1>8

(* What an exception leaves on the stack is as it was, but for caught.     *)
LEMMA RaisedGoesUp ==
    ASSUME ParentInv, NEW k \in 0..Len(stack), RaisedTo(k), UNCHANGED <<classes, object>>
    PROVE  OwnersKnown' /\ ParentGoesUp'
<1>1. Len(stack) \in Nat /\ DOMAIN stack = 1..Len(stack)
  <2>1. PICK S : stack \in Seq(S)
    BY DEF ParentInv, LangInv, LangTypeOK
  <2> QED
    BY <2>1
<1>2. /\ DOMAIN stack' = 1..k /\ caller' = caller
      /\ \A i \in 1..k : /\ i \in 1..Len(stack)
                         /\ stack'[i] = stack[i] \/ stack'[i] = [stack[i] EXCEPT !.caught = TRUE]
  BY <1>1 DEF RaisedTo
<1>3. ASSUME NEW i \in 1..k
      PROVE  /\ stack'[i].owner = stack[i].owner /\ stack'[i].name = stack[i].name
             /\ stack'[i].via = stack[i].via /\ stack'[i].prev = stack[i].prev
             /\ stack'[i].wrapped = stack[i].wrapped /\ (~stack'[i].caught => ~stack[i].caught)
  <2>1. stack[i] = [x \in Fields |-> stack[i][x]]
    BY <1>1, <1>2 DEF ParentInv, LangInv, LangTypeOK
  <2>2. CASE stack'[i] = stack[i]
    BY <2>2
  <2>3. CASE stack'[i] = [stack[i] EXCEPT !.caught = TRUE]
    <3>1. stack'[i] = [x \in Fields |-> IF x = "caught" THEN TRUE ELSE stack[i][x]]
      BY <2>1, <2>3
    <3> QED
      BY <3>1 DEF Fields
  <2> QED
    BY <1>2, <2>2, <2>3
<1>4. OwnersKnown'
  BY <1>1, <1>2, <1>3 DEF ParentInv, OwnersKnown, Known
<1>5. ParentGoesUp'
  <2>1. Len(stack') = k
    BY <1>1, <1>2, DOMAIN stack' = 1..Len(stack') DEF RaisedTo
  <2>2. ASSUME NEW j \in 2..k, stack'[j].via = "parent", stack'[j - 1].wrapped, ~stack'[j - 1].caught
        PROVE  stack'[j].name = stack'[j - 1].name /\ stack'[j].owner \in Above(stack'[j - 1].owner)
    <3>1. j \in 1..k /\ j - 1 \in 1..k /\ j \in 2..Len(stack)
      BY <1>1
    <3> DEFINE b == j - 1
    <3>e. /\ stack'[b].wrapped = stack[b].wrapped /\ (~stack'[b].caught => ~stack[b].caught)
          /\ stack'[j].via = stack[j].via /\ stack'[j].name = stack[j].name /\ stack'[j].owner = stack[j].owner
          /\ stack'[b].name = stack[b].name /\ stack'[b].owner = stack[b].owner
      <4> HIDE DEF b
      <4>1. j \in 1..k /\ b \in 1..k
        BY <3>1 DEF b
      <4> QED
        BY <1>3, <4>1
    <3>2. stack[j].via = "parent" /\ stack[j - 1].wrapped /\ ~stack[j - 1].caught
      BY <2>2, <3>e
    <3>3. stack[j].name = stack[j - 1].name /\ stack[j].owner \in Above(stack[j - 1].owner)
      BY <3>1, <3>2 DEF ParentInv, ParentGoesUp
    <3> QED
      BY <3>3, <3>e
  <2> QED
    BY <2>1, <2>2 DEF ParentGoesUp, Above
<1> QED
  BY <1>4, <1>5

LEMMA WithoutLast ==
    ASSUME NEW S, NEW s \in Seq(S), s # << >>, NEW t, t = SubSeq(s, 1, Len(s) - 1)
    PROVE  /\ Len(s) \in 1..Len(s) /\ Len(t) = Len(s) - 1 /\ DOMAIN t = 1..Len(s) - 1
           /\ \A k \in 1..Len(s) - 1 : k \in 1..Len(s) /\ t[k] = s[k]
<1>1. Len(s) \in Nat /\ Len(s) # 0
  BY EmptySeq
<1>2. t \in Seq(S) /\ Len(t) = Len(s) - 1 /\ \A k \in 1..Len(s) - 1 : t[k] = s[k]
  <2> DEFINE m == Len(s) - 1
  <2>1. m \in Int /\ m \in Nat /\ 1 \in Int /\ \A i \in 1..m : s[i] \in S
    BY <1>1
  <2>0. t = SubSeq(s, 1, m)
    OBVIOUS
  <2> HIDE DEF m
  <2>2. /\ SubSeq(s, 1, m) \in Seq(S)
        /\ Len(SubSeq(s, 1, m)) = IF 1 <= m THEN m - 1 + 1 ELSE 0
        /\ \A i \in 1..m - 1 + 1 : SubSeq(s, 1, m)[i] = s[1 + i - 1]
    BY ONLY <2>1, SubSeqProperties
  <2>3. Len(t) = m /\ \A i \in 1..m : t[i] = s[i]
    BY ONLY <2>0, <2>1, <2>2
  <2> QED
    BY <2>0, <2>2, <2>3 DEF m
<1>3. DOMAIN t = 1..Len(s) - 1 /\ \A k \in 1..Len(s) - 1 : k \in 1..Len(s)
  BY <1>1, <1>2
<1> QED
  BY <1>1, <1>2, <1>3

LEMMA InitParentInv == LangInit => ParentInv
<1> SUFFICES ASSUME LangInit PROVE ParentInv
  OBVIOUS
<1>1. stack = << >> /\ Len(stack) = 0 /\ DOMAIN stack = {} /\ classes = << >> /\ Len(classes) = 0
  BY EmptySeq DEF LangInit
<1>2. OwnersKnown /\ ParentGoesUp
  BY <1>1 DEF LangInit, OwnersKnown, ParentGoesUp, Known
<1> QED
  BY <1>2, InitLangInv, InitClassInv DEF ParentInv, ClassInv

LEMMA NextParentInv == ParentInv /\ ClassInv /\ [LangNext]_langVars => ParentInv'
<1> SUFFICES ASSUME ParentInv, ClassInv, [LangNext]_langVars PROVE ParentInv'
  OBVIOUS
<1>1. LangInv' /\ ClassesOK'
  BY NextLangInv, NextClassInv DEF ParentInv, ClassInv
<1> SUFFICES OwnersKnown' /\ ParentGoesUp'
  BY <1>1 DEF ParentInv
<1>2. /\ Len(stack) \in Nat /\ DOMAIN stack = 1..Len(stack) /\ \E S : stack \in Seq(S)
      /\ Len(classes) \in Nat /\ Ordered(classes)
  <2>1. PICK S : stack \in Seq(S)
    BY DEF ParentInv, LangInv, LangTypeOK
  <2> QED
    BY <2>1 DEF ParentInv, ClassesOK, Ordered
<1>3. ASSUME NEW d \in Definitions, NEW p \in 0..Len(classes), Class(d, p)
      PROVE  OwnersKnown' /\ ParentGoesUp'
  <2>1. stack = << >> /\ UNCHANGED <<object, caller, stack>> /\ Len(classes') = Len(classes) + 1
    BY <1>3, ClassStep DEF Class, Extended
  <2>2. DOMAIN stack = {} /\ Len(stack) = 0
    BY <2>1, EmptySeq
  <2> QED
    BY <1>2, <2>1, <2>2 DEF ParentInv, OwnersKnown, ParentGoesUp, Known
<1>4. ASSUME NEW c \in DOMAIN classes, New(c) PROVE OwnersKnown' /\ ParentGoesUp'
  <2>1. stack = << >>
    BY <1>4 DEF New, ParentInv, LangInv, Idle
  <2>2. DOMAIN stack = {} /\ Len(stack) = 0 /\ DOMAIN classes = 1..Len(classes)
    <3>1. PICK T : classes \in Seq(T)
      BY DEF ParentInv, ClassesOK
    <3> QED
      BY <2>1, <3>1, EmptySeq
  <2> QED
    BY <1>2, <1>4, <2>2 DEF New, OwnersKnown, ParentGoesUp, Known
<1>5. ASSUME NEW n \in Methods, Calls(n) PROVE OwnersKnown' /\ ParentGoesUp'
  <2>1. object \in 0..Len(classes)
    BY DEF ParentInv, OwnersKnown
  <2>2. CASE Callable(object, n) /\ Enters(object, n, "call")
    BY <1>5, <2>1, <2>2, EntersGoesUp DEF Calls
  <2>3. CASE Raises
    BY <1>5, <2>3, RaisedGoesUp DEF Calls, Raises
  <2> QED
    BY <1>5, <2>2, <2>3 DEF Calls
<1>6. CASE _parent
  <2>1. CASE Raises
    BY <1>6, <2>1, RaisedGoesUp DEF _parent, Raises
  <2>2. CASE caller # NoCaller /\ Callable(SuperOfCaller, caller.name) /\ Enters(SuperOfCaller, caller.name, "parent")
    <3>1. caller.owner \in 1..Len(classes)
      BY <2>2 DEF ParentInv, OwnersKnown, Known
    <3>2. SuperOfCaller \in 0..Len(classes)
      BY <1>2, <3>1 DEF SuperOfCaller, Ordered
    <3> QED
      BY <1>6, <2>2, <3>2, EntersGoesUp DEF _parent
  <2> QED
    BY <1>6, <2>1, <2>2 DEF _parent
<1>7. CASE Returns
  <2>1. /\ stack' = SubSeq(stack, 1, Len(stack) - 1) /\ caller' = Restored(stack[Len(stack)])
        /\ stack # << >> /\ UNCHANGED <<classes, object>>
    BY <1>7 DEF Returns, Top, Front
  <2>2. /\ Len(stack) \in 1..Len(stack) /\ Len(stack') = Len(stack) - 1 /\ DOMAIN stack' = 1..Len(stack) - 1
        /\ \A k \in 1..Len(stack) - 1 : k \in 1..Len(stack) /\ stack'[k] = stack[k]
    <3>1. PICK S : stack \in Seq(S)
      BY <1>2
    <3> QED
      BY <2>1, <3>1, WithoutLast
  <2>3. OwnersKnown'
    BY <1>2, <2>1, <2>2 DEF ParentInv, OwnersKnown, Known, Restored
  <2>4. ParentGoesUp'
    <3>1. \A k \in 2..Len(stack) - 1 : k - 1 \in 1..Len(stack) - 1 /\ k \in 1..Len(stack) - 1 /\ k \in 2..Len(stack)
      BY <1>2
    <3> QED
      BY <2>1, <2>2, <3>1 DEF ParentInv, ParentGoesUp, Above
  <2> QED
    BY <2>3, <2>4
<1>8. CASE Throws
  <2>1. PICK k \in 0..Len(stack) - 1 : RaisedTo(k)
    BY <1>8 DEF Throws
  <2>2. k \in 0..Len(stack)
    BY <1>2, <2>1
  <2> QED
    BY <1>8, <2>1, <2>2, RaisedGoesUp DEF Throws
<1>9. CASE UNCHANGED langVars
  BY <1>9 DEF langVars, ParentInv, OwnersKnown, ParentGoesUp, Known, Above
<1> QED
  BY <1>3, <1>4, <1>5, <1>6, <1>7, <1>8, <1>9 DEF LangNext

(* lang.js: however deep calls of parent() are in each other, each finds   *)
(* the method of the same name of a class above.                           *)
THEOREM ParentFindsAbove == LangSpec => []ParentGoesUp
<1>1. ParentInv => ParentGoesUp
  BY DEF ParentInv
<1> QED
  BY <1>1, InitParentInv, NextParentInv, InitClassInv, NextClassInv, PTL DEF LangSpec

=============================================================================

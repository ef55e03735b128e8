--------------------------- MODULE Objects_proofs ---------------------------
(* What the promise of RootMirror amounts to, for any set of objects; the  *)
(* properties and methods of one of them, for any classes and values; and  *)
(* arguments on their way to C and back, for any types and widths.         *)
EXTENDS RootMirror, Properties, Marshal, SequenceTheorems, WellFoundedInduction, NaturalsInduction, TLAPS

(* An object without a wrapper has nothing to tell.                        *)
Unwrapped == \A o \in Objects : ~wrapped[o] => news[o] = <<>> /\ ~shared[o] /\ ~rooted[o]

IInv == TypeOK /\ NewsTellsTheTruth /\ Unwrapped

(* NewsTellsTheTruth for one object, by the four legal queues.             *)
Truth(n, s, r) ==
    /\ n \in LegalNews
    /\ n = <<>> => (s <=> r)
    /\ n = <<"DOWN">> => ~s
    /\ n \in {<<"UP">>, <<"DOWN", "UP">>} => s

LEMMA LegalNewsDiffer ==
    /\ <<>> # <<"UP">> /\ <<>> # <<"DOWN">> /\ <<>> # <<"DOWN", "UP">>
    /\ <<"UP">> # <<"DOWN">> /\ <<"UP">> # <<"DOWN", "UP">>
    /\ <<"DOWN">> # <<"DOWN", "UP">>
OBVIOUS

LEMMA NewsQueues ==
    /\ Append(<<>>, "UP") = <<"UP">>
    /\ Append(<<"DOWN">>, "UP") = <<"DOWN", "UP">>
    /\ Head(<<"UP">>) = "UP" /\ Tail(<<"UP">>) = <<>>
    /\ Head(<<"DOWN">>) = "DOWN" /\ Tail(<<"DOWN">>) = <<>>
    /\ Head(<<"DOWN", "UP">>) = "DOWN" /\ Tail(<<"DOWN", "UP">>) = <<"UP">>
<1>1. Append(<<>>, "UP") = <<"UP">>
  OBVIOUS
<1>2. Append(<<"DOWN">>, "UP") = <<"DOWN", "UP">>
  <2>1. <<"DOWN">> \in Seq({"UP", "DOWN"}) /\ <<"DOWN", "UP">> \in Seq({"UP", "DOWN"})
    OBVIOUS
  <2>2. /\ Len(Append(<<"DOWN">>, "UP")) = 2
        /\ Append(<<"DOWN">>, "UP")[1] = "DOWN"
        /\ Append(<<"DOWN">>, "UP")[2] = "UP"
        /\ Append(<<"DOWN">>, "UP") \in Seq({"UP", "DOWN"})
    BY <2>1, AppendProperties
  <2>3. \A i \in 1..2 : Append(<<"DOWN">>, "UP")[i] = <<"DOWN", "UP">>[i]
    BY <2>2
  <2>4. Len(<<"DOWN", "UP">>) = 2
    OBVIOUS
  <2> QED
    BY <2>1, <2>2, <2>3, <2>4, SeqEqual
<1>3. Head(<<"UP">>) = "UP" /\ Tail(<<"UP">>) = <<>>
  OBVIOUS
<1>4. Head(<<"DOWN">>) = "DOWN" /\ Tail(<<"DOWN">>) = <<>>
  OBVIOUS
<1>5. Head(<<"DOWN", "UP">>) = "DOWN" /\ Tail(<<"DOWN", "UP">>) = <<"UP">>
  OBVIOUS
<1> QED
  BY <1>1, <1>2, <1>3, <1>4, <1>5

(* A step that changes one object is right when it is right for that one.  *)
LEMMA OneObject ==
    ASSUME IInv, NEW o \in Objects,
           NEW w \in BOOLEAN, NEW s \in BOOLEAN, NEW r \in BOOLEAN, NEW n,
           Truth(n, s, r),
           ~w => n = <<>> /\ ~s /\ ~r,
           wrapped' = [wrapped EXCEPT ![o] = w],
           shared' = [shared EXCEPT ![o] = s],
           rooted' = [rooted EXCEPT ![o] = r],
           news' = [news EXCEPT ![o] = n]
    PROVE  IInv'
<1>1. TypeOK'
  BY DEF IInv, TypeOK, Truth
<1>2. \A p \in Objects : Truth(news[p], shared[p], rooted[p])
  BY DEF IInv, TypeOK, NewsTellsTheTruth, Truth
<1>3. \A p \in Objects : Truth(news'[p], shared'[p], rooted'[p])
  BY <1>2 DEF IInv, TypeOK
<1>4. NewsTellsTheTruth'
  BY <1>3 DEF NewsTellsTheTruth, Truth
<1>5. Unwrapped'
  BY DEF IInv, TypeOK, Unwrapped
<1> QED
  BY <1>1, <1>4, <1>5 DEF IInv

(* The news of an object is one of the four legal queues, and it always    *)
(* ends in the present: with no news left, the wrapper is rooted exactly   *)
(* when the object is shared.                                              *)
THEOREM MirrorTruth == Spec => [](TypeOK /\ NewsTellsTheTruth)
<1>1. Init => IInv
  BY DEF Init, IInv, TypeOK, NewsTellsTheTruth, LegalNews, Unwrapped
<1>2. ASSUME IInv, [Next]_vars
      PROVE  IInv'
  <2>0. ASSUME NEW o \in Objects
        PROVE  Truth(news[o], shared[o], rooted[o])
    BY <1>2, <2>0 DEF IInv, TypeOK, NewsTellsTheTruth, Truth
  <2>1. ASSUME NEW o \in Objects, Associate(o)
        PROVE  IInv'
    <3>1. Truth(<<>>, TRUE, TRUE)
      BY LegalNewsDiffer DEF Truth, LegalNews
    <3>2. news[o] = <<>>
      BY <1>2, <2>1 DEF IInv, Unwrapped, Associate
    <3>3. news' = [news EXCEPT ![o] = <<>>]
      BY <1>2, <2>1, <3>2 DEF IInv, TypeOK, Associate
    <3> QED
      BY <1>2, <2>1, <3>1, <3>3, OneObject DEF Associate
  <2>2. ASSUME NEW o \in Objects, Share(o)
        PROVE  IInv'
    <3> DEFINE n == Append(news[o], "UP")
    <3>1. Truth(n, TRUE, rooted[o])
      <4>1. news[o] \in {<<>>, <<"DOWN">>}
        BY <2>0, <2>2 DEF Truth, LegalNews, Share
      <4> QED
        BY <4>1, NewsQueues, LegalNewsDiffer DEF Truth, LegalNews
    <3>2. /\ wrapped' = [wrapped EXCEPT ![o] = TRUE]
          /\ rooted' = [rooted EXCEPT ![o] = rooted[o]]
          /\ rooted[o] \in BOOLEAN
      BY <1>2, <2>2 DEF IInv, TypeOK, Share
    <3> HIDE DEF n
    <3>3. shared' = [shared EXCEPT ![o] = TRUE] /\ news' = [news EXCEPT ![o] = n]
      BY <2>2 DEF Share, n
    <3> QED
      BY <1>2, <3>1, <3>2, <3>3, OneObject
  <2>3. ASSUME NEW o \in Objects, Unshare(o)
        PROVE  IInv'
    <3>1. Truth(<<"DOWN">>, FALSE, rooted[o])
      BY LegalNewsDiffer DEF Truth, LegalNews
    <3>2. /\ wrapped' = [wrapped EXCEPT ![o] = TRUE]
          /\ rooted' = [rooted EXCEPT ![o] = rooted[o]]
          /\ rooted[o] \in BOOLEAN
      BY <1>2, <2>3 DEF IInv, TypeOK, Unwrapped, Unshare
    <3>3. /\ shared' = [shared EXCEPT ![o] = FALSE]
          /\ news' = [news EXCEPT ![o] = <<"DOWN">>]
      BY <2>3 DEF Unshare
    <3> QED
      BY <1>2, <3>1, <3>2, <3>3, OneObject
  <2>4. ASSUME NEW o \in Objects, Deliver(o)
        PROVE  IInv'
    <3> DEFINE n == Tail(news[o])
               r == Head(news[o]) = "UP"
    <3>1. news[o] \in {<<"UP">>, <<"DOWN">>, <<"DOWN", "UP">>}
      BY <2>0, <2>4 DEF Truth, LegalNews, Deliver
    <3>2. Truth(n, shared[o], r)
      BY <2>0, <3>1, NewsQueues, LegalNewsDiffer DEF Truth, LegalNews
    <3>3. wrapped[o] /\ shared[o] \in BOOLEAN
      BY <1>2, <2>4 DEF IInv, TypeOK, Unwrapped, Deliver
    <3>4. /\ wrapped' = [wrapped EXCEPT ![o] = TRUE]
          /\ shared' = [shared EXCEPT ![o] = shared[o]]
      BY <1>2, <2>4, <3>3 DEF IInv, TypeOK, Deliver
    <3>5. rooted' = [rooted EXCEPT ![o] = r] /\ news' = [news EXCEPT ![o] = n]
      BY <2>4 DEF Deliver
    <3>6. r \in BOOLEAN
      OBVIOUS
    <3> HIDE DEF n, r
    <3> QED
      BY <1>2, <3>2, <3>3, <3>4, <3>5, <3>6, OneObject
  <2>5. CASE UNCHANGED vars
    BY <1>2, <2>5 DEF vars, IInv, TypeOK, NewsTellsTheTruth, Unwrapped
  <2> QED
    BY <1>2, <2>1, <2>2, <2>3, <2>4, <2>5 DEF Next
<1>3. IInv => TypeOK /\ NewsTellsTheTruth
  BY DEF IInv
<1> QED
  BY <1>1, <1>2, <1>3, PTL DEF Spec, SafetySpec

-----------------------------------------------------------------------------
(* Properties: the constants.  No method and no vfunc of the object's      *)
(* class has the name of a property.                                       *)
NamesApart ==
    \A name \in Names : gwkjs_hyphen_from_camel(name) \in DOMAIN GProperties => ResolvesOn(1, name) = Absent

(* One GValue is initialised for each parameter made, and none besides.    *)
CountsParams ==
    /\ \E S : params \in Seq(S)
    /\ held = Len(params)
    /\ phase # "collecting" => params = << >>

Written(t) == \E S : t \in [Names -> S]
Tables(t)  == \E S : t \in [Holders -> [Names -> S]]

(* The table has no method for a property; and what JavaScript wrote was   *)
(* converted and stored, and is what the property has.                     *)
WrittenStays ==
    /\ Tables(modules) /\ Tables(stored) /\ Written(written) /\ DOMAIN gobj = DOMAIN GProperties
    /\ \A name \in Names :
        LET g == gwkjs_hyphen_from_camel(name) IN
        /\ g \in DOMAIN GProperties => modules[Wrapper][name] \in {Unknown, Absent}
        /\ written[name] # Absent =>
            /\ phase = "alive" /\ g \in DOMAIN GProperties /\ ~GProperties[g].custom
            /\ stored[Wrapper][name] = written[name]
            /\ \E r \in ToTypedGValue(GProperties[g].gtype, written[name]) : gobj[g] = r.c

-----------------------------------------------------------------------------
LEMMA NextCountsParams == CountsParams /\ [PropertiesNext]_propertiesVars => CountsParams'
<1> SUFFICES ASSUME CountsParams, [PropertiesNext]_propertiesVars PROVE CountsParams'
  OBVIOUS
<1>1. PICK S : params \in Seq(S)
  BY DEF CountsParams
<1>2. ASSUME UNCHANGED <<params, held>>, phase' = phase \/ params = << >>
      PROVE  CountsParams'
  BY <1>2 DEF CountsParams
<1>3. CASE \E name \in Used : object_instance_get_prop(name)
  BY <1>2, <1>3 DEF object_instance_get_prop
<1>4. CASE \E name \in Assigned, v \in JsValues : object_instance_set_prop(name, v)
  BY <1>2, <1>4 DEF object_instance_set_prop
<1>5. ASSUME NEW name, NEW v, Collects(name, v) PROVE CountsParams'
  <2>1. CASE /\ phase' = "failed" /\ params' = << >> /\ held' = held - Len(params)
    <3>1. held' = 0
      BY <1>1, <2>1 DEF CountsParams
    <3>2. << >> \in Seq(S) /\ Len(<< >>) = 0
      OBVIOUS
    <3> QED
      BY <2>1, <3>1, <3>2 DEF CountsParams
  <2>2. ASSUME NEW p, params' = Append(params, p), held' = held + 1, phase = "collecting", UNCHANGED phase
        PROVE  CountsParams'
    <3>1. params \in Seq(S \union {p})
      BY <1>1, SeqMonotonic
    <3>2. params' \in Seq(S \union {p}) /\ Len(params') = Len(params) + 1
      BY <2>2, <3>1, AppendProperties
    <3> QED
      BY <2>2, <3>2 DEF CountsParams
  <2> QED
    BY <1>5, <2>1, <2>2 DEF Collects
<1>6. CASE \E h \in DOMAIN Classes : \E name \in Assigned \intersect Classes[h].methods : Patch(h, name, Method(-1))
  BY <1>2, <1>6 DEF Patch
<1>7. CASE \E name \in DOMAIN GProperties : \E c \in CValues(name) : Changes(name, c)
  BY <1>2, <1>7 DEF Changes
<1>8. CASE ChainsUp
  BY <1>2, <1>8 DEF ChainsUp, CountsParams
<1>9. CASE Constructed
  <2>1. held' = 0 /\ params' = << >> /\ << >> \in Seq(S) /\ Len(<< >>) = 0
    BY <1>1, <1>9 DEF Constructed, CountsParams
  <2> QED
    BY <2>1 DEF CountsParams
<1>10. CASE UNCHANGED propertiesVars
  BY <1>2, <1>10 DEF propertiesVars
<1> QED
  BY <1>3, <1>4, <1>5, <1>6, <1>7, <1>8, <1>9, <1>10 DEF PropertiesNext

(* Whatever the hash of a construction holds, and wherever its conversion  *)
(* fails, every GValue that object_instance_props_to_g_parameters          *)
(* initialised is unset when the construction has ended.                   *)
THEOREM ParametersAlwaysUnset == PropertiesSpec => []ParametersUnset
<1>1. PropertiesInit => CountsParams
  <2>1. << >> \in Seq({}) /\ Len(<< >>) = 0
    OBVIOUS
  <2> QED
    BY <2>1 DEF PropertiesInit, CountsParams
<1>2. CountsParams => ParametersUnset
  BY DEF CountsParams, ParametersUnset
<1> QED
  BY <1>1, <1>2, NextCountsParams, PTL DEF PropertiesSpec

-----------------------------------------------------------------------------
LEMMA Distinct == Unknown # Absent
BY DEF Unknown, Absent, JS

(* Steps that leave the wrapper's values alone.                            *)
LEMMA ValuesStay ==
    ASSUME WrittenStays, UNCHANGED <<gobj, modules, written>>, Tables(stored'),
           \A name \in Names : stored'[Wrapper][name] = stored[Wrapper][name],
           phase' = phase \/ phase # "alive"
    PROVE  WrittenStays'
BY DEF WrittenStays, Tables, Written

LEMMA WrapperIsHolder == Wrapper \in Holders
BY DEF Holders

LEMMA ReadKeepsTables ==
    ASSUME Tables(modules), Tables(stored), NEW name \in Names, object_instance_get_prop(name)
    PROVE  Tables(modules') /\ Tables(stored')
<1> DEFINE new(h)   == h \in Asked(name) /\ modules[h][name] = Unknown
           found(h) == object_instance_new_resolve(h, name)
<1>1. /\ modules' = [h \in Holders |-> [modules[h] EXCEPT ![name] = IF new(h) THEN found(h) ELSE @]]
      /\ stored' = [h \in Holders |-> [stored[h] EXCEPT ![name] =
                IF new(h) /\ found(h) # Absent THEN found(h) ELSE @]]
  BY DEF object_instance_get_prop
<1> HIDE DEF new, found
<1>3. PICK S : modules \in [Holders -> [Names -> S]]
  BY DEF Tables
<1>4. PICK T : stored \in [Holders -> [Names -> T]]
  BY DEF Tables
<1>5. Tables(modules')
  <2> DEFINE U == S \union {found(h) : h \in Holders}
  <2>1. ASSUME NEW h \in Holders, NEW n \in Names
        PROVE  modules'[h][n] \in U
    BY <1>1, <1>3
  <2>2. ASSUME NEW h \in Holders PROVE modules'[h] \in [Names -> U]
    <3>1. modules'[h] = [n \in Names |-> modules'[h][n]]
      BY <1>1, <1>3
    <3> QED
      BY <2>1, <3>1
  <2> HIDE DEF U
  <2>3. modules' \in [Holders -> [Names -> U]]
    BY <1>1, <2>2
  <2> QED
    BY <2>3 DEF Tables
<1>6. Tables(stored')
  <2> DEFINE U == T \union {found(h) : h \in Holders}
  <2>1. ASSUME NEW h \in Holders, NEW n \in Names
        PROVE  stored'[h][n] \in U
    BY <1>1, <1>4
  <2>2. ASSUME NEW h \in Holders PROVE stored'[h] \in [Names -> U]
    <3>1. stored'[h] = [n \in Names |-> stored'[h][n]]
      BY <1>1, <1>4
    <3> QED
      BY <2>1, <3>1
  <2> HIDE DEF U
  <2>3. stored' \in [Holders -> [Names -> U]]
    BY <1>1, <2>2
  <2> QED
    BY <2>3 DEF Tables
<1> QED
  BY <1>5, <1>6

(* Reading adds a name to the tables of the holders asked; a property that *)
(* was written is missing on the wrapper, so that its value stays stored.  *)
LEMMA ReadStays ==
    ASSUME NamesApart, WrittenStays, NEW name \in Names, object_instance_get_prop(name)
    PROVE  WrittenStays'
<1> DEFINE new(h)   == h \in Asked(name) /\ modules[h][name] = Unknown
           found(h) == object_instance_new_resolve(h, name)
<1>1. /\ modules' = [h \in Holders |-> [modules[h] EXCEPT ![name] = IF new(h) THEN found(h) ELSE @]]
      /\ stored' = [h \in Holders |-> [stored[h] EXCEPT ![name] =
                IF new(h) /\ found(h) # Absent THEN found(h) ELSE @]]
      /\ UNCHANGED <<phase, gobj, written>>
  BY DEF object_instance_get_prop
<1>2. /\ gwkjs_hyphen_from_camel(name) \in DOMAIN GProperties => found(Wrapper) = Absent
      /\ phase = "alive" => found(Wrapper) = Absent
  BY DEF object_instance_new_resolve, NamesApart
<1> HIDE DEF new, found
<1>3. PICK S : modules \in [Holders -> [Names -> S]]
  BY DEF WrittenStays, Tables
<1>4. PICK T : stored \in [Holders -> [Names -> T]]
  BY DEF WrittenStays, Tables
<1>5. Tables(modules') /\ Tables(stored')
  BY ReadKeepsTables DEF WrittenStays
<1>7. ASSUME NEW n \in Names
      PROVE  /\ modules'[Wrapper][n] = modules[Wrapper][n] \/ (n = name /\ modules'[Wrapper][n] = found(Wrapper))
             /\ \/ stored'[Wrapper][n] = stored[Wrapper][n]
                \/ n = name /\ found(Wrapper) # Absent
  BY <1>1, <1>3, <1>4, WrapperIsHolder
<1>8. ASSUME NEW n \in Names,
             gwkjs_hyphen_from_camel(n) \in DOMAIN GProperties
      PROVE  modules'[Wrapper][n] \in {Unknown, Absent} /\ stored'[Wrapper][n] = stored[Wrapper][n]
  BY <1>2, <1>7, <1>8 DEF WrittenStays
<1> QED
  BY <1>1, <1>5, <1>8 DEF WrittenStays

(* Writing sets the property, unless it cannot, and stores the value.      *)
LEMMA WriteStays ==
    ASSUME WrittenStays, NEW name \in Names, NEW v, object_instance_set_prop(name, v)
    PROVE  WrittenStays'
<1> DEFINE g == gwkjs_hyphen_from_camel(name)
<1>1. PICK r \in IF phase = "alive" THEN init_g_param_from_property(name, v, FALSE)
                 ELSE {[status |-> "none", c |-> NULL]} :
        /\ gobj' = IF r.status = "set" THEN [gobj EXCEPT ![g] = r.c] ELSE gobj
        /\ stored' = [stored EXCEPT ![Wrapper][name] = v]
        /\ written' = IF r.status = "set" THEN [Forget(g) EXCEPT ![name] = v]
                      ELSE [written EXCEPT ![name] = Absent]
        /\ UNCHANGED <<phase, modules>>
  BY DEF object_instance_set_prop, StoredBySet
<1>2. PICK T : stored \in [Holders -> [Names -> T]]
  BY DEF WrittenStays, Tables
<1>3. PICK S : written \in [Names -> S]
  BY DEF WrittenStays, Written
<1>4. Tables(stored') /\ Tables(modules')
  <2> DEFINE U == T \union {v}
  <2>1. stored' \in [Holders -> [Names -> U]]
    BY <1>1, <1>2, WrapperIsHolder
  <2> HIDE DEF U
  <2> QED
    BY <1>1, <2>1 DEF Tables, WrittenStays
<1>5. \A n \in Names : stored'[Wrapper][n] = IF n = name THEN v ELSE stored[Wrapper][n]
  BY <1>1, <1>2, WrapperIsHolder
<1>6. ASSUME r.status = "set"
      PROVE  /\ phase = "alive" /\ g \in DOMAIN GProperties /\ ~GProperties[g].custom
             /\ \E x \in ToTypedGValue(GProperties[g].gtype, v) : r.c = x.c
  <2>0. phase = "alive"
    <3>1. ASSUME phase # "alive" PROVE FALSE
      <4>1. r = [status |-> "none", c |-> NULL]
        BY <1>1, <3>1
      <4> QED
        BY <1>6, <4>1
    <3> QED
      BY <3>1
  <2>1. phase = "alive" /\ r \in init_g_param_from_property(name, v, FALSE)
    BY <1>1, <2>0
  <2>2. g \in DOMAIN GProperties /\ ~GProperties[g].custom
    BY <1>6, <2>1 DEF init_g_param_from_property
  <2>3. GProperties[g].writable
    BY <1>6, <2>1, <2>2 DEF init_g_param_from_property
  <2>4. r \in {[status |-> IF x.ok THEN "set" ELSE "error", c |-> x.c] :
                    x \in ToTypedGValue(GProperties[g].gtype, v)}
    BY <2>1, <2>2, <2>3 DEF init_g_param_from_property
  <2> QED
    BY <2>1, <2>2, <2>4
<1> HIDE DEF g
<1>7. CASE r.status = "set"
  <2>1. /\ gobj' = [gobj EXCEPT ![g] = r.c]
        /\ written' = [Forget(g) EXCEPT ![name] = v]
    BY <1>1, <1>7
  <2>2. DOMAIN gobj = DOMAIN GProperties /\ DOMAIN gobj' = DOMAIN GProperties /\ gobj'[g] = r.c
    BY <1>6, <1>7, <2>1 DEF WrittenStays
  <2>3. /\ written'[name] = v
        /\ \A n \in Names : n # name =>
              written'[n] = IF gwkjs_hyphen_from_camel(n) = g THEN Absent ELSE written[n]
        /\ Written(written')
    <3>1. Forget(g) \in [Names -> S \union {Absent}]
      BY <1>3 DEF Forget
    <3> DEFINE U == S \union {Absent, v}
    <3>2. written' \in [Names -> U]
      BY <2>1, <3>1
    <3> HIDE DEF U
    <3>3. Written(written')
      BY <3>2 DEF Written
    <3> QED
      BY <2>1, <3>1, <3>3 DEF Forget
  <2>4. ASSUME NEW n \in Names
        PROVE  LET p == gwkjs_hyphen_from_camel(n) IN
               /\ p \in DOMAIN GProperties => modules'[Wrapper][n] \in {Unknown, Absent}
               /\ written'[n] # Absent =>
                   /\ phase' = "alive" /\ p \in DOMAIN GProperties /\ ~GProperties[p].custom
                   /\ stored'[Wrapper][n] = written'[n]
                   /\ \E x \in ToTypedGValue(GProperties[p].gtype, written'[n]) : gobj'[p] = x.c
    <3>1. CASE n = name
      BY <1>1, <1>5, <1>6, <1>7, <2>2, <2>3, <3>1 DEF WrittenStays, g
    <3>2. CASE n # name /\ gwkjs_hyphen_from_camel(n) = g
      BY <1>1, <2>3, <3>2 DEF WrittenStays
    <3>3. CASE n # name /\ gwkjs_hyphen_from_camel(n) # g
      <4> DEFINE p == gwkjs_hyphen_from_camel(n)
      <4>1. written'[n] = written[n] /\ stored'[Wrapper][n] = stored[Wrapper][n]
        BY <1>5, <2>3, <3>3
      <4>2. p \in DOMAIN GProperties => gobj'[p] = gobj[p]
        BY <2>1, <2>2, <3>3
      <4> QED
        BY <1>1, <4>1, <4>2 DEF WrittenStays
    <3> QED
      BY <3>1, <3>2, <3>3
  <2> QED
    BY <1>4, <2>2, <2>3, <2>4 DEF WrittenStays
<1>8. CASE r.status # "set"
  <2>1. gobj' = gobj /\ written' = [written EXCEPT ![name] = Absent]
    BY <1>1, <1>8
  <2>2. Written(written')
    <3>1. written' \in [Names -> S \union {Absent}]
      BY <1>3, <2>1
    <3> QED
      BY <3>1 DEF Written
  <2>3. \A n \in Names : written'[n] = IF n = name THEN Absent ELSE written[n]
    BY <1>3, <2>1
  <2>4. \A n \in Names : written'[n] # Absent => n # name /\ written'[n] = written[n]
    BY <2>3
  <2> QED
    BY <1>1, <1>4, <1>5, <2>1, <2>2, <2>4 DEF WrittenStays
<1> QED
  BY <1>7, <1>8

LEMMA ChangeStays ==
    ASSUME WrittenStays, NEW p \in DOMAIN GProperties, NEW c, Changes(p, c)
    PROVE  WrittenStays'
<1>1. /\ gobj' = [gobj EXCEPT ![p] = c] /\ written' = Forget(p)
      /\ UNCHANGED <<phase, modules, stored>>
  BY DEF Changes
<1>2. DOMAIN gobj' = DOMAIN GProperties /\ \A q \in DOMAIN GProperties : q # p => gobj'[q] = gobj[q]
  BY <1>1 DEF WrittenStays
<1>3. PICK S : written \in [Names -> S]
  BY DEF WrittenStays, Written
<1>4. Written(written')
  <2>1. written' \in [Names -> S \union {Absent}]
    BY <1>1, <1>3 DEF Forget
  <2> QED
    BY <2>1 DEF Written
<1>5. \A n \in Names : written'[n] # Absent => gwkjs_hyphen_from_camel(n) # p /\ written'[n] = written[n]
  BY <1>1 DEF Forget
<1> QED
  BY SMTT(30), ZenonT(30), <1>1, <1>2, <1>4, <1>5 DEF WrittenStays, Tables

LEMMA NextWrittenStays ==
    ASSUME NamesApart, WrittenStays, [PropertiesNext]_propertiesVars
    PROVE  WrittenStays'
<1>1. CASE \E name \in Used : object_instance_get_prop(name)
  BY <1>1, ReadStays, PropertiesAssumption
<1>2. CASE \E name \in Assigned, v \in JsValues : object_instance_set_prop(name, v)
  BY <1>2, WriteStays, PropertiesAssumption
<1>3. CASE UNCHANGED <<gobj, modules, written, stored>> /\ (phase' = phase \/ phase # "alive")
  BY <1>3, ValuesStay DEF WrittenStays
<1>4. CASE \E name \in Names, v \in JsValues : Collects(name, v)
  BY <1>3, <1>4 DEF Collects
<1>5. ASSUME NEW h \in DOMAIN Classes, NEW name \in Names, NEW v, Patch(h, name, v)
      PROVE  WrittenStays'
  <2>1. stored' = [stored EXCEPT ![h][name] = v] /\ h # Wrapper /\ UNCHANGED <<phase, gobj, modules, written>>
    BY <1>5 DEF Patch
  <2>2. PICK T : stored \in [Holders -> [Names -> T]]
    BY DEF WrittenStays, Tables
  <2> DEFINE U == T \union {v}
  <2>3. stored' \in [Holders -> [Names -> U]] /\ stored'[Wrapper] = stored[Wrapper]
    BY <2>1, <2>2, WrapperIsHolder DEF Holders
  <2> HIDE DEF U
  <2>4. Tables(stored')
    BY <2>3 DEF Tables
  <2> QED
    BY <2>1, <2>3, <2>4, ValuesStay
<1>6. CASE \E h \in DOMAIN Classes : \E name \in Assigned \intersect Classes[h].methods : Patch(h, name, Method(-1))
  BY <1>5, <1>6, PropertiesAssumption
<1>7. CASE \E name \in DOMAIN GProperties : \E c \in CValues(name) : Changes(name, c)
  BY <1>7, ChangeStays
<1>8. CASE ChainsUp
  BY <1>3, <1>8 DEF ChainsUp
<1>9. CASE Constructed
  <2>1. phase = "collecting" /\ UNCHANGED <<modules, stored, written>> /\ DOMAIN gobj' = DOMAIN gobj
    BY <1>9 DEF Constructed
  <2> QED
    BY <2>1 DEF WrittenStays, Tables, Written
<1>10. CASE UNCHANGED propertiesVars
  BY <1>3, <1>10 DEF propertiesVars
<1> QED
  BY <1>1, <1>2, <1>4, <1>6, <1>7, <1>8, <1>9, <1>10 DEF PropertiesNext

LEMMA InitWrittenStays == PropertiesInit => WrittenStays
<1> SUFFICES ASSUME PropertiesInit PROVE WrittenStays
  OBVIOUS
<1>1. /\ modules \in [Holders -> [Names -> {Unknown}]] /\ stored \in [Holders -> [Names -> {Absent}]]
      /\ written \in [Names -> {Absent}] /\ DOMAIN gobj = DOMAIN GProperties
  BY DEF PropertiesInit
<1>2. Tables(modules) /\ Tables(stored) /\ Written(written)
  BY <1>1 DEF Tables, Written
<1> QED
  BY <1>1, <1>2, WrapperIsHolder DEF WrittenStays

(* The wrapper is asked first.                                             *)
LEMMA ReadsWrapper ==
    ASSUME NEW name, Answer(Wrapper, name) # Absent
    PROVE  Read(name) = Answer(Wrapper, name)
<1>1. Wrapper \in Answering(name) /\ Answering(name) \subseteq Holders
  BY WrapperIsHolder DEF Answering
<1>2. Min(Answering(name)) = Wrapper
  <2>1. \A h \in Answering(name) : h \in Nat
    BY <1>1, PropertiesAssumption DEF Holders, Wrapper
  <2> QED
    BY <1>1, <2>1 DEF Min, Wrapper
<1> QED
  BY <1>1, <1>2 DEF Read

(* What JavaScript wrote to a property is what it reads, directly or       *)
(* through GObject, until C gives the property another value.              *)
THEOREM WritesAreRead ==
    ASSUME NamesApart
    PROVE  PropertiesSpec => []ReadYourWrites
<1>1. WrittenStays => ReadYourWrites
  <2> SUFFICES ASSUME WrittenStays, NEW name \in Names, written[name] # Absent,
                      GProperties[gwkjs_hyphen_from_camel(name)].readable
               PROVE  \/ Read(name) = written[name]
                      \/ /\ modules[Wrapper][name] = Unknown
                         /\ LET gtype == GProperties[gwkjs_hyphen_from_camel(name)].gtype IN
                            \E r \in ToTypedGValue(gtype, written[name]) : Read(name) = FromGValue(gtype, r.c).js
    BY DEF ReadYourWrites
  <2> DEFINE g == gwkjs_hyphen_from_camel(name)
  <2>1. /\ phase = "alive" /\ g \in DOMAIN GProperties /\ ~GProperties[g].custom
        /\ stored[Wrapper][name] = written[name] /\ modules[Wrapper][name] \in {Unknown, Absent}
        /\ \E r \in ToTypedGValue(GProperties[g].gtype, written[name]) : gobj[g] = r.c
    BY DEF WrittenStays
  <2>2. object_instance_new_resolve(Wrapper, name) = Absent
    BY <2>1 DEF object_instance_new_resolve
  <2>3. CASE Answer(Wrapper, name) = written[name]
    BY <2>3, ReadsWrapper
  <2>4. CASE Answer(Wrapper, name) # written[name]
    <3>1. modules[Wrapper][name] = Unknown
      BY <2>1, <2>4, Distinct DEF Answer
    <3>2. Answer(Wrapper, name) = FromProperty(name) /\ FromProperty(name) # Absent
      BY <2>1, <2>2, <2>4, <3>1, Distinct DEF Answer
    <3>3. FromProperty(name) = FromGValue(GProperties[g].gtype, gobj[g]).js
      BY <2>1, <3>2 DEF FromProperty
    <3>4. Read(name) = FromGValue(GProperties[g].gtype, gobj[g]).js
      BY <3>2, <3>3, ReadsWrapper
    <3> QED
      BY <2>1, <3>1, <3>4
  <2> QED
    BY <2>3, <2>4
<1>2. WrittenStays /\ [PropertiesNext]_propertiesVars => WrittenStays'
  BY NextWrittenStays
<1> QED
  BY <1>1, <1>2, InitWrittenStays, PTL DEF PropertiesSpec

-----------------------------------------------------------------------------
(* Where the lookup of a holder starts: a wrapper asks for its own class.  *)
Nearest(h) == IF h = Wrapper THEN 1 ELSE h

(* A holder that was asked for a name remembers what its class has for it, *)
(* except that the wrapper, once it has a GObject, remembers it as missing *)
(* and leaves it to the prototypes; and what is stored under a name that   *)
(* JavaScript did not assign is what the class has.                        *)
Remembers ==
    /\ Tables(modules) /\ Tables(stored)
    /\ \A h \in Holders, name \in Names :
        /\ modules[h][name] \in {Unknown, Absent, ResolvesOn(Nearest(h), name)}
        /\ h # Wrapper /\ modules[h][name] # Unknown => modules[h][name] = ResolvesOn(h, name)
        /\ <<h, name>> \notin patched => stored[h][name] \in {Absent, ResolvesOn(Nearest(h), name)}

LEMMA WhatIsFound ==
    ASSUME NEW h, NEW name
    PROVE  /\ object_instance_new_resolve(h, name) \in {Absent, ResolvesOn(Nearest(h), name)}
           /\ h # Wrapper => object_instance_new_resolve(h, name) = ResolvesOn(h, name)
BY DEF object_instance_new_resolve, Nearest

LEMMA ReadRemembers ==
    ASSUME Remembers, NEW name \in Names, object_instance_get_prop(name)
    PROVE  Remembers'
<1> DEFINE new(h)   == h \in Asked(name) /\ modules[h][name] = Unknown
           found(h) == object_instance_new_resolve(h, name)
           on(h, n) == ResolvesOn(Nearest(h), n)
<1>1. /\ modules' = [h \in Holders |-> [modules[h] EXCEPT ![name] = IF new(h) THEN found(h) ELSE @]]
      /\ stored' = [h \in Holders |-> [stored[h] EXCEPT ![name] =
                IF new(h) /\ found(h) # Absent THEN found(h) ELSE @]]
      /\ patched' = patched
  BY DEF object_instance_get_prop
<1>2. \A h : /\ found(h) \in {Absent, on(h, name)}
             /\ h # Wrapper => found(h) = ResolvesOn(h, name)
  BY WhatIsFound
<1>3. Tables(modules') /\ Tables(stored')
  BY ReadKeepsTables DEF Remembers
<1>4. PICK S : modules \in [Holders -> [Names -> S]]
  BY DEF Remembers, Tables
<1>5. PICK T : stored \in [Holders -> [Names -> T]]
  BY DEF Remembers, Tables
<1> HIDE DEF new, found
<1>6. ASSUME NEW h \in Holders, NEW n \in Names
      PROVE  /\ modules'[h][n] = modules[h][n] \/ (n = name /\ modules'[h][n] = found(h))
             /\ stored'[h][n] = stored[h][n] \/ (n = name /\ stored'[h][n] = found(h))
  BY <1>1, <1>4, <1>5
<1>7. ASSUME NEW h \in Holders, NEW n \in Names
      PROVE  /\ modules'[h][n] \in {Unknown, Absent, on(h, n)}
             /\ h # Wrapper /\ modules'[h][n] # Unknown => modules'[h][n] = ResolvesOn(h, n)
             /\ <<h, n>> \notin patched' => stored'[h][n] \in {Absent, on(h, n)}
  <2>1. /\ modules[h][n] \in {Unknown, Absent, on(h, n)}
        /\ h # Wrapper /\ modules[h][n] # Unknown => modules[h][n] = ResolvesOn(h, n)
        /\ <<h, n>> \notin patched => stored[h][n] \in {Absent, on(h, n)}
    BY DEF Remembers
  <2> HIDE DEF on
  <2> QED
    BY <1>1, <1>2, <1>6, <2>1
<1> QED
  BY <1>3, <1>7 DEF Remembers

(* A name that JavaScript assigns is no longer the class's.                *)
LEMMA AssignRemembers ==
    ASSUME Remembers, NEW h \in Holders, NEW name \in Names, NEW v,
           stored' = [stored EXCEPT ![h][name] = v], modules' = modules,
           patched' = patched \union {<<h, name>>}
    PROVE  Remembers'
<1>1. PICK T : stored \in [Holders -> [Names -> T]]
  BY DEF Remembers, Tables
<1>2. Tables(modules') /\ Tables(stored')
  <2> DEFINE U == T \union {v}
  <2>1. stored' \in [Holders -> [Names -> U]]
    BY <1>1
  <2> HIDE DEF U
  <2> QED
    BY <2>1 DEF Tables, Remembers
<1>3. ASSUME NEW k \in Holders, NEW n \in Names, <<k, n>> \notin patched'
      PROVE  <<k, n>> \notin patched /\ stored'[k][n] = stored[k][n]
  BY <1>1, <1>3
<1> QED
  BY <1>2, <1>3 DEF Remembers

LEMMA NextRemembers ==
    ASSUME Remembers, [PropertiesNext]_propertiesVars
    PROVE  Remembers'
<1>1. CASE \E name \in Used : object_instance_get_prop(name)
  BY <1>1, ReadRemembers, PropertiesAssumption
<1>2. CASE \E name \in Assigned, v \in JsValues : object_instance_set_prop(name, v)
  <2>1. PICK name \in Assigned, v \in JsValues : object_instance_set_prop(name, v)
    BY <1>2
  <2>2. /\ stored' = [stored EXCEPT ![Wrapper][name] = v] /\ modules' = modules
        /\ patched' = patched \union {<<Wrapper, name>>}
    BY <2>1 DEF object_instance_set_prop, StoredBySet
  <2> QED
    BY <2>2, AssignRemembers, WrapperIsHolder, PropertiesAssumption
<1>3. CASE \E h \in DOMAIN Classes : \E name \in Assigned \intersect Classes[h].methods : Patch(h, name, Method(-1))
  <2>1. PICK h \in DOMAIN Classes : \E name \in Assigned : Patch(h, name, Method(-1))
    BY <1>3
  <2>2. PICK name \in Assigned : Patch(h, name, Method(-1))
    BY <2>1
  <2>3. h \in Holders /\ name \in Names
    BY PropertiesAssumption DEF Holders
  <2> QED
    BY <2>2, <2>3, AssignRemembers DEF Patch
<1>4. CASE UNCHANGED <<modules, stored, patched>>
  BY <1>4 DEF Remembers, Tables
<1>5. CASE \E name \in Names, v \in JsValues : Collects(name, v)
  BY <1>4, <1>5 DEF Collects
<1>6. CASE \E name \in DOMAIN GProperties : \E c \in CValues(name) : Changes(name, c)
  BY <1>4, <1>6 DEF Changes
<1>7. CASE ChainsUp \/ Constructed
  BY <1>4, <1>7 DEF ChainsUp, Constructed
<1>8. CASE UNCHANGED propertiesVars
  BY <1>4, <1>8 DEF propertiesVars
<1> QED
  BY <1>1, <1>2, <1>3, <1>5, <1>6, <1>7, <1>8 DEF PropertiesNext

LEMMA InitRemembers == PropertiesInit => Remembers
<1> SUFFICES ASSUME PropertiesInit PROVE Remembers
  OBVIOUS
<1>1. modules \in [Holders -> [Names -> {Unknown}]] /\ stored \in [Holders -> [Names -> {Absent}]]
  BY DEF PropertiesInit
<1>2. Tables(modules) /\ Tables(stored)
  BY <1>1 DEF Tables
<1> QED
  BY <1>1, <1>2 DEF Remembers

-----------------------------------------------------------------------------
LEMMA LeastNumber ==
    ASSUME NEW T \in SUBSET Nat, T # {}
    PROVE  Min(T) \in T /\ \A y \in T : Min(T) <= y
<1> DEFINE Smaller == {ss \in Nat \X Nat : ss[1] < ss[2]}
<1>1. IsWellFoundedOn(Smaller, Nat)
  BY NatLessThanWellFounded, Zenon DEF OpToRel
<1>2. PICK x \in T : \A y \in T : <<y, x>> \notin Smaller
  BY <1>1, WFMin, Zenon
<1>3. ASSUME NEW y \in T PROVE x <= y
  <2>1. <<y, x>> \in Nat \X Nat /\ <<y, x>>[1] = y /\ <<y, x>>[2] = x
    OBVIOUS
  <2> QED
    BY <1>2, <2>1
<1> QED
  BY <1>3 DEF Min

LEMMA GreatestNumber ==
    ASSUME NEW n \in Nat, NEW S \in SUBSET (1..n), S # {}
    PROVE  Max(S) \in S
<1> DEFINE T == {n - x : x \in S}
<1>1. T \in SUBSET Nat /\ T # {}
  <2>1. \A x \in S : n - x \in Nat
    OBVIOUS
  <2>2. T \subseteq Nat
    BY <2>1
  <2>3. PICK x \in S : TRUE
    OBVIOUS
  <2>4. n - x \in T
    OBVIOUS
  <2> QED
    BY <2>2, <2>4
<1>2. PICK m \in T : \A y \in T : m <= y
  <2> HIDE DEF T
  <2> QED
    BY <1>1, LeastNumber
<1>3. PICK g \in S : m = n - g
  OBVIOUS
<1>4. ASSUME NEW x \in S PROVE g >= x
  <2>1. n - x \in T
    OBVIOUS
  <2>2. n - g <= n - x
    BY <1>2, <1>3, <2>1
  <2> QED
    BY <2>2
<1> QED
  BY <1>3, <1>4 DEF Max

(* The kinds of answers differ.                                            *)
LEMMA KindsDiffer ==
    /\ Absent.is = "absent" /\ Absent # Unknown
    /\ \A h : Method(h) # Absent /\ Method(h).is = "function"
    /\ \A i : Interfaced(i) # Absent /\ Interfaced(i).is = "interface" /\ Interfaced(i).n = i
    /\ \A h : Vfunc(h) # Absent /\ Vfunc(h).is = "vfunc" /\ Vfunc(h).n = h
BY DEF Absent, Unknown, Method, Interfaced, Vfunc, JS

(* The object has no property that this name may stand for.                *)
Plain(name) == name \in Names /\ Unpatched(name) /\ gwkjs_hyphen_from_camel(name) \notin DOMAIN GProperties

(* What a holder answers, whatever it remembers.                           *)
LEMMA AnswersRight ==
    ASSUME Remembers, NEW name, Plain(name), NEW h \in Holders
    PROVE  /\ h # Wrapper => Answer(h, name) = ResolvesOn(h, name)
           /\ h = Wrapper => Answer(h, name) \in {Absent, ResolvesOn(1, name)}
<1> DEFINE found == object_instance_new_resolve(h, name)
           r     == ResolvesOn(Nearest(h), name)
<1>1. /\ modules[h][name] \in {Unknown, Absent, r}
      /\ h # Wrapper /\ modules[h][name] # Unknown => modules[h][name] = r
      /\ stored[h][name] \in {Absent, r}
  BY DEF Remembers, Plain, Unpatched, Nearest
<1>2. found \in {Absent, r} /\ (h # Wrapper => found = r)
  BY WhatIsFound DEF Nearest
<1>3. FromProperty(name) = Absent
  BY DEF FromProperty, Plain
<1>4. /\ modules[h][name] \notin {Unknown, Absent} => Answer(h, name) = modules[h][name]
      /\ modules[h][name] = Absent => Answer(h, name) = stored[h][name]
      /\ modules[h][name] = Unknown => Answer(h, name) = IF found # Absent THEN found ELSE stored[h][name]
  BY <1>3, KindsDiffer DEF Answer
<1> HIDE DEF found, r
<1>5. Answer(h, name) \in {Absent, r} /\ (h # Wrapper => Answer(h, name) = r)
  BY <1>1, <1>2, <1>4, KindsDiffer
<1> QED
  BY <1>5 DEF r, Nearest

(* So reading the name gives what the nearest class that has something for *)
(* it gives.                                                               *)
LEMMA ReadsNearest ==
    ASSUME Remembers, NEW name, Plain(name),
           NEW k \in DOMAIN Classes, ResolvesOn(k, name) # Absent,
           \A j \in DOMAIN Classes : j < k => ResolvesOn(j, name) = Absent
    PROVE  Read(name) = ResolvesOn(k, name)
<1>1. DOMAIN Classes = 1..Len(Classes) /\ Len(Classes) \in Nat /\ k \in Nat /\ k >= 1
  BY PropertiesAssumption
<1>2. k \in Holders /\ k # Wrapper /\ Holders \subseteq Nat
  BY <1>1 DEF Holders, Wrapper
<1>3. Answer(k, name) = ResolvesOn(k, name)
  BY <1>2, AnswersRight
<1> DEFINE A == Answering(name)
           m == Min(A)
<1>4. A \in SUBSET Nat /\ A # {} /\ k \in A
  BY <1>2, <1>3 DEF Answering
<1>5. m \in A /\ m <= k
  <2> HIDE DEF A
  <2> QED
    BY <1>4, LeastNumber
<1>6. m \in Holders /\ Answer(m, name) # Absent /\ m \in Nat
  BY <1>2, <1>5 DEF Answering
<1>7. Read(name) = Answer(m, name)
  BY <1>4 DEF Read
<1> HIDE DEF m, A
<1>8. CASE m = Wrapper
  <2>1. Answer(m, name) = ResolvesOn(1, name) /\ ResolvesOn(1, name) # Absent
    BY <1>6, <1>8, AnswersRight
  <2>2. 1 \in DOMAIN Classes /\ (1 < k \/ k = 1)
    BY <1>1
  <2>3. k = 1
    BY <2>1, <2>2
  <2> QED
    BY <1>7, <2>1, <2>3
<1>9. CASE m # Wrapper
  <2>1. m \in DOMAIN Classes
    BY <1>6, <1>9 DEF Holders
  <2>2. Answer(m, name) = ResolvesOn(m, name) /\ ResolvesOn(m, name) # Absent
    BY <1>6, <1>9, AnswersRight
  <2>3. m = k
    BY <1>1, <1>5, <1>6, <2>1, <2>2
  <2> QED
    BY <1>7, <2>2, <2>3
<1> QED
  BY <1>8, <1>9

-----------------------------------------------------------------------------
(* The last interface that has a method, of those of a class or above it.  *)
LEMMA LooksThroughInterfaces ==
    ASSUME NEW h \in DOMAIN Classes, NEW name
    PROVE  LET has(i) == /\ i \in DOMAIN Interfaces /\ name \in Interfaces[i].methods
                         /\ \E k \in DOMAIN Classes : k >= h /\ i \in Range(Classes[k].interfaces)
           IN \/ (\A i : ~has(i)) /\ object_instance_new_resolve_no_info(h, name) = Absent
              \/ \E i : has(i) /\ object_instance_new_resolve_no_info(h, name) = Interfaced(i)
<1> DEFINE S == {i \in DOMAIN Interfaces :
                    /\ name \in Interfaces[i].methods
                    /\ \E k \in DOMAIN Classes : k >= h /\ i \in Range(Classes[k].interfaces)}
<1>1. object_instance_new_resolve_no_info(h, name) = IF S = {} THEN Absent ELSE Interfaced(Max(S))
  BY DEF object_instance_new_resolve_no_info
<1>2. S \in SUBSET (1..Len(Interfaces)) /\ Len(Interfaces) \in Nat
  BY PropertiesAssumption
<1>3. S # {} => Max(S) \in S
  <2> HIDE DEF S
  <2> QED
    BY <1>2, GreatestNumber
<1>4. CASE S = {}
  BY <1>1, <1>4
<1>5. CASE S # {}
  <2>1. Max(S) \in S
    BY <1>3, <1>5
  <2> DEFINE i == Max(S)
  <2>2. object_instance_new_resolve_no_info(h, name) = Interfaced(i)
    BY <1>1, <1>5
  <2> HIDE DEF i
  <2> QED
    BY <2>1, <2>2 DEF i
<1> QED
  BY <1>4, <1>5

(* A class that does not provide a method itself.                          *)
LEMMA NotProvidedHere ==
    ASSUME NEW h \in DOMAIN Classes, NEW name, name \notin Provided(h)
    PROVE  find_method(h, name) = object_instance_new_resolve_no_info(h, name)
<1> DEFINE own == {n \in DOMAIN Classes[h].interfaces : name \in Interfaces[Classes[h].interfaces[n]].methods}
<1>1. name \notin Classes[h].methods
  BY DEF Provided
<1>2. own = {}
  BY DEF Provided, Range
<1> QED
  BY <1>1, <1>2 DEF find_method

(* Names of methods that mean one thing.                                   *)
LEMMA MethodsFound ==
    ASSUME Remembers, NEW name, Plain(name), ~Ambiguous(name),
           NEW p \in DOMAIN Classes, name \in Provided(p)
    PROVE  MethodResolves(name)
<1> DEFINE K == {k \in DOMAIN Classes : name \in Provided(k)}
           h == Min(K)
<1>1. DOMAIN Classes = 1..Len(Classes) /\ Len(Classes) \in Nat
  BY PropertiesAssumption
<1>2. h \in K /\ \A k \in K : h <= k
  <2>1. K \in SUBSET Nat /\ K # {}
    BY <1>1
  <2> HIDE DEF K
  <2> QED
    BY <2>1, LeastNumber
<1>3. h \in DOMAIN Classes /\ name \in Provided(h) /\ h \in Nat /\ h >= 1
  BY <1>1, <1>2
<1>4. \A j \in DOMAIN Classes : j < h => name \notin Provided(j)
  BY <1>1, <1>2
<1>5. MethodResolves(name) =
        IF name \in Classes[h].methods THEN Read(name) = Method(h)
        ELSE Read(name).is = "interface" /\ name \in Interfaces[Read(name).n].methods
  BY DEF MethodResolves
<1> HIDE DEF h, K
<1>6. ASSUME NEW j \in DOMAIN Classes
      PROVE  ResolvesOn(j, name) = IF Classes[j].described THEN find_method(j, name)
                                   ELSE object_instance_new_resolve_no_info(j, name)
  BY DEF ResolvesOn, Ambiguous
<1>7. CASE name \in Classes[h].methods
  <2>1. \A i \in DOMAIN Interfaces : name \notin Interfaces[i].methods
    BY <1>3, <1>7 DEF Ambiguous
  <2>2. ASSUME NEW j \in DOMAIN Classes, j < h
        PROVE  ResolvesOn(j, name) = Absent
    <3>1. object_instance_new_resolve_no_info(j, name) = Absent
      BY <2>1, LooksThroughInterfaces
    <3>2. find_method(j, name) = Absent
      BY <1>4, <2>2, <3>1, NotProvidedHere
    <3> QED
      BY <1>6, <3>1, <3>2
  <2>3. ResolvesOn(h, name) = Method(h)
    <3>1. Classes[h].described
      BY <1>3, <1>7, PropertiesAssumption
    <3> QED
      BY <1>3, <1>6, <1>7, <3>1 DEF find_method
  <2>4. Read(name) = Method(h)
    BY <1>3, <2>2, <2>3, KindsDiffer, ReadsNearest
  <2> QED
    BY <1>5, <1>7, <2>4
<1>8. CASE name \notin Classes[h].methods
  <2>1. PICK i \in Range(Classes[h].interfaces) : name \in Interfaces[i].methods
    BY <1>3, <1>8 DEF Provided
  <2>2. i \in DOMAIN Interfaces
    BY <1>3, <2>1, PropertiesAssumption
  <2>3. 1 \in DOMAIN Classes /\ 1 <= h
    BY <1>1, <1>3
  <2>4. \A j \in DOMAIN Classes : name \notin Classes[j].methods
    BY <2>1, <2>2 DEF Ambiguous
  <2>5. PICK f : /\ f \in DOMAIN Interfaces /\ name \in Interfaces[f].methods
                 /\ object_instance_new_resolve_no_info(1, name) = Interfaced(f)
    BY <1>3, <2>1, <2>2, <2>3, LooksThroughInterfaces
  <2>6. \E g : name \in Interfaces[g].methods /\ ResolvesOn(1, name) = Interfaced(g)
    <3>1. CASE ~Classes[1].described \/ name \notin Provided(1)
      BY <1>6, <2>3, <2>5, <3>1, NotProvidedHere
    <3>2. CASE Classes[1].described /\ name \in Provided(1)
      <4> DEFINE own == {n \in DOMAIN Classes[1].interfaces : name \in Interfaces[Classes[1].interfaces[n]].methods}
      <4>1. own \in SUBSET Nat
        BY <2>3, PropertiesAssumption
      <4>2. own # {}
        <5>1. PICK g \in Range(Classes[1].interfaces) : name \in Interfaces[g].methods
          BY <2>3, <2>4, <3>2 DEF Provided
        <5>2. PICK n \in DOMAIN Classes[1].interfaces : g = Classes[1].interfaces[n]
          BY <5>1 DEF Range
        <5> QED
          BY <5>1, <5>2
      <4>3. find_method(1, name) = Interfaced(Classes[1].interfaces[Min(own)])
        BY <2>3, <2>4, <4>2 DEF find_method
      <4>4. Min(own) \in own
        <5> HIDE DEF own
        <5> QED
          BY <4>1, <4>2, LeastNumber
      <4> QED
        BY <1>6, <2>3, <3>2, <4>3, <4>4
    <3> QED
      BY <3>1, <3>2
  <2>7. PICK g : name \in Interfaces[g].methods /\ ResolvesOn(1, name) = Interfaced(g)
    BY <2>6
  <2>8. \A j \in DOMAIN Classes : ~(j < 1)
    BY <1>1
  <2>9. Read(name) = Interfaced(g)
    BY <2>3, <2>7, <2>8, KindsDiffer, ReadsNearest
  <2> QED
    BY <1>5, <1>8, <2>7, <2>9, KindsDiffer
<1> QED
  BY <1>7, <1>8

(* Names of vfuncs.  No class below the nearest one that has something for *)
(* the name overrides the vfunc: it would have had its own.                *)
LEMMA VfuncsFound ==
    ASSUME Remembers, NEW name, Plain(name), name \in DOMAIN Vfuncs,
           \A k \in DOMAIN Classes : name \notin Provided(k), Introspected(Vfuncs[name])
    PROVE  VfuncResolves(name)
<1> DEFINE v == Vfuncs[name]
           K == {k \in DOMAIN Classes : ResolvesOn(k, name) # Absent}
           h == Min(K)
<1>1. DOMAIN Classes = 1..Len(Classes) /\ Len(Classes) \in Nat
  BY PropertiesAssumption
<1>2. ASSUME NEW k \in DOMAIN Classes
      PROVE  ResolvesOn(k, name) = IF /\ Classes[k].described /\ find_vfunc_on_parents(k, v)
                                      /\ ~is_vfunc_unchanged(k, v)
                                   THEN Vfunc(k) ELSE Absent
  <2>1. object_instance_new_resolve_no_info(k, name) = Absent
    <3>1. \A j \in DOMAIN Classes : \A i \in Range(Classes[j].interfaces) : name \notin Interfaces[i].methods
      BY DEF Provided
    <3> QED
      BY <3>1, LooksThroughInterfaces
  <2>2. find_method(k, name) = Absent
    BY <2>1, NotProvidedHere
  <2> QED
    BY <2>1, <2>2 DEF ResolvesOn
<1>3. K # {}
  <2>1. PICK k \in DOMAIN Classes : Classes[k].described /\ Declares(k, v)
    BY DEF Introspected
  <2>2. find_vfunc_on_parents(k, v) /\ ~is_vfunc_unchanged(k, v)
    BY <2>1 DEF find_vfunc_on_parents, is_vfunc_unchanged
  <2> QED
    BY <1>2, <2>1, <2>2, KindsDiffer
<1>4. h \in K /\ \A k \in K : h <= k
  <2>1. K \in SUBSET Nat
    BY <1>1
  <2> HIDE DEF K
  <2> QED
    BY <1>3, <2>1, LeastNumber
<1> HIDE DEF h
<1>5. /\ h \in DOMAIN Classes /\ ResolvesOn(h, name) # Absent /\ h \in Nat /\ h >= 1
      /\ \A j \in DOMAIN Classes : j < h => ResolvesOn(j, name) = Absent
  <2>1. h \in DOMAIN Classes /\ ResolvesOn(h, name) # Absent
    BY <1>4
  <2>2. ASSUME NEW j \in DOMAIN Classes, j < h PROVE ResolvesOn(j, name) = Absent
    <3>1. j \in Nat /\ h \in Nat /\ ~(h <= j)
      BY <1>1, <2>1, <2>2
    <3> QED
      BY <1>4, <3>1
  <2> QED
    BY <1>1, <2>1, <2>2
<1> HIDE DEF K
<1>6. Read(name) = Vfunc(h)
  BY <1>2, <1>5, ReadsNearest
<1>7. ASSUME NEW j \in DOMAIN Classes, j < h
      PROVE  v \notin Classes[j].overrides
  <2> SUFFICES ASSUME v \in Classes[j].overrides PROVE FALSE
    OBVIOUS
  <2>1. j \in Nat /\ j >= 1
    BY <1>1
  <2>2. j \in Implementing(1, v)
    BY <2>1 DEF Implementing
  <2>3. Classes[j].described /\ find_vfunc_on_parents(j, v)
    BY <2>2 DEF Introspected
  <2>4. Implementing(j + 1, v) # {} /\ Address(j, v) = Address(j + 1, v)
    BY <1>2, <1>5, <1>7, <2>3, KindsDiffer DEF is_vfunc_unchanged
  <2>5. Implementing(j, v) \in SUBSET Nat /\ Implementing(j + 1, v) \in SUBSET Nat /\ j \in Implementing(j, v)
    BY <1>1, <2>1 DEF Implementing
  <2>6. Address(j, v) <= j
    BY <2>5, LeastNumber DEF Address
  <2>7. Address(j + 1, v) \in Implementing(j + 1, v)
    BY <2>4, <2>5, LeastNumber DEF Address
  <2>8. Address(j + 1, v) \in Nat /\ Address(j + 1, v) >= j + 1
    BY <2>5, <2>7 DEF Implementing
  <2> QED
    BY <2>1, <2>4, <2>6, <2>8
<1>8. Implementing(h, v) = Implementing(1, v)
  <2>1. ASSUME NEW j \in DOMAIN Classes, v \in Classes[j].overrides
        PROVE  j >= h /\ j >= 1
    BY <1>1, <1>5, <1>7, <2>1
  <2> QED
    BY <2>1 DEF Implementing
<1>9. Address(h, v) = Address(1, v)
  BY <1>8 DEF Address
<1> QED
  BY <1>6, <1>9, KindsDiffer DEF VfuncResolves

(* Whatever was read before, written and constructed, and wherever a name  *)
(* was remembered as missing, a wrapper has the method of the nearest      *)
(* class or interface and the vfunc that the object's class runs.          *)
THEOREM MethodsAreFound == PropertiesSpec => []MethodsResolve
<1>1. Remembers => MethodsResolve
  <2> SUFFICES ASSUME Remembers, NEW name \in Names, Unpatched(name),
                      gwkjs_hyphen_from_camel(name) \notin DOMAIN GProperties
               PROVE  LET provided == \E k \in DOMAIN Classes : name \in Provided(k) IN
                      /\ provided /\ ~Ambiguous(name) => MethodResolves(name)
                      /\ ~provided /\ name \in DOMAIN Vfuncs /\ Introspected(Vfuncs[name]) => VfuncResolves(name)
    BY DEF MethodsResolve
  <2>1. Plain(name)
    BY DEF Plain
  <2> QED
    BY <2>1, MethodsFound, VfuncsFound
<1> QED
  BY <1>1, InitRemembers, NextRemembers, PTL DEF PropertiesSpec

-----------------------------------------------------------------------------
(* Numbers, and what is left of them in an integer of w bits.              *)
LEMMA HalvesGrow ==
    /\ \A w \in Widths : Half[w] \in Nat /\ Half[w] > 0 /\ Half[w] <= Half[64]
    /\ Half[8] < Half[16] /\ Half[16] < Half[32] /\ Half[32] < Half[64]
    /\ Widths = {8, 16, 32, 64}
<1>1. \A w \in Widths : Half[w] \in Nat \ {0}
  BY NumbersAssumption
<1>2. Half[8] \in Nat /\ Half[16] \in Nat /\ Half[32] \in Nat /\ Half[64] \in Nat
  BY <1>1 DEF Widths
<1>3. Half[8] < Half[16] /\ Half[16] < Half[32] /\ Half[32] < Half[64]
  BY NumbersAssumption
<1>4. \A w \in Widths : Half[w] <= Half[64]
  BY <1>2, <1>3 DEF Widths
<1> QED
  BY <1>1, <1>3, <1>4 DEF Widths

LEMMA Divides ==
    ASSUME NEW m \in Nat \ {0}, NEW a \in Int, a % m = 0
    PROVE  a = m * (a \div m)
OBVIOUS

LEMMA WholeHalves ==
    ASSUME NEW w \in Widths
    PROVE  \E k \in Int : 2 * Half[64] = k * (2 * Half[w])
<1> DEFINE a == Half[64]
           m == Half[w]
<1>1. a \in Int /\ m \in Nat \ {0} /\ a % m = 0
  BY HalvesGrow, NumbersAssumption
<1> HIDE DEF a, m
<1>2. a = m * (a \div m)
  BY <1>1, Divides
<1>3. PICK k \in Int : k = a \div m
  BY <1>1
<1>4. 2 * a = k * (2 * m)
  BY <1>1, <1>2, <1>3
<1> QED
  BY <1>4 DEF a, m

LEMMA Remainder ==
    ASSUME NEW m \in Nat \ {0}, NEW q \in Int, NEW r \in 0..(m - 1), NEW a \in Int, a = q * m + r
    PROVE  a % m = r
OBVIOUS

(* A number of a type survives a register of 64 bits.                      *)
LEMMA RegisterKeeps ==
    ASSUME NEW w \in Widths, NEW i \in Int
    PROVE  /\ i \in SInt(w) => Wrap(UWrap(i, 64), w) = i
           /\ i \in UInt(w) => UWrap(UWrap(i, 64), w) = i
<1> DEFINE H == Half[w]
           G == Half[64]
<1>1. /\ H \in Nat /\ H > 0 /\ G \in Nat /\ H <= G
      /\ 2 * G \in Nat \ {0} /\ 2 * H \in Nat \ {0}
  BY HalvesGrow
<1>2. PICK k \in Int : 2 * G = k * (2 * H)
  BY WholeHalves
<1> HIDE DEF H, G
<1>3. ASSUME NEW j \in 0..(2 * G - 1)
      PROVE  j % (2 * G) = j
  BY <1>1
<1>4. ASSUME i \in UInt(w) PROVE UWrap(UWrap(i, 64), w) = i
  <2>1. i \in 0..(2 * H - 1)
    BY <1>4 DEF UInt, UHighest, H
  <2>2. i \in 0..(2 * G - 1)
    BY <1>1, <2>1
  <2>3. i % (2 * G) = i /\ i % (2 * H) = i
    BY <1>1, <1>3, <2>1, <2>2
  <2>4. UWrap(i, 64) = i
    BY <2>3 DEF UWrap, G
  <2>5. UWrap(i, w) = i
    BY <2>3 DEF UWrap, H
  <2>6. UWrap(UWrap(i, 64), w) = i
    BY <2>4, <2>5
  <2> QED
    BY <2>6
<1>5. ASSUME i \in SInt(w) PROVE Wrap(UWrap(i, 64), w) = i
  <2>1. i >= -H /\ i <= H - 1
    BY <1>1, <1>5 DEF SInt, Lowest, Highest, H
  <2>2. i + H \in 0..(2 * H - 1)
    BY <1>1, <2>1
  <2>3. CASE i >= 0
    <3>1. i \in 0..(2 * G - 1)
      BY <1>1, <2>1, <2>3
    <3>2. i % (2 * G) = i /\ (i + H) % (2 * H) = i + H
      BY <1>1, <1>3, <2>2, <3>1
    <3>3. UWrap(i, 64) = i
      BY <3>2 DEF UWrap, G
    <3>4. Wrap(i, w) = i
      BY <1>1, <3>2 DEF Wrap, H
    <3> QED
      BY <3>3, <3>4
  <2>4. CASE i < 0
    <3>1. i + 2 * G \in 0..(2 * G - 1) /\ i = (-1) * (2 * G) + (i + 2 * G)
      BY <1>1, <2>1, <2>4
    <3>2. i % (2 * G) = i + 2 * G
      BY <1>1, <3>1, Remainder
    <3>3. PICK a \in Int, r \in Int : a = (i + 2 * G) + H /\ r = i + H
      BY <1>1
    <3>31. a = k * (2 * H) + r /\ r \in 0..((2 * H) - 1)
      BY <1>1, <1>2, <2>2, <3>3
    <3>32. a % (2 * H) = r
      BY <1>1, <3>31, Remainder
    <3>4. ((i + 2 * G) + H) % (2 * H) = i + H
      BY <3>3, <3>32
    <3>5. UWrap(i, 64) = i + 2 * G
      BY <3>2 DEF UWrap, G
    <3>6. Wrap(i + 2 * G, w) = i
      BY <1>1, <3>4 DEF Wrap, H
    <3> QED
      BY <3>5, <3>6
  <2> QED
    BY <2>1, <2>3, <2>4
<1> QED
  BY <1>4, <1>5

-----------------------------------------------------------------------------
(* What IntegersExact says of a conversion to an integer of type tag.      *)
Unchecked(tag, n) ==
    LET i == Truncated(n) IN
    \/ tag = "int32"
    \/ tag \in {"uint8", "uint16"} /\ i \notin UInt(32)
    \/ tag = "int64" /\ n = 2 * Half[64]
    \/ tag = "uint64" /\ i > UHighest(64)

Refusable(tag, n) ==
    \/ Truncated(n) \notin RangeOf(tag)
    \/ tag \in {"int64", "uint64", "uint32"} /\ n \notin {2 * k : k \in RangeOf(tag)}

Exact(tag, n, r) ==
    /\ r.ok => /\ r.n = Truncated(n) \/ Unchecked(tag, n)
               /\ r.n = Truncated(n) /\ ~Unchecked(tag, n) => r.n \in RangeOf(tag)
    /\ ~r.ok => Refusable(tag, n)

LEMMA Halving ==
    ASSUME NEW n \in Int
    PROVE  /\ Truncated(n) \in Int
           /\ \A k \in Int : n <= 2 * k /\ n >= 0 => Truncated(n) <= k
           /\ \A k \in Int : n >= 2 * k /\ n <= 0 => Truncated(n) >= k
           /\ n >= 0 => Truncated(n) >= 0
           /\ n <= 0 => Truncated(n) <= 0
           /\ \A k \in Int : Truncated(n) = k /\ k > 0 /\ n <= 2 * k => n = 2 * k
BY DEF Truncated

(* A cast of a number.                                                     *)
LEMMA CastsSigned ==
    ASSUME NEW n \in Int, NEW v, v.is = "number", v.n = n, NEW w \in Widths, NEW i \in CastInt(v, w)
    PROVE  /\ Truncated(n) \in SInt(w) => i = Truncated(n)
           /\ Truncated(n) \notin SInt(w) => i \in {Lowest(w), Highest(w)}
BY DEF CastInt

LEMMA CastsUnsigned ==
    ASSUME NEW n \in Int, NEW v, v.is = "number", v.n = n, NEW w \in Widths, NEW i \in CastUInt(v, w)
    PROVE  Truncated(n) \in UInt(w) => i = Truncated(n)
BY DEF CastUInt

LEMMA IntegersConvert ==
    ASSUME NEW v, v.is = "number", v.n \in Int, NEW tag \in IntegerTags, NEW r \in IntegerArgument(tag, v)
    PROVE  Exact(tag, v.n, r)
<1> DEFINE n == v.n
           i == Truncated(n)
<1>0. /\ Half[8] \in Nat /\ Half[16] \in Nat /\ Half[32] \in Nat /\ Half[64] \in Nat
      /\ 0 < Half[8] /\ Half[8] < Half[16] /\ Half[16] < Half[32] /\ Half[32] < Half[64]
      /\ {8, 16, 32, 64} = Widths
  BY HalvesGrow
<1>1. JSValueToNumber(v) = v /\ Numeric(v)
  BY DEF JSValueToNumber, Numeric
<1>2. i \in Int
  BY Halving
<1>3. /\ gwkjs_jsvalue_to_int(v) = Converted(CastInt(v, 32))
      /\ gwkjs_jsvalue_to_uint(v) = Converted(CastUInt(v, 32))
  BY <1>1 DEF gwkjs_jsvalue_to_int, gwkjs_jsvalue_to_uint
<1> HIDE DEF n, i
<1>4. ASSUME NEW w \in {8, 16}, NEW x \in InRange(gwkjs_jsvalue_to_int(v), SInt(w))
      PROVE  IF x.ok THEN x.n = i /\ i \in SInt(w) ELSE i \notin SInt(w)
  <2>1. PICK y \in Converted(CastInt(v, 32)) : x = IF y.ok /\ y.n \in SInt(w) THEN y ELSE [ok |-> FALSE, n |-> 0]
    BY <1>3, <1>4 DEF InRange
  <2>2. PICK j \in CastInt(v, 32) : y = [ok |-> TRUE, n |-> j]
    BY <2>1 DEF Converted
  <2>3. /\ i \in SInt(32) => j = i
        /\ i \notin SInt(32) => j \in {Lowest(32), Highest(32)}
    BY <1>0, CastsSigned DEF n, i
  <2>4. Half[w] \in Nat /\ Half[w] < Half[32] /\ SInt(w) = (-Half[w])..(Half[w] - 1)
    BY <1>0, <1>4 DEF SInt, Lowest, Highest
  <2>5. SInt(w) \subseteq SInt(32)
    BY <1>0, <2>4 DEF SInt, Lowest, Highest
  <2>6. Lowest(32) \notin SInt(w) /\ Highest(32) \notin SInt(w)
    BY <1>0, <2>4 DEF Lowest, Highest
  <2> QED
    BY <2>1, <2>2, <2>3, <2>5, <2>6
<1>5. ASSUME NEW w \in {8, 16}, NEW x \in InRange(gwkjs_jsvalue_to_uint(v), UInt(w))
      PROVE  IF x.ok THEN (x.n = i /\ i \in UInt(w)) \/ i \notin UInt(32) ELSE i \notin UInt(w)
  <2>1. PICK y \in Converted(CastUInt(v, 32)) : x = IF y.ok /\ y.n \in UInt(w) THEN y ELSE [ok |-> FALSE, n |-> 0]
    BY <1>3, <1>5 DEF InRange
  <2>2. PICK j \in CastUInt(v, 32) : y = [ok |-> TRUE, n |-> j]
    BY <2>1 DEF Converted
  <2>3. i \in UInt(32) => j = i
    BY <1>0, CastsUnsigned DEF n, i
  <2>4. UInt(w) \subseteq UInt(32)
    BY <1>0 DEF UInt, UHighest
  <2> QED
    BY <2>1, <2>2, <2>3, <2>4
<1> HIDE DEF n
<1>6. CASE tag = "int8"
  <2>1. r \in InRange(gwkjs_jsvalue_to_int(v), SInt(8)) /\ RangeOf(tag) = SInt(8)
    BY <1>6 DEF IntegerArgument, RangeOf, SignedTags, Width
  <2>2. IF r.ok THEN r.n = i /\ i \in SInt(8) ELSE i \notin SInt(8)
    BY <1>4, <2>1
  <2> QED
    BY <2>1, <2>2 DEF Exact, Refusable, i, n
<1>7. CASE tag = "int16"
  <2>1. r \in InRange(gwkjs_jsvalue_to_int(v), SInt(16)) /\ RangeOf(tag) = SInt(16)
    BY <1>7 DEF IntegerArgument, RangeOf, SignedTags, Width
  <2>2. IF r.ok THEN r.n = i /\ i \in SInt(16) ELSE i \notin SInt(16)
    BY <1>4, <2>1
  <2> QED
    BY <2>1, <2>2 DEF Exact, Refusable, i, n
<1>8. CASE tag = "uint8"
  <2>1. r \in InRange(gwkjs_jsvalue_to_uint(v), UInt(8)) /\ RangeOf(tag) = UInt(8)
    BY <1>8 DEF IntegerArgument, RangeOf, SignedTags, Width
  <2>2. IF r.ok THEN (r.n = i /\ i \in UInt(8)) \/ i \notin UInt(32) ELSE i \notin UInt(8)
    BY <1>5, <2>1
  <2> QED
    BY <1>8, <2>1, <2>2 DEF Exact, Refusable, Unchecked, i, n
<1>9. CASE tag = "uint16"
  <2>1. r \in InRange(gwkjs_jsvalue_to_uint(v), UInt(16)) /\ RangeOf(tag) = UInt(16)
    BY <1>9 DEF IntegerArgument, RangeOf, SignedTags, Width
  <2>2. IF r.ok THEN (r.n = i /\ i \in UInt(16)) \/ i \notin UInt(32) ELSE i \notin UInt(16)
    BY <1>5, <2>1
  <2> QED
    BY <1>9, <2>1, <2>2 DEF Exact, Refusable, Unchecked, i, n
<1>10. CASE tag = "int32"
  <2>1. r \in Converted(CastInt(v, 32))
    BY <1>3, <1>10 DEF IntegerArgument
  <2>2. r.ok
    BY <2>1 DEF Converted
  <2> QED
    BY <1>10, <2>2 DEF Exact, Unchecked
<1>11. CASE tag = "uint32"
  <2>1. r \in Number64(v, CastUInt(v, 32), 0, UHighest(32)) /\ RangeOf(tag) = 0..UHighest(32)
    BY <1>1, <1>11 DEF IntegerArgument, RangeOf, SignedTags, Width, UInt
  <2>2. UHighest(32) \in Nat /\ n \in Int
    BY <1>0 DEF UHighest, n
  <2>3. CASE n < 2 * 0 \/ n > 2 * UHighest(32)
    <3>1. ~r.ok
      BY <2>1, <2>3 DEF Number64, Refused, n
    <3>2. n \notin {2 * k : k \in RangeOf(tag)}
      BY <2>1, <2>2, <2>3
    <3> QED
      BY <1>11, <3>1, <3>2 DEF Exact, Refusable, n
  <2>4. CASE ~(n < 2 * 0 \/ n > 2 * UHighest(32))
    <3>1. PICK j \in CastUInt(v, 32) : r = [ok |-> TRUE, n |-> j]
      BY <2>1, <2>4 DEF Number64, Converted, n
    <3>2. i \in UInt(32)
      BY <2>2, <2>4, Halving DEF i, UInt
    <3>3. j = i
      BY <1>0, <3>2, CastsUnsigned DEF n, i
    <3> QED
      BY <2>1, <3>1, <3>2, <3>3 DEF Exact, UInt, i, n
  <2> QED
    BY <2>3, <2>4
<1>12. CASE tag = "int64"
  <2>1. r \in Number64(v, CastInt(v, 64), Lowest(64), Half[64]) /\ RangeOf(tag) = SInt(64)
    BY <1>1, <1>12 DEF IntegerArgument, RangeOf, SignedTags, Width
  <2>2. Lowest(64) = -Half[64] /\ Highest(64) = Half[64] - 1 /\ n \in Int
    BY DEF Lowest, Highest, n
  <2>3. CASE n < 2 * Lowest(64) \/ n > 2 * Half[64]
    <3>1. ~r.ok
      BY <2>1, <2>3 DEF Number64, Refused, n
    <3>2. n \notin {2 * k : k \in RangeOf(tag)}
      BY <1>0, <2>1, <2>2, <2>3 DEF SInt
    <3> QED
      BY <1>12, <3>1, <3>2 DEF Exact, Refusable, n
  <2>4. CASE ~(n < 2 * Lowest(64) \/ n > 2 * Half[64])
    <3>1. PICK j \in CastInt(v, 64) : r = [ok |-> TRUE, n |-> j]
      BY <2>1, <2>4 DEF Number64, Converted, n
    <3>2. i \in SInt(64) \/ n = 2 * Half[64]
      <4>0. PICK h \in Nat : h = Half[64] /\ h > 0
        BY <1>0
      <4>a. n >= 2 * (-h) /\ n <= 2 * h /\ -h \in Int
        BY <2>2, <2>4, <4>0
      <4>h. /\ \A k \in Int : n <= 2 * k /\ n >= 0 => i <= k
            /\ \A k \in Int : n >= 2 * k /\ n <= 0 => i >= k
            /\ \A k \in Int : i = k /\ k > 0 /\ n <= 2 * k => n = 2 * k
            /\ n >= 0 => i >= 0
            /\ n <= 0 => i <= 0
        BY <2>2, Halving DEF i
      <4>c. n >= 0 => i <= h /\ i >= 0
        BY <4>0, <4>a, <4>h
      <4>d. n <= 0 => i >= -h /\ i <= 0
        BY <4>0, <4>a, <4>h
      <4>e. i = h => n = 2 * h
        BY <4>0, <4>a, <4>h
      <4>b. /\ n >= 0 => i <= h /\ i >= 0
            /\ n <= 0 => i >= -h /\ i <= 0
            /\ i = h => n = 2 * h
        BY <4>c, <4>d, <4>e
      <4>1. i >= -Half[64] /\ i <= Half[64]
        BY <1>2, <2>2, <4>0, <4>b
      <4>2. i = Half[64] => n = 2 * Half[64]
        BY <4>0, <4>b
      <4> QED
        BY <1>0, <1>2, <2>2, <4>1, <4>2 DEF SInt
    <3>3. i \in SInt(64) => j = i
      BY <1>0, CastsSigned DEF n, i
    <3> QED
      BY <1>12, <2>1, <3>1, <3>2, <3>3 DEF Exact, Unchecked, i, n
  <2> QED
    BY <2>3, <2>4
<1>13. CASE tag = "uint64"
  <2>1. r \in IF n < 0 THEN Refused ELSE Converted(CastUInt(v, 64))
    BY <1>1, <1>13 DEF IntegerArgument, n
  <2>2. RangeOf(tag) = 0..UHighest(64) /\ UHighest(64) \in Nat /\ n \in Int
    BY <1>0, <1>13 DEF RangeOf, SignedTags, Width, UInt, UHighest, n
  <2>3. CASE n < 0
    <3>1. ~r.ok
      BY <2>1, <2>3 DEF Refused
    <3>2. n \notin {2 * k : k \in RangeOf(tag)}
      BY <2>2, <2>3
    <3> QED
      BY <1>13, <3>1, <3>2 DEF Exact, Refusable, n
  <2>4. CASE ~(n < 0)
    <3>1. PICK j \in CastUInt(v, 64) : r = [ok |-> TRUE, n |-> j]
      BY <2>1, <2>4 DEF Converted
    <3>2. i >= 0
      BY <2>2, <2>4, Halving DEF i
    <3>3. i \in UInt(64) \/ i > UHighest(64)
      BY <1>2, <2>2, <3>2 DEF UInt
    <3>4. i \in UInt(64) => j = i
      BY <1>0, CastsUnsigned DEF n, i
    <3> QED
      BY <1>13, <2>2, <3>1, <3>3, <3>4 DEF Exact, Unchecked, UInt, i, n
  <2> QED
    BY <2>3, <2>4
<1> QED
  BY <1>6, <1>7, <1>8, <1>9, <1>10, <1>11, <1>12, <1>13 DEF IntegerTags, SignedTags, UnsignedTags

(* The same of the C value that an argument becomes.                       *)
LEMMA ArgumentsConvert ==
    ASSUME NEW t, t.tag \in IntegerTags, NEW transfer, NEW nullable,
           NEW v, v.is = "number", v.n \in Int, NEW r \in ToC(t, transfer, nullable, v)
    PROVE  \E x \in IntegerArgument(t.tag, v) :
              /\ Exact(t.tag, v.n, x)
              /\ IF x.ok THEN r.ok /\ r.c = C("int", x.n, << >>) ELSE ~r.ok /\ r.c = NULL
<1>1. t.tag \notin {"void", "error", "float", "double", "boolean", "unichar", "gtype", "interface",
                    "glist", "gslist", "ghash", "array"} \union Strings
  BY DEF IntegerTags, SignedTags, UnsignedTags, Strings
<1>2. ValueToC(t, transfer, nullable, v) = NumberToC(t, v)
  BY <1>1 DEF ValueToC
<1>3. r \in NumberToC(t, v)
  BY <1>1, <1>2 DEF ToC
<1>4. PICK x \in IntegerArgument(t.tag, v) : r = IF x.ok THEN To(C("int", x.n, << >>), {}) ELSE Fails({})
  BY <1>3 DEF NumberToC
<1>5. Exact(t.tag, v.n, x)
  BY IntegersConvert
<1> QED
  BY <1>4, <1>5 DEF To, Fails

(* A number that a callback returned is what C takes of it.                *)
LEMMA ResultsKeep ==
    ASSUME NEW t, t.tag \in IntegerTags, NEW i \in RangeOf(t.tag),
           NEW ffi \in set_return_ffi_arg_from_giargument(t, C("int", i, << >>))
    PROVE  Returned(t, ffi).n = i
<1> DEFINE c == C("int", i, << >>)
           w == Width(t.tag)
<1>1. c.is = "int" /\ c.n = i /\ c = [is |-> "int", n |-> i, sub |-> << >>]
  BY DEF C
<1>2. t.tag # "interface"
  BY DEF IntegerTags, SignedTags, UnsignedTags
<1>3. ffi = [c EXCEPT !.n = UWrap(i, 64)]
  BY <1>1, <1>2 DEF set_return_ffi_arg_from_giargument
<1>4. ffi.is = "int" /\ ffi.n = UWrap(i, 64) /\ ffi = [is |-> "int", n |-> UWrap(i, 64), sub |-> << >>]
  BY <1>1, <1>3
<1>5. Returned(t, ffi) = [ffi EXCEPT !.n = IF t.tag \in SignedTags THEN Wrap(@, w) ELSE UWrap(@, w)]
  BY <1>2, <1>4 DEF Returned
<1>6. Returned(t, ffi).n = IF t.tag \in SignedTags THEN Wrap(UWrap(i, 64), w) ELSE UWrap(UWrap(i, 64), w)
  BY <1>4, <1>5
<1>7. w \in Widths
  BY DEF Width, Widths
<1>8. RangeOf(t.tag) = IF t.tag \in SignedTags THEN SInt(w) ELSE UInt(w)
  BY DEF RangeOf
<1>9. SInt(w) \subseteq Int /\ UInt(w) \subseteq Int
  BY DEF SInt, UInt
<1> HIDE DEF w
<1>10. CASE t.tag \in SignedTags
  <2>1. i \in SInt(w) /\ i \in Int
    BY <1>8, <1>9, <1>10
  <2>2. Wrap(UWrap(i, 64), w) = i
    BY <1>7, <2>1, RegisterKeeps
  <2> QED
    BY <1>6, <1>10, <2>2
<1>11. CASE t.tag \notin SignedTags
  <2>1. i \in UInt(w) /\ i \in Int
    BY <1>8, <1>9, <1>11
  <2>2. UWrap(UWrap(i, 64), w) = i
    BY <1>7, <2>1, RegisterKeeps
  <2> QED
    BY <1>6, <1>11, <2>2
<1> QED
  BY <1>10, <1>11

LEMMA ResultIsInt ==
    ASSUME NEW t, t.tag \in IntegerTags, NEW i,
           NEW ffi \in set_return_ffi_arg_from_giargument(t, C("int", i, << >>))
    PROVE  Returned(t, ffi) # NULL
<1> DEFINE c == C("int", i, << >>)
<1>1. c = [is |-> "int", n |-> i, sub |-> << >>]
  BY DEF C
<1>2. t.tag # "interface"
  BY DEF IntegerTags, SignedTags, UnsignedTags
<1>3. ffi = [c EXCEPT !.n = UWrap(@, 64)]
  BY <1>1, <1>2 DEF set_return_ffi_arg_from_giargument
<1>4. ffi = [is |-> "int", n |-> UWrap(i, 64), sub |-> << >>]
  BY <1>1, <1>3
<1>5. Returned(t, ffi).is = "int"
  BY <1>4 DEF Returned
<1> QED
  BY <1>5 DEF NULL, C

(* What is known of a call: the argument stays the declared one, and only  *)
(* what C gives is converted back.                                         *)
CallInv ==
    /\ arg \in Arguments
    /\ input \in Inputs(arg)
    /\ pc \in {"convert out", "release out"} => Gives

ExactInv == CallInv /\ IntegersExact

LEMMA InitExact == MarshalInit => ExactInv
<1> SUFFICES ASSUME MarshalInit PROVE ExactInv
  OBVIOUS
<1>1. pc \notin {"convert out", "release out"} /\ (Takes => pc = "convert")
  BY DEF MarshalInit
<1> QED
  BY <1>1 DEF MarshalInit, ExactInv, CallInv, IntegersExact, Takes

LEMMA NextCall == CallInv /\ [MarshalNext]_marshalVars => CallInv'
<1> SUFFICES ASSUME CallInv, [MarshalNext]_marshalVars PROVE CallInv'
  OBVIOUS
<1>1. UNCHANGED <<arg, input>>
  BY DEF MarshalNext, ConvertIn, Call, Throws, ReleaseArgument, ConvertOut, ReleaseOutput, marshalVars
<1>2. pc' \in {"convert out", "release out"} => Gives
  <2>1. CASE ConvertIn
    BY <2>1 DEF ConvertIn
  <2>2. CASE Call
    BY <2>2 DEF Call, Gives
  <2>3. CASE Throws
    BY <2>3 DEF Throws
  <2>4. CASE ReleaseArgument
    BY <2>4 DEF ReleaseArgument, Gives
  <2>5. CASE ConvertOut
    BY <2>5 DEF ConvertOut, CallInv
  <2>6. CASE ReleaseOutput
    BY <2>6 DEF ReleaseOutput
  <2>7. CASE UNCHANGED marshalVars
    BY <2>7 DEF marshalVars, CallInv
  <2> QED
    BY <2>1, <2>2, <2>3, <2>4, <2>5, <2>6, <2>7 DEF MarshalNext
<1> QED
  BY <1>1, <1>2 DEF CallInv, Gives

(* IntegersExact of one integer and what became of it.                     *)
Reached(callback, tag, n, c, refused_) ==
    LET refused == c = NULL \/ (callback /\ refused_) IN
    /\ ~refused => c.n = Truncated(n) \/ Unchecked(tag, n)
    /\ refused => Refusable(tag, n)

LEMMA IntegerReached ==
    IntegersExact <=>
        (/\ arg.dir \in {"in", "callback"} /\ arg.type.tag \in IntegerTags
         /\ input.is = "number" /\ pc # "convert"
         => Reached(arg.dir = "callback", arg.type.tag, input.n, in, failed))
BY DEF IntegersExact, Reached, Unchecked, Refusable

LEMMA ConvertInExact ==
    ASSUME CallInv, ConvertIn, arg.dir \in {"in", "callback"}, arg.type.tag \in IntegerTags, input.is = "number"
    PROVE  Reached(arg.dir = "callback", arg.type.tag, input.n, in', failed')
<1> DEFINE t == arg.type
           n == input.n
<1>1. n \in Int
  BY MarshalAssumption DEF CallInv
<1>2. ~Explicit(t)
  BY DEF Explicit, IntegerTags, SignedTags, UnsignedTags
<1>3. \E nullable : Incoming = ToC(t, arg.transfer, nullable, input)
  <2>1. CASE arg.dir = "callback"
    BY <2>1 DEF Incoming
  <2>2. CASE arg.dir = "in"
    BY <1>2, <2>2 DEF Incoming, gwkjs_value_to_arg
  <2> QED
    BY <2>1, <2>2
<1>4. PICK r \in Incoming :
        /\ IF arg.dir = "callback"
           THEN \E ffi \in set_return_ffi_arg_from_giargument(t, r.c) :
                    in' = IF r.ok THEN Returned(t, ffi) ELSE gwkjs_g_argument_init_default(t)
           ELSE in' = r.c
        /\ failed' = ~r.ok
  BY DEF ConvertIn
<1> HIDE DEF t, n
<1>5. PICK x \in IntegerArgument(t.tag, input) :
        /\ Exact(t.tag, n, x)
        /\ IF x.ok THEN r.ok /\ r.c = C("int", x.n, << >>) ELSE ~r.ok /\ r.c = NULL
  BY <1>1, <1>3, ArgumentsConvert DEF t, n
<1>6. \A k : C("int", k, << >>) # NULL /\ C("int", k, << >>).n = k
  BY DEF C, NULL
<1>7. CASE arg.dir = "in"
  BY <1>4, <1>5, <1>6, <1>7 DEF Reached, Exact, t, n
<1>8. CASE arg.dir = "callback" /\ x.ok
  <2>1. PICK ffi \in set_return_ffi_arg_from_giargument(t, C("int", x.n, << >>)) : in' = Returned(t, ffi)
    BY <1>4, <1>5, <1>8
  <2>2. CASE x.n = Truncated(n) /\ ~Unchecked(t.tag, n)
    <3>1. x.n \in RangeOf(t.tag)
      BY <1>5, <1>8, <2>2 DEF Exact
    <3>2. in'.n = Truncated(n)
      BY <2>1, <2>2, <3>1, ResultsKeep DEF t
    <3>3. in' # NULL
      BY <2>1, <1>6, ResultIsInt DEF t
    <3> QED
      BY <1>4, <1>5, <1>8, <3>2, <3>3 DEF Reached, t, n
  <2>3. CASE Unchecked(t.tag, n)
    <3>1. in' # NULL
      BY <2>1, ResultIsInt DEF t
    <3> QED
      BY <1>4, <1>5, <1>8, <2>3, <3>1 DEF Reached, t, n
  <2> QED
    BY <1>5, <1>8, <2>2, <2>3 DEF Exact
<1>9. CASE arg.dir = "callback" /\ ~x.ok
  BY <1>4, <1>5, <1>9 DEF Reached, Exact, t, n
<1> QED
  BY <1>7, <1>8, <1>9

LEMMA NextExact == ExactInv /\ [MarshalNext]_marshalVars => ExactInv'
<1> SUFFICES ASSUME ExactInv, [MarshalNext]_marshalVars PROVE ExactInv'
  OBVIOUS
<1>1. CallInv /\ CallInv'
  BY NextCall DEF ExactInv
<1>2. UNCHANGED <<arg, input>>
  BY DEF MarshalNext, ConvertIn, Call, Throws, ReleaseArgument, ConvertOut, ReleaseOutput, marshalVars
<1>3. SUFFICES ASSUME arg.dir \in {"in", "callback"}, arg.type.tag \in IntegerTags, input.is = "number", pc' # "convert"
               PROVE  Reached(arg.dir = "callback", arg.type.tag, input.n, in', failed')
  <2>1. IntegersExact' <=>
        (/\ arg.dir' \in {"in", "callback"} /\ arg.type.tag' \in IntegerTags
         /\ input.is' = "number" /\ pc' # "convert"
         => Reached(arg.dir' = "callback", arg.type.tag', input.n', in', failed'))
    BY DEF IntegersExact, Reached, Unchecked, Refusable
  <2> QED
    BY <1>1, <1>2, <1>3, <2>1 DEF ExactInv
<1>4. CASE ConvertIn
  BY <1>1, <1>3, <1>4, ConvertInExact
<1>5. CASE ~ConvertIn
  <2>1. pc # "convert" /\ in' = in
    BY <1>3, <1>5 DEF MarshalNext, Call, Throws, ReleaseArgument, ConvertOut, ReleaseOutput, marshalVars
  <2>2. Reached(arg.dir = "callback", arg.type.tag, input.n, in, failed)
    BY <1>3, <2>1, IntegerReached DEF ExactInv
  <2>3. failed' = failed \/ arg.dir = "in"
    BY <1>1, <1>3, <1>5 DEF MarshalNext, Call, Throws, ReleaseArgument, ConvertOut, ReleaseOutput, marshalVars, CallInv, Gives
  <2> QED
    BY <2>1, <2>2, <2>3 DEF Reached
<1> QED
  BY <1>4, <1>5

(* Whatever the widths, a number that JavaScript passes for an integer, or *)
(* returns from a callback, is refused or reaches C as its integer part,   *)
(* but for the casts that IntegersExact lists; and what is refused is out  *)
(* of range or, for the wide types, not an integer of the range.           *)
THEOREM NumbersReachC == MarshalSpec => []IntegersExact
<1>1. MarshalInit => ExactInv
  BY InitExact
<1>2. ExactInv /\ [MarshalNext]_marshalVars => ExactInv'
  BY NextExact
<1>3. ExactInv => IntegersExact
  BY DEF ExactInv
<1> QED
  BY <1>1, <1>2, <1>3, PTL DEF MarshalSpec

-----------------------------------------------------------------------------
(* The elements of the types of an instance.                               *)
ElementTypes(t) ==
    IF t.tag \notin Containers THEN {}
    ELSE IF t.tag = "ghash" THEN {t.sub[1], t.sub[2]} ELSE {t.sub[1]}

CArrays == {"length", "fixed", "zero"}
GArrays == {"GArray", "GByteArray", "GPtrArray"}

(* The types of an instance and of their elements, which end somewhere,    *)
(* and the conversions that call themselves for them.                      *)
Tied(Ts, depth) ==
    /\ depth \in [Ts -> Nat]
    /\ \A t \in Ts : \A e \in ElementTypes(t) : e \in Ts /\ depth[e] < depth[t]
    /\ \A t \in Ts : t.tag = "array" => t.array \in CArrays \union GArrays
    /\ \A t \in Ts : \A transfer, nullable, v :
            ElementToC(t, transfer, nullable, v) = ToC(t, transfer, nullable, v)
    /\ \A t \in Ts : \A transfer, c :
            /\ ElementRelease(t, transfer, c) = Release(t, transfer, c)
            /\ ElementBelongings(t, transfer, c) = Belongings(t, transfer, c)

(* A container inside of a container holds no objects.                     *)
NestedPlain(Ts) ==
    \A t \in Ts : \A e \in ElementTypes(t) : \A f \in ElementTypes(e) : ~PointerElement(f)

LEMMA ElementTypeIn ==
    ASSUME NEW t, t.tag \in Containers, NEW i
    PROVE  ElementType(t, i) \in ElementTypes(t)
BY DEF ElementType, ElementTypes

LEMMA ArrayElementIn ==
    ASSUME NEW t, t.tag = "array"
    PROVE  t.sub[1] \in ElementTypes(t) /\ \A i : ElementType(t, i) = t.sub[1]
BY DEF ElementType, ElementTypes, Containers

(* Blocks of elements.                                                     *)
LEMMA BelowGrows ==
    ASSUME NEW i, NEW A, NEW B, A \subseteq B
    PROVE  Below(i, A) \subseteq Below(i, B)
BY DEF Below

LEMMA BelowRoot ==
    ASSUME NEW i
    PROVE  Below(i, Root) = {<<i>>} /\ Below(i, {}) = {}
<1>1. <<i>> \o << >> = <<i>>
  <2>1. <<i>> \in Seq({i})
    OBVIOUS
  <2> QED
    BY <2>1, ConcatEmptySeq
<1> QED
  BY <1>1 DEF Below, Root

(* When all the elements convert, x being what became of each.             *)
AllOf(t, transfer, vs, r, x) ==
    /\ \A i \in DOMAIN vs : /\ x[i] \in ElementToC(ElementType(t, i), transfer, ElementNull(t, i), vs[i])
                            /\ x[i].ok
    /\ r.cs = [i \in DOMAIN vs |-> x[i].c]
    /\ r.made = UNION {Below(i, x[i].made) : i \in DOMAIN vs}

LEMMA AllConvert ==
    ASSUME NEW t, NEW transfer, NEW vs, NEW r \in ElementsToC(t, transfer, vs), r.ok
    PROVE  \E x : AllOf(t, transfer, vs, r, x)
<1> DEFINE result(i) == ElementToC(ElementType(t, i), transfer, ElementNull(t, i), vs[i])
           bad(x) == {i \in DOMAIN vs : ~x[i].ok}
           tried(x) == {i \in DOMAIN vs : \A b \in bad(x) : i <= b}
<1>1. PICK x : /\ \A i \in DOMAIN vs : x[i] \in result(i)
               /\ r = [ok |-> bad(x) = {}, cs |-> [i \in tried(x) |-> x[i].c],
                       made |-> UNION {Below(i, x[i].made) : i \in tried(x)}]
  BY Zenon DEF ElementsToC
<1>2. bad(x) = {}
  BY <1>1
<1>3. tried(x) = DOMAIN vs
  BY <1>2
<1>4. r.cs = [i \in tried(x) |-> x[i].c] /\ r.made = UNION {Below(i, x[i].made) : i \in tried(x)}
  BY <1>1
<1>5. \A i \in DOMAIN vs : x[i].ok
  BY <1>2
<1> HIDE DEF tried
<1> QED
  BY <1>1, <1>3, <1>4, <1>5 DEF AllOf

-----------------------------------------------------------------------------
(* A type without wrapped objects in it, and one that can be released in a *)
(* mode: what is passed for a call, or as if it were owned.                *)
PlainType(t) == ~PointerElement(t) /\ \A e \in ElementTypes(t) : ~PointerElement(e)

Fits(t, mode) ==
    \/ PlainType(t)
    \/ /\ mode = "in_nothing" /\ t.tag \notin Containers
       /\ ~(t.tag = "interface" /\ t.iface = "foreign")

Modes     == {"in_nothing", "everything"}
Transfers == {"nothing", "everything"}

(* What is promised of a type whose values are elements: what goes with a  *)
(* converted value was made for it, and so was what is released of it.     *)
BelongsMade(t) ==
    \A transfer \in Transfers : \A nullable, v : \A r \in ElementToC(t, transfer, nullable, v) :
        r.ok => ElementBelongings(t, transfer, r.c) \subseteq r.made

FreesMade(t) ==
    \A transfer \in Transfers, mode \in Modes : \A nullable, v :
        \A r \in ElementToC(t, transfer, nullable, v) :
            r.ok /\ Fits(t, mode) => ElementRelease(t, mode, r.c).freed \subseteq r.made

(* And what is released of a value that C gives away went with it.         *)
GivenAway(t) ==
    \A c : ElementRelease(t, "everything", c).freed \subseteq ElementBelongings(t, "everything", c)

Promised(t) == BelongsMade(t) /\ FreesMade(t) /\ GivenAway(t)

(* The same of the elements of a container.                                *)
ElementsBelong(t, c, made) ==
    UNION {Below(i, ElementBelongings(ElementType(t, i), "everything", c.sub[i])) : i \in DOMAIN c.sub}
        \subseteq made

ElementsFreed(t, c, made) ==
    \A mode \in Modes :
        (\A e \in ElementTypes(t) : Fits(e, mode)) => ReleaseElements(t, mode, c).freed \subseteq made

Whole(t, transfer, c, made) ==
    /\ transfer = "everything" => ElementsBelong(t, c, made)
    /\ ElementsFreed(t, c, made)

LEMMA ReleaseOfElements ==
    ASSUME NEW t, NEW mode, NEW c
    PROVE  ReleaseElements(t, mode, c).freed =
              UNION {Below(i, ElementRelease(ElementType(t, i), mode, c.sub[i]).freed) : i \in DOMAIN c.sub}
<1>1. \A i \in DOMAIN c.sub :
        [j \in DOMAIN c.sub |-> ElementRelease(ElementType(t, j), mode, c.sub[j])][i].freed
            = ElementRelease(ElementType(t, i), mode, c.sub[i]).freed
  OBVIOUS
<1> QED
  BY <1>1, Zenon DEF ReleaseElements, ReleaseAmong

(* An array that NULL ends is released as far as the first NULL.           *)
LEMMA ReleaseOfSome ==
    ASSUME NEW A, NEW t, NEW mode, NEW c, NEW these, these \subseteq DOMAIN c.sub
    PROVE  /\ BeforeNull(c) \subseteq DOMAIN c.sub
           /\ With(A, ReleaseAmong(these, t, mode, c)).freed \subseteq A \union ReleaseElements(t, mode, c).freed
<1> DEFINE freed(i) == [j \in DOMAIN c.sub |-> ElementRelease(ElementType(t, j), mode, c.sub[j])][i].freed
<1>1. With(A, ReleaseAmong(these, t, mode, c)).freed = A \union UNION {Below(i, freed(i)) : i \in these}
  BY Zenon DEF With, ReleaseAmong
<1>2. ReleaseElements(t, mode, c).freed = UNION {Below(i, freed(i)) : i \in DOMAIN c.sub}
  BY Zenon DEF ReleaseElements, ReleaseAmong
<1>3. BeforeNull(c) \subseteq DOMAIN c.sub
  BY DEF BeforeNull
<1> HIDE DEF freed
<1> QED
  BY <1>1, <1>2, <1>3

LEMMA WholeMore ==
    ASSUME NEW t, NEW transfer, NEW c, NEW d, NEW made, NEW more,
           Whole(t, transfer, c, made), d.sub = c.sub, made \subseteq more
    PROVE  Whole(t, transfer, d, more)
<1>1. \A mode : ReleaseElements(t, mode, c).freed = ReleaseElements(t, mode, d).freed
  BY Zenon DEF ReleaseElements, ReleaseAmong
<1>2. transfer = "everything" => ElementsBelong(t, d, more)
  BY DEF Whole, ElementsBelong
<1>3. ElementsFreed(t, d, more)
  BY <1>1 DEF Whole, ElementsFreed
<1> QED
  BY <1>2, <1>3 DEF Whole

LEMMA NoElements ==
    ASSUME NEW t, NEW transfer, NEW c, NEW made, c.sub = << >>
    PROVE  Whole(t, transfer, c, made)
<1>1. DOMAIN c.sub = {}
  OBVIOUS
<1>2. \A mode : ReleaseElements(t, mode, c).freed = {}
  BY <1>1, ReleaseOfElements
<1> QED
  BY <1>1, <1>2 DEF Whole, ElementsBelong, ElementsFreed

(* Elements that keep their promises, converted one by one; and as well    *)
(* with another transfer, if that makes no difference to them.             *)
LEMMA ElementsKeep ==
    ASSUME NEW t, t.tag \in Containers, \A e \in ElementTypes(t) : Promised(e),
           NEW transfer \in Transfers, NEW vs, NEW r \in ElementsToC(t, transfer, vs), r.ok,
           NEW other \in Transfers,
           \A e \in ElementTypes(t) : \A nullable, v :
                ElementToC(e, transfer, nullable, v) = ElementToC(e, other, nullable, v),
           NEW c, c.sub = r.cs
    PROVE  Whole(t, other, c, r.made)
<1>0. PICK x : AllOf(t, transfer, vs, r, x)
  BY AllConvert
<1>1. /\ \A i \in DOMAIN vs : /\ x[i] \in ElementToC(ElementType(t, i), transfer, ElementNull(t, i), vs[i])
                              /\ x[i].ok
      /\ r.cs = [i \in DOMAIN vs |-> x[i].c]
      /\ r.made = UNION {Below(i, x[i].made) : i \in DOMAIN vs}
  BY <1>0 DEF AllOf
<1>2. DOMAIN c.sub = DOMAIN vs /\ \A i \in DOMAIN vs : c.sub[i] = x[i].c
  BY <1>1
<1>3. \A i \in DOMAIN vs : ElementType(t, i) \in ElementTypes(t) /\ Promised(ElementType(t, i))
  BY ElementTypeIn
<1>4. ASSUME other = "everything" PROVE ElementsBelong(t, c, r.made)
  <2>0. \A i \in DOMAIN vs : x[i] \in ElementToC(ElementType(t, i), "everything", ElementNull(t, i), vs[i])
    BY <1>1, <1>3, <1>4
  <2>1. ASSUME NEW i \in DOMAIN vs
        PROVE  ElementBelongings(ElementType(t, i), "everything", c.sub[i]) \subseteq x[i].made
    BY <1>1, <1>2, <1>3, <2>0, <2>1 DEF Promised, BelongsMade, Transfers
  <2>2. ASSUME NEW i \in DOMAIN vs
        PROVE  Below(i, ElementBelongings(ElementType(t, i), "everything", c.sub[i])) \subseteq r.made
    BY <1>1, <2>1, BelowGrows
  <2> QED
    BY <1>2, <2>2 DEF ElementsBelong
<1>5. ElementsFreed(t, c, r.made)
  <2>1. SUFFICES ASSUME NEW mode \in Modes, \A e \in ElementTypes(t) : Fits(e, mode)
                 PROVE  ReleaseElements(t, mode, c).freed \subseteq r.made
    BY DEF ElementsFreed
  <2>2. ASSUME NEW i \in DOMAIN vs
        PROVE  ElementRelease(ElementType(t, i), mode, c.sub[i]).freed \subseteq x[i].made
    <3>1. FreesMade(ElementType(t, i)) /\ Fits(ElementType(t, i), mode)
      BY <1>3, <2>1 DEF Promised
    <3> QED
      BY <1>1, <1>2, <3>1 DEF FreesMade
  <2>3. ASSUME NEW i \in DOMAIN vs
        PROVE  Below(i, ElementRelease(ElementType(t, i), mode, c.sub[i]).freed) \subseteq r.made
    BY <1>1, <2>2, BelowGrows
  <2> QED
    BY <1>2, <2>3, ReleaseOfElements
<1> QED
  BY <1>4, <1>5 DEF Whole

(* Elements without blocks.                                                *)
NoBlocks(t) ==
    /\ t.tag \notin Containers \union Strings \union {"error"}
    /\ t.tag = "interface" => t.iface \in {"enum", "unsigned_enum", "flags"}

LEMMA NothingBelongs ==
    ASSUME NEW t, NoBlocks(t)
    PROVE  \A transfer, c : Belongings(t, transfer, c) = {} /\ Release(t, transfer, c).freed = {}
BY DEF NoBlocks, Belongings, Release, InterfaceRelease, Freed, Strings, Containers

LEMMA WithoutBlocks ==
    ASSUME NEW Ts, NEW depth, Tied(Ts, depth), NEW t \in Ts, t.tag = "array", NoBlocks(t.sub[1]),
           NEW transfer, NEW c, NEW made
    PROVE  Whole(t, transfer, c, made)
<1>1. \A i : ElementType(t, i) = t.sub[1]
  BY ArrayElementIn
<1>2. t.sub[1] \in Ts
  BY ArrayElementIn DEF Tied
<1>3. \A i, tr, d : /\ ElementBelongings(ElementType(t, i), tr, d) = {}
                    /\ ElementRelease(ElementType(t, i), tr, d).freed = {}
  BY <1>1, <1>2, NothingBelongs DEF Tied
<1>4. ElementsBelong(t, c, made)
  BY <1>3, BelowRoot DEF ElementsBelong
<1>5. ASSUME NEW mode PROVE ReleaseElements(t, mode, c).freed = {}
  <2>1. \A i \in DOMAIN c.sub : Below(i, ElementRelease(ElementType(t, i), mode, c.sub[i]).freed) = {}
    BY <1>3, BelowRoot
  <2>2. ReleaseElements(t, mode, c).freed =
            UNION {Below(i, ElementRelease(ElementType(t, i), mode, c.sub[i]).freed) : i \in DOMAIN c.sub}
    BY ReleaseOfElements
  <2> QED
    BY <2>1, <2>2
<1> QED
  BY <1>4, <1>5 DEF Whole, ElementsFreed

-----------------------------------------------------------------------------
(* Every array is made whole: NULL, or a block of its own and what its     *)
(* elements need.                                                          *)
MadeWhole(t, transfer, r, is) ==
    r.ok => \/ r.c = NULL
            \/ r.c.is = is /\ Root \subseteq r.made /\ Whole(t, OfElements(transfer), r.c, r.made)

LEMMA ElementTransfers ==
    ASSUME NEW transfer \in {"nothing", "container", "everything"}
    PROVE  /\ OfElements(transfer) \in Transfers
           /\ transfer # "container" => OfElements(transfer) = transfer
BY DEF OfElements, Transfers

LEMMA StringsWhole ==
    ASSUME NEW Ts, NEW depth, Tied(Ts, depth), NEW t \in Ts, t.tag = "array", t.sub[1].tag = "utf8",
           NEW transfer, NEW v, NEW r \in StrvToC(v)
    PROVE  MadeWhole(t, transfer, r, "array")
<1> SUFFICES ASSUME r.ok
             PROVE  r.c.is = "array" /\ Root \subseteq r.made /\ Whole(t, OfElements(transfer), r.c, r.made)
  BY DEF MadeWhole
<1>0. PICK x \in gwkjs_array_to_strv(v) :
        r = IF x.ok THEN To(C("array", 0, x.c.sub), Root \union {<<i>> : i \in DOMAIN x.c.sub}) ELSE Fails({})
  BY Zenon DEF StrvToC
<1>1. r = To(C("array", 0, x.c.sub), Root \union {<<i>> : i \in DOMAIN x.c.sub})
  BY <1>0 DEF Fails
<1>2. r.c.is = "array" /\ r.c.sub = x.c.sub /\ r.made = Root \union {<<i>> : i \in DOMAIN x.c.sub}
  BY <1>1 DEF To, C
<1>3. t.sub[1] \in Ts /\ \A i : ElementType(t, i) = t.sub[1]
  BY ArrayElementIn DEF Tied
<1>4. \A tr, c : /\ ElementBelongings(t.sub[1], tr, c) \subseteq Root
                 /\ ElementRelease(t.sub[1], tr, c).freed \subseteq Root
  <2>1. \A tr, c : Belongings(t.sub[1], tr, c) \subseteq Root /\ Release(t.sub[1], tr, c).freed \subseteq Root
    BY DEF Belongings, Release, Strings, Containers, Freed, IfAny
  <2> QED
    BY <1>3, <2>1 DEF Tied
<1>5. \A i \in DOMAIN r.c.sub : \A B : B \subseteq Root => Below(i, B) \subseteq r.made
  <2>1. ASSUME NEW i \in DOMAIN r.c.sub, NEW B, B \subseteq Root PROVE Below(i, B) \subseteq r.made
    <3>1. Below(i, B) \subseteq {<<i>>}
      BY <2>1, BelowGrows, BelowRoot
    <3> QED
      BY <1>2, <3>1
  <2> QED
    BY <2>1
<1>6. ElementsBelong(t, r.c, r.made)
  BY <1>3, <1>4, <1>5 DEF ElementsBelong
<1>7. ASSUME NEW mode PROVE ReleaseElements(t, mode, r.c).freed \subseteq r.made
  <2>1. ReleaseElements(t, mode, r.c).freed =
            UNION {Below(i, ElementRelease(ElementType(t, i), mode, r.c.sub[i]).freed) : i \in DOMAIN r.c.sub}
    BY ReleaseOfElements
  <2>2. \A i \in DOMAIN r.c.sub : Below(i, ElementRelease(ElementType(t, i), mode, r.c.sub[i]).freed) \subseteq r.made
    BY <1>3, <1>4, <1>5
  <2> QED
    BY <2>1, <2>2
<1> QED
  BY <1>2, <1>6, <1>7 DEF Whole, ElementsFreed

LEMMA NumberArraysWhole ==
    ASSUME NEW Ts, NEW depth, Tied(Ts, depth), NEW t \in Ts, t.tag = "array", NoBlocks(t.sub[1]),
           NEW transfer, NEW r, r.ok => r.c = NULL \/ (r.c.is = "array" /\ Root \subseteq r.made)
    PROVE  MadeWhole(t, transfer, r, "array")
BY WithoutBlocks DEF MadeWhole

LEMMA FlatTransfers ==
    ASSUME NEW t, IsFlat(t), NEW transfer, NEW other, NEW nullable, NEW v
    PROVE  ToC(t, transfer, nullable, v) = ToC(t, other, nullable, v)
<1>1. ValueToC(t, transfer, nullable, v) = ValueToC(t, other, nullable, v)
  <2>1. \A tr : ValueToC(t, tr, nullable, v) = InterfaceToC(t, tr, nullable, v)
    BY DEF ValueToC, IsFlat, IntegerTags, SignedTags, UnsignedTags, Strings
  <2>2. \A tr : InterfaceToC(t, tr, nullable, v) = GValueToC(v)
    BY DEF InterfaceToC, IsFlat
  <2> QED
    BY <2>1, <2>2
<1> QED
  BY <1>1, Zenon DEF ToC

LEMMA ElementArraysWhole ==
    ASSUME NEW Ts, NEW depth, Tied(Ts, depth), NEW t \in Ts, t.tag = "array",
           \A e \in ElementTypes(t) : Promised(e),
           NEW transfer \in {"nothing", "container", "everything"}, NEW v,
           NEW r \in ElementArrayToC(t, transfer, v)
    PROVE  MadeWhole(t, transfer, r, "array")
<1> DEFINE elem == t.sub[1]
           tag  == StorageTag(elem)
<1>0. ElementTypes(t) = {elem} /\ elem \in Ts /\ t.tag \in Containers
  BY ArrayElementIn DEF ElementTypes, Containers, Tied
<1>1. OfElements(transfer) \in Transfers /\ "nothing" \in Transfers
  BY ElementTransfers DEF Transfers
<1>2. CASE IsFlat(elem)
  <2>1. r \in FlatValuesToC(t, v.sub)
    <3>1. tag = "interface"
      BY <1>2 DEF StorageTag, IsFlat
    <3> QED
      BY <1>2, <3>1 DEF ElementArrayToC, IntegerTags, SignedTags, UnsignedTags, Containers
  <2>2. PICK x \in ElementsToC(t, "nothing", v.sub) :
          r = IF x.ok THEN To(IF v.sub = << >> THEN NULL ELSE C("array", 0, x.cs), IfAny(v.sub # << >>, Root) \union x.made)
              ELSE Fails(Root \union x.made)
    BY <2>1 DEF FlatValuesToC
  <2>3. CASE ~x.ok
    BY <2>2, <2>3 DEF MadeWhole, Fails
  <2>4. CASE x.ok /\ v.sub = << >>
    BY <2>2, <2>4 DEF MadeWhole, To, NULL, C
  <2>5. CASE x.ok /\ v.sub # << >>
    <3>1. r.c = C("array", 0, x.cs) /\ r.made = Root \union x.made
      BY <2>2, <2>5 DEF To, IfAny
    <3>2. r.c.is = "array" /\ r.c.sub = x.cs
      BY <3>1 DEF C
    <3>3. \A e \in ElementTypes(t) : \A nullable, u :
                ElementToC(e, "nothing", nullable, u) = ElementToC(e, OfElements(transfer), nullable, u)
      BY <1>0, <1>2, FlatTransfers DEF Tied
    <3>4. Whole(t, OfElements(transfer), r.c, x.made)
      BY <1>0, <1>1, <2>5, <3>2, <3>3, ElementsKeep
    <3> QED
      BY <3>1, <3>2, <3>4, WholeMore DEF MadeWhole
  <2> QED
    BY <2>3, <2>4, <2>5
<1>3. CASE ~IsFlat(elem) /\ tag = "utf8"
  <2>1. r \in StrvToC(v)
    BY <1>3 DEF ElementArrayToC, IntegerTags, SignedTags, UnsignedTags, Containers
  <2>2. elem.tag = "utf8"
    BY <1>3 DEF StorageTag
  <2> QED
    BY <2>1, <2>2, StringsWhole
<1>4. CASE ~IsFlat(elem) /\ tag \in IntegerTags \ {"int64", "uint64"}
  <2>1. r \in NumbersToC(tag, v.sub)
    BY <1>4 DEF ElementArrayToC, IntegerTags, SignedTags, UnsignedTags, Containers
  <2>2. r.ok => r.c.is = "array" /\ Root \subseteq r.made
    BY <2>1 DEF NumbersToC, To, Fails, C
  <2>3. NoBlocks(elem)
    BY <1>4 DEF NoBlocks, StorageTag, IntegerTags, SignedTags, UnsignedTags, Containers, Strings
  <2> QED
    BY <2>2, <2>3, NumberArraysWhole
<1>5. CASE ~IsFlat(elem) /\ tag \in {"float", "double"}
  <2>1. r \in DoublesToC(v.sub)
    BY <1>5 DEF ElementArrayToC, IntegerTags, SignedTags, UnsignedTags, Containers
  <2>2. r.ok => r.c.is = "array" /\ Root \subseteq r.made
    BY <2>1 DEF DoublesToC, To, C
  <2>3. NoBlocks(elem)
    BY <1>5 DEF NoBlocks, StorageTag, Containers, Strings
  <2> QED
    BY <2>2, <2>3, NumberArraysWhole
<1>6. CASE ~IsFlat(elem) /\ tag = "gtype"
  <2>1. r \in gwkjs_gtypearray_to_array(v.sub)
    BY <1>6 DEF ElementArrayToC, IntegerTags, SignedTags, UnsignedTags, Containers
  <2>2. r.ok => r.c.is = "array" /\ Root \subseteq r.made
    BY <2>1 DEF gwkjs_gtypearray_to_array, To, Fails, C
  <2>3. NoBlocks(elem)
    BY <1>6 DEF NoBlocks, StorageTag, Containers, Strings
  <2> QED
    BY <2>2, <2>3, NumberArraysWhole
<1>7. CASE ~IsFlat(elem) /\ tag \in Containers \union {"interface", "error", "filename"}
  <2>1. r \in PointersToC(t, transfer, v.sub)
    BY <1>7 DEF ElementArrayToC, IntegerTags, SignedTags, UnsignedTags, Containers
  <2>2. PICK x \in ElementsToC(t, OfElements(transfer), v.sub) :
          r = IF x.ok THEN To(C("array", 0, x.cs), Root \union x.made) ELSE Fails(x.made)
    BY <2>1 DEF PointersToC
  <2>3. CASE ~x.ok
    BY <2>2, <2>3 DEF MadeWhole, Fails
  <2>4. CASE x.ok
    <3>1. r.c.is = "array" /\ r.c.sub = x.cs /\ r.made = Root \union x.made
      BY <2>2, <2>4 DEF To, C
    <3>2. Whole(t, OfElements(transfer), r.c, x.made)
      BY <1>0, <1>1, <2>4, <3>1, ElementsKeep
    <3> QED
      BY <3>1, <3>2, WholeMore DEF MadeWhole
  <2> QED
    BY <2>3, <2>4
<1>8. CASE /\ ~IsFlat(elem)
           /\ tag \notin {"utf8", "float", "double", "gtype", "interface", "error", "filename"}
           /\ tag \notin IntegerTags \ {"int64", "uint64"}
           /\ tag \notin Containers
  <2>1. r \in {Fails({})}
    BY <1>8 DEF ElementArrayToC
  <2> QED
    BY <2>1 DEF MadeWhole, Fails
<1> QED
  BY <1>2, <1>3, <1>4, <1>5, <1>6, <1>7, <1>8

LEMMA ExplicitWhole ==
    ASSUME NEW Ts, NEW depth, Tied(Ts, depth), NEW t \in Ts, t.tag = "array",
           \A e \in ElementTypes(t) : Promised(e),
           NEW transfer \in {"nothing", "container", "everything"}, NEW nullable, NEW v,
           NEW r \in gwkjs_array_to_explicit_array_internal(t, transfer, nullable, v)
    PROVE  MadeWhole(t, transfer, r, "array")
<1>1. CASE v.is = "null"
  <2>1. r = To(NULL, {}) \/ r = Fails({})
    BY <1>1 DEF gwkjs_array_to_explicit_array_internal
  <2> QED
    BY <2>1 DEF MadeWhole, To, Fails, NULL, C
<1>2. CASE v.is = "string"
  <2>1. r \in gwkjs_string_to_intarray(t, v)
    BY <1>2 DEF gwkjs_array_to_explicit_array_internal
  <2>2. CASE t.sub[1].tag \in {"int8", "uint8"}
    <3>1. r.c.is = "array" /\ Root \subseteq r.made
      BY <2>1, <2>2 DEF gwkjs_string_to_intarray, To, C
    <3>2. NoBlocks(t.sub[1])
      BY <2>2 DEF NoBlocks, Containers, Strings
    <3> QED
      BY <3>1, <3>2, NumberArraysWhole
  <2>3. CASE t.sub[1].tag \in {"int16", "uint16"}
    <3>1. PICK x \in gwkjs_string_get_uint16_data(v) : r = To(x.c, IfAny(x.c.is # "NULL", Root))
      BY <2>1, <2>3 DEF gwkjs_string_to_intarray
    <3>2. x.c = NULL \/ \E n, sub : x.c = C("array", n, sub)
      BY DEF gwkjs_string_get_uint16_data, ValueIs, ValueRefused
    <3>3. r.c = NULL \/ (r.c.is = "array" /\ Root \subseteq r.made)
      <4>1. CASE x.c = NULL
        BY <3>1, <4>1 DEF To
      <4>2. CASE \E n, sub : x.c = C("array", n, sub)
        BY <3>1, <4>2 DEF To, IfAny, C
      <4> QED
        BY <3>2, <4>1, <4>2
    <3>4. NoBlocks(t.sub[1])
      BY <2>3 DEF NoBlocks, Containers, Strings
    <3> QED
      BY <3>3, <3>4, NumberArraysWhole
  <2>4. CASE t.sub[1].tag \notin {"int8", "uint8", "int16", "uint16"}
    <3>1. r = Fails({})
      BY <2>1, <2>4 DEF gwkjs_string_to_intarray
    <3> QED
      BY <3>1 DEF MadeWhole, Fails
  <2> QED
    BY <2>2, <2>3, <2>4
<1>3. CASE v.is = "array"
  <2>1. r \in ElementArrayToC(t, transfer, v)
    BY <1>3 DEF gwkjs_array_to_explicit_array_internal
  <2> QED
    BY <2>1, ElementArraysWhole
<1>4. CASE v.is \notin {"null", "string", "array"}
  <2>1. r = Fails({})
    BY <1>4 DEF gwkjs_array_to_explicit_array_internal
  <2> QED
    BY <2>1 DEF MadeWhole, Fails
<1> QED
  BY <1>1, <1>2, <1>3, <1>4

LEMMA NullHasNoElements == NULL.sub = << >> /\ NULL.is = "NULL"
BY DEF NULL, C

LEMMA ArraysWhole ==
    ASSUME NEW Ts, NEW depth, Tied(Ts, depth), NEW t \in Ts, t.tag = "array",
           \A e \in ElementTypes(t) : Promised(e),
           NEW transfer \in {"nothing", "container", "everything"}, NEW nullable, NEW v,
           NEW r \in ArrayToC(t, transfer, nullable, v)
    PROVE  MadeWhole(t, transfer, r, "array")
<1> DEFINE made(x) == IF t.array = "GArray" THEN gwkjs_g_array_new_for_type(t.sub[1], x.made)
                      ELSE x.made \union Root
<1>1. CASE t.array \in {"length", "fixed", "zero"}
  <2>1. r \in gwkjs_array_to_explicit_array_internal(t, transfer, nullable, v)
    BY <1>1 DEF ArrayToC
  <2> QED
    BY <2>1, ExplicitWhole
<1>2. CASE t.array \notin {"length", "fixed", "zero"}
  <2>1. PICK x \in gwkjs_array_to_explicit_array_internal(t, transfer, nullable, v) :
          r = IF ~x.ok THEN x
              ELSE IF Root \subseteq made(x) THEN To(C("array", 0, x.c.sub), made(x))
              ELSE Fails(made(x))
    BY <1>2, Zenon DEF ArrayToC
  <2>2. CASE ~x.ok
    BY <2>1, <2>2 DEF MadeWhole
  <2>3. CASE x.ok /\ ~(Root \subseteq made(x))
    BY <2>1, <2>3 DEF MadeWhole, Fails
  <2>4. CASE x.ok /\ Root \subseteq made(x)
    <3>1. r.c.is = "array" /\ r.c.sub = x.c.sub /\ r.made = made(x)
      BY <2>1, <2>4 DEF To, C
    <3>2. x.made \subseteq r.made
      BY <2>4, <3>1 DEF gwkjs_g_array_new_for_type, Root
    <3>3. MadeWhole(t, transfer, x, "array")
      BY ExplicitWhole
    <3>4. CASE x.c = NULL
      <4>1. x.c.sub = << >>
        BY <3>4, NullHasNoElements
      <4> QED
        BY <2>4, <3>1, <4>1, NoElements DEF MadeWhole
    <3>5. CASE x.c # NULL
      BY <2>4, <3>1, <3>2, <3>3, <3>5, WholeMore DEF MadeWhole
    <3> QED
      BY <3>4, <3>5
  <2> QED
    BY <2>2, <2>3, <2>4
<1> QED
  BY <1>1, <1>2

LEMMA ListsWhole ==
    ASSUME NEW t, t.tag \in {"glist", "gslist"}, \A e \in ElementTypes(t) : Promised(e),
           NEW transfer \in {"nothing", "container", "everything"}, NEW v, NEW r \in ListToC(t, transfer, v)
    PROVE  MadeWhole(t, transfer, r, "list")
<1>1. SUFFICES ASSUME r.ok PROVE MadeWhole(t, transfer, r, "list")
  BY DEF MadeWhole
<1>2. r # Fails({})
  BY <1>1 DEF Fails
<1>3. PICK x \in ElementsToC(t, OfElements(transfer), v.sub) :
        r = IF x.ok THEN To(IF x.cs = << >> THEN NULL ELSE C("list", 0, x.cs),
                            IfAny(x.cs # << >>, Root) \union x.made)
            ELSE Fails(IfAny(Len(x.cs) > 1, Root) \union x.made)
  BY <1>2 DEF ListToC, gwkjs_array_to_g_list
<1>4. x.ok
  BY <1>1, <1>3 DEF Fails
<1>5. CASE x.cs = << >>
  BY <1>3, <1>4, <1>5 DEF MadeWhole, To, NULL, C
<1>6. CASE x.cs # << >>
  <2>1. r.c.is = "list" /\ r.c.sub = x.cs /\ r.made = Root \union x.made
    BY <1>3, <1>4, <1>6 DEF To, C, IfAny
  <2>2. Whole(t, OfElements(transfer), r.c, x.made)
    BY <1>4, <2>1, ElementsKeep, ElementTransfers DEF Containers
  <2> QED
    BY <2>1, <2>2, WholeMore DEF MadeWhole
<1> QED
  BY <1>5, <1>6

LEMMA TablesWhole ==
    ASSUME NEW t, t.tag = "ghash", \A e \in ElementTypes(t) : Promised(e),
           NEW transfer \in {"nothing", "container", "everything"}, NEW nullable, NEW v,
           NEW r \in HashToC(t, transfer, nullable, v)
    PROVE  MadeWhole(t, transfer, r, "hash")
<1>1. SUFFICES ASSUME r.ok, r # To(NULL, {}) PROVE MadeWhole(t, transfer, r, "hash")
  BY DEF MadeWhole, To, NULL, C
<1>2. r # Fails({})
  BY <1>1 DEF Fails
<1>3. r \in gwkjs_object_to_g_hash(t, transfer, v.sub)
  BY <1>1, <1>2 DEF HashToC
<1>4. PICK x \in ElementsToC(t, OfElements(transfer), v.sub) :
        r = IF x.ok THEN To(C("hash", 0, x.cs), Root \union x.made) ELSE Fails(x.made)
  BY <1>2, <1>3 DEF gwkjs_object_to_g_hash
<1>5. x.ok
  BY <1>1, <1>4 DEF Fails
<1>6. r.c.is = "hash" /\ r.c.sub = x.cs /\ r.made = Root \union x.made
  BY <1>4, <1>5 DEF To, C
<1>7. Whole(t, OfElements(transfer), r.c, x.made)
  BY <1>5, <1>6, ElementsKeep, ElementTransfers DEF Containers
<1> QED
  BY <1>6, <1>7, WholeMore DEF MadeWhole

-----------------------------------------------------------------------------
(* What goes with a value was made for it.                                 *)
LEMMA ToCIsValueToC ==
    ASSUME NEW t, NEW transfer, NEW nullable, NEW v, NEW r \in ToC(t, transfer, nullable, v), r.ok
    PROVE  r \in ValueToC(t, transfer, nullable, v)
<1>1. PICK x \in ValueToC(t, transfer, nullable, v) :
        r = x \/ r = Fails(x.made)
  BY DEF ToC
<1> QED
  BY <1>1 DEF Fails

LEMMA ContainersWhole ==
    ASSUME NEW Ts, NEW depth, Tied(Ts, depth), NEW t \in Ts, t.tag \in Containers,
           \A e \in ElementTypes(t) : Promised(e),
           NEW transfer \in {"nothing", "container", "everything"}, NEW nullable, NEW v,
           NEW r \in ToC(t, transfer, nullable, v)
    PROVE  \E is \in {"list", "hash", "array"} : MadeWhole(t, transfer, r, is)
<1>1. SUFFICES ASSUME r.ok PROVE \E is \in {"list", "hash", "array"} : MadeWhole(t, transfer, r, is)
  BY DEF MadeWhole
<1>2. r \in ValueToC(t, transfer, nullable, v)
  BY <1>1, ToCIsValueToC
<1>3. CASE t.tag \in {"glist", "gslist"}
  <2>1. r \in ListToC(t, transfer, v)
    BY <1>2, <1>3 DEF ValueToC, IntegerTags, SignedTags, UnsignedTags, Strings
  <2> QED
    BY <1>3, <2>1, ListsWhole
<1>4. CASE t.tag = "ghash"
  <2>1. r \in HashToC(t, transfer, nullable, v)
    BY <1>2, <1>4 DEF ValueToC, IntegerTags, SignedTags, UnsignedTags, Strings
  <2> QED
    BY <1>4, <2>1, TablesWhole
<1>5. CASE t.tag = "array"
  <2>1. r \in ArrayToC(t, transfer, nullable, v)
    BY <1>2, <1>5 DEF ValueToC, IntegerTags, SignedTags, UnsignedTags, Strings
  <2> QED
    BY <1>5, <2>1, ArraysWhole
<1> QED
  BY <1>3, <1>4, <1>5 DEF Containers

LEMMA WholeBelongs ==
    ASSUME NEW Ts, NEW depth, Tied(Ts, depth), NEW t \in Ts, t.tag \in Containers,
           NEW transfer \in {"nothing", "container", "everything"},
           NEW r, r.ok, NEW is, MadeWhole(t, transfer, r, is)
    PROVE  Belongings(t, transfer, r.c) \subseteq r.made
<1>1. CASE r.c = NULL \/ transfer = "nothing"
  BY <1>1, NullHasNoElements DEF Belongings
<1>2. CASE r.c # NULL /\ transfer # "nothing"
  <2>1. Root \subseteq r.made /\ Whole(t, OfElements(transfer), r.c, r.made)
    BY <1>2 DEF MadeWhole
  <2>2. CASE transfer = "container"
    <3>1. Belongings(t, transfer, r.c) \subseteq Root
      BY <2>2 DEF Belongings
    <3> QED
      BY <2>1, <3>1
  <2>3. CASE transfer = "everything"
    <3>1. ElementsBelong(t, r.c, r.made)
      BY <2>1, <2>3, ElementTransfers DEF Whole
    <3>2. Belongings(t, transfer, r.c) \subseteq Root \union
            UNION {Below(i, ElementBelongings(ElementType(t, i), "everything", r.c.sub[i])) : i \in DOMAIN r.c.sub}
      BY <2>3 DEF Belongings
    <3> QED
      BY <2>1, <3>1, <3>2 DEF ElementsBelong
  <2> QED
    BY <1>2, <2>2, <2>3
<1> QED
  BY <1>1, <1>2

LEMMA ValuesBelong ==
    ASSUME NEW t, t.tag \notin Containers, NEW transfer \in Transfers, NEW nullable, NEW v,
           NEW r \in ToC(t, transfer, nullable, v), r.ok
    PROVE  Belongings(t, transfer, r.c) \subseteq r.made
<1>1. r \in ValueToC(t, transfer, nullable, v)
  BY ToCIsValueToC
<1>2. SUFFICES ASSUME transfer = "everything", ~NoBlocks(t), r.c # NULL, r # Fails({})
               PROVE  Root \subseteq r.made
  <2>1. Belongings(t, transfer, r.c) \subseteq Root
    BY DEF Belongings
  <2>2. r # Fails({})
    BY DEF Fails
  <2>3. NoBlocks(t) => Belongings(t, transfer, r.c) = {}
    BY NothingBelongs
  <2>4. transfer = "nothing" \/ r.c = NULL => Belongings(t, transfer, r.c) = {}
    BY NullHasNoElements DEF Belongings
  <2> QED
    BY <1>2, <2>1, <2>2, <2>3, <2>4 DEF Transfers
<1>3. CASE t.tag \in Strings
  <2>1. r \in StringToC(t, v)
    BY <1>1, <1>3 DEF ValueToC, IntegerTags, SignedTags, UnsignedTags, Strings
  <2>2. \E x : r = IF x.ok THEN To(x.c, Root) ELSE Fails({})
    BY <1>2, <2>1 DEF StringToC, To
  <2> QED
    BY <1>2, <2>2 DEF To
<1>4. CASE t.tag = "error"
  <2>1. r \in ErrorToC(v)
    BY <1>1, <1>4 DEF ValueToC, IntegerTags, SignedTags, UnsignedTags, Strings
  <2> QED
    BY <1>2, <2>1 DEF ErrorToC, To
<1>5. CASE t.tag = "interface"
  <2>1. r \in InterfaceToC(t, transfer, nullable, v)
    BY <1>1, <1>5 DEF ValueToC, IntegerTags, SignedTags, UnsignedTags, Strings
  <2>2. t.iface \notin {"enum", "unsigned_enum", "flags"}
    BY <1>2, <1>5 DEF NoBlocks, Strings, Containers
  <2>3. CASE t.iface \in {"gvalue", "gvalue_flat"}
    <3>1. r \in GValueToC(v)
      BY <2>1, <2>3 DEF InterfaceToC
    <3>2. \E x : r = IF x.ok THEN To(C("gvalue", 0, <<x.c>>), Root) ELSE Fails({})
      BY <3>1, Zenon DEF GValueToC
    <3> QED
      BY <1>2, <3>2 DEF To
  <2>4. CASE t.iface = "foreign"
    <3>1. r \in ForeignToC(transfer, nullable, v)
      BY <2>1, <2>4 DEF InterfaceToC
    <3>2. r = To(NULL, {}) \/ r = To(C("foreign", v.n, << >>), Root)
      BY <1>2, <3>1 DEF ForeignToC, IfAny
    <3> QED
      BY <1>2, <3>2 DEF To
  <2>5. CASE t.iface \in {"object", "param"}
    <3>1. r \in WrapperToC(t, transfer, v)
      BY <2>1, <2>5 DEF InterfaceToC
    <3>2. r = To(C(t.iface, v.n, << >>), Root)
      BY <1>2, <3>1 DEF WrapperToC, IfAny
    <3> QED
      BY <3>2 DEF To
  <2>6. CASE t.iface = "union"
    <3>1. r \in UnionToC(transfer, v)
      BY <2>1, <2>6 DEF InterfaceToC
    <3>2. r = To(gwkjs_c_union_from_union(v), Root)
      BY <1>2, <3>1 DEF UnionToC, IfAny
    <3> QED
      BY <3>2 DEF To
  <2>7. CASE t.iface \notin {"gvalue", "gvalue_flat", "foreign", "object", "param", "union"}
    <3>1. r \in NotImplementedToC
      BY <2>1, <2>2, <2>7 DEF InterfaceToC
    <3> QED
      BY <1>2, <3>1 DEF NotImplementedToC
  <2> QED
    BY <2>3, <2>4, <2>5, <2>6, <2>7
<1> QED
  BY <1>2, <1>3, <1>4, <1>5 DEF NoBlocks

-----------------------------------------------------------------------------
(* What is released of a value was made for it.                            *)
LEMMA NestedFit ==
    ASSUME NEW Ts, NestedPlain(Ts), NEW t \in Ts, NEW e \in ElementTypes(t)
    PROVE  /\ ~PointerElement(e) => PlainType(e)
           /\ e.tag \in Containers => PlainType(e)
           /\ ~(e.tag = "interface" /\ e.iface = "foreign") => Fits(e, "in_nothing")
           /\ PlainType(t) => PlainType(e)
<1>1. \A f \in ElementTypes(e) : ~PointerElement(f)
  BY DEF NestedPlain
<1>2. e.tag \in Containers => ~PointerElement(e)
  BY DEF PointerElement, Containers
<1> QED
  BY <1>1, <1>2 DEF PlainType, Fits

(* The elements of a container that is released in a mode.                 *)
Releasable(t, mode) ==
    /\ \A e \in ElementTypes(t) : Fits(e, mode)
    /\ t.tag = "array" /\ t.array \notin GArrays =>
          Fits(t.sub[1], "everything") \/ ~type_needs_out_release(t.sub[1])

LEMMA WithBlocks ==
    ASSUME NEW A, NEW B
    PROVE  With(A, Freed(B)).freed = A \union B /\ Freed(B).freed = B /\ Keeps.freed = {}
BY DEF With, Freed, Keeps

LEMMA WithElements ==
    ASSUME NEW A, NEW t, NEW mode, NEW c
    PROVE  With(A, ReleaseElements(t, mode, c)).freed = A \union ReleaseElements(t, mode, c).freed
BY DEF With, ReleaseElements, ReleaseAmong

LEMMA WholeFrees ==
    ASSUME NEW t, t.tag \in Containers, NEW transfer, NEW mode \in Modes, Releasable(t, mode),
           NEW r, r.ok, NEW is, MadeWhole(t, transfer, r, is)
    PROVE  Release(t, mode, r.c).freed \subseteq r.made
<1>1. CASE r.c = NULL
  BY <1>1, NullHasNoElements DEF Release, GListRelease, GSListRelease, GHashRelease, ArrayRelease, Freed,
                                Containers, Strings
<1>2. CASE r.c # NULL
  <2>1. Root \subseteq r.made /\ ElementsFreed(t, r.c, r.made)
    BY <1>2 DEF MadeWhole, Whole
  <2>2. ReleaseElements(t, mode, r.c).freed \subseteq r.made
    BY <2>1 DEF ElementsFreed, Releasable
  <2>3. With(Root, ReleaseElements(t, mode, r.c)).freed \subseteq r.made
    BY <2>1, <2>2, WithElements
  <2>4. /\ With(Root, Freed({})).freed \subseteq r.made
        /\ With(Root, Freed(ReleaseElements(t, mode, r.c).freed)).freed \subseteq r.made
        /\ Freed(Root).freed \subseteq r.made /\ Freed({}).freed \subseteq r.made /\ Keeps.freed \subseteq r.made
    <3>1. /\ With(Root, Freed({})).freed = Root \union {}
          /\ Freed(Root).freed = Root /\ Freed({}).freed = {} /\ Keeps.freed = {}
      BY WithBlocks
    <3>2. With(Root, Freed(ReleaseElements(t, mode, r.c).freed)).freed = Root \union ReleaseElements(t, mode, r.c).freed
      BY WithBlocks
    <3> QED
      BY <2>1, <2>2, <3>1, <3>2
  <2>5. mode # "container"
    BY DEF Modes
  <2>6. CASE t.tag \in {"glist", "gslist", "ghash"}
    <3>1. Release(t, mode, r.c) \in {Freed({}), With(Root, ReleaseElements(t, mode, r.c))}
      BY <2>5, <2>6 DEF Release, GListRelease, GSListRelease, GHashRelease, gwkjs_ghr_helper, Strings
    <3> QED
      BY <2>3, <2>4, <3>1
  <2>7. CASE t.tag = "array"
    <3>1. Release(t, mode, r.c) = ArrayRelease(t, mode, r.c)
      BY <2>7 DEF Release, Strings
    <3>2. CASE t.array = "GArray"
      <4>1. GArrayRelease(t, mode, r.c) \in
                {Freed(Root), With(Root, Freed(ReleaseElements(t, mode, r.c).freed)), Freed({}), Keeps}
        BY <2>5 DEF GArrayRelease, IntegerTags, SignedTags, UnsignedTags, Strings, Containers
      <4>2. ArrayRelease(t, mode, r.c) \in {Freed({}), GArrayRelease(t, mode, r.c)}
        BY <3>2 DEF ArrayRelease
      <4> QED
        BY <2>4, <3>1, <4>1, <4>2
    <3>3. CASE t.array = "GByteArray"
      <4>1. ArrayRelease(t, mode, r.c) \in {Freed({}), Freed(Root)}
        BY <3>3 DEF ArrayRelease
      <4> QED
        BY <2>4, <3>1, <4>1
    <3>4. CASE t.array = "GPtrArray"
      <4>1. ArrayRelease(t, mode, r.c) \in
                {Freed({}), With(Root, Freed(ReleaseElements(t, mode, r.c).freed))}
        BY <2>5, <3>4 DEF ArrayRelease, GPtrArrayRelease
      <4> QED
        BY <2>4, <3>1, <4>1
    <3>5. CASE t.array \notin GArrays
      <4>1. ArrayRelease(t, mode, r.c) \in {Freed({}), CArrayRelease(t, mode, r.c)}
        BY <3>5 DEF ArrayRelease, GArrays
      <4>2. ASSUME NEW these, these \subseteq DOMAIN r.c.sub, NEW how \in {mode, "everything"},
                   how = mode \/ type_needs_out_release(t.sub[1])
            PROVE  With(Root, ReleaseAmong(these, t, how, r.c)).freed \subseteq r.made
        <5>1. ReleaseElements(t, how, r.c).freed \subseteq r.made
          <6>1. CASE how = mode
            BY <2>2, <6>1
          <6>2. CASE type_needs_out_release(t.sub[1]) /\ how = "everything"
            <7>1. \A e \in ElementTypes(t) : Fits(e, "everything")
              BY <2>7, <3>5, <6>2 DEF Releasable, ElementTypes
            <7> QED
              BY <2>1, <6>2, <7>1 DEF ElementsFreed, Modes
          <6> QED
            BY <4>2, <6>1, <6>2
        <5>2. With(Root, ReleaseAmong(these, t, how, r.c)).freed \subseteq Root \union ReleaseElements(t, how, r.c).freed
          BY <4>2, ReleaseOfSome
        <5> QED
          BY <2>1, <5>1, <5>2
      <4>3. BeforeNull(r.c) \subseteq DOMAIN r.c.sub
        BY DEF BeforeNull
      <4>4. \/ CArrayRelease(t, mode, r.c) \in
                  {Keeps, With(Root, ReleaseElements(t, mode, r.c)), Freed(Root), With(Root, Freed({}))}
            \/ CArrayRelease(t, mode, r.c) = With(Root, ReleaseAmong(BeforeNull(r.c), t, mode, r.c))
            \/ /\ type_needs_out_release(t.sub[1])
               /\ \E these \in {BeforeNull(r.c), DOMAIN r.c.sub} :
                     CArrayRelease(t, mode, r.c) = With(Root, ReleaseAmong(these, t, "everything", r.c))
        BY <2>5 DEF CArrayRelease, Strings, Containers
      <4>5. CArrayRelease(t, mode, r.c).freed \subseteq r.made
        BY <2>3, <2>4, <4>2, <4>3, <4>4
      <4> QED
        BY <2>4, <3>1, <4>1, <4>5
    <3> QED
      BY <3>2, <3>3, <3>4, <3>5 DEF GArrays
  <2> QED
    BY <2>6, <2>7 DEF Containers
<1> QED
  BY <1>1, <1>2

LEMMA ValuesFree ==
    ASSUME NEW t, t.tag \notin Containers, NEW mode \in Modes, Fits(t, mode), NEW transfer, NEW nullable, NEW v,
           NEW r \in ToC(t, transfer, nullable, v), r.ok
    PROVE  Release(t, mode, r.c).freed \subseteq r.made
<1>1. r \in ValueToC(t, transfer, nullable, v) /\ r # Fails({})
  BY ToCIsValueToC DEF Fails
<1>2. CASE NoBlocks(t)
  <2>1. Release(t, mode, r.c).freed = {}
    BY <1>2, NothingBelongs
  <2> QED
    BY <2>1
<1>3. CASE t.tag \in Strings
  <2>1. r \in StringToC(t, v)
    BY <1>1, <1>3 DEF ValueToC, IntegerTags, SignedTags, UnsignedTags, Strings
  <2>2. r = To(NULL, {}) \/ \E x : r = To(x.c, Root)
    BY <1>1, <2>1 DEF StringToC
  <2>3. Release(t, mode, r.c).freed = IfAny(r.c.is # "NULL", Root)
    BY <1>3 DEF Release, Freed, Strings
  <2> QED
    BY <2>2, <2>3, NullHasNoElements DEF To, IfAny
<1>4. CASE t.tag = "error"
  <2>1. r \in ErrorToC(v)
    BY <1>1, <1>4 DEF ValueToC, IntegerTags, SignedTags, UnsignedTags, Strings
  <2>2. r = To(NULL, {})
    BY <1>1, <2>1 DEF ErrorToC
  <2>3. Release(t, mode, r.c).freed \subseteq IfAny(r.c.is # "NULL", Root)
    BY <1>4 DEF Release, Freed, Strings, IfAny
  <2> QED
    BY <2>2, <2>3, NullHasNoElements DEF To, IfAny
<1>5. CASE t.tag = "interface" /\ ~NoBlocks(t)
  <2>1. r \in InterfaceToC(t, transfer, nullable, v)
    BY <1>1, <1>5 DEF ValueToC, IntegerTags, SignedTags, UnsignedTags, Strings
  <2>2. t.iface \notin {"enum", "unsigned_enum", "flags"}
    BY <1>5 DEF NoBlocks, Strings, Containers
  <2>3. t.iface # "foreign"
    BY <1>5 DEF Fits, PlainType, PointerElement
  <2>4. Release(t, mode, r.c) = InterfaceRelease(t, mode, r.c)
    BY <1>5 DEF Release, Strings
  <2>5. CASE t.iface \in {"gvalue", "gvalue_flat"}
    <3>1. r \in GValueToC(v)
      BY <2>1, <2>5 DEF InterfaceToC
    <3>2. \E x : r = IF x.ok THEN To(C("gvalue", 0, <<x.c>>), Root) ELSE Fails({})
      BY <3>1, Zenon DEF GValueToC
    <3>3. Root \subseteq r.made
      BY <1>1, <3>2 DEF To
    <3>4. Release(t, mode, r.c) \in {Freed({}), Freed(Root)}
      BY <2>4, <2>5 DEF InterfaceRelease
    <3> QED
      BY <3>3, <3>4, WithBlocks
  <2>6. CASE t.iface \in {"object", "param", "union"}
    <3>1. mode = "in_nothing"
      BY <1>5, <2>6 DEF Fits, PlainType, PointerElement
    <3>2. Release(t, mode, r.c) = Freed({})
      BY <2>4, <2>6, <3>1 DEF InterfaceRelease, IfAny
    <3> QED
      BY <3>2, WithBlocks
  <2>7. CASE t.iface \notin {"gvalue", "gvalue_flat", "foreign", "object", "param", "union"}
    <3>1. r \in NotImplementedToC
      BY <2>1, <2>2, <2>7 DEF InterfaceToC
    <3> QED
      BY <1>1, <3>1 DEF NotImplementedToC
  <2> QED
    BY <2>3, <2>5, <2>6, <2>7
<1> QED
  BY <1>2, <1>3, <1>4, <1>5 DEF NoBlocks

-----------------------------------------------------------------------------
(* What is released of a value that C gives away went with it.             *)
LEMMA ElementsGivenAway ==
    ASSUME NEW t, t.tag \in Containers, \A e \in ElementTypes(t) : Promised(e), NEW c, c.is # "NULL"
    PROVE  ReleaseElements(t, "everything", c).freed \subseteq Belongings(t, "everything", c)
<1> DEFINE rs(i) == ElementRelease(ElementType(t, i), "everything", c.sub[i]).freed
           bs(i) == ElementBelongings(ElementType(t, i), "everything", c.sub[i])
           all   == UNION {Below(i, bs(i)) : i \in DOMAIN c.sub}
<1>1. \A i : rs(i) \subseteq bs(i)
  BY ElementTypeIn DEF Promised, GivenAway
<1>2. \A i : Below(i, rs(i)) \subseteq Below(i, bs(i))
  <2> HIDE DEF rs, bs
  <2> QED
    BY <1>1, BelowGrows
<1>3. all \subseteq Belongings(t, "everything", c)
  <2>1. PICK x : x = "everything"
    OBVIOUS
  <2>2. \A b \in all : b \in Belongings(t, x, c)
    BY <2>1 DEF Belongings, Containers, Strings
  <2> QED
    BY <2>1, <2>2
<1>4. ReleaseElements(t, "everything", c).freed = UNION {Below(i, rs(i)) : i \in DOMAIN c.sub}
  BY ReleaseOfElements
<1> HIDE DEF rs, bs
<1> QED
  BY <1>2, <1>3, <1>4

LEMMA GivenAwayWith ==
    ASSUME NEW t, \A e \in ElementTypes(t) : Promised(e), NEW transfer \in {"container", "everything"}, NEW c
    PROVE  Release(t, transfer, c).freed \subseteq Belongings(t, transfer, c)
<1> DEFINE B == Belongings(t, transfer, c)
           R == ReleaseElements(t, "everything", c)
<1>1. CASE c.is = "NULL"
  <2>1. Release(t, transfer, c) = Freed({})
    BY <1>1 DEF Release, InterfaceRelease, GListRelease, GSListRelease, GHashRelease, ArrayRelease, IfAny, Strings
  <2> QED
    BY <2>1, WithBlocks
<1>2. CASE NoBlocks(t)
  <2>1. Release(t, transfer, c).freed = {}
    BY <1>2, NothingBelongs
  <2> QED
    BY <2>1
<1>3. CASE c.is # "NULL" /\ t.tag \notin Containers /\ ~NoBlocks(t)
  <2>1. B = Root
    BY <1>3 DEF NoBlocks, Belongings
  <2>2. Release(t, transfer, c) \in {Freed({}), Freed(Root), Keeps}
    <3>1. CASE t.tag = "interface"
      BY <3>1 DEF Release, InterfaceRelease, IfAny, Strings
    <3>2. CASE t.tag # "interface"
      BY <1>3, <3>2 DEF Release, IfAny, Strings, NoBlocks
    <3> QED
      BY <3>1, <3>2
  <2> QED
    BY <2>1, <2>2, WithBlocks
<1>4. CASE c.is # "NULL" /\ t.tag \in Containers
  <2>1. Root \subseteq B
    BY <1>4 DEF Belongings
  <2>2. transfer = "everything" => R.freed \subseteq B
    BY <1>4, ElementsGivenAway
  <2>3. /\ Freed({}).freed \subseteq B /\ Keeps.freed \subseteq B /\ Freed(Root).freed \subseteq B
        /\ With(Root, Freed({})).freed \subseteq B
    <3>1. With(Root, Freed({})).freed = Root \union {} /\ Freed({}).freed = {} /\ Keeps.freed = {} /\ Freed(Root).freed = Root
      BY WithBlocks
    <3> QED
      BY <2>1, <3>1
  <2>4. transfer = "everything" => With(Root, R).freed \subseteq B /\ With(Root, Freed(R.freed)).freed \subseteq B
    <3>1. With(Root, R).freed = Root \union R.freed
      BY WithElements
    <3>2. With(Root, Freed(R.freed)).freed = Root \union R.freed
      BY WithBlocks
    <3> QED
      BY <2>1, <2>2, <3>1, <3>2
  <2>5. \/ Release(t, transfer, c) \in {Freed({}), Keeps, Freed(Root), With(Root, Freed({}))}
        \/ transfer = "everything" /\ Release(t, transfer, c) \in {With(Root, R), With(Root, Freed(R.freed))}
        \/ /\ transfer = "everything"
           /\ \E these \in {BeforeNull(c), DOMAIN c.sub} :
                 Release(t, transfer, c) = With(Root, ReleaseAmong(these, t, "everything", c))
    <3>1. CASE t.tag \in {"glist", "gslist", "ghash"}
      BY <1>4, <3>1 DEF Release, GListRelease, GSListRelease, GHashRelease, gwkjs_ghr_helper, Strings
    <3>2. CASE t.tag = "array"
      <4>1. Release(t, transfer, c) = ArrayRelease(t, transfer, c)
        BY <3>2 DEF Release, Strings
      <4>2. CASE t.array = "GArray"
        <5>1. ArrayRelease(t, transfer, c) = GArrayRelease(t, transfer, c)
          BY <1>4, <4>2 DEF ArrayRelease
        <5> QED
          BY <4>1, <5>1 DEF GArrayRelease, IntegerTags, SignedTags, UnsignedTags, Strings, Containers
      <4>3. CASE t.array = "GByteArray"
        BY <1>4, <4>1, <4>3 DEF ArrayRelease
      <4>4. CASE t.array = "GPtrArray"
        BY <1>4, <4>1, <4>4 DEF ArrayRelease, GPtrArrayRelease
      <4>5. CASE t.array \notin GArrays
        <5>1. ArrayRelease(t, transfer, c) = CArrayRelease(t, transfer, c)
          BY <1>4, <4>5 DEF ArrayRelease, GArrays
        <5> QED
          BY <4>1, <5>1 DEF CArrayRelease, Strings, Containers
      <4> QED
        BY <4>2, <4>3, <4>4, <4>5 DEF GArrays
    <3> QED
      BY <1>4, <3>1, <3>2 DEF Containers
  <2>6. \A these \in {BeforeNull(c), DOMAIN c.sub} :
            transfer = "everything" => With(Root, ReleaseAmong(these, t, "everything", c)).freed \subseteq B
    <3>1. \A these \in {BeforeNull(c), DOMAIN c.sub} :
              With(Root, ReleaseAmong(these, t, "everything", c)).freed \subseteq Root \union R.freed
      <4>1. BeforeNull(c) \subseteq DOMAIN c.sub
        BY DEF BeforeNull
      <4> QED
        BY <4>1, ReleaseOfSome
    <3> HIDE DEF B, R
    <3> QED
      BY <2>1, <2>2, <3>1
  <2> HIDE DEF B, R
  <2> QED
    BY <2>3, <2>4, <2>5, <2>6 DEF B
<1> QED
  BY <1>1, <1>2, <1>3, <1>4

-----------------------------------------------------------------------------
(* Every type keeps the promises, by the depth of its elements.            *)
LEMMA OneLevel ==
    ASSUME NEW Ts, NEW depth, Tied(Ts, depth), NestedPlain(Ts), NEW t \in Ts,
           \A e \in ElementTypes(t) : Promised(e)
    PROVE  Promised(t)
<1>1. /\ \A transfer, nullable, v : ElementToC(t, transfer, nullable, v) = ToC(t, transfer, nullable, v)
      /\ \A transfer, c : /\ ElementRelease(t, transfer, c) = Release(t, transfer, c)
                          /\ ElementBelongings(t, transfer, c) = Belongings(t, transfer, c)
  BY DEF Tied
<1>2. ASSUME NEW transfer \in Transfers, NEW nullable, NEW v, NEW r \in ToC(t, transfer, nullable, v), r.ok
      PROVE  Belongings(t, transfer, r.c) \subseteq r.made
  <2>1. CASE t.tag \in Containers
    <3>1. PICK is : MadeWhole(t, transfer, r, is)
      BY <2>1, ContainersWhole DEF Transfers
    <3> QED
      BY <1>2, <2>1, <3>1, WholeBelongs DEF Transfers
  <2>2. CASE t.tag \notin Containers
    BY <1>2, <2>2, ValuesBelong
  <2> QED
    BY <2>1, <2>2
<1>3. ASSUME NEW transfer \in Transfers, NEW mode \in Modes, Fits(t, mode),
             NEW nullable, NEW v, NEW r \in ToC(t, transfer, nullable, v), r.ok
      PROVE  Release(t, mode, r.c).freed \subseteq r.made
  <2>1. CASE t.tag \in Containers
    <3>1. PICK is : MadeWhole(t, transfer, r, is)
      BY <2>1, ContainersWhole DEF Transfers
    <3>2. PlainType(t)
      BY <1>3, <2>1 DEF Fits
    <3>3. \A e \in ElementTypes(t) : PlainType(e)
      BY <3>2, NestedFit
    <3>4. t.tag = "array" => t.sub[1] \in ElementTypes(t)
      BY ArrayElementIn
    <3>5. Releasable(t, mode)
      BY <3>3, <3>4 DEF Releasable, Fits
    <3> QED
      BY <1>3, <2>1, <3>1, <3>5, WholeFrees
  <2>2. CASE t.tag \notin Containers
    BY <1>3, <2>2, ValuesFree
  <2> QED
    BY <2>1, <2>2
<1>4. BelongsMade(t)
  BY <1>1, <1>2 DEF BelongsMade
<1>5. FreesMade(t)
  BY <1>1, <1>3 DEF FreesMade
<1>6. GivenAway(t)
  BY <1>1, GivenAwayWith DEF GivenAway
<1> QED
  BY <1>4, <1>5, <1>6 DEF Promised

LEMMA LeastOf ==
    ASSUME NEW T \in SUBSET Nat, T # {}
    PROVE  \E x \in T : \A y \in T : x <= y
<1> DEFINE Smaller == {ss \in Nat \X Nat : ss[1] < ss[2]}
<1>1. IsWellFoundedOn(Smaller, Nat)
  BY NatLessThanWellFounded, Zenon DEF OpToRel
<1>2. PICK x \in T : \A y \in T : <<y, x>> \notin Smaller
  BY <1>1, WFMin, Zenon
<1>3. ASSUME NEW y \in T PROVE x <= y
  <2>1. <<y, x>> \in Nat \X Nat /\ <<y, x>>[1] = y /\ <<y, x>>[2] = x
    OBVIOUS
  <2> QED
    BY <1>2, <2>1
<1> QED
  BY <1>3

LEMMA EveryLevel ==
    ASSUME NEW Ts, NEW depth, Tied(Ts, depth), NestedPlain(Ts)
    PROVE  \A t \in Ts : Promised(t)
<1> DEFINE Bad == {t \in Ts : ~Promised(t)}
           T == {depth[t] : t \in Bad}
<1>1. depth \in [Ts -> Nat]
  BY DEF Tied
<1>2. SUFFICES ASSUME Bad # {} PROVE FALSE
  OBVIOUS
<1>3. T \in SUBSET Nat /\ T # {}
  BY <1>1, <1>2
<1> HIDE DEF T
<1>4. PICK n \in T : \A m \in T : n <= m
  BY <1>3, LeastOf
<1> USE DEF T
<1>5. PICK t \in Bad : n = depth[t]
  BY <1>4
<1>6. ASSUME NEW e \in ElementTypes(t) PROVE Promised(e)
  <2>1. e \in Ts /\ depth[e] < depth[t]
    BY <1>5 DEF Tied
  <2>2. e \in Bad => depth[t] <= depth[e]
    BY <1>4, <1>5
  <2>3. depth[e] \in Nat /\ depth[t] \in Nat
    BY <1>1, <1>5, <2>1
  <2> QED
    BY <2>1, <2>2, <2>3
<1> QED
  BY <1>5, <1>6, OneLevel

-----------------------------------------------------------------------------
(* What is released of an argument.                                        *)
InReleased(t, transfer, c) ==
    IF Explicit(t) THEN gwkjs_g_argument_release_in_array(t, transfer, c)
    ELSE gwkjs_g_argument_release_in_arg(t, transfer, c)

OutReleased(t, transfer, c) ==
    IF Explicit(t) THEN gwkjs_g_argument_release_out_array(t, transfer, c)
    ELSE gwkjs_g_argument_release(t, transfer, c)

LEMMA ArgumentsFree ==
    ASSUME NEW Ts, NEW depth, Tied(Ts, depth), NestedPlain(Ts), NEW t \in Ts, ~ElementsNotOwned(t), ~Explicit(t),
           NEW transfer \in {"nothing", "container", "everything"}, NEW nullable, NEW v,
           NEW r \in ToC(t, transfer, nullable, v), r.ok
    PROVE  InReleased(t, "nothing", r.c).freed \subseteq r.made
<1>1. \A e \in ElementTypes(t) : Promised(e)
  BY EveryLevel DEF Tied
<1>2. CASE ~type_needs_release(t)
  BY <1>2, WithBlocks DEF InReleased, gwkjs_g_argument_release_in_arg
<1>3. CASE type_needs_release(t)
  <2>1. InReleased(t, "nothing", r.c) = Release(t, "in_nothing", r.c)
    BY <1>3 DEF InReleased, gwkjs_g_argument_release_in_arg
  <2>2. CASE t.tag \notin Containers
    <3>1. Fits(t, "in_nothing")
      BY <1>3, <2>2 DEF Fits, type_needs_release, Strings
    <3> QED
      BY <2>1, <2>2, <3>1, ValuesFree DEF Modes
  <2>3. CASE t.tag \in Containers
    <3>1. PICK is : MadeWhole(t, transfer, r, is)
      BY <1>1, <2>3, ContainersWhole
    <3>2. \A e \in ElementTypes(t) : ~(e.tag = "interface" /\ e.iface = "foreign")
      <4>1. \A i \in {1, 2} : ~(ElementType(t, i).tag = "interface" /\ ElementType(t, i).iface = "foreign")
        BY <2>3 DEF ElementsNotOwned
      <4>2. ElementTypes(t) = {ElementType(t, i) : i \in {1, 2}}
        BY <2>3 DEF ElementTypes, ElementType
      <4> QED
        BY <4>1, <4>2
    <3>3. \A e \in ElementTypes(t) : Fits(e, "in_nothing")
      BY <3>2, NestedFit
    <3>4. ASSUME t.tag = "array", t.array \notin GArrays PROVE Fits(t.sub[1], "everything")
      <4>1. t.array \in {"fixed", "zero"}
        BY <3>4 DEF Tied, CArrays, Explicit
      <4>2. ~PointerElement(t.sub[1]) /\ t.sub[1] \in ElementTypes(t)
        BY <3>4, <4>1, ArrayElementIn DEF ElementsNotOwned
      <4> QED
        BY <4>2, NestedFit DEF Fits
    <3>5. Releasable(t, "in_nothing")
      BY <3>3, <3>4 DEF Releasable
    <3> QED
      BY <2>1, <2>3, <3>1, <3>5, WholeFrees DEF Modes
  <2> QED
    BY <2>2, <2>3
<1> QED
  BY <1>2, <1>3

LEMMA ExplicitFree ==
    ASSUME NEW Ts, NEW depth, Tied(Ts, depth), NestedPlain(Ts), NEW t \in Ts, Explicit(t),
           NEW transfer \in {"nothing", "container", "everything"}, NEW nullable, NEW v,
           NEW r \in gwkjs_array_to_explicit_array_internal(t, transfer, nullable, v), r.ok
    PROVE  InReleased(t, "nothing", r.c).freed \subseteq r.made
<1>1. \A e \in ElementTypes(t) : Promised(e)
  BY EveryLevel DEF Tied
<1>2. t.tag = "array"
  BY DEF Explicit
<1>3. MadeWhole(t, transfer, r, "array")
  BY <1>1, <1>2, ExplicitWhole
<1>4. InReleased(t, "nothing", r.c) = gwkjs_g_argument_release_in_array(t, "nothing", r.c)
  BY DEF InReleased
<1>5. CASE r.c.is = "NULL"
  <2>1. InReleased(t, "nothing", r.c) = Freed({})
    BY <1>4, <1>5 DEF gwkjs_g_argument_release_in_array
  <2> QED
    BY <2>1, WithBlocks
<1>6. CASE r.c.is # "NULL"
  <2>1. Root \subseteq r.made /\ ElementsFreed(t, r.c, r.made)
    BY <1>3, <1>6, NullHasNoElements DEF MadeWhole, Whole
  <2>2. CASE ~(IsFlat(t.sub[1]) \/ type_needs_release(t.sub[1]))
    <3>1. InReleased(t, "nothing", r.c) = With(Root, Freed({}))
      BY <1>4, <1>6, <2>2 DEF gwkjs_g_argument_release_in_array
    <3>2. With(Root, Freed({})).freed = Root \union {}
      BY WithBlocks
    <3> QED
      BY <2>1, <3>1, <3>2
  <2>3. CASE IsFlat(t.sub[1]) \/ type_needs_release(t.sub[1])
    <3>1. InReleased(t, "nothing", r.c) = With(Root, ReleaseElements(t, "in_nothing", r.c))
      BY <1>4, <1>6, <2>3 DEF gwkjs_g_argument_release_in_array
    <3>2. ~(t.sub[1].tag = "interface" /\ t.sub[1].iface = "foreign")
      BY <2>3 DEF IsFlat, type_needs_release, Strings, Containers
    <3>3. Fits(t.sub[1], "in_nothing")
      BY <1>2, <3>2, ArrayElementIn, NestedFit
    <3>4. \A e \in ElementTypes(t) : Fits(e, "in_nothing")
      BY <1>2, <3>3 DEF ElementTypes
    <3>5. ReleaseElements(t, "in_nothing", r.c).freed \subseteq r.made
      BY <2>1, <3>4 DEF ElementsFreed, Modes
    <3> QED
      BY <2>1, <3>1, <3>5, WithElements
  <2> QED
    BY <2>2, <2>3
<1> QED
  BY <1>5, <1>6

LEMMA OutputsFree ==
    ASSUME NEW Ts, NEW depth, Tied(Ts, depth), NestedPlain(Ts), NEW t \in Ts,
           NEW transfer \in {"nothing", "container", "everything"}, NEW c
    PROVE  OutReleased(t, transfer, c).freed \subseteq Belongings(t, transfer, c)
<1>1. \A e \in ElementTypes(t) : Promised(e)
  BY EveryLevel DEF Tied
<1>2. CASE transfer = "nothing"
  <2>1. OutReleased(t, transfer, c) = Freed({})
    BY <1>2 DEF OutReleased, gwkjs_g_argument_release_out_array, gwkjs_g_argument_release
  <2> QED
    BY <2>1, WithBlocks
<1>3. CASE transfer # "nothing" /\ ~Explicit(t)
  <2>1. OutReleased(t, transfer, c) = Release(t, transfer, c)
    BY <1>3 DEF OutReleased, gwkjs_g_argument_release
  <2> QED
    BY <1>1, <1>3, <2>1, GivenAwayWith
<1>4. CASE transfer # "nothing" /\ Explicit(t) /\ c.is = "NULL"
  <2>1. OutReleased(t, transfer, c) = Freed({})
    BY <1>4 DEF OutReleased, gwkjs_g_argument_release_out_array
  <2> QED
    BY <2>1, WithBlocks
<1>5. CASE transfer # "nothing" /\ Explicit(t) /\ c.is # "NULL"
  <2>1. t.tag \in Containers
    BY <1>5 DEF Explicit, Containers
  <2>2. Root \subseteq Belongings(t, transfer, c)
    BY <1>5, <2>1 DEF Belongings, Containers, Strings
  <2>3. \/ OutReleased(t, transfer, c) = With(Root, Freed({}))
        \/ /\ transfer = "everything"
           /\ OutReleased(t, transfer, c) = With(Root, ReleaseElements(t, "everything", c))
    BY <1>5 DEF OutReleased, gwkjs_g_argument_release_out_array
  <2>4. With(Root, Freed({})).freed = Root \union {}
    BY WithBlocks
  <2>5. transfer = "everything" => ReleaseElements(t, "everything", c).freed \subseteq Belongings(t, transfer, c)
    BY <1>1, <1>5, <2>1, ElementsGivenAway
  <2> QED
    BY <2>2, <2>3, <2>4, <2>5, WithElements
<1> QED
  BY <1>2, <1>3, <1>4, <1>5

-----------------------------------------------------------------------------
(* What goes with what C is passed was made for it.                        *)
LEMMA IntsHaveNoBlocks ==
    ASSUME NEW Ts, NEW depth, Tied(Ts, depth), NestedPlain(Ts), NEW t \in Ts,
           NEW transfer \in {"nothing", "container", "everything"}, NEW nullable, NEW v,
           NEW r \in ToC(t, transfer, nullable, v), r.ok, r.c.is = "int"
    PROVE  NoBlocks(t)
<1>1. r \in ValueToC(t, transfer, nullable, v) /\ r # Fails({})
  BY ToCIsValueToC DEF Fails
<1>2. CASE t.tag \in Containers
  <2>1. \A e \in ElementTypes(t) : Promised(e)
    BY EveryLevel DEF Tied
  <2>2. PICK is \in {"list", "hash", "array"} : MadeWhole(t, transfer, r, is)
    BY <1>2, <2>1, ContainersWhole
  <2>3. r.c = NULL \/ r.c.is \in {"list", "hash", "array"}
    BY <2>2 DEF MadeWhole
  <2> QED
    BY <2>3, NullHasNoElements
<1>3. CASE t.tag \in Strings
  <2>1. r \in StringToC(t, v)
    BY <1>1, <1>3 DEF ValueToC, IntegerTags, SignedTags, UnsignedTags, Strings
  <2>2. r = To(NULL, {}) \/ \E x \in gwkjs_string_to_utf8(v) \union ValueRefused : x.ok /\ r = To(x.c, Root)
    <3>1. gwkjs_string_to_filename(v) \subseteq gwkjs_string_to_utf8(v) \union ValueRefused
      BY DEF gwkjs_string_to_filename
    <3> QED
      BY <1>1, <2>1, <3>1 DEF StringToC
  <2>3. \A x \in gwkjs_string_to_utf8(v) \union ValueRefused : x.ok => x.c = C("string", v.n, << >>)
    BY DEF gwkjs_string_to_utf8, ValueIs, ValueRefused
  <2> QED
    BY <2>2, <2>3, NullHasNoElements DEF To, C
<1>4. CASE t.tag = "error"
  <2>1. r \in ErrorToC(v)
    BY <1>1, <1>4 DEF ValueToC, IntegerTags, SignedTags, UnsignedTags, Strings
  <2> QED
    BY <1>1, <2>1, NullHasNoElements DEF ErrorToC, To
<1>5. CASE t.tag = "interface" /\ t.iface \notin {"enum", "unsigned_enum", "flags"}
  <2>1. r \in InterfaceToC(t, transfer, nullable, v)
    BY <1>1, <1>5 DEF ValueToC, IntegerTags, SignedTags, UnsignedTags, Strings
  <2>2. CASE t.iface \in {"gvalue", "gvalue_flat"}
    <3>1. r \in GValueToC(v)
      BY <2>1, <2>2 DEF InterfaceToC
    <3>2. \E x : r = IF x.ok THEN To(C("gvalue", 0, <<x.c>>), Root) ELSE Fails({})
      BY <3>1, Zenon DEF GValueToC
    <3> QED
      BY <1>1, <3>2 DEF To, C
  <2>3. CASE t.iface = "foreign"
    <3>1. r \in ForeignToC(transfer, nullable, v)
      BY <2>1, <2>3 DEF InterfaceToC
    <3> QED
      BY <1>1, <3>1 DEF ForeignToC, To, NULL, C
  <2>4. CASE t.iface \in {"object", "param"}
    <3>1. r \in WrapperToC(t, transfer, v)
      BY <2>1, <2>4 DEF InterfaceToC
    <3> QED
      BY <1>1, <2>4, <3>1 DEF WrapperToC, To, C
  <2>5. CASE t.iface = "union"
    <3>1. r \in UnionToC(transfer, v)
      BY <2>1, <2>5 DEF InterfaceToC
    <3> QED
      BY <1>1, <3>1 DEF UnionToC, To, C, gwkjs_c_union_from_union
  <2>6. CASE t.iface \notin {"gvalue", "gvalue_flat", "foreign", "object", "param", "union"}
    <3>1. r \in NotImplementedToC
      BY <1>5, <2>1, <2>6 DEF InterfaceToC
    <3> QED
      BY <1>1, <3>1 DEF NotImplementedToC
  <2> QED
    BY <2>2, <2>3, <2>4, <2>5, <2>6
<1> QED
  BY <1>2, <1>3, <1>4, <1>5 DEF NoBlocks

LEMMA ConvertedBelongs ==
    ASSUME NEW Ts, NEW depth, Tied(Ts, depth), NestedPlain(Ts), NEW t \in Ts,
           NEW transfer \in {"nothing", "container", "everything"}, transfer = "container" => t.tag \in Containers,
           NEW nullable, NEW v, NEW r \in ToC(t, transfer, nullable, v), r.ok
    PROVE  Belongings(t, transfer, r.c) \subseteq r.made
<1>1. CASE t.tag \in Containers
  <2>1. \A e \in ElementTypes(t) : Promised(e)
    BY EveryLevel DEF Tied
  <2>2. PICK is : MadeWhole(t, transfer, r, is)
    BY <1>1, <2>1, ContainersWhole
  <2> QED
    BY <1>1, <2>2, WholeBelongs
<1>2. CASE t.tag \notin Containers
  BY <1>2, ValuesBelong DEF Transfers
<1> QED
  BY <1>1, <1>2

-----------------------------------------------------------------------------
(* Incoming, of an argument and what is passed for it.                     *)
Conversions(a, v) ==
    CASE a.dir = "instance" -> gwkjs_fill_method_instance(a.type, a.transfer, v)
      [] a.dir = "callback" -> ToC(a.type, a.transfer, TRUE, v)
      [] a.dir \in {"in", "inout"} /\ Explicit(a.type) -> gwkjs_value_to_explicit_array(a, v)
      [] OTHER -> gwkjs_value_to_arg(a, v)

(* A pending argument owns what was made for it.                           *)
OwnsConverted(a, v, c, owns) ==
    \E r \in Conversions(a, v) :
        /\ r.ok /\ owns = Side("in", r.made)
        /\ Belongings(a.type, a.transfer, c) \subseteq r.made
        /\ a.dir # "callback" => c = r.c

Temporary(a, v, c, owns) ==
    \E r \in Conversions(a, v) : r.ok /\ c = r.c /\ Side("in", r.made) \subseteq owns

Excused(a) ==
    /\ ElementsNotOwned(a.type) /\ a.dir \in {"in", "inout"}
    /\ a.dir = "inout" \/ a.transfer = "nothing"

TwiceAt(a, v, at, c, d, owns, strays) ==
    /\ a \in Arguments
    /\ at = "convert" => a.dir \in {"in", "inout", "instance", "callback"}
    /\ at \in {"convert", "call"} => d = NULL
    /\ at = "release" => a.dir \in {"in", "inout"}
    /\ ~Excused(a) =>
        /\ strays = {}
        /\ at = "call" /\ a.dir \in {"in", "inout", "instance", "callback"} => OwnsConverted(a, v, c, owns)
        /\ at = "release" /\ (a.dir = "inout" \/ a.transfer = "nothing") => Temporary(a, v, c, owns)
        /\ at \in {"release", "convert out", "release out"} =>
              Side("out", Belongings(a.type, a.transfer, d)) \subseteq owns

TwiceInv == TwiceAt(arg, input, pc, in, out, owned, stray)

LEMMA NullBelongsToNobody ==
    ASSUME NEW t, NEW transfer
    PROVE  Belongings(t, transfer, NULL) = {} /\ Side("out", Belongings(t, transfer, NULL)) = {}
BY NullHasNoElements DEF Belongings, Side

LEMMA ReturnedBelongs ==
    ASSUME NEW Ts, NEW depth, Tied(Ts, depth), NestedPlain(Ts), NEW t \in Ts,
           NEW transfer \in {"nothing", "container", "everything"}, transfer = "container" => t.tag \in Containers,
           NEW nullable, NEW v, NEW r \in ToC(t, transfer, nullable, v), r.ok,
           NEW ffi \in set_return_ffi_arg_from_giargument(t, r.c)
    PROVE  Belongings(t, transfer, Returned(t, ffi)) \subseteq r.made
<1>1. CASE r.c.is # "int"
  <2>1. ffi = r.c
    BY <1>1 DEF set_return_ffi_arg_from_giargument
  <2>2. Returned(t, ffi) = r.c
    BY <1>1, <2>1 DEF Returned
  <2> QED
    BY <2>2, ConvertedBelongs
<1>2. CASE r.c.is = "int"
  <2>1. NoBlocks(t)
    BY <1>2, IntsHaveNoBlocks
  <2> QED
    BY <2>1, NothingBelongs
<1> QED
  BY <1>1, <1>2

LEMMA InstanceBelongs ==
    ASSUME NEW t, t.tag = "interface", NEW transfer \in {"nothing", "container", "everything"}, transfer # "container",
           NEW v, NEW r \in gwkjs_fill_method_instance(t, transfer, v), r.ok
    PROVE  Belongings(t, transfer, r.c) \subseteq r.made
<1>1. CASE r = To(NULL, {})
  BY <1>1, NullBelongsToNobody DEF To
<1>2. CASE r # To(NULL, {})
  <2>1. r = To(C(t.iface, v.n, << >>), IfAny(transfer = "everything", Root))
    BY <1>2 DEF gwkjs_fill_method_instance, Fails
  <2>2. r.made = IfAny(transfer = "everything", Root)
    BY <2>1 DEF To
  <2>3. CASE transfer = "nothing"
    BY <2>3 DEF Belongings
  <2>4. CASE transfer = "everything"
    BY <2>2, <2>4 DEF Belongings, IfAny, Containers, Strings
  <2> QED
    BY <2>3, <2>4
<1> QED
  BY <1>1, <1>2

LEMMA ExplicitBelongs ==
    ASSUME NEW Ts, NEW depth, Tied(Ts, depth), NestedPlain(Ts), NEW t \in Ts, Explicit(t),
           NEW transfer \in {"nothing", "container", "everything"}, NEW nullable, NEW v,
           NEW r \in gwkjs_array_to_explicit_array_internal(t, transfer, nullable, v), r.ok
    PROVE  Belongings(t, transfer, r.c) \subseteq r.made
<1>1. \A e \in ElementTypes(t) : Promised(e)
  BY EveryLevel DEF Tied
<1>2. t.tag = "array" /\ t.tag \in Containers
  BY DEF Explicit, Containers
<1>3. MadeWhole(t, transfer, r, "array")
  BY <1>1, <1>2, ExplicitWhole
<1> QED
  BY <1>2, <1>3, WholeBelongs

(* Sides.                                                                  *)
LEMMA SidesApart ==
    ASSUME NEW A, NEW B
    PROVE  /\ A \subseteq B => Side("in", A) \subseteq Side("in", B) /\ Side("out", A) \subseteq Side("out", B)
           /\ Side("in", A) \cap Side("out", B) = {}
           /\ Side("in", {}) = {}
BY DEF Side

LEMMA GoneFits ==
    ASSUME NEW blocks, Gone(blocks), blocks \subseteq owned
    PROVE  stray' = stray /\ owned' = owned \ blocks
BY DEF Gone

(* For any types, values and transfers, arrays of lists of tables          *)
(* included, what a conversion made is released once: by C when it was     *)
(* given it, or by the release that follows the call, which never touches  *)
(* what C took or did not give; but for the elements that ElementsNotOwned *)
(* names, when they were passed without a transfer.  The types are those   *)
(* of the arguments and of what is in them, Tied to the conversions that   *)
(* they are converted with.  In a container that is itself an element      *)
(* there are no objects: an array of pointers would release those of a     *)
(* nested one as well.                                                     *)
THEOREM ReleasedOnce ==
    ASSUME NEW Ts, NEW depth, Tied(Ts, depth), NestedPlain(Ts),
           \A a \in Arguments : a.type \in Ts
    PROVE  MarshalSpec => []NothingReleasedTwice
<1>1. MarshalInit => TwiceInv
  <2> SUFFICES ASSUME MarshalInit PROVE TwiceInv
    OBVIOUS
  <2>1. arg \in Arguments /\ stray = {} /\ out = NULL
    BY DEF MarshalInit
  <2>2. (pc = "convert" /\ Takes) \/ (pc = "call" /\ ~Takes)
    BY DEF MarshalInit
  <2> QED
    BY <2>1, <2>2 DEF TwiceInv, TwiceAt, Takes
<1>2. TwiceInv /\ [MarshalNext]_marshalVars => TwiceInv'
  <2> SUFFICES ASSUME TwiceInv, [MarshalNext]_marshalVars
               PROVE  TwiceAt(arg', input', pc', in', out', owned', stray')
    BY DEF TwiceInv
  <2>1. TwiceAt(arg, input, pc, in, out, owned, stray)
    BY DEF TwiceInv
  <2>2. arg \in Arguments /\ arg.type \in Ts
    BY <2>1 DEF TwiceAt
  <2>3. /\ arg.transfer \in {"nothing", "container", "everything"}
        /\ arg.transfer = "container" => arg.type.tag \in Containers
        /\ arg.dir = "instance" => arg.type.tag = "interface"
    BY <2>2, MarshalAssumption
  <2>4. CASE ConvertIn
    <3>1. /\ pc = "convert" /\ arg' = arg /\ input' = input /\ out' = out /\ stray' = stray
          /\ arg.dir \in {"in", "inout", "instance", "callback"} /\ out = NULL
          /\ ~Excused(arg) => stray = {}
      BY <2>1, <2>4 DEF ConvertIn, TwiceAt
    <3>2. PICK r \in Incoming :
            /\ IF arg.dir = "callback"
               THEN \E ffi \in set_return_ffi_arg_from_giargument(arg.type, r.c) :
                        in' = IF r.ok THEN Returned(arg.type, ffi) ELSE gwkjs_g_argument_init_default(arg.type)
               ELSE in' = r.c
            /\ owned' = Side("in", r.made)
            /\ pc' = IF r.ok THEN "call" ELSE "done"
      BY <2>4 DEF ConvertIn
    <3>3. CASE ~r.ok
      <4>1. pc' = "done"
        BY <3>2, <3>3
      <4> QED
        BY <2>2, <3>1, <4>1 DEF TwiceAt
    <3>4. CASE r.ok
      <4>1. pc' = "call"
        BY <3>2, <3>4
      <4>2. r \in Conversions(arg, input)
        BY DEF Incoming, Conversions
      <4>3. Belongings(arg.type, arg.transfer, in') \subseteq r.made /\ (arg.dir # "callback" => in' = r.c)
        <5>1. CASE arg.dir = "callback"
          <6>1. PICK ffi \in set_return_ffi_arg_from_giargument(arg.type, r.c) : in' = Returned(arg.type, ffi)
            BY <3>2, <3>4, <5>1
          <6>2. r \in ToC(arg.type, arg.transfer, TRUE, input)
            BY <4>2, <5>1 DEF Conversions
          <6>3. \A yes : yes = TRUE /\ r \in ToC(arg.type, arg.transfer, yes, input) =>
                    Belongings(arg.type, arg.transfer, Returned(arg.type, ffi)) \subseteq r.made
            BY <2>2, <2>3, <3>4, <6>1, ReturnedBelongs
          <6> QED
            BY <5>1, <6>1, <6>2, <6>3
        <5>2. CASE arg.dir = "instance"
          <6>1. in' = r.c
            BY <3>2, <5>2
          <6>2. r \in gwkjs_fill_method_instance(arg.type, arg.transfer, input)
            BY <4>2, <5>2 DEF Conversions
          <6>3. arg.type.tag = "interface" /\ arg.transfer # "container"
            BY <2>3, <5>2 DEF Containers
          <6> QED
            BY <2>3, <3>4, <6>1, <6>2, <6>3, InstanceBelongs
        <5>3. CASE arg.dir \in {"in", "inout"} /\ Explicit(arg.type)
          <6>1. in' = r.c
            BY <3>2, <5>3
          <6>2. r \in gwkjs_array_to_explicit_array_internal(arg.type, arg.transfer, arg.nullable, input)
            BY <4>2, <5>3 DEF Conversions, gwkjs_value_to_explicit_array
          <6> QED
            BY <2>2, <2>3, <3>4, <5>3, <6>1, <6>2, ExplicitBelongs
        <5>4. CASE arg.dir \in {"in", "inout"} /\ ~Explicit(arg.type)
          <6>1. in' = r.c
            BY <3>2, <5>4
          <6>2. r \in ToC(arg.type, arg.transfer, arg.nullable, input)
            BY <4>2, <5>4 DEF Conversions, gwkjs_value_to_arg
          <6> QED
            BY <2>2, <2>3, <3>4, <6>1, <6>2, ConvertedBelongs
        <5> QED
          BY <3>1, <5>1, <5>2, <5>3, <5>4
      <4>4. OwnsConverted(arg, input, in', owned')
        BY <3>2, <3>4, <4>2, <4>3 DEF OwnsConverted
      <4> QED
        BY <2>2, <3>1, <4>1, <4>4 DEF TwiceAt
    <3> QED
      BY <3>3, <3>4
  <2>5. CASE Call
    <3>1. /\ pc = "call" /\ arg' = arg /\ input' = input /\ in' = in /\ out = NULL
          /\ ~Excused(arg) => stray = {}
          /\ ~Excused(arg) /\ Takes => OwnsConverted(arg, input, in, owned)
      BY <2>1, <2>5 DEF Call, TwiceAt, Takes
    <3>2. CASE /\ Takes /\ arg.dir # "inout"
               /\ Gone(Side("in", Belongings(arg.type, arg.transfer, in)))
               /\ pc' = IF arg.dir = "in" THEN "release" ELSE "done"
               /\ UNCHANGED <<out, echoed>>
      <4>1. out' = NULL /\ pc' \in {"release", "done"} /\ (pc' = "release" => arg.dir = "in")
        BY <3>1, <3>2
      <4>2. CASE Excused(arg)
        BY <2>2, <3>1, <4>1, <4>2 DEF TwiceAt
      <4>3. CASE ~Excused(arg)
        <5>1. PICK r \in Conversions(arg, input) :
                /\ r.ok /\ owned = Side("in", r.made)
                /\ Belongings(arg.type, arg.transfer, in) \subseteq r.made
                /\ arg.dir # "callback" => in = r.c
          BY <3>1, <3>2, <4>3 DEF OwnsConverted
        <5>2. Side("in", Belongings(arg.type, arg.transfer, in)) \subseteq owned
          BY <5>1, SidesApart
        <5>3. stray' = {} /\ owned' = owned \ Side("in", Belongings(arg.type, arg.transfer, in))
          BY <3>1, <3>2, <4>3, <5>2, GoneFits
        <5>4. ASSUME arg.dir = "in", arg.transfer = "nothing" PROVE Temporary(arg, input, in, owned')
          <6>1. Belongings(arg.type, arg.transfer, in) = {}
            BY <5>4 DEF Belongings
          <6>2. owned' = owned
            BY <5>3, <6>1, SidesApart
          <6> QED
            BY <5>1, <5>4, <6>2 DEF Temporary
        <5>5. Side("out", Belongings(arg.type, arg.transfer, out')) = {}
          BY <4>1, NullBelongsToNobody
        <5> QED
          BY <2>2, <3>1, <4>1, <5>3, <5>4, <5>5 DEF TwiceAt
      <4> QED
        BY <4>2, <4>3
    <3>3. CASE /\ Gives
               /\ \/ out' \in Outputs(arg) /\ echoed' = FALSE
                  \/ arg.dir = "inout" /\ out' = in /\ echoed' = TRUE
               /\ owned' = owned \union Side("out", Belongings(arg.type, arg.transfer, out'))
               /\ pc' = IF arg.dir = "inout" THEN "release" ELSE "convert out"
               /\ UNCHANGED stray
      <4>1. /\ stray' = stray /\ pc' \in {"release", "convert out"} /\ (pc' = "release" => arg.dir = "inout")
            /\ owned' = owned \union Side("out", Belongings(arg.type, arg.transfer, out'))
        BY <3>3
      <4>2. ASSUME ~Excused(arg), pc' = "release" PROVE Temporary(arg, input, in, owned')
        <5>1. arg.dir = "inout" /\ Takes
          BY <4>1, <4>2 DEF Takes
        <5>2. OwnsConverted(arg, input, in, owned)
          BY <3>1, <4>2, <5>1
        <5> QED
          BY <4>1, <5>1, <5>2 DEF OwnsConverted, Temporary
      <4> QED
        BY <2>2, <3>1, <4>1, <4>2 DEF TwiceAt
    <3> QED
      BY <2>5, <3>2, <3>3 DEF Call
  <2>6. CASE Throws
    <3>1. /\ pc = "call" /\ arg' = arg /\ input' = input /\ in' = in /\ out' = NULL
          /\ pc' = IF arg.dir \in {"in", "inout"} THEN "release" ELSE "done"
          /\ Gone(IF arg.dir \in {"in", "instance"} THEN Side("in", Belongings(arg.type, arg.transfer, in)) ELSE {})
          /\ ~Excused(arg) => stray = {}
          /\ ~Excused(arg) /\ Takes => OwnsConverted(arg, input, in, owned)
      BY <2>1, <2>6 DEF Throws, TwiceAt, Takes
    <3>2. CASE Excused(arg)
      BY <2>2, <3>1, <3>2 DEF TwiceAt
    <3>3. CASE ~Excused(arg)
      <4>1. Side("out", Belongings(arg.type, arg.transfer, out')) = {}
        BY <3>1, NullBelongsToNobody
      <4>2. CASE arg.dir \in {"in", "instance"}
        <5>1. PICK r \in Conversions(arg, input) :
                /\ r.ok /\ owned = Side("in", r.made)
                /\ Belongings(arg.type, arg.transfer, in) \subseteq r.made
                /\ in = r.c
          BY <3>1, <3>3, <4>2 DEF OwnsConverted, Takes
        <5>2. Side("in", Belongings(arg.type, arg.transfer, in)) \subseteq owned
          BY <5>1, SidesApart
        <5>3. Gone(Side("in", Belongings(arg.type, arg.transfer, in)))
          BY <3>1, <4>2
        <5>4. stray' = {} /\ owned' = owned \ Side("in", Belongings(arg.type, arg.transfer, in))
          BY <3>1, <3>3, <5>2, <5>3, GoneFits
        <5>5. ASSUME arg.transfer = "nothing" PROVE Temporary(arg, input, in, owned')
          <6>1. Belongings(arg.type, arg.transfer, in) = {}
            BY <5>5 DEF Belongings
          <6>2. owned' = owned
            BY <5>4, <6>1, SidesApart
          <6> QED
            BY <5>1, <6>2 DEF Temporary
        <5> QED
          BY <2>2, <3>1, <4>1, <4>2, <5>4, <5>5 DEF TwiceAt
      <4>3. CASE arg.dir \notin {"in", "instance"}
        <5>1. Gone({})
          BY <3>1, <4>3
        <5>2. stray' = {} /\ owned' = owned
          BY <3>1, <3>3, <5>1 DEF Gone
        <5>3. ASSUME arg.dir = "inout" PROVE Temporary(arg, input, in, owned')
          <6>1. OwnsConverted(arg, input, in, owned)
            BY <3>1, <3>3, <5>3 DEF Takes
          <6> QED
            BY <5>2, <5>3, <6>1 DEF OwnsConverted, Temporary
        <5> QED
          BY <2>2, <3>1, <4>1, <4>3, <5>2, <5>3 DEF TwiceAt
      <4> QED
        BY <4>2, <4>3
    <3> QED
      BY <3>2, <3>3
  <2>7. CASE ReleaseArgument
    <3>1. /\ pc = "release" /\ arg' = arg /\ input' = input /\ in' = in /\ out' = out
          /\ pc' \in {"convert out", "done"}
          /\ Gone(Side("in", InReleased(arg.type, InTransfer, in).freed))
          /\ arg.dir \in {"in", "inout"}
      BY <2>1, <2>7 DEF ReleaseArgument, TwiceAt, InReleased
    <3>2. CASE Excused(arg)
      BY <2>2, <3>1, <3>2 DEF TwiceAt
    <3>3. CASE ~Excused(arg)
      <4>1. stray = {} /\ Side("out", Belongings(arg.type, arg.transfer, out)) \subseteq owned
        BY <2>1, <3>1, <3>3 DEF TwiceAt
      <4>2. Side("in", InReleased(arg.type, InTransfer, in).freed) \subseteq owned
        <5>1. CASE InTransfer # "nothing"
          <6>1. InReleased(arg.type, InTransfer, in) = Freed({})
            BY <5>1 DEF InReleased, gwkjs_g_argument_release_in_array, gwkjs_g_argument_release_in_arg
          <6>2. InReleased(arg.type, InTransfer, in).freed = {}
            BY <6>1 DEF Freed
          <6> QED
            BY <6>2, SidesApart
        <5>2. CASE InTransfer = "nothing"
          <6>1. arg.dir = "inout" \/ arg.transfer = "nothing"
            BY <5>2 DEF InTransfer
          <6>2. PICK r \in Conversions(arg, input) : r.ok /\ in = r.c /\ Side("in", r.made) \subseteq owned
            BY <2>1, <3>1, <3>3, <6>1 DEF TwiceAt, Temporary
          <6>3. ~ElementsNotOwned(arg.type)
            BY <3>1, <3>3, <6>1 DEF Excused
          <6>4. CASE Explicit(arg.type)
            <7>1. r \in gwkjs_array_to_explicit_array_internal(arg.type, arg.transfer, arg.nullable, input)
              BY <3>1, <6>4 DEF Conversions, gwkjs_value_to_explicit_array
            <7>2. InReleased(arg.type, "nothing", r.c).freed \subseteq r.made
              BY <2>2, <2>3, <6>2, <6>4, <7>1, ExplicitFree
            <7> QED
              BY <5>2, <6>2, <7>2, SidesApart
          <6>5. CASE ~Explicit(arg.type)
            <7>1. r \in ToC(arg.type, arg.transfer, arg.nullable, input)
              BY <3>1, <6>5 DEF Conversions, gwkjs_value_to_arg
            <7>2. InReleased(arg.type, "nothing", r.c).freed \subseteq r.made
              BY <2>2, <2>3, <6>2, <6>3, <6>5, <7>1, ArgumentsFree
            <7> QED
              BY <5>2, <6>2, <7>2, SidesApart
          <6> QED
            BY <6>4, <6>5
        <5> QED
          BY <5>1, <5>2
      <4>3. stray' = {} /\ owned' = owned \ Side("in", InReleased(arg.type, InTransfer, in).freed)
        BY <3>1, <4>1, <4>2, GoneFits
      <4>4. Side("out", Belongings(arg.type, arg.transfer, out')) \subseteq owned'
        <5>1. Side("in", InReleased(arg.type, InTransfer, in).freed)
                \cap Side("out", Belongings(arg.type, arg.transfer, out)) = {}
          BY SidesApart
        <5>2. Side("out", Belongings(arg.type, arg.transfer, out)) \subseteq owned'
          BY <4>1, <4>3, <5>1
        <5> QED
          BY <3>1, <5>2
      <4> QED
        BY <2>2, <3>1, <4>3, <4>4 DEF TwiceAt
    <3> QED
      BY <3>2, <3>3
  <2>8. CASE ConvertOut
    <3>1. /\ pc = "convert out" /\ arg' = arg /\ input' = input /\ in' = in /\ out' = out
          /\ owned' = owned /\ stray' = stray /\ pc' \in {"crashed", "release out", "done"}
      <4>1. pc' = CASE FromC(arg.type, out) = Crashes -> "crashed"
                    [] FromC(arg.type, out).ok /\ arg.dir # "parameter" -> "release out"
                    [] OTHER -> "done"
        BY <2>8 DEF ConvertOut
      <4>2. pc' \in {"crashed", "release out", "done"}
        BY <4>1
      <4> QED
        BY <2>8, <4>2 DEF ConvertOut
    <3>2. ~Excused(arg) => stray = {} /\ Side("out", Belongings(arg.type, arg.transfer, out)) \subseteq owned
      BY <2>1, <3>1 DEF TwiceAt
    <3> QED
      BY <2>2, <3>1, <3>2 DEF TwiceAt
  <2>9. CASE ReleaseOutput
    <3>1. /\ pc = "release out" /\ arg' = arg /\ pc' = "done"
          /\ Gone(Side("out", OutReleased(arg.type, arg.transfer, out).freed))
      BY <2>9 DEF ReleaseOutput, OutReleased
    <3>2. CASE Excused(arg)
      BY <2>2, <3>1, <3>2 DEF TwiceAt
    <3>3. CASE ~Excused(arg)
      <4>1. stray = {} /\ Side("out", Belongings(arg.type, arg.transfer, out)) \subseteq owned
        BY <2>1, <3>1, <3>3 DEF TwiceAt
      <4>2. OutReleased(arg.type, arg.transfer, out).freed \subseteq Belongings(arg.type, arg.transfer, out)
        BY <2>2, <2>3, OutputsFree
      <4>3. Side("out", OutReleased(arg.type, arg.transfer, out).freed) \subseteq owned
        <5>1. Side("out", OutReleased(arg.type, arg.transfer, out).freed)
                \subseteq Side("out", Belongings(arg.type, arg.transfer, out))
          BY <4>2, SidesApart
        <5> QED
          BY <4>1, <5>1
      <4>4. stray' = {}
        BY <3>1, <4>1, <4>3, GoneFits
      <4> QED
        BY <2>2, <3>1, <4>4 DEF TwiceAt
    <3> QED
      BY <3>2, <3>3
  <2>10. CASE UNCHANGED marshalVars
    BY <2>1, <2>10 DEF marshalVars
  <2> QED
    BY <2>4, <2>5, <2>6, <2>7, <2>8, <2>9, <2>10 DEF MarshalNext
<1>3. TwiceInv => NothingReleasedTwice
  BY DEF TwiceInv, TwiceAt, NothingReleasedTwice, Excused, InTransfer
<1> QED
  BY <1>1, <1>2, <1>3, PTL DEF MarshalSpec

-----------------------------------------------------------------------------
(* Numbers that go through C whole.                                        *)
LEMMA Twice ==
    ASSUME NEW a \in Nat, NEW m \in Nat \ {0}, a % m = 0, a > m
    PROVE  a >= 2 * m
<1>1. PICK k \in Int : a = m * k
  <2>1. a = m * (a \div m) /\ a \div m \in Int
    BY Divides
  <2> QED
    BY <2>1
<1>2. k > 1
  BY <1>1
<1> QED
  BY <1>1, <1>2

LEMMA WidthsNest ==
    /\ 2 * Half[8] <= Half[16] /\ 2 * Half[16] <= Half[32] /\ 2 * Half[32] <= Half[64]
    /\ Half[8] \in Nat \ {0} /\ Half[16] \in Nat \ {0} /\ Half[32] \in Nat \ {0} /\ Half[64] \in Nat \ {0}
<1>1. Half[8] \in Nat \ {0} /\ Half[16] \in Nat \ {0} /\ Half[32] \in Nat \ {0} /\ Half[64] \in Nat \ {0}
  BY NumbersAssumption DEF Widths
<1>2. 8 \in Widths /\ 16 \in Widths /\ 32 \in Widths /\ 64 \in Widths
  BY DEF Widths
<1>3. Half[16] % Half[8] = 0 /\ Half[32] % Half[16] = 0 /\ Half[64] % Half[32] = 0
  BY <1>2, NumbersAssumption
<1>4. Half[8] < Half[16] /\ Half[16] < Half[32] /\ Half[32] < Half[64]
  BY NumbersAssumption
<1> QED
  BY <1>1, <1>3, <1>4, Twice

(* The number of an integer, cast.                                         *)
LEMMA CastsBack ==
    ASSUME NEW i \in Int, NEW w \in Widths
    PROVE  /\ i \in SInt(w) => CastInt(Number(2 * i), w) = {i}
           /\ i \in UInt(w) => CastUInt(Number(2 * i), w) = {i}
           /\ i \in SInt(w) /\ i >= 0 => CastInt(Number(2 * i + 1), w) = {i}
<1>1. /\ Truncated(2 * i) = i
      /\ i >= 0 => Truncated(2 * i + 1) = i
  BY DEF Truncated
<1>2. ASSUME NEW n PROVE Number(n).is = "number" /\ Number(n).n = n
  BY DEF Number, JS
<1> QED
  BY <1>1, <1>2 DEF CastInt, CastUInt

LEMMA NotCut ==
    ASSUME NEW w \in Widths, NEW i \in Int
    PROVE  (i \in SInt(w) => Wrap(i, w) = i) /\ (i \in UInt(w) => UWrap(i, w) = i)
<1> DEFINE H == Half[w]
<1>1. H \in Nat /\ H > 0
  BY HalvesGrow
<1> HIDE DEF H
<1>2. -H <= i /\ i <= H - 1 => ((i + H) % (2 * H)) - H = i
  BY <1>1
<1>3. 0 <= i /\ i <= 2 * H - 1 => i % (2 * H) = i
  BY <1>1
<1> QED
  BY <1>1, <1>2, <1>3 DEF H, SInt, UInt, Lowest, Highest, UHighest, Wrap, UWrap

LEMMA NumberFields ==
    ASSUME NEW n
    PROVE  /\ Number(n).is = "number" /\ Number(n).n = n /\ Number(n).sub = << >>
           /\ Numeric(Number(n)) /\ JSValueToNumber(Number(n)) = Number(n)
BY DEF Number, JS, Numeric, JSValueToNumber

LEMMA IntegersComeBack ==
    ASSUME NEW tag \in IntegerTags, NEW i \in RangeOf(tag),
           NEW r \in IntegerArgument(tag, Number(2 * i)), r.ok
    PROVE  r.n = i
<1> DEFINE v == Number(2 * i)
<1>0. 8 \in Widths /\ 16 \in Widths /\ 32 \in Widths /\ 64 \in Widths
  BY DEF Widths
<1>1. /\ tag = "int8" => i \in SInt(8)
      /\ tag = "uint8" => i \in UInt(8)
      /\ tag = "int16" => i \in SInt(16)
      /\ tag = "uint16" => i \in UInt(16)
      /\ tag = "int32" => i \in SInt(32)
      /\ tag = "uint32" => i \in UInt(32)
      /\ tag = "int64" => i \in SInt(64)
      /\ tag = "uint64" => i \in UInt(64)
  BY DEF RangeOf, Width, SignedTags
<1>2. /\ i \in Int
      /\ i \in SInt(8) \union SInt(16) => i \in SInt(32)
      /\ i \in UInt(8) \union UInt(16) => i \in UInt(32)
  BY <1>1, WidthsNest DEF SInt, UInt, Lowest, Highest, UHighest, IntegerTags, SignedTags, UnsignedTags
<1>3. JSValueToNumber(v) = v /\ Numeric(v)
  BY NumberFields
<1>4. /\ gwkjs_jsvalue_to_int(v) = Converted(CastInt(v, 32))
      /\ gwkjs_jsvalue_to_uint(v) = Converted(CastUInt(v, 32))
  BY <1>3 DEF gwkjs_jsvalue_to_int, gwkjs_jsvalue_to_uint
<1>5. ASSUME NEW ns, ns = {i} PROVE \A x \in Converted(ns) : x.n = i
  BY <1>5 DEF Converted
<1>6. /\ i \in SInt(32) => \A x \in gwkjs_jsvalue_to_int(v) : x.n = i
      /\ i \in UInt(32) => \A x \in gwkjs_jsvalue_to_uint(v) : x.n = i
  BY <1>0, <1>2, <1>4, <1>5, CastsBack
<1> HIDE DEF v
<1>7. ASSUME NEW results, NEW range, \A x \in results : x.n = i
      PROVE  \A y \in InRange(results, range) : y.ok => y.n = i
  BY <1>7 DEF InRange
<1>8. ASSUME NEW ns, ns = {i}, NEW low, NEW high
      PROVE  \A y \in Number64(v, ns, low, high) : y.ok => y.n = i
  BY <1>5, <1>8 DEF Number64, Refused
<1>9. CASE tag \in {"int8", "int16", "uint8", "uint16", "int32"}
  BY <1>1, <1>2, <1>6, <1>7, <1>9 DEF IntegerArgument, v
<1>10. CASE tag \in {"uint32", "int64"}
  <2>1. tag = "uint32" => CastUInt(v, 32) = {i}
    BY <1>0, <1>1, <1>2, CastsBack DEF v
  <2>2. tag = "int64" => CastInt(v, 64) = {i}
    BY <1>0, <1>1, <1>2, CastsBack DEF v
  <2> QED
    BY <1>3, <1>8, <1>10, <2>1, <2>2 DEF IntegerArgument, v
<1>11. CASE tag = "uint64"
  <2>1. CastUInt(v, 64) = {i}
    BY <1>0, <1>1, <1>2, <1>11, CastsBack DEF v
  <2> QED
    BY <1>3, <1>5, <1>11, <2>1 DEF IntegerArgument, Refused, v
<1> QED
  BY <1>9, <1>10, <1>11 DEF IntegerTags, SignedTags, UnsignedTags

(* An element of an array of numbers.                                      *)
NarrowTags == {"int8", "int16", "int32", "uint16", "uint32"}

LEMMA ElementsComeBack ==
    ASSUME NEW tag \in NarrowTags, NEW i \in RangeOf(tag), i \in SInt(32),
           NEW r \in IntegerElement(tag, Number(2 * i))
    PROVE  r.ok /\ r.n = i
<1> DEFINE v == Number(2 * i)
<1>0. 8 \in Widths /\ 16 \in Widths /\ 32 \in Widths
  BY DEF Widths
<1>1. /\ tag \in SignedTags => i \in SInt(Width(tag))
      /\ tag \notin SignedTags => i \in UInt(Width(tag))
  BY DEF RangeOf
<1>1a. Width(tag) \in Widths
  BY DEF NarrowTags, Width, Widths
<1>2. i \in Int
  BY WidthsNest DEF SInt, Lowest, Highest
<1>3. JSValueToNumber(v) = v /\ Numeric(v)
  BY NumberFields
<1>4. CastInt(v, 32) = {i}
  BY <1>0, <1>2, CastsBack
<1>5. gwkjs_jsvalue_to_int(v) = Converted({i})
  BY <1>3, <1>4 DEF gwkjs_jsvalue_to_int
<1> HIDE DEF v
<1>6. PICK x \in Converted({i}) :
        r = (IF x.ok /\ tag \in SignedTags THEN [x EXCEPT !.n = Wrap(@, Width(tag))]
             ELSE IF x.ok THEN [x EXCEPT !.n = UWrap(@, Width(tag))] ELSE x)
  BY <1>5 DEF IntegerElement, v
<1>7. x = [ok |-> TRUE, n |-> i]
  BY <1>6 DEF Converted
<1>8. /\ tag \in SignedTags => r = [ok |-> TRUE, n |-> Wrap(i, Width(tag))]
      /\ tag \notin SignedTags => r = [ok |-> TRUE, n |-> UWrap(i, Width(tag))]
  BY <1>6, <1>7
<1>9. /\ tag \in SignedTags => Wrap(i, Width(tag)) = i
      /\ tag \notin SignedTags => UWrap(i, Width(tag)) = i
  BY <1>1, <1>1a, <1>2, NotCut
<1> QED
  BY <1>8, <1>9

Enumerations == {"enum", "unsigned_enum", "flags"}

LEMMA EnumsComeBack ==
    ASSUME NEW t, t.iface \in Enumerations, NEW e \in UInt(32), ValidEnum(t.iface, e),
           NEW r \in EnumToC(t, Number(2 * e)), r.ok
    PROVE  EnumFromC(t, r.c) = Js(Number(2 * e))
<1> DEFINE v == Number(2 * e)
<1>0. 32 \in Widths /\ 64 \in Widths
  BY DEF Widths
<1>1. e \in Int /\ e >= 0 /\ e \in SInt(64)
  BY WidthsNest DEF SInt, UInt, Lowest, Highest, UHighest
<1>2. v.is = "number" /\ Rounded(v) = Number(2 * e + 1)
  BY NumberFields DEF Rounded
<1>3. gwkjs_value_to_int64(v) = {e}
  BY <1>0, <1>1, <1>2, CastsBack DEF gwkjs_value_to_int64
<1> HIDE DEF v
<1>4. \A x \in EnumArgument(t.iface, v) : x.ok => x = [ok |-> TRUE, n |-> _gwkjs_enum_to_int(e)]
  BY <1>2, <1>3 DEF EnumArgument
<1>5. PICK x \in EnumArgument(t.iface, v) : r = IF x.ok THEN To(C("int", x.n, << >>), {}) ELSE Fails({})
  BY DEF EnumToC, v
<1>6. x.ok
  BY <1>5 DEF Fails
<1>7. r = To(C("int", Wrap(e, 32), << >>), {})
  BY <1>4, <1>5, <1>6 DEF _gwkjs_enum_to_int
<1>8. r.c.n = Wrap(e, 32)
  BY <1>7 DEF To, C
<1>9. _gwkjs_enum_from_int(t.iface, r.c.n) = e
  <2>1. CASE t.iface = "enum"
    <3>1. e \in SInt(32)
      BY <2>1, NumbersAssumption DEF ValidEnum, _gwkjs_enum_value_is_valid
    <3> QED
      BY <1>0, <1>1, <1>8, <2>1, <3>1, NotCut DEF _gwkjs_enum_from_int
  <2>2. CASE t.iface # "enum"
    <3> DEFINE H == Half[32]
    <3>1. H \in Nat \ {0} /\ 0 <= e /\ e <= 2 * H - 1
      BY <1>1, WidthsNest DEF UInt, UHighest
    <3> HIDE DEF H
    <3>2. e < H => (e + H) % (2 * H) = e + H
      BY <1>1, <3>1
    <3>3. e >= H => (e + H) % (2 * H) = e - H
      <4>1. ASSUME e >= H PROVE e + H = 1 * (2 * H) + (e - H) /\ e - H \in 0..(2 * H - 1)
        BY <1>1, <3>1, <4>1
      <4> QED
        BY <1>1, <3>1, <4>1, Remainder
    <3>4. e < H => ((e + H) % (2 * H)) - H = e
      BY <1>1, <3>1, <3>2
    <3>5. e >= H => ((e + H) % (2 * H)) - H = e - 2 * H
      BY <1>1, <3>1, <3>3
    <3>6. e - 2 * H = (-1) * (2 * H) + e /\ e - 2 * H \in Int /\ e \in 0..(2 * H - 1) /\ 2 * H \in Nat \ {0}
      BY <1>1, <3>1
    <3>7. (e - 2 * H) % (2 * H) = e /\ e % (2 * H) = e
      BY <1>1, <3>1, <3>6, Remainder
    <3>8. UWrap(Wrap(e, 32), 32) = e
      BY <1>1, <3>1, <3>4, <3>5, <3>7 DEF H, UWrap, Wrap
    <3> QED
      BY <1>8, <2>2, <3>8 DEF _gwkjs_enum_from_int
  <2> QED
    BY <2>1, <2>2
<1> QED
  BY <1>9 DEF EnumFromC

(* A GValue.                                                               *)
TypedAs(y, c) == y \in {[ok |-> TRUE, c |-> c], [ok |-> FALSE, c |-> NULL]}

LEMMA GValuesComeBack ==
    ASSUME NEW v, CarriesGValue(v), NEW r \in GValueToC(v), r.ok
    PROVE  /\ r.c.is = "gvalue"
           /\ FromGValue(r.c.sub[1].is, r.c.sub[1].sub[1]) = Js(v)
           /\ v # Undefined
<1>0. PICK x \in gwkjs_value_to_g_value(v) : r = IF x.ok THEN To(C("gvalue", 0, <<x.c>>), Root) ELSE Fails({})
  BY DEF GValueToC
<1>1. x.ok /\ r = To(C("gvalue", 0, <<x.c>>), Root)
  BY <1>0 DEF Fails
<1>2. r.c.is = "gvalue" /\ r.c.sub[1] = x.c
  BY <1>1 DEF To, C
<1> DEFINE gtype == gwkjs_value_guess_g_type(v)
<1>3. ASSUME gtype # "INVALID"
      PROVE  \E y \in ToTypedGValue(gtype, v) : x = [y EXCEPT !.c = C(gtype, 0, <<@>>)]
  BY <1>0, <1>1, <1>3 DEF gwkjs_value_to_g_value, gwkjs_value_to_g_value_internal
<1> HIDE DEF gtype
<1>4. ASSUME NEW c, gtype # "INVALID", \A y \in ToTypedGValue(gtype, v) : TypedAs(y, c)
      PROVE  x.c.is = gtype /\ x.c.sub[1] = c
  <2>1. PICK y \in ToTypedGValue(gtype, v) : x = [y EXCEPT !.c = C(gtype, 0, <<@>>)]
    BY <1>3, <1>4
  <2>2. x = [[ok |-> TRUE, c |-> c] EXCEPT !.c = C(gtype, 0, <<@>>)]
    <3>1. CASE y = [ok |-> TRUE, c |-> c]
      BY <2>1, <3>1
    <3>2. CASE y = [ok |-> FALSE, c |-> NULL]
      <4>1. x = [ok |-> FALSE, c |-> C(gtype, 0, <<NULL>>)]
        BY <2>1, <3>2
      <4> QED
        BY <1>1, <4>1
    <3> QED
      BY <1>4, <3>1, <3>2 DEF TypedAs
  <2>3. x.c = C(gtype, 0, <<c>>)
    BY <2>2
  <2> QED
    BY <2>3 DEF C
<1>5. CASE v = JS("string", v.n, << >>)
  <2>1. v.is = "string"
    BY <1>5 DEF JS
  <2>2. gtype = "STRING"
    BY <2>1 DEF gtype, gwkjs_value_guess_g_type
  <2>3. \A y \in ToTypedGValue(gtype, v) : TypedAs(y, C("string", v.n, << >>))
    BY <2>1, <2>2 DEF ToTypedGValue, StringValue, gwkjs_string_to_utf8, ValueIs, TypedAs
  <2>4. x.c.is = "STRING" /\ x.c.sub[1] = C("string", v.n, << >>)
    BY <1>4, <2>2, <2>3
  <2>5. FromGValue("STRING", C("string", v.n, << >>)) = Js(v)
    BY <1>5 DEF FromGValue, gwkjs_string_from_utf8, C, JsIs, Js
  <2>6. v # Undefined
    BY <2>1 DEF Undefined, JS
  <2> QED
    BY <1>2, <2>4, <2>5, <2>6
<1>6. CASE v = NaN
  <2>1. v.is = "NaN"
    BY <1>6 DEF NaN, JS
  <2>2. gtype = "DOUBLE"
    BY <2>1 DEF gtype, gwkjs_value_guess_g_type, _is_int
  <2>3. \A y \in ToTypedGValue(gtype, v) : TypedAs(y, Double(v))
    BY <2>1, <2>2 DEF ToTypedGValue, DoubleValue, gwkjs_value_to_double, ValueIs, TypedAs
  <2>4. x.c.is = "DOUBLE" /\ x.c.sub[1] = Double(v)
    BY <1>4, <2>2, <2>3
  <2>5. FromGValue("DOUBLE", Double(v)) = Js(v)
    BY <1>6, <2>1 DEF FromGValue, Double, C, JsIs, Js
  <2>6. v # Undefined
    BY <2>1 DEF Undefined, JS
  <2> QED
    BY <1>2, <2>4, <2>5, <2>6
<1>7. CASE \E b \in {0, 1} : v = JS("boolean", b, << >>)
  <2>0. PICK b \in {0, 1} : v = JS("boolean", b, << >>)
    BY <1>7
  <2>1. v.is = "boolean" /\ v.n = b
    BY <2>0 DEF JS
  <2>2. gtype = "BOOLEAN"
    BY <2>1 DEF gtype, gwkjs_value_guess_g_type
  <2>3. \A y \in ToTypedGValue(gtype, v) : TypedAs(y, C("int", b, << >>))
    <3>1. gwkjs_value_to_boolean(v).b = (b # 0)
      BY <2>1 DEF gwkjs_value_to_boolean, Numeric, JSValueToBoolean
    <3>2. (IF gwkjs_value_to_boolean(v).b THEN 1 ELSE 0) = b
      BY <3>1
    <3> QED
      BY <2>2, <3>2 DEF ToTypedGValue, BooleanValue, Ints, ValueIs, ValueRefused, TypedAs
  <2>4. x.c.is = "BOOLEAN" /\ x.c.sub[1] = C("int", b, << >>)
    BY <1>4, <2>2, <2>3
  <2>5. FromGValue("BOOLEAN", C("int", b, << >>)) = Js(v)
    BY <2>0 DEF FromGValue, C, JsIs, Js
  <2>6. v # Undefined
    BY <2>1 DEF Undefined, JS
  <2> QED
    BY <1>2, <2>4, <2>5, <2>6
<1>8. CASE v = Number(v.n) /\ (_is_int(v) => v.n \in {2 * i : i \in SInt(32)})
  <2>0. v.is = "number" /\ JSValueToNumber(v) = v /\ Numeric(v)
    BY <1>8, NumberFields
  <2>1. v # Undefined
    BY <2>0 DEF Undefined, JS
  <2>2. CASE _is_int(v)
    <3>1. PICK i \in SInt(32) : v.n = 2 * i
      BY <1>8, <2>2
    <3>2. i \in Int /\ v = Number(2 * i) /\ 32 \in Widths
      BY <1>8, <3>1, WidthsNest DEF SInt, Lowest, Highest, Widths
    <3>3. gtype = "INT"
      BY <2>0, <2>2 DEF gtype, gwkjs_value_guess_g_type
    <3>4. CastInt(v, 32) = {i}
      BY <3>2, CastsBack
    <3>5. gwkjs_jsvalue_to_int(v) = Converted({i})
      BY <2>0, <3>4 DEF gwkjs_jsvalue_to_int
    <3>6. \A y \in ToTypedGValue(gtype, v) : TypedAs(y, C("int", i, << >>))
      BY <3>3, <3>5 DEF ToTypedGValue, IntValue, IntsIn, AnyInt, Converted, TypedAs
    <3>7. x.c.is = "INT" /\ x.c.sub[1] = C("int", i, << >>)
      BY <1>4, <3>3, <3>6
    <3>8. FromGValue("INT", C("int", i, << >>)) = Js(v)
      BY <3>2 DEF FromGValue, C, JsIs, Js
    <3> QED
      BY <1>2, <2>1, <3>7, <3>8
  <2>3. CASE ~_is_int(v)
    <3>1. gtype = "DOUBLE"
      BY <2>0, <2>3 DEF gtype, gwkjs_value_guess_g_type
    <3>2. \A y \in ToTypedGValue(gtype, v) : TypedAs(y, Double(v))
      BY <2>0, <3>1 DEF ToTypedGValue, DoubleValue, gwkjs_value_to_double, ValueIs, TypedAs
    <3>3. x.c.is = "DOUBLE" /\ x.c.sub[1] = Double(v)
      BY <1>4, <3>1, <3>2
    <3>4. FromGValue("DOUBLE", Double(v)) = Js(v)
      BY <1>8, <2>0 DEF FromGValue, Double, C, JsIs, Js
    <3> QED
      BY <1>2, <2>1, <3>3, <3>4
  <2> QED
    BY <2>2, <2>3
<1> QED
  BY <1>5, <1>6, <1>7, <1>8 DEF CarriesGValue

-----------------------------------------------------------------------------
(* A value comes back, or an empty table ends the process on the way.      *)
Back(v) == {Js(v), Crashes}

CarriesBack(t) ==
    \A transfer, nullable, v : \A r \in ElementToC(t, transfer, nullable, v) :
        ElementCarries(t, v) /\ r.ok => ElementFromC(t, r.c) \in Back(v)

(* The elements of a value, in C.                                          *)
InC(t, v, cs) ==
    /\ cs \in Seq({cs[i] : i \in DOMAIN cs}) /\ DOMAIN cs = DOMAIN v.sub
    /\ \A i \in DOMAIN v.sub : ElementFromC(ElementType(t, i), cs[i]) \in Back(v.sub[i])

LEMMA AsSequence ==
    ASSUME NEW s, s \in Seq({s[i] : i \in DOMAIN s}), NEW f, f = [i \in DOMAIN s |-> f[i]]
    PROVE  /\ DOMAIN s \subseteq Nat /\ f \in Seq({f[i] : i \in DOMAIN f}) /\ DOMAIN f = DOMAIN s
           /\ s = [i \in DOMAIN s |-> s[i]]
<1>1. PICK n \in Nat : DOMAIN s = 1..n /\ s \in [1..n -> {s[i] : i \in DOMAIN s}]
  BY SeqDef
<1>2. DOMAIN f = 1..n
  BY <1>1
<1>3. f \in [1..n -> {f[i] : i \in DOMAIN f}]
  BY <1>1, <1>2
<1>4. f \in Seq({f[i] : i \in DOMAIN f})
  <2> DEFINE S == {f[i] : i \in DOMAIN f}
  <2>1. f \in [1..n -> S]
    BY <1>3
  <2> HIDE DEF S
  <2>2. f \in Seq(S)
    BY <2>1, SeqDef
  <2> QED
    BY <2>2 DEF S
<1>5. DOMAIN s \subseteq Nat
  BY <1>1
<1>6. s = [i \in DOMAIN s |-> s[i]]
  BY <1>1
<1> QED
  BY <1>1, <1>2, <1>4, <1>5, <1>6

LEMMA JsFields ==
    ASSUME NEW v
    PROVE  Js(v).ok /\ Js(v).js = v
BY DEF Js

LEMMA ElementsBack ==
    ASSUME NEW t, NEW is, NEW v, CarriesElements(is, t, v), NEW cs, InC(t, v, cs)
    PROVE  ElementsFromC(t, is, cs) \in Back(v)
<1> DEFINE r == [i \in DOMAIN cs |-> ElementFromC(ElementType(t, i), cs[i])]
           bad == {i \in DOMAIN cs : ~r[i].ok}
<1>1. /\ v = JS(is, 0, v.sub) /\ v.sub \in Seq({v.sub[i] : i \in DOMAIN v.sub})
      /\ DOMAIN cs = DOMAIN v.sub
      /\ \A i \in DOMAIN cs : r[i] \in {Js(v.sub[i]), Crashes}
  BY DEF CarriesElements, InC, Back
<1>2. DOMAIN v.sub \subseteq Nat /\ v.sub = [i \in DOMAIN v.sub |-> v.sub[i]]
  BY <1>1, AsSequence
<1>3. ElementsFromC(t, is, cs) =
        IF bad = {} THEN Js(JS(is, 0, [i \in DOMAIN cs |-> r[i].js]))
        ELSE r[CHOOSE i \in bad : \A k \in bad : i <= k]
  BY Zenon DEF ElementsFromC
<1> HIDE DEF r
<1>4. CASE bad = {}
  <2>1. \A i \in DOMAIN cs : r[i] = Js(v.sub[i])
    BY <1>1, <1>4 DEF Crashes
  <2>2. \A i \in DOMAIN cs : r[i].js = v.sub[i]
    BY <2>1, JsFields
  <2>3. [i \in DOMAIN cs |-> r[i].js] = v.sub
    BY <1>1, <1>2, <2>2
  <2> QED
    BY <1>1, <1>3, <1>4, <2>3 DEF Back
<1>5. CASE bad # {}
  <2>1. bad \in SUBSET Nat
    BY <1>1, <1>2
  <2> HIDE DEF bad
  <2>2. \E i \in bad : \A k \in bad : i <= k
    BY <1>5, <2>1, LeastOf
  <2>3. PICK i \in bad : ElementsFromC(t, is, cs) = r[i]
    BY <1>3, <1>5, <2>2
  <2> USE DEF bad
  <2>4. r[i] = Crashes
    BY <1>1, <2>3 DEF Js
  <2> QED
    BY <2>3, <2>4 DEF Back
<1> QED
  BY <1>4, <1>5

(* Elements that are converted one by one.                                 *)
LEMMA OneByOne ==
    ASSUME NEW t, t.tag \in Containers, \A e \in ElementTypes(t) : CarriesBack(e),
           NEW is, NEW v, CarriesElements(is, t, v),
           NEW transfer, NEW r \in ElementsToC(t, transfer, v.sub), r.ok
    PROVE  InC(t, v, r.cs)
<1>1. PICK x : AllOf(t, transfer, v.sub, r, x)
  BY AllConvert
<1>2. /\ \A i \in DOMAIN v.sub : /\ x[i] \in ElementToC(ElementType(t, i), transfer, ElementNull(t, i), v.sub[i])
                                 /\ x[i].ok
      /\ r.cs = [i \in DOMAIN v.sub |-> x[i].c]
  BY <1>1 DEF AllOf
<1>3. \A i \in DOMAIN v.sub : ElementCarries(ElementType(t, i), v.sub[i])
  BY DEF CarriesElements
<1>4. \A i : CarriesBack(ElementType(t, i))
  BY ElementTypeIn
<1>5. \A i \in DOMAIN v.sub : ElementFromC(ElementType(t, i), x[i].c) \in Back(v.sub[i])
  BY <1>2, <1>3, <1>4 DEF CarriesBack
<1>6. v.sub \in Seq({v.sub[i] : i \in DOMAIN v.sub})
  BY DEF CarriesElements
<1>7. r.cs = [i \in DOMAIN v.sub |-> r.cs[i]]
  BY <1>2
<1>8. r.cs \in Seq({r.cs[i] : i \in DOMAIN r.cs}) /\ DOMAIN r.cs = DOMAIN v.sub
  BY <1>6, <1>7, AsSequence
<1> QED
  BY <1>2, <1>5, <1>8 DEF InC

(* What the elements of an array are tied to.                              *)
TiedBack(Ts) ==
    \A t \in Ts : /\ \A c : ElementFromC(t, c) = FromC(t, c)
                  /\ \A v : ElementCarries(t, v) = Carries(t, v)

(* The elements of an array that is carried, and a terminator.             *)
EndsAtZero(t, cs) ==
    \A i \in DOMAIN cs : ~(cs[i].is = "NULL" \/ (cs[i].is # "string" /\ cs[i].n = 0 /\ cs[i].sub = << >>))

LEMMA NumberArraysBack ==
    ASSUME NEW Ts, TiedBack(Ts), NEW t, t.tag = "array", t.sub[1] \in Ts, t.sub[1].tag \in NarrowTags,
           NEW v, Carries(t, v),
           NEW r \in NumbersToC(t.sub[1].tag, v.sub), r.ok
    PROVE  /\ InC(t, v, r.c.sub) /\ r.c.is = "array"
           /\ t.array = "zero" => EndsAtZero(t, r.c.sub)
<1> DEFINE e == t.sub[1]
           vs == v.sub
           choices == [i \in DOMAIN vs |-> IntegerElement(e.tag, vs[i])]
<1>1. CarriesElements("array", t, v) /\ (\A i \in DOMAIN vs :
        /\ e.tag = "uint32" => vs[i].n \in {2 * n : n \in SInt(32)}
        /\ t.array = "zero" => vs[i].n # 0)
  BY DEF Carries, IntegerTags, SignedTags, UnsignedTags
<1>2. \A i : ElementType(t, i) = e
  BY ArrayElementIn
<1>3. ASSUME NEW i \in DOMAIN vs
      PROVE  \E n \in RangeOf(e.tag) : vs[i] = Number(2 * n) /\ n \in SInt(32)
  <2>1. Carries(e, vs[i])
    BY <1>1, <1>2 DEF CarriesElements, TiedBack
  <2>2. e.tag \in IntegerTags
    BY DEF NarrowTags, IntegerTags, SignedTags, UnsignedTags
  <2>3. PICK n \in RangeOf(e.tag) : vs[i] = Number(2 * n)
    BY <2>1, <2>2 DEF Carries, IntegerTags, SignedTags, UnsignedTags
  <2>4. n \in Int
    BY WidthsNest, HalvesGrow DEF RangeOf, SInt, UInt, Lowest, Highest, UHighest, Width, Widths
  <2>5. CASE e.tag \in {"int8", "int16", "int32", "uint16"}
    <3>1. n \in SInt(32)
      BY <2>4, <2>5, WidthsNest DEF RangeOf, SInt, UInt, Lowest, Highest, UHighest, Width, SignedTags
    <3> QED
      BY <2>3, <3>1
  <2>6. CASE e.tag = "uint32"
    <3>1. PICK m \in SInt(32) : vs[i].n = 2 * m
      BY <1>1, <2>6
    <3>2. m \in Int /\ vs[i].n = 2 * n
      BY <2>3, NumberFields, WidthsNest DEF SInt, Lowest, Highest
    <3>3. n = m
      BY <2>4, <3>1, <3>2
    <3> QED
      BY <2>3, <3>1, <3>3
  <2> QED
    BY <2>5, <2>6 DEF NarrowTags
<1>4. \E ns : /\ \A i \in DOMAIN vs : \E y \in choices[i] : ns[i] = y.n
              /\ r = To(C("array", 0, [i \in DOMAIN vs |-> C("int", ns[i], << >>)]), Root)
  <2>1. CASE \E i \in DOMAIN vs : \E y \in choices[i] : ~y.ok
    BY <2>1 DEF NumbersToC, Fails
  <2>2. CASE ~(\E i \in DOMAIN vs : \E y \in choices[i] : ~y.ok)
    BY <2>2, Zenon DEF NumbersToC
  <2> QED
    BY <2>1, <2>2
<1>5. PICK ns : /\ \A i \in DOMAIN vs : \E y \in choices[i] : ns[i] = y.n
                /\ r = To(C("array", 0, [i \in DOMAIN vs |-> C("int", ns[i], << >>)]), Root)
  BY <1>4
<1>6. r.c.is = "array" /\ r.c.sub = [i \in DOMAIN vs |-> C("int", ns[i], << >>)]
  BY <1>5 DEF To, C
<1>7. ASSUME NEW i \in DOMAIN vs PROVE vs[i] = Number(2 * ns[i])
  <2>1. PICK n \in RangeOf(e.tag) : vs[i] = Number(2 * n) /\ n \in SInt(32)
    BY <1>3
  <2>2. PICK y \in IntegerElement(e.tag, vs[i]) : ns[i] = y.n
    BY <1>5
  <2>3. y.n = n
    BY <2>1, <2>2, ElementsComeBack
  <2> QED
    BY <2>1, <2>2, <2>3
<1>8. ASSUME NEW i \in DOMAIN vs PROVE ElementFromC(ElementType(t, i), r.c.sub[i]) = Js(vs[i])
  <2>1. e.tag \in IntegerTags /\ e.tag \notin {"void", "boolean"}
    BY DEF NarrowTags, IntegerTags, SignedTags, UnsignedTags
  <2>2. r.c.sub[i].n = ns[i]
    BY <1>6 DEF C
  <2>3. FromC(e, r.c.sub[i]) = Js(Number(2 * ns[i]))
    BY <2>1, <2>2 DEF FromC, IntegerTags, SignedTags, UnsignedTags, Strings, Containers
  <2> QED
    BY <1>2, <1>7, <2>3 DEF TiedBack
<1>9. InC(t, v, r.c.sub)
  <2>1. vs \in Seq({vs[i] : i \in DOMAIN vs})
    BY <1>1 DEF CarriesElements
  <2>2. r.c.sub = [i \in DOMAIN vs |-> r.c.sub[i]]
    BY <1>6
  <2>3. r.c.sub \in Seq({r.c.sub[i] : i \in DOMAIN r.c.sub}) /\ DOMAIN r.c.sub = DOMAIN vs
    BY <2>1, <2>2, AsSequence
  <2> QED
    BY <1>8, <2>3 DEF InC, Back
<1>10. ASSUME t.array = "zero" PROVE EndsAtZero(t, r.c.sub)
  <2>1. \A i \in DOMAIN vs : r.c.sub[i].is = "int" /\ r.c.sub[i].n = ns[i]
    BY <1>6 DEF C
  <2>2. ASSUME NEW i \in DOMAIN vs PROVE ns[i] # 0
    <3>1. vs[i].n = 2 * ns[i] /\ vs[i].n # 0
      BY <1>1, <1>7, <1>10, NumberFields
    <3> QED
      BY <3>1
  <2> QED
    BY <1>6, <2>1, <2>2 DEF EndsAtZero
<1> QED
  BY <1>6, <1>9, <1>10

LEMMA DoubleFields ==
    ASSUME NEW d
    PROVE  Double(d).is = (IF d.is = "NaN" THEN "NaN" ELSE "double") /\ Double(d).n = d.n
BY DEF Double, C

LEMMA DoubleArraysBack ==
    ASSUME NEW Ts, TiedBack(Ts), NEW t, t.tag = "array", t.sub[1] \in Ts, t.sub[1].tag = "double",
           NEW v, Carries(t, v), NEW r \in DoublesToC(v.sub)
    PROVE  /\ InC(t, v, r.c.sub) /\ r.c.is = "array"
           /\ t.array = "zero" => EndsAtZero(t, r.c.sub)
<1> DEFINE e == t.sub[1]
           vs == v.sub
           d(i) == JSValueToNumber(vs[i])
<1>1. CarriesElements("array", t, v) /\ (\A i \in DOMAIN vs : t.array = "zero" => vs[i].n # 0)
  BY DEF Carries, IntegerTags, SignedTags, UnsignedTags
<1>2. \A i : ElementType(t, i) = e
  BY ArrayElementIn
<1>3. ASSUME NEW i \in DOMAIN vs PROVE vs[i] \in {NaN, Number(vs[i].n)} /\ d(i) = vs[i]
  <2>1. Carries(e, vs[i])
    BY <1>1, <1>2 DEF CarriesElements, TiedBack
  <2>2. vs[i] \in {NaN, Number(vs[i].n)}
    BY <2>1 DEF Carries, IntegerTags, SignedTags, UnsignedTags
  <2>3. JSValueToNumber(NaN) = NaN
    BY DEF JSValueToNumber, NaN, JS
  <2>4. JSValueToNumber(vs[i]) = vs[i]
    <3>1. CASE vs[i] = NaN
      BY <2>3, <3>1
    <3>2. CASE vs[i] = Number(vs[i].n)
      BY <3>2, NumberFields
    <3> QED
      BY <2>2, <3>1, <3>2
  <2> QED
    BY <2>2, <2>4
<1>4. r.c.is = "array" /\ r.c.sub = [i \in DOMAIN vs |-> Double(d(i))]
  BY DEF DoublesToC, To, C
<1>5. \A i \in DOMAIN vs : r.c.sub[i] = Double(vs[i])
  BY <1>3, <1>4
<1>6. ASSUME NEW i \in DOMAIN vs PROVE ElementFromC(ElementType(t, i), r.c.sub[i]) = Js(vs[i])
  <2>1. FromC(e, r.c.sub[i]) = Js(IF r.c.sub[i].is = "NaN" THEN NaN ELSE Number(r.c.sub[i].n))
    BY DEF FromC, IntegerTags, SignedTags, UnsignedTags, Strings, Containers
  <2>2. r.c.sub[i].is = (IF vs[i].is = "NaN" THEN "NaN" ELSE "double") /\ r.c.sub[i].n = vs[i].n
    BY <1>5, DoubleFields
  <2>3. (IF r.c.sub[i].is = "NaN" THEN NaN ELSE Number(r.c.sub[i].n)) = vs[i]
    <3>1. CASE vs[i] = NaN
      BY <2>2, <3>1 DEF NaN, JS
    <3>2. CASE vs[i] = Number(vs[i].n)
      <4>1. vs[i].is = "number"
        BY <3>2, NumberFields
      <4> QED
        BY <2>2, <3>2, <4>1
    <3> QED
      BY <1>3, <3>1, <3>2
  <2> QED
    BY <1>2, <2>1, <2>3 DEF TiedBack
<1>7. InC(t, v, r.c.sub)
  <2>1. vs \in Seq({vs[i] : i \in DOMAIN vs})
    BY <1>1 DEF CarriesElements
  <2>2. r.c.sub = [i \in DOMAIN vs |-> r.c.sub[i]]
    BY <1>4
  <2>3. r.c.sub \in Seq({r.c.sub[i] : i \in DOMAIN r.c.sub}) /\ DOMAIN r.c.sub = DOMAIN vs
    BY <2>1, <2>2, AsSequence
  <2> QED
    BY <1>6, <2>3 DEF InC, Back
<1>8. ASSUME t.array = "zero" PROVE EndsAtZero(t, r.c.sub)
  <2>1. \A i \in DOMAIN vs : r.c.sub[i].is \in {"NaN", "double"} /\ r.c.sub[i].n = vs[i].n
    BY <1>5, DoubleFields
  <2> QED
    BY <1>1, <1>4, <1>8, <2>1 DEF EndsAtZero
<1> QED
  BY <1>4, <1>7, <1>8

LEMMA StringArraysBack ==
    ASSUME NEW Ts, TiedBack(Ts), NEW t, t.tag = "array", t.sub[1] \in Ts, t.sub[1].tag = "utf8",
           NEW v, v.is = "array", Carries(t, v), NEW r \in StrvToC(v), r.ok
    PROVE  /\ InC(t, v, r.c.sub) /\ r.c.is = "array"
           /\ t.array = "zero" => EndsAtZero(t, r.c.sub)
<1> DEFINE e == t.sub[1]
           vs == v.sub
<1>1. CarriesElements("array", t, v)
  BY DEF Carries, IntegerTags, SignedTags, UnsignedTags
<1>2. \A i : ElementType(t, i) = e
  BY ArrayElementIn
<1>3. ASSUME NEW i \in DOMAIN vs PROVE vs[i] = JS("string", vs[i].n, << >>)
  <2>1. Carries(e, vs[i])
    BY <1>1, <1>2 DEF CarriesElements, TiedBack
  <2> QED
    BY <2>1 DEF Carries, IntegerTags, SignedTags, UnsignedTags
<1>4. ElementsOf(v) = vs
  BY DEF ElementsOf
<1>5. PICK x \in gwkjs_array_to_strv(v) :
        r = IF x.ok THEN To(C("array", 0, x.c.sub), Root \union {<<i>> : i \in DOMAIN x.c.sub}) ELSE Fails({})
  BY DEF StrvToC
<1>6. x.ok
  BY <1>5 DEF Fails
<1>7. x.c.sub = [i \in DOMAIN vs |-> C("string", vs[i].n, << >>)]
  BY <1>4, <1>6 DEF gwkjs_array_to_strv, ValueIs, ValueRefused, C
<1>8. r.c.is = "array" /\ r.c.sub = [i \in DOMAIN vs |-> C("string", vs[i].n, << >>)]
  BY <1>5, <1>6, <1>7 DEF To, C
<1>9. \A i \in DOMAIN vs : r.c.sub[i].is = "string" /\ r.c.sub[i].n = vs[i].n
  BY <1>8 DEF C
<1>10. ASSUME NEW i \in DOMAIN vs PROVE ElementFromC(ElementType(t, i), r.c.sub[i]) = Js(vs[i])
  <2>1. FromC(e, r.c.sub[i]) = gwkjs_string_from_utf8(r.c.sub[i])
    BY <1>9 DEF FromC, IntegerTags, SignedTags, UnsignedTags, Strings, Containers
  <2>2. gwkjs_string_from_utf8(r.c.sub[i]) = Js(JS("string", vs[i].n, << >>))
    BY <1>9 DEF gwkjs_string_from_utf8, JsIs, Js
  <2> QED
    BY <1>2, <1>3, <2>1, <2>2 DEF TiedBack
<1>11. InC(t, v, r.c.sub)
  <2>1. vs \in Seq({vs[i] : i \in DOMAIN vs})
    BY <1>1 DEF CarriesElements
  <2>2. r.c.sub = [i \in DOMAIN vs |-> r.c.sub[i]]
    BY <1>8
  <2>3. r.c.sub \in Seq({r.c.sub[i] : i \in DOMAIN r.c.sub}) /\ DOMAIN r.c.sub = DOMAIN vs
    BY <2>1, <2>2, AsSequence
  <2> QED
    BY <1>10, <2>3 DEF InC, Back
<1>12. EndsAtZero(t, r.c.sub)
  BY <1>8, <1>9 DEF EndsAtZero
<1> QED
  BY <1>8, <1>11, <1>12

LEMMA PointerArraysBack ==
    ASSUME NEW t, t.tag = "array", \A e \in ElementTypes(t) : CarriesBack(e),
           NEW v, Carries(t, v), NEW transfer, NEW r \in PointersToC(t, transfer, v.sub), r.ok
    PROVE  InC(t, v, r.c.sub) /\ r.c.is = "array"
<1>1. CarriesElements("array", t, v)
  BY DEF Carries, IntegerTags, SignedTags, UnsignedTags
<1>2. PICK x \in ElementsToC(t, OfElements(transfer), v.sub) :
        r = IF x.ok THEN To(C("array", 0, x.cs), Root \union x.made) ELSE Fails(x.made)
  BY DEF PointersToC
<1>3. x.ok
  BY <1>2 DEF Fails
<1>4. r.c.sub = x.cs /\ r.c.is = "array"
  BY <1>2, <1>3 DEF To, C
<1>5. InC(t, v, x.cs)
  BY <1>1, <1>3, OneByOne DEF Containers
<1> QED
  BY <1>4, <1>5

(* The elements of an array, from JavaScript to C.                         *)
LEMMA ExplicitBack ==
    ASSUME NEW Ts, TiedBack(Ts), NEW t, t.tag = "array", t.sub[1] \in Ts,
           \A e \in ElementTypes(t) : CarriesBack(e),
           NEW v, Carries(t, v), NEW transfer, NEW nullable,
           NEW r \in gwkjs_array_to_explicit_array_internal(t, transfer, nullable, v), r.ok
    PROVE  /\ InC(t, v, r.c.sub) /\ r.c.is = "array"
           /\ t.array = "zero" /\ t.sub[1].tag # "interface" => EndsAtZero(t, r.c.sub)
<1> DEFINE e == t.sub[1]
<1>1. /\ CarriesElements("array", t, v)
      /\ e.tag \in NarrowTags \union {"double", "utf8"} \/ PointerElement(e)
  BY DEF Carries, IntegerTags, SignedTags, UnsignedTags, NarrowTags
<1>2. v.is = "array"
  BY <1>1 DEF CarriesElements, JS
<1>3. r \in ElementArrayToC(t, transfer, v)
  BY <1>2 DEF gwkjs_array_to_explicit_array_internal
<1>4. CASE e.tag \in NarrowTags
  <2>1. ~IsFlat(e) /\ StorageTag(e) = e.tag
    BY <1>4 DEF NarrowTags, IsFlat, StorageTag
  <2>2. r \in NumbersToC(e.tag, v.sub)
    BY <1>3, <1>4, <2>1 DEF ElementArrayToC, NarrowTags, IntegerTags, SignedTags, UnsignedTags, Containers
  <2> QED
    BY <1>4, <2>2, NumberArraysBack
<1>5. CASE e.tag = "double"
  <2>1. ~IsFlat(e) /\ StorageTag(e) = e.tag
    BY <1>5 DEF IsFlat, StorageTag
  <2>2. r \in DoublesToC(v.sub)
    BY <1>3, <1>5, <2>1 DEF ElementArrayToC, IntegerTags, SignedTags, UnsignedTags, Containers
  <2> QED
    BY <1>5, <2>2, DoubleArraysBack
<1>6. CASE e.tag = "utf8"
  <2>1. ~IsFlat(e) /\ StorageTag(e) = e.tag
    BY <1>6 DEF IsFlat, StorageTag
  <2>2. r \in StrvToC(v)
    BY <1>3, <1>6, <2>1 DEF ElementArrayToC, IntegerTags, SignedTags, UnsignedTags, Containers
  <2> QED
    BY <1>2, <1>6, <2>2, StringArraysBack
<1>7. CASE PointerElement(e)
  <2>1. ~IsFlat(e) /\ StorageTag(e) = "interface" /\ e.tag = "interface"
    BY <1>7 DEF IsFlat, StorageTag, PointerElement
  <2>2. r \in PointersToC(t, transfer, v.sub)
    BY <1>3, <2>1 DEF ElementArrayToC, IntegerTags, SignedTags, UnsignedTags, Containers
  <2> QED
    BY <2>1, <2>2, PointerArraysBack
<1> QED
  BY <1>1, <1>4, <1>5, <1>6, <1>7

(* And from C to JavaScript.                                               *)
LEMMA CArraysBack ==
    ASSUME NEW t, t.tag = "array", NEW v, Carries(t, v),
           NEW c, InC(t, v, c.sub), c.is = "array",
           t.array = "zero" /\ t.sub[1].tag # "interface" => EndsAtZero(t, c.sub)
    PROVE  FromC(t, c) \in Back(v)
<1> DEFINE e == t.sub[1]
<1>1. /\ CarriesElements("array", t, v) /\ t.array # "GByteArray"
      /\ e.tag \in NarrowTags \union {"double", "utf8"} \/ PointerElement(e)
  BY DEF Carries, IntegerTags, SignedTags, UnsignedTags, NarrowTags
<1>2. ElementsFromC(t, "array", c.sub) \in Back(v)
  BY <1>1, ElementsBack
<1>3. ~IsFlat(e) /\ e.tag \notin {"uint8", "boolean", "unichar", "void"}
  BY <1>1 DEF IsFlat, PointerElement, NarrowTags
<1>4. gwkjs_array_from_carray_internal(t, c.sub) \in Back(v)
  BY <1>2, <1>3 DEF gwkjs_array_from_carray_internal
<1>5. FromC(t, c) = ArrayFromC(t, c)
  BY DEF FromC, ContainerFromC, IntegerTags, SignedTags, UnsignedTags, Strings, Containers
<1>6. CASE t.array = "zero"
  <2>1. ArrayFromC(t, c) = gwkjs_array_from_zero_terminated_c_array(t, c.sub)
    BY <1>6 DEF ArrayFromC
  <2>2. CASE e.tag = "interface"
    BY <1>2, <1>5, <2>1, <2>2 DEF gwkjs_array_from_zero_terminated_c_array
  <2>3. CASE e.tag # "interface"
    <3>1. EndsAtZero(t, c.sub)
      BY <1>6, <2>3
    <3>2. UpToZero(c.sub) = SubSeq(c.sub, 1, Len(c.sub))
      BY <3>1 DEF UpToZero, EndsAtZero
    <3>3. c.sub \in Seq({c.sub[i] : i \in DOMAIN c.sub})
      BY DEF InC
    <3>4. SubSeq(c.sub, 1, Len(c.sub)) = c.sub
      BY <3>3, SubSeqFull
    <3>5. UpToZero(c.sub) = c.sub
      BY <3>2, <3>4
    <3> QED
      BY <1>2, <1>3, <1>5, <2>1, <2>3, <3>5 DEF gwkjs_array_from_zero_terminated_c_array
  <2> QED
    BY <2>2, <2>3
<1>7. CASE t.array # "zero"
  BY <1>1, <1>4, <1>5, <1>7 DEF ArrayFromC, gwkjs_value_from_explicit_array, gwkjs_array_from_fixed_size_array,
        gwkjs_array_from_boxed_array
<1> QED
  BY <1>6, <1>7

LEMMA ArraysBack ==
    ASSUME NEW Ts, TiedBack(Ts), NEW t, t.tag = "array", t.sub[1] \in Ts,
           \A e \in ElementTypes(t) : CarriesBack(e),
           NEW v, Carries(t, v), NEW transfer, NEW nullable,
           NEW r \in ArrayToC(t, transfer, nullable, v), r.ok
    PROVE  FromC(t, r.c) \in Back(v)
<1> DEFINE made(x) == IF t.array = "GArray" THEN gwkjs_g_array_new_for_type(t.sub[1], x.made)
                      ELSE x.made \union Root
<1>1. CASE t.array \in {"length", "fixed", "zero"}
  <2>1. r \in gwkjs_array_to_explicit_array_internal(t, transfer, nullable, v)
    BY <1>1 DEF ArrayToC
  <2> QED
    BY <2>1, ExplicitBack, CArraysBack
<1>2. CASE t.array \notin {"length", "fixed", "zero"}
  <2>1. PICK x \in gwkjs_array_to_explicit_array_internal(t, transfer, nullable, v) :
          r = IF ~x.ok THEN x
              ELSE IF Root \subseteq made(x) THEN To(C("array", 0, x.c.sub), made(x))
              ELSE Fails(made(x))
    BY <1>2, Zenon DEF ArrayToC
  <2>2. x.ok /\ r = To(C("array", 0, x.c.sub), made(x))
    BY <2>1 DEF Fails
  <2>3. r.c.is = "array" /\ r.c.sub = x.c.sub
    BY <2>2 DEF To, C
  <2>4. InC(t, v, x.c.sub)
    BY <2>2, ExplicitBack
  <2> QED
    BY <1>2, <2>3, <2>4, CArraysBack
<1> QED
  BY <1>1, <1>2

-----------------------------------------------------------------------------
(* The other types, level by level.                                        *)
LEMMA ListsBack ==
    ASSUME NEW t, t.tag \in {"glist", "gslist"}, \A e \in ElementTypes(t) : CarriesBack(e),
           NEW v, Carries(t, v), NEW transfer, NEW r \in ListToC(t, transfer, v), r.ok
    PROVE  FromC(t, r.c) \in Back(v)
<1>1. CarriesElements("array", t, v)
  BY DEF Carries, IntegerTags, SignedTags, UnsignedTags
<1>2. v.is = "array"
  BY <1>1 DEF CarriesElements, JS
<1>3. r \in gwkjs_array_to_g_list(t, transfer, v.sub)
  BY <1>2 DEF ListToC
<1>4. ~(transfer = "container" /\ type_needs_release(t.sub[1]))
  BY <1>3 DEF gwkjs_array_to_g_list, Fails
<1>5. PICK x \in ElementsToC(t, OfElements(transfer), v.sub) :
        r = IF x.ok THEN To(IF x.cs = << >> THEN NULL ELSE C("list", 0, x.cs),
                            IfAny(x.cs # << >>, Root) \union x.made)
            ELSE Fails(IfAny(Len(x.cs) > 1, Root) \union x.made)
  BY <1>3, <1>4, Zenon DEF gwkjs_array_to_g_list
<1>6. x.ok
  BY <1>5 DEF Fails
<1>7. r.c = IF x.cs = << >> THEN NULL ELSE C("list", 0, x.cs)
  BY <1>5, <1>6 DEF To
<1>8. r.c.sub = x.cs
  BY <1>7, NullHasNoElements DEF C
<1>9. InC(t, v, x.cs)
  BY <1>1, <1>6, OneByOne DEF Containers
<1>10. FromC(t, r.c) = ElementsFromC(t, "array", r.c.sub)
  BY DEF FromC, ContainerFromC, gwkjs_array_from_g_list, IntegerTags, SignedTags, UnsignedTags, Strings, Containers
<1> QED
  BY <1>1, <1>8, <1>9, <1>10, ElementsBack

LEMMA TablesBack ==
    ASSUME NEW t, t.tag = "ghash", \A e \in ElementTypes(t) : CarriesBack(e),
           NEW v, Carries(t, v), NEW transfer, NEW nullable, NEW r \in HashToC(t, transfer, nullable, v), r.ok
    PROVE  FromC(t, r.c) \in Back(v)
<1>1. CarriesElements("dict", t, v)
  BY DEF Carries, IntegerTags, SignedTags, UnsignedTags
<1>2. v.is = "dict"
  BY <1>1 DEF CarriesElements, JS
<1>3. r \in gwkjs_object_to_g_hash(t, transfer, v.sub)
  BY <1>2 DEF HashToC
<1>4. ~(transfer = "container" /\ \E i \in {1, 2} : type_needs_release(t.sub[i]))
  BY <1>3 DEF gwkjs_object_to_g_hash, Fails
<1>5. PICK x \in ElementsToC(t, OfElements(transfer), v.sub) :
        r = IF x.ok THEN To(C("hash", 0, x.cs), Root \union x.made) ELSE Fails(x.made)
  BY <1>3, <1>4, Zenon DEF gwkjs_object_to_g_hash
<1>6. x.ok
  BY <1>5 DEF Fails
<1>7. r.c.sub = x.cs /\ r.c.is = "hash"
  BY <1>5, <1>6 DEF To, C
<1>8. InC(t, v, x.cs)
  <2>1. t.tag \in Containers
    BY DEF Containers
  <2> QED
    BY <1>1, <1>6, <2>1, OneByOne
<1>9. FromC(t, r.c) = gwkjs_object_from_g_hash(t, r.c)
  BY DEF FromC, ContainerFromC, IntegerTags, SignedTags, UnsignedTags, Strings, Containers
<1>10. FromC(t, r.c) = IF r.c.sub = << >> \/ ~ElementFromC(ElementType(t, 1), r.c.sub[1]).ok
                        THEN Crashes ELSE ElementsFromC(t, "dict", r.c.sub)
  BY <1>7, <1>9 DEF gwkjs_object_from_g_hash
<1>11. ElementsFromC(t, "dict", r.c.sub) \in Back(v)
  BY <1>1, <1>7, <1>8, ElementsBack
<1> QED
  BY <1>10, <1>11 DEF Back

LEMMA CFields ==
    ASSUME NEW is, NEW n, NEW sub
    PROVE  C(is, n, sub).is = is /\ C(is, n, sub).n = n /\ C(is, n, sub).sub = sub
BY DEF C

LEMMA ToFields ==
    ASSUME NEW c, NEW made
    PROVE  To(c, made).ok /\ To(c, made).c = c /\ ~Fails(made).ok
BY DEF To, Fails

LEMMA InterfacesBack ==
    ASSUME NEW t, t.tag = "interface", NEW v, Carries(t, v), NEW transfer, NEW nullable,
           NEW r \in InterfaceToC(t, transfer, nullable, v), r.ok
    PROVE  InterfaceFromC(t, r.c) = Js(v)
<1>1. CASE t.iface \in Enumerations
  <2>1. PICK e \in UInt(32) : ValidEnum(t.iface, e) /\ v = Number(2 * e)
    BY <1>1 DEF Carries, Enumerations, IntegerTags, SignedTags, UnsignedTags
  <2>2. r \in EnumToC(t, Number(2 * e))
    BY <1>1, <2>1 DEF InterfaceToC, Enumerations
  <2>3. EnumFromC(t, r.c) = Js(v)
    BY <1>1, <2>1, <2>2, EnumsComeBack
  <2> QED
    BY <1>1, <2>3 DEF InterfaceFromC, Enumerations
<1>2. CASE t.iface = "gvalue"
  <2>1. CarriesGValue(v)
    BY <1>2 DEF Carries, IntegerTags, SignedTags, UnsignedTags
  <2>2. r \in GValueToC(v)
    BY <1>2 DEF InterfaceToC
  <2>3. /\ r.c.is = "gvalue"
        /\ FromGValue(r.c.sub[1].is, r.c.sub[1].sub[1]) = Js(v)
        /\ v # Undefined
    BY <2>1, <2>2, GValuesComeBack
  <2>4. InterfaceFromC(t, r.c) = UnlessVoid(FromGValue(r.c.sub[1].is, r.c.sub[1].sub[1]))
    BY <1>2, <2>3 DEF InterfaceFromC
  <2> QED
    BY <2>3, <2>4, JsFields DEF UnlessVoid
<1>3. CASE t.iface \in {"object", "param", "foreign"}
  <2>1. v = JS(t.iface, v.n, << >>)
    BY <1>3 DEF Carries, IntegerTags, SignedTags, UnsignedTags
  <2>2. v.is = t.iface /\ v # Undefined
    BY <1>3, <2>1 DEF JS, Undefined
  <2>3. r.c = C(t.iface, v.n, << >>)
    <3>1. CASE t.iface = "foreign"
      <4>1. r \in ForeignToC(transfer, nullable, v)
        BY <3>1 DEF InterfaceToC
      <4> QED
        BY <2>2, <3>1, <4>1, ToFields DEF ForeignToC
    <3>2. CASE t.iface \in {"object", "param"}
      <4>1. r \in WrapperToC(t, transfer, v)
        BY <3>2 DEF InterfaceToC
      <4> QED
        BY <2>2, <3>2, <4>1, ToFields DEF WrapperToC
    <3> QED
      BY <1>3, <3>1, <3>2
  <2>4. r.c.is = t.iface /\ r.c.n = v.n
    BY <2>3, CFields
  <2>5. InterfaceFromC(t, r.c) = Js(JS(t.iface, v.n, << >>))
    BY <1>3, <2>1, <2>2, <2>4, JsFields DEF InterfaceFromC, UnlessVoid
  <2> QED
    BY <2>1, <2>5
<1> QED
  BY <1>1, <1>2, <1>3 DEF Carries, Enumerations, IntegerTags, SignedTags, UnsignedTags

LEMMA ScalarsBack ==
    ASSUME NEW t, t.tag \notin Containers \union {"interface"}, NEW v, Carries(t, v), NEW transfer, NEW nullable,
           NEW r \in ValueToC(t, transfer, nullable, v), r.ok
    PROVE  FromC(t, r.c) = Js(v)
<1>1. CASE t.tag \in IntegerTags
  <2>1. PICK i \in RangeOf(t.tag) : v = Number(2 * i)
    BY <1>1 DEF Carries, IntegerTags, SignedTags, UnsignedTags
  <2>2. r \in NumberToC(t, v)
    BY <1>1 DEF ValueToC, IntegerTags, SignedTags, UnsignedTags, Strings
  <2>3. PICK x \in IntegerArgument(t.tag, v) : r = IF x.ok THEN To(C("int", x.n, << >>), {}) ELSE Fails({})
    BY <2>2 DEF NumberToC
  <2>4. x.ok /\ r.c = C("int", x.n, << >>)
    BY <2>3, ToFields
  <2>5. x.n = i /\ r.c.n = i
    BY <1>1, <2>1, <2>4, IntegersComeBack, CFields
  <2> QED
    BY <1>1, <2>1, <2>5 DEF FromC, IntegerTags, SignedTags, UnsignedTags, Strings, Containers
<1>2. CASE t.tag \in {"float", "double"}
  <2>1. v \in {NaN, Number(v.n)}
    BY <1>2 DEF Carries, IntegerTags, SignedTags, UnsignedTags
  <2>2. r \in DoubleToC(t, v)
    BY <1>2 DEF ValueToC, IntegerTags, SignedTags, UnsignedTags, Strings
  <2>3. JSValueToNumber(v) = v /\ (v.is = "NaN" => v = NaN)
    <3>1. CASE v = NaN
      BY <3>1 DEF JSValueToNumber, NaN, JS
    <3>2. CASE v = Number(v.n)
      <4>1. v.is = "number"
        BY <3>2, NumberFields
      <4> QED
        BY <3>2, <4>1, NumberFields
    <3> QED
      BY <2>1, <3>1, <3>2
  <2>4. r.c = Double(v)
    BY <2>2, <2>3, ToFields DEF DoubleToC
  <2>5. FromC(t, r.c) = Js(IF r.c.is = "NaN" THEN NaN ELSE Number(r.c.n))
    BY <1>2 DEF FromC, IntegerTags, SignedTags, UnsignedTags, Strings, Containers
  <2>6. r.c.is = (IF v.is = "NaN" THEN "NaN" ELSE "double") /\ r.c.n = v.n
    BY <2>4, DoubleFields
  <2>7. NaN.is = "NaN"
    BY DEF NaN, JS
  <2>8. (IF r.c.is = "NaN" THEN NaN ELSE Number(r.c.n)) = v
    BY <2>1, <2>3, <2>6, <2>7
  <2> QED
    BY <2>5, <2>8
<1>3. CASE t.tag = "boolean"
  <2>1. PICK b \in {0, 1} : v = JS("boolean", b, << >>)
    BY <1>3 DEF Carries, IntegerTags, SignedTags, UnsignedTags
  <2>2. r \in BooleanToC(v)
    BY <1>3 DEF ValueToC, IntegerTags, SignedTags, UnsignedTags, Strings
  <2>3. v.is = "boolean" /\ v.n = b
    BY <2>1 DEF JS
  <2>4. JSValueToBoolean(v) = (b # 0)
    BY <2>3 DEF JSValueToBoolean
  <2>5. r.c.n = b
    <3>1. r = To(C("int", IF JSValueToBoolean(v) THEN 1 ELSE 0, << >>), {})
      BY <2>2 DEF BooleanToC
    <3>2. (IF JSValueToBoolean(v) THEN 1 ELSE 0) = b
      BY <2>4
    <3>3. r.c = C("int", b, << >>)
      BY <3>1, <3>2, ToFields
    <3> QED
      BY <3>3, CFields
  <2> QED
    BY <1>3, <2>1, <2>5 DEF FromC, IntegerTags, SignedTags, UnsignedTags, Strings, Containers
<1>4. CASE t.tag = "unichar"
  <2>1. v = JS("string", v.n, << >>)
    BY <1>4 DEF Carries, IntegerTags, SignedTags, UnsignedTags
  <2>2. r \in UnicharToC(v)
    BY <1>4 DEF ValueToC, IntegerTags, SignedTags, UnsignedTags, Strings
  <2>3. v.is = "string"
    BY <2>1 DEF JS
  <2>4. PICK x \in gwkjs_unichar_from_string(v) : r = IF x.ok THEN To(x.c, {}) ELSE Fails({})
    BY <2>2 DEF UnicharToC
  <2>5. PICK y \in gwkjs_string_to_utf8(v) : x = [y EXCEPT !.c = C("int", @.n, << >>)]
    BY DEF gwkjs_unichar_from_string
  <2>6. y = [ok |-> TRUE, c |-> C("string", v.n, << >>)]
    BY <2>3 DEF gwkjs_string_to_utf8, ValueIs
  <2>7. y.c.n = v.n
    BY <2>6, CFields
  <2>8. x = [ok |-> TRUE, c |-> C("int", v.n, << >>)]
    BY <2>5, <2>6, <2>7
  <2>9. r.c.n = v.n
    BY <2>4, <2>8, ToFields, CFields
  <2> QED
    BY <1>4, <2>1, <2>9 DEF FromC, IntegerTags, SignedTags, UnsignedTags, Strings, Containers
<1>5. CASE t.tag = "utf8"
  <2>1. v = JS("string", v.n, << >>)
    BY <1>5 DEF Carries, IntegerTags, SignedTags, UnsignedTags
  <2>2. r \in StringToC(t, v)
    BY <1>5 DEF ValueToC, IntegerTags, SignedTags, UnsignedTags, Strings
  <2>3. v.is = "string"
    BY <2>1 DEF JS
  <2>4. PICK x \in gwkjs_string_to_utf8(v) : r = IF x.ok THEN To(x.c, Root) ELSE Fails({})
    BY <1>5, <2>2, <2>3 DEF StringToC
  <2>5. x.c = C("string", v.n, << >>)
    BY <2>3 DEF gwkjs_string_to_utf8, ValueIs
  <2>6. r.c.is = "string" /\ r.c.n = v.n
    BY <2>4, <2>5, ToFields, CFields
  <2>7. FromC(t, r.c) = gwkjs_string_from_utf8(r.c)
    BY <1>5, <2>6 DEF FromC, IntegerTags, SignedTags, UnsignedTags, Strings, Containers
  <2> QED
    BY <2>1, <2>6, <2>7 DEF gwkjs_string_from_utf8, JsIs, Js
<1>6. t.tag \in IntegerTags \union {"float", "double", "boolean", "unichar", "utf8"}
  BY DEF Carries, Containers
<1> QED
  BY <1>1, <1>2, <1>3, <1>4, <1>5, <1>6

LEMMA OneLevelBack ==
    ASSUME NEW Ts, NEW depth, Tied(Ts, depth), TiedBack(Ts), NEW t \in Ts,
           \A e \in ElementTypes(t) : CarriesBack(e),
           NEW transfer, NEW nullable, NEW v, Carries(t, v),
           NEW r \in ToC(t, transfer, nullable, v), r.ok
    PROVE  FromC(t, r.c) \in Back(v)
<1>1. r \in ValueToC(t, transfer, nullable, v)
  BY ToCIsValueToC
<1>2. CASE t.tag \in {"glist", "gslist"}
  <2>1. r \in ListToC(t, transfer, v)
    BY <1>1, <1>2 DEF ValueToC, IntegerTags, SignedTags, UnsignedTags, Strings
  <2> QED
    BY <1>2, <2>1, ListsBack
<1>3. CASE t.tag = "ghash"
  <2>1. r \in HashToC(t, transfer, nullable, v)
    BY <1>1, <1>3 DEF ValueToC, IntegerTags, SignedTags, UnsignedTags, Strings
  <2> QED
    BY <1>3, <2>1, TablesBack
<1>4. CASE t.tag = "array"
  <2>1. r \in ArrayToC(t, transfer, nullable, v)
    BY <1>1, <1>4 DEF ValueToC, IntegerTags, SignedTags, UnsignedTags, Strings
  <2>2. t.sub[1] \in Ts
    BY <1>4, ArrayElementIn DEF Tied
  <2> QED
    BY <1>4, <2>1, <2>2, ArraysBack
<1>5. CASE t.tag = "interface"
  <2>1. r \in InterfaceToC(t, transfer, nullable, v)
    BY <1>1, <1>5 DEF ValueToC, IntegerTags, SignedTags, UnsignedTags, Strings
  <2>2. InterfaceFromC(t, r.c) = Js(v)
    BY <1>5, <2>1, InterfacesBack
  <2>3. FromC(t, r.c) = InterfaceFromC(t, r.c)
    BY <1>5 DEF FromC, IntegerTags, SignedTags, UnsignedTags, Strings, Containers
  <2> QED
    BY <2>2, <2>3 DEF Back
<1>6. CASE t.tag \notin Containers \union {"interface"}
  BY <1>1, <1>6, ScalarsBack DEF Back
<1> QED
  BY <1>2, <1>3, <1>4, <1>5, <1>6 DEF Containers

LEMMA EveryLevelBack ==
    ASSUME NEW Ts, NEW depth, Tied(Ts, depth), TiedBack(Ts)
    PROVE  \A t \in Ts : CarriesBack(t)
<1> DEFINE Bad == {t \in Ts : ~CarriesBack(t)}
           T == {depth[t] : t \in Bad}
<1>1. depth \in [Ts -> Nat]
  BY DEF Tied
<1>2. SUFFICES ASSUME Bad # {} PROVE FALSE
  OBVIOUS
<1>3. T \in SUBSET Nat /\ T # {}
  BY <1>1, <1>2
<1> HIDE DEF T
<1>4. PICK n \in T : \A m \in T : n <= m
  BY <1>3, LeastOf
<1> USE DEF T
<1>5. PICK t \in Bad : n = depth[t]
  BY <1>4
<1>6. ASSUME NEW e \in ElementTypes(t) PROVE CarriesBack(e)
  <2>1. e \in Ts /\ depth[e] < depth[t]
    BY <1>5 DEF Tied
  <2>2. e \in Bad => depth[t] <= depth[e]
    BY <1>4, <1>5
  <2>3. depth[e] \in Nat /\ depth[t] \in Nat
    BY <1>1, <1>5, <2>1
  <2> QED
    BY <2>1, <2>2, <2>3
<1>7. t \in Ts
  BY <1>5
<1>8. /\ \A transfer, nullable, v : ElementToC(t, transfer, nullable, v) = ToC(t, transfer, nullable, v)
      /\ \A c : ElementFromC(t, c) = FromC(t, c)
      /\ \A v : ElementCarries(t, v) = Carries(t, v)
  BY <1>7 DEF Tied, TiedBack
<1>9. ASSUME NEW transfer, NEW nullable, NEW v, NEW r \in ToC(t, transfer, nullable, v), Carries(t, v), r.ok
      PROVE  FromC(t, r.c) \in Back(v)
  BY <1>6, <1>7, <1>9, OneLevelBack
<1>10. CarriesBack(t)
  BY <1>8, <1>9 DEF CarriesBack
<1> QED
  BY <1>5, <1>10

-----------------------------------------------------------------------------
(* What an inout argument was converted into comes back.                   *)
LEMMA InoutBack ==
    ASSUME NEW Ts, NEW depth, Tied(Ts, depth), TiedBack(Ts), NEW a, a.type \in Ts, a.dir = "inout",
           NEW v, Carries(a.type, v), NEW r \in Conversions(a, v), r.ok
    PROVE  FromC(a.type, r.c) \in Back(v)
<1>1. \A e \in ElementTypes(a.type) : CarriesBack(e)
  BY EveryLevelBack DEF Tied
<1>2. CASE Explicit(a.type)
  <2>1. r \in gwkjs_array_to_explicit_array_internal(a.type, a.transfer, a.nullable, v)
    BY <1>2 DEF Conversions, gwkjs_value_to_explicit_array
  <2>2. a.type.tag = "array"
    BY <1>2 DEF Explicit
  <2>3. a.type.sub[1] \in Ts
    BY <2>2, ArrayElementIn DEF Tied
  <2> QED
    BY <1>1, <2>1, <2>2, <2>3, ExplicitBack, CArraysBack
<1>3. CASE ~Explicit(a.type)
  <2>1. r \in ToC(a.type, a.transfer, a.nullable, v)
    BY <1>3 DEF Conversions, gwkjs_value_to_arg
  <2> QED
    BY <1>1, <2>1, OneLevelBack
<1> QED
  BY <1>2, <1>3

(* A value that the callee gives back is the one it was passed.            *)
RoundAt(a, v, at, c, d, again, fails, result) ==
    /\ a \in Arguments
    /\ at = "convert" \/ at = "call" => again = FALSE /\ fails = FALSE
    /\ at = "call" /\ a.dir = "inout" => \E r \in Conversions(a, v) : r.ok /\ c = r.c
    /\ again => a.dir = "inout" /\ d = c /\ \E r \in Conversions(a, v) : r.ok /\ c = r.c
    /\ again /\ at # "done" /\ at # "crashed" => fails = FALSE
    /\ again /\ Carries(a.type, v) =>
        /\ at = "release out" => result = v
        /\ at = "done" => ~fails

RoundInv == RoundAt(arg, input, pc, in, out, echoed, failed, js)

(* For any types, values, widths and transfers, containers of containers   *)
(* included, what C hands back of an inout argument is for JavaScript what *)
(* it passed, when the type stands for the value, or an empty table        *)
(* somewhere in it has ended the process.  The types are those of the      *)
(* arguments and of what is in them, and the conversions of elements are   *)
(* the ones that every value goes through, both ways.                      *)
THEOREM ComesBackUnchanged ==
    ASSUME NEW Ts, NEW depth, Tied(Ts, depth), TiedBack(Ts),
           \A a \in Arguments : a.type \in Ts
    PROVE  MarshalSpec => []RoundTrip
<1>1. MarshalInit => RoundInv
  <2> SUFFICES ASSUME MarshalInit PROVE RoundInv
    OBVIOUS
  <2>1. arg \in Arguments /\ echoed = FALSE /\ failed = FALSE
    BY DEF MarshalInit
  <2>2. pc = "call" => arg.dir # "inout"
    BY DEF MarshalInit, Takes
  <2> QED
    BY <2>1, <2>2 DEF RoundInv, RoundAt
<1>2. RoundInv /\ [MarshalNext]_marshalVars => RoundInv'
  <2> SUFFICES ASSUME RoundInv, [MarshalNext]_marshalVars
               PROVE  RoundAt(arg', input', pc', in', out', echoed', failed', js')
    BY DEF RoundInv
  <2>1. RoundAt(arg, input, pc, in, out, echoed, failed, js)
    BY DEF RoundInv
  <2>2. arg \in Arguments /\ arg.type \in Ts
    BY <2>1 DEF RoundAt
  <2>4. CASE ConvertIn
    <3>1. /\ pc = "convert" /\ arg' = arg /\ input' = input /\ echoed' = echoed /\ echoed = FALSE
      BY <2>1, <2>4 DEF ConvertIn, RoundAt
    <3>2. PICK r \in Incoming :
            /\ IF arg.dir = "callback"
               THEN \E ffi \in set_return_ffi_arg_from_giargument(arg.type, r.c) :
                        in' = IF r.ok THEN Returned(arg.type, ffi) ELSE gwkjs_g_argument_init_default(arg.type)
               ELSE in' = r.c
            /\ failed' = ~r.ok
            /\ pc' = IF r.ok THEN "call" ELSE "done"
      BY <2>4 DEF ConvertIn
    <3>3. CASE ~r.ok
      <4>1. pc' = "done"
        BY <3>2, <3>3
      <4> QED
        BY <2>2, <3>1, <4>1 DEF RoundAt
    <3>4. CASE r.ok
      <4>1. pc' = "call" /\ failed' = FALSE
        BY <3>2, <3>4
      <4>2. r \in Conversions(arg, input)
        BY DEF Incoming, Conversions
      <4>3. arg.dir = "inout" => in' = r.c
        BY <3>2
      <4> QED
        BY <2>2, <3>1, <3>4, <4>1, <4>2, <4>3 DEF RoundAt
    <3> QED
      BY <3>3, <3>4
  <2>5. CASE Call
    <3>1. /\ pc = "call" /\ arg' = arg /\ input' = input /\ in' = in /\ failed' = failed
          /\ echoed = FALSE /\ failed = FALSE
          /\ arg.dir = "inout" => \E r \in Conversions(arg, input) : r.ok /\ in = r.c
      BY <2>1, <2>5 DEF Call, RoundAt
    <3>2. CASE /\ Takes /\ arg.dir # "inout"
               /\ pc' = IF arg.dir = "in" THEN "release" ELSE "done"
               /\ UNCHANGED <<out, echoed>>
      <4>1. echoed' = FALSE /\ pc' \in {"release", "done"}
        BY <3>1, <3>2
      <4> QED
        BY <2>2, <3>1, <4>1 DEF RoundAt
    <3>3. CASE /\ \/ out' \in Outputs(arg) /\ echoed' = FALSE
                  \/ arg.dir = "inout" /\ out' = in /\ echoed' = TRUE
               /\ pc' = IF arg.dir = "inout" THEN "release" ELSE "convert out"
      <4>1. pc' \in {"release", "convert out"}
        BY <3>3
      <4>2. CASE echoed' = FALSE
        BY <2>2, <3>1, <4>1, <4>2 DEF RoundAt
      <4>3. CASE arg.dir = "inout" /\ out' = in /\ echoed' = TRUE
        BY <2>2, <3>1, <4>1, <4>3 DEF RoundAt
      <4> QED
        BY <3>3, <4>2, <4>3
    <3> QED
      BY <2>5, <3>2, <3>3 DEF Call
  <2>6. CASE Throws
    <3>1. /\ arg' = arg /\ input' = input /\ echoed' = echoed /\ echoed = FALSE
          /\ pc' \in {"release", "done"}
      BY <2>1, <2>6 DEF Throws, RoundAt
    <3> QED
      BY <2>2, <3>1 DEF RoundAt
  <2>7. CASE ReleaseArgument
    <3>1. /\ pc = "release" /\ arg' = arg /\ input' = input /\ in' = in /\ out' = out
          /\ echoed' = echoed /\ failed' = failed
          /\ pc' = IF arg.dir = "inout" /\ ~failed THEN "convert out" ELSE "done"
      BY <2>7 DEF ReleaseArgument
    <3>2. echoed => arg.dir = "inout" /\ failed = FALSE
      BY <2>1, <3>1 DEF RoundAt
    <3>3. echoed => pc' = "convert out"
      BY <3>1, <3>2
    <3>4. pc' \in {"convert out", "done"}
      BY <3>1
    <3> QED
      BY <2>1, <3>1, <3>2, <3>3, <3>4 DEF RoundAt
  <2>8. CASE ConvertOut
    <3> DEFINE x == FromC(arg.type, out)
    <3>1. /\ pc = "convert out" /\ arg' = arg /\ input' = input /\ in' = in /\ out' = out
          /\ echoed' = echoed
          /\ js' = x.js /\ failed' = ~x.ok
          /\ pc' = CASE x = Crashes -> "crashed"
                     [] x.ok /\ arg.dir # "parameter" -> "release out"
                     [] OTHER -> "done"
      BY <2>8 DEF ConvertOut
    <3>2. ASSUME echoed, Carries(arg.type, input) PROVE x \in Back(input)
      <4>1. /\ arg.dir = "inout" /\ out = in
            /\ \E r \in Conversions(arg, input) : r.ok /\ in = r.c
        BY <2>1, <3>2 DEF RoundAt
      <4>2. PICK r \in Conversions(arg, input) : r.ok /\ in = r.c
        BY <4>1
      <4>3. FromC(arg.type, r.c) \in Back(input)
        BY <2>2, <3>2, <4>1, <4>2, InoutBack
      <4> QED
        BY <4>1, <4>2, <4>3
    <3> HIDE DEF x
    <3>3. pc' \in {"crashed", "release out", "done"}
      <4>1. CASE x = Crashes
        BY <3>1, <4>1 DEF Crashes
      <4>2. CASE x # Crashes
        BY <3>1, <4>2
      <4> QED
        BY <4>1, <4>2
    <3>4. ASSUME pc' = "release out" PROVE failed' = FALSE
      <4>1. CASE x = Crashes
        BY <3>1, <3>4, <4>1 DEF Crashes
      <4>2. CASE x # Crashes
        BY <3>1, <3>4, <4>2
      <4> QED
        BY <4>1, <4>2
    <3>5. ASSUME echoed, Carries(arg.type, input)
          PROVE  (pc' = "release out" => js' = input) /\ pc' # "done"
      <4>1. arg.dir = "inout"
        BY <2>1, <3>5 DEF RoundAt
      <4>2. CASE x = Js(input)
        <5>1. x.ok /\ x.js = input /\ x # Crashes
          BY <4>2, JsFields DEF Crashes
        <5> QED
          BY <3>1, <4>1, <5>1
      <4>3. CASE x = Crashes
        <5>1. ~x.ok
          BY <4>3 DEF Crashes
        <5>2. pc' = "crashed"
          BY <3>1, <4>3, <5>1
        <5> QED
          BY <5>2
      <4> QED
        BY <3>2, <3>5, <4>2, <4>3 DEF Back
    <3> QED
      BY <2>1, <3>1, <3>3, <3>4, <3>5 DEF RoundAt
  <2>9. CASE ReleaseOutput
    <3>1. /\ arg' = arg /\ input' = input /\ in' = in /\ out' = out /\ echoed' = echoed /\ js' = js
          /\ pc' = "done" /\ (arg.dir # "return" => failed' = FALSE)
      BY <2>9 DEF ReleaseOutput
    <3>2. echoed => arg.dir = "inout"
      BY <2>1 DEF RoundAt
    <3> QED
      BY <2>1, <3>1, <3>2 DEF RoundAt
  <2>10. CASE UNCHANGED marshalVars
    BY <2>1, <2>10 DEF marshalVars
  <2> QED
    BY <2>4, <2>5, <2>6, <2>7, <2>8, <2>9, <2>10 DEF MarshalNext
<1>3. RoundInv => RoundTrip
  BY DEF RoundInv, RoundAt, RoundTrip
<1> QED
  BY <1>1, <1>2, <1>3, PTL DEF MarshalSpec
=============================================================================

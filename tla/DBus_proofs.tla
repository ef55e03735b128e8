---------------------------- MODULE DBus_proofs ----------------------------
(* Safety of DBus for any names of loops, any values and any number of     *)
(* calls and changes.                                                      *)
EXTENDS DBus, SequenceTheorems, TLAPS

Frames == [op : {"loop", "callback", "sync"}, id : Nat]

LoopTypeOK ==
    /\ running \in Seq(BOOLEAN)
    /\ mainLoops \in [Names -> 0..Len(running)]
    /\ stack \in Seq(Frames)

(* Two names never have the same loop, so that quit of one cannot stop     *)
(* the other's.                                                            *)
NamesApart ==
    \A m, n \in Names : mainLoops[m] = mainLoops[n] /\ mainLoops[m] # 0 => m = n

LoopInv == LoopTypeOK /\ NamesApart /\ NamedLoopsRun

LEMMA PushStep ==
    ASSUME LoopInv, NEW f \in Frames, Push(f), UNCHANGED <<running, mainLoops>>
    PROVE  LoopInv'
<1>1. /\ stack' \in Seq(Frames) /\ DOMAIN stack' = 1..Len(stack) + 1
      /\ \A k \in DOMAIN stack : k \in DOMAIN stack' /\ stack'[k] = stack[k]
  BY AppendProperties DEF LoopInv, LoopTypeOK, Push
<1>2. NamedLoopsRun'
  BY <1>1 DEF LoopInv, NamedLoopsRun, Frame
<1> QED
  BY <1>1, <1>2 DEF LoopInv, LoopTypeOK, NamesApart

(* What is popped is not the loop of a name: it is a callback or a call,   *)
(* or a loop that was stopped, which has lost its name.                    *)
LEMMA PopStep ==
    ASSUME LoopInv, stack # << >>, Top.op # "loop" \/ ~running[Top.id],
           stack' = Popped, UNCHANGED <<running, mainLoops>>
    PROVE  LoopInv'
<1> DEFINE d == Len(stack)
<1>1. d \in Nat \ {0} /\ DOMAIN stack = 1..d /\ stack \in Seq(Frames)
  BY EmptySeq DEF LoopInv, LoopTypeOK
<1>2. /\ stack' \in Seq(Frames) /\ DOMAIN stack' = 1..d - 1
      /\ \A k \in 1..d - 1 : stack'[k] = stack[k]
  BY <1>1 DEF Popped
<1>3. NamedLoopsRun'
  <2> SUFFICES ASSUME NEW n \in Names, mainLoops[n] # 0
               PROVE  /\ running[mainLoops[n]]
                      /\ \E k \in 1..d - 1 : stack'[k] = Frame("loop", mainLoops[n])
    BY <1>2 DEF NamedLoopsRun, Frame
  <2>1. PICK k \in 1..d : stack[k] = Frame("loop", mainLoops[n])
    BY <1>1 DEF LoopInv, NamedLoopsRun
  <2>2. running[mainLoops[n]]
    BY DEF LoopInv, NamedLoopsRun
  <2>3. k # d
    BY <2>1, <2>2 DEF Top, Frame
  <2> HIDE DEF d
  <2>4. k \in 1..d - 1
    BY <1>1, <2>1, <2>3
  <2> QED
    BY <1>2, <2>1, <2>2, <2>4
<1> QED
  BY <1>2, <1>3 DEF LoopInv, LoopTypeOK, NamesApart

LEMMA RunStep ==
    ASSUME LoopInv, NEW n \in Names, run(n)
    PROVE  LoopInv'
<1> DEFINE l == IF mainLoops[n] = 0 THEN Len(running) + 1 ELSE mainLoops[n]
<1>1. /\ running' = IF mainLoops[n] = 0 THEN Append(running, TRUE)
                    ELSE [running EXCEPT ![l] = TRUE]
      /\ mainLoops' = [mainLoops EXCEPT ![n] = l]
      /\ stack' = Append(stack, Frame("loop", l))
  BY DEF run, Push
<1>2. /\ running \in Seq(BOOLEAN) /\ Len(running) \in Nat /\ stack \in Seq(Frames)
      /\ mainLoops \in [Names -> 0..Len(running)]
  BY DEF LoopInv, LoopTypeOK
<1>3. l \in Nat /\ l # 0 /\ \A m \in Names \ {n} : mainLoops[m] # l
  BY <1>2 DEF LoopInv, NamesApart
<1>4. /\ running' \in Seq(BOOLEAN) /\ l \in 1..Len(running') /\ Len(running) <= Len(running')
      /\ running'[l]
      /\ \A k \in 1..Len(running) : k # l => running'[k] = running[k]
  <2>1. CASE mainLoops[n] = 0
    BY <1>1, <1>2, <2>1, AppendProperties
  <2>2. CASE mainLoops[n] # 0
    BY <1>1, <1>2, <2>2, ExceptSeq
  <2> QED
    BY <2>1, <2>2
<1>5. Frame("loop", l) \in Frames
  BY <1>3 DEF Frame, Frames
<1> DEFINE f == Frame("loop", l)
<1> HIDE DEF l, f
<1>6. /\ stack' \in Seq(Frames) /\ DOMAIN stack' = 1..Len(stack) + 1
      /\ stack'[Len(stack) + 1] = f /\ Len(stack) + 1 \in DOMAIN stack'
      /\ \A k \in DOMAIN stack : k \in DOMAIN stack' /\ stack'[k] = stack[k]
  BY <1>1, <1>2, <1>5, AppendProperties DEF f
<1>7. LoopTypeOK'
  <2>1. l \in 0..Len(running')
    BY <1>4
  <2>2. \A m \in Names : mainLoops[m] \in 0..Len(running')
    BY <1>2, <1>4
  <2>3. mainLoops' \in [Names -> 0..Len(running')]
    BY <1>1, <1>2, <2>1, <2>2
  <2> QED
    BY <1>4, <1>6, <2>3 DEF LoopTypeOK
<1>8. NamesApart'
  BY <1>1, <1>2, <1>3 DEF LoopInv, NamesApart
<1>9. NamedLoopsRun'
  <2> SUFFICES ASSUME NEW m \in Names, mainLoops'[m] # 0
               PROVE  /\ running'[mainLoops'[m]]
                      /\ \E d \in DOMAIN stack' : stack'[d] = Frame("loop", mainLoops'[m])
    BY DEF NamedLoopsRun, Frame
  <2>1. CASE m = n
    BY <1>1, <1>2, <1>4, <1>6, <2>1 DEF f
  <2>2. CASE m # n
    <3>1. mainLoops'[m] = mainLoops[m] /\ mainLoops[m] # l /\ mainLoops[m] \in 1..Len(running)
      BY <1>1, <1>2, <1>3, <2>2
    <3>2. running[mainLoops[m]] /\ \E d \in DOMAIN stack : stack[d] = Frame("loop", mainLoops[m])
      BY <3>1 DEF LoopInv, NamedLoopsRun
    <3> QED
      BY <1>4, <1>6, <3>1, <3>2
  <2> QED
    BY <2>1, <2>2
<1> QED
  BY <1>7, <1>8, <1>9 DEF LoopInv

LEMMA QuitStep ==
    ASSUME LoopInv, NEW n \in Names, quit(n),
           UNCHANGED stack \/ \E f \in Frames : Push(f)
    PROVE  LoopInv'
<1>1. /\ stack' \in Seq(Frames)
      /\ \A k \in DOMAIN stack : k \in DOMAIN stack' /\ stack'[k] = stack[k]
  <2>1. stack \in Seq(Frames)
    BY DEF LoopInv, LoopTypeOK
  <2>2. CASE UNCHANGED stack
    BY <2>1, <2>2
  <2>3. ASSUME NEW f \in Frames, Push(f)
        PROVE  /\ stack' \in Seq(Frames)
               /\ \A k \in DOMAIN stack : k \in DOMAIN stack' /\ stack'[k] = stack[k]
    BY <2>1, <2>3, AppendProperties DEF Push
  <2> QED
    BY <2>2, <2>3
<1>2. /\ mainLoops[n] # 0
      /\ running' = [running EXCEPT ![mainLoops[n]] = FALSE]
      /\ mainLoops' = [mainLoops EXCEPT ![n] = 0]
  BY DEF quit, QuitThrows, Forgotten
<1>3. /\ running \in Seq(BOOLEAN) /\ mainLoops[n] \in 1..Len(running)
      /\ mainLoops \in [Names -> 0..Len(running)]
  BY <1>2 DEF LoopInv, LoopTypeOK
<1>4. /\ running' \in Seq(BOOLEAN) /\ Len(running') = Len(running)
      /\ \A k \in 1..Len(running) : k # mainLoops[n] => running'[k] = running[k]
  BY <1>2, <1>3, ExceptSeq
<1>5. LoopTypeOK'
  BY <1>2, <1>3, <1>4, <1>1 DEF LoopTypeOK
<1>6. NamesApart'
  BY <1>2, <1>3 DEF LoopInv, NamesApart
<1>7. NamedLoopsRun'
  <2> SUFFICES ASSUME NEW m \in Names, mainLoops'[m] # 0
               PROVE  /\ running'[mainLoops'[m]]
                      /\ \E d \in DOMAIN stack' : stack'[d] = Frame("loop", mainLoops'[m])
    BY DEF NamedLoopsRun, Frame
  <2>1. m # n /\ mainLoops'[m] = mainLoops[m] /\ mainLoops[m] \in 1..Len(running)
    BY <1>2, <1>3
  <2>2. mainLoops[m] # mainLoops[n]
    BY <1>2, <2>1 DEF LoopInv, NamesApart
  <2> QED
    BY <1>4, <1>1, <2>1, <2>2 DEF LoopInv, NamedLoopsRun
<1> QED
  BY <1>5, <1>6, <1>7 DEF LoopInv

-----------------------------------------------------------------------------
Fields == {"kind", "quits", "value", "pending", "told", "answers", "refused"}

(* A callback quits a loop; only _propertySetter passes one that does not. *)
IsCall(c) ==
    /\ c = [x \in Fields |-> c[x]]
    /\ c.pending \in BOOLEAN /\ c.told \in Nat /\ c.answers \in Nat
    /\ c.kind # "set" => c.quits \in Names

CallsTypeOK ==
    /\ \E S : calls \in Seq(S)
    /\ \A i \in Id : IsCall(calls[i])

AnswersMatch ==
    /\ \E S : toClient \in Seq(S)
    /\ \A k \in DOMAIN toClient : toClient[k].type = "answer" => toClient[k].id \in Id

(* A call is on its way once, and then it is neither kept nor answered.    *)
Delivered ==
    /\ toServer \in Seq(Id) /\ held \subseteq Id
    /\ \A k \in DOMAIN toServer : calls[toServer[k]].answers = 0 /\ toServer[k] \notin held
    /\ \A k, l \in DOMAIN toServer : toServer[k] = toServer[l] => k = l

CallsInv == CallsTypeOK /\ AnswersMatch /\ Delivered /\ OnceEach

(* What was asked for stays; a refusal is not taken back.                  *)
SameRequest(old, new) ==
    /\ new.kind = old.kind /\ new.value = old.value
    /\ old.refused => new.refused

(* The client settles a call: it tells of it at most once.                 *)
SettlesOne(old, new) ==
    /\ IsCall(new) /\ new.answers = old.answers /\ SameRequest(old, new)
    /\ \/ new.pending = old.pending /\ new.told = old.told
       \/ ~new.pending /\ new.told = old.told
       \/ ~new.pending /\ old.pending /\ new.told = old.told + 1

Settles ==
    /\ \E S : calls' \in Seq(S)
    /\ Len(calls') = Len(calls)
    /\ \A i \in Id : SettlesOne(calls[i], calls'[i])

LEMMA CallsAre ==
    ASSUME CallsInv
    PROVE  /\ Id = 1..Len(calls) /\ DOMAIN calls = Id /\ Len(calls) \in Nat
           /\ \A i \in Id : IsCall(calls[i])
BY DEF CallsInv, CallsTypeOK, Id

LEMMA ClientStep ==
    ASSUME CallsInv, Settles, AnswersMatch', UNCHANGED <<toServer, held>>
    PROVE  CallsInv'
<1>1. Id' = Id
  BY DEF Settles, Id
<1>2. CallsTypeOK'
  BY <1>1 DEF CallsTypeOK, Settles, SettlesOne
<1>3. Delivered'
  <2>1. \A k \in DOMAIN toServer : toServer[k] \in Id
    BY DEF CallsInv, Delivered
  <2>2. \A i \in Id : calls'[i].answers = calls[i].answers
    BY DEF Settles, SettlesOne
  <2> QED
    BY <1>1, <2>1, <2>2 DEF CallsInv, Delivered
<1>4. OnceEach'
  <2> SUFFICES ASSUME NEW i \in Id
               PROVE  /\ calls'[i].told <= 1 /\ (calls'[i].pending => calls'[i].told = 0)
                      /\ calls'[i].answers <= 1 /\ (i \in held => calls'[i].answers = 0)
    BY <1>1 DEF OnceEach, CallsInv, Delivered
  <2>1. /\ calls[i].told <= 1 /\ (calls[i].pending => calls[i].told = 0)
        /\ calls[i].answers <= 1 /\ (i \in held => calls[i].answers = 0)
    BY DEF CallsInv, OnceEach
  <2> QED
    BY <2>1 DEF Settles, SettlesOne
<1> QED
  BY <1>2, <1>3, <1>4 DEF CallsInv

(* No call changes.                                                        *)
LEMMA QuietStep ==
    ASSUME CallsInv, UNCHANGED calls, AnswersMatch', UNCHANGED <<toServer, held>>
    PROVE  CallsInv'
<1>1. Id' = Id
  BY DEF Id
<1> QED
  BY <1>1 DEF CallsInv, CallsTypeOK, Delivered, OnceEach

LEMMA SettledIs ==
    ASSUME CallsInv, NEW i \in Id, NEW t \in {0, 1}, calls[i].pending \/ t = 0,
           calls' = (IF t = 0 THEN Settled(i) ELSE [Settled(i) EXCEPT ![i].told = @ + t])
    PROVE  Settles
<1> DEFINE c      == calls[i]
           first  == [c EXCEPT !.pending = FALSE]
           second == IF t = 0 THEN first ELSE [first EXCEPT !.told = @ + t]
<1>1. /\ DOMAIN calls = Id /\ Id = 1..Len(calls) /\ IsCall(c)
      /\ \A j \in Id : IsCall(calls[j])
  BY CallsAre
<1>2. PICK S : calls \in Seq(S)
  BY DEF CallsInv, CallsTypeOK
<1>3. calls' = [calls EXCEPT ![i] = second]
  <2>1. CASE t = 0
    BY <1>1, <2>1 DEF Settled
  <2>2. CASE t = 1
    BY <1>1, <2>2 DEF Settled
  <2> QED
    BY <2>1, <2>2
<1>4. /\ second = [x \in Fields |-> IF x = "pending" THEN FALSE
                                    ELSE IF x = "told" THEN c.told + t ELSE c[x]]
      /\ c.told \in Nat /\ c.answers \in Nat
  <2> HIDE DEF c
  <2>1. first = [x \in Fields |-> IF x = "pending" THEN FALSE ELSE c[x]]
    BY <1>1 DEF IsCall
  <2>2. first.told = c.told
    BY <2>1 DEF Fields
  <2> HIDE DEF first
  <2>3. c.told \in Nat /\ c.answers \in Nat
    BY <1>1 DEF IsCall
  <2>4. CASE t = 0
    <3>1. second = first
      BY <2>4
    <3>2. c.told + t = c["told"]
      BY <2>3, <2>4
    <3> QED
      BY <2>1, <2>3, <3>1, <3>2
  <2>5. CASE t = 1
    <3>1. second = [first EXCEPT !.told = @ + t]
      BY <2>5
    <3> QED
      BY <2>1, <2>2, <2>3, <3>1 DEF Fields
  <2> QED
    BY <2>4, <2>5
<1> HIDE DEF first, second
<1>5. IsCall(second) /\ second.answers = c.answers /\ second.pending = FALSE
      /\ second.told = c.told + t /\ SameRequest(c, second)
  <2> HIDE DEF c
  <2> QED
    BY <1>1, <1>4 DEF IsCall, Fields, SameRequest
<1>6. SettlesOne(c, second)
  <2>1. CASE t = 0
    <3>1. second.told = c.told /\ ~second.pending
      BY <1>4, <1>5, <2>1
    <3> QED
      BY <1>5, <3>1 DEF SettlesOne
  <2>2. CASE t = 1
    <3>1. second.told = c.told + 1 /\ ~second.pending /\ c.pending
      BY <1>4, <1>5, <2>2
    <3> QED
      BY <1>5, <3>1 DEF SettlesOne
  <2> QED
    BY <2>1, <2>2
<1>7. \A j \in Id \ {i} : SettlesOne(calls[j], calls[j])
  BY <1>1 DEF SettlesOne, SameRequest
<1>8. \A j \in Id : calls'[j] = IF j = i THEN second ELSE calls[j]
  BY <1>1, <1>3
<1>9. Len(calls') = Len(calls) /\ \E T : calls' \in Seq(T)
  <2> DEFINE T == S \union {second}
  <2>1. calls \in Seq(T)
    BY <1>2, SeqMonotonic
  <2>2. i \in 1..Len(calls) /\ second \in T
    BY <1>1
  <2> HIDE DEF T
  <2>3. /\ [calls EXCEPT ![i] = second] \in Seq(T)
        /\ Len([calls EXCEPT ![i] = second]) = Len(calls)
    BY <2>1, <2>2, ExceptSeq
  <2> QED
    BY <1>3, <2>3
<1> QED
  BY <1>6, <1>7, <1>8, <1>9 DEF Settles

-----------------------------------------------------------------------------
IInv == LoopInv /\ CallsInv

(* A call of the client, or one of the program's steps, that only pushes a *)
(* frame.                                                                  *)
LEMMA SendsStep ==
    ASSUME CallsInv, NEW kind, NEW quits, NEW v, Sends(kind, quits, v),
           kind # "set" => quits \in Names, UNCHANGED <<toClient, held>>
    PROVE  CallsInv'
<1> DEFINE new == [kind |-> kind, quits |-> quits, value |-> v, pending |-> TRUE,
                   told |-> 0, answers |-> 0, refused |-> FALSE]
           n == Len(calls)
<1>1. calls' = Append(calls, new) /\ toServer' = Append(toServer, n + 1)
  BY DEF Sends
<1>2. IsCall(new) /\ new.pending = TRUE /\ new.told = 0 /\ new.answers = 0
  BY DEF IsCall, Fields
<1> HIDE DEF new
<1>3. /\ Id = 1..n /\ n \in Nat /\ \A i \in Id : IsCall(calls[i])
  BY CallsAre
<1>4. PICK S : calls \in Seq(S)
  BY DEF CallsInv, CallsTypeOK
<1> HIDE DEF n
<1>5. /\ calls' \in Seq(S \union {new}) /\ Id' = 1..n + 1
      /\ \A i \in Id : calls'[i] = calls[i]
      /\ calls'[n + 1] = new
  <2>1. calls \in Seq(S \union {new})
    BY <1>4, SeqMonotonic
  <2> QED
    BY <1>1, <1>3, <2>1, AppendProperties DEF n, Id
<1>6. \A i \in Id' : IsCall(calls'[i])
  BY <1>2, <1>3, <1>5
<1>7. CallsTypeOK'
  BY <1>5, <1>6 DEF CallsTypeOK
<1>8. AnswersMatch'
  BY <1>3, <1>5 DEF CallsInv, AnswersMatch
<1>9. /\ toServer \in Seq(1..n) /\ \A k \in DOMAIN toServer : toServer[k] \in 1..n
      /\ held \subseteq 1..n
  BY <1>3 DEF CallsInv, Delivered
<1>10. /\ toServer' \in Seq(1..n + 1) /\ DOMAIN toServer' = 1..Len(toServer) + 1
       /\ DOMAIN toServer = 1..Len(toServer) /\ Len(toServer) \in Nat
       /\ toServer'[Len(toServer) + 1] = n + 1
       /\ \A k \in DOMAIN toServer : toServer'[k] = toServer[k]
  <2>1. toServer \in Seq(1..n + 1)
    BY <1>3, <1>9, SeqMonotonic
  <2> QED
    BY <1>1, <1>3, <2>1, AppendProperties
<1>11. Delivered'
  <2>1. ASSUME NEW k \in 1..Len(toServer) + 1
        PROVE  calls'[toServer'[k]].answers = 0 /\ toServer'[k] \notin held'
    <3>1. CASE k \in DOMAIN toServer
      BY SMTT(30), ZenonT(30), <1>3, <1>5, <1>9, <1>10, <3>1 DEF CallsInv, Delivered
    <3>2. CASE k = Len(toServer) + 1
      BY <1>2, <1>3, <1>5, <1>9, <1>10, <3>2
    <3> QED
      BY <1>10, <3>1, <3>2
  <2>2. ASSUME NEW k \in 1..Len(toServer) + 1, NEW l \in 1..Len(toServer) + 1,
               toServer'[k] = toServer'[l]
        PROVE  k = l
    <3>1. CASE k \in DOMAIN toServer /\ l \in DOMAIN toServer
      BY <1>10, <2>2, <3>1 DEF CallsInv, Delivered
    <3>2. ASSUME NEW m \in DOMAIN toServer PROVE toServer'[m] # n + 1
      BY <1>3, <1>9, <1>10, <3>2
    <3>3. CASE k = Len(toServer) + 1 \/ l = Len(toServer) + 1
      BY <1>10, <2>2, <3>2, <3>3
    <3> QED
      BY <1>10, <3>1, <3>3
  <2>3. held' \subseteq Id'
    BY <1>3, <1>5, <1>9
  <2> QED
    BY <1>5, <1>10, <2>1, <2>2, <2>3 DEF Delivered
<1>12. OnceEach'
  <2> SUFFICES ASSUME NEW i \in 1..n + 1
               PROVE  /\ calls'[i].told <= 1 /\ (calls'[i].pending => calls'[i].told = 0)
                      /\ calls'[i].answers <= 1 /\ (i \in held' => calls'[i].answers = 0)
    BY <1>5 DEF OnceEach
  <2>1. CASE i \in Id
    BY <1>5, <2>1 DEF CallsInv, OnceEach
  <2>2. CASE i = n + 1
    BY <1>2, <1>3, <1>5, <1>9, <2>2
  <2> QED
    BY <1>3, <2>1, <2>2
<1> QED
  BY <1>7, <1>8, <1>11, <1>12 DEF CallsInv

LEMMA WaitsStep ==
    ASSUME IInv, NEW sync, Waits(sync), UNCHANGED <<running, mainLoops>>
    PROVE  LoopInv'
<1>1. CASE sync
  <2>1. Frame("sync", Len(calls) + 1) \in Frames
    BY CallsAre DEF IInv, Frame, Frames
  <2> QED
    BY <1>1, <2>1, PushStep DEF Waits, IInv
<1>2. CASE ~sync
  BY <1>2 DEF Waits, IInv, LoopInv, LoopTypeOK, NamesApart, NamedLoopsRun, Frame
<1> QED
  BY <1>1, <1>2

LEMMA LoopsSame == LoopInv /\ UNCHANGED loopVars => LoopInv'
BY DEF loopVars, LoopInv, LoopTypeOK, NamesApart, NamedLoopsRun, Frame

(* A call whose callback is not called settles all the same.               *)
LEMMA NothingTold ==
    ASSUME CallsInv, NEW i \in Id
    PROVE  [Settled(i) EXCEPT ![i].told = @ + 0] = Settled(i)
<1> DEFINE c     == calls[i]
           first == [c EXCEPT !.pending = FALSE]
<1>1. DOMAIN calls = Id /\ IsCall(c) /\ \E S : calls \in Seq(S)
  BY CallsAre DEF CallsInv, CallsTypeOK
<1>2. first = [x \in Fields |-> IF x = "pending" THEN FALSE ELSE c[x]] /\ c.told \in Nat
  <2> HIDE DEF c
  <2> QED
    BY <1>1 DEF IsCall
<1>3. first.told \in Nat
  BY <1>2 DEF Fields
<1>4. [first EXCEPT !.told = first.told + 0] = first
  <2> HIDE DEF first, c
  <2>1. first.told + 0 = first.told
    BY <1>3
  <2> QED
    BY <1>2, <2>1
<1>5. Settled(i) = [j \in Id |-> IF j = i THEN first ELSE calls[j]]
  BY <1>1 DEF Settled
<1>6. Settled(i)[i] = first
  BY <1>5
<1>7. [Settled(i) EXCEPT ![i] = first] = Settled(i)
  BY <1>5
<1> QED
  BY <1>4, <1>6, <1>7

(* An answer, or a timeout, and what the callback does.                    *)
LEMMA CompletesStep ==
    ASSUME IInv, NEW i \in Id, calls[i].pending, NEW ok, NEW v, Completes(i, ok, v)
    PROVE  LoopInv' /\ Settles
<1>1. IsCall(calls[i])
  BY CallsAre DEF IInv
<1>2. CASE calls[i].kind = "set"
  <2>1. calls' = Settled(i) /\ UNCHANGED loopVars
    BY <1>2 DEF Completes
  <2> QED
    BY <2>1, SettledIs, LoopsSame DEF IInv
<1>3. CASE calls[i].kind # "set"
  <2>1. PICK throws \in BOOLEAN, times \in {0, 1} :
          /\ calls' = [Settled(i) EXCEPT ![i].told = @ + times]
          /\ IF QuitThrows(calls[i].quits) \/ times = 0 THEN UNCHANGED <<running, mainLoops>>
             ELSE quit(calls[i].quits)
          /\ IF throws \/ times = 0 THEN UNCHANGED stack ELSE Push(Frame("callback", i))
          /\ QuitThrows(calls[i].quits) => throws
    <3>1. Calls(i, ok)
      BY <1>3 DEF Completes
    <3> QED
      BY <3>1 DEF Calls, asyncCallback, init_asyncCallback
  <2>2. Settles
    <3>1. calls' = (IF times = 0 THEN Settled(i) ELSE [Settled(i) EXCEPT ![i].told = @ + 1])
      <4>1. CASE times = 1
        BY <2>1, <4>1
      <4>2. CASE times = 0
        <5>1. calls' = [Settled(i) EXCEPT ![i].told = @ + 0]
          BY <2>1, <4>2
        <5> QED
          BY <5>1, <4>2, NothingTold DEF IInv
      <4> QED
        BY <4>1, <4>2
    <3> QED
      BY <3>1, SettledIs DEF IInv
  <2>3. calls[i].quits \in Names /\ Frame("callback", i) \in Frames
    BY <1>1, <1>3, CallsAre DEF IsCall, IInv, Frame, Frames
  <2>4. CASE QuitThrows(calls[i].quits) \/ times = 0
    BY <2>1, <2>2, <2>4, LoopsSame DEF IInv, loopVars
  <2>5. CASE ~QuitThrows(calls[i].quits) /\ times = 1 /\ throws
    BY <2>1, <2>2, <2>3, <2>5, QuitStep DEF IInv
  <2>6. CASE ~QuitThrows(calls[i].quits) /\ times = 1 /\ ~throws
    BY <2>1, <2>2, <2>3, <2>6, QuitStep DEF IInv
  <2> QED
    BY <2>4, <2>5, <2>6
<1> QED
  BY <1>2, <1>3

(* The messages that were there, and answers to calls that exist.          *)
LEMMA FewerMessages ==
    ASSUME CallsInv, \E S : toClient' \in Seq(S), Id' = Id,
           \A k \in DOMAIN toClient' : \E l \in DOMAIN toClient : toClient'[k] = toClient[l]
    PROVE  AnswersMatch'
BY DEF CallsInv, AnswersMatch

LEMMA MoreMessages ==
    ASSUME CallsInv, Id' = Id, NEW T, NEW new \in Seq(T), toClient' = toClient \o new,
           \A k \in DOMAIN new : new[k].type = "answer" => new[k].id \in Id
    PROVE  AnswersMatch'
<1>1. PICK S : toClient \in Seq(S)
  BY DEF CallsInv, AnswersMatch
<1>2. toClient \in Seq(S \union T) /\ new \in Seq(S \union T)
  BY <1>1, SeqMonotonic
<1>3. /\ toClient' \in Seq(S \union T) /\ Len(toClient') = Len(toClient) + Len(new)
      /\ \A k \in 1..Len(toClient) + Len(new) :
            toClient'[k] = IF k <= Len(toClient) THEN toClient[k] ELSE new[k - Len(toClient)]
  BY <1>2, ConcatProperties
<1>4. ASSUME NEW k \in DOMAIN toClient', toClient'[k].type = "answer"
      PROVE  toClient'[k].id \in Id
  <2>1. k \in 1..Len(toClient) + Len(new) /\ Len(toClient) \in Nat /\ Len(new) \in Nat
    BY <1>2, <1>3
  <2>2. CASE k <= Len(toClient)
    <3>1. k \in DOMAIN toClient
      BY <1>2, <2>1, <2>2
    <3> QED
      BY <1>3, <1>4, <2>1, <2>2, <3>1 DEF CallsInv, AnswersMatch
  <2>3. CASE k > Len(toClient)
    <3>1. k - Len(toClient) \in DOMAIN new /\ toClient'[k] = new[k - Len(toClient)]
      BY <1>2, <1>3, <2>1, <2>3
    <3> QED
      BY <1>4, <3>1
  <2> QED
    BY <2>1, <2>2, <2>3
<1> QED
  BY <1>3, <1>4 DEF AnswersMatch

LEMMA WithoutIs ==
    ASSUME NEW S, NEW s \in Seq(S), NEW k \in DOMAIN s
    PROVE  /\ Without(s, k) \in Seq(S)
           /\ DOMAIN Without(s, k) = 1..Len(s) - 1
           /\ \A j \in 1..Len(s) - 1 : Without(s, k)[j] = IF j < k THEN s[j] ELSE s[j + 1]
           /\ \A j \in DOMAIN Without(s, k) : \E l \in DOMAIN s : Without(s, k)[j] = s[l]
<1> DEFINE a == SubSeq(s, 1, k - 1)
           b == SubSeq(s, k + 1, Len(s))
           n == Len(s)
<1>1. k \in 1..n /\ n \in Nat /\ DOMAIN s = 1..n
  OBVIOUS
<1>2. /\ a \in Seq(S) /\ Len(a) = k - 1 /\ \A j \in 1..k - 1 : a[j] = s[j]
  BY <1>1
<1>3. /\ b \in Seq(S) /\ Len(b) = n - k /\ \A j \in 1..n - k : b[j] = s[k + j]
  BY <1>1
<1> HIDE DEF a, b, n
<1> DEFINE c == a \o b
<1>4. /\ c \in Seq(S) /\ Len(c) = Len(a) + Len(b)
      /\ \A j \in 1..Len(a) + Len(b) : c[j] = IF j <= Len(a) THEN a[j] ELSE b[j - Len(a)]
  BY <1>2, <1>3, ConcatProperties
<1> HIDE DEF c
<1>5. Len(a) + Len(b) = n - 1 /\ DOMAIN c = 1..n - 1
  <2>1. Len(a) + Len(b) = n - 1
    BY <1>1, <1>2, <1>3
  <2>2. DOMAIN c = 1..Len(c)
    BY <1>4
  <2> QED
    BY <1>4, <2>1, <2>2
<1>6. ASSUME NEW j \in 1..n - 1
      PROVE  /\ c[j] = IF j < k THEN s[j] ELSE s[j + 1]
             /\ \E l \in 1..n : c[j] = s[l]
  <2>0. c[j] = IF j <= k - 1 THEN a[j] ELSE b[j - (k - 1)]
    BY <1>2, <1>4, <1>5
  <2>1. CASE j <= k - 1
    <3>1. j \in 1..k - 1 /\ j \in 1..n /\ j < k
      BY <1>1, <2>1
    <3> QED
      BY <1>2, <2>0, <2>1, <3>1
  <2>2. CASE j > k - 1
    <3>1. j - (k - 1) \in 1..n - k /\ k + (j - (k - 1)) = j + 1 /\ j + 1 \in 1..n /\ ~(j < k)
      BY <1>1, <2>2
    <3>2. c[j] = b[j - (k - 1)]
      BY <1>1, <2>0, <2>2
    <3>3. b[j - (k - 1)] = s[j + 1]
      BY <1>3, <3>1
    <3> QED
      BY <3>1, <3>2, <3>3
  <2> QED
    BY <1>1, <2>1, <2>2
<1>7. Without(s, k) = c
  BY DEF Without, a, b, c, n
<1> QED
  BY <1>1, <1>4, <1>5, <1>6, <1>7 DEF n

-----------------------------------------------------------------------------
(* The service answers a call, k times.                                    *)
Served(i, k) ==
    /\ \E S : calls' \in Seq(S)
    /\ Len(calls') = Len(calls)
    /\ \A j \in Id : /\ IsCall(calls'[j]) /\ SameRequest(calls[j], calls'[j])
                     /\ calls'[j].pending = calls[j].pending
                     /\ calls'[j].told = calls[j].told
                     /\ calls'[j].answers = calls[j].answers + (IF j = i THEN k ELSE 0)

LEMMA ServedStep ==
    ASSUME CallsInv, NEW i \in Id, NEW k \in {0, 1}, calls[i].answers = 0,
           Served(i, k), AnswersMatch',
           toServer' \in Seq(Id),
           \A l \in DOMAIN toServer' :
               toServer'[l] # i /\ \E m \in DOMAIN toServer : toServer'[l] = toServer[m],
           \A l, m \in DOMAIN toServer' : toServer'[l] = toServer'[m] => l = m,
           held' \subseteq held \union {i}, i \in held' => k = 0
    PROVE  CallsInv'
<1>1. Id' = Id
  BY DEF Served, Id
<1>2. CallsTypeOK'
  BY <1>1 DEF CallsTypeOK, Served
<1>3. \A j \in Id : calls[j].answers \in Nat
  BY CallsAre DEF IsCall
<1>4. ASSUME NEW j \in Id, j # i PROVE calls'[j].answers = calls[j].answers
  <2>1. calls'[j].answers = calls[j].answers + (IF j = i THEN k ELSE 0)
    BY DEF Served
  <2> QED
    BY <1>3, <1>4, <2>1
<1>5. calls'[i].answers = k
  BY DEF Served
<1>6. Delivered'
  <2>1. ASSUME NEW l \in DOMAIN toServer'
        PROVE  calls'[toServer'[l]].answers = 0 /\ toServer'[l] \notin held'
    <3>1. PICK m \in DOMAIN toServer : toServer'[l] = toServer[m]
      OBVIOUS
    <3>2. calls[toServer[m]].answers = 0 /\ toServer[m] \notin held /\ toServer[m] \in Id
      BY DEF CallsInv, Delivered
    <3> QED
      BY <1>4, <3>1, <3>2
  <2>2. held' \subseteq Id
    BY DEF CallsInv, Delivered
  <2> QED
    BY <1>1, <2>1, <2>2 DEF Delivered
<1>7. OnceEach'
  <2> SUFFICES ASSUME NEW j \in Id
               PROVE  /\ calls'[j].told <= 1 /\ (calls'[j].pending => calls'[j].told = 0)
                      /\ calls'[j].answers <= 1 /\ (j \in held' => calls'[j].answers = 0)
    BY <1>1 DEF OnceEach
  <2>1. /\ calls[j].told <= 1 /\ (calls[j].pending => calls[j].told = 0)
        /\ calls[j].answers <= 1 /\ (j \in held => calls[j].answers = 0)
    BY DEF CallsInv, OnceEach
  <2>2. calls'[j].told <= 1 /\ (calls'[j].pending => calls'[j].told = 0)
    BY <2>1 DEF Served
  <2>3. CASE j = i
    BY <1>5, <2>2, <2>3
  <2>4. CASE j # i
    BY <1>4, <2>1, <2>2, <2>4
  <2> QED
    BY <2>3, <2>4
<1> QED
  BY <1>2, <1>6, <1>7 DEF CallsInv

LEMMA ServedIs ==
    ASSUME CallsInv, NEW i \in Id, NEW k \in Nat,
           \/ calls' = [calls EXCEPT ![i].answers = @ + k]
           \/ calls' = [calls EXCEPT ![i].answers = @ + k, ![i].refused = TRUE]
    PROVE  Served(i, k)
<1> DEFINE c     == calls[i]
           first == [c EXCEPT !.answers = @ + k]
           other == [first EXCEPT !.refused = TRUE]
<1>1. /\ DOMAIN calls = Id /\ Id = 1..Len(calls) /\ IsCall(c)
      /\ \A j \in Id : IsCall(calls[j])
  BY CallsAre
<1>2. PICK S : calls \in Seq(S)
  BY DEF CallsInv, CallsTypeOK
<1>3. \E x \in {first, other} : calls' = [calls EXCEPT ![i] = x]
  <2>1. CASE calls' = [calls EXCEPT ![i].answers = @ + k]
    <3>1. calls' = [calls EXCEPT ![i] = first]
      BY <2>1
    <3> QED
      BY <3>1
  <2>2. CASE calls' = [calls EXCEPT ![i].answers = @ + k, ![i].refused = TRUE]
    <3>1. calls' = [calls EXCEPT ![i] = other]
      BY <1>1, <2>2
    <3> QED
      BY <3>1
  <2> QED
    BY <2>1, <2>2
<1> HIDE DEF c
<1>4. /\ first = [x \in Fields |-> IF x = "answers" THEN c.answers + k ELSE c[x]]
      /\ c.answers \in Nat /\ c.told \in Nat /\ c.pending \in BOOLEAN
  BY <1>1 DEF IsCall
<1>5. /\ IsCall(first) /\ first.pending = c.pending /\ first.told = c.told
      /\ first.answers = c.answers + k /\ SameRequest(c, first)
  <2> HIDE DEF first
  <2> QED
    BY <1>1, <1>4 DEF IsCall, Fields, SameRequest
<1>6. /\ IsCall(other) /\ other.pending = c.pending /\ other.told = c.told
      /\ other.answers = c.answers + k /\ SameRequest(c, other)
  <2>1. first = [x \in Fields |-> first[x]]
    BY <1>5 DEF IsCall
  <2> HIDE DEF first
  <2>2. other = [x \in Fields |-> IF x = "refused" THEN TRUE ELSE first[x]]
    BY <2>1
  <2> HIDE DEF other
  <2> QED
    BY <1>5, <2>2 DEF IsCall, Fields, SameRequest
<1> HIDE DEF first, other
<1>7. PICK x \in {first, other} : calls' = [calls EXCEPT ![i] = x]
  BY <1>3
<1>8. \A j \in Id : calls'[j] = IF j = i THEN x ELSE calls[j]
  BY <1>1, <1>7
<1>9. Len(calls') = Len(calls) /\ \E T : calls' \in Seq(T)
  <2> DEFINE T == S \union {x}
  <2>1. calls \in Seq(T)
    BY <1>2, SeqMonotonic
  <2>2. i \in 1..Len(calls) /\ x \in T
    BY <1>1
  <2> HIDE DEF T
  <2>3. /\ [calls EXCEPT ![i] = x] \in Seq(T)
        /\ Len([calls EXCEPT ![i] = x]) = Len(calls)
    BY <2>1, <2>2, ExceptSeq
  <2> QED
    BY <1>7, <2>3
<1>10. ASSUME NEW j \in Id
       PROVE  /\ IsCall(calls'[j]) /\ SameRequest(calls[j], calls'[j])
              /\ calls'[j].pending = calls[j].pending
              /\ calls'[j].told = calls[j].told
              /\ calls'[j].answers = calls[j].answers + (IF j = i THEN k ELSE 0)
  <2>1. CASE j = i
    BY <1>5, <1>6, <1>7, <1>8, <2>1 DEF c
  <2>2. CASE j # i
    <3>1. calls[j].answers \in Nat
      BY <1>1 DEF IsCall
    <3> QED
      BY <1>1, <1>8, <2>2, <3>1 DEF SameRequest
  <2> QED
    BY <2>1, <2>2
<1> QED
  BY <1>9, <1>10 DEF Served

-----------------------------------------------------------------------------
LEMMA TailIs ==
    ASSUME NEW S, NEW s \in Seq(S), s # << >>
    PROVE  /\ Tail(s) \in Seq(S) /\ DOMAIN Tail(s) = 1..Len(s) - 1
           /\ Len(s) \in Nat \ {0} /\ Head(s) = s[1] /\ 1 \in DOMAIN s
           /\ \A j \in 1..Len(s) - 1 : Tail(s)[j] = s[j + 1] /\ j + 1 \in DOMAIN s
BY EmptySeq

LEMMA OneLess ==
    ASSUME CallsInv, toClient # << >>, toClient' = Tail(toClient), Id' = Id
    PROVE  AnswersMatch'
<1>1. PICK S : toClient \in Seq(S)
  BY DEF CallsInv, AnswersMatch
<1>2. /\ toClient' \in Seq(S)
      /\ \A k \in DOMAIN toClient' : \E l \in DOMAIN toClient : toClient'[k] = toClient[l]
  BY <1>1, TailIs
<1> QED
  BY <1>2, FewerMessages

LEMMA ReceivesStep ==
    ASSUME IInv, ClientReceives
    PROVE  IInv'
<1>1. toClient # << >> /\ toClient' = Tail(toClient) /\ UNCHANGED <<toServer, held>>
  BY DEF ClientReceives, service
<1> DEFINE m == Head(toClient)
<1>2. m.type = "answer" => m.id \in Id
  <2>1. PICK S : toClient \in Seq(S)
    BY DEF IInv, CallsInv, AnswersMatch
  <2>2. m = toClient[1] /\ 1 \in DOMAIN toClient
    BY <1>1, <2>1, TailIs
  <2> QED
    BY <2>2 DEF IInv, CallsInv, AnswersMatch
<1>3. CASE UNCHANGED <<calls, loopVars>>
  <2>1. Id' = Id
    BY <1>3 DEF Id
  <2> QED
    BY <1>1, <1>3, <2>1, OneLess, QuietStep, LoopsSame DEF IInv
<1>4. CASE m.type = "answer" /\ calls[m.id].pending /\ Completes(m.id, m.ok, m.value)
  <2>1. LoopInv' /\ Settles
    BY <1>2, <1>4, CompletesStep
  <2>2. Id' = Id
    BY <2>1 DEF Settles, Id
  <2> QED
    BY <1>1, <2>1, <2>2, OneLess, ClientStep DEF IInv
<1> QED
  BY <1>3, <1>4 DEF ClientReceives, client

LEMMA TimeoutStep ==
    ASSUME IInv, NEW i, Timeout(i)
    PROVE  IInv'
<1>1. /\ i \in Id /\ calls[i].pending /\ Completes(i, FALSE, Unknown)
      /\ UNCHANGED <<toServer, toClient, held>>
  BY DEF Timeout, service
<1>2. LoopInv' /\ Settles
  BY <1>1, CompletesStep
<1>3. AnswersMatch'
  BY <1>1, <1>2 DEF IInv, CallsInv, AnswersMatch, Settles, Id
<1> QED
  BY <1>1, <1>2, <1>3, ClientStep DEF IInv

LEMMA SyncStep ==
    ASSUME IInv, NEW ok, SyncReturns(ok)
    PROVE  IInv'
<1> DEFINE i == Top.id
<1>1. /\ calls' = Settled(i) /\ UNCHANGED <<toServer, held>>
      /\ stack # << >> /\ Top.op = "sync" /\ stack' = Popped
      /\ UNCHANGED <<running, mainLoops>>
      /\ UNCHANGED toClient \/ \E k \in DOMAIN toClient : toClient' = Without(toClient, k)
  BY DEF SyncReturns, service, On, Top
<1>2. LoopInv'
  BY <1>1, PopStep DEF IInv
<1>3. \/ i \notin Id /\ UNCHANGED calls
      \/ Settles
  <2>1. DOMAIN calls = Id /\ calls = [j \in Id |-> calls[j]]
    <3>1. PICK S : calls \in Seq(S)
      BY DEF IInv, CallsInv, CallsTypeOK
    <3> QED
      BY <3>1 DEF Id
  <2>2. CASE i \notin Id
    <3> HIDE DEF i
    <3>1. calls' = [j \in Id |-> calls[j]]
      BY <1>1, <2>1, <2>2 DEF Settled
    <3> QED
      BY <2>1, <2>2, <3>1
  <2>3. CASE i \in Id
    <3>1. calls' = IF 0 = 0 THEN Settled(i) ELSE [Settled(i) EXCEPT ![i].told = @ + 0]
      BY <1>1
    <3> HIDE DEF i
    <3> QED
      BY <2>3, <3>1, SettledIs DEF IInv
  <2> QED
    BY <2>2, <2>3
<1>4. Id' = Id
  BY <1>3 DEF Settles, Id
<1>5. AnswersMatch'
  <2>1. CASE UNCHANGED toClient
    BY <1>4, <2>1 DEF IInv, CallsInv, AnswersMatch
  <2>2. CASE \E k \in DOMAIN toClient : toClient' = Without(toClient, k)
    <3>1. PICK k \in DOMAIN toClient : toClient' = Without(toClient, k)
      BY <2>2
    <3>2. PICK S : toClient \in Seq(S)
      BY DEF IInv, CallsInv, AnswersMatch
    <3> QED
      BY <1>4, <3>1, <3>2, WithoutIs, FewerMessages DEF IInv
  <2> QED
    BY <1>1, <2>1, <2>2
<1>6. CallsInv'
  BY <1>1, <1>3, <1>5, ClientStep, QuietStep DEF IInv
<1> QED
  BY <1>2, <1>6 DEF IInv

-----------------------------------------------------------------------------
LEMMA AppendedMessage ==
    ASSUME CallsInv, Id' = Id, NEW x, toClient' = Append(toClient, x),
           x.type = "answer" => x.id \in Id
    PROVE  AnswersMatch'
<1>1. PICK S : toClient \in Seq(S)
  BY DEF CallsInv, AnswersMatch
<1>2. toClient \in Seq(S \union {x})
  BY <1>1, SeqMonotonic
<1>3. /\ toClient' \in Seq(S \union {x}) /\ DOMAIN toClient' = 1..Len(toClient) + 1
      /\ DOMAIN toClient = 1..Len(toClient)
      /\ toClient'[Len(toClient) + 1] = x
      /\ \A k \in 1..Len(toClient) : toClient'[k] = toClient[k]
  BY <1>2, AppendProperties
<1>4. ASSUME NEW k \in DOMAIN toClient', toClient'[k].type = "answer"
      PROVE  toClient'[k].id \in Id
  <2>1. CASE k \in DOMAIN toClient
    BY <1>3, <1>4, <2>1 DEF CallsInv, AnswersMatch
  <2>2. CASE k = Len(toClient) + 1
    BY <1>3, <1>4, <2>2
  <2> QED
    BY <1>1, <1>3, <2>1, <2>2
<1> QED
  BY <1>3, <1>4 DEF AnswersMatch

LEMMA AnswersAre ==
    ASSUME CallsInv, NEW i \in Id, NEW oks \in Seq(BOOLEAN), NEW v, Answers(i, oks, v)
    PROVE  AnswersMatch' /\ Served(i, Len(oks))
<1> DEFINE new == [k \in DOMAIN oks |-> Answer(i, oks[k], v)]
           T   == {Answer(i, ok, v) : ok \in BOOLEAN}
<1>1. toClient' = toClient \o new /\ calls' = [calls EXCEPT ![i].answers = @ + Len(oks)]
  BY DEF Answers
<1>2. Served(i, Len(oks))
  <2>1. Len(oks) \in Nat
    OBVIOUS
  <2> HIDE DEF new, T
  <2> QED
    BY <1>1, <2>1, ServedIs
<1>3. Id' = Id
  BY <1>2 DEF Served, Id
<1>4. new \in Seq(T)
  <2>1. DOMAIN oks = 1..Len(oks) /\ Len(oks) \in Nat /\ \A k \in DOMAIN oks : oks[k] \in BOOLEAN
    OBVIOUS
  <2>2. \A k \in DOMAIN oks : new[k] \in T
    BY <2>1
  <2>3. new \in [1..Len(oks) -> T]
    BY <2>1, <2>2
  <2> HIDE DEF new, T
  <2> QED
    BY <2>1, <2>3, SeqDef
<1>5. \A k \in DOMAIN new : new[k].id \in Id
  BY DEF Answer
<1> HIDE DEF new, T
<1> QED
  BY <1>1, <1>2, <1>3, <1>4, <1>5, MoreMessages

(* The first call on its way is taken: nothing else is of that call.       *)
LEMMA Taken ==
    ASSUME CallsInv, toServer # << >>, toServer' = Tail(toServer)
    PROVE  /\ Head(toServer) \in Id /\ Head(toServer) \notin held
           /\ calls[Head(toServer)].answers = 0
           /\ toServer' \in Seq(Id)
           /\ \A l \in DOMAIN toServer' :
                  toServer'[l] # Head(toServer)
                  /\ \E m \in DOMAIN toServer : toServer'[l] = toServer[m]
           /\ \A l, m \in DOMAIN toServer' : toServer'[l] = toServer'[m] => l = m
<1>1. /\ toServer \in Seq(Id)
      /\ \A k \in DOMAIN toServer : calls[toServer[k]].answers = 0 /\ toServer[k] \notin held
      /\ \A k, l \in DOMAIN toServer : toServer[k] = toServer[l] => k = l
  BY DEF CallsInv, Delivered
<1>2. /\ toServer' \in Seq(Id) /\ DOMAIN toServer' = 1..Len(toServer) - 1
      /\ Len(toServer) \in Nat \ {0} /\ Head(toServer) = toServer[1] /\ 1 \in DOMAIN toServer
      /\ \A j \in 1..Len(toServer) - 1 : /\ toServer'[j] = toServer[j + 1]
                                         /\ j + 1 \in DOMAIN toServer
  BY <1>1, TailIs
<1>3. toServer[1] \in Id
  BY <1>1, <1>2
<1>4. ASSUME NEW l \in DOMAIN toServer'
      PROVE  /\ toServer'[l] # Head(toServer)
             /\ \E m \in DOMAIN toServer : toServer'[l] = toServer[m]
  <2>1. l + 1 # 1 /\ l + 1 \in DOMAIN toServer /\ toServer'[l] = toServer[l + 1]
    BY <1>2
  <2> QED
    BY <1>1, <1>2, <2>1
<1>5. ASSUME NEW l \in DOMAIN toServer', NEW m \in DOMAIN toServer', toServer'[l] = toServer'[m]
      PROVE  l = m
  <2>1. l + 1 = m + 1
    BY <1>1, <1>2, <1>5
  <2> QED
    BY <1>2, <2>1
<1> QED
  BY <1>1, <1>2, <1>3, <1>4, <1>5

LEMMA ServerStep ==
    ASSUME IInv, ServerReceives
    PROVE  IInv'
<1> DEFINE i == Head(toServer)
<1>1. toServer # << >> /\ toServer' = Tail(toServer) /\ UNCHANGED loopVars
  BY DEF ServerReceives
<1>2. LoopInv'
  BY <1>1, LoopsSame DEF IInv
<1>3. /\ i \in Id /\ i \notin held /\ calls[i].answers = 0
      /\ toServer' \in Seq(Id)
      /\ \A l \in DOMAIN toServer' :
             toServer'[l] # i /\ \E m \in DOMAIN toServer : toServer'[l] = toServer[m]
      /\ \A l, m \in DOMAIN toServer' : toServer'[l] = toServer'[m] => l = m
  BY <1>1, Taken DEF IInv
<1>4. ASSUME NEW oks \in {<<TRUE>>, <<FALSE>>, << >>}
      PROVE  oks \in Seq(BOOLEAN) /\ Len(oks) \in {0, 1}
  <2>1. CASE oks = << >>
    BY <2>1
  <2>2. CASE oks = <<TRUE>>
    BY <2>2
  <2>3. CASE oks = <<FALSE>>
    BY <2>3
  <2> QED
    BY <2>1, <2>2, <2>3
<1> HIDE DEF i
<1> SUFFICES CallsInv'
  BY <1>2 DEF IInv
<1>5. ASSUME NEW oks \in {<<TRUE>>, <<FALSE>>, << >>}, NEW v, Answers(i, oks, v), UNCHANGED held
      PROVE  CallsInv'
  <2>1. AnswersMatch' /\ Served(i, Len(oks)) /\ Len(oks) \in {0, 1}
    BY <1>3, <1>4, <1>5, AnswersAre DEF IInv
  <2>2. held' \subseteq held \union {i} /\ i \notin held'
    BY <1>3, <1>5
  <2> QED
    BY <1>3, <2>1, <2>2, ServedStep DEF IInv
<1>6. CASE Answers(i, <<TRUE>>, value) /\ UNCHANGED held
  BY <1>5, <1>6
<1>7. CASE method_call(i)
  <2>1. ASSUME NEW o \in Outcomes, Answers(i, _handleMethodCall(o), Unknown), UNCHANGED held
        PROVE  CallsInv'
    <3>1. _handleMethodCall(o) \in {<<TRUE>>, <<FALSE>>, << >>}
      BY DEF _handleMethodCall, Outcomes
    <3> QED
      BY <1>5, <2>1, <3>1
  <2>2. CASE held' = held \union {i} /\ UNCHANGED <<calls, toClient>>
    <3>1. Id' = Id
      BY <2>2 DEF Id
    <3>2. AnswersMatch'
      BY <2>2, <3>1 DEF IInv, CallsInv, AnswersMatch
    <3>3. Served(i, 0)
      <4>1. \A j \in Id : IsCall(calls[j])
        BY CallsAre DEF IInv
      <4> QED
        BY <2>2, <4>1 DEF IInv, CallsInv, CallsTypeOK, Served, IsCall, SameRequest
    <3>4. 0 \in {0, 1} /\ held' \subseteq held \union {i}
      BY <2>2
    <3> QED
      BY <1>3, <3>2, <3>3, <3>4, ServedStep DEF IInv
  <2> QED
    BY <1>7, <2>1, <2>2 DEF method_call
<1>8. CASE property_set(i) /\ UNCHANGED held
  <2>1. CASE Answers(i, <<TRUE>>, Unknown)
    BY <1>5, <1>8, <2>1
  <2>2. CASE /\ toClient' = Append(toClient, Answer(i, TRUE, Unknown))
             /\ calls' = [calls EXCEPT ![i].answers = @ + 1, ![i].refused = TRUE]
    <3>1. Served(i, 1)
      BY <1>3, <2>2, ServedIs DEF IInv
    <3>2. Id' = Id
      BY <3>1 DEF Served, Id
    <3>3. Answer(i, TRUE, Unknown).id \in Id
      BY <1>3 DEF Answer
    <3>4. AnswersMatch'
      BY <2>2, <3>2, <3>3, AppendedMessage DEF IInv
    <3>5. 1 \in {0, 1} /\ held' \subseteq held \union {i} /\ i \notin held'
      BY <1>3, <1>8
    <3> QED
      BY <1>3, <3>1, <3>4, <3>5, ServedStep DEF IInv
  <2> QED
    BY <1>8, <2>1, <2>2 DEF property_set
<1> QED
  BY <1>2, <1>6, <1>7, <1>8 DEF ServerReceives, IInv, i

LEMMA AsyncStep ==
    ASSUME IInv, NEW i, NEW ok \in BOOLEAN, AsyncAnswers(i, ok)
    PROVE  IInv'
<1>1. /\ i \in held /\ held' = held \ {i} /\ Answers(i, <<ok>>, Unknown)
      /\ UNCHANGED <<toServer, loopVars>>
  BY DEF AsyncAnswers
<1>2. i \in Id /\ calls[i].answers = 0
  BY <1>1 DEF IInv, CallsInv, Delivered, OnceEach
<1>3. <<ok>> \in Seq(BOOLEAN) /\ Len(<<ok>>) = 1
  OBVIOUS
<1>4. AnswersMatch' /\ Served(i, 1)
  BY <1>1, <1>2, <1>3, AnswersAre DEF IInv
<1>5. /\ toServer' \in Seq(Id)
      /\ \A l \in DOMAIN toServer' :
             toServer'[l] # i /\ \E m \in DOMAIN toServer : toServer'[l] = toServer[m]
      /\ \A l, m \in DOMAIN toServer' : toServer'[l] = toServer'[m] => l = m
  BY <1>1 DEF IInv, CallsInv, Delivered
<1>6. 1 \in {0, 1} /\ held' \subseteq held \union {i} /\ i \notin held'
  BY <1>1
<1>7. CallsInv'
  BY <1>2, <1>4, <1>5, <1>6, ServedStep DEF IInv
<1> QED
  BY <1>1, <1>7, LoopsSame DEF IInv

LEMMA FlushStep ==
    ASSUME IInv, flush
    PROVE  IInv'
<1>1. /\ UNCHANGED <<calls, toServer, held, loopVars>>
      /\ UNCHANGED toClient \/ toClient' = Append(toClient, Changed(outstanding))
  BY DEF flush, client
<1>2. Id' = Id
  BY <1>1 DEF Id
<1>3. AnswersMatch'
  <2>1. CASE UNCHANGED toClient
    BY <1>2, <2>1 DEF IInv, CallsInv, AnswersMatch
  <2>2. CASE toClient' = Append(toClient, Changed(outstanding))
    <3>1. Changed(outstanding).type # "answer"
      BY DEF Changed
    <3> QED
      BY <1>2, <2>2, <3>1, AppendedMessage DEF IInv
  <2> QED
    BY <1>1, <2>1, <2>2
<1> QED
  BY <1>1, <1>3, QuietStep, LoopsSame DEF IInv

(* Steps of the loops, and those that neither calls nor loops know of.     *)
LEMMA OtherSteps ==
    ASSUME IInv, UNCHANGED <<calls, toServer, toClient, held>>,
           UNCHANGED loopVars \/ LoopStep \/ \E n \in Names : run(n)
    PROVE  IInv'
<1>1. AnswersMatch'
  BY DEF IInv, CallsInv, AnswersMatch, Id
<1>2. CallsInv'
  BY <1>1, QuietStep DEF IInv
<1>3. LoopInv'
  <2>1. CASE UNCHANGED loopVars
    BY <2>1, LoopsSame DEF IInv
  <2>2. CASE LoopStep
    <3>1. /\ stack # << >>
          /\ Top.op # "loop" \/ ~running[Top.id]
          /\ stack' = Popped /\ UNCHANGED <<running, mainLoops>>
      BY <2>2 DEF LoopStep, RunReturns, CallbackReturns, On, Top
    <3> QED
      BY <3>1, PopStep DEF IInv
  <2>3. CASE \E n \in Names : run(n)
    BY <2>3, RunStep DEF IInv
  <2> QED
    BY <2>1, <2>2, <2>3
<1> QED
  BY <1>2, <1>3 DEF IInv

LEMMA ProgramStep ==
    ASSUME IInv, NEW n \in Names, NEW sync \in BOOLEAN,
           _makeProxyWrapper(n, sync) \/ _proxyInvoker(n, sync)
    PROVE  IInv'
<1>1. PICK kind \in {"init", "method", "sync"} : Sends(kind, n, Unknown)
  BY DEF _makeProxyWrapper, _proxyInvoker
<1>2. Waits(sync) /\ UNCHANGED <<running, mainLoops, toClient, held>>
  BY DEF _makeProxyWrapper, _proxyInvoker, service
<1>3. CallsInv'
  BY <1>1, <1>2, SendsStep DEF IInv
<1> QED
  BY <1>2, <1>3, WaitsStep DEF IInv

LEMMA SetterStep ==
    ASSUME IInv, NEW v, _propertySetter(v)
    PROVE  IInv'
<1> DEFINE n == CHOOSE m \in Names : TRUE
<1>1. Sends("set", n, v) /\ UNCHANGED <<running, mainLoops, stack, toClient, held>>
  BY DEF _propertySetter, service
<1> HIDE DEF n
<1>2. CallsInv'
  BY <1>1, SendsStep DEF IInv
<1> QED
  BY <1>1, <1>2, LoopsSame DEF IInv, loopVars

-----------------------------------------------------------------------------
LEMMA InitIInv == Init => IInv
<1> SUFFICES ASSUME Init PROVE IInv
  OBVIOUS
<1>1. /\ running = << >> /\ mainLoops = [n \in Names |-> 0] /\ stack = << >>
      /\ calls = << >> /\ toServer = << >> /\ toClient = << >> /\ held = {}
  BY DEF Init, LoopInit
<1>2. \A S : << >> \in Seq(S)
  BY EmptySeq
<1>3. Id = {}
  BY <1>1 DEF Id
<1>4. LoopInv
  BY <1>1, <1>2 DEF LoopInv, LoopTypeOK, NamesApart, NamedLoopsRun
<1>5. CallsTypeOK /\ AnswersMatch
  BY <1>1, <1>2, <1>3 DEF CallsTypeOK, AnswersMatch
<1>6. Delivered /\ OnceEach
  BY <1>1, <1>2, <1>3 DEF Delivered, OnceEach
<1> QED
  BY <1>4, <1>5, <1>6 DEF IInv, CallsInv

LEMMA NextIInv == IInv /\ [Next]_vars => IInv'
<1> SUFFICES ASSUME IInv, [Next]_vars PROVE IInv'
  OBVIOUS
<1>1. CASE \E n \in Names, sync \in BOOLEAN : _makeProxyWrapper(n, sync) \/ _proxyInvoker(n, sync)
  BY <1>1, ProgramStep
<1>2. CASE \E v \in Values : _propertySetter(v)
  BY <1>2, SetterStep
<1>3. CASE \E n \in Names : RunsLoop(n)
  BY <1>3, OtherSteps DEF RunsLoop, client, service
<1>4. CASE LoopStep
  BY <1>4, OtherSteps DEF LoopStep, client, service
<1>5. CASE ClientReceives
  BY <1>5, ReceivesStep
<1>6. CASE \E i \in 1..MaxCalls : Timeout(i)
  BY <1>6, TimeoutStep
<1>7. CASE \E ok \in BOOLEAN : SyncReturns(ok)
  BY <1>7, SyncStep
<1>8. CASE ServerReceives
  BY <1>8, ServerStep
<1>9. CASE \E i \in 1..MaxCalls, ok \in BOOLEAN : AsyncAnswers(i, ok)
  BY <1>9, AsyncStep
<1>10. CASE \E v \in Values, a \in {TRUE, FALSE} : ServiceChanges(v, IF a THEN v ELSE Unknown)
  BY <1>10, OtherSteps DEF ServiceChanges, client
<1>11. CASE flush
  BY <1>11, FlushStep
<1>12. CASE UNCHANGED vars
  BY <1>12, OtherSteps DEF vars, loopVars
<1> QED
  BY <1>1, <1>2, <1>3, <1>4, <1>5, <1>6, <1>7, <1>8, <1>9, <1>10, <1>11, <1>12 DEF Next

(* A loop that has a name is being run, whatever callbacks do: quit, as    *)
(* mainloop.js has it, always stops a loop that runs.                      *)
THEOREM QuitStopsARunningLoop == Spec => []NamedLoopsRun
<1>1. IInv => NamedLoopsRun
  BY DEF IInv, LoopInv
<1> QED
  BY InitIInv, NextIInv, <1>1, PTL DEF Spec

(* The callback that Gio.js is given for a call is called once at most,    *)
(* however answers, timeouts and exceptions meet, and the service answers  *)
(* an invocation once at most, also one that an Async method has kept.     *)
THEOREM CalledBackOnce == Spec => []OnceEach
<1>1. IInv => OnceEach
  BY DEF IInv, CallsInv
<1> QED
  BY InitIInv, NextIInv, <1>1, PTL DEF Spec

-----------------------------------------------------------------------------
(* The cache.  While no change is outstanding, each message on its way to  *)
(* the client has the present value, or none, or is followed by a change.  *)
HasChange(msgs) == \E k \in DOMAIN msgs : msgs[k].type = "changed"

Newest(msgs, v) ==
    \A k \in DOMAIN msgs :
        \/ msgs[k].value \in {v, Unknown}
        \/ \E l \in DOMAIN msgs : l > k /\ msgs[l].type = "changed"

(* What the client put into the cache itself.                              *)
OwnValue ==
    \/ \E i \in Id : calls[i].refused /\ cache = calls[i].value
    \/ \E k \in DOMAIN toServer :
            calls[toServer[k]].kind = "set" /\ cache = calls[toServer[k]].value

CacheTypeOK ==
    /\ ready \in {"no", "initializing", "yes"} /\ (ready # "yes" => cache = Unknown)
    /\ ready = "no" => calls = << >> /\ toServer = << >> /\ toClient = << >>
    /\ \A i \in Id : calls[i].kind = "set" => calls[i].value \in Values

ChangesOutstanding ==
    /\ outstanding # None => outstanding \in {value, Unknown}
    /\ idle_source => outstanding # None

CacheExplained ==
    outstanding = None =>
        /\ Newest(toClient, value)
        /\ ready = "yes" => HasChange(toClient) \/ cache \in {value, Unknown} \/ OwnValue

CacheInv == CacheTypeOK /\ ChangesOutstanding /\ CacheExplained

(* No message is lost or out of date for it.                               *)
Keeps(msgs, news, v) ==
    /\ Newest(msgs, v) => Newest(news, v)
    /\ HasChange(msgs) => HasChange(news)

LEMMA MessagesAre == ASSUME IInv PROVE \E S : toClient \in Seq(S)
BY DEF IInv, CallsInv, AnswersMatch

(* The message at k is taken out.                                          *)
Removed(msgs, news, k) ==
    /\ DOMAIN news = 1..Len(msgs) - 1
    /\ \A j \in 1..Len(msgs) - 1 : news[j] = IF j < k THEN msgs[j] ELSE msgs[j + 1]

LEMMA RemovedIs ==
    ASSUME NEW S, NEW msgs \in Seq(S), NEW k \in DOMAIN msgs, NEW news, Removed(msgs, news, k),
           k = 1 \/ msgs[k].type # "changed", NEW v
    PROVE  /\ Newest(msgs, v) => /\ Newest(news, v)
                                 /\ msgs[k].value \in {v, Unknown} \/ HasChange(news)
           /\ HasChange(msgs) /\ msgs[k].type # "changed" => HasChange(news)
<1> DEFINE n == Len(msgs)
           Old(j) == IF j < k THEN j ELSE j + 1
           New(l) == IF l < k THEN l ELSE l - 1
<1>1. n \in Nat /\ DOMAIN msgs = 1..n /\ k \in 1..n
  OBVIOUS
<1>2. DOMAIN news = 1..n - 1 /\ \A j \in 1..n - 1 : news[j] = msgs[Old(j)] /\ Old(j) \in 1..n
  BY <1>1 DEF Removed
<1>3. \A l \in 1..n : l # k => New(l) \in 1..n - 1 /\ Old(New(l)) = l
  BY <1>1
<1>4. \A l \in 1..n : l # k => news[New(l)] = msgs[l]
  BY <1>2, <1>3
<1>5. \A j \in 1..n - 1, l \in 1..n : l # k /\ l > Old(j) => New(l) > j
  BY <1>1
<1>6. \A l \in 1..n : l > k => New(l) \in 1..n - 1 /\ l # k
  BY <1>1, <1>3
<1> HIDE DEF Old, New, n
<1>7. ASSUME Newest(msgs, v), NEW j \in 1..n - 1
      PROVE  \/ news[j].value \in {v, Unknown}
             \/ \E l \in 1..n - 1 : l > j /\ news[l].type = "changed"
  <2>1. CASE msgs[Old(j)].value \in {v, Unknown}
    BY <1>2, <2>1
  <2>2. ASSUME NEW l \in 1..n, l > Old(j), msgs[l].type = "changed"
        PROVE  \E m \in 1..n - 1 : m > j /\ news[m].type = "changed"
    <3>1. l # k
      <4>1. l > 1
        BY <1>2, <2>2
      <4> QED
        BY <2>2, <4>1
    <3> QED
      BY <1>3, <1>4, <1>5, <2>2, <3>1
  <2> QED
    BY <1>1, <1>2, <1>7, <2>1, <2>2 DEF Newest
<1>8. ASSUME Newest(msgs, v), msgs[k].value \notin {v, Unknown} PROVE HasChange(news)
  <2>1. PICK l \in 1..n : l > k /\ msgs[l].type = "changed"
    BY <1>1, <1>8 DEF Newest
  <2> QED
    BY <1>2, <1>4, <1>6, <2>1 DEF HasChange
<1>9. ASSUME HasChange(msgs), msgs[k].type # "changed" PROVE HasChange(news)
  <2>1. PICK l \in 1..n : msgs[l].type = "changed"
    BY <1>1, <1>9 DEF HasChange
  <2> QED
    BY <1>2, <1>3, <1>4, <1>9, <2>1 DEF HasChange
<1> QED
  BY <1>2, <1>7, <1>8, <1>9 DEF Newest

(* More messages that have the present value, or none, come after them.    *)
LEMMA MoreIs ==
    ASSUME NEW S, NEW msgs \in Seq(S), NEW T, NEW new \in Seq(T), NEW v,
           \A k \in DOMAIN new : new[k].value \in {v, Unknown}
    PROVE  /\ Newest(msgs, v) => Newest(msgs \o new, v)
           /\ HasChange(msgs) => HasChange(msgs \o new)
<1> DEFINE all == msgs \o new
           n == Len(msgs)
<1>1. msgs \in Seq(S \union T) /\ new \in Seq(S \union T)
  BY SeqMonotonic
<1>2. /\ Len(all) = n + Len(new) /\ n \in Nat /\ Len(new) \in Nat /\ DOMAIN msgs = 1..n
      /\ DOMAIN new = 1..Len(new) /\ DOMAIN all = 1..n + Len(new)
      /\ \A k \in 1..n + Len(new) : all[k] = IF k <= n THEN msgs[k] ELSE new[k - n]
  BY <1>1, ConcatProperties
<1> HIDE DEF all, n
<1>3. \A k \in 1..n : k \in DOMAIN all /\ all[k] = msgs[k]
  BY <1>2
<1>4. \A k \in DOMAIN all : k \in 1..n \/ (k - n \in DOMAIN new /\ all[k] = new[k - n])
  BY <1>2
<1>5. Newest(msgs, v) => Newest(all, v)
  BY <1>2, <1>3, <1>4 DEF Newest
<1>6. HasChange(msgs) => HasChange(all)
  BY <1>2, <1>3 DEF HasChange
<1> QED
  BY <1>5, <1>6 DEF all

LEMMA OneMoreIs ==
    ASSUME NEW S, NEW msgs \in Seq(S), NEW x, NEW v, x.value \in {v, Unknown}
    PROVE  /\ Keeps(msgs, Append(msgs, x), v)
           /\ x.type = "changed" => Newest(Append(msgs, x), v) /\ HasChange(Append(msgs, x))
<1> DEFINE all == Append(msgs, x)
           n == Len(msgs)
<1>1. msgs \in Seq(S \union {x})
  BY SeqMonotonic
<1>2. /\ n \in Nat /\ DOMAIN msgs = 1..n /\ DOMAIN all = 1..n + 1
      /\ all[n + 1] = x /\ \A k \in 1..n : all[k] = msgs[k]
  BY <1>1, AppendProperties
<1> HIDE DEF all, n
<1>3. \A k \in 1..n : k \in DOMAIN all /\ all[k] = msgs[k] /\ n + 1 > k
  BY <1>2
<1>4. n + 1 \in DOMAIN all /\ \A k \in DOMAIN all : k \in 1..n \/ k = n + 1
  BY <1>2
<1>5. Newest(msgs, v) => Newest(all, v)
  BY <1>2, <1>3, <1>4 DEF Newest
<1>6. HasChange(msgs) => HasChange(all)
  BY <1>2, <1>3 DEF HasChange
<1>7. x.type = "changed" => Newest(all, v) /\ HasChange(all)
  BY <1>2, <1>3, <1>4 DEF Newest, HasChange
<1> QED
  BY <1>5, <1>6, <1>7 DEF all, Keeps

-----------------------------------------------------------------------------
(* Requests stay what they were, whoever changes the calls.                *)
RequestsStay ==
    Id' = Id /\ \A i \in Id : SameRequest(calls[i], calls'[i])

LEMMA Requests ==
    (Settles \/ UNCHANGED calls \/ \E i \in Id : \E k : Served(i, k)) => RequestsStay
BY DEF RequestsStay, Settles, SettlesOne, Served, Id, SameRequest

(* The client's own values stay its own while it does not send any.        *)
LEMMA OwnStays ==
    ASSUME IInv, RequestsStay, UNCHANGED <<toServer, cache>>, OwnValue
    PROVE  OwnValue'
<1>1. \A k \in DOMAIN toServer : toServer[k] \in Id
  BY DEF IInv, CallsInv, Delivered
<1> QED
  BY <1>1 DEF OwnValue, RequestsStay, SameRequest

LEMMA SetsStay ==
    ASSUME CacheTypeOK, RequestsStay
    PROVE  \A i \in Id' : calls'[i].kind = "set" => calls'[i].value \in Values
BY DEF CacheTypeOK, RequestsStay, SameRequest

(* The client takes a message.                                             *)
LEMMA TakesMessage ==
    ASSUME IInv, CacheInv, Settles \/ UNCHANGED calls,
           UNCHANGED <<toServer, value, outstanding, idle_source>>,
           NEW k \in DOMAIN toClient, Removed(toClient, toClient', k),
           k = 1 \/ toClient[k].type # "changed",
           ready' \in {ready, "yes"}, cache' \in {cache, toClient[k].value},
           ready' # "yes" => cache' = cache,
           ready = "yes" /\ toClient[k].type = "changed" => cache' = toClient[k].value
    PROVE  CacheInv'
<1>0. RequestsStay
  BY Requests
<1>1. PICK S : toClient \in Seq(S)
  BY MessagesAre
<1>2. /\ Newest(toClient, value) =>
            /\ Newest(toClient', value)
            /\ toClient[k].value \in {value, Unknown} \/ HasChange(toClient')
      /\ HasChange(toClient) /\ toClient[k].type # "changed" => HasChange(toClient')
  BY <1>1, RemovedIs
<1>3. ready # "no"
  BY DEF CacheInv, CacheTypeOK
<1>4. CacheTypeOK'
  BY <1>0, <1>3, SetsStay DEF CacheInv, CacheTypeOK
<1>5. ChangesOutstanding'
  BY DEF CacheInv, ChangesOutstanding
<1>6. CacheExplained'
  <2> SUFFICES ASSUME outstanding = None
               PROVE  /\ Newest(toClient', value)
                      /\ ready' = "yes" => HasChange(toClient') \/ cache' \in {value, Unknown} \/ OwnValue'
    BY DEF CacheExplained
  <2>1. Newest(toClient, value)
    BY DEF CacheInv, CacheExplained
  <2>2. ASSUME ready' = "yes", ~HasChange(toClient') PROVE cache' \in {value, Unknown} \/ OwnValue'
    <3>1. CASE cache' = toClient[k].value
      BY <1>2, <2>1, <2>2, <3>1
    <3>2. CASE cache' = cache /\ cache' # toClient[k].value
      <4>1. CASE ready = "yes"
        <5>1. toClient[k].type # "changed"
          BY <3>2, <4>1
        <5>2. ~HasChange(toClient)
          BY <1>2, <2>2, <5>1
        <5> QED
          BY <1>0, <3>2, <4>1, <5>2, OwnStays DEF CacheInv, CacheExplained
      <4>2. CASE ready # "yes"
        BY <3>2, <4>2 DEF CacheInv, CacheTypeOK
      <4> QED
        BY <4>1, <4>2
    <3> QED
      BY <3>1, <3>2
  <2> QED
    BY <1>2, <2>1, <2>2
<1> QED
  BY <1>4, <1>5, <1>6 DEF CacheInv

(* The client does something of its own, or nothing.                       *)
LEMMA TakesNothing ==
    ASSUME IInv, CacheInv, Settles \/ UNCHANGED calls,
           UNCHANGED <<toServer, toClient, value, outstanding, idle_source, cache>>,
           ready' \in {ready, "yes"}
    PROVE  CacheInv'
<1>0. RequestsStay
  BY Requests
<1>1. CacheTypeOK'
  <2>1. ready = "no" => calls' = << >>
    <3>1. ASSUME ready = "no", Settles PROVE calls' = << >>
      <4>1. Len(calls') = 0 /\ \E S : calls' \in Seq(S)
        BY <3>1 DEF Settles, CacheInv, CacheTypeOK
      <4> QED
        BY <4>1, EmptySeq
    <3> QED
      BY <3>1 DEF CacheInv, CacheTypeOK
  <2> QED
    BY <1>0, <2>1, SetsStay DEF CacheInv, CacheTypeOK
<1>2. ChangesOutstanding'
  BY DEF CacheInv, ChangesOutstanding
<1>3. CacheExplained'
  <2>1. ready # "yes" => cache = Unknown
    BY DEF CacheInv, CacheTypeOK
  <2> QED
    BY <1>0, <2>1, OwnStays DEF CacheInv, CacheExplained
<1> QED
  BY <1>1, <1>2, <1>3 DEF CacheInv

(* What a call puts into the cache.                                        *)
Puts(kind, v) ==
    /\ cache' = cache \/ (kind = "set" /\ cache' = v)
    /\ kind = "set" => v \in Values

(* The client makes a call.                                                *)
LEMMA SendsCache ==
    ASSUME IInv, CacheInv, NEW kind, NEW quits, NEW v, Sends(kind, quits, v),
           UNCHANGED <<toClient, value, outstanding, idle_source>>,
           ready' \in {"initializing", "yes"}, ready' = "yes" => ready = "yes",
           ready' # "yes" => ready # "yes" /\ cache' = cache,
           Puts(kind, v)
    PROVE  CacheInv'
<1> DEFINE new == [kind |-> kind, quits |-> quits, value |-> v, pending |-> TRUE,
                   told |-> 0, answers |-> 0, refused |-> FALSE]
           n == Len(calls)
           l == Len(toServer) + 1
<1>1. calls' = Append(calls, new) /\ toServer' = Append(toServer, n + 1)
  BY DEF Sends
<1>2. new.kind = kind /\ new.value = v
  OBVIOUS
<1> HIDE DEF new
<1>3. Id = 1..n /\ n \in Nat
  BY CallsAre DEF IInv
<1>4. PICK S : calls \in Seq(S)
  BY DEF IInv, CallsInv, CallsTypeOK
<1> HIDE DEF n
<1>5. Id' = 1..n + 1 /\ calls'[n + 1] = new /\ \A i \in Id : i \in Id' /\ calls'[i] = calls[i]
  <2>1. calls \in Seq(S \union {new})
    BY <1>4, SeqMonotonic
  <2> QED
    BY <1>1, <1>3, <2>1, AppendProperties DEF n, Id
<1>6. /\ l \in DOMAIN toServer' /\ toServer'[l] = n + 1
      /\ \A k \in DOMAIN toServer : /\ toServer[k] \in Id /\ k \in DOMAIN toServer'
                                    /\ toServer'[k] = toServer[k]
  <2>1. toServer \in Seq(Id)
    BY DEF IInv, CallsInv, Delivered
  <2>2. toServer \in Seq(Nat)
    BY <1>3, <2>1, SeqMonotonic
  <2> QED
    BY <1>1, <1>3, <2>1, <2>2, AppendProperties
<1> HIDE DEF l
<1>7. CacheTypeOK'
  <2>1. \A i \in Id' : i \in Id \/ i = n + 1
    BY <1>3, <1>5
  <2>2. \A i \in Id' : calls'[i].kind = "set" => calls'[i].value \in Values
    BY <1>2, <1>5, <2>1 DEF CacheInv, CacheTypeOK, Puts
  <2> QED
    BY <2>2 DEF CacheInv, CacheTypeOK
<1>8. ChangesOutstanding'
  BY DEF CacheInv, ChangesOutstanding
<1>9. CacheExplained'
  <2>1. ASSUME cache' = cache, OwnValue PROVE OwnValue'
    BY <1>5, <1>6, <2>1 DEF OwnValue
  <2>2. ASSUME kind = "set", cache' = v PROVE OwnValue'
    BY <1>2, <1>5, <1>6, <2>2 DEF OwnValue
  <2> QED
    BY <2>1, <2>2 DEF CacheInv, CacheExplained, Puts
<1> QED
  BY <1>7, <1>8, <1>9 DEF CacheInv

(* The service takes a call: either it changes the property, which leaves  *)
(* a change outstanding, or it adds messages that have the present value.  *)
LEMMA ServesCache ==
    ASSUME IInv, CacheInv, toServer # << >>, toServer' = Tail(toServer),
           NEW i \in Id, i = Head(toServer), NEW k, Served(i, k), UNCHANGED <<cache, ready>>,
           outstanding' # None => outstanding' \in {value', Unknown},
           idle_source' => outstanding' # None,
           outstanding' = None =>
               /\ outstanding = None /\ value' = value
               /\ calls[i].kind # "set" \/ calls'[i].refused
               /\ Keeps(toClient, toClient', value)
    PROVE  CacheInv'
<1>1. RequestsStay
  BY Requests
<1>2. ready # "no"
  BY DEF CacheInv, CacheTypeOK
<1>3. CacheTypeOK'
  BY <1>1, <1>2, SetsStay DEF CacheInv, CacheTypeOK
<1>4. ASSUME OwnValue, calls[i].kind # "set" \/ calls'[i].refused PROVE OwnValue'
  <2>1. \A j \in Id : j \in Id' /\ SameRequest(calls[j], calls'[j])
    BY <1>1 DEF RequestsStay
  <2>2. CASE \E j \in Id : calls[j].refused /\ cache = calls[j].value
    BY <2>1, <2>2 DEF OwnValue, SameRequest
  <2>3. ASSUME NEW m \in DOMAIN toServer, calls[toServer[m]].kind = "set",
               cache = calls[toServer[m]].value
        PROVE  OwnValue'
    <3>1. toServer \in Seq(Id)
      BY DEF IInv, CallsInv, Delivered
    <3>2. toServer[m] \in Id
      BY <3>1
    <3>3. CASE m = 1
      <4>1. toServer[m] = i
        BY <3>1, <3>3
      <4> QED
        BY <1>4, <2>1, <2>3, <4>1 DEF OwnValue, SameRequest
    <3>4. CASE m # 1
      <4>1. m - 1 \in DOMAIN toServer' /\ toServer'[m - 1] = toServer[m]
        <5>1. m - 1 \in 1..Len(toServer) - 1 /\ (m - 1) + 1 = m
          BY <3>1, <3>4
        <5> QED
          BY <3>1, <5>1, TailIs
      <4> QED
        BY <2>1, <2>3, <3>2, <4>1 DEF OwnValue, SameRequest
    <3> QED
      BY <3>3, <3>4
  <2> QED
    BY <1>4, <2>2, <2>3 DEF OwnValue
<1>5. CacheExplained'
  BY <1>4 DEF CacheInv, CacheExplained, Keeps
<1> QED
  BY <1>3, <1>5 DEF CacheInv, ChangesOutstanding

-----------------------------------------------------------------------------
LEMMA InitCacheInv == Init => CacheInv
<1> SUFFICES ASSUME Init PROVE CacheInv
  OBVIOUS
<1>1. /\ calls = << >> /\ toServer = << >> /\ toClient = << >>
      /\ outstanding = None /\ idle_source = FALSE
      /\ ready \in {"no", "yes"} /\ cache \in {value, Unknown} /\ (ready # "yes" => cache = Unknown)
  BY DEF Init
<1>2. Id = {} /\ DOMAIN toClient = {}
  BY <1>1 DEF Id
<1> QED
  BY <1>1, <1>2 DEF CacheInv, CacheTypeOK, ChangesOutstanding, CacheExplained, Newest

LEMMA ReceivesCache ==
    ASSUME IInv, CacheInv, ClientReceives
    PROVE  CacheInv'
<1>1. /\ toClient # << >> /\ toClient' = Tail(toClient)
      /\ UNCHANGED <<toServer, value, outstanding, idle_source>>
  BY DEF ClientReceives, service
<1>2. PICK S : toClient \in Seq(S)
  BY MessagesAre
<1>3. /\ Head(toClient) = toClient[1] /\ 1 \in DOMAIN toClient
      /\ Removed(toClient, toClient', 1)
  <2>1. /\ DOMAIN toClient' = 1..Len(toClient) - 1
        /\ Head(toClient) = toClient[1] /\ 1 \in DOMAIN toClient
        /\ \A j \in 1..Len(toClient) - 1 : toClient'[j] = toClient[j + 1]
    BY <1>1, <1>2, TailIs
  <2>2. \A j \in 1..Len(toClient) - 1 : ~(j < 1)
    BY <1>2
  <2> QED
    BY <2>1, <2>2 DEF Removed
<1> DEFINE m == toClient[1]
<1>4. CASE /\ m.type = "changed" /\ cache' = (IF ready = "yes" THEN m.value ELSE cache)
           /\ UNCHANGED <<calls, ready>>
  BY <1>1, <1>3, <1>4, TakesMessage
<1>5. CASE m.type = "answer" /\ calls[m.id].pending /\ Completes(m.id, m.ok, m.value)
  <2>1. m.id \in Id
    BY <1>3, <1>5 DEF IInv, CallsInv, AnswersMatch
  <2>2. Settles
    BY <1>5, <2>1, CompletesStep
  <2>3. /\ ready' = IF calls[m.id].kind = "init" THEN "yes" ELSE ready
        /\ cache' = IF calls[m.id].kind = "init" /\ m.ok THEN m.value ELSE cache
    BY <1>5 DEF Completes
  <2>4. ready' \in {ready, "yes"} /\ cache' \in {cache, m.value} /\ (ready' # "yes" => cache' = cache)
    BY <2>3
  <2> QED
    BY <1>1, <1>3, <1>5, <2>2, <2>4, TakesMessage
<1>6. CASE m.type = "answer" /\ UNCHANGED <<calls, cache, ready>>
  BY <1>1, <1>3, <1>6, TakesMessage
<1> QED
  BY <1>3, <1>4, <1>5, <1>6 DEF ClientReceives, client

LEMMA TimeoutCache ==
    ASSUME IInv, CacheInv, NEW i, Timeout(i)
    PROVE  CacheInv'
<1>1. /\ i \in Id /\ calls[i].pending /\ Completes(i, FALSE, Unknown)
      /\ UNCHANGED <<toServer, toClient, value, outstanding, idle_source>>
  BY DEF Timeout, service
<1>2. Settles
  BY <1>1, CompletesStep
<1>3. ready' \in {ready, "yes"} /\ UNCHANGED cache
  BY <1>1 DEF Completes
<1> QED
  BY <1>1, <1>2, <1>3, TakesNothing

LEMMA SyncSettles ==
    ASSUME IInv, NEW i, calls' = Settled(i)
    PROVE  Settles \/ UNCHANGED calls
<1>1. DOMAIN calls = Id /\ calls = [j \in Id |-> calls[j]]
  <2>1. PICK S : calls \in Seq(S)
    BY DEF IInv, CallsInv, CallsTypeOK
  <2> QED
    BY <2>1 DEF Id
<1>2. CASE i \notin Id
  <2>1. calls' = [j \in Id |-> calls[j]]
    BY <1>1, <1>2 DEF Settled
  <2> QED
    BY <1>1, <2>1
<1>3. CASE i \in Id
  <2>1. calls' = IF 0 = 0 THEN Settled(i) ELSE [Settled(i) EXCEPT ![i].told = @ + 0]
    OBVIOUS
  <2> QED
    BY <1>3, <2>1, SettledIs DEF IInv
<1> QED
  BY <1>2, <1>3

LEMMA SyncCache ==
    ASSUME IInv, CacheInv, NEW ok, SyncReturns(ok)
    PROVE  CacheInv'
<1> DEFINE i == Top.id
<1>1. /\ calls' = Settled(i)
      /\ ready' = (IF calls[i].kind = "init" THEN "yes" ELSE ready)
      /\ UNCHANGED <<toServer, value, outstanding, idle_source>>
      /\ \/ UNCHANGED <<cache, toClient>>
         \/ \E k \in DOMAIN toClient :
                /\ toClient[k].type = "answer" /\ toClient' = Without(toClient, k)
                /\ cache' = IF calls[i].kind = "init" /\ toClient[k].ok
                            THEN toClient[k].value ELSE cache
  BY DEF SyncReturns, service
<1> HIDE DEF i
<1>2. Settles \/ UNCHANGED calls
  BY <1>1, SyncSettles
<1>3. CASE UNCHANGED <<cache, toClient>>
  <2>1. ready' \in {ready, "yes"}
    BY <1>1
  <2> QED
    BY <1>1, <1>2, <1>3, <2>1, TakesNothing
<1>4. ASSUME NEW k \in DOMAIN toClient,
             toClient[k].type = "answer", toClient' = Without(toClient, k),
             cache' = IF calls[i].kind = "init" /\ toClient[k].ok THEN toClient[k].value ELSE cache
      PROVE  CacheInv'
  <2>1. PICK S : toClient \in Seq(S)
    BY MessagesAre
  <2>2. Removed(toClient, toClient', k)
    BY <1>4, <2>1, WithoutIs DEF Removed
  <2>3. /\ ready' \in {ready, "yes"} /\ cache' \in {cache, toClient[k].value}
        /\ ready' # "yes" => cache' = cache
    BY <1>1, <1>4
  <2> QED
    BY <1>1, <1>2, <1>4, <2>2, <2>3, TakesMessage
<1> QED
  BY <1>1, <1>3, <1>4

LEMMA ProgramCache ==
    ASSUME IInv, CacheInv, NEW n \in Names, NEW sync \in BOOLEAN,
           _makeProxyWrapper(n, sync) \/ _proxyInvoker(n, sync)
    PROVE  CacheInv'
<1>1. PICK kind \in {"init", "method", "sync"} : Sends(kind, n, Unknown)
  BY DEF _makeProxyWrapper, _proxyInvoker
<1>2. kind # "set"
  OBVIOUS
<1>3. UNCHANGED <<toClient, value, outstanding, idle_source>> /\ cache' = cache
  BY DEF _makeProxyWrapper, _proxyInvoker, service
<1>4. /\ ready' \in {"initializing", "yes"} /\ (ready' = "yes" => ready = "yes")
      /\ ready' # "yes" => ready # "yes" /\ cache' = cache
  BY DEF _makeProxyWrapper, _proxyInvoker
<1>5. Puts(kind, Unknown)
  BY <1>2, <1>3 DEF Puts
<1> QED
  BY ONLY IInv, CacheInv, <1>1, <1>3, <1>4, <1>5, SendsCache

LEMMA SetterCache ==
    ASSUME IInv, CacheInv, NEW v \in Values, _propertySetter(v)
    PROVE  CacheInv'
<1> DEFINE n == CHOOSE m \in Names : TRUE
<1>1. /\ Sends("set", n, v) /\ cache' = v /\ ready = "yes" /\ ready' = "yes"
      /\ UNCHANGED <<toClient, value, outstanding, idle_source>>
  BY DEF _propertySetter, service
<1> HIDE DEF n
<1>2. Puts("set", v)
  BY <1>1 DEF Puts
<1> QED
  BY <1>1, <1>2, SendsCache

-----------------------------------------------------------------------------
(* Answers that have a value at most.                                      *)
Adds(i, oks, v) ==
    toClient' = toClient \o [k \in DOMAIN oks |-> Answer(i, oks[k], v)]

LEMMA OneAnswer ==
    ASSUME IInv, NEW i, NEW oks \in {<<TRUE>>, <<FALSE>>, << >>},
           NEW v \in {value, Unknown}, Adds(i, oks, v)
    PROVE  Keeps(toClient, toClient', value)
<1> DEFINE new == [k \in DOMAIN oks |-> Answer(i, oks[k], v)]
           T   == {Answer(i, ok, v) : ok \in BOOLEAN}
<1>1. oks \in Seq(BOOLEAN)
  <2>1. CASE oks = << >>
    BY <2>1
  <2>2. CASE oks = <<TRUE>>
    BY <2>2
  <2>3. CASE oks = <<FALSE>>
    BY <2>3
  <2> QED
    BY <2>1, <2>2, <2>3
<1>2. new \in Seq(T)
  <2>1. DOMAIN oks = 1..Len(oks) /\ Len(oks) \in Nat /\ \A k \in DOMAIN oks : oks[k] \in BOOLEAN
    BY <1>1
  <2>2. \A k \in DOMAIN oks : new[k] \in T
    BY <2>1
  <2>3. new \in [1..Len(oks) -> T]
    BY <2>1, <2>2
  <2> HIDE DEF new, T
  <2> QED
    BY <2>1, <2>3, SeqDef
<1>3. \A k \in DOMAIN new : new[k].value \in {value, Unknown}
  BY DEF Answer
<1>4. PICK S : toClient \in Seq(S)
  BY MessagesAre
<1>5. toClient' = toClient \o new
  BY DEF Adds
<1> HIDE DEF new, T
<1> QED
  BY <1>2, <1>3, <1>4, <1>5, MoreIs DEF Keeps

LEMMA OneAdded ==
    ASSUME IInv, NEW x, x.value \in {value, Unknown}, toClient' = Append(toClient, x)
    PROVE  Keeps(toClient, toClient', value)
<1>1. PICK S : toClient \in Seq(S)
  BY MessagesAre
<1> QED
  BY <1>1, OneMoreIs

LEMMA ServerCache ==
    ASSUME IInv, CacheInv, ServerReceives
    PROVE  CacheInv'
<1> DEFINE i == Head(toServer)
<1>1. toServer # << >> /\ toServer' = Tail(toServer) /\ UNCHANGED <<cache, ready>>
  BY DEF ServerReceives
<1>2. i \in Id
  BY <1>1, Taken DEF IInv
<1>3. ChangesOutstanding
  BY DEF CacheInv
<1> HIDE DEF i
<1>4. ASSUME NEW oks \in {<<TRUE>>, <<FALSE>>, << >>}, NEW v, Answers(i, oks, v)
      PROVE  \E k : Served(i, k)
  <2>1. calls' = [calls EXCEPT ![i].answers = @ + Len(oks)] /\ Len(oks) \in Nat
    <3>1. oks \in Seq(BOOLEAN)
      <4>1. CASE oks = << >>
        BY <4>1
      <4>2. CASE oks = <<TRUE>>
        BY <4>2
      <4>3. CASE oks = <<FALSE>>
        BY <4>3
      <4> QED
        BY <4>1, <4>2, <4>3
    <3> QED
      BY <1>4, <3>1 DEF Answers
  <2> QED
    BY <1>2, <2>1, ServedIs DEF IInv
<1>5. ASSUME NEW oks \in {<<TRUE>>, <<FALSE>>, << >>}, NEW v \in {value, Unknown},
             Answers(i, oks, v), calls[i].kind # "set",
             UNCHANGED <<value, outstanding, idle_source>>
      PROVE  CacheInv'
  <2>1. PICK k : Served(i, k)
    BY <1>4, <1>5
  <2>2. Keeps(toClient, toClient', value)
    <3>1. Adds(i, oks, v)
      BY <1>5 DEF Answers, Adds
    <3> QED
      BY <1>5, <3>1, OneAnswer
  <2> QED
    BY <1>1, <1>2, <1>3, <1>5, <2>1, <2>2, ServesCache DEF ChangesOutstanding, i
<1>6. CASE /\ calls[i].kind = "init" /\ Answers(i, <<TRUE>>, value)
           /\ UNCHANGED <<value, outstanding, idle_source>>
  <2>1. calls[i].kind # "set"
    BY <1>6
  <2> QED
    BY <1>5, <1>6, <2>1
<1>7. CASE /\ calls[i].kind \in {"method", "sync"} /\ method_call(i)
           /\ UNCHANGED <<value, outstanding, idle_source>>
  <2>0. calls[i].kind # "set"
    BY <1>7
  <2>1. ASSUME NEW o \in Outcomes, Answers(i, _handleMethodCall(o), Unknown)
        PROVE  CacheInv'
    <3>1. _handleMethodCall(o) \in {<<TRUE>>, <<FALSE>>, << >>}
      BY DEF _handleMethodCall, Outcomes
    <3> QED
      BY <1>5, <1>7, <2>0, <2>1, <3>1
  <2>2. CASE UNCHANGED <<calls, toClient>>
    <3>1. Served(i, 0)
      <4>1. \A j \in Id : IsCall(calls[j])
        BY CallsAre DEF IInv
      <4> QED
        BY <2>2, <4>1 DEF IInv, CallsInv, CallsTypeOK, Served, IsCall, SameRequest
    <3> QED
      BY <1>1, <1>2, <1>3, <1>7, <2>0, <2>2, <3>1, ServesCache DEF ChangesOutstanding, Keeps, i
  <2> QED
    BY <1>7, <2>1, <2>2 DEF method_call
<1>8. CASE calls[i].kind = "set" /\ property_set(i)
  <2>1. CASE value' = calls[i].value /\ emit_property_changed(calls[i].value)
             /\ Answers(i, <<TRUE>>, Unknown)
    <3>1. PICK k : Served(i, k)
      BY <1>4, <2>1
    <3>2. outstanding' = value' /\ value' # None
      BY <1>2, <1>8, <2>1, DBusAssumption
         DEF emit_property_changed, Queued, CacheInv, CacheTypeOK
    <3> QED
      BY <1>1, <1>2, <3>1, <3>2, ServesCache DEF i
  <2>2. CASE /\ toClient' = Append(toClient, Answer(i, TRUE, Unknown))
             /\ calls' = [calls EXCEPT ![i].answers = @ + 1, ![i].refused = TRUE]
             /\ UNCHANGED <<value, outstanding, idle_id, idle_source>>
    <3>1. Served(i, 1)
      BY <1>2, <2>2, ServedIs DEF IInv
    <3>2. calls'[i].refused
      <4>1. DOMAIN calls = Id /\ IsCall(calls[i])
        BY <1>2, CallsAre DEF IInv
      <4> DEFINE a == [calls[i] EXCEPT !.answers = @ + 1]
                 b == [a EXCEPT !.refused = TRUE]
      <4>2. calls'[i] = b
        BY <1>2, <2>2, <4>1
      <4>3. a = [x \in Fields |-> IF x = "answers" THEN calls[i].answers + 1 ELSE calls[i][x]]
        BY <4>1 DEF IsCall
      <4> HIDE DEF a
      <4>4. b.refused = TRUE
        BY <4>3 DEF Fields
      <4> QED
        BY <4>2, <4>4
    <3>4. Answer(i, TRUE, Unknown).value \in {value, Unknown}
      BY DEF Answer
    <3>5. Keeps(toClient, toClient', value)
      <4> DEFINE x == Answer(i, TRUE, Unknown)
      <4>1. toClient' = Append(toClient, x)
        BY <2>2
      <4>2. x.value \in {value, Unknown}
        BY <3>4
      <4> HIDE DEF x
      <4> QED
        BY ONLY IInv, <4>1, <4>2, OneAdded
    <3> QED
      BY <1>1, <1>2, <1>3, <2>2, <3>1, <3>2, <3>5, ServesCache DEF ChangesOutstanding, i
  <2> QED
    BY <1>8, <2>1, <2>2 DEF property_set
<1> QED
  BY <1>6, <1>7, <1>8 DEF ServerReceives, i

LEMMA AsyncCache ==
    ASSUME IInv, CacheInv, NEW i, NEW ok \in BOOLEAN, AsyncAnswers(i, ok)
    PROVE  CacheInv'
<1>1. /\ i \in held /\ Answers(i, <<ok>>, Unknown)
      /\ UNCHANGED <<toServer, cache, ready, value, outstanding, idle_source>>
  BY DEF AsyncAnswers
<1>2. i \in Id
  BY <1>1 DEF IInv, CallsInv, Delivered
<1>3. RequestsStay
  <2>1. <<ok>> \in Seq(BOOLEAN)
    OBVIOUS
  <2>2. \E k : Served(i, k)
    BY <1>1, <1>2, <2>1, AnswersAre DEF IInv
  <2> QED
    BY <1>2, <2>2, Requests
<1>4. ready # "no"
  BY <1>2 DEF CacheInv, CacheTypeOK, Id
<1>5. Keeps(toClient, toClient', value)
  <2> DEFINE oks == <<ok>>
  <2>1. oks \in {<<TRUE>>, <<FALSE>>, << >>} /\ Adds(i, oks, Unknown)
    BY <1>1 DEF Answers, Adds
  <2> HIDE DEF oks
  <2> QED
    BY <2>1, OneAnswer
<1>6. CacheTypeOK'
  BY <1>1, <1>3, <1>4, SetsStay DEF CacheInv, CacheTypeOK
<1>7. CacheExplained'
  BY <1>1, <1>3, <1>5, OwnStays DEF CacheInv, CacheExplained, Keeps
<1> QED
  BY <1>1, <1>6, <1>7 DEF CacheInv, ChangesOutstanding

LEMMA ChangesCache ==
    ASSUME CacheInv, NEW v \in Values, NEW announced \in {v, Unknown}, ServiceChanges(v, announced)
    PROVE  CacheInv'
<1>1. /\ value' = v /\ outstanding' = announced /\ UNCHANGED <<calls, cache, ready, toServer, toClient>>
  BY DEF ServiceChanges, emit_property_changed, Queued, client
<1>2. outstanding' # None
  BY <1>1, DBusAssumption
<1>3. CacheTypeOK'
  BY <1>1 DEF CacheInv, CacheTypeOK, Id
<1> QED
  BY <1>1, <1>2, <1>3 DEF CacheInv, ChangesOutstanding, CacheExplained

LEMMA FlushCache ==
    ASSUME IInv, CacheInv, flush
    PROVE  CacheInv'
<1>1. /\ UNCHANGED <<calls, cache, ready, toServer, value>>
      /\ idle_source /\ idle_source' = FALSE /\ outstanding' = None
      /\ toClient' = IF ready = "no" THEN toClient ELSE Append(toClient, Changed(outstanding))
  BY DEF flush, client
<1>2. outstanding \in {value, Unknown}
  BY <1>1 DEF CacheInv, ChangesOutstanding
<1>3. CacheTypeOK'
  BY <1>1 DEF CacheInv, CacheTypeOK, Id
<1>4. CASE ready = "no"
  <2>1. DOMAIN toClient' = {}
    BY <1>1, <1>4 DEF CacheInv, CacheTypeOK
  <2> QED
    BY <1>1, <1>3, <1>4, <2>1 DEF CacheInv, ChangesOutstanding, CacheExplained, Newest
<1>5. CASE ready # "no"
  <2>1. PICK S : toClient \in Seq(S)
    BY MessagesAre
  <2>2. Changed(outstanding).type = "changed" /\ Changed(outstanding).value \in {value, Unknown}
    BY <1>2 DEF Changed
  <2>3. toClient' = Append(toClient, Changed(outstanding))
    BY <1>1, <1>5
  <2>4. Newest(toClient', value) /\ HasChange(toClient')
    BY <2>1, <2>2, <2>3, OneMoreIs
  <2> QED
    BY <1>1, <1>3, <2>4 DEF CacheInv, ChangesOutstanding, CacheExplained
<1> QED
  BY <1>4, <1>5

LEMMA NextCacheInv == IInv /\ CacheInv /\ [Next]_vars => CacheInv'
<1> SUFFICES ASSUME IInv, CacheInv, [Next]_vars PROVE CacheInv'
  OBVIOUS
<1>1. CASE \E n \in Names, sync \in BOOLEAN : _makeProxyWrapper(n, sync) \/ _proxyInvoker(n, sync)
  BY <1>1, ProgramCache
<1>2. CASE \E v \in Values : _propertySetter(v)
  BY <1>2, SetterCache
<1>3. CASE UNCHANGED <<client, toServer, toClient, service>>
  BY <1>3, TakesNothing DEF client, service
<1>4. CASE ClientReceives
  BY <1>4, ReceivesCache
<1>5. CASE \E i \in 1..MaxCalls : Timeout(i)
  BY <1>5, TimeoutCache
<1>6. CASE \E ok \in BOOLEAN : SyncReturns(ok)
  BY <1>6, SyncCache
<1>7. CASE ServerReceives
  BY <1>7, ServerCache
<1>8. CASE \E i \in 1..MaxCalls, ok \in BOOLEAN : AsyncAnswers(i, ok)
  BY <1>8, AsyncCache
<1>9. CASE \E v \in Values, a \in {TRUE, FALSE} : ServiceChanges(v, IF a THEN v ELSE Unknown)
  <2>1. PICK v \in Values : \E announced \in {v, Unknown} : ServiceChanges(v, announced)
    BY <1>9
  <2> QED
    BY <2>1, ChangesCache
<1>10. CASE flush
  BY <1>10, FlushCache
<1>11. CASE \E n \in Names : RunsLoop(n)
  BY <1>3, <1>11 DEF RunsLoop
<1>12. CASE LoopStep
  BY <1>3, <1>12 DEF LoopStep
<1>13. CASE UNCHANGED vars
  BY <1>3, <1>13 DEF vars, client, service
<1> QED
  BY <1>1, <1>2, <1>4, <1>5, <1>6, <1>7, <1>8, <1>9, <1>10, <1>11, <1>12, <1>13 DEF Next

(* Whatever is lost to timeouts, refused or overtaken, when nothing is on  *)
(* its way the proxy has what the service has: the present value of the    *)
(* property, or none, or what it wrote itself and the service refused.     *)
THEOREM CacheAlwaysAgrees == Spec => []CacheAgrees
<1>1. CacheInv => CacheAgrees
  <2> SUFFICES ASSUME CacheInv, Quiet, ready = "yes"
               PROVE  \/ cache \in {value, Unknown}
                      \/ \E i \in Id : calls[i].refused /\ cache = calls[i].value
    BY DEF CacheAgrees
  <2>1. DOMAIN toClient = {} /\ DOMAIN toServer = {} /\ outstanding = None
    BY DEF Quiet
  <2> QED
    BY <2>1 DEF CacheInv, CacheExplained, HasChange, OwnValue
<1> QED
  BY InitIInv, NextIInv, InitCacheInv, NextCacheInv, <1>1, PTL DEF Spec
=============================================================================

-------------------------- MODULE ToggleRef_proofs --------------------------
(* Safety of ToggleRef for any objects, any threads and any bound MaxHeld; *)
(* the references are counted for finitely many threads.                   *)
EXTENDS ToggleRef, FiniteSetTheorems, SequenceTheorems, TLAPS

(* Pushing a call on a thread's stack keeps it a stack of calls.           *)
LEMMA PushTyped ==
    ASSUME NEW f \in Frames, NEW rest \in Seq(Frames)
    PROVE  <<f>> \o rest \in Seq(Frames)
BY ConcatProperties, <<f>> \in Seq(Frames)

LEMMA FrameTyped ==
    ASSUME NEW o \in Objects, NEW d \in Directions,
           NEW c \in {"unref", "toggle_notify", "attach"}
    PROVE  Frame(c, o, d) \in Frames
BY DEF Frame, Frames

(* g_object_ref and g_object_unref leave a well-formed stack.              *)
LEMMA AfterTyped ==
    ASSUME NEW o \in Objects, NEW rest \in Seq(Frames)
    PROVE  /\ AfterRef(o, rest) \in Seq(Frames)
           /\ AfterUnref(o, rest) \in Seq(Frames)
<1>1. /\ Frame("toggle_notify", o, "UP") \in Frames
      /\ Frame("toggle_notify", o, "DOWN") \in Frames
  BY DEF Frame, Frames, Directions
<1> QED
  BY <1>1, PushTyped DEF AfterRef, AfterUnref

(* What is on top of a thread's stack, and what is left under it.          *)
LEMMA TopCall ==
    ASSUME TypeOK, NEW t \in Threads, stack[t] # <<>>
    PROVE  /\ Head(stack[t]).obj \in Objects
           /\ Head(stack[t]).dir \in Directions
           /\ Tail(stack[t]) \in Seq(Frames)
<1>1. stack[t] \in Seq(Frames)
  BY DEF TypeOK
<1>2. Head(stack[t]) \in Frames /\ Tail(stack[t]) \in Seq(Frames)
  BY <1>1, HeadTailProperties
<1> QED
  BY <1>2 DEF Frames

-----------------------------------------------------------------------------
(* The four invariants hold together: pending stays a natural number only  *)
(* because it counts the queue, and the qdata's source exists only because *)
(* the queue is typed.                                                     *)
IInv == TypeOK /\ PendingCount /\ KeepAliveInSync /\ QdataSourceAlive

LEMMA InitIInv == Init => IInv
<1> SUFFICES ASSUME Init PROVE IInv
  OBVIOUS
<1>1. <<>> \in Seq(Operations) /\ <<>> \in Seq(Frames)
  OBVIOUS
<1>2. TypeOK
  <2>1. qdata \in [Objects -> [Directions -> BOOLEAN]]
    BY DEF Init, gwkjs_keep_alive_create, gwkjs_keep_alive_new
  <2>2. held \in [Threads -> [Objects -> Nat]]
    BY DEF Init, gwkjs_keep_alive_create, gwkjs_keep_alive_new
  <2>3. stack \in [Threads -> Seq(Frames)]
    BY <1>1 DEF Init
  <2>4. /\ refs \in [Objects -> Int]
        /\ toggleRef \in [Objects -> BOOLEAN]
        /\ wrapper \in [Objects -> {"none", "live", "collected"}]
        /\ keepAlive \in [Objects -> BOOLEAN]
    BY DEF Init, gwkjs_keep_alive_create, gwkjs_keep_alive_new
  <2>5. /\ jsHeld \in SUBSET Objects /\ children \in SUBSET Objects
        /\ queue \in Seq(Operations) /\ pending \in Nat
        /\ dispatching \in BOOLEAN /\ crashed \in BOOLEAN
    BY <1>1 DEF Init, gwkjs_keep_alive_create, gwkjs_keep_alive_new
  <2> QED
    BY <2>1, <2>2, <2>3, <2>4, <2>5 DEF TypeOK
<1>3. PendingCount
  BY DEF Init, PendingCount
<1>4. KeepAliveInSync /\ QdataSourceAlive
  BY DEF Init, gwkjs_keep_alive_create, gwkjs_keep_alive_new, KeepAliveInSync, QdataSourceAlive
<1> QED
  BY <1>2, <1>3, <1>4 DEF IInv

(* Types.                                                                  *)
LEMMA TypeStep ==
    ASSUME TypeOK, PendingCount, [Next]_vars, ToggleRefAssumption
    PROVE  TypeOK'
<1> USE ToggleRefAssumption DEF ToggleRefAssumption, TypeOK
<1>1. ASSUME NEW t \in Threads, NEW o \in Objects, NewInC(t, o)
      PROVE  TypeOK'
  <2>1. refs' \in [Objects -> Int]
    BY <1>1 DEF NewInC
  <2>2. held' \in [Threads -> [Objects -> Nat]]
    BY <1>1 DEF NewInC
  <2> QED
    BY <1>1, <2>1, <2>2 DEF NewInC, js, alive, loop
<1>2. ASSUME NEW t \in Threads, NEW o \in Objects, Ref(t, o)
      PROVE  TypeOK'
  <2>1. refs' \in [Objects -> Int]
    BY <1>2 DEF Ref
  <2>2. held' \in [Threads -> [Objects -> Nat]]
    BY <1>2 DEF Ref
  <2>3. AfterRef(o, <<>>) \in Seq(Frames)
    BY AfterTyped, <<>> \in Seq(Frames)
  <2>4. stack' \in [Threads -> Seq(Frames)]
    BY <1>2, <2>3 DEF Ref
  <2> QED
    BY <1>2, <2>1, <2>2, <2>4 DEF Ref, js, alive, loop
<1>3. ASSUME NEW t \in Threads, NEW o \in Objects, Unref(t, o)
      PROVE  TypeOK'
  <2>1. refs' \in [Objects -> Int]
    BY <1>3 DEF Unref
  <2>2. held' \in [Threads -> [Objects -> Nat]]
    BY <1>3 DEF Unref
  <2>3. AfterUnref(o, <<>>) \in Seq(Frames)
    BY AfterTyped, <<>> \in Seq(Frames)
  <2>4. stack' \in [Threads -> Seq(Frames)]
    BY <1>3, <2>3 DEF Unref
  <2> QED
    BY <1>3, <2>1, <2>2, <2>4 DEF Unref, js, alive, loop
<1>4. ASSUME NEW t \in Threads, UnrefCall(t)
      PROVE  TypeOK'
  <2> DEFINE o == Head(stack[t]).obj
  <2>1. o \in Objects /\ Tail(stack[t]) \in Seq(Frames)
    BY <1>4, TopCall DEF UnrefCall
  <2>2. AfterUnref(o, Tail(stack[t])) \in Seq(Frames)
    BY <2>1, AfterTyped
  <2> QED
    BY <1>4, <2>1, <2>2 DEF UnrefCall, js, alive, loop
<1>5. ASSUME NEW t \in Threads, wrapped_gobj_toggle_notify(t)
      PROVE  TypeOK'
  <2> DEFINE o == Head(stack[t]).obj
             d == Head(stack[t]).dir
             rest == <<Frame("attach", o, d)>> \o Tail(stack[t])
  <2>1. o \in Objects /\ d \in Directions /\ Tail(stack[t]) \in Seq(Frames)
    BY <1>5, TopCall DEF wrapped_gobj_toggle_notify
  <2>2. rest \in Seq(Frames)
    BY <2>1, FrameTyped, PushTyped
  <2>3. AfterRef(o, rest) \in Seq(Frames)
    BY <2>1, <2>2, AfterTyped
  <2>4. stack' \in [Threads -> Seq(Frames)]
    BY <1>5, <2>2, <2>3 DEF wrapped_gobj_toggle_notify
  <2>5. refs' \in [Objects -> Int]
    BY <1>5, <2>1 DEF wrapped_gobj_toggle_notify
  <2> QED
    BY <1>5, <2>4, <2>5 DEF wrapped_gobj_toggle_notify, js, alive, loop
<1>6. ASSUME NEW t \in Threads, queue_toggle_idle(t)
      PROVE  TypeOK'
  <2> DEFINE o == Head(stack[t]).obj
             d == Head(stack[t]).dir
  <2>1. o \in Objects /\ d \in Directions /\ Tail(stack[t]) \in Seq(Frames)
    BY <1>6, TopCall DEF queue_toggle_idle
  <2>2. queue' \in Seq(Operations)
    BY <1>6, <2>1 DEF queue_toggle_idle, Operations
  <2> QED
    BY <1>6, <2>1, <2>2 DEF queue_toggle_idle, gobject, js, alive
<1>7. ASSUME NEW o \in Objects, NEW kept \in 0..1, object_instance_init(o, kept)
      PROVE  TypeOK'
  BY <1>7, FrameTyped, "DOWN" \in Directions
     DEF object_instance_init, associate_js_gobject, gwkjs_keep_alive_add_child, loop, Directions
<1>8. ASSUME NEW o \in Objects, object_instance_init_singleton(o)
      PROVE  TypeOK'
  <2>1. <<Frame("unref", o, "DOWN")>> \in Seq(Frames)
    BY FrameTyped DEF Directions
  <2>2. stack' \in [Threads -> Seq(Frames)]
    BY <1>8, <2>1, AfterTyped DEF object_instance_init_singleton
  <2>3. refs' \in [Objects -> Int] /\ jsHeld' \in SUBSET Objects
    BY <1>8 DEF object_instance_init_singleton
  <2> QED
    BY <1>8, <2>2, <2>3 DEF object_instance_init_singleton, alive, loop
<1>9. ASSUME NEW o \in Objects, gwkjs_object_from_g_object(o)
      PROVE  TypeOK'
  <2>1. <<Frame("unref", o, "DOWN")>> \in Seq(Frames)
    BY FrameTyped DEF Directions
  <2>2. CASE wrapper[o] = "none"
    <3>1. /\ stack' \in [Threads -> Seq(Frames)]
          /\ UNCHANGED <<held, loop, crashed>>
      BY <1>9, <2>1, <2>2 DEF gwkjs_object_from_g_object
    <3>2. associate_js_gobject(o, refs[o] + 2)
      BY <1>9, <2>2 DEF gwkjs_object_from_g_object
    <3> QED
      BY <3>1, <3>2 DEF associate_js_gobject, gwkjs_keep_alive_add_child, loop
  <2>3. CASE wrapper[o] # "none"
    BY <1>9, <2>3 DEF gwkjs_object_from_g_object, gobject, alive, loop
  <2> QED
    BY <2>2, <2>3
<1>10. ASSUME idle_handle_toggle
       PROVE  TypeOK'
  <2> DEFINE op == Head(queue)
  <2>1. op \in Operations /\ Tail(queue) \in Seq(Operations)
    BY <1>10 DEF idle_handle_toggle
  <2>2. op.obj \in Objects /\ op.dir \in Directions
    BY <2>1 DEF Operations
  <2>3. keepAlive' \in [Objects -> BOOLEAN] /\ children' \in SUBSET Objects
    BY <1>10, <2>2 DEF idle_handle_toggle, handle_toggle_up, handle_toggle_down,
         gwkjs_keep_alive_add_child, gwkjs_keep_alive_remove_child, alive
  <2>4. stack' \in [Threads -> Seq(Frames)]
    BY <1>10, <2>2, FrameTyped DEF idle_handle_toggle, needs_unref, Directions
  <2>5. crashed' \in BOOLEAN
    BY <1>10 DEF idle_handle_toggle
  <2> QED
    BY <1>10, <2>1, <2>2, <2>3, <2>4, <2>5 DEF idle_handle_toggle, clear_toggle_idle_source, gobject, js
<1>11. ASSUME toggle_ref_notify_operation_free
       PROVE  TypeOK'
  <2>1. pending - 1 \in Nat
    BY <1>11 DEF toggle_ref_notify_operation_free, PendingCount
  <2> QED
    BY <1>11, <2>1 DEF toggle_ref_notify_operation_free, gobject, js, alive
<1>12. ASSUME NEW o \in Objects, JSDrop(o) \/ object_instance_finalize(o)
       PROVE  TypeOK'
  BY <1>12 DEF JSDrop, object_instance_finalize, gobject, alive, loop
<1>13. ASSUME UNCHANGED vars
       PROVE  TypeOK'
  BY <1>13 DEF vars, gobject, js, alive, loop
<1> QED
  BY <1>1, <1>2, <1>3, <1>4, <1>5, <1>6, <1>7, <1>8, <1>9, <1>10, <1>11, <1>12, <1>13
     DEF Next, Library, Calls, JavaScript

(* Only queue_toggle_idle, idle_handle_toggle and the destroy notification *)
(* touch the queue or the counter.                                         *)
LEMMA PendingStep ==
    ASSUME TypeOK, PendingCount, [Next]_vars
    PROVE  PendingCount'
<1>1. CASE UNCHANGED loop
  BY <1>1 DEF PendingCount, loop
<1>2. ASSUME NEW t \in Threads, queue_toggle_idle(t)
      PROVE  PendingCount'
  <2>1. \E op : queue' = Append(queue, op)
    BY <1>2 DEF queue_toggle_idle
  <2>2. Len(queue') = Len(queue) + 1
    BY <2>1 DEF TypeOK
  <2> QED
    BY <1>2, <2>2 DEF queue_toggle_idle, PendingCount, TypeOK
<1>3. CASE idle_handle_toggle
  <2>1. Len(queue') = Len(queue) - 1
    BY <1>3, HeadTailProperties DEF idle_handle_toggle, TypeOK
  <2>2. ~dispatching /\ dispatching' /\ pending' = pending
    BY <1>3 DEF idle_handle_toggle, Idle
  <2>3. Len(queue) \in Nat
    BY DEF TypeOK
  <2> QED
    BY <2>1, <2>2, <2>3 DEF PendingCount, TypeOK
<1>4. CASE toggle_ref_notify_operation_free
  <2>1. Len(queue) \in Nat
    BY DEF TypeOK
  <2> QED
    BY <1>4, <2>1 DEF toggle_ref_notify_operation_free, PendingCount, TypeOK
<1> QED
  <2>1. ASSUME NEW t \in Threads, Library(t)
        PROVE  UNCHANGED loop
    BY <2>1 DEF Library, NewInC, Ref, Unref
  <2>2. ASSUME NEW t \in Threads, UnrefCall(t) \/ wrapped_gobj_toggle_notify(t)
        PROVE  UNCHANGED loop
    BY <2>2 DEF UnrefCall, wrapped_gobj_toggle_notify
  <2>3. JavaScript => UNCHANGED loop
    BY DEF JavaScript, object_instance_init, object_instance_init_singleton,
           gwkjs_object_from_g_object, JSDrop, object_instance_finalize
  <2> QED
    BY <1>1, <1>2, <1>3, <1>4, <2>1, <2>2, <2>3 DEF Next, Calls, vars

(* priv->keep_alive and the hash table change together: in associating a   *)
(* wrapper and in the two handlers of the idle operation.                  *)
LEMMA SyncStep ==
    ASSUME TypeOK, KeepAliveInSync, [Next]_vars
    PROVE  KeepAliveInSync'
<1>1. CASE UNCHANGED alive
  BY <1>1 DEF KeepAliveInSync, alive
<1>2. ASSUME NEW o \in Objects,
             /\ keepAlive' = [keepAlive EXCEPT ![o] = TRUE]
             /\ gwkjs_keep_alive_add_child(o)
      PROVE  KeepAliveInSync'
  BY <1>2 DEF KeepAliveInSync, gwkjs_keep_alive_add_child, TypeOK
<1>3. ASSUME NEW o \in Objects,
             /\ keepAlive' = [keepAlive EXCEPT ![o] = FALSE]
             /\ gwkjs_keep_alive_remove_child(o)
      PROVE  KeepAliveInSync'
  BY <1>3 DEF KeepAliveInSync, gwkjs_keep_alive_remove_child, TypeOK
<1>4. CASE JavaScript
  <2>1. PICK o \in Objects :
            \/ \E kept \in 0..1 : object_instance_init(o, kept)
            \/ object_instance_init_singleton(o)
            \/ gwkjs_object_from_g_object(o)
            \/ JSDrop(o)
            \/ object_instance_finalize(o)
    BY <1>4 DEF JavaScript
  <2>2. \/ UNCHANGED alive
        \/ \E n : associate_js_gobject(o, n)
    BY <2>1 DEF object_instance_init, object_instance_init_singleton,
                gwkjs_object_from_g_object, JSDrop, object_instance_finalize
  <2> QED
    BY <1>1, <1>2, <2>2 DEF associate_js_gobject
<1>5. CASE idle_handle_toggle
  <2> DEFINE o == Head(queue).obj
  <2>1. o \in Objects
    <3>1. queue \in Seq(Operations) /\ queue # <<>>
      BY <1>5 DEF idle_handle_toggle, TypeOK
    <3>2. Head(queue) \in Operations
      BY <3>1, HeadTailProperties
    <3> QED
      BY <3>2 DEF Operations
  <2>2. handle_toggle_up(o) \/ handle_toggle_down(o) \/ UNCHANGED alive
    BY <1>5 DEF idle_handle_toggle
  <2> HIDE DEF o
  <2> QED
    BY <1>1, <1>2, <1>3, <2>1, <2>2 DEF handle_toggle_up, handle_toggle_down
<1> QED
  <2>1. ASSUME NEW t \in Threads, Library(t) \/ Calls(t)
        PROVE  UNCHANGED alive
    <3>1. CASE Library(t)
      BY <3>1 DEF Library, NewInC, Ref, Unref
    <3>2. CASE Calls(t)
      BY <3>2 DEF Calls, UnrefCall, wrapped_gobj_toggle_notify, queue_toggle_idle
    <3> QED
      BY <2>1, <3>1, <3>2
  <2>2. toggle_ref_notify_operation_free => UNCHANGED alive
    BY DEF toggle_ref_notify_operation_free
  <2> QED
    BY <1>1, <1>4, <1>5, <2>1, <2>2 DEF Next, vars

(* A source leaves the queue only in idle_handle_toggle, which first       *)
(* clears that object's qdata for that direction.                          *)
LEMMA QdataStep ==
    ASSUME TypeOK, QdataSourceAlive, [Next]_vars
    PROVE  QdataSourceAlive'
<1>1. CASE UNCHANGED <<qdata, queue>>
  BY <1>1 DEF QdataSourceAlive
<1>2. ASSUME NEW t \in Threads, queue_toggle_idle(t)
      PROVE  QdataSourceAlive'
  <2> DEFINE op == [obj |-> Head(stack[t]).obj, dir |-> Head(stack[t]).dir]
  <2>1. op \in Operations
    BY <1>2, TopCall DEF queue_toggle_idle, Operations
  <2>2. queue' = Append(queue, op) /\ qdata' = [qdata EXCEPT ![op.obj][op.dir] = TRUE]
    BY <1>2 DEF queue_toggle_idle
  <2>3. /\ Len(queue') = Len(queue) + 1
        /\ Len(queue) \in Nat
        /\ \A i \in 1..Len(queue) : queue'[i] = queue[i]
        /\ queue'[Len(queue) + 1] = op
    BY <2>1, <2>2, AppendProperties DEF TypeOK
  <2> SUFFICES ASSUME NEW o \in Objects, NEW d \in Directions, qdata'[o][d]
               PROVE  \E i \in 1..Len(queue') : queue'[i] = [obj |-> o, dir |-> d]
    BY DEF QdataSourceAlive
  <2>4. CASE op = [obj |-> o, dir |-> d]
    BY <2>3, <2>4
  <2>5. CASE op # [obj |-> o, dir |-> d]
    <3>1. o # op.obj \/ d # op.dir
      BY <2>5
    <3>2. qdata[o][d]
      BY <2>1, <2>2, <3>1 DEF TypeOK, Operations
    <3>3. PICK i \in 1..Len(queue) : queue[i] = [obj |-> o, dir |-> d]
      BY <3>2 DEF QdataSourceAlive
    <3> QED
      BY <2>3, <3>3
  <2> QED
    BY <2>4, <2>5
<1>3. CASE idle_handle_toggle
  <2> DEFINE op == Head(queue)
  <2>1. queue # <<>> /\ queue' = Tail(queue) /\ qdata' = [qdata EXCEPT ![op.obj][op.dir] = FALSE]
    BY <1>3 DEF idle_handle_toggle, clear_toggle_idle_source
  <2>2. /\ op \in Operations /\ op = queue[1]
        /\ Len(queue') = Len(queue) - 1
        /\ Len(queue) \in Nat
        /\ \A i \in 1..Len(queue') : queue'[i] = queue[i + 1]
    BY <2>1, HeadTailProperties DEF TypeOK
  <2> SUFFICES ASSUME NEW o \in Objects, NEW d \in Directions, qdata'[o][d]
               PROVE  \E i \in 1..Len(queue') : queue'[i] = [obj |-> o, dir |-> d]
    BY DEF QdataSourceAlive
  <2>3. op.obj \in Objects /\ op.dir \in Directions
    BY <2>2 DEF Operations
  <2>4. qdata[o][d] /\ ~(o = op.obj /\ d = op.dir)
    BY <2>1, <2>3 DEF TypeOK
  <2>5. PICK i \in 1..Len(queue) : queue[i] = [obj |-> o, dir |-> d]
    BY <2>4 DEF QdataSourceAlive
  <2>6. i # 1
    BY <2>2, <2>4, <2>5
  <2>7. i - 1 \in 1..Len(queue') /\ queue'[i - 1] = queue[i]
    BY <2>2, <2>5, <2>6
  <2> QED
    BY <2>5, <2>7
<1> QED
  <2>1. ASSUME NEW t \in Threads, Library(t)
        PROVE  UNCHANGED <<qdata, queue>>
    BY <2>1 DEF Library, NewInC, Ref, Unref, loop
  <2>2. ASSUME NEW t \in Threads, UnrefCall(t) \/ wrapped_gobj_toggle_notify(t)
        PROVE  UNCHANGED <<qdata, queue>>
    BY <2>2 DEF UnrefCall, wrapped_gobj_toggle_notify, loop
  <2>3. JavaScript => UNCHANGED <<qdata, queue>>
    BY DEF JavaScript, object_instance_init, object_instance_init_singleton,
           gwkjs_object_from_g_object, JSDrop, object_instance_finalize, loop
  <2>4. toggle_ref_notify_operation_free => UNCHANGED <<qdata, queue>>
    BY DEF toggle_ref_notify_operation_free
  <2> QED
    BY <1>1, <1>2, <1>3, <2>1, <2>2, <2>3, <2>4 DEF Next, Calls, vars, loop

-----------------------------------------------------------------------------
(* The inductive invariant, and the four facts it carries.                 *)
THEOREM IInvHolds == Spec => []IInv
<1>1. IInv /\ [Next]_vars => IInv'
  BY TypeStep, PendingStep, SyncStep, QdataStep, ToggleRefAssumption DEF IInv
<1> QED
  BY InitIInv, <1>1, PTL DEF Spec

(* The state of the machine is always well formed, for any threads.        *)
THEOREM TypeCorrect == Spec => []TypeOK
<1>1. IInv => TypeOK
  BY DEF IInv
<1> QED
  BY IInvHolds, <1>1, PTL

(* pending_idle_toggles is exactly what is attached or being freed.        *)
THEOREM PendingCorrect == Spec => []PendingCount
<1>1. IInv => PendingCount
  BY DEF IInv
<1> QED
  BY IInvHolds, <1>1, PTL

(* However threads interleave their notifications, priv->keep_alive and    *)
(* the keep-alive's hash table agree.                                      *)
THEOREM KeepAliveCorrect == Spec => []KeepAliveInSync
<1>1. IInv => KeepAliveInSync
  BY DEF IInv
<1> QED
  BY IInvHolds, <1>1, PTL

(* The qdata never holds a GSource the main loop has let go of.            *)
THEOREM QdataNeverDangles == Spec => []QdataSourceAlive
<1>1. IInv => QdataSourceAlive
  BY DEF IInv
<1> QED
  BY IInvHolds, <1>1, PTL

-----------------------------------------------------------------------------
(* No reference is lost or given back twice.                               *)

(* Sets of pairs: what one thread changes is all that changes.             *)
LEMMA PairsFinite ==
    ASSUME NEW sets, IsFiniteSet(DOMAIN sets), \A t \in DOMAIN sets : IsFiniteSet(sets[t])
    PROVE  IsFiniteSet(Pairs(sets)) /\ Cardinality(Pairs(sets)) \in Nat
<1> DEFINE row(t) == {t} \X sets[t]
           Rows == {row(t) : t \in DOMAIN sets}
<1> DEFINE f == [t \in DOMAIN sets |-> row(t)]
<1>1. IsFiniteSet(Rows)
  <2>1. f \in Surjection(DOMAIN sets, Rows)
    BY DEF Surjection
  <2> QED
    BY <2>1, FS_Surjection
<1>2. \A r \in Rows : IsFiniteSet(r)
  <2> SUFFICES ASSUME NEW t \in DOMAIN sets PROVE IsFiniteSet({t} \X sets[t])
    OBVIOUS
  <2>1. IsFiniteSet({t}) /\ IsFiniteSet(sets[t])
    BY FS_Singleton
  <2> QED
    BY <2>1, FS_Product
<1>3. IsFiniteSet(UNION Rows)
  BY <1>1, <1>2, FS_UNION
<1> QED
  BY <1>3, FS_CardinalityType DEF Pairs

LEMMA PairsSplit ==
    ASSUME NEW sets, IsFiniteSet(DOMAIN sets), \A t \in DOMAIN sets : IsFiniteSet(sets[t]),
           NEW t \in DOMAIN sets
    PROVE  LET others == [u \in DOMAIN sets \ {t} |-> sets[u]] IN
           /\ Cardinality(Pairs(sets)) = Cardinality(Pairs(others)) + Cardinality(sets[t])
           /\ Cardinality(Pairs(others)) \in Nat /\ Cardinality(sets[t]) \in Nat
<1> DEFINE others == [u \in DOMAIN sets \ {t} |-> sets[u]]
           row == {t} \X sets[t]
<1>1. IsFiniteSet(DOMAIN others) /\ \A u \in DOMAIN others : IsFiniteSet(others[u])
  BY FS_Subset
<1>2. IsFiniteSet(Pairs(others)) /\ Cardinality(Pairs(others)) \in Nat
  BY <1>1, PairsFinite
<1>3. IsFiniteSet(row) /\ Cardinality(row) = Cardinality(sets[t]) /\ Cardinality(sets[t]) \in Nat
  <2>1. Cardinality({t}) = 1 /\ IsFiniteSet({t})
    BY FS_Singleton
  <2>2. IsFiniteSet(sets[t]) /\ Cardinality(sets[t]) \in Nat
    BY FS_CardinalityType
  <2>3. IsFiniteSet(row) /\ Cardinality(row) = 1 * Cardinality(sets[t])
    BY <2>1, <2>2, FS_Product
  <2> QED
    BY <2>2, <2>3
<1>4. Pairs(sets) = Pairs(others) \union row
  BY DEF Pairs
<1>5. Pairs(others) \intersect row = {}
  BY DEF Pairs
<1> HIDE DEF others, row
<1>6. Cardinality(Pairs(sets)) = Cardinality(Pairs(others)) + Cardinality(row)
  <2>1. Cardinality(Pairs(others) \union row)
        = Cardinality(Pairs(others)) + Cardinality(row) - Cardinality(Pairs(others) \intersect row)
    BY <1>2, <1>3, FS_Union
  <2>2. Cardinality(Pairs(others) \intersect row) = 0
    BY <1>5, FS_EmptySet
  <2> QED
    BY <1>2, <1>3, <1>4, <2>1, <2>2
<1> QED
  BY <1>2, <1>3, <1>6 DEF others

(* How many references on o the calls of a stack give back.                *)
Back(s, o) == Cardinality(Gives(s, o))

LEMMA BackTyped ==
    ASSUME NEW s \in Seq(Frames), NEW o
    PROVE  IsFiniteSet(Gives(s, o)) /\ Back(s, o) \in Nat
<1>1. IsFiniteSet(1..Len(s))
  BY FS_Interval
<1> QED
  BY <1>1, FS_Subset, FS_CardinalityType DEF Gives, Back

LEMMA BackEmpty == \A o : Back(<< >>, o) = 0
<1>1. \A o : Gives(<< >>, o) = {}
  BY DEF Gives
<1> QED
  BY <1>1, FS_EmptySet DEF Back

LEMMA BackPushed ==
    ASSUME NEW s \in Seq(Frames), NEW f \in Frames, NEW o
    PROVE  Back(<<f>> \o s, o) = Back(s, o) + (IF GivesBack(f, o) THEN 1 ELSE 0)
<1> DEFINE p == <<f>> \o s  n == Len(s)
<1>1. /\ n \in Nat /\ Len(p) = n + 1 /\ p[1] = f
      /\ \A i \in 1..n : p[i + 1] = s[i]
  BY ConcatProperties, <<f>> \in Seq(Frames), Len(<<f>>) = 1
<1> HIDE DEF p, n
<1>2. \A i \in 1..n : n + 1 - i \in 1..n /\ p[n + 1 + 1 - i] = s[n + 1 - i]
  <2> TAKE i \in 1..n
  <2>1. n + 1 - i \in 1..n /\ n + 1 + 1 - i = (n + 1 - i) + 1
    BY <1>1
  <2> QED
    BY <1>1, <2>1
<1>3. /\ 1..n + 1 = 1..n \union {n + 1} /\ n + 1 \notin 1..n /\ n + 1 + 1 - (n + 1) = 1
  BY <1>1
<1>4. Gives(s, o) = {i \in 1..n : GivesBack(s[n + 1 - i], o)}
  BY DEF Gives, n
<1>5. Gives(p, o) = {i \in 1..n + 1 : GivesBack(p[n + 1 + 1 - i], o)}
  BY <1>1 DEF Gives
<1>6. Gives(p, o) = Gives(s, o) \union (IF GivesBack(f, o) THEN {n + 1} ELSE {})
  BY <1>1, <1>2, <1>3, <1>4, <1>5
<1>7. IsFiniteSet(Gives(s, o)) /\ Back(s, o) \in Nat
  BY BackTyped
<1>8. CASE GivesBack(f, o)
  <2>1. Gives(p, o) = Gives(s, o) \union {n + 1} /\ n + 1 \notin Gives(s, o)
    BY <1>3, <1>4, <1>6, <1>8
  <2>2. Cardinality(Gives(s, o) \union {n + 1}) = Cardinality(Gives(s, o)) + 1
    BY <1>7, <2>1, FS_AddElement
  <2> QED
    BY <1>8, <2>1, <2>2 DEF Back, p
<1>9. CASE ~GivesBack(f, o)
  <2>1. Gives(p, o) = Gives(s, o)
    BY <1>6, <1>9
  <2> QED
    BY <1>7, <1>9, <2>1 DEF Back, p
<1> QED
  BY <1>8, <1>9

LEMMA BackPopped ==
    ASSUME NEW s \in Seq(Frames), s # << >>, NEW o
    PROVE  /\ Head(s) \in Frames /\ Tail(s) \in Seq(Frames)
           /\ s = <<Head(s)>> \o Tail(s)
           /\ Back(s, o) = Back(Tail(s), o) + (IF GivesBack(Head(s), o) THEN 1 ELSE 0)
<1> DEFINE h == Head(s)  r == Tail(s)  p == <<h>> \o r
<1>1. /\ h \in Frames /\ r \in Seq(Frames) /\ h = s[1] /\ Len(s) \in Nat
      /\ Len(r) = Len(s) - 1 /\ \A i \in 1..Len(r) : r[i] = s[i + 1]
  BY HeadTailProperties
<1> HIDE DEF h, r
<1>2. p \in Seq(Frames) /\ Len(p) = Len(s) /\ p[1] = h /\ \A i \in 1..Len(r) : p[i + 1] = r[i]
  BY <1>1, ConcatProperties, <<h>> \in Seq(Frames), Len(<<h>>) = 1
<1>3. \A i \in 1..Len(s) : p[i] = s[i]
  <2> TAKE i \in 1..Len(s)
  <2>1. CASE i = 1
    BY <1>1, <1>2, <2>1
  <2>2. CASE i # 1
    <3>1. i - 1 \in 1..Len(r) /\ (i - 1) + 1 = i
      BY <1>1, <2>2
    <3> QED
      BY <1>1, <1>2, <3>1
  <2> QED
    BY <2>1, <2>2
<1>4. p = s
  BY <1>2, <1>3, SeqEqual
<1>5. Back(p, o) = Back(r, o) + (IF GivesBack(h, o) THEN 1 ELSE 0)
  BY <1>1, BackPushed
<1> QED
  BY <1>1, <1>4, <1>5 DEF h, r

-----------------------------------------------------------------------------
(* The references on o that t owns, and the others that threads own.       *)
Of(t, o)     == held[t][o] + Back(stack[t], o)
HeldBy(T, h, o)   == Cardinality(Pairs([u \in T |-> 1..h[u][o]]))
CallsOf(T, s, o)  == Cardinality(Pairs([u \in T |-> Gives(s[u], o)]))
Others(t, o) == HeldBy(Threads \ {t}, held, o) + CallsOf(Threads \ {t}, stack, o)
Root(o)      == IF toggleRef[o] THEN 1 ELSE 0
Queued(o)    == Cardinality(QueuedRefs(o))

(* For any held and stack: a lemma about states would not reach the next.  *)
LEMMA OwnersSplit ==
    ASSUME NEW h \in [Threads -> [Objects -> Nat]], NEW s \in [Threads -> Seq(Frames)],
           NEW t \in Threads, NEW o \in Objects
    PROVE  /\ HeldBy(Threads, h, o) = HeldBy(Threads \ {t}, h, o) + h[t][o]
           /\ CallsOf(Threads, s, o) = CallsOf(Threads \ {t}, s, o) + Back(s[t], o)
           /\ HeldBy(Threads, h, o) \in Nat /\ HeldBy(Threads \ {t}, h, o) \in Nat
           /\ CallsOf(Threads, s, o) \in Nat /\ CallsOf(Threads \ {t}, s, o) \in Nat
           /\ h[t][o] \in Nat /\ Back(s[t], o) \in Nat
<1> DEFINE hs == [u \in Threads |-> 1..h[u][o]]
           cs == [u \in Threads |-> Gives(s[u], o)]
<1>1. \A u \in Threads : h[u][o] \in Nat /\ s[u] \in Seq(Frames)
  OBVIOUS
<1>2. IsFiniteSet(Threads)
  BY ToggleRefAssumption DEF ToggleRefAssumption
<1>3. \A u \in Threads : IsFiniteSet(1..h[u][o])
  BY <1>1, FS_Interval
<1>4. Cardinality(1..h[t][o]) = h[t][o]
  BY <1>1, FS_Interval
<1>5. \A u \in Threads : IsFiniteSet(Gives(s[u], o))
  BY <1>1, BackTyped
<1>6. /\ Cardinality(Pairs(hs)) = Cardinality(Pairs([u \in Threads \ {t} |-> hs[u]])) + Cardinality(hs[t])
      /\ Cardinality(Pairs([u \in Threads \ {t} |-> hs[u]])) \in Nat
  <2>1. DOMAIN hs = Threads /\ \A u \in DOMAIN hs : IsFiniteSet(hs[u])
    BY <1>3
  <2> HIDE DEF hs
  <2> QED
    BY <1>2, <2>1, PairsSplit
<1>7. /\ Cardinality(Pairs(cs)) = Cardinality(Pairs([u \in Threads \ {t} |-> cs[u]])) + Cardinality(cs[t])
      /\ Cardinality(Pairs([u \in Threads \ {t} |-> cs[u]])) \in Nat
  <2>1. DOMAIN cs = Threads /\ \A u \in DOMAIN cs : IsFiniteSet(cs[u])
    BY <1>5
  <2> HIDE DEF cs
  <2> QED
    BY <1>2, <2>1, PairsSplit
<1>8. /\ [u \in Threads \ {t} |-> hs[u]] = [u \in Threads \ {t} |-> 1..h[u][o]]
      /\ [u \in Threads \ {t} |-> cs[u]] = [u \in Threads \ {t} |-> Gives(s[u], o)]
  OBVIOUS
<1>9. Cardinality(hs[t]) = h[t][o] /\ Cardinality(cs[t]) = Back(s[t], o)
  BY <1>4 DEF Back
<1>10. h[t][o] \in Nat /\ Back(s[t], o) \in Nat
  BY <1>1, BackTyped
<1>11. /\ HeldBy(Threads, h, o) = Cardinality(Pairs(hs))
       /\ CallsOf(Threads, s, o) = Cardinality(Pairs(cs))
       /\ HeldBy(Threads \ {t}, h, o) = Cardinality(Pairs([u \in Threads \ {t} |-> hs[u]]))
       /\ CallsOf(Threads \ {t}, s, o) = Cardinality(Pairs([u \in Threads \ {t} |-> cs[u]]))
  BY <1>8 DEF HeldBy, CallsOf
<1> HIDE DEF hs, cs
<1> QED
  BY <1>6, <1>7, <1>9, <1>10, <1>11

LEMMA QueuedTyped ==
    ASSUME NEW q \in Seq(Operations), NEW up
    PROVE  LET ups == {i \in 1..Len(q) : q[i] = up}
           IN IsFiniteSet(ups) /\ Cardinality(ups) \in Nat
<1>1. IsFiniteSet(1..Len(q))
  BY FS_Interval
<1> QED
  BY <1>1, FS_Subset, FS_CardinalityType

LEMMA QueuedAppended ==
    ASSUME TypeOK, NEW op \in Operations, queue' = Append(queue, op), NEW o \in Objects
    PROVE  Queued(o)' = Queued(o) + (IF op = [obj |-> o, dir |-> "UP"] THEN 1 ELSE 0)
<1> DEFINE n == Len(queue)
<1>1. /\ n \in Nat /\ Len(queue') = n + 1 /\ queue'[n + 1] = op
      /\ \A i \in 1..n : queue'[i] = queue[i]
  BY AppendProperties DEF TypeOK
<1>2. QueuedRefs(o) = {i \in 1..n : queue[i] = [obj |-> o, dir |-> "UP"]}
  BY DEF QueuedRefs
<1> HIDE DEF n
<1>3. QueuedRefs(o)' = {i \in 1..n + 1 : queue'[i] = [obj |-> o, dir |-> "UP"]}
  BY <1>1 DEF QueuedRefs
<1>4. 1..n + 1 = 1..n \union {n + 1} /\ n + 1 \notin 1..n
  BY <1>1
<1>5. QueuedRefs(o)' = QueuedRefs(o) \union (IF op = [obj |-> o, dir |-> "UP"] THEN {n + 1} ELSE {})
  BY <1>1, <1>2, <1>3, <1>4
<1>6. IsFiniteSet(QueuedRefs(o)) /\ Queued(o) \in Nat /\ n + 1 \notin QueuedRefs(o)
  BY <1>2, <1>4, QueuedTyped DEF QueuedRefs, Queued, TypeOK
<1>7. Cardinality(QueuedRefs(o) \union {n + 1}) = Cardinality(QueuedRefs(o)) + 1
  BY <1>6, FS_AddElement
<1>8. CASE op = [obj |-> o, dir |-> "UP"]
  BY <1>5, <1>7, <1>8 DEF Queued
<1>9. CASE op # [obj |-> o, dir |-> "UP"]
  <2>1. QueuedRefs(o)' = QueuedRefs(o)
    BY <1>5, <1>9
  <2> QED
    BY <1>6, <1>9, <2>1 DEF Queued
<1> QED
  BY <1>8, <1>9

LEMMA QueuedTaken ==
    ASSUME TypeOK, queue # << >>, queue' = Tail(queue), NEW o \in Objects
    PROVE  Queued(o) = Queued(o)' + (IF Head(queue) = [obj |-> o, dir |-> "UP"] THEN 1 ELSE 0)
<1> DEFINE n == Len(queue)  up == [obj |-> o, dir |-> "UP"]
           later == {i \in 2..n : queue[i] = up}
<1>1. /\ n \in Nat \ {0} /\ Len(queue') = n - 1 /\ queue[1] = Head(queue)
      /\ \A i \in 1..n - 1 : queue'[i] = queue[i + 1]
  BY HeadTailProperties, EmptySeq DEF TypeOK
<1>2. QueuedRefs(o) = {i \in 1..n : queue[i] = up} /\ IsFiniteSet(QueuedRefs(o)) /\ Queued(o) \in Nat
  BY QueuedTyped DEF QueuedRefs, Queued, TypeOK
<1> HIDE DEF n, up
<1>3. QueuedRefs(o)' = {i \in 1..n - 1 : queue'[i] = up}
  BY <1>1 DEF QueuedRefs, up
<1>4. later \subseteq QueuedRefs(o) /\ 1 \notin later
  BY <1>1, <1>2
<1>5. IsFiniteSet(later) /\ Cardinality(later) \in Nat
  BY <1>2, <1>4, FS_Subset, FS_CardinalityType
<1>6. Cardinality(QueuedRefs(o)') = Cardinality(later)
  <2> DEFINE f == [i \in later |-> i - 1]
  <2>1. f \in [later -> QueuedRefs(o)']
    <3> SUFFICES ASSUME NEW i \in later PROVE i - 1 \in QueuedRefs(o)'
      OBVIOUS
    <3>1. i - 1 \in 1..n - 1 /\ (i - 1) + 1 = i
      BY <1>1
    <3> QED
      BY <3>1, <1>1, <1>3
  <2>2. \A i, j \in later : f[i] = f[j] => i = j
    BY <1>1
  <2>3. ASSUME NEW k \in QueuedRefs(o)'
        PROVE  \E i \in later : f[i] = k
    <3>1. k \in 1..n - 1 /\ queue[k + 1] = up
      BY <1>1, <1>3, <2>3
    <3>2. k + 1 \in later /\ f[k + 1] = k
      BY <1>1, <3>1
    <3> QED
      BY <3>2
  <2>4. f \in Bijection(later, QueuedRefs(o)')
    BY <2>1, <2>2, <2>3 DEF Bijection, Injection, Surjection, IsInjective
  <2> QED
    BY <2>4, <1>5, FS_Bijection DEF ExistsBijection
<1>7. Cardinality(later \union {1}) = Cardinality(later) + 1
  BY <1>4, <1>5, FS_AddElement
<1>8. 1..n = {1} \union 2..n
  BY <1>1
<1>9. CASE Head(queue) = up
  <2>1. QueuedRefs(o) = later \union {1}
    BY <1>1, <1>2, <1>8, <1>9
  <2> QED
    BY <2>1, <1>5, <1>6, <1>7, <1>9 DEF Queued, up
<1>10. CASE Head(queue) # up
  <2>1. QueuedRefs(o) = later
    BY <1>1, <1>2, <1>8, <1>10
  <2> QED
    BY <2>1, <1>5, <1>6, <1>10 DEF Queued, up
<1> QED
  BY <1>9, <1>10

-----------------------------------------------------------------------------
(* A thread's stack is a call of object.cpp, and at most the unref it will *)
(* end with beneath it.                                                    *)
ShapeOK(s) ==
    s # <<>> =>
        \/ Tail(s) = <<>>
        \/ /\ Head(s).call # "unref"
           /\ Tail(s) # <<>> /\ Tail(Tail(s)) = <<>>
           /\ Head(Tail(s)).call = "unref"

(* What is notified carries the toggle reference; and who is on the way to *)
(* queue TOGGLE_UP still owns the reference that made the object shared.   *)
TopOK(t) ==
    stack[t] # <<>> =>
        /\ Head(stack[t]).call # "unref" => toggleRef[Head(stack[t]).obj]
        /\ Head(stack[t]).call = "toggle_notify" /\ Head(stack[t]).dir = "UP"
               => Of(t, Head(stack[t]).obj) > 0

StacksOK   == \A t \in Threads : ShapeOK(stack[t]) /\ TopOK(t)
QueueOK    == \A i \in 1..Len(queue) : toggleRef[queue[i].obj]
WrappersOK == \A o \in Objects : toggleRef[o] <=> (wrapper[o] # "none")

Accounts == RefAccounting /\ StacksOK /\ QueueOK /\ WrappersOK

(* The count of an object, as thread t sees it.                            *)
LEMMA Shares ==
    ASSUME TypeOK, RefAccounting, NEW t \in Threads, NEW o \in Objects
    PROVE  /\ refs[o] = Root(o) + Others(t, o) + Of(t, o) + Queued(o)
           /\ Others(t, o) \in Nat /\ Of(t, o) \in Nat /\ Queued(o) \in Nat
           /\ held[t][o] \in Nat /\ Back(stack[t], o) \in Nat /\ Root(o) \in 0..1
<1>1. refs[o] = Root(o) + Cardinality(HeldRefs(o)) + Cardinality(CallRefs(o)) + Queued(o)
  BY DEF RefAccounting, Root, Queued
<1>2. Queued(o) \in Nat
  BY QueuedTyped DEF Queued, QueuedRefs, TypeOK
<1>3. Root(o) \in 0..1
  BY DEF Root
<1>4. /\ Cardinality(HeldRefs(o)) + Cardinality(CallRefs(o)) = Others(t, o) + Of(t, o)
      /\ Cardinality(HeldRefs(o)) \in Nat /\ Cardinality(CallRefs(o)) \in Nat
      /\ Others(t, o) \in Nat /\ Of(t, o) \in Nat
      /\ held[t][o] \in Nat /\ Back(stack[t], o) \in Nat
  <2>1. /\ held \in [Threads -> [Objects -> Nat]] /\ stack \in [Threads -> Seq(Frames)]
        /\ Cardinality(HeldRefs(o)) = HeldBy(Threads, held, o)
        /\ Cardinality(CallRefs(o)) = CallsOf(Threads, stack, o)
    BY DEF TypeOK, HeldRefs, CallRefs, HeldBy, CallsOf
  <2>2. /\ HeldBy(Threads, held, o) = HeldBy(Threads \ {t}, held, o) + held[t][o]
        /\ CallsOf(Threads, stack, o) = CallsOf(Threads \ {t}, stack, o) + Back(stack[t], o)
        /\ HeldBy(Threads, held, o) \in Nat /\ HeldBy(Threads \ {t}, held, o) \in Nat
        /\ CallsOf(Threads, stack, o) \in Nat /\ CallsOf(Threads \ {t}, stack, o) \in Nat
        /\ held[t][o] \in Nat /\ Back(stack[t], o) \in Nat
    BY <2>1, OwnersSplit
  <2> QED
    BY <2>1, <2>2 DEF Others, Of
<1> QED
  BY <1>1, <1>2, <1>3, <1>4

(* A step of thread t: what it adds to the references that have an owner   *)
(* is what it adds to the counts.                                          *)
LEMMA Balanced ==
    ASSUME TypeOK, TypeOK', Accounts, NEW t \in Threads,
           \A u \in Threads \ {t} : stack'[u] = stack[u] /\ held'[u] = held[u],
           \A o \in Objects : toggleRef[o] => toggleRef'[o],
           \A o \in Objects :
               refs'[o] - refs[o] = (Root(o)' - Root(o)) + (Of(t, o)' - Of(t, o))
                                    + (Queued(o)' - Queued(o)),
           ShapeOK(stack'[t]), TopOK(t)', QueueOK', WrappersOK'
    PROVE  Accounts'
<1>1. ASSUME NEW o \in Objects
      PROVE  Others(t, o)' = Others(t, o)
  <2>1. /\ [u \in Threads \ {t} |-> 1..held'[u][o]] = [u \in Threads \ {t} |-> 1..held[u][o]]
        /\ [u \in Threads \ {t} |-> Gives(stack'[u], o)] = [u \in Threads \ {t} |-> Gives(stack[u], o)]
    OBVIOUS
  <2> QED
    BY <2>1 DEF Others, HeldBy, CallsOf
<1>2. RefAccounting'
  <2> SUFFICES ASSUME NEW o \in Objects
               PROVE  refs'[o] = Root(o)' + Cardinality(HeldRefs(o)') + Cardinality(CallRefs(o)') + Queued(o)'
    BY DEF RefAccounting, Root, Queued
  <2>1. /\ Cardinality(HeldRefs(o)') + Cardinality(CallRefs(o)') = Others(t, o)' + Of(t, o)'
        /\ Cardinality(HeldRefs(o)') \in Nat /\ Cardinality(CallRefs(o)') \in Nat
        /\ Others(t, o)' \in Nat /\ Of(t, o)' \in Nat
    <3>1. /\ held' \in [Threads -> [Objects -> Nat]] /\ stack' \in [Threads -> Seq(Frames)]
          /\ Cardinality(HeldRefs(o)') = HeldBy(Threads, held', o)
          /\ Cardinality(CallRefs(o)') = CallsOf(Threads, stack', o)
      BY DEF TypeOK, HeldRefs, CallRefs, HeldBy, CallsOf
    <3>2. /\ HeldBy(Threads, held', o) = HeldBy(Threads \ {t}, held', o) + held'[t][o]
          /\ CallsOf(Threads, stack', o) = CallsOf(Threads \ {t}, stack', o) + Back(stack'[t], o)
          /\ HeldBy(Threads, held', o) \in Nat /\ HeldBy(Threads \ {t}, held', o) \in Nat
          /\ CallsOf(Threads, stack', o) \in Nat /\ CallsOf(Threads \ {t}, stack', o) \in Nat
          /\ held'[t][o] \in Nat /\ Back(stack'[t], o) \in Nat
      BY <3>1, OwnersSplit
    <3> QED
      BY SMTT(30), ZenonT(30), <3>1, <3>2 DEF Others, Of
  <2>2. /\ refs[o] = Root(o) + Others(t, o) + Of(t, o) + Queued(o)
        /\ Others(t, o) \in Nat /\ Of(t, o) \in Nat /\ Queued(o) \in Nat /\ Root(o) \in 0..1
    BY Shares DEF Accounts
  <2>3. Queued(o)' \in Nat /\ Root(o)' \in 0..1
    <3>1. queue' \in Seq(Operations)
      BY DEF TypeOK
    <3>2. Queued(o)' = Cardinality({i \in 1..Len(queue') : queue'[i] = [obj |-> o, dir |-> "UP"]})
      BY DEF Queued, QueuedRefs
    <3>3. Queued(o)' \in Nat
      BY <3>1, <3>2, QueuedTyped
    <3> QED
      BY <3>3 DEF Root
  <2>4. refs'[o] \in Int /\ refs[o] \in Int
    BY DEF TypeOK
  <2>5. refs'[o] - refs[o] = (Root(o)' - Root(o)) + (Of(t, o)' - Of(t, o)) + (Queued(o)' - Queued(o))
    OBVIOUS
  <2>6. Others(t, o)' = Others(t, o)
    BY <1>1
  <2>7. refs'[o] = refs[o] + ((Root(o)' - Root(o)) + (Of(t, o)' - Of(t, o)) + (Queued(o)' - Queued(o)))
    BY <2>1, <2>2, <2>3, <2>4, <2>5
  <2>8. refs'[o] = Root(o)' + Others(t, o) + Of(t, o)' + Queued(o)'
    BY <2>1, <2>2, <2>3, <2>7
  <2> QED
    BY <2>1, <2>2, <2>3, <2>6, <2>8
<1>3. StacksOK'
  <2> SUFFICES ASSUME NEW u \in Threads PROVE ShapeOK(stack'[u]) /\ TopOK(u)'
    BY DEF StacksOK
  <2>1. CASE u # t
    <3>1. ShapeOK(stack[u]) /\ TopOK(u) /\ stack'[u] = stack[u] /\ held'[u] = held[u]
      BY <2>1 DEF Accounts, StacksOK
    <3>2. stack[u] # <<>> => Head(stack[u]).obj \in Objects
      BY TopCall
    <3> QED
      BY <3>1, <3>2 DEF TopOK, Of
  <2> QED
    BY <2>1
<1> QED
  BY <1>2, <1>3 DEF Accounts

-----------------------------------------------------------------------------
(* At most the unref a function ends with.                                 *)
LastUnref(r) == r # <<>> => Head(r).call = "unref" /\ Tail(r) = <<>>

LEMMA Pushed ==
    ASSUME NEW f \in Frames, NEW r \in Seq(Frames)
    PROVE  /\ <<f>> \o r \in Seq(Frames) /\ <<f>> \o r # <<>>
           /\ Head(<<f>> \o r) = f /\ Tail(<<f>> \o r) = r
           /\ f.call # "unref" /\ LastUnref(r) => ShapeOK(<<f>> \o r)
           /\ \A p : Back(<<f>> \o r, p) = Back(r, p) + (IF GivesBack(f, p) THEN 1 ELSE 0)
<1> DEFINE x == <<f>> \o r
<1>1. x \in Seq(Frames)
  BY PushTyped
<1>2. Len(x) = Len(r) + 1 /\ x[1] = f /\ \A i \in 1..Len(r) : x[i + 1] = r[i]
  BY ConcatProperties, <<f>> \in Seq(Frames), Len(<<f>>) = 1
<1>3. x # <<>> /\ Len(r) \in Nat
  BY <1>1, <1>2, EmptySeq
<1> HIDE DEF x
<1>4. /\ Head(x) = x[1] /\ Tail(x) \in Seq(Frames) /\ Len(Tail(x)) = Len(x) - 1
      /\ \A i \in 1..Len(Tail(x)) : Tail(x)[i] = x[i + 1]
  BY <1>1, <1>3, HeadTailProperties
<1>5. Tail(x) = r
  BY <1>2, <1>3, <1>4, SeqEqual
<1>6. f.call # "unref" /\ LastUnref(r) => ShapeOK(x)
  BY <1>2, <1>4, <1>5 DEF LastUnref, ShapeOK
<1>7. \A p : Back(<<f>> \o r, p) = Back(r, p) + (IF GivesBack(f, p) THEN 1 ELSE 0)
  BY BackPushed
<1> QED
  BY <1>1, <1>2, <1>3, <1>4, <1>5, <1>6, <1>7 DEF x

(* A stack of one unref.                                                   *)
LEMMA UnrefOnly ==
    ASSUME NEW o \in Objects, NEW s, s = <<Frame("unref", o, "DOWN")>>
    PROVE  /\ s \in Seq(Frames) /\ s # <<>> /\ Head(s).call = "unref"
           /\ LastUnref(s) /\ ShapeOK(s)
           /\ \A p : Back(s, p) = IF p = o THEN 1 ELSE 0
<1> DEFINE f == Frame("unref", o, "DOWN")
<1>1. f \in Frames /\ s \in Seq(Frames)
  BY FrameTyped DEF Directions
<1>2. f.call = "unref" /\ f.obj = o
  BY DEF Frame
<1>3. s # <<>> /\ Head(s) = f /\ Tail(s) = <<>>
  OBVIOUS
<1>4. <<f>> \o <<>> = s /\ <<>> \in Seq(Frames)
  OBVIOUS
<1>5. \A p : GivesBack(f, p) <=> p = o
  BY <1>2 DEF GivesBack
<1>6. \A p : Back(s, p) = Back(<<>>, p) + (IF GivesBack(f, p) THEN 1 ELSE 0)
  <2>1. \A p : Back(<<f>> \o <<>>, p) = Back(<<>>, p) + (IF GivesBack(f, p) THEN 1 ELSE 0)
    BY <1>1, <1>4, Pushed
  <2> QED
    BY <1>4, <2>1
<1> HIDE DEF f
<1>7. \A p : Back(s, p) = IF p = o THEN 1 ELSE 0
  BY <1>5, <1>6, BackEmpty
<1>8. LastUnref(s) /\ ShapeOK(s)
  BY <1>2, <1>3 DEF LastUnref, ShapeOK
<1> QED
  BY <1>1, <1>2, <1>3, <1>7, <1>8

(* Counting up or down leaves a well-shaped stack; a notification gives    *)
(* nothing back by itself.                                                 *)
LEMMA AfterIs ==
    ASSUME NEW o \in Objects, NEW r \in Seq(Frames), LastUnref(r)
    PROVE  /\ \A s \in {AfterRef(o, r), AfterUnref(o, r)} :
                 s \in Seq(Frames) /\ ShapeOK(s) /\ \A p : Back(s, p) = Back(r, p)
           /\ \/ AfterRef(o, r) = r
              \/ /\ toggleRef[o] /\ AfterRef(o, r) # <<>>
                 /\ Head(AfterRef(o, r)) = Frame("toggle_notify", o, "UP")
           /\ \/ AfterUnref(o, r) = r
              \/ /\ toggleRef[o] /\ AfterUnref(o, r) # <<>>
                 /\ Head(AfterUnref(o, r)) = Frame("toggle_notify", o, "DOWN")
<1>1. ShapeOK(r) /\ \A p : Back(r, p) \in Nat
  BY BackTyped DEF LastUnref, ShapeOK
<1>2. ASSUME NEW d \in Directions
      PROVE  LET f == Frame("toggle_notify", o, d)
                 s == <<f>> \o r
             IN s \in Seq(Frames) /\ s # <<>> /\ Head(s) = f /\ ShapeOK(s)
                /\ \A p : Back(s, p) = Back(r, p)
  <2> DEFINE f == Frame("toggle_notify", o, d)
  <2>1. f \in Frames /\ f.call = "toggle_notify"
    BY FrameTyped DEF Frame
  <2>2. \A p : ~GivesBack(f, p)
    BY <2>1 DEF GivesBack
  <2> HIDE DEF f
  <2>3. /\ <<f>> \o r \in Seq(Frames) /\ <<f>> \o r # <<>> /\ Head(<<f>> \o r) = f
        /\ ShapeOK(<<f>> \o r)
        /\ \A p : Back(<<f>> \o r, p) = Back(r, p) + (IF GivesBack(f, p) THEN 1 ELSE 0)
    BY <2>1, Pushed
  <2>4. \A p : Back(<<f>> \o r, p) = Back(r, p)
    BY <1>1, <2>2, <2>3
  <2> QED
    BY <2>3, <2>4 DEF f
<1>3. "UP" \in Directions /\ "DOWN" \in Directions
  BY DEF Directions
<1>4. /\ AfterRef(o, r) \in Seq(Frames) /\ ShapeOK(AfterRef(o, r))
      /\ \A p : Back(AfterRef(o, r), p) = Back(r, p)
      /\ \/ AfterRef(o, r) = r
         \/ /\ toggleRef[o] /\ AfterRef(o, r) # <<>>
            /\ Head(AfterRef(o, r)) = Frame("toggle_notify", o, "UP")
  <2>1. CASE refs[o] = 1 /\ toggleRef[o]
    BY <1>2, <1>3, <2>1 DEF AfterRef
  <2>2. CASE ~(refs[o] = 1 /\ toggleRef[o])
    BY <1>1, <2>2 DEF AfterRef
  <2> QED
    BY <2>1, <2>2
<1>5. /\ AfterUnref(o, r) \in Seq(Frames) /\ ShapeOK(AfterUnref(o, r))
      /\ \A p : Back(AfterUnref(o, r), p) = Back(r, p)
      /\ \/ AfterUnref(o, r) = r
         \/ /\ toggleRef[o] /\ AfterUnref(o, r) # <<>>
            /\ Head(AfterUnref(o, r)) = Frame("toggle_notify", o, "DOWN")
  <2>1. CASE refs[o] = 2 /\ toggleRef[o]
    BY <1>2, <1>3, <2>1 DEF AfterUnref
  <2>2. CASE ~(refs[o] = 2 /\ toggleRef[o])
    BY <1>1, <2>2 DEF AfterUnref
  <2> QED
    BY <2>1, <2>2
<1> QED
  BY <1>4, <1>5

(* Steps that leave the queue alone.                                       *)
LEMMA QueueSame ==
    ASSUME QueueOK, TypeOK, queue' = queue, \A o \in Objects : toggleRef[o] => toggleRef'[o]
    PROVE  /\ QueueOK'
           /\ \A o : Queued(o)' = Queued(o)
<1>1. \A i \in 1..Len(queue) : queue[i] \in Operations
  BY DEF TypeOK
<1>2. QueueOK'
  BY <1>1 DEF QueueOK, Operations
<1>3. ASSUME NEW o PROVE Queued(o)' = Queued(o)
  BY DEF Queued, QueuedRefs
<1> QED
  BY <1>2, <1>3

(* A step that changes counts and, by as much, what one thread owns.       *)
LEMMA Transfer ==
    ASSUME TypeOK, TypeOK', Accounts, NEW t \in Threads,
           \A u \in Threads \ {t} : stack'[u] = stack[u] /\ held'[u] = held[u],
           \A p \in Objects : refs'[p] - refs[p] = Of(t, p)' - Of(t, p),
           UNCHANGED <<toggleRef, wrapper, queue>>,
           ShapeOK(stack'[t]), TopOK(t)'
    PROVE  Accounts'
<1>1. QueueOK' /\ WrappersOK' /\ \A p : Queued(p)' = Queued(p)
  BY QueueSame DEF Accounts, WrappersOK
<1>2. \A p : toggleRef[p] => toggleRef'[p]
  OBVIOUS
<1>3. ASSUME NEW p \in Objects
      PROVE  refs'[p] - refs[p] = (Root(p)' - Root(p)) + (Of(t, p)' - Of(t, p)) + (Queued(p)' - Queued(p))
  <2>1. refs[p] \in Int /\ refs'[p] \in Int /\ Of(t, p)' \in Nat
    <3>1. held'[t][p] \in Nat /\ stack'[t] \in Seq(Frames)
      BY DEF TypeOK
    <3> QED
      BY <3>1, BackTyped DEF TypeOK, Of
  <2>2. Of(t, p) \in Nat /\ Queued(p) \in Nat /\ Root(p) \in 0..1
    BY Shares DEF Accounts
  <2>3. Root(p)' = Root(p) /\ Queued(p)' = Queued(p)
    BY <1>1 DEF Root
  <2>4. refs'[p] - refs[p] = Of(t, p)' - Of(t, p)
    OBVIOUS
  <2> QED
    BY <2>1, <2>2, <2>3, <2>4
<1> QED
  BY <1>1, <1>2, <1>3, Balanced

(* Nobody owns a reference on what is not allocated.                       *)
LEMMA Unallocated ==
    ASSUME TypeOK, Accounts, NEW t \in Threads, NEW o \in Objects, refs[o] = 0
    PROVE  /\ held[t][o] = 0 /\ Back(stack[t], o) = 0 /\ Queued(o) = 0
           /\ toggleRef[o] = FALSE /\ wrapper[o] = "none"
<1>1. /\ refs[o] = Root(o) + Others(t, o) + Of(t, o) + Queued(o)
      /\ Others(t, o) \in Nat /\ Of(t, o) \in Nat /\ Queued(o) \in Nat
      /\ held[t][o] \in Nat /\ Back(stack[t], o) \in Nat /\ Root(o) \in 0..1
  BY Shares DEF Accounts
<1>2. Root(o) = 0 /\ Of(t, o) = 0 /\ Queued(o) = 0
  BY <1>1
<1>3. held[t][o] = 0 /\ Back(stack[t], o) = 0
  BY <1>1, <1>2 DEF Of
<1>4. ~toggleRef[o] /\ toggleRef[o] \in BOOLEAN
  BY <1>2 DEF Root, TypeOK
<1>5. toggleRef[o] <=> (wrapper[o] # "none")
  BY DEF Accounts, WrappersOK
<1> QED
  BY <1>2, <1>3, <1>4, <1>5

LEMMA NewInCAccounts ==
    ASSUME TypeOK, TypeOK', Accounts, NEW t \in Threads, NEW o \in Objects, NewInC(t, o)
    PROVE  Accounts'
<1>1. /\ stack' = stack /\ stack[t] = <<>> /\ refs[o] = 0
      /\ refs' = [refs EXCEPT ![o] = 1] /\ held' = [held EXCEPT ![t][o] = 1]
      /\ UNCHANGED <<toggleRef, wrapper, queue>>
  BY DEF NewInC, Idle, js, loop
<1>2. held[t][o] = 0
  BY <1>1, Unallocated
<1>3. ASSUME NEW p \in Objects
      PROVE  refs'[p] - refs[p] = Of(t, p)' - Of(t, p)
  <2>1. held[t][p] \in Nat /\ Back(stack[t], p) \in Nat
    BY Shares DEF Accounts
  <2>2. held'[t][p] = held[t][p] + (IF p = o THEN 1 ELSE 0)
    BY <1>1, <1>2, <2>1 DEF TypeOK
  <2>3. refs[p] \in Int /\ refs'[p] = refs[p] + (IF p = o THEN 1 ELSE 0)
    BY <1>1 DEF TypeOK
  <2>4. Of(t, p)' = Of(t, p) + (IF p = o THEN 1 ELSE 0) /\ Of(t, p) \in Nat
    BY <1>1, <2>1, <2>2 DEF Of
  <2> QED
    BY <2>3, <2>4
<1>4. \A u \in Threads \ {t} : stack'[u] = stack[u] /\ held'[u] = held[u]
  BY <1>1 DEF TypeOK
<1>5. ShapeOK(stack'[t]) /\ TopOK(t)'
  BY <1>1 DEF ShapeOK, TopOK
<1> QED
  BY <1>1, <1>2, <1>3, <1>4, <1>5, Transfer

LEMMA RefAccounts ==
    ASSUME TypeOK, TypeOK', Accounts, NEW t \in Threads, NEW o \in Objects, Ref(t, o)
    PROVE  Accounts'
<1> DEFINE a == AfterRef(o, <<>>)
<1>1. /\ stack' = [stack EXCEPT ![t] = a] /\ stack[t] = <<>>
      /\ refs' = [refs EXCEPT ![o] = @ + 1] /\ held' = [held EXCEPT ![t][o] = @ + 1]
      /\ UNCHANGED <<toggleRef, wrapper, queue>>
  BY DEF Ref, Idle, js, loop
<1>2. /\ ShapeOK(a) /\ \A p : Back(a, p) = 0
      /\ a = <<>> \/ (toggleRef[o] /\ Head(a) = Frame("toggle_notify", o, "UP"))
  <2>1. <<>> \in Seq(Frames) /\ LastUnref(<<>>)
    BY DEF LastUnref
  <2> QED
    BY <2>1, AfterIs, BackEmpty
<1> HIDE DEF a
<1>3. stack'[t] = a /\ \A u \in Threads \ {t} : stack'[u] = stack[u] /\ held'[u] = held[u]
  BY <1>1 DEF TypeOK
<1>4. ASSUME NEW p \in Objects
      PROVE  /\ refs'[p] - refs[p] = Of(t, p)' - Of(t, p)
             /\ p = o => Of(t, p)' > 0
  <2>1. held[t][p] \in Nat /\ held'[t][p] = held[t][p] + (IF p = o THEN 1 ELSE 0)
    BY <1>1 DEF TypeOK
  <2>2. refs[p] \in Int /\ refs'[p] = refs[p] + (IF p = o THEN 1 ELSE 0)
    BY <1>1 DEF TypeOK
  <2>3. Of(t, p)' = Of(t, p) + (IF p = o THEN 1 ELSE 0) /\ Of(t, p) \in Nat
    BY <1>1, <1>2, <1>3, <2>1, BackEmpty DEF Of
  <2> QED
    BY <2>2, <2>3
<1>5. TopOK(t)'
  <2>1. Of(t, o)' > 0
    BY <1>4
  <2> QED
    BY <1>1, <1>2, <1>3, <2>1 DEF TopOK, Frame
<1> QED
  BY <1>1, <1>2, <1>3, <1>4, <1>5, Transfer

LEMMA UnrefAccounts ==
    ASSUME TypeOK, TypeOK', Accounts, NEW t \in Threads, NEW o \in Objects, Unref(t, o)
    PROVE  Accounts'
<1> DEFINE a == AfterUnref(o, <<>>)
<1>1. /\ stack' = [stack EXCEPT ![t] = a] /\ stack[t] = <<>>
      /\ refs' = [refs EXCEPT ![o] = @ - 1] /\ held' = [held EXCEPT ![t][o] = @ - 1]
      /\ UNCHANGED <<toggleRef, wrapper, queue>>
  BY DEF Unref, Idle, js, loop
<1>2. /\ ShapeOK(a) /\ \A p : Back(a, p) = 0
      /\ a = <<>> \/ (toggleRef[o] /\ Head(a) = Frame("toggle_notify", o, "DOWN"))
  <2>1. <<>> \in Seq(Frames) /\ LastUnref(<<>>)
    BY DEF LastUnref
  <2> QED
    BY <2>1, AfterIs, BackEmpty
<1> HIDE DEF a
<1>3. stack'[t] = a /\ \A u \in Threads \ {t} : stack'[u] = stack[u] /\ held'[u] = held[u]
  BY <1>1 DEF TypeOK
<1>4. ASSUME NEW p \in Objects
      PROVE  refs'[p] - refs[p] = Of(t, p)' - Of(t, p)
  <2>1. held[t][p] \in Nat /\ held'[t][p] = held[t][p] - (IF p = o THEN 1 ELSE 0)
    BY <1>1 DEF TypeOK
  <2>2. refs[p] \in Int /\ refs'[p] = refs[p] - (IF p = o THEN 1 ELSE 0)
    BY <1>1 DEF TypeOK
  <2>3. Of(t, p)' = Of(t, p) - (IF p = o THEN 1 ELSE 0) /\ Of(t, p) \in Nat
    BY <1>1, <1>2, <1>3, <2>1, BackEmpty DEF Of
  <2> QED
    BY <2>2, <2>3
<1>5. TopOK(t)'
  BY <1>1, <1>2, <1>3 DEF TopOK, Frame
<1> QED
  BY <1>1, <1>2, <1>3, <1>4, <1>5, Transfer

(* What the next call of a thread is, and what it leaves.                  *)
LEMMA TopIs ==
    ASSUME TypeOK, Accounts, NEW t \in Threads, stack[t] # <<>>
    PROVE  LET h == Head(stack[t])
               r == Tail(stack[t])
           IN /\ h \in Frames /\ r \in Seq(Frames) /\ LastUnref(r)
              /\ h.call = "unref" => r = <<>>
              /\ h.call # "unref" => toggleRef[h.obj]
              /\ h.call = "toggle_notify" /\ h.dir = "UP" => Of(t, h.obj) > 0
              /\ \A p : /\ Back(stack[t], p) = Back(r, p) + (IF GivesBack(h, p) THEN 1 ELSE 0)
                       /\ Back(r, p) \in Nat
<1>1. stack[t] \in Seq(Frames)
  BY DEF TypeOK
<1>2. ShapeOK(stack[t]) /\ TopOK(t)
  BY DEF Accounts, StacksOK
<1>3. /\ Head(stack[t]) \in Frames /\ Tail(stack[t]) \in Seq(Frames)
      /\ \A p : Back(stack[t], p)
                = Back(Tail(stack[t]), p) + (IF GivesBack(Head(stack[t]), p) THEN 1 ELSE 0)
  BY <1>1, BackPopped
<1>4. \A p : Back(Tail(stack[t]), p) \in Nat
  BY <1>3, BackTyped
<1>5. /\ LastUnref(Tail(stack[t]))
      /\ Head(stack[t]).call = "unref" => Tail(stack[t]) = <<>>
  BY <1>2 DEF ShapeOK, LastUnref
<1>6. /\ Head(stack[t]).call # "unref" => toggleRef[Head(stack[t]).obj]
      /\ Head(stack[t]).call = "toggle_notify" /\ Head(stack[t]).dir = "UP"
            => Of(t, Head(stack[t]).obj) > 0
  BY <1>2 DEF TopOK
<1> QED
  BY <1>3, <1>4, <1>5, <1>6

LEMMA UnrefCallAccounts ==
    ASSUME TypeOK, TypeOK', Accounts, NEW t \in Threads, UnrefCall(t)
    PROVE  Accounts'
<1> DEFINE h == Head(stack[t])
           o == h.obj
           a == AfterUnref(o, <<>>)
<1>1. /\ h \in Frames /\ h.call = "unref" /\ Tail(stack[t]) = <<>>
      /\ \A p : Back(stack[t], p) = Back(<<>>, p) + (IF GivesBack(h, p) THEN 1 ELSE 0)
  BY TopIs DEF UnrefCall
<1>2. o \in Objects
  BY <1>1 DEF Frames
<1>3. /\ stack' = [stack EXCEPT ![t] = a] /\ refs' = [refs EXCEPT ![o] = @ - 1]
      /\ UNCHANGED <<held, toggleRef, wrapper, queue>>
  BY <1>1 DEF UnrefCall, js, loop
<1>4. /\ ShapeOK(a) /\ \A p : Back(a, p) = 0
      /\ a = <<>> \/ (toggleRef[o] /\ Head(a) = Frame("toggle_notify", o, "DOWN"))
  <2>1. <<>> \in Seq(Frames) /\ LastUnref(<<>>)
    BY DEF LastUnref
  <2> QED
    BY <1>2, <2>1, AfterIs, BackEmpty
<1>5. \A p : Back(stack[t], p) = IF p = o THEN 1 ELSE 0
  BY <1>1, BackEmpty DEF GivesBack
<1> HIDE DEF a, o, h
<1>6. stack'[t] = a /\ \A u \in Threads \ {t} : stack'[u] = stack[u] /\ held'[u] = held[u]
  BY <1>3 DEF TypeOK
<1>7. ASSUME NEW p \in Objects
      PROVE  refs'[p] - refs[p] = Of(t, p)' - Of(t, p)
  <2>1. held[t][p] \in Nat /\ held'[t][p] = held[t][p]
    BY <1>3 DEF TypeOK
  <2>2. refs[p] \in Int /\ refs'[p] = refs[p] - (IF p = o THEN 1 ELSE 0)
    BY <1>2, <1>3 DEF TypeOK
  <2>3. Of(t, p)' = Of(t, p) - (IF p = o THEN 1 ELSE 0) /\ Of(t, p) \in Nat
    BY <1>4, <1>5, <1>6, <2>1 DEF Of
  <2> QED
    BY <2>2, <2>3
<1>8. TopOK(t)'
  BY <1>3, <1>4, <1>6 DEF TopOK, Frame
<1> QED
  BY <1>3, <1>4, <1>6, <1>7, <1>8, Transfer

(* The reference queue_toggle_idle takes: there is already the wrapper's,  *)
(* and one more on this thread, so it crosses no line.                     *)
LEMMA NotifyAccounts ==
    ASSUME TypeOK, TypeOK', Accounts, NEW t \in Threads, wrapped_gobj_toggle_notify(t)
    PROVE  Accounts'
<1> DEFINE h == Head(stack[t])
           o == h.obj
           d == h.dir
           r == Tail(stack[t])
           f == Frame("attach", o, d)
           rest == <<f>> \o r
<1>1. /\ h \in Frames /\ h.call = "toggle_notify" /\ r \in Seq(Frames) /\ LastUnref(r)
      /\ toggleRef[o] /\ (d = "UP" => Of(t, o) > 0)
      /\ \A p : /\ Back(stack[t], p) = Back(r, p) + (IF GivesBack(h, p) THEN 1 ELSE 0)
               /\ Back(r, p) \in Nat
  BY TopIs DEF wrapped_gobj_toggle_notify
<1>2. o \in Objects /\ d \in Directions
  BY <1>1 DEF Frames
<1>3. f \in Frames /\ f.call = "attach" /\ f.obj = o /\ f.dir = d
  BY <1>2, FrameTyped DEF Frame
<1>4. d = "UP" => AfterRef(o, rest) = rest
  <2> SUFFICES ASSUME d = "UP" PROVE refs[o] # 1
    BY DEF AfterRef
  <2>1. /\ refs[o] = Root(o) + Others(t, o) + Of(t, o) + Queued(o)
        /\ Others(t, o) \in Nat /\ Of(t, o) \in Nat /\ Queued(o) \in Nat
    BY <1>2, Shares DEF Accounts
  <2>2. Root(o) = 1 /\ Of(t, o) > 0
    BY <1>1 DEF Root
  <2> HIDE DEF o
  <2> QED
    BY <2>1, <2>2
<1>5. /\ stack' = [stack EXCEPT ![t] = rest]
      /\ refs' = [refs EXCEPT ![o] = @ + (IF d = "UP" THEN 1 ELSE 0)]
      /\ UNCHANGED <<held, toggleRef, wrapper, queue>>
  <2>1. CASE d = "UP"
    BY <1>4, <2>1 DEF wrapped_gobj_toggle_notify, js, loop
  <2>2. CASE d = "DOWN"
    BY <2>2, <1>2 DEF wrapped_gobj_toggle_notify, js, loop, TypeOK
  <2> QED
    BY <1>2, <2>1, <2>2 DEF Directions
<1>6. \A p : GivesBack(f, p) <=> (p = o /\ d = "UP")
  BY <1>3 DEF GivesBack
<1>7. \A p : Back(stack[t], p) = Back(r, p) /\ Back(r, p) \in Nat
  BY <1>1 DEF GivesBack
<1>8. /\ rest # <<>> /\ Head(rest) = f /\ ShapeOK(rest)
      /\ \A p : Back(rest, p) = Back(r, p) + (IF GivesBack(f, p) THEN 1 ELSE 0)
  <2> HIDE DEF f, r
  <2> QED
    BY <1>1, <1>3, Pushed
<1> HIDE DEF f, r, rest, o, d, h
<1>9. stack'[t] = rest /\ \A u \in Threads \ {t} : stack'[u] = stack[u] /\ held'[u] = held[u]
  BY <1>5 DEF TypeOK
<1>10. ASSUME NEW p \in Objects
       PROVE  refs'[p] - refs[p] = Of(t, p)' - Of(t, p)
  <2>1. held[t][p] \in Nat /\ held'[t][p] = held[t][p]
    BY <1>5 DEF TypeOK
  <2>2. refs[p] \in Int /\ refs'[p] = refs[p] + (IF p = o /\ d = "UP" THEN 1 ELSE 0)
    BY <1>2, <1>5 DEF TypeOK
  <2>3. Of(t, p)' = Of(t, p) + (IF p = o /\ d = "UP" THEN 1 ELSE 0) /\ Of(t, p) \in Nat
    BY <1>6, <1>7, <1>8, <1>9, <2>1 DEF Of
  <2> QED
    BY <2>2, <2>3
<1>11. TopOK(t)'
  BY <1>1, <1>3, <1>5, <1>8, <1>9 DEF TopOK
<1> QED
  BY <1>5, <1>8, <1>9, <1>10, <1>11, Transfer

(* The reference passes from the call to the source it has attached.       *)
LEMMA AttachAccounts ==
    ASSUME TypeOK, TypeOK', Accounts, NEW t \in Threads, queue_toggle_idle(t)
    PROVE  Accounts'
<1> DEFINE f == Head(stack[t])
           o == f.obj
           d == f.dir
           r == Tail(stack[t])
           op == [obj |-> o, dir |-> d]
<1>1. /\ f \in Frames /\ f.call = "attach" /\ r \in Seq(Frames) /\ LastUnref(r) /\ toggleRef[o]
      /\ \A p : /\ Back(stack[t], p) = Back(r, p) + (IF GivesBack(f, p) THEN 1 ELSE 0)
               /\ Back(r, p) \in Nat
  BY TopIs DEF queue_toggle_idle
<1>2. o \in Objects /\ d \in Directions /\ op \in Operations
  BY <1>1 DEF Frames, Operations
<1>3. /\ stack' = [stack EXCEPT ![t] = r] /\ queue' = Append(queue, op)
      /\ UNCHANGED <<refs, held, toggleRef, wrapper>>
  BY DEF queue_toggle_idle, gobject, js
<1>4. \A p : Back(stack[t], p) = Back(r, p) + (IF op = [obj |-> p, dir |-> "UP"] THEN 1 ELSE 0)
  <2> SUFFICES ASSUME NEW p PROVE GivesBack(f, p) <=> op = [obj |-> p, dir |-> "UP"]
    BY <1>1
  <2> QED
    BY <1>1 DEF GivesBack
<1>5. op.obj = o
  OBVIOUS
<1> HIDE DEF op, o, d, r, f
<1>6. stack'[t] = r /\ \A u \in Threads \ {t} : stack'[u] = stack[u] /\ held'[u] = held[u]
  BY <1>3 DEF TypeOK
<1>7. ASSUME NEW p \in Objects
      PROVE  refs'[p] - refs[p] = (Root(p)' - Root(p)) + (Of(t, p)' - Of(t, p)) + (Queued(p)' - Queued(p))
  <2>1. held[t][p] \in Nat /\ held'[t][p] = held[t][p] /\ refs[p] \in Int /\ refs'[p] = refs[p]
    BY <1>3 DEF TypeOK
  <2>2. Root(p)' = Root(p) /\ Root(p) \in 0..1
    BY <1>3 DEF Root
  <2>3. /\ Queued(p)' = Queued(p) + (IF op = [obj |-> p, dir |-> "UP"] THEN 1 ELSE 0)
        /\ Queued(p) \in Nat
    BY <1>2, <1>3, QueuedAppended, Shares DEF Accounts
  <2>4. Of(t, p) = Of(t, p)' + (IF op = [obj |-> p, dir |-> "UP"] THEN 1 ELSE 0) /\ Of(t, p)' \in Nat
    BY <1>1, <1>4, <1>6, <2>1 DEF Of
  <2> QED
    BY <2>1, <2>2, <2>3, <2>4
<1>8. ShapeOK(stack'[t]) /\ TopOK(t)'
  BY <1>1, <1>6 DEF TopOK, ShapeOK, LastUnref
<1>9. QueueOK'
  <2>1. /\ Len(queue) \in Nat /\ Len(queue') = Len(queue) + 1 /\ queue'[Len(queue) + 1] = op
        /\ \A i \in 1..Len(queue) : queue'[i] = queue[i]
    BY <1>2, <1>3, AppendProperties DEF TypeOK
  <2>2. \A i \in 1..Len(queue') : i \in 1..Len(queue) \/ i = Len(queue) + 1
    BY <2>1
  <2>3. \A i \in 1..Len(queue) : toggleRef[queue[i].obj]
    BY DEF Accounts, QueueOK
  <2>4. toggleRef' = toggleRef /\ toggleRef[op.obj]
    BY <1>1, <1>3, <1>5
  <2> QED
    BY <2>1, <2>2, <2>3, <2>4 DEF QueueOK
<1>10. WrappersOK' /\ \A p \in Objects : toggleRef[p] => toggleRef'[p]
  BY <1>3 DEF Accounts, WrappersOK
<1> QED
  BY <1>6, <1>7, <1>8, <1>9, <1>10, Balanced

(* Making a wrapper: the toggle reference, the caller's reference to be    *)
(* given back, and k - held references kept by the library.                *)
LEMMA AssociateAccounts ==
    ASSUME TypeOK, TypeOK', Accounts, NEW o \in Objects, NEW n, ~toggleRef[o],
           stack[Main] = <<>>, stack' = [stack EXCEPT ![Main] = <<Frame("unref", o, "DOWN")>>],
           associate_js_gobject(o, n), queue' = queue,
           \A u \in Threads \ {Main} : held'[u] = held[u],
           \A p \in Objects \ {o} : held'[Main][p] = held[Main][p],
           n = refs[o] + 2 + (held'[Main][o] - held[Main][o])
    PROVE  Accounts'
<1> DEFINE s == <<Frame("unref", o, "DOWN")>>
<1>1. Main \in Threads
  BY ToggleRefAssumption DEF ToggleRefAssumption
<1>2. /\ ShapeOK(s) /\ s # <<>> /\ Head(s).call = "unref"
      /\ \A p : Back(s, p) = IF p = o THEN 1 ELSE 0
  <2>1. s = <<Frame("unref", o, "DOWN")>>
    OBVIOUS
  <2> HIDE DEF s
  <2> QED
    BY <2>1, UnrefOnly
<1>3. /\ wrapper' = [wrapper EXCEPT ![o] = "live"]
      /\ toggleRef' = [toggleRef EXCEPT ![o] = TRUE]
      /\ refs' = [refs EXCEPT ![o] = n]
  BY DEF associate_js_gobject
<1> HIDE DEF s
<1>4. stack'[Main] = s /\ \A u \in Threads \ {Main} : stack'[u] = stack[u] /\ held'[u] = held[u]
  BY <1>1 DEF TypeOK, s
<1>5. \A p \in Objects : toggleRef[p] => toggleRef'[p]
  BY <1>3 DEF TypeOK
<1>6. QueueOK' /\ \A p : Queued(p)' = Queued(p)
  BY <1>5, QueueSame DEF Accounts
<1>7. WrappersOK'
  BY <1>3 DEF Accounts, WrappersOK, TypeOK
<1>8. ASSUME NEW p \in Objects
      PROVE  refs'[p] - refs[p] = (Root(p)' - Root(p)) + (Of(Main, p)' - Of(Main, p)) + (Queued(p)' - Queued(p))
  <2>1. held[Main][p] \in Nat /\ held'[Main][p] \in Nat /\ refs[p] \in Int
    BY <1>1 DEF TypeOK
  <2>2. /\ Of(Main, p) = held[Main][p]
        /\ Of(Main, p)' = held'[Main][p] + (IF p = o THEN 1 ELSE 0)
    BY <1>2, <1>4, <2>1, BackEmpty DEF Of
  <2>3. Queued(p)' = Queued(p) /\ Queued(p) \in Nat
    BY <1>1, <1>6, Shares DEF Accounts
  <2>4. CASE p = o
    <3>1. Root(p) = 0 /\ Root(p)' = 1
      BY <1>3, <2>4 DEF Root, TypeOK
    <3>2. refs'[p] = refs[p] + 2 + (held'[Main][p] - held[Main][p])
      BY <1>3, <2>4 DEF TypeOK
    <3>3. Of(Main, p)' - Of(Main, p) = 1 + (held'[Main][p] - held[Main][p])
      BY <2>1, <2>2, <2>4
    <3>4. Root(p)' - Root(p) = 1 /\ Queued(p)' - Queued(p) = 0
      BY <2>3, <3>1
    <3>5. refs'[p] - refs[p] = 2 + (held'[Main][p] - held[Main][p])
      BY SMTT(30), ZenonT(30), <2>1, <3>2
    <3> QED
      BY <2>1, <3>3, <3>4, <3>5
  <2>5. CASE p # o
    <3>1. Root(p) = Root(p)' /\ Root(p) \in 0..1
      BY <1>3, <2>5 DEF Root, TypeOK
    <3>2. refs'[p] = refs[p] /\ held'[Main][p] = held[Main][p]
      BY <1>3, <2>5 DEF TypeOK
    <3> QED
      BY <2>1, <2>2, <2>3, <2>5, <3>1, <3>2
  <2> QED
    BY <2>4, <2>5
<1>9. ShapeOK(stack'[Main]) /\ TopOK(Main)'
  BY <1>2, <1>4 DEF TopOK
<1> QED
  BY <1>1, <1>4, <1>5, <1>6, <1>7, <1>8, <1>9, Balanced

LEMMA WrappingAccounts ==
    ASSUME TypeOK, TypeOK', Accounts, NEW o \in Objects,
           \/ \E kept \in 0..1 : object_instance_init(o, kept)
           \/ gwkjs_object_from_g_object(o) /\ wrapper[o] = "none"
    PROVE  Accounts'
<1>1. Main \in Threads
  BY ToggleRefAssumption DEF ToggleRefAssumption
<1>2. ASSUME NEW kept \in 0..1, object_instance_init(o, kept)
      PROVE  Accounts'
  <2>1. /\ refs[o] = 0 /\ stack[Main] = <<>> /\ associate_js_gobject(o, kept + 2)
        /\ stack' = [stack EXCEPT ![Main] = <<Frame("unref", o, "DOWN")>>]
        /\ held' = [held EXCEPT ![Main][o] = kept] /\ queue' = queue
    BY <1>2 DEF object_instance_init, Idle, loop
  <2>2. held[Main][o] = 0 /\ ~toggleRef[o]
    BY <1>1, <2>1, Unallocated
  <2>3. /\ \A u \in Threads \ {Main} : held'[u] = held[u]
        /\ \A p \in Objects \ {o} : held'[Main][p] = held[Main][p]
        /\ held'[Main][o] = kept
    BY <1>1, <2>1 DEF TypeOK
  <2>4. kept + 2 = refs[o] + 2 + (held'[Main][o] - held[Main][o])
    BY <2>1, <2>2, <2>3
  <2> QED
    BY <2>1, <2>2, <2>3, <2>4, AssociateAccounts
<1>3. CASE gwkjs_object_from_g_object(o) /\ wrapper[o] = "none"
  <2>1. /\ stack[Main] = <<>> /\ associate_js_gobject(o, refs[o] + 2)
        /\ stack' = [stack EXCEPT ![Main] = <<Frame("unref", o, "DOWN")>>]
        /\ held' = held /\ queue' = queue
    BY <1>3 DEF gwkjs_object_from_g_object, Idle, loop
  <2>2. ~toggleRef[o]
    BY <1>3 DEF Accounts, WrappersOK
  <2>3. refs[o] + 2 = refs[o] + 2 + (held'[Main][o] - held[Main][o])
    <3>1. refs[o] \in Int /\ held[Main][o] \in Nat
      BY <1>1 DEF TypeOK
    <3> QED
      BY <2>1, <3>1
  <2> QED
    BY <2>1, <2>2, <2>3, AssociateAccounts
<1> QED
  BY <1>2, <1>3

LEMMA SingletonAccounts ==
    ASSUME TypeOK, TypeOK', Accounts, NEW o \in Objects, object_instance_init_singleton(o)
    PROVE  Accounts'
<1> DEFINE s == <<Frame("unref", o, "DOWN")>>
           a == AfterRef(o, s)
<1>1. Main \in Threads
  BY ToggleRefAssumption DEF ToggleRefAssumption
<1>2. /\ stack[Main] = <<>> /\ stack' = [stack EXCEPT ![Main] = a]
      /\ refs' = [refs EXCEPT ![o] = @ + 1]
      /\ UNCHANGED <<held, toggleRef, wrapper, queue>>
  BY DEF object_instance_init_singleton, Idle, loop
<1>3. /\ s \in Seq(Frames) /\ LastUnref(s) /\ Head(s).call = "unref"
      /\ \A p : Back(s, p) = IF p = o THEN 1 ELSE 0
  <2>1. s = <<Frame("unref", o, "DOWN")>>
    OBVIOUS
  <2> HIDE DEF s
  <2> QED
    BY <2>1, UnrefOnly
<1>4. /\ ShapeOK(a) /\ \A p : Back(a, p) = Back(s, p)
      /\ a = s \/ (toggleRef[o] /\ Head(a) = Frame("toggle_notify", o, "UP"))
  <2> HIDE DEF s
  <2> QED
    BY <1>3, AfterIs
<1> HIDE DEF s, a
<1>5. stack'[Main] = a /\ \A u \in Threads \ {Main} : stack'[u] = stack[u] /\ held'[u] = held[u]
  BY <1>1, <1>2 DEF TypeOK
<1>6. ASSUME NEW p \in Objects
      PROVE  refs'[p] - refs[p] = Of(Main, p)' - Of(Main, p) /\ (p = o => Of(Main, p)' > 0)
  <2>1. held[Main][p] \in Nat /\ held'[Main][p] = held[Main][p]
    BY <1>1, <1>2 DEF TypeOK
  <2>2. refs[p] \in Int /\ refs'[p] = refs[p] + (IF p = o THEN 1 ELSE 0)
    BY <1>2 DEF TypeOK
  <2>3. Of(Main, p)' = Of(Main, p) + (IF p = o THEN 1 ELSE 0) /\ Of(Main, p) \in Nat
    BY <1>2, <1>3, <1>4, <1>5, <2>1, BackEmpty DEF Of
  <2> QED
    BY <2>2, <2>3
<1>7. TopOK(Main)'
  <2>1. Of(Main, o)' > 0
    BY <1>6
  <2> QED
    BY <1>2, <1>3, <1>4, <1>5, <2>1 DEF TopOK, Frame
<1> QED
  BY <1>1, <1>2, <1>4, <1>5, <1>6, <1>7, Transfer

(* The reference passes from the source to the unref that frees it.        *)
LEMMA IdleAccounts ==
    ASSUME TypeOK, TypeOK', Accounts, idle_handle_toggle
    PROVE  Accounts'
<1> DEFINE op == Head(queue)
           s == needs_unref(op)
<1>1. Main \in Threads
  BY ToggleRefAssumption DEF ToggleRefAssumption
<1>2. /\ stack[Main] = <<>> /\ stack' = [stack EXCEPT ![Main] = s]
      /\ queue # <<>> /\ queue' = Tail(queue)
      /\ UNCHANGED <<refs, held, toggleRef, wrapper>>
  BY DEF idle_handle_toggle, Idle, gobject, js
<1>3. /\ op \in Operations /\ Len(queue) \in Nat /\ Len(queue') = Len(queue) - 1
      /\ \A i \in 1..Len(queue') : queue'[i] = queue[i + 1]
  BY <1>2, HeadTailProperties DEF TypeOK
<1>4. /\ ShapeOK(s) /\ (s # <<>> => Head(s).call = "unref")
      /\ \A p : Back(s, p) = IF op = [obj |-> p, dir |-> "UP"] THEN 1 ELSE 0
  <2>1. op.obj \in Objects /\ op = [obj |-> op.obj, dir |-> op.dir]
    BY <1>3 DEF Operations
  <2>2. CASE op.dir = "UP"
    <3>1. s = <<Frame("unref", op.obj, "DOWN")>>
      BY <2>2 DEF needs_unref
    <3>2. /\ ShapeOK(s) /\ Head(s).call = "unref"
          /\ \A p : Back(s, p) = IF p = op.obj THEN 1 ELSE 0
      <4> HIDE DEF s, op
      <4> QED
        BY <2>1, <3>1, UnrefOnly
    <3>3. \A p : p = op.obj <=> op = [obj |-> p, dir |-> "UP"]
      BY <2>1, <2>2
    <3> QED
      BY <3>2, <3>3
  <2>3. CASE op.dir # "UP"
    <3>1. s = <<>> /\ \A p : op # [obj |-> p, dir |-> "UP"]
      BY <2>3 DEF needs_unref
    <3> QED
      BY <3>1, BackEmpty DEF ShapeOK
  <2> QED
    BY <2>2, <2>3
<1>5. \A p \in Objects :
          Queued(p) = Queued(p)' + (IF op = [obj |-> p, dir |-> "UP"] THEN 1 ELSE 0)
  BY <1>2, QueuedTaken
<1> HIDE DEF op, s
<1>6. stack'[Main] = s /\ \A u \in Threads \ {Main} : stack'[u] = stack[u] /\ held'[u] = held[u]
  BY <1>1, <1>2 DEF TypeOK
<1>7. ASSUME NEW p \in Objects
      PROVE  refs'[p] - refs[p] = (Root(p)' - Root(p)) + (Of(Main, p)' - Of(Main, p)) + (Queued(p)' - Queued(p))
  <2>1. held[Main][p] \in Nat /\ held'[Main][p] = held[Main][p] /\ refs[p] \in Int /\ refs'[p] = refs[p]
    BY <1>1, <1>2 DEF TypeOK
  <2>2. Root(p)' = Root(p) /\ Root(p) \in 0..1
    BY <1>2 DEF Root
  <2>3. /\ Queued(p) = Queued(p)' + (IF op = [obj |-> p, dir |-> "UP"] THEN 1 ELSE 0)
        /\ Queued(p) \in Nat /\ Queued(p)' \in Nat
    <3>1. Queued(p) \in Nat
      BY <1>1, Shares DEF Accounts
    <3>2. queue' \in Seq(Operations)
      BY DEF TypeOK
    <3>3. Queued(p)' = Cardinality({i \in 1..Len(queue') : queue'[i] = [obj |-> p, dir |-> "UP"]})
      BY DEF Queued, QueuedRefs
    <3>4. Queued(p)' \in Nat
      BY <3>2, <3>3, QueuedTyped
    <3> QED
      BY <1>5, <3>1, <3>4
  <2>4. Of(Main, p)' = Of(Main, p) + (IF op = [obj |-> p, dir |-> "UP"] THEN 1 ELSE 0) /\ Of(Main, p) \in Nat
    BY <1>2, <1>4, <1>6, <2>1, BackEmpty DEF Of
  <2> QED
    BY <2>1, <2>2, <2>3, <2>4
<1>8. ShapeOK(stack'[Main]) /\ TopOK(Main)'
  BY <1>4, <1>6 DEF TopOK
<1>9. QueueOK'
  <2>1. \A i \in 1..Len(queue') : i + 1 \in 1..Len(queue)
    BY <1>3
  <2> QED
    BY <1>2, <1>3, <2>1 DEF Accounts, QueueOK
<1>10. WrappersOK' /\ \A p \in Objects : toggleRef[p] => toggleRef'[p]
  BY <1>2 DEF Accounts, WrappersOK
<1> QED
  BY <1>1, <1>6, <1>7, <1>8, <1>9, <1>10, Balanced

-----------------------------------------------------------------------------
(* The invariant of the types, with the accounts.                          *)
RInv == TypeOK /\ PendingCount /\ Accounts

LEMMA InitAccounts == Init => Accounts
<1> SUFFICES ASSUME Init PROVE Accounts
  OBVIOUS
<1>1. RefAccounting
  <2> SUFFICES ASSUME NEW o \in Objects
               PROVE  refs[o] = (IF toggleRef[o] THEN 1 ELSE 0) + Cardinality(HeldRefs(o))
                                + Cardinality(CallRefs(o)) + Cardinality(QueuedRefs(o))
    BY DEF RefAccounting
  <2>1. HeldRefs(o) = {} /\ CallRefs(o) = {}
    <3>1. \A t \in Threads : 1..held[t][o] = {} /\ Gives(stack[t], o) = {}
      BY DEF Init, Gives
    <3> QED
      BY <3>1 DEF HeldRefs, CallRefs, Pairs
  <2>2. QueuedRefs(o) = {}
    BY DEF Init, QueuedRefs
  <2>3. refs[o] = 0 /\ ~toggleRef[o]
    BY DEF Init
  <2> QED
    BY <2>1, <2>2, <2>3, FS_EmptySet
<1>2. StacksOK
  BY DEF Init, StacksOK, ShapeOK, TopOK
<1>3. QueueOK /\ WrappersOK
  BY DEF Init, QueueOK, WrappersOK
<1> QED
  BY <1>1, <1>2, <1>3 DEF Accounts

LEMMA AccountsStep ==
    ASSUME TypeOK, TypeOK', Accounts, [Next]_vars
    PROVE  Accounts'
<1>1. ASSUME NEW t \in Threads, Library(t)
      PROVE  Accounts'
  BY <1>1, NewInCAccounts, RefAccounts, UnrefAccounts DEF Library
<1>2. ASSUME NEW t \in Threads, Calls(t)
      PROVE  Accounts'
  BY <1>2, UnrefCallAccounts, NotifyAccounts, AttachAccounts DEF Calls
<1>3. ASSUME UNCHANGED <<refs, held, toggleRef, queue, stack>>, WrappersOK'
      PROVE  Accounts'
  <2>1. RefAccounting'
    BY <1>3 DEF Accounts, RefAccounting, HeldRefs, CallRefs, QueuedRefs
  <2>2. StacksOK'
    BY <1>3 DEF Accounts, StacksOK, TopOK, Of
  <2>3. QueueOK'
    BY <1>3 DEF Accounts, QueueOK
  <2> QED
    BY <1>3, <2>1, <2>2, <2>3 DEF Accounts
<1>4. ASSUME NEW o \in Objects,
             \/ JSDrop(o)
             \/ object_instance_finalize(o)
             \/ gwkjs_object_from_g_object(o) /\ wrapper[o] # "none"
      PROVE  Accounts'
  <2>1. UNCHANGED <<refs, held, toggleRef, queue, stack>>
    BY <1>4 DEF JSDrop, object_instance_finalize, gwkjs_object_from_g_object, gobject, loop
  <2>2. WrappersOK'
    BY <1>4 DEF JSDrop, object_instance_finalize, gwkjs_object_from_g_object, gobject,
                Accounts, WrappersOK, TypeOK
  <2> QED
    BY <1>3, <2>1, <2>2
<1>5. CASE JavaScript
  BY <1>4, <1>5, WrappingAccounts, SingletonAccounts DEF JavaScript
<1>6. CASE idle_handle_toggle
  BY <1>6, IdleAccounts
<1>7. CASE toggle_ref_notify_operation_free \/ UNCHANGED vars
  <2>1. UNCHANGED <<refs, held, toggleRef, queue, stack, wrapper>>
    BY <1>7 DEF toggle_ref_notify_operation_free, vars, gobject, js, loop
  <2>2. WrappersOK'
    BY <2>1 DEF Accounts, WrappersOK
  <2> QED
    BY <1>3, <2>1, <2>2
<1> QED
  BY <1>1, <1>2, <1>5, <1>6, <1>7 DEF Next

(* A source queued for TOGGLE_UP owns a reference beside the wrapper's.    *)
LEMMA QueuedUpShares ==
    ASSUME TypeOK, Accounts
    PROVE  \A i \in 1..Len(queue) : queue[i].dir = "UP" => refs[queue[i].obj] > 1
<1> SUFFICES ASSUME NEW i \in 1..Len(queue), queue[i].dir = "UP"
             PROVE  refs[queue[i].obj] > 1
  OBVIOUS
<1> DEFINE o == queue[i].obj
<1>1. Main \in Threads
  BY ToggleRefAssumption DEF ToggleRefAssumption
<1>2. o \in Objects /\ queue[i] = [obj |-> o, dir |-> "UP"]
  <2>1. queue[i] \in Operations
    BY DEF TypeOK
  <2> QED
    BY <2>1 DEF Operations
<1>3. /\ refs[o] = Root(o) + Others(Main, o) + Of(Main, o) + Queued(o)
      /\ Others(Main, o) \in Nat /\ Of(Main, o) \in Nat /\ Queued(o) \in Nat
  BY <1>1, <1>2, Shares DEF Accounts
<1>4. Root(o) = 1
  BY DEF Accounts, QueueOK, Root
<1>5. Queued(o) # 0
  <2>1. IsFiniteSet(QueuedRefs(o))
    BY QueuedTyped DEF QueuedRefs, TypeOK
  <2>2. i \in QueuedRefs(o)
    BY <1>2 DEF QueuedRefs
  <2> QED
    BY <2>1, <2>2, FS_EmptySet DEF Queued
<1> HIDE DEF o
<1>6. refs[o] > 1
  BY <1>3, <1>4, <1>5
<1> QED
  BY <1>6 DEF o

(* Of the two calls of a stack the second is an unref.                     *)
LEMMA OneNotification ==
    ASSUME TypeOK, Accounts, NEW t \in Threads, NEW i \in 1..Len(stack[t]), NEW j \in 1..Len(stack[t]),
           stack[t][i].call # "unref", stack[t][j].call # "unref"
    PROVE  i = j
<1> DEFINE s == stack[t]
<1>1. s \in Seq(Frames) /\ ShapeOK(s) /\ s # <<>>
  BY EmptySeq DEF TypeOK, Accounts, StacksOK
<1> HIDE DEF s
<1>2. /\ Len(s) \in Nat /\ Tail(s) \in Seq(Frames) /\ Len(Tail(s)) = Len(s) - 1
      /\ \A k \in 1..Len(Tail(s)) : Tail(s)[k] = s[k + 1]
  BY <1>1, HeadTailProperties
<1>3. CASE Tail(s) = <<>>
  <2>1. Len(Tail(s)) = 0
    BY <1>2, <1>3, EmptySeq
  <2>2. Len(s) = 1
    <3>1. Len(s) \in Nat /\ Len(Tail(s)) = Len(s) - 1
      BY <1>2
    <3> QED
      BY <2>1, <3>1
  <2> QED
    BY <2>2 DEF s
<1>4. CASE Tail(s) # <<>> /\ Tail(Tail(s)) = <<>> /\ Head(Tail(s)).call = "unref"
  <2>1. Len(Tail(Tail(s))) = Len(Tail(s)) - 1 /\ Head(Tail(s)) = Tail(s)[1] /\ Len(Tail(s)) \in Nat
    BY <1>2, <1>4, HeadTailProperties
  <2>2. Len(Tail(s)) = 1 /\ Len(s) = 2
    <3>1. Len(Tail(Tail(s))) = 0
      BY <1>2, <1>4, EmptySeq, HeadTailProperties
    <3> QED
      BY <1>2, <2>1, <3>1
  <2>3. s[2].call = "unref"
    BY <1>2, <1>4, <2>1, <2>2
  <2>4. i \in 1..2 /\ j \in 1..2 /\ i # 2 /\ j # 2
    BY <2>2, <2>3 DEF s
  <2> QED
    BY <2>4
<1> QED
  BY <1>1, <1>3, <1>4 DEF ShapeOK

(* Every reference on a GObject has one owner who gives it back - its      *)
(* wrapper, a thread, a queued TOGGLE_UP or a call under way - and a       *)
(* queued TOGGLE_UP keeps its object shared, however many threads take,    *)
(* drop and hand over references, and in whatever order they are notified. *)
THEOREM ReferencesNeverLost == Spec => []ReferencesSound
<1>1. Init => RInv
  BY InitIInv, InitAccounts DEF IInv, RInv
<1>2. RInv /\ [Next]_vars => RInv'
  BY TypeStep, PendingStep, AccountsStep, ToggleRefAssumption DEF RInv
<1>3. RInv => ReferencesSound
  BY QueuedUpShares, OneNotification DEF RInv, Accounts, ReferencesSound, UpKeepsShared
<1> QED
  BY <1>1, <1>2, <1>3, PTL DEF Spec

-----------------------------------------------------------------------------
(* The positions at which o is queued, and a queue that holds it at most   *)
(* twice.                                                                  *)
At(q, o) == {i \in 1..Len(q) : q[i].obj = o}

Lists(q, o, n) ==
    \/ n = <<>> /\ At(q, o) = {}
    \/ \E i \in 1..Len(q) : At(q, o) = {i} /\ n = <<q[i].dir>>
    \/ \E i, j \in 1..Len(q) : i < j /\ At(q, o) = {i, j} /\ n = <<q[i].dir, q[j].dir>>

Listed(q, o) == Lists(q, o, DirsFor(q, o))

LEMMA NthOfOne ==
    ASSUME NEW i \in Nat
    PROVE  Cardinality({i}) = 1 /\ Nth({i}, 1) = i
<1>1. Cardinality({i}) = 1
  BY FS_Singleton
<1>2. \A k \in {i} : {j \in {i} : j <= k} = {i}
  OBVIOUS
<1> QED
  BY <1>1, <1>2 DEF Nth

LEMMA NthOfTwo ==
    ASSUME NEW i \in Nat, NEW j \in Nat, i < j
    PROVE  Cardinality({i, j}) = 2 /\ Nth({i, j}, 1) = i /\ Nth({i, j}, 2) = j
<1>1. Cardinality({i}) = 1 /\ IsFiniteSet({i})
  BY FS_Singleton
<1>2. Cardinality({i} \union {j}) = 2
  <2>1. j \notin {i}
    OBVIOUS
  <2>2. Cardinality({i} \union {j}) = Cardinality({i}) + 1
    BY <1>1, <2>1, FS_AddElement
  <2> QED
    BY <1>1, <2>2
<1>3. {i} \union {j} = {i, j}
  OBVIOUS
<1>4. /\ {k \in {i, j} : k <= i} = {i}
      /\ {k \in {i, j} : k <= j} = {i, j}
  OBVIOUS
<1>5. \A k \in {i, j} : k = i \/ k = j
  OBVIOUS
<1>6. i # j
  OBVIOUS
<1>7. Nth({i, j}, 1) = i
  BY ONLY <1>1, <1>2, <1>3, <1>4, <1>5, <1>6 DEF Nth
<1>8. Nth({i, j}, 2) = j
  BY ONLY <1>1, <1>2, <1>3, <1>4, <1>5, <1>6 DEF Nth
<1> QED
  BY <1>2, <1>3, <1>7, <1>8

(* The list is what the positions say.                                     *)
LEMMA ListsIs ==
    ASSUME NEW q \in Seq(Operations), NEW o, NEW n, Lists(q, o, n)
    PROVE  DirsFor(q, o) = n
<1> DEFINE S == At(q, o)
<1>1. DirsFor(q, o) = [k \in 1..Cardinality(S) |-> q[Nth(S, k)].dir]
  BY DEF DirsFor, At
<1>2. CASE n = <<>> /\ S = {}
  <2>1. Cardinality(S) = 0
    BY <1>2, FS_EmptySet
  <2> HIDE DEF S
  <2> QED
    BY <1>1, <1>2, <2>1
<1>3. ASSUME NEW i \in 1..Len(q), S = {i}, n = <<q[i].dir>>
      PROVE  DirsFor(q, o) = n
  <2> HIDE DEF S
  <2>1. i \in Nat
    OBVIOUS
  <2>2. Cardinality(S) = 1 /\ Nth(S, 1) = i
    BY <1>3, <2>1, NthOfOne
  <2>3. DirsFor(q, o) = [k \in 1..1 |-> q[Nth(S, k)].dir]
    BY <1>1, <2>2
  <2>4. [k \in 1..1 |-> q[Nth(S, k)].dir] = <<q[Nth(S, 1)].dir>>
    OBVIOUS
  <2> QED
    BY <1>3, <2>2, <2>3, <2>4
<1>4. ASSUME NEW i \in 1..Len(q), NEW j \in 1..Len(q), i < j, S = {i, j}, n = <<q[i].dir, q[j].dir>>
      PROVE  DirsFor(q, o) = n
  <2> HIDE DEF S
  <2>1. i \in Nat /\ j \in Nat
    OBVIOUS
  <2>2. Cardinality(S) = 2 /\ Nth(S, 1) = i /\ Nth(S, 2) = j
    BY <1>4, <2>1, NthOfTwo
  <2>3. DirsFor(q, o) = [k \in 1..2 |-> q[Nth(S, k)].dir]
    BY <1>1, <2>2
  <2>4. [k \in 1..2 |-> q[Nth(S, k)].dir] = <<q[Nth(S, 1)].dir, q[Nth(S, 2)].dir>>
    OBVIOUS
  <2> QED
    BY <1>4, <2>2, <2>3, <2>4
<1> QED
  BY <1>2, <1>3, <1>4 DEF Lists

LEMMA AppendOne ==
    ASSUME NEW x, NEW y
    PROVE  Append(<<x>>, y) = <<x, y>>
<1>1. <<x>> \in Seq({x, y}) /\ Len(<<x>>) = 1
  OBVIOUS
<1>2. /\ Append(<<x>>, y) \in Seq({x, y}) /\ Len(Append(<<x>>, y)) = 2
      /\ Append(<<x>>, y)[2] = y /\ Append(<<x>>, y)[1] = x
  BY <1>1, AppendProperties
<1>3. <<x, y>> \in Seq({x, y}) /\ Len(<<x, y>>) = 2
  OBVIOUS
<1>4. \A k \in 1..2 : Append(<<x>>, y)[k] = <<x, y>>[k]
  BY <1>2
<1> QED
  BY <1>2, <1>3, <1>4, SeqEqual

(* A source goes to the end of the list of its object, and of no other.    *)
LEMMA ListAppended ==
    ASSUME NEW q \in Seq(Operations), NEW op \in Operations, NEW o,
           Listed(q, o),
           op.obj = o => DirsFor(q, o) = <<>> \/ \E d : DirsFor(q, o) = <<d>>
    PROVE  LET r == Append(q, op) IN
           /\ Listed(r, o)
           /\ DirsFor(r, o) = IF op.obj = o THEN Append(DirsFor(q, o), op.dir) ELSE DirsFor(q, o)
<1> DEFINE r == Append(q, op)
           n == DirsFor(q, o)
           m == IF op.obj = o THEN Append(n, op.dir) ELSE n
           e == Len(q) + 1
<1>1. /\ r \in Seq(Operations) /\ Len(q) \in Nat /\ Len(r) = e /\ r[e] = op
      /\ \A i \in 1..Len(q) : r[i] = q[i]
  BY AppendProperties
<1> HIDE DEF r
<1>2. 1..e = 1..Len(q) \union {e} /\ e \notin 1..Len(q) /\ \A i \in 1..Len(q) : i < e /\ i \in 1..e
  BY <1>1
<1>3. At(r, o) = At(q, o) \union (IF op.obj = o THEN {e} ELSE {})
  BY <1>1, <1>2 DEF At
<1>4. Lists(q, o, n)
  BY DEF Listed
<1> HIDE DEF n, e
<1>5. Lists(r, o, m)
  <2>1. CASE op.obj # o
    <3>1. At(r, o) = At(q, o) /\ m = n
      BY <1>3, <2>1
    <3>2. CASE n = <<>> /\ At(q, o) = {}
      BY <3>1, <3>2 DEF Lists
    <3>3. ASSUME NEW i \in 1..Len(q), At(q, o) = {i}, n = <<q[i].dir>>
          PROVE  Lists(r, o, m)
      BY <1>1, <1>2, <3>1, <3>3 DEF Lists
    <3>4. ASSUME NEW i \in 1..Len(q), NEW j \in 1..Len(q), i < j, At(q, o) = {i, j},
                 n = <<q[i].dir, q[j].dir>>
          PROVE  Lists(r, o, m)
      <4>1. i \in 1..Len(r) /\ j \in 1..Len(r) /\ m = <<r[i].dir, r[j].dir>> /\ At(r, o) = {i, j}
        BY <1>1, <1>2, <3>1, <3>4
      <4> QED
        BY <3>4, <4>1 DEF Lists
    <3> QED
      BY <1>4, <3>2, <3>3, <3>4 DEF Lists
  <2>2. CASE op.obj = o
    <3>1. At(r, o) = At(q, o) \union {e} /\ m = Append(n, op.dir) /\ e \in 1..Len(r)
      BY <1>1, <1>2, <1>3, <2>2
    <3>2. CASE n = <<>> /\ At(q, o) = {}
      <4>1. At(r, o) = {e} /\ m = <<r[e].dir>>
        BY <1>1, <3>1, <3>2
      <4> QED
        BY <3>1, <4>1 DEF Lists
    <3>3. ASSUME NEW i \in 1..Len(q), At(q, o) = {i}, n = <<q[i].dir>>
          PROVE  Lists(r, o, m)
      <4>1. At(r, o) = {i, e} /\ i < e /\ i \in 1..Len(r)
        BY <1>1, <1>2, <3>1, <3>3
      <4>2. m = <<r[i].dir, r[e].dir>>
        <5>1. Append(<<q[i].dir>>, op.dir) = <<q[i].dir, op.dir>>
          BY AppendOne
        <5>2. r[i] = q[i] /\ r[e] = op
          BY <1>1, <3>3
        <5> QED
          BY <3>1, <3>3, <5>1, <5>2
      <4> QED
        BY <3>1, <4>1, <4>2 DEF Lists
    <3>4. ASSUME NEW i \in 1..Len(q), NEW j \in 1..Len(q), n = <<q[i].dir, q[j].dir>>
          PROVE  FALSE
      <4>1. Len(n) = 2
        BY <3>4
      <4>2. Len(n) < 2
        <5>1. CASE n = <<>>
          BY <5>1
        <5>2. ASSUME NEW d, n = <<d>>
              PROVE  Len(n) < 2
          BY <5>2
        <5> QED
          BY <2>2, <5>1, <5>2 DEF n
      <4> QED
        BY <4>1, <4>2
    <3> QED
      BY <1>4, <3>2, <3>3, <3>4 DEF Lists
  <2> QED
    BY <2>1, <2>2
<1>6. DirsFor(r, o) = m
  BY <1>1, <1>5, ListsIs
<1> QED
  BY <1>5, <1>6 DEF Listed, r, n

(* The first source leaves from the head of the list of its object.        *)
LEMMA ListTaken ==
    ASSUME NEW q \in Seq(Operations), q # <<>>, NEW o, Listed(q, o)
    PROVE  LET r == Tail(q)
               n == DirsFor(q, o)
           IN /\ Listed(r, o)
              /\ DirsFor(r, o) = IF Head(q).obj = o THEN Tail(n) ELSE n
              /\ Head(q).obj = o => n # <<>> /\ Head(n) = Head(q).dir
<1> DEFINE r == Tail(q)
           n == DirsFor(q, o)
           m == IF Head(q).obj = o THEN Tail(n) ELSE n
<1>1. /\ r \in Seq(Operations) /\ Len(q) \in Nat \ {0} /\ Len(r) = Len(q) - 1 /\ Head(q) = q[1]
      /\ \A i \in 1..Len(r) : r[i] = q[i + 1]
  BY HeadTailProperties, EmptySeq
<1> HIDE DEF r
<1>2. At(r, o) = {i \in 1..Len(r) : i + 1 \in At(q, o)}
  BY <1>1 DEF At
<1>3. Lists(q, o, n)
  BY DEF Listed
<1>4. 1 \in At(q, o) <=> Head(q).obj = o
  BY <1>1 DEF At
<1> HIDE DEF n
<1>5. Lists(r, o, m) /\ (Head(q).obj = o => n # <<>> /\ Head(n) = Head(q).dir)
  <2>1. CASE n = <<>> /\ At(q, o) = {}
    BY <1>2, <1>4, <2>1 DEF Lists
  <2>2. ASSUME NEW i \in 1..Len(q), At(q, o) = {i}, n = <<q[i].dir>>
        PROVE  Lists(r, o, m) /\ (Head(q).obj = o => n # <<>> /\ Head(n) = Head(q).dir)
    <3>1. CASE i = 1
      <4>1. At(r, o) = {} /\ Head(q).obj = o
        BY <1>1, <1>2, <1>4, <2>2, <3>1
      <4>2. m = <<>> /\ n # <<>> /\ Head(n) = Head(q).dir
        BY <1>1, <2>2, <3>1, <4>1
      <4> QED
        BY <4>1, <4>2 DEF Lists
    <3>2. CASE i # 1
      <4>1. i - 1 \in 1..Len(r) /\ (i - 1) + 1 = i /\ Head(q).obj # o
        BY <1>1, <1>4, <2>2, <3>2
      <4>2. At(r, o) = {i - 1}
        BY <1>1, <1>2, <2>2, <4>1
      <4>3. m = <<r[i - 1].dir>>
        BY <1>1, <2>2, <4>1
      <4> QED
        BY <4>1, <4>2, <4>3 DEF Lists
    <3> QED
      BY <3>1, <3>2
  <2>3. ASSUME NEW i \in 1..Len(q), NEW j \in 1..Len(q), i < j, At(q, o) = {i, j},
               n = <<q[i].dir, q[j].dir>>
        PROVE  Lists(r, o, m) /\ (Head(q).obj = o => n # <<>> /\ Head(n) = Head(q).dir)
    <3>1. j - 1 \in 1..Len(r) /\ (j - 1) + 1 = j /\ r[j - 1] = q[j]
      <4>1. j - 1 \in 1..Len(r) /\ (j - 1) + 1 = j
        BY <1>1, <2>3
      <4> QED
        BY <1>1, <4>1
    <3>2. CASE i = 1
      <4>1. Head(q).obj = o
        BY <1>4, <2>3, <3>2
      <4>2. At(r, o) = {j - 1}
        BY <1>1, <1>2, <2>3, <3>1, <3>2
      <4>3. m = <<r[j - 1].dir>> /\ n # <<>> /\ Head(n) = Head(q).dir
        BY <1>1, <2>3, <3>1, <3>2, <4>1
      <4> QED
        BY <3>1, <4>2, <4>3 DEF Lists
    <3>3. CASE i # 1
      <4>1. i - 1 \in 1..Len(r) /\ (i - 1) + 1 = i /\ Head(q).obj # o /\ i - 1 < j - 1
        BY <1>1, <1>4, <2>3, <3>3
      <4>2. At(r, o) = {i - 1, j - 1}
        BY <1>1, <1>2, <2>3, <3>1, <4>1
      <4>3. r[i - 1] = q[i]
        BY <1>1, <4>1
      <4>4. m = <<r[i - 1].dir, r[j - 1].dir>>
        BY <2>3, <3>1, <4>1, <4>3
      <4> QED
        BY <3>1, <4>1, <4>2, <4>4 DEF Lists
    <3> QED
      BY <3>2, <3>3
  <2> QED
    BY <1>3, <2>1, <2>2, <2>3 DEF Lists
<1>6. DirsFor(r, o) = m
  BY <1>1, <1>5, ListsIs
<1> QED
  BY <1>5, <1>6 DEF Listed, r, n

-----------------------------------------------------------------------------
(* What the queued news n and the news u under way say of an object: that  *)
(* its root is right when there is no news, and that the last news tells   *)
(* whether the object is shared.  The qdata holds the queued directions.   *)
Fits(n, u, keep, shared) ==
    \/ u = <<>> /\ n = <<>> /\ (keep <=> shared)
    \/ u = <<>> /\ n = <<"DOWN">> /\ ~shared
    \/ u = <<>> /\ n \in {<<"UP">>, <<"DOWN", "UP">>} /\ shared
    \/ u = <<"UP">> /\ n \in {<<>>, <<"DOWN">>} /\ shared
    \/ u = <<"DOWN">> /\ n = <<>> /\ ~shared

Remembers(n, q) ==
    /\ q["UP"] <=> n \in {<<"UP">>, <<"DOWN", "UP">>}
    /\ q["DOWN"] <=> n \in {<<"DOWN">>, <<"DOWN", "UP">>}

Told(o) ==
    /\ Listed(queue, o)
    /\ Fits(QueuedFor(o), UnderWay(o), keepAlive[o], Shared(o))
    /\ Remembers(QueuedFor(o), qdata[o])

(* The short sequences that news is made of.                               *)
LEMMA NewsApart ==
    /\ <<"UP">> # <<>> /\ <<"DOWN">> # <<>> /\ <<"DOWN", "UP">> # <<>>
    /\ <<"UP">> # <<"DOWN">> /\ <<"UP">> # <<"DOWN", "UP">> /\ <<"DOWN">> # <<"DOWN", "UP">>
OBVIOUS

LEMMA NewsParts ==
    /\ Head(<<"UP">>) = "UP" /\ Tail(<<"UP">>) = <<>>
    /\ Head(<<"DOWN">>) = "DOWN" /\ Tail(<<"DOWN">>) = <<>>
    /\ Head(<<"DOWN", "UP">>) = "DOWN" /\ Tail(<<"DOWN", "UP">>) = <<"UP">>
OBVIOUS

LEMMA AppendNone ==
    ASSUME NEW x
    PROVE  Append(<<>>, x) = <<x>>
<1>1. <<>> \in Seq({x})
  OBVIOUS
<1>2. /\ Append(<<>>, x) \in Seq({x}) /\ Len(Append(<<>>, x)) = 1
      /\ Append(<<>>, x)[1] = x
  BY <1>1, AppendProperties
<1>3. <<x>> \in Seq({x}) /\ Len(<<x>>) = 1 /\ <<x>>[1] = x
  OBVIOUS
<1> QED
  BY <1>2, <1>3, SeqEqual

LEMMA NewsAppended ==
    /\ Append(<<>>, "UP") = <<"UP">> /\ Append(<<>>, "DOWN") = <<"DOWN">>
    /\ Append(<<"DOWN">>, "UP") = <<"DOWN", "UP">>
BY AppendNone, AppendOne

LEMMA NewsJoined ==
    /\ <<>> \o <<>> = <<>> /\ <<>> \o <<"UP">> = <<"UP">> /\ <<>> \o <<"DOWN">> = <<"DOWN">>
    /\ <<"UP">> \o <<>> = <<"UP">> /\ <<"DOWN">> \o <<>> = <<"DOWN">>
    /\ <<"DOWN", "UP">> \o <<>> = <<"DOWN", "UP">>
    /\ <<"DOWN">> \o <<"UP">> = <<"DOWN", "UP">>
<1>1. /\ <<>> \in Seq(Directions) /\ <<"UP">> \in Seq(Directions)
      /\ <<"DOWN">> \in Seq(Directions) /\ <<"DOWN", "UP">> \in Seq(Directions)
  BY DEF Directions
<1>2. "UP" \in Directions
  BY DEF Directions
<1>3. <<"DOWN">> \o <<"UP">> = Append(<<"DOWN">>, "UP")
  BY <1>1, <1>2, AppendIsConcat
<1> QED
  BY <1>1, <1>3, NewsAppended, ConcatEmptySeq

(* It is shared no more, and no UP is queued: nothing was to be told.      *)
LEMMA FitsUnshared ==
    ASSUME NEW n, NEW keep, NEW shared, Fits(n, <<>>, keep, shared), shared,
           n # <<"UP">>, n # <<"DOWN", "UP">>
    PROVE  /\ n = <<>> /\ Fits(n, <<"DOWN">>, keep, FALSE)
           /\ n \o <<>> = <<>> /\ n \o <<"DOWN">> = <<"DOWN">>
<1>1. n = <<>>
  BY NewsApart DEF Fits
<1> QED
  BY <1>1, NewsJoined DEF Fits

(* News under way is queued.                                               *)
LEMMA FitsAttached ==
    ASSUME NEW n, NEW d \in Directions, NEW keep, NEW shared, NEW q \in [Directions -> BOOLEAN],
           Fits(n, <<d>>, keep, shared), Remembers(n, q)
    PROVE  /\ n = <<>> \/ \E e : n = <<e>>
           /\ Fits(Append(n, d), <<>>, keep, shared)
           /\ Append(n, d) \o <<>> = n \o <<d>>
           /\ Remembers(Append(n, d), [q EXCEPT ![d] = TRUE])
<1>1. \/ d = "UP" /\ n \in {<<>>, <<"DOWN">>} /\ shared
      \/ d = "DOWN" /\ n = <<>> /\ ~shared
  <2>1. /\ <<d>> # <<>> /\ (<<d>> = <<"UP">> => d = "UP") /\ (<<d>> = <<"DOWN">> => d = "DOWN")
    OBVIOUS
  <2> QED
    BY <2>1 DEF Fits
<1>2. CASE d = "UP" /\ n = <<>> /\ shared
  <2>1. Append(n, d) = <<"UP">>
    BY <1>2, NewsAppended
  <2>2. Fits(Append(n, d), <<>>, keep, shared)
    BY <1>2, <2>1 DEF Fits
  <2>3. Remembers(Append(n, d), [q EXCEPT ![d] = TRUE])
    BY <1>2, <2>1, NewsApart DEF Remembers, Directions
  <2> QED
    BY <1>2, <2>1, <2>2, <2>3, NewsJoined
<1>3. CASE d = "UP" /\ n = <<"DOWN">> /\ shared
  <2>1. Append(n, d) = <<"DOWN", "UP">>
    BY <1>3, NewsAppended
  <2>2. Fits(Append(n, d), <<>>, keep, shared)
    BY <1>3, <2>1 DEF Fits
  <2>3. Remembers(Append(n, d), [q EXCEPT ![d] = TRUE])
    BY <1>3, <2>1, NewsApart DEF Remembers, Directions
  <2> QED
    BY <1>3, <2>1, <2>2, <2>3, NewsJoined
<1>4. CASE d = "DOWN" /\ n = <<>> /\ ~shared
  <2>1. Append(n, d) = <<"DOWN">>
    BY <1>4, NewsAppended
  <2>2. Fits(Append(n, d), <<>>, keep, shared)
    BY <1>4, <2>1 DEF Fits
  <2>3. Remembers(Append(n, d), [q EXCEPT ![d] = TRUE])
    BY <1>4, <2>1, NewsApart DEF Remembers, Directions
  <2> QED
    BY <1>4, <2>1, <2>2, <2>3, NewsJoined
<1> QED
  BY <1>1, <1>2, <1>3, <1>4

(* The first news is delivered: the root becomes what it says.             *)
LEMMA FitsDelivered ==
    ASSUME NEW n, NEW keep, NEW shared, NEW q \in [Directions -> BOOLEAN], NEW keep2,
           n # <<>>, Fits(n, <<>>, keep, shared), Remembers(n, q),
           keep2 <=> Head(n) = "UP"
    PROVE  /\ q[Head(n)]
           /\ Fits(Tail(n), <<>>, keep2, shared)
           /\ n \o <<>> = n /\ Tail(n) \o <<>> = Tail(n)
           /\ Remembers(Tail(n), [q EXCEPT ![Head(n)] = FALSE])
<1>1. \/ n = <<"DOWN">> /\ ~shared
      \/ n \in {<<"UP">>, <<"DOWN", "UP">>} /\ shared
  BY NewsApart DEF Fits
<1>2. CASE n = <<"DOWN">> /\ ~shared
  <2>1. Head(n) = "DOWN" /\ Tail(n) = <<>>
    BY <1>2, NewsParts
  <2>2. Fits(Tail(n), <<>>, keep2, shared)
    BY <1>2, <2>1 DEF Fits
  <2>3. q[Head(n)] /\ Remembers(Tail(n), [q EXCEPT ![Head(n)] = FALSE])
    BY <1>2, <2>1, NewsApart DEF Remembers, Directions
  <2> QED
    BY <1>2, <2>1, <2>2, <2>3, NewsJoined
<1>3. CASE n = <<"UP">> /\ shared
  <2>1. Head(n) = "UP" /\ Tail(n) = <<>>
    BY <1>3, NewsParts
  <2>2. Fits(Tail(n), <<>>, keep2, shared)
    BY <1>3, <2>1 DEF Fits
  <2>3. q[Head(n)] /\ Remembers(Tail(n), [q EXCEPT ![Head(n)] = FALSE])
    BY <1>3, <2>1, NewsApart DEF Remembers, Directions
  <2> QED
    BY <1>3, <2>1, <2>2, <2>3, NewsJoined
<1>4. CASE n = <<"DOWN", "UP">> /\ shared
  <2>1. Head(n) = "DOWN" /\ Tail(n) = <<"UP">>
    BY <1>4, NewsParts
  <2>2. Fits(Tail(n), <<>>, keep2, shared)
    BY <1>4, <2>1 DEF Fits
  <2>3. q[Head(n)] /\ Remembers(Tail(n), [q EXCEPT ![Head(n)] = FALSE])
    BY <1>4, <2>1, NewsApart DEF Remembers, Directions
  <2> QED
    BY <1>4, <2>1, <2>2, <2>3, NewsJoined
<1> QED
  BY <1>1, <1>2, <1>3, <1>4

-----------------------------------------------------------------------------
(* The steps of RootMirror, one lemma each: what a step of ToggleRef must  *)
(* do to the objects to be that step, and to leave the news true.          *)
AllTold == \A p \in Objects : Told(p)

MirrorStep == AllTold' /\ (Mirror!Next \/ UNCHANGED Mirror!vars)

(* For p, nothing that the mirror sees has changed.                        *)
Unseen(p) ==
    /\ Listed(queue', p) /\ DirsFor(queue', p) = DirsFor(queue, p)
    /\ UnderWay(p)' = UnderWay(p)
    /\ Shared(p)' <=> Shared(p)
    /\ keepAlive'[p] <=> keepAlive[p]
    /\ qdata'[p] = qdata[p]

LEMMA UnseenTold ==
    ASSUME NEW p \in Objects, Told(p), Unseen(p)
    PROVE  Told(p)' /\ News(p)' = News(p)
<1>1. Fits(QueuedFor(p), UnderWay(p), keepAlive[p], Shared(p))'
  BY DEF Told, Unseen, Fits, QueuedFor
<1>2. Remembers(QueuedFor(p), qdata[p])'
  BY DEF Told, Unseen, Remembers, QueuedFor
<1> QED
  BY <1>1, <1>2 DEF Told, Unseen, News, QueuedFor

LEMMA MirrorStutters ==
    ASSUME AllTold, \A p \in Objects : Unseen(p),
           toggleRef' = toggleRef, keepAlive' = keepAlive
    PROVE  MirrorStep
<1>1. \A p \in Objects : Told(p)' /\ News(p)' = News(p)
  BY UnseenTold DEF AllTold
<1>2. \A p \in Objects : Shared(p)' = Shared(p)
  BY DEF Unseen, Shared
<1>3. [p \in Objects |-> News(p)]' = [p \in Objects |-> News(p)]
  BY <1>1
<1>4. [p \in Objects |-> Shared(p)]' = [p \in Objects |-> Shared(p)]
  BY <1>2
<1>5. UNCHANGED Mirror!vars
  BY <1>3, <1>4 DEF Mirror!vars
<1> QED
  BY <1>1, <1>5 DEF MirrorStep, AllTold

LEMMA MirrorShares ==
    ASSUME AllTold, NEW o \in Objects, \A p \in Objects \ {o} : Unseen(p),
           UNCHANGED <<toggleRef, keepAlive, qdata, queue>>,
           toggleRef[o], ~Shared(o), Shared(o)',
           UnderWay(o) = <<>>, UnderWay(o)' = <<"UP">>
    PROVE  MirrorStep
<1>1. \A p \in Objects \ {o} : Told(p)' /\ News(p)' = News(p)
  BY UnseenTold DEF AllTold
<1>2. Told(o)
  BY DEF AllTold
<1>3. /\ Fits(QueuedFor(o), <<"UP">>, keepAlive[o], TRUE)
      /\ QueuedFor(o) \o <<"UP">> = Append(QueuedFor(o) \o <<>>, "UP")
  <2>1. QueuedFor(o) \in {<<>>, <<"DOWN">>}
    BY <1>2, NewsApart DEF Told, Fits
  <2>2. Fits(QueuedFor(o), <<"UP">>, keepAlive[o], TRUE)
    BY <2>1 DEF Fits
  <2>3. QueuedFor(o) \o <<"UP">> = Append(QueuedFor(o) \o <<>>, "UP")
    BY <2>1, NewsJoined, NewsAppended
  <2> QED
    BY <2>2, <2>3
<1>4. Told(o)'
  BY <1>2, <1>3 DEF Told, QueuedFor, Fits
<1>5. News(o)' = Append(News(o), "UP")
  BY <1>3 DEF News, QueuedFor
<1>6. \A p \in Objects \ {o} : Shared(p)' = Shared(p)
  BY DEF Unseen, Shared
<1>7. [p \in Objects |-> News(p)]' = [[p \in Objects |-> News(p)] EXCEPT ![o] = Append(@, "UP")]
  BY <1>1, <1>5
<1>8. [p \in Objects |-> Shared(p)]' = [[p \in Objects |-> Shared(p)] EXCEPT ![o] = TRUE]
  <2>1. Shared(o)' = TRUE
    BY DEF Shared
  <2> QED
    BY <1>6, <2>1
<1>9. Mirror!Share(o)
  BY <1>7, <1>8 DEF Mirror!Share
<1> QED
  BY <1>1, <1>4, <1>9 DEF MirrorStep, AllTold, Mirror!Next

LEMMA MirrorUnshares ==
    ASSUME AllTold, NEW o \in Objects, \A p \in Objects \ {o} : Unseen(p),
           UNCHANGED <<toggleRef, keepAlive, qdata, queue>>,
           Shared(o), ~Shared(o)',
           QueuedFor(o) # <<"UP">>, QueuedFor(o) # <<"DOWN", "UP">>,
           UnderWay(o) = <<>>, UnderWay(o)' = <<"DOWN">>
    PROVE  MirrorStep
<1>1. \A p \in Objects \ {o} : Told(p)' /\ News(p)' = News(p)
  BY UnseenTold DEF AllTold
<1>2. Told(o)
  BY DEF AllTold
<1>3. /\ QueuedFor(o) = <<>> /\ Fits(QueuedFor(o), <<"DOWN">>, keepAlive[o], FALSE)
      /\ QueuedFor(o) \o <<>> = <<>> /\ QueuedFor(o) \o <<"DOWN">> = <<"DOWN">>
  BY <1>2, FitsUnshared DEF Told
<1>4. Told(o)'
  BY <1>2, <1>3 DEF Told, QueuedFor, Fits
<1>5. News(o) = <<>> /\ News(o)' = <<"DOWN">>
  BY <1>3 DEF News, QueuedFor
<1>6. \A p \in Objects \ {o} : Shared(p)' = Shared(p)
  BY DEF Unseen, Shared
<1>7. [p \in Objects |-> News(p)]' = [[p \in Objects |-> News(p)] EXCEPT ![o] = <<"DOWN">>]
  BY <1>1, <1>5
<1>8. [p \in Objects |-> Shared(p)]' = [[p \in Objects |-> Shared(p)] EXCEPT ![o] = FALSE]
  <2>1. Shared(o)' = FALSE
    BY DEF Shared
  <2> QED
    BY <1>6, <2>1
<1>9. Mirror!Unshare(o)
  BY <1>5, <1>7, <1>8 DEF Mirror!Unshare
<1> QED
  BY <1>1, <1>4, <1>9 DEF MirrorStep, AllTold, Mirror!Next

(* News under way joins the queued news: the mirror sees one sequence.     *)
LEMMA MirrorAttaches ==
    ASSUME TypeOK, AllTold, NEW o \in Objects, NEW d \in Directions,
           \A p \in Objects \ {o} : Unseen(p),
           UNCHANGED <<toggleRef, refs, keepAlive>>,
           qdata'[o] = [qdata[o] EXCEPT ![d] = TRUE],
           queue' = Append(queue, [obj |-> o, dir |-> d]),
           UnderWay(o) = <<d>>, UnderWay(o)' = <<>>
    PROVE  MirrorStep
<1>1. \A p \in Objects \ {o} : Told(p)' /\ News(p)' = News(p)
  BY UnseenTold DEF AllTold
<1>2. Told(o)
  BY DEF AllTold
<1>3. qdata[o] \in [Directions -> BOOLEAN] /\ queue \in Seq(Operations)
  BY DEF TypeOK
<1>4. /\ QueuedFor(o) = <<>> \/ \E e : QueuedFor(o) = <<e>>
      /\ Fits(Append(QueuedFor(o), d), <<>>, keepAlive[o], Shared(o))
      /\ Append(QueuedFor(o), d) \o <<>> = QueuedFor(o) \o <<d>>
      /\ Remembers(Append(QueuedFor(o), d), qdata'[o])
  <2>1. Fits(QueuedFor(o), <<d>>, keepAlive[o], Shared(o)) /\ Remembers(QueuedFor(o), qdata[o])
    BY <1>2 DEF Told
  <2> QED
    BY ONLY <1>3, <2>1, d \in Directions, qdata'[o] = [qdata[o] EXCEPT ![d] = TRUE], FitsAttached
<1>5. Listed(queue', o) /\ DirsFor(queue', o) = Append(QueuedFor(o), d)
  <2> DEFINE op == [obj |-> o, dir |-> d]
  <2>1. op \in Operations /\ op.obj = o /\ op.dir = d
    BY DEF Operations
  <2>2. Listed(queue, o)
    BY <1>2 DEF Told
  <2> HIDE DEF op
  <2>3. Listed(Append(queue, op), o) /\ DirsFor(Append(queue, op), o) = Append(DirsFor(queue, o), d)
    BY <1>3, <1>4, <2>1, <2>2, ListAppended DEF QueuedFor
  <2> QED
    BY <2>3 DEF op, QueuedFor
<1>6. Shared(o)' <=> Shared(o)
  BY DEF Shared
<1>7. Told(o)'
  BY <1>4, <1>5, <1>6 DEF Told, QueuedFor, Fits
<1>8. News(o)' = News(o)
  BY <1>4, <1>5 DEF News, QueuedFor
<1>9. [p \in Objects |-> News(p)]' = [p \in Objects |-> News(p)]
  BY <1>1, <1>8
<1>10. [p \in Objects |-> Shared(p)]' = [p \in Objects |-> Shared(p)]
  BY DEF Shared
<1>11. UNCHANGED Mirror!vars
  BY <1>9, <1>10 DEF Mirror!vars
<1> QED
  BY <1>1, <1>7, <1>11 DEF MirrorStep, AllTold

LEMMA MirrorDelivers ==
    ASSUME TypeOK, AllTold, NEW o \in Objects, \A p \in Objects \ {o} : Unseen(p),
           UNCHANGED <<toggleRef, refs>>,
           queue # <<>>, Head(queue).obj = o, queue' = Tail(queue),
           keepAlive' = [keepAlive EXCEPT ![o] = (Head(queue).dir = "UP")],
           qdata'[o] = [qdata[o] EXCEPT ![Head(queue).dir] = FALSE],
           UnderWay(o) = <<>>, UnderWay(o)' = <<>>
    PROVE  MirrorStep
<1>1. \A p \in Objects \ {o} : Told(p)' /\ News(p)' = News(p)
  BY UnseenTold DEF AllTold
<1>2. Told(o)
  BY DEF AllTold
<1>3. qdata[o] \in [Directions -> BOOLEAN] /\ queue \in Seq(Operations)
  BY DEF TypeOK
<1>4. /\ Listed(queue', o) /\ DirsFor(queue', o) = Tail(QueuedFor(o))
      /\ QueuedFor(o) # <<>> /\ Head(QueuedFor(o)) = Head(queue).dir
  BY <1>2, <1>3, ListTaken DEF Told, QueuedFor
<1>5. keepAlive'[o] <=> Head(QueuedFor(o)) = "UP"
  BY <1>4 DEF TypeOK
<1>6. /\ Fits(Tail(QueuedFor(o)), <<>>, keepAlive'[o], Shared(o))
      /\ QueuedFor(o) \o <<>> = QueuedFor(o)
      /\ Tail(QueuedFor(o)) \o <<>> = Tail(QueuedFor(o))
      /\ Remembers(Tail(QueuedFor(o)), qdata'[o])
  <2>1. Fits(QueuedFor(o), <<>>, keepAlive[o], Shared(o)) /\ Remembers(QueuedFor(o), qdata[o])
    BY <1>2 DEF Told
  <2>2. qdata'[o] = [qdata[o] EXCEPT ![Head(QueuedFor(o))] = FALSE]
    BY <1>4
  <2>3. PICK n, keep, shared, q, keep2, q2 :
            /\ n = QueuedFor(o) /\ shared = Shared(o) /\ keep = keepAlive[o] /\ keep2 = keepAlive'[o]
            /\ q = qdata[o] /\ q2 = [q EXCEPT ![Head(n)] = FALSE]
    OBVIOUS
  <2>4. /\ n # <<>> /\ Fits(n, <<>>, keep, shared) /\ Remembers(n, q)
        /\ q \in [Directions -> BOOLEAN] /\ (keep2 <=> Head(n) = "UP")
    BY <1>3, <1>4, <1>5, <2>1, <2>3
  <2>5. /\ Fits(Tail(n), <<>>, keep2, shared) /\ Remembers(Tail(n), q2)
        /\ n \o <<>> = n /\ Tail(n) \o <<>> = Tail(n)
    BY ONLY <2>3, <2>4, FitsDelivered
  <2> QED
    BY <2>2, <2>3, <2>5
<1>7. Shared(o)' <=> Shared(o)
  BY DEF Shared
<1>8. Told(o)'
  BY <1>4, <1>6, <1>7 DEF Told, QueuedFor, Fits
<1>9. News(o) = QueuedFor(o) /\ News(o)' = Tail(News(o))
  BY <1>4, <1>6 DEF News, QueuedFor
<1>10. [p \in Objects |-> News(p)]' = [[p \in Objects |-> News(p)] EXCEPT ![o] = Tail(@)]
  BY <1>1, <1>9
<1>11. [p \in Objects |-> Shared(p)]' = [p \in Objects |-> Shared(p)]
  BY DEF Shared
<1>12. Mirror!Deliver(o)
  BY <1>4, <1>9, <1>10, <1>11 DEF Mirror!Deliver
<1> QED
  BY <1>1, <1>8, <1>12 DEF MirrorStep, AllTold, Mirror!Next

LEMMA MirrorAssociates ==
    ASSUME TypeOK, QueueOK, AllTold, NEW o \in Objects, \A p \in Objects \ {o} : Unseen(p),
           UNCHANGED <<queue, qdata>>,
           ~toggleRef[o], toggleRef' = [toggleRef EXCEPT ![o] = TRUE], refs'[o] > 1,
           keepAlive' = [keepAlive EXCEPT ![o] = TRUE],
           UnderWay(o) = <<>>, UnderWay(o)' = <<>>
    PROVE  MirrorStep
<1>1. \A p \in Objects \ {o} : Told(p)' /\ News(p)' = News(p)
  BY UnseenTold DEF AllTold
<1>2. Told(o)
  BY DEF AllTold
<1>3. QueuedFor(o) = <<>>
  <2>1. At(queue, o) = {}
    BY DEF At, QueueOK
  <2> QED
    BY <2>1, ListsIs DEF TypeOK, Lists, QueuedFor
<1>4. keepAlive'[o] = TRUE /\ toggleRef'[o] = TRUE
  BY DEF TypeOK
<1>5. Shared(o)' = TRUE
  BY <1>4 DEF Shared
<1>6. Told(o)'
  BY <1>2, <1>3, <1>4, <1>5 DEF Told, QueuedFor, Fits
<1>7. News(o)' = News(o)
  BY DEF News, QueuedFor
<1>8. \A p \in Objects \ {o} : Shared(p)' = Shared(p)
  BY DEF Unseen, Shared
<1>9. [p \in Objects |-> News(p)]' = [p \in Objects |-> News(p)]
  BY <1>1, <1>7
<1>10. [p \in Objects |-> Shared(p)]' = [[p \in Objects |-> Shared(p)] EXCEPT ![o] = TRUE]
  BY <1>5, <1>8
<1>11. Mirror!Associate(o)
  BY <1>9, <1>10 DEF Mirror!Associate
<1> QED
  BY <1>1, <1>6, <1>11 DEF MirrorStep, AllTold, Mirror!Next

-----------------------------------------------------------------------------
(* The actions of the main thread, when it is the only one.                *)
Under(s, p) ==
    IF s # <<>> /\ Head(s).call # "unref" /\ Head(s).obj = p THEN <<Head(s).dir>> ELSE <<>>

LEMMA UnderIs == \A p : UnderWay(p) = Under(stack[Main], p) /\ UnderWay(p)' = Under(stack'[Main], p)
BY DEF UnderWay, Under

LEMMA UnderLast ==
    ASSUME NEW r, LastUnref(r)
    PROVE  \A p : Under(r, p) = <<>>
BY DEF Under, LastUnref

LEMMA UnderPushed ==
    ASSUME NEW f \in Frames, NEW r \in Seq(Frames)
    PROVE  \A p : Under(<<f>> \o r, p) = IF f.call # "unref" /\ f.obj = p THEN <<f.dir>> ELSE <<>>
<1>1. <<f>> \o r # <<>> /\ Head(<<f>> \o r) = f
  BY Pushed
<1> QED
  BY <1>1 DEF Under

(* Calls that change nothing for p but, it may be, its count.              *)
LEMMA UnseenIf ==
    ASSUME AllTold, NEW p \in Objects,
           toggleRef'[p] = toggleRef[p], keepAlive'[p] = keepAlive[p],
           qdata'[p] = qdata[p], queue' = queue,
           Shared(p)' <=> Shared(p),
           Under(stack'[Main], p) = Under(stack[Main], p)
    PROVE  Unseen(p)
BY UnderIs DEF Unseen, AllTold, Told

(* g_object_ref, on the way to what is left to do.                         *)
LEMMA RefMirrors ==
    ASSUME TypeOK, AllTold, NEW o \in Objects, NEW r \in Seq(Frames), LastUnref(r),
           UNCHANGED <<toggleRef, keepAlive, qdata, queue>>,
           refs' = [refs EXCEPT ![o] = @ + 1],
           \A p : Under(stack[Main], p) = <<>>,
           stack'[Main] = AfterRef(o, r)
    PROVE  MirrorStep
<1>1. refs \in [Objects -> Int]
  BY DEF TypeOK
<1>2. \A p : Under(r, p) = <<>>
  BY UnderLast
<1>3. CASE refs[o] = 1 /\ toggleRef[o]
  <2> DEFINE f == Frame("toggle_notify", o, "UP")
  <2>1. f \in Frames /\ f.call = "toggle_notify" /\ f.obj = o /\ f.dir = "UP"
    BY FrameTyped DEF Frame, Directions
  <2>2. stack'[Main] = <<f>> \o r
    BY <1>3 DEF AfterRef
  <2> HIDE DEF f
  <2>3. \A p : Under(stack'[Main], p) = IF o = p THEN <<"UP">> ELSE <<>>
    BY <2>1, <2>2, UnderPushed
  <2>4. ~Shared(o) /\ Shared(o)'
    BY <1>1, <1>3 DEF Shared
  <2>5. ASSUME NEW p \in Objects \ {o} PROVE Unseen(p)
    <3>1. Shared(p)' <=> Shared(p)
      BY <1>1 DEF Shared
    <3>2. Under(stack'[Main], p) = Under(stack[Main], p)
      BY <2>3
    <3> QED
      BY <3>1, <3>2, UnseenIf
  <2>6. UnderWay(o) = <<>> /\ UnderWay(o)' = <<"UP">>
    BY <2>3, UnderIs
  <2> QED
    BY <1>3, <2>4, <2>5, <2>6, MirrorShares
<1>4. CASE ~(refs[o] = 1 /\ toggleRef[o])
  <2>1. stack'[Main] = r
    BY <1>4 DEF AfterRef
  <2>2. ASSUME NEW p \in Objects PROVE Unseen(p)
    <3>1. Shared(p)' <=> Shared(p)
      BY <1>1, <1>4 DEF Shared
    <3>2. Under(stack'[Main], p) = Under(stack[Main], p)
      BY <1>2, <2>1
    <3> QED
      BY <3>1, <3>2, UnseenIf
  <2> QED
    BY <2>2, MirrorStutters
<1> QED
  BY <1>3, <1>4

(* A queued UP has a reference of its own.                                 *)
LEMMA ListsUp ==
    ASSUME TypeOK, NEW o \in Objects, Told(o),
           QueuedFor(o) = <<"UP">> \/ QueuedFor(o) = <<"DOWN", "UP">>
    PROVE  \E i \in 1..Len(queue) : queue[i] = [obj |-> o, dir |-> "UP"]
<1>1. Lists(queue, o, QueuedFor(o))
  BY DEF Told, Listed, QueuedFor
<1>2. \A i \in 1..Len(queue) : queue[i].obj = o /\ queue[i].dir = "UP" => queue[i] = [obj |-> o, dir |-> "UP"]
  <2> TAKE i \in 1..Len(queue)
  <2>1. queue[i] \in Operations
    BY DEF TypeOK
  <2> QED
    BY <2>1 DEF Operations
<1>3. ASSUME NEW i \in 1..Len(queue), At(queue, o) = {i}, QueuedFor(o) = <<queue[i].dir>>
      PROVE  queue[i].obj = o /\ queue[i].dir = "UP"
  <2>1. i \in At(queue, o)
    BY <1>3
  <2>2. QueuedFor(o)[1] = queue[i].dir /\ Len(QueuedFor(o)) = 1
    BY <1>3
  <2> QED
    BY <2>1, <2>2 DEF At
<1>4. ASSUME NEW i \in 1..Len(queue), NEW j \in 1..Len(queue), At(queue, o) = {i, j},
             QueuedFor(o) = <<queue[i].dir, queue[j].dir>>
      PROVE  queue[j].obj = o /\ queue[j].dir = "UP"
  <2>1. j \in At(queue, o)
    BY <1>4
  <2>2. QueuedFor(o)[2] = queue[j].dir /\ Len(QueuedFor(o)) = 2
    BY <1>4
  <2> QED
    BY <2>1, <2>2 DEF At
<1>5. QueuedFor(o) # <<>>
  BY NewsApart
<1> QED
  BY <1>1, <1>2, <1>3, <1>4, <1>5 DEF Lists

(* g_object_unref, by the owner of a reference: one who makes the object   *)
(* unshared was the only owner beside the wrapper, so no UP is queued.     *)
LEMMA UnrefMirrors ==
    ASSUME TypeOK, Accounts, AllTold, NEW o \in Objects, NEW r \in Seq(Frames), LastUnref(r),
           UNCHANGED <<toggleRef, keepAlive, qdata, queue>>,
           refs' = [refs EXCEPT ![o] = @ - 1], Of(Main, o) > 0,
           \A p : Under(stack[Main], p) = <<>>,
           stack'[Main] = AfterUnref(o, r)
    PROVE  MirrorStep
<1>1. refs \in [Objects -> Int] /\ Main \in Threads
  BY ToggleRefAssumption DEF TypeOK, ToggleRefAssumption
<1>2. \A p : Under(r, p) = <<>>
  BY UnderLast
<1>3. CASE refs[o] = 2 /\ toggleRef[o]
  <2> DEFINE f == Frame("toggle_notify", o, "DOWN")
  <2>1. f \in Frames /\ f.call = "toggle_notify" /\ f.obj = o /\ f.dir = "DOWN"
    BY FrameTyped DEF Frame, Directions
  <2>2. stack'[Main] = <<f>> \o r
    BY <1>3 DEF AfterUnref
  <2> HIDE DEF f
  <2>3. \A p : Under(stack'[Main], p) = IF o = p THEN <<"DOWN">> ELSE <<>>
    BY <2>1, <2>2, UnderPushed
  <2>4. Shared(o) /\ ~Shared(o)'
    BY <1>1, <1>3 DEF Shared
  <2>5. ASSUME NEW p \in Objects \ {o} PROVE Unseen(p)
    <3>1. Shared(p)' <=> Shared(p)
      BY <1>1 DEF Shared
    <3>2. Under(stack'[Main], p) = Under(stack[Main], p)
      BY <2>3
    <3> QED
      BY <3>1, <3>2, UnseenIf
  <2>6. UnderWay(o) = <<>> /\ UnderWay(o)' = <<"DOWN">>
    BY <2>3, UnderIs
  <2>7. Queued(o) = 0
    <3>1. /\ refs[o] = Root(o) + Others(Main, o) + Of(Main, o) + Queued(o)
          /\ Others(Main, o) \in Nat /\ Of(Main, o) \in Nat /\ Queued(o) \in Nat
      BY <1>1, Shares DEF Accounts
    <3>2. Root(o) = 1
      BY <1>3 DEF Root
    <3> QED
      BY <1>3, <3>1, <3>2
  <2>8. QueuedFor(o) # <<"UP">> /\ QueuedFor(o) # <<"DOWN", "UP">>
    <3>1. QueuedRefs(o) = {}
      BY SMTT(30), ZenonT(30), <2>7, QueuedTyped, FS_EmptySet DEF Queued, QueuedRefs, TypeOK
    <3>2. \A i \in 1..Len(queue) : queue[i] # [obj |-> o, dir |-> "UP"]
      BY <3>1 DEF QueuedRefs
    <3> QED
      BY <3>2, ListsUp DEF AllTold
  <2> QED
    BY <2>4, <2>5, <2>6, <2>8, MirrorUnshares
<1>4. CASE ~(refs[o] = 2 /\ toggleRef[o])
  <2>1. stack'[Main] = r
    BY <1>4 DEF AfterUnref
  <2>2. ASSUME NEW p \in Objects PROVE Unseen(p)
    <3>1. Shared(p)' <=> Shared(p)
      BY <1>1, <1>4 DEF Shared
    <3>2. Under(stack'[Main], p) = Under(stack[Main], p)
      BY <1>2, <2>1
    <3> QED
      BY <3>1, <3>2, UnseenIf
  <2> QED
    BY <2>2, MirrorStutters
<1> QED
  BY <1>3, <1>4

LEMMA EmptyStack ==
    /\ <<>> \in Seq(Frames) /\ LastUnref(<<>>)
    /\ \A p : Under(<<>>, p) = <<>>
BY DEF LastUnref, Under

LEMMA LibraryMirrors ==
    ASSUME TypeOK, Accounts, AllTold, Library(Main)
    PROVE  MirrorStep
<1>1. /\ Main \in Threads /\ refs \in [Objects -> Int] /\ held \in [Threads -> [Objects -> Nat]]
      /\ stack \in [Threads -> Seq(Frames)]
  BY ToggleRefAssumption DEF ToggleRefAssumption, TypeOK
<1>2. ASSUME NEW o \in Objects, NewInC(Main, o) PROVE MirrorStep
  <2>1. /\ refs[o] = 0 /\ refs' = [refs EXCEPT ![o] = 1]
        /\ UNCHANGED <<toggleRef, keepAlive, qdata, queue, stack>>
    BY <1>2 DEF NewInC, alive, loop
  <2>2. ASSUME NEW p \in Objects PROVE Unseen(p)
    <3>1. Shared(p)' <=> Shared(p)
      BY <1>1, <2>1 DEF Shared
    <3> QED
      BY <2>1, <3>1, UnseenIf
  <2> QED
    BY <2>1, <2>2, MirrorStutters
<1>3. ASSUME NEW o \in Objects, Ref(Main, o) PROVE MirrorStep
  <2>1. /\ refs' = [refs EXCEPT ![o] = @ + 1] /\ stack[Main] = <<>>
        /\ UNCHANGED <<toggleRef, keepAlive, qdata, queue>>
        /\ stack'[Main] = AfterRef(o, <<>>)
    BY <1>1, <1>3 DEF Ref, Idle, alive, loop
  <2> QED
    BY <2>1, EmptyStack, RefMirrors
<1>4. ASSUME NEW o \in Objects, Unref(Main, o) PROVE MirrorStep
  <2>1. /\ refs' = [refs EXCEPT ![o] = @ - 1] /\ stack[Main] = <<>> /\ held[Main][o] > 0
        /\ UNCHANGED <<toggleRef, keepAlive, qdata, queue>>
        /\ stack'[Main] = AfterUnref(o, <<>>)
    BY <1>1, <1>4 DEF Unref, Idle, alive, loop
  <2>2. Of(Main, o) > 0
    <3>1. held[Main][o] \in Nat /\ Back(stack[Main], o) = 0
      BY <1>1, <2>1, BackEmpty
    <3> QED
      BY <2>1, <3>1 DEF Of
  <2> QED
    BY <2>1, <2>2, EmptyStack, UnrefMirrors
<1> QED
  BY <1>2, <1>3, <1>4 DEF Library

LEMMA CallsMirror ==
    ASSUME TypeOK, Accounts, AllTold, Calls(Main)
    PROVE  MirrorStep
<1> DEFINE h == Head(stack[Main])
           r == Tail(stack[Main])
           o == h.obj
           d == h.dir
<1>1. /\ Main \in Threads /\ refs \in [Objects -> Int] /\ held \in [Threads -> [Objects -> Nat]]
      /\ stack \in [Threads -> Seq(Frames)] /\ stack[Main] # <<>>
  BY ToggleRefAssumption
     DEF ToggleRefAssumption, TypeOK, Calls, UnrefCall, wrapped_gobj_toggle_notify, queue_toggle_idle
<1>2. /\ h \in Frames /\ r \in Seq(Frames) /\ LastUnref(r)
      /\ (h.call = "unref" => r = <<>>) /\ (h.call # "unref" => toggleRef[o])
      /\ \A p : /\ Back(stack[Main], p) = Back(r, p) + (IF GivesBack(h, p) THEN 1 ELSE 0)
               /\ Back(r, p) \in Nat
  BY <1>1, TopIs
<1>3. o \in Objects /\ d \in Directions
  BY <1>2 DEF Frames
<1>4. \A p : Under(stack[Main], p) = IF h.call # "unref" /\ o = p THEN <<d>> ELSE <<>>
  BY <1>1 DEF Under
<1>5. \A p : Under(r, p) = <<>>
  BY <1>2, UnderLast
<1>6. CASE UnrefCall(Main)
  <2>1. /\ h.call = "unref" /\ r = <<>> /\ refs' = [refs EXCEPT ![o] = @ - 1]
        /\ UNCHANGED <<toggleRef, keepAlive, qdata, queue>>
        /\ stack'[Main] = AfterUnref(o, r)
    BY <1>1, <1>2, <1>6 DEF UnrefCall, alive, loop
  <2>2. Of(Main, o) > 0
    <3>1. held[Main][o] \in Nat /\ GivesBack(h, o)
      BY <1>1, <1>3, <2>1 DEF GivesBack
    <3> QED
      BY <1>2, <3>1 DEF Of
  <2>3. \A p : Under(stack[Main], p) = <<>>
    BY <1>4, <2>1
  <2> HIDE DEF h, r, o
  <2> QED
    BY <1>2, <1>3, <2>1, <2>2, <2>3, UnrefMirrors
<1>7. CASE wrapped_gobj_toggle_notify(Main)
  <2> DEFINE f == Frame("attach", o, d)
             rest == <<f>> \o r
  <2>1. /\ h.call = "toggle_notify"
        /\ UNCHANGED <<toggleRef, keepAlive, qdata, queue>>
        /\ \/ d = "UP" /\ refs' = [refs EXCEPT ![o] = @ + 1] /\ stack'[Main] = AfterRef(o, rest)
           \/ d = "DOWN" /\ refs' = refs /\ stack'[Main] = rest
    BY <1>1, <1>7 DEF wrapped_gobj_toggle_notify, alive, loop
  <2>2. f \in Frames /\ f.call = "attach" /\ f.obj = o /\ f.dir = d
    BY <1>3, FrameTyped DEF Frame
  <2> HIDE DEF f
  <2>3. \A p : Under(rest, p) = IF o = p THEN <<d>> ELSE <<>>
    BY <1>2, <2>2, UnderPushed
  <2> HIDE DEF rest, h, r, o, d
  <2>4. d = "UP" => Shared(o)
    <3> SUFFICES ASSUME d = "UP" PROVE Shared(o)
      OBVIOUS
    <3>1. UnderWay(o) = <<"UP">>
      BY <1>4, <2>1, UnderIs
    <3>2. Fits(QueuedFor(o), <<"UP">>, keepAlive[o], Shared(o))
      BY <1>3, <3>1 DEF AllTold, Told
    <3> QED
      BY <3>2, NewsApart DEF Fits
  <2>5. stack'[Main] = rest
    <3>1. d = "UP" => AfterRef(o, rest) = rest
      BY <1>1, <1>3, <2>4 DEF AfterRef, Shared
    <3> QED
      BY <2>1, <3>1
  <2>6. ASSUME NEW p \in Objects PROVE Unseen(p)
    <3>1. refs'[p] = refs[p] \/ (p = o /\ refs'[p] = refs[p] + 1 /\ refs[p] > 1)
      BY <1>1, <1>3, <2>1, <2>4 DEF Shared
    <3>2. Shared(p)' <=> Shared(p)
      BY <1>1, <2>1, <3>1 DEF Shared
    <3>3. Under(stack'[Main], p) = Under(stack[Main], p)
      BY <1>4, <2>1, <2>3, <2>5
    <3> QED
      BY <2>1, <3>2, <3>3, UnseenIf
  <2> QED
    BY <2>1, <2>6, MirrorStutters
<1>8. CASE queue_toggle_idle(Main)
  <2>1. /\ h.call = "attach" /\ UNCHANGED <<toggleRef, refs, keepAlive>>
        /\ qdata' = [qdata EXCEPT ![o][d] = TRUE]
        /\ queue' = Append(queue, [obj |-> o, dir |-> d])
        /\ stack'[Main] = r
    BY <1>1, <1>8 DEF queue_toggle_idle, gobject, alive
  <2> HIDE DEF h, r, o, d
  <2>2. UnderWay(o) = <<d>> /\ \A p : UnderWay(p)' = <<>>
    BY <1>4, <1>5, <2>1, UnderIs
  <2>3. /\ qdata'[o] = [qdata[o] EXCEPT ![d] = TRUE]
        /\ \A p \in Objects \ {o} : qdata'[p] = qdata[p]
    BY <1>3, <2>1 DEF TypeOK
  <2>4. ASSUME NEW p \in Objects \ {o} PROVE Unseen(p)
    <3> DEFINE op == [obj |-> o, dir |-> d]
    <3>1. op \in Operations /\ op.obj # p
      BY <1>3 DEF Operations
    <3> HIDE DEF op
    <3>2. Listed(queue, p) /\ queue \in Seq(Operations)
      BY DEF AllTold, Told, TypeOK
    <3>3. Listed(Append(queue, op), p) /\ DirsFor(Append(queue, op), p) = DirsFor(queue, p)
      BY <3>1, <3>2, ListAppended
    <3>4. UnderWay(p) = <<>>
      BY <1>4, UnderIs
    <3>5. Shared(p)' <=> Shared(p)
      BY <2>1 DEF Shared
    <3> QED
      BY <2>1, <2>2, <2>3, <3>3, <3>4, <3>5 DEF Unseen, op
  <2> QED
    BY <1>3, <2>1, <2>2, <2>3, <2>4, MirrorAttaches
<1> QED
  BY <1>6, <1>7, <1>8 DEF Calls

(* Wrapping an object, with the unref the function ends with.              *)
LEMMA AssociateMirrors ==
    ASSUME TypeOK, Accounts, AllTold, NEW o \in Objects, NEW n \in Nat, n > 1,
           associate_js_gobject(o, n), ~toggleRef[o], stack[Main] = <<>>, Main \in Threads,
           stack' = [stack EXCEPT ![Main] = <<Frame("unref", o, "DOWN")>>],
           UNCHANGED loop
    PROVE  MirrorStep
<1>1. /\ toggleRef' = [toggleRef EXCEPT ![o] = TRUE] /\ keepAlive' = [keepAlive EXCEPT ![o] = TRUE]
      /\ refs' = [refs EXCEPT ![o] = n] /\ UNCHANGED <<queue, qdata>>
  BY DEF associate_js_gobject, loop
<1>2. \A p : Under(stack[Main], p) = <<>> /\ Under(stack'[Main], p) = <<>>
  <2>1. stack'[Main] = <<Frame("unref", o, "DOWN")>>
    BY DEF TypeOK
  <2>2. LastUnref(stack'[Main])
    BY <2>1, UnrefOnly
  <2> QED
    BY <2>2, EmptyStack, UnderLast
<1>3. ASSUME NEW p \in Objects \ {o} PROVE Unseen(p)
  <2>1. toggleRef'[p] = toggleRef[p] /\ keepAlive'[p] = keepAlive[p] /\ refs'[p] = refs[p]
    BY <1>1 DEF TypeOK
  <2>2. Shared(p)' <=> Shared(p)
    BY <2>1 DEF Shared
  <2> QED
    BY <1>1, <1>2, <2>1, <2>2, UnseenIf
<1>4. refs'[o] > 1
  BY <1>1 DEF TypeOK
<1>5. UnderWay(o) = <<>> /\ UnderWay(o)' = <<>>
  BY <1>2, UnderIs
<1> QED
  BY <1>1, <1>3, <1>4, <1>5, MirrorAssociates DEF Accounts

LEMMA JavaScriptMirrors ==
    ASSUME TypeOK, Accounts, AllTold, JavaScript
    PROVE  MirrorStep
<1>1. /\ Main \in Threads /\ refs \in [Objects -> Int] /\ stack \in [Threads -> Seq(Frames)]
  BY ToggleRefAssumption DEF ToggleRefAssumption, TypeOK
<1>2. ASSUME NEW o \in Objects, NEW kept \in 0..1, object_instance_init(o, kept)
      PROVE  MirrorStep
  <2>1. /\ refs[o] = 0 /\ stack[Main] = <<>> /\ associate_js_gobject(o, kept + 2)
        /\ stack' = [stack EXCEPT ![Main] = <<Frame("unref", o, "DOWN")>>] /\ UNCHANGED loop
    BY <1>2 DEF object_instance_init, Idle
  <2>2. ~toggleRef[o]
    BY <1>1, <2>1, Unallocated
  <2>3. kept + 2 \in Nat /\ kept + 2 > 1
    OBVIOUS
  <2> QED
    BY <1>1, <2>1, <2>2, <2>3, AssociateMirrors
<1>3. ASSUME NEW o \in Objects, object_instance_init_singleton(o)
      PROVE  MirrorStep
  <2> DEFINE r == <<Frame("unref", o, "DOWN")>>
  <2>1. /\ refs' = [refs EXCEPT ![o] = @ + 1] /\ stack[Main] = <<>>
        /\ UNCHANGED <<toggleRef, keepAlive, qdata, queue>>
        /\ stack'[Main] = AfterRef(o, r)
    BY <1>1, <1>3 DEF object_instance_init_singleton, Idle, alive, loop
  <2>2. r \in Seq(Frames) /\ LastUnref(r)
    BY UnrefOnly
  <2> HIDE DEF r
  <2> QED
    BY <2>1, <2>2, EmptyStack, RefMirrors
<1>4. ASSUME NEW o \in Objects, gwkjs_object_from_g_object(o)
      PROVE  MirrorStep
  <2>1. CASE wrapper[o] = "none"
    <3>1. /\ stack[Main] = <<>> /\ associate_js_gobject(o, refs[o] + 2) /\ refs[o] > 0
          /\ stack' = [stack EXCEPT ![Main] = <<Frame("unref", o, "DOWN")>>] /\ UNCHANGED loop
      BY <1>4, <2>1 DEF gwkjs_object_from_g_object, Idle, Reaches
    <3>2. ~toggleRef[o]
      BY <2>1 DEF Accounts, WrappersOK
    <3>3. refs[o] + 2 \in Nat /\ refs[o] + 2 > 1
      BY <1>1, <3>1
    <3> QED
      BY <1>1, <3>1, <3>2, <3>3, AssociateMirrors
  <2>2. CASE wrapper[o] # "none"
    <3>1. UNCHANGED <<refs, toggleRef, keepAlive, qdata, queue, stack>>
      BY <1>4, <2>2 DEF gwkjs_object_from_g_object, gobject, alive, loop
    <3>2. \A p \in Objects : Shared(p)' <=> Shared(p)
      BY <3>1 DEF Shared
    <3>3. \A p \in Objects : Unseen(p)
      BY <3>1, <3>2, UnseenIf
    <3> QED
      BY <3>1, <3>3, MirrorStutters
  <2> QED
    BY <2>1, <2>2
<1>5. ASSUME NEW o \in Objects, JSDrop(o) \/ object_instance_finalize(o)
      PROVE  MirrorStep
  <2>1. UNCHANGED <<refs, toggleRef, keepAlive, qdata, queue, stack>>
    BY <1>5 DEF JSDrop, object_instance_finalize, gobject, alive, loop
  <2>2. \A p \in Objects : Shared(p)' <=> Shared(p)
    BY <2>1 DEF Shared
  <2>3. \A p \in Objects : Unseen(p)
    BY <2>1, <2>2, UnseenIf
  <2> QED
    BY <2>1, <2>3, MirrorStutters
<1> QED
  BY <1>2, <1>3, <1>4, <1>5 DEF JavaScript

(* The main loop runs the first source: it is in the qdata, so the keep-   *)
(* alive becomes what it says.                                             *)
LEMMA IdleMirrors ==
    ASSUME TypeOK, Accounts, AllTold, idle_handle_toggle, ~crashed'
    PROVE  MirrorStep
<1> DEFINE op == Head(queue)
           o == op.obj
           d == op.dir
<1>1. /\ Main \in Threads /\ stack \in [Threads -> Seq(Frames)] /\ queue \in Seq(Operations)
      /\ keepAlive \in [Objects -> BOOLEAN] /\ qdata \in [Objects -> [Directions -> BOOLEAN]]
  BY ToggleRefAssumption DEF ToggleRefAssumption, TypeOK
<1>2. /\ queue # <<>> /\ queue' = Tail(queue) /\ stack[Main] = <<>>
      /\ qdata' = [qdata EXCEPT ![o][d] = FALSE]
      /\ stack'[Main] = needs_unref(op)
      /\ UNCHANGED <<toggleRef, refs>>
  BY <1>1 DEF idle_handle_toggle, clear_toggle_idle_source, Idle, gobject
<1>3. op \in Operations /\ o \in Objects /\ d \in Directions
  <2>1. op \in Operations
    BY <1>1, <1>2, HeadTailProperties
  <2> QED
    BY <2>1 DEF Operations
<1>4. \A p : Under(stack[Main], p) = <<>> /\ Under(stack'[Main], p) = <<>>
  <2>1. LastUnref(needs_unref(op))
    <3>1. CASE d = "UP"
      BY <1>3, <3>1, UnrefOnly DEF needs_unref
    <3>2. CASE d # "UP"
      BY <3>2, EmptyStack DEF needs_unref
    <3> QED
      BY <3>1, <3>2
  <2> QED
    BY <1>2, <2>1, EmptyStack, UnderLast
<1>5. \A p : UnderWay(p) = <<>> /\ UnderWay(p)' = <<>>
  BY <1>4, UnderIs
<1>6. qdata[o][d]
  <2>1. Listed(queue, o) /\ Fits(QueuedFor(o), <<>>, keepAlive[o], Shared(o)) /\ Remembers(QueuedFor(o), qdata[o])
    BY <1>3, <1>5 DEF AllTold, Told
  <2>2. QueuedFor(o) # <<>> /\ Head(QueuedFor(o)) = d
    BY <1>1, <1>2, <2>1, ListTaken DEF QueuedFor
  <2>3. \/ QueuedFor(o) = <<"DOWN">> \/ QueuedFor(o) = <<"UP">> \/ QueuedFor(o) = <<"DOWN", "UP">>
    BY <2>1, <2>2, NewsApart DEF Fits
  <2>4. \/ QueuedFor(o) = <<"UP">> /\ d = "UP"
        \/ QueuedFor(o) \in {<<"DOWN">>, <<"DOWN", "UP">>} /\ d = "DOWN"
    BY <2>2, <2>3, NewsParts
  <2> QED
    BY <2>1, <2>4 DEF Remembers
<1>7. keepAlive' = [keepAlive EXCEPT ![o] = (d = "UP")]
  <2>1. \/ d = "UP" /\ handle_toggle_up(o)
        \/ d = "DOWN" /\ handle_toggle_down(o)
    BY <1>6 DEF idle_handle_toggle
  <2>2. CASE d = "UP" /\ handle_toggle_up(o)
    <3>1. keepAlive' = [keepAlive EXCEPT ![o] = TRUE]
      BY <1>1, <1>3, <2>2 DEF handle_toggle_up, alive
    <3>2. (d = "UP") = TRUE
      BY <2>2
    <3> QED
      BY <3>1, <3>2
  <2>3. CASE d = "DOWN" /\ handle_toggle_down(o)
    <3>1. keepAlive' = [keepAlive EXCEPT ![o] = FALSE]
      BY <1>1, <1>3, <2>3 DEF handle_toggle_down, alive
    <3>2. (d = "UP") = FALSE
      BY <2>3
    <3> QED
      BY <3>1, <3>2
  <2> QED
    BY <2>1, <2>2, <2>3
<1> HIDE DEF op, o, d
<1>8. /\ qdata'[o] = [qdata[o] EXCEPT ![d] = FALSE]
      /\ \A p \in Objects \ {o} : qdata'[p] = qdata[p] /\ keepAlive'[p] = keepAlive[p]
  BY <1>1, <1>2, <1>3, <1>7
<1>9. ASSUME NEW p \in Objects \ {o} PROVE Unseen(p)
  <2>1. Listed(queue, p)
    BY DEF AllTold, Told
  <2>2. Listed(queue', p) /\ DirsFor(queue', p) = DirsFor(queue, p)
    BY <1>1, <1>2, <2>1, ListTaken DEF op, o
  <2>3. Shared(p)' <=> Shared(p)
    BY <1>2 DEF Shared
  <2> QED
    BY <1>5, <1>8, <2>2, <2>3 DEF Unseen
<1> QED
  BY <1>2, <1>3, <1>5, <1>7, <1>8, <1>9, MirrorDelivers DEF op, o, d

(* With one thread every step is one of RootMirror's, or changes nothing   *)
(* that it sees.                                                           *)
LEMMA StepMirrors ==
    ASSUME TypeOK, Accounts, AllTold, Threads = {Main}, [Next]_vars, ~crashed'
    PROVE  MirrorStep
<1>1. ASSUME UNCHANGED <<refs, toggleRef, keepAlive, qdata, queue, stack>>
      PROVE  MirrorStep
  <2>1. \A p \in Objects : Shared(p)' <=> Shared(p)
    BY <1>1 DEF Shared
  <2>2. \A p \in Objects : Unseen(p)
    BY <1>1, <2>1, UnseenIf
  <2> QED
    BY <1>1, <2>2, MirrorStutters
<1>2. CASE toggle_ref_notify_operation_free \/ UNCHANGED vars
  BY <1>1, <1>2 DEF toggle_ref_notify_operation_free, vars, gobject, js, alive, loop
<1> QED
  BY <1>2, LibraryMirrors, CallsMirror, JavaScriptMirrors, IdleMirrors DEF Next

(* The invariant: the accounts, and true news until the process dies.      *)
NewsInv == RInv /\ (~crashed => AllTold)

LEMMA InitNews == Init => NewsInv /\ Mirror!Init
<1> SUFFICES ASSUME Init PROVE NewsInv /\ Mirror!Init
  OBVIOUS
<1>1. RInv
  BY InitIInv, InitAccounts DEF IInv, RInv
<1>2. ASSUME NEW o \in Objects
      PROVE  QueuedFor(o) = <<>> /\ Listed(queue, o)
  <2>1. At(queue, o) = {} /\ queue \in Seq(Operations)
    BY <1>1 DEF Init, At, RInv, TypeOK
  <2>2. DirsFor(queue, o) = <<>>
    BY <2>1, ListsIs DEF Lists
  <2> QED
    BY <2>1, <2>2 DEF Listed, Lists, QueuedFor
<1>3. \A o \in Objects : UnderWay(o) = <<>> /\ Shared(o) = FALSE
  <2>1. stack[Main] = <<>> /\ \A o \in Objects : ~toggleRef[o]
    BY ToggleRefAssumption DEF ToggleRefAssumption, Init
  <2> QED
    BY <2>1 DEF UnderWay, Shared
<1>4. AllTold
  <2> SUFFICES ASSUME NEW o \in Objects PROVE Told(o)
    BY DEF AllTold
  <2>1. keepAlive[o] = FALSE /\ \A d \in Directions : ~qdata[o][d]
    BY DEF Init
  <2>2. Fits(QueuedFor(o), UnderWay(o), keepAlive[o], Shared(o))
    BY <1>2, <1>3, <2>1 DEF Fits
  <2>3. Remembers(QueuedFor(o), qdata[o])
    BY <1>2, <2>1, NewsApart DEF Remembers, Directions
  <2> QED
    BY <1>2, <2>2, <2>3 DEF Told
<1>5. \A o \in Objects : News(o) = <<>>
  BY <1>2, <1>3, NewsJoined DEF News
<1>6. Mirror!Init
  BY <1>3, <1>5 DEF Init, Mirror!Init
<1> QED
  BY <1>1, <1>4, <1>6 DEF NewsInv

(* A process that died does nothing more.                                  *)
LEMMA CrashedStays == crashed /\ [Next]_vars => crashed'
<1> SUFFICES ASSUME crashed, [Next]_vars PROVE crashed'
  OBVIOUS
<1>1. CASE UNCHANGED vars
  BY <1>1 DEF vars
<1>2. \A t : ~Library(t) /\ ~Calls(t)
  BY DEF Library, NewInC, Ref, Unref, Idle, Calls, UnrefCall, wrapped_gobj_toggle_notify,
         queue_toggle_idle
<1>3. ~JavaScript
  BY DEF JavaScript, object_instance_init, object_instance_init_singleton,
         gwkjs_object_from_g_object, JSDrop, object_instance_finalize, Idle
<1>4. ~idle_handle_toggle /\ ~toggle_ref_notify_operation_free
  BY DEF idle_handle_toggle, Idle, toggle_ref_notify_operation_free
<1> QED
  BY <1>1, <1>2, <1>3, <1>4 DEF Next

LEMMA NewsStep ==
    ASSUME NewsInv, [Next]_vars, Threads = {Main}
    PROVE  NewsInv' /\ (Mirror!Next \/ UNCHANGED Mirror!vars \/ crashed')
<1>1. RInv'
  BY TypeStep, PendingStep, AccountsStep, ToggleRefAssumption DEF RInv, NewsInv
<1>2. CASE crashed'
  BY <1>1, <1>2 DEF NewsInv
<1>3. CASE ~crashed'
  <2>1. ~crashed
    BY <1>3, CrashedStays
  <2>2. MirrorStep
    BY <1>3, <2>1, StepMirrors DEF NewsInv, RInv
  <2> QED
    BY <1>1, <2>2 DEF MirrorStep, NewsInv
<1> QED
  BY <1>2, <1>3

(* What the mirror knows is what the comments of object.cpp say.           *)
LEMMA NewsDocumented ==
    ASSUME TypeOK, Accounts, AllTold
    PROVE  TogglesAsDocumented
<1>1. AtMostTwoQueued
  BY DEF AllTold, Told, Fits, AtMostTwoQueued
<1>2. ASSUME NEW o \in Objects, Settled(o), wrapper[o] # "none"
      PROVE  keepAlive[o] <=> refs[o] > 1
  <2>1. At(queue, o) = {} /\ queue \in Seq(Operations)
    BY <1>2 DEF Settled, At, TypeOK
  <2>2. QueuedFor(o) = <<>>
    BY <2>1, ListsIs DEF Lists, QueuedFor
  <2>3. UnderWay(o) = <<>>
    <3>1. Main \in Threads /\ stack[Main] \in Seq(Frames)
      BY ToggleRefAssumption DEF ToggleRefAssumption, TypeOK
    <3>2. stack[Main] # <<>> => 1 \in 1..Len(stack[Main]) /\ Head(stack[Main]) = stack[Main][1]
      BY <3>1, EmptySeq, HeadTailProperties
    <3> QED
      BY <1>2, <3>1, <3>2 DEF Settled, UnderWay
  <2>4. toggleRef[o]
    BY <1>2 DEF Accounts, WrappersOK
  <2>5. keepAlive[o] <=> Shared(o)
    BY <2>2, <2>3, NewsApart DEF AllTold, Told, Fits
  <2> QED
    BY <2>4, <2>5 DEF Shared
<1>3. StrongWhenShared
  BY <1>2 DEF StrongWhenShared
<1> QED
  BY <1>1, <1>3 DEF TogglesAsDocumented

(* What object.cpp's comments promise holds of a program with one thread,  *)
(* however references are taken and dropped between the notification of a  *)
(* toggle and its delivery, as long as no collected wrapper was touched.   *)
THEOREM TogglesStayDocumented ==
    ASSUME Threads = {Main}
    PROVE  Spec => [](~crashed => TogglesAsDocumented)
<1>1. Init => NewsInv
  BY InitNews
<1>2. NewsInv /\ [Next]_vars => NewsInv'
  BY NewsStep
<1>3. NewsInv => (~crashed => TogglesAsDocumented)
  BY NewsDocumented DEF NewsInv, RInv
<1> QED
  BY <1>1, <1>2, <1>3, PTL DEF Spec

(* A wrapper that JavaScript never lets go of is not collected, and        *)
(* nothing touches one that is.                                            *)
KeptInv ==
    /\ \A o \in Objects : wrapper[o] # "none" => wrapper[o] = "live" /\ o \in jsHeld
    /\ ~crashed

LEMMA InitKept == Init => KeptInv
BY DEF Init, KeptInv

LEMMA KeptStep ==
    ASSUME TypeOK, KeptInv, [Next]_vars, Pinned = Objects
    PROVE  KeptInv'
<1>1. ASSUME UNCHANGED <<wrapper, jsHeld, crashed>> PROVE KeptInv'
  BY <1>1 DEF KeptInv
<1>2. ASSUME NEW t \in Threads, Library(t) \/ Calls(t) PROVE KeptInv'
  BY <1>1, <1>2 DEF Library, NewInC, Ref, Unref, Calls, UnrefCall, wrapped_gobj_toggle_notify,
                    queue_toggle_idle, js
<1>3. CASE toggle_ref_notify_operation_free \/ UNCHANGED vars
  BY <1>1, <1>3 DEF toggle_ref_notify_operation_free, vars, js
<1>4. CASE idle_handle_toggle
  <2>1. UNCHANGED <<wrapper, jsHeld>> /\ queue # <<>> /\ (crashed' => wrapper[Head(queue).obj] = "collected")
    BY <1>4 DEF idle_handle_toggle, js, Idle
  <2>2. Head(queue) \in Operations
    BY <2>1, HeadTailProperties DEF TypeOK
  <2>3. Head(queue).obj \in Objects
    BY <2>2 DEF Operations
  <2>4. crashed' = FALSE
    BY <1>4, <2>1, <2>3 DEF KeptInv, idle_handle_toggle
  <2> QED
    BY <2>1, <2>4 DEF KeptInv
<1>5. ASSUME NEW o \in Objects, NEW n, associate_js_gobject(o, n), crashed' = crashed PROVE KeptInv'
  BY <1>5 DEF associate_js_gobject, KeptInv, TypeOK
<1>6. ASSUME NEW o \in Objects, wrapper' = wrapper, jsHeld' = jsHeld \union {o}, crashed' = crashed
      PROVE  KeptInv'
  BY <1>6 DEF KeptInv
<1>7. ASSUME NEW o \in Objects, JSDrop(o) \/ object_instance_finalize(o) PROVE FALSE
  <2>1. wrapper[o] = "live" /\ o \notin jsHeld => FALSE
    BY DEF KeptInv
  <2>2. ~object_instance_finalize(o)
    BY <2>1 DEF object_instance_finalize
  <2>3. ~JSDrop(o)
    BY DEF JSDrop
  <2> QED
    BY <1>7, <2>2, <2>3
<1>8. ASSUME NEW o \in Objects, gwkjs_object_from_g_object(o) PROVE KeptInv'
  BY <1>5, <1>6, <1>8 DEF gwkjs_object_from_g_object
<1>9. CASE JavaScript
  BY <1>5, <1>6, <1>7, <1>8, <1>9 DEF JavaScript, object_instance_init, object_instance_init_singleton
<1> QED
  BY <1>2, <1>3, <1>4, <1>9 DEF Next

(* With one thread, and wrappers that JavaScript holds on to, the toggle   *)
(* machine is RootMirror: the root of a wrapper is a delayed copy of "the  *)
(* object is shared", corrected by one piece of news at a time, in order.  *)
(* (That the news is delivered in the end is checked, not proved.)         *)
THEOREM RootMirrorImplemented ==
    ASSUME Threads = {Main}, Pinned = Objects
    PROVE  Spec => Mirror!SafetySpec /\ []TogglesAsDocumented
<1>1. Init => NewsInv /\ KeptInv /\ Mirror!Init
  BY InitNews, InitKept
<1>2. NewsInv /\ KeptInv /\ [Next]_vars => (NewsInv /\ KeptInv)' /\ [Mirror!Next]_(Mirror!vars)
  <2> SUFFICES ASSUME NewsInv, KeptInv, [Next]_vars
               PROVE  (NewsInv /\ KeptInv)' /\ [Mirror!Next]_(Mirror!vars)
    OBVIOUS
  <2>1. KeptInv'
    BY KeptStep DEF NewsInv, RInv
  <2>2. NewsInv' /\ (Mirror!Next \/ UNCHANGED Mirror!vars \/ crashed')
    BY NewsStep
  <2> QED
    BY <2>1, <2>2 DEF KeptInv
<1>3. NewsInv /\ KeptInv => TogglesAsDocumented
  BY NewsDocumented DEF NewsInv, RInv, KeptInv
<1> QED
  BY <1>1, <1>2, <1>3, PTL DEF Spec, Mirror!SafetySpec
=============================================================================

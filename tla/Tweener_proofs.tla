---------------------------- MODULE Tweener_proofs ----------------------------
(* Proofs about the list of tweens (modules/tweener/tweener.js): what the    *)
(* engine remembers across the user's callbacks stays true, and no two       *)
(* tweens of the list animate one property at the same time.                 *)
EXTENDS Tweener, FiniteSetTheorems, SequenceTheorems, WellFoundedInduction, TLAPS

-----------------------------------------------------------------------------
(* The invariant, in terms of the tweens, the list and the callbacks that a  *)
(* step is about to make the state of, before garbage is collected.          *)

Whole(tw) == tw \in Tweens /\ tw.timeStart <= tw.timeComplete

Objects(tws, list, cbs) ==
    /\ tws \in Seq(Tweens \union Garbage) /\ Len(tws) <= MaxTweens
    /\ list \in Seq({Removed} \union DOMAIN tws)
    /\ cbs \in Seq(Frames)
    /\ \A i \in Present(list) : Whole(tws[list[i]])
    /\ \A k \in DOMAIN cbs : cbs[k].tween \in DOMAIN tws /\ Whole(tws[cbs[k].tween])

Listing(tws, list) ==
    /\ \A id \in DOMAIN tws : (tws[id].fate = "listed") <=> (\E i \in DOMAIN list : list[i] = id)
    /\ \A i, j \in Present(list) : list[i] = list[j] => i = j

(* A frame of removeTweensByTime, and one of _updateTweenByIndex.            *)
Overwrites(f) == f.calls = "onOverwrite"

Slotted(tws, list, f) ==
    /\ f.at \in DOMAIN list
    /\ Overwrites(f) <=> tws[f.tween].fate = "new"
    /\ ~Overwrites(f) => /\ list[f.at] = Removed \/ list[f.at] = f.tween
                         /\ \A i \in DOMAIN list : list[i] = f.tween => i = f.at

Placed(tws, list, cbs, w) ==
    /\ w \in 0..(Len(list) + 1)
    /\ \A k \in DOMAIN cbs :
        /\ Slotted(tws, list, cbs[k])
        /\ cbs[k].walking => cbs[k].at = w /\ k = Len(cbs) /\ ~Overwrites(cbs[k])
    /\ \A k, l \in DOMAIN cbs :
        Overwrites(cbs[k]) /\ Overwrites(cbs[l]) /\ cbs[k].tween = cbs[l].tween => k = l

(* An immediate tween is over, and stays so in its callbacks: what pauses it *)
(* there resumes it at the same time.                                        *)
Ended(tw, n) == tw.timeComplete <= n /\ (tw.isPaused => tw.timePaused = n)

Clocked(tws, list, cbs, eng, n) ==
    /\ n \in 0..MaxTime
    /\ (cbs # <<>> \/ Present(list) # {}) => eng
    /\ \A i \in Present(list) : tws[list[i]].isPaused => tws[list[i]].timePaused <= n
    /\ \A k \in DOMAIN cbs :
        IF Overwrites(cbs[k]) THEN ~tws[cbs[k].tween].isPaused
        ELSE cbs[k].walking \/ Ended(tws[cbs[k].tween], n)

Free(a, b) == ~a.shifted /\ ~b.shifted => ~Conflict(a, b)

(* Tweens of the list are apart; one about to be added is apart from those   *)
(* that removeTweensByTime has passed.                                       *)
Apart(tws, list, cbs) ==
    /\ \A i, j \in Present(list) : i # j => Free(tws[list[i]], tws[list[j]])
    /\ \A k \in DOMAIN cbs : Overwrites(cbs[k]) =>
        \A i \in Present(list) : i < cbs[k].at => Free(tws[list[i]], tws[cbs[k].tween])

Sound(tws, list, cbs, eng, n, w) ==
    /\ Objects(tws, list, cbs) /\ Listing(tws, list) /\ Placed(tws, list, cbs, w)
    /\ Clocked(tws, list, cbs, eng, n) /\ Apart(tws, list, cbs)

Clock == _engineExists \in BOOLEAN /\ ticker \in {"off", "on", "dead"}

TweenerInv == Clock /\ Sound(tweens, _tweenList, stack, _engineExists, now, walk)

-----------------------------------------------------------------------------
(* Steps that leave everything in its slot.                                  *)

(* tw is what became of old: less of it, and not resumed to another time     *)
(* unless that shifted it; n is the time.                                    *)
Narrower(tw, old) ==
    /\ tw.scope = old.scope /\ tw.props \subseteq old.props
    /\ ~tw.shifted => /\ ~old.shifted
                      /\ tw.timeStart = old.timeStart /\ tw.timeComplete = old.timeComplete

Evolves(old, tw, n) ==
    /\ Whole(tw) /\ Narrower(tw, old)
    /\ tw.isPaused => tw.timePaused = n \/ (old.isPaused /\ tw.timePaused = old.timePaused)
    /\ old.fate = "new" => (tw.isPaused => old.isPaused)
    /\ Ended(old, n) => Ended(tw, n)

(* The fate of a tween changes only when the list forgets it.                *)
Goes(old, tw, id, list, lst) ==
    \/ tw.fate = old.fate /\ \A i \in DOMAIN list : list[i] = id => lst[i] = id
    \/ /\ old.fate # "new" /\ tw.fate # "new" /\ tw.fate # "listed"
       /\ \A i \in DOMAIN list : lst[i] # id

InPlace(tws, list, cbs, new, lst, n) ==
    /\ new \in Seq(Tweens \union Garbage) /\ Len(new) = Len(tws)
    /\ lst \in Seq({Removed} \union DOMAIN tws) /\ Len(lst) = Len(list)
    /\ \A i \in DOMAIN list : lst[i] = list[i] \/ lst[i] = Removed
    /\ \A id \in DOMAIN tws : Goes(tws[id], new[id], id, list, lst)
    /\ \A i \in Present(lst) : Evolves(tws[lst[i]], new[lst[i]], n)
    /\ \A k \in DOMAIN cbs : Evolves(tws[cbs[k].tween], new[cbs[k].tween], n)

(* Narrower tweens do not conflict if the wider ones did not.                *)
LEMMA NarrowerFree ==
    ASSUME NEW a, NEW b, NEW c, NEW d,
           Free(a, b), Narrower(c, a), Narrower(d, b)
    PROVE  Free(c, d)
  BY DEF Free, Narrower, Conflict, Concurrent

LEMMA InPlaceStaysSound ==
    ASSUME NEW tws, NEW list, NEW cbs, NEW eng, NEW n, NEW w, NEW new, NEW lst,
           Sound(tws, list, cbs, eng, n, w), InPlace(tws, list, cbs, new, lst, n)
    PROVE  Sound(new, lst, cbs, eng, n, w)
<1>1. /\ DOMAIN list = 1..Len(list) /\ Len(list) \in Nat /\ DOMAIN lst = DOMAIN list
      /\ DOMAIN tws = 1..Len(tws) /\ Len(tws) \in Nat /\ DOMAIN new = DOMAIN tws
      /\ \A i \in DOMAIN list : list[i] \in {Removed} \union DOMAIN tws
      /\ \A i \in DOMAIN lst : lst[i] \in {Removed} \union DOMAIN tws
  BY DEF Sound, Objects, InPlace
<1>2. \A i \in Present(lst) : i \in Present(list) /\ lst[i] = list[i] /\ lst[i] \in DOMAIN tws
  BY <1>1 DEF InPlace, Present
<1>3. Objects(new, lst, cbs)
  BY <1>1 DEF Sound, Objects, InPlace, Evolves
<1>4. Listing(new, lst)
  <2>1. ASSUME NEW id \in DOMAIN new
        PROVE  (new[id].fate = "listed") <=> (\E i \in DOMAIN lst : lst[i] = id)
    <3>1. Goes(tws[id], new[id], id, list, lst) /\ id # Removed
      BY <1>1 DEF InPlace, Removed
    <3>2. (tws[id].fate = "listed") <=> (\E i \in DOMAIN list : list[i] = id)
      BY <1>1 DEF Sound, Listing
    <3>3. \A i \in DOMAIN lst : lst[i] = id => list[i] = id
      BY <1>1, <3>1 DEF InPlace
    <3> QED
      BY <1>1, <3>1, <3>2, <3>3 DEF Goes
  <2>2. \A i, j \in Present(lst) : lst[i] = lst[j] => i = j
    BY <1>2 DEF Sound, Listing
  <2> QED
    BY <2>1, <2>2 DEF Listing
<1>5. Placed(new, lst, cbs, w)
  <2>1. ASSUME NEW k \in DOMAIN cbs
        PROVE  Slotted(new, lst, cbs[k])
    <3> DEFINE id == cbs[k].tween
    <3>1. Slotted(tws, list, cbs[k]) /\ id \in DOMAIN tws /\ Goes(tws[id], new[id], id, list, lst)
      BY <1>1 DEF Sound, Objects, Placed, InPlace
    <3>2. \A i \in DOMAIN list : lst[i] = list[i] \/ lst[i] = Removed
      BY DEF InPlace
    <3>3. id # Removed
      BY <1>1, <3>1 DEF Removed
    <3>4. (new[id].fate = "new") <=> (tws[id].fate = "new")
      BY <3>1 DEF Goes
    <3> QED
      BY <1>1, <3>1, <3>2, <3>3, <3>4 DEF Slotted
  <2> QED
    BY <1>1, <2>1 DEF Sound, Placed, InPlace
<1>6. Clocked(new, lst, cbs, eng, n)
  <2>1. n \in 0..MaxTime /\ ((cbs # <<>> \/ Present(lst) # {}) => eng)
    BY <1>2 DEF Sound, Clocked
  <2>2. ASSUME NEW i \in Present(lst), new[lst[i]].isPaused PROVE new[lst[i]].timePaused <= n
    <3>1. Evolves(tws[lst[i]], new[lst[i]], n) /\ (tws[lst[i]].isPaused => tws[lst[i]].timePaused <= n)
      BY <1>2 DEF InPlace, Sound, Clocked
    <3> QED
      BY <2>1, <2>2, <3>1, TweenerAssumption DEF Evolves
  <2>3. ASSUME NEW k \in DOMAIN cbs
        PROVE  IF Overwrites(cbs[k]) THEN ~new[cbs[k].tween].isPaused
               ELSE cbs[k].walking \/ Ended(new[cbs[k].tween], n)
    <3>1. Evolves(tws[cbs[k].tween], new[cbs[k].tween], n)
      BY DEF InPlace
    <3>2. Overwrites(cbs[k]) => tws[cbs[k].tween].fate = "new"
      BY DEF Sound, Placed, Slotted
    <3>3. IF Overwrites(cbs[k]) THEN ~tws[cbs[k].tween].isPaused
          ELSE cbs[k].walking \/ Ended(tws[cbs[k].tween], n)
      BY DEF Sound, Clocked
    <3> QED
      BY <3>1, <3>2, <3>3 DEF Evolves
  <2> QED
    BY <2>1, <2>2, <2>3 DEF Clocked
<1>7. Apart(new, lst, cbs)
  <2>1. ASSUME NEW i \in Present(lst), NEW j \in Present(lst), i # j
        PROVE  Free(new[lst[i]], new[lst[j]])
    <3>1. Free(tws[lst[i]], tws[lst[j]])
      BY <1>2, <2>1 DEF Sound, Apart
    <3>2. Narrower(new[lst[i]], tws[lst[i]]) /\ Narrower(new[lst[j]], tws[lst[j]])
      BY DEF InPlace, Evolves
    <3> QED
      BY <3>1, <3>2, NarrowerFree
  <2>2. ASSUME NEW k \in DOMAIN cbs, Overwrites(cbs[k]), NEW i \in Present(lst), i < cbs[k].at
        PROVE  Free(new[lst[i]], new[cbs[k].tween])
    <3>1. Free(tws[lst[i]], tws[cbs[k].tween])
      BY <1>2, <2>2 DEF Sound, Apart
    <3>2. Narrower(new[lst[i]], tws[lst[i]]) /\ Narrower(new[cbs[k].tween], tws[cbs[k].tween])
      BY DEF InPlace, Evolves
    <3> QED
      BY <3>1, <3>2, NarrowerFree
  <2> QED
    BY <2>1, <2>2 DEF Apart
<1> QED
  BY <1>3, <1>4, <1>5, <1>6, <1>7 DEF Sound

(* The garbage collector.                                                    *)
LEMMA CollectedStaysSound ==
    ASSUME NEW tws, NEW list, NEW cbs, NEW eng, NEW n, NEW w,
           Sound(tws, list, cbs, eng, n, w)
    PROVE  Sound(Collected(tws, list, cbs), list, cbs, eng, n, w)
<1> DEFINE new == Collected(tws, list, cbs)
<1>1. /\ tws \in Seq(Tweens \union Garbage) /\ list \in Seq({Removed} \union DOMAIN tws)
      /\ \A i \in Present(list) : Whole(tws[list[i]])
      /\ \A k \in DOMAIN cbs : cbs[k].tween \in DOMAIN tws /\ Whole(tws[cbs[k].tween])
      /\ DOMAIN tws = 1..Len(tws) /\ Len(tws) \in Nat
  BY DEF Sound, Objects
<1>2. ASSUME NEW id \in DOMAIN tws
      PROVE  /\ new[id].fate = tws[id].fate
             /\ new[id] \in Tweens \union Garbage
             /\ id \in Referred(list, cbs) => new[id] = tws[id]
  <2>1. tws[id].fate \in Fates
    BY <1>1 DEF Tweens, Garbage
  <2> QED
    BY <1>1, <2>1 DEF Collected, Garbage
<1>3. new \in Seq(Tweens \union Garbage) /\ Len(new) = Len(tws) /\ DOMAIN new = DOMAIN tws
  <2>1. new = [id \in 1..Len(tws) |-> new[id]]
    BY <1>1 DEF Collected
  <2> HIDE DEF new
  <2> QED
    BY <1>1, <1>2, <2>1, ZenonT(20), SMTT(20)
<1>4. /\ \A i \in Present(list) : list[i] \in DOMAIN tws /\ list[i] \in Referred(list, cbs)
      /\ \A k \in DOMAIN cbs : cbs[k].tween \in Referred(list, cbs)
  BY <1>1 DEF Present, Referred, ToSet
<1> HIDE DEF new
<1>5. \A id \in DOMAIN tws : id \in Referred(list, cbs) => new[id] = tws[id]
  BY <1>2
<1>6. \A tw : Whole(tw) => Evolves(tw, tw, n)
  BY DEF Evolves, Narrower, Whole
<1>7. \A i \in Present(list) : Evolves(tws[list[i]], new[list[i]], n)
  BY <1>1, <1>4, <1>5, <1>6
<1>8. \A k \in DOMAIN cbs : Evolves(tws[cbs[k].tween], new[cbs[k].tween], n)
  BY <1>1, <1>4, <1>5, <1>6
<1>9. InPlace(tws, list, cbs, new, list, n)
  BY <1>1, <1>2, <1>3, <1>7, <1>8 DEF InPlace, Goes
<1> QED
  BY <1>9, InPlaceStaysSound DEF new

(* A callback is over.                                                       *)
LEMMA PopStaysSound ==
    ASSUME NEW tws, NEW list, NEW cbs, NEW eng, NEW n, NEW w,
           Sound(tws, list, cbs, eng, n, w), cbs # <<>>
    PROVE  Sound(tws, list, Tail(cbs), eng, n, w)
<1> DEFINE t == Tail(cbs)
<1>1. cbs \in Seq(Frames) /\ Len(cbs) \in Nat /\ DOMAIN cbs = 1..Len(cbs) /\ Len(cbs) > 0
  BY DEF Sound, Objects
<1>2. /\ t \in Seq(Frames) /\ Len(t) = Len(cbs) - 1
      /\ \A k \in DOMAIN t : k + 1 \in DOMAIN cbs /\ t[k] = cbs[k + 1]
  BY <1>1, HeadTailProperties
<1> HIDE DEF t
<1>3. Objects(tws, list, t)
  BY <1>2 DEF Sound, Objects
<1>4. Placed(tws, list, t, w)
  <2>1. \A k \in DOMAIN t : k \in Nat
    BY <1>2
  <2>2. ASSUME NEW k \in DOMAIN t
        PROVE  /\ Slotted(tws, list, t[k])
               /\ t[k].walking => t[k].at = w /\ k = Len(t) /\ ~Overwrites(t[k])
    BY <1>1, <1>2, <2>1 DEF Sound, Placed
  <2>3. ASSUME NEW k \in DOMAIN t, NEW l \in DOMAIN t,
               Overwrites(t[k]), Overwrites(t[l]), t[k].tween = t[l].tween
        PROVE  k = l
    <3>1. k + 1 = l + 1
      BY <1>2, <2>3 DEF Sound, Placed
    <3> QED
      BY <2>1, <3>1
  <2> QED
    BY <2>2, <2>3 DEF Sound, Placed
<1>5. Clocked(tws, list, t, eng, n)
  BY <1>1, <1>2 DEF Sound, Clocked
<1>6. Apart(tws, list, t)
  BY <1>2 DEF Sound, Apart
<1> QED
  BY <1>3, <1>4, <1>5, <1>6 DEF Sound, t

(* With no callback running, the index of the loop is free.                  *)
LEMMA WalkStaysSound ==
    ASSUME NEW tws, NEW list, NEW eng, NEW n, NEW w, NEW v,
           Sound(tws, list, <<>>, eng, n, w), v \in 0..(Len(list) + 1)
    PROVE  Sound(tws, list, <<>>, eng, n, v)
  BY DEF Sound, Placed

(* A callback is called.                                                     *)
Fits(f, tws, list, cbs, eng, n, w) ==
    /\ f \in Frames /\ f.tween \in DOMAIN tws /\ Whole(tws[f.tween])
    /\ Slotted(tws, list, f)
    /\ f.walking => f.at = w /\ cbs = <<>> /\ ~Overwrites(f)
    /\ eng
    /\ IF Overwrites(f)
       THEN /\ ~tws[f.tween].isPaused
            /\ \A k \in DOMAIN cbs : Overwrites(cbs[k]) => cbs[k].tween # f.tween
            /\ \A i \in Present(list) : i < f.at => Free(tws[list[i]], tws[f.tween])
       ELSE f.walking \/ Ended(tws[f.tween], n)

LEMMA PushStaysSound ==
    ASSUME NEW tws, NEW list, NEW cbs, NEW eng, NEW n, NEW w, NEW f,
           Sound(tws, list, cbs, eng, n, w), Fits(f, tws, list, cbs, eng, n, w)
    PROVE  Sound(tws, list, <<f>> \o cbs, eng, n, w)
<1> DEFINE t == <<f>> \o cbs
<1>1. cbs \in Seq(Frames) /\ Len(cbs) \in Nat /\ DOMAIN cbs = 1..Len(cbs) /\ f \in Frames
  BY DEF Sound, Objects, Fits
<1>2. /\ t \in Seq(Frames) /\ Len(t) = Len(cbs) + 1 /\ t # <<>> /\ DOMAIN t = 1..(Len(cbs) + 1)
      /\ \A k \in 1..Len(t) : t[k] = IF k = 1 THEN f ELSE cbs[k - 1]
  BY <1>1
<1>3. ASSUME NEW k \in DOMAIN t
      PROVE  (k = 1 /\ t[k] = f) \/ (k - 1 \in DOMAIN cbs /\ t[k] = cbs[k - 1] /\ k \in Nat)
  BY <1>1, <1>2
<1> HIDE DEF t
<1>4. Objects(tws, list, t)
  BY <1>2, <1>3 DEF Sound, Objects, Fits
<1>5. Placed(tws, list, t, w)
  <2>1. ASSUME NEW k \in DOMAIN t
        PROVE  /\ Slotted(tws, list, t[k])
               /\ t[k].walking => t[k].at = w /\ k = Len(t) /\ ~Overwrites(t[k])
    <3>1. CASE k = 1 /\ t[k] = f
      BY <1>2, <3>1 DEF Fits
    <3>2. CASE k - 1 \in DOMAIN cbs /\ t[k] = cbs[k - 1] /\ k \in Nat
      BY <1>1, <1>2, <3>2 DEF Sound, Placed
    <3> QED
      BY <1>3, <3>1, <3>2
  <2>2. ASSUME NEW k \in DOMAIN t, NEW l \in DOMAIN t,
               Overwrites(t[k]), Overwrites(t[l]), t[k].tween = t[l].tween
        PROVE  k = l
    <3>1. CASE k = 1 /\ t[k] = f
      BY <1>3, <2>2, <3>1 DEF Fits
    <3>2. CASE l = 1 /\ t[l] = f
      BY <1>3, <2>2, <3>2 DEF Fits
    <3>3. CASE /\ k - 1 \in DOMAIN cbs /\ t[k] = cbs[k - 1] /\ k \in Nat
               /\ l - 1 \in DOMAIN cbs /\ t[l] = cbs[l - 1] /\ l \in Nat
      <4>1. k - 1 = l - 1
        BY <2>2, <3>3 DEF Sound, Placed
      <4> QED
        BY <3>3, <4>1
    <3> QED
      BY <1>3, <3>1, <3>2, <3>3
  <2> QED
    BY <2>1, <2>2 DEF Sound, Placed
<1>6. Clocked(tws, list, t, eng, n)
  BY <1>3 DEF Sound, Clocked, Fits
<1>7. Apart(tws, list, t)
  BY <1>3 DEF Sound, Apart, Fits
<1> QED
  BY <1>4, <1>5, <1>6, <1>7 DEF Sound, t

(* _updateTweens splices a slot out of the list.                             *)
LEMMA SpliceStaysSound ==
    ASSUME NEW tws, NEW list, NEW eng, NEW n, NEW i \in DOMAIN list,
           Sound(tws, list, <<>>, eng, n, i), list[i] = Removed
    PROVE  Sound(tws, RemoveAt(list, i), <<>>, eng, n, i)
<1> DEFINE S == {Removed} \union DOMAIN tws
           t == RemoveAt(list, i)
           front == SubSeq(list, 1, i - 1)
           back == SubSeq(list, i + 1, Len(list))
<1>1. list \in Seq(S) /\ Len(list) \in Nat /\ DOMAIN list = 1..Len(list) /\ i \in Nat \ {0}
  BY DEF Sound, Objects
<1> HIDE DEF S
<1>2. /\ front \in Seq(S) /\ Len(front) = i - 1
      /\ \A j \in 1..(i - 1) : front[j] = list[j]
  <2>1. \A j \in 1..(i - 1) : list[j] \in S
    BY <1>1
  <2> QED
    BY <1>1, <2>1, SubSeqProperties
<1>3. /\ back \in Seq(S) /\ Len(back) = Len(list) - i
      /\ \A j \in 1..(Len(list) - i) : back[j] = list[i + j]
  <2>1. \A j \in (i + 1)..Len(list) : list[j] \in S
    BY <1>1
  <2> QED
    BY <1>1, <2>1, SubSeqProperties
<1>4. t = front \o back
  BY DEF RemoveAt
<1> HIDE DEF front, back, t
<1>5. /\ t \in Seq(S) /\ Len(t) = Len(list) - 1 /\ DOMAIN t = 1..(Len(list) - 1)
      /\ \A j \in 1..(Len(list) - 1) : t[j] = IF j < i THEN list[j] ELSE list[j + 1]
  <2>1. /\ t \in Seq(S) /\ Len(t) = Len(front) + Len(back)
        /\ \A j \in 1..(Len(front) + Len(back)) :
              t[j] = IF j <= Len(front) THEN front[j] ELSE back[j - Len(front)]
    BY <1>2, <1>3, <1>4, ConcatProperties
  <2>2. Len(t) = Len(list) - 1
    BY <1>1, <1>2, <1>3, <2>1
  <2>3. ASSUME NEW j \in 1..(Len(list) - 1)
        PROVE  t[j] = IF j < i THEN list[j] ELSE list[j + 1]
    <3>1. CASE j < i
      BY <1>1, <1>2, <1>3, <2>1, <2>2, <3>1
    <3>2. CASE ~(j < i)
      <4>1. j - (i - 1) \in 1..(Len(list) - i) /\ i + (j - (i - 1)) = j + 1
        BY <1>1, <3>2
      <4>2. t[j] = back[j - (i - 1)]
        BY <1>1, <1>2, <2>1, <2>2, <3>2
      <4> QED
        BY <1>3, <3>2, <4>1, <4>2
    <3> QED
      BY <3>1, <3>2
  <2>4. DOMAIN t = 1..(Len(list) - 1)
    BY <2>1, <2>2
  <2> QED
    BY ONLY <2>1, <2>2, <2>3, <2>4
<1>6. ASSUME NEW j \in DOMAIN t
      PROVE  \E k \in DOMAIN list : k # i /\ t[j] = list[k] /\ k = IF j < i THEN j ELSE j + 1
  <2>1. CASE j < i
    BY <1>1, <1>5, <2>1
  <2>2. CASE ~(j < i)
    BY <1>1, <1>5, <2>2
  <2> QED
    BY <2>1, <2>2
<1>7. ASSUME NEW k \in DOMAIN list, k # i
      PROVE  \E j \in DOMAIN t : t[j] = list[k]
  <2>1. CASE k < i
    BY <1>1, <1>5, <2>1
  <2>2. CASE ~(k < i)
    <3>1. k - 1 \in DOMAIN t /\ ~(k - 1 < i) /\ (k - 1) + 1 = k
      BY <1>1, <1>5, <1>7, <2>2
    <3> QED
      BY <1>5, <3>1
  <2> QED
    BY <2>1, <2>2
<1>8. ASSUME NEW j \in Present(t)
      PROVE  \E k \in Present(list) : t[j] = list[k] /\ k = IF j < i THEN j ELSE j + 1
  BY <1>6 DEF Present
<1>9. ASSUME NEW j \in Present(t), NEW k \in Present(t),
             (IF j < i THEN j ELSE j + 1) = (IF k < i THEN k ELSE k + 1)
      PROVE  j = k
  BY <1>1, <1>5, <1>9 DEF Present
<1>10. Objects(tws, t, <<>>)
  BY <1>5, <1>8 DEF Sound, Objects, S
<1>11. Listing(tws, t)
  <2>1. ASSUME NEW id \in DOMAIN tws
        PROVE  (tws[id].fate = "listed") <=> (\E j \in DOMAIN t : t[j] = id)
    <3>1. (tws[id].fate = "listed") <=> (\E k \in DOMAIN list : list[k] = id)
      BY DEF Sound, Listing
    <3>2. id # Removed
      BY DEF Sound, Objects, Removed
    <3> QED
      BY <1>6, <1>7, <3>1, <3>2
  <2>2. ASSUME NEW j \in Present(t), NEW k \in Present(t), t[j] = t[k] PROVE j = k
    BY <1>8, <1>9, <2>2 DEF Sound, Listing
  <2> QED
    BY <2>1, <2>2 DEF Listing
<1>12. Placed(tws, t, <<>>, i)
  BY <1>1, <1>5 DEF Placed
<1>13. Clocked(tws, t, <<>>, eng, n)
  BY <1>8 DEF Sound, Clocked
<1>14. Apart(tws, t, <<>>)
  <2>1. ASSUME NEW j \in Present(t), NEW k \in Present(t), j # k PROVE Free(tws[t[j]], tws[t[k]])
    BY <1>8, <1>9, <2>1 DEF Sound, Apart
  <2> QED
    BY <2>1 DEF Apart
<1> QED
  BY <1>10, <1>11, <1>12, <1>13, <1>14 DEF Sound, t

-----------------------------------------------------------------------------
(* addTween and addCaller.                                                   *)

LEMMA BecomeStaysSound ==
    ASSUME NEW tws, NEW list, NEW cbs, NEW eng, NEW n, NEW w,
           Sound(tws, list, cbs, eng, n, w), Become(tws, list, cbs)
    PROVE  Sound(tweens', _tweenList', stack', eng, n, w)
  BY CollectedStaysSound DEF Become

(* A set of slots has a first one.                                           *)
LEMMA FirstSlot ==
    ASSUME NEW T \in SUBSET Nat, T # {}
    PROVE  Min(T) \in T /\ \A y \in T : Min(T) <= y
<1> DEFINE Below == {ss \in Nat \X Nat : ss[1] < ss[2]}
<1>1. IsWellFoundedOn(Below, Nat)
  BY NatLessThanWellFounded, Zenon DEF OpToRel
<1>2. PICK x \in T : \A y \in T : <<y, x>> \notin Below
  BY <1>1, WFMin, Zenon
<1>3. \A y \in T : x <= y
  <2> SUFFICES ASSUME NEW y \in T PROVE x <= y
    OBVIOUS
  <2>1. <<y, x>> \in Nat \X Nat /\ <<y, x>>[1] = y /\ <<y, x>>[2] = x
    OBVIOUS
  <2> QED
    BY <1>2, <2>1
<1> QED
  BY <1>3 DEF Min

(* What removeTweensByTime knows of the new tween when it has come to slot   *)
(* from.                                                                     *)
Adding(tws, list, id, from, rest, eng) ==
    /\ eng
    /\ id \in DOMAIN tws /\ Whole(tws[id])
    /\ tws[id].fate = "new" /\ ~tws[id].isPaused
    /\ \A k \in DOMAIN rest : Overwrites(rest[k]) => rest[k].tween # id
    /\ from \in Nat
    /\ \A i \in Present(list) : i < from => Free(tws[list[i]], tws[id])

(* A tween with another fate.                                                *)
LEMMA FateStaysWhole ==
    ASSUME NEW tw, Whole(tw), NEW fate \in Fates
    PROVE  /\ Whole([tw EXCEPT !.fate = fate])
           /\ [tw EXCEPT !.fate = fate].fate = fate
<1>1. tw \in Tweens
  BY DEF Whole
<1>2. [tw EXCEPT !.fate = fate] \in Tweens
  BY <1>1 DEF Tweens
<1>3. [tw EXCEPT !.fate = fate].fate = fate
  BY <1>1 DEF Tweens
<1>4. /\ [tw EXCEPT !.fate = fate].timeStart = tw.timeStart
      /\ [tw EXCEPT !.fate = fate].timeComplete = tw.timeComplete
  BY <1>1 DEF Tweens
<1> QED
  BY <1>2, <1>3, <1>4 DEF Whole

(* The push at the end of the list.                                          *)
LEMMA AppendStaysSound ==
    ASSUME NEW tws, NEW list, NEW id, NEW rest, NEW eng, NEW n, NEW w,
           Sound(tws, list, rest, eng, n, w),
           Adding(tws, list, id, Len(list) + 1, rest, eng)
    PROVE  Sound(Fate(tws, {id}, "listed"), Append(list, id), rest, eng, n, w)
<1> DEFINE new == Fate(tws, {id}, "listed")
           lst == Append(list, id)
           last == Len(list) + 1
           S == {Removed} \union DOMAIN tws
<1>1. /\ tws \in Seq(Tweens \union Garbage) /\ Len(tws) \in Nat /\ DOMAIN tws = 1..Len(tws)
      /\ list \in Seq(S) /\ Len(list) \in Nat /\ DOMAIN list = 1..Len(list)
      /\ id \in DOMAIN tws /\ id # Removed /\ Whole(tws[id]) /\ tws[id].fate = "new"
  BY DEF Sound, Objects, Adding, Removed
<1>2. \A x \in DOMAIN tws : new[x] = IF x = id THEN [tws[x] EXCEPT !.fate = "listed"] ELSE tws[x]
  BY DEF Fate
<1>3. new[id] \in Tweens /\ Whole(new[id]) /\ new[id].fate = "listed"
  <2>1. "listed" \in Fates
    BY DEF Fates
  <2>2. new[id] = [tws[id] EXCEPT !.fate = "listed"]
    BY <1>1, <1>2
  <2> HIDE DEF new
  <2>3. Whole(new[id]) /\ new[id].fate = "listed"
    BY <1>1, <2>1, <2>2, FateStaysWhole
  <2> QED
    BY <2>3 DEF Whole
<1>4. /\ Narrower(new[id], tws[id]) /\ new[id].isPaused = tws[id].isPaused
      /\ new[id].timePaused = tws[id].timePaused
      /\ new[id].timeComplete = tws[id].timeComplete
  BY <1>1, <1>2 DEF Whole, Tweens, Narrower
<1>5. \A x \in DOMAIN tws : x # id => new[x] = tws[x]
  BY <1>2
<1>6. new \in Seq(Tweens \union Garbage) /\ Len(new) = Len(tws) /\ DOMAIN new = DOMAIN tws
  <2>1. new = [x \in 1..Len(tws) |-> new[x]]
    BY <1>1 DEF Fate
  <2>2. \A x \in 1..Len(tws) : new[x] \in Tweens \union Garbage
    <3> HIDE DEF new
    <3> SUFFICES ASSUME NEW x \in 1..Len(tws) PROVE new[x] \in Tweens \union Garbage
      OBVIOUS
    <3>1. tws[x] \in Tweens \union Garbage
      BY <1>1
    <3> QED
      BY <1>1, <1>3, <1>5, <3>1
  <2> HIDE DEF new
  <2> QED
    BY <1>1, <2>1, <2>2, ZenonT(20), SMTT(20)
<1> HIDE DEF new, S
<1>7. /\ lst \in Seq(S) /\ Len(lst) = last /\ DOMAIN lst = 1..last
      /\ \A i \in DOMAIN list : lst[i] = list[i]
      /\ lst[last] = id
  <2>1. id \in S
    BY <1>1 DEF S
  <2> QED
    BY <1>1, <2>1, AppendProperties
<1> HIDE DEF lst
<1>8. ASSUME NEW i \in DOMAIN lst
      PROVE  (i \in DOMAIN list /\ i < last /\ lst[i] = list[i]) \/ (i = last /\ lst[i] = id)
  BY <1>1, <1>7
<1>9. \A i \in DOMAIN list : list[i] # id
  BY <1>1 DEF Sound, Listing
<1>10. ASSUME NEW i \in Present(lst)
       PROVE  \/ /\ i \in Present(list) /\ i < last /\ lst[i] = list[i]
                 /\ list[i] \in DOMAIN tws /\ list[i] # id /\ new[lst[i]] = tws[list[i]]
              \/ i = last /\ lst[i] = id
  BY <1>1, <1>5, <1>8, <1>9 DEF Present, S
<1>11. ASSUME NEW k \in DOMAIN rest
       PROVE  /\ rest[k].tween \in DOMAIN tws /\ rest[k].tween # id
              /\ new[rest[k].tween] = tws[rest[k].tween]
  <2>1. rest[k].tween # id
    BY <1>1 DEF Sound, Placed, Slotted, Adding
  <2> QED
    BY <1>5, <2>1 DEF Sound, Objects
<1>12. Objects(new, lst, rest)
  BY <1>3, <1>6, <1>7, <1>10, <1>11 DEF Sound, Objects, S
<1>13. Listing(new, lst)
  <2>1. ASSUME NEW x \in DOMAIN new
        PROVE  (new[x].fate = "listed") <=> (\E i \in DOMAIN lst : lst[i] = x)
    <3>1. CASE x = id
      BY <1>1, <1>3, <1>7, <3>1
    <3>2. CASE x # id
      <4>1. (tws[x].fate = "listed") <=> (\E i \in DOMAIN list : list[i] = x)
        BY <1>6 DEF Sound, Listing
      <4> QED
        BY <1>1, <1>5, <1>6, <1>7, <1>8, <3>2, <4>1
    <3> QED
      BY <3>1, <3>2
  <2>2. ASSUME NEW i \in Present(lst), NEW j \in Present(lst), lst[i] = lst[j] PROVE i = j
    BY <1>10, <2>2 DEF Sound, Listing
  <2> QED
    BY <2>1, <2>2 DEF Listing
<1>14. Placed(new, lst, rest, w)
  <2>1. ASSUME NEW k \in DOMAIN rest PROVE Slotted(new, lst, rest[k])
    <3>1. Slotted(tws, list, rest[k])
      BY DEF Sound, Placed
    <3>2. rest[k].at \in DOMAIN lst /\ lst[rest[k].at] = list[rest[k].at]
      BY <1>1, <1>7, <3>1 DEF Slotted
    <3>3. \A i \in DOMAIN lst : lst[i] = rest[k].tween => i \in DOMAIN list /\ list[i] = rest[k].tween
      BY <1>8, <1>11
    <3> QED
      BY <1>11, <3>1, <3>2, <3>3 DEF Slotted
  <2>2. w \in 0..(Len(lst) + 1)
    BY <1>1, <1>7 DEF Sound, Placed
  <2> QED
    BY <2>1, <2>2 DEF Sound, Placed
<1>15. Clocked(new, lst, rest, eng, n)
  <2>1. ASSUME NEW i \in Present(lst), new[lst[i]].isPaused PROVE new[lst[i]].timePaused <= n
    BY <1>4, <1>10, <2>1 DEF Sound, Clocked, Adding
  <2> QED
    BY <1>11, <2>1 DEF Sound, Clocked, Adding
<1>16. \A i \in Present(list) : Free(tws[list[i]], new[id]) /\ Free(new[id], tws[list[i]])
  <2> SUFFICES ASSUME NEW i \in Present(list)
               PROVE  Free(tws[list[i]], new[id]) /\ Free(new[id], tws[list[i]])
    OBVIOUS
  <2>1. Free(tws[list[i]], tws[id])
    BY <1>1 DEF Adding, Present
  <2>2. Free(tws[list[i]], new[id])
    <3>1. Narrower(tws[list[i]], tws[list[i]])
      BY DEF Narrower
    <3> QED
      BY <1>4, <2>1, <3>1, NarrowerFree
  <2>3. tws[list[i]] \in Tweens
    BY DEF Sound, Objects, Whole
  <2> QED
    BY <1>3, <2>2, <2>3 DEF Free, Conflict, Concurrent, Tweens
<1>17. Apart(new, lst, rest)
  <2>1. ASSUME NEW i \in Present(lst), NEW j \in Present(lst), i # j
        PROVE  Free(new[lst[i]], new[lst[j]])
    BY <1>10, <1>16, <2>1 DEF Sound, Apart
  <2>2. ASSUME NEW k \in DOMAIN rest, Overwrites(rest[k]), NEW i \in Present(lst), i < rest[k].at
        PROVE  Free(new[lst[i]], new[rest[k].tween])
    <3>1. rest[k].at \in DOMAIN list
      BY DEF Sound, Placed, Slotted
    <3>2. i # last
      BY <1>1, <2>2, <3>1
    <3> QED
      BY <1>10, <1>11, <2>2, <3>2 DEF Sound, Apart
  <2> QED
    BY <2>1, <2>2 DEF Apart
<1> QED
  BY <1>12, <1>13, <1>14, <1>15, <1>17 DEF Sound, new, lst

(* The new tween displaces those of the slots from from on, or is pushed.    *)
LEMMA AddFromStaysSound ==
    ASSUME NEW tws, NEW list, NEW id, NEW from, NEW rest, NEW eng, NEW n, NEW w,
           Sound(tws, list, rest, eng, n, w), Adding(tws, list, id, from, rest, eng),
           AddFrom(tws, list, id, from, n, rest)
    PROVE  Sound(tweens', _tweenList', stack', eng, n, w)
<1> DEFINE displaced == Displaced(tws, list, id, from)
           first == Min(displaced)
           f == Frame("onOverwrite", id, first, FALSE)
           new == Fate(tws, {id}, "listed")
           lst == Append(list, id)
           g == Frame(FirstCallback(tws[id]), id, Len(list) + 1, FALSE)
<1>1. /\ DOMAIN tws = 1..Len(tws) /\ Len(tws) \in Nat /\ Len(tws) <= MaxTweens
      /\ DOMAIN list = 1..Len(list) /\ Len(list) \in Nat
      /\ id \in DOMAIN tws /\ id \in Ids /\ Whole(tws[id]) /\ tws[id].fate = "new"
      /\ ~tws[id].isPaused /\ eng
  <2>1. /\ DOMAIN tws = 1..Len(tws) /\ Len(tws) \in Nat /\ Len(tws) <= MaxTweens
        /\ id \in DOMAIN tws
    BY DEF Sound, Objects, Adding
  <2>2. id \in Ids
    BY <2>1, TweenerAssumption DEF Ids
  <2> QED
    BY <2>1, <2>2 DEF Sound, Objects, Adding
<1>2. \A i \in Present(list) \ displaced : i >= from => Free(tws[list[i]], tws[id])
  <2> SUFFICES ASSUME NEW i \in Present(list), i \notin displaced, i >= from
               PROVE  Free(tws[list[i]], tws[id])
    OBVIOUS
  <2>1. ~Conflict(tws[id], tws[list[i]])
    BY DEF Displaced
  <2>2. tws[list[i]] \in Tweens /\ tws[id] \in Tweens
    BY <1>1 DEF Sound, Objects, Whole
  <2> QED
    BY <2>1, <2>2 DEF Free, Conflict, Concurrent, Tweens
<1>3. \A i \in Present(list) : i < from => Free(tws[list[i]], tws[id])
  BY DEF Adding
<1>4. displaced \in SUBSET Nat /\ displaced \subseteq Present(list) /\ from \in Nat
  BY <1>1 DEF Displaced, Present, Adding
<1>5. CASE displaced # {} /\ Become(tws, list, <<f>> \o rest)
  <2>1. first \in displaced /\ \A i \in displaced : first <= i
    BY <1>4, <1>5, FirstSlot
  <2> HIDE DEF first, displaced
  <2>2. first \in DOMAIN list /\ first \in Nat \ {0}
    BY <1>1, <1>4, <2>1 DEF Present
  <2>3. /\ f.tween = id /\ f.at = first /\ ~f.walking /\ Overwrites(f) /\ f \in Frames
    BY <1>1, <2>2 DEF Frame, Frames, Overwrites
  <2> HIDE DEF f
  <2>4. Slotted(tws, list, f)
    BY <1>1, <2>2, <2>3 DEF Slotted
  <2>5. \A i \in Present(list) : i < f.at => Free(tws[list[i]], tws[id])
    <3> SUFFICES ASSUME NEW i \in Present(list), i < f.at PROVE Free(tws[list[i]], tws[id])
      OBVIOUS
    <3>1. i \in Nat /\ i \notin displaced
      BY <1>1, <2>1, <2>2, <2>3 DEF Present
    <3> QED
      BY <1>2, <1>3, <1>4, <3>1
  <2>6. Fits(f, tws, list, rest, eng, n, w)
    BY <1>1, <2>3, <2>4, <2>5 DEF Fits, Adding
  <2>7. Sound(tws, list, <<f>> \o rest, eng, n, w)
    BY <2>6, PushStaysSound
  <2> QED
    BY ONLY <1>5, <2>7, BecomeStaysSound
<1>6. CASE displaced = {}
  <2>1. \A i \in Present(list) : Free(tws[list[i]], tws[id])
    BY <1>1, <1>2, <1>3, <1>4, <1>6 DEF Present
  <2>2. Adding(tws, list, id, Len(list) + 1, rest, eng)
    BY <1>1, <2>1 DEF Adding
  <2>3. Sound(new, lst, rest, eng, n, w)
    BY <2>2, AppendStaysSound
  <2>4. CASE Become(new, lst, rest)
    BY ONLY <2>3, <2>4, BecomeStaysSound
  <2>5. CASE tws[id].timeComplete = n /\ Become(new, lst, <<g>> \o rest)
    <3>1. new[id] = [tws[id] EXCEPT !.fate = "listed"] /\ id \in DOMAIN new
      BY <1>1 DEF Fate
    <3>2. Whole(new[id]) /\ new[id].fate = "listed"
      BY <1>1, <3>1, FateStaysWhole DEF Fates
    <3>3. new[id].timeComplete = n /\ ~new[id].isPaused
      BY <1>1, <2>5, <3>1 DEF Whole, Tweens
    <3>4. n <= n
      BY DEF Sound, Clocked
    <3>5. Ended(new[id], n)
      BY <3>3, <3>4 DEF Ended
    <3>6. DOMAIN lst = 1..(Len(list) + 1) /\ lst[Len(list) + 1] = id
      BY <1>1, AppendProperties DEF Sound, Objects
    <3>7. \A i \in DOMAIN lst : lst[i] = id => i = Len(list) + 1
      <4>1. id # Removed
        BY <1>1 DEF Removed
      <4> QED
        BY <1>1, <2>3, <3>6, <4>1 DEF Sound, Listing, Present
    <3>8. g.tween = id /\ g.at = Len(list) + 1 /\ ~g.walking /\ ~Overwrites(g) /\ g \in Frames
      BY <1>1 DEF Frame, Frames, Overwrites, FirstCallback
    <3> HIDE DEF g, new, lst
    <3>9. Slotted(new, lst, g)
      BY <1>1, <3>2, <3>6, <3>7, <3>8 DEF Slotted
    <3>10. Fits(g, new, lst, rest, eng, n, w)
      BY <1>1, <3>1, <3>2, <3>5, <3>8, <3>9 DEF Fits
    <3>11. Sound(new, lst, <<g>> \o rest, eng, n, w)
      BY <2>3, <3>10, PushStaysSound
    <3> QED
      BY ONLY <2>5, <3>11, BecomeStaysSound
  <2> QED
    BY <1>6, <2>4, <2>5 DEF AddFrom
<1> QED
  BY <1>5, <1>6 DEF AddFrom

-----------------------------------------------------------------------------
(* Tweens change, and leave the list.                                        *)

LEMMA ChangeOneStaysSound ==
    ASSUME NEW tws, NEW list, NEW cbs, NEW eng, NEW n, NEW w, NEW id, NEW tw,
           Sound(tws, list, cbs, eng, n, w), id \in DOMAIN tws,
           tw.fate = tws[id].fate, Evolves(tws[id], tw, n)
    PROVE  Sound([tws EXCEPT ![id] = tw], list, cbs, eng, n, w)
<1> DEFINE new == [tws EXCEPT ![id] = tw]
<1>1. /\ tws \in Seq(Tweens \union Garbage) /\ list \in Seq({Removed} \union DOMAIN tws)
      /\ \A i \in Present(list) : Whole(tws[list[i]]) /\ list[i] \in DOMAIN tws
      /\ \A k \in DOMAIN cbs : cbs[k].tween \in DOMAIN tws /\ Whole(tws[cbs[k].tween])
  BY DEF Sound, Objects, Present
<1>2. new \in Seq(Tweens \union Garbage) /\ Len(new) = Len(tws) /\ DOMAIN new = DOMAIN tws
  BY <1>1 DEF Evolves, Whole
<1>3. \A x \in DOMAIN tws : new[x] = IF x = id THEN tw ELSE tws[x]
  OBVIOUS
<1> HIDE DEF new
<1>4. \A x \in DOMAIN tws : Whole(tws[x]) => Evolves(tws[x], new[x], n)
  <2>1. \A t : Whole(t) => Evolves(t, t, n)
    BY DEF Evolves, Narrower, Whole
  <2> QED
    BY <1>3, <2>1
<1>5. InPlace(tws, list, cbs, new, list, n)
  BY <1>1, <1>2, <1>3, <1>4 DEF InPlace, Goes
<1> QED
  BY <1>5, InPlaceStaysSound DEF new

(* The slots of tweens ids are emptied.                                      *)
Leaves(tws, list, ids, slots, fate) ==
    /\ fate \in {"removed", "completed"}
    /\ ids \subseteq DOMAIN tws
    /\ \A id \in ids : Whole(tws[id]) /\ tws[id].fate # "new"
    /\ \A i \in DOMAIN list : list[i] \in ids => i \in slots
    /\ \A i \in DOMAIN list : i \in slots => list[i] \in ids \/ list[i] = Removed

LEMMA RemoveStaysSound ==
    ASSUME NEW tws, NEW list, NEW cbs, NEW eng, NEW n, NEW w, NEW ids, NEW slots, NEW fate,
           Sound(tws, list, cbs, eng, n, w), Leaves(tws, list, ids, slots, fate)
    PROVE  Sound(Fate(tws, ids, fate), _removeTweenByIndex(list, slots), cbs, eng, n, w)
<1> DEFINE new == Fate(tws, ids, fate)
           lst == _removeTweenByIndex(list, slots)
           S == {Removed} \union DOMAIN tws
<1>1. /\ tws \in Seq(Tweens \union Garbage) /\ Len(tws) \in Nat /\ DOMAIN tws = 1..Len(tws)
      /\ list \in Seq(S) /\ Len(list) \in Nat /\ DOMAIN list = 1..Len(list)
      /\ \A i \in Present(list) : Whole(tws[list[i]]) /\ list[i] \in DOMAIN tws
      /\ \A k \in DOMAIN cbs : cbs[k].tween \in DOMAIN tws /\ Whole(tws[cbs[k].tween])
  BY DEF Sound, Objects, Present
<1>2. ASSUME NEW x \in DOMAIN tws
      PROVE  new[x] = IF x \in ids THEN [tws[x] EXCEPT !.fate = fate] ELSE tws[x]
  BY DEF Fate
<1>3. ASSUME NEW i \in DOMAIN list PROVE lst[i] = IF i \in slots THEN Removed ELSE list[i]
  BY DEF _removeTweenByIndex
<1>4. lst \in Seq(S) /\ Len(lst) = Len(list) /\ DOMAIN lst = DOMAIN list
  <2>1. lst = [i \in 1..Len(list) |-> lst[i]]
    BY <1>1 DEF _removeTweenByIndex
  <2>2. \A i \in 1..Len(list) : lst[i] \in S
    BY <1>1, <1>3
  <2> HIDE DEF lst, S
  <2> QED
    BY <1>1, <2>1, <2>2, ZenonT(20), SMTT(20)
<1> HIDE DEF new, lst, S
<1>5. fate \in Fates /\ fate # "new" /\ fate # "listed"
  BY DEF Leaves, Fates
<1>6. ASSUME NEW x \in ids
      PROVE  new[x].fate = fate /\ Evolves(tws[x], new[x], n)
  <2>1. x \in DOMAIN tws /\ Whole(tws[x]) /\ new[x] = [tws[x] EXCEPT !.fate = fate]
    BY <1>2 DEF Leaves
  <2>2. Whole(new[x]) /\ new[x].fate = fate
    BY <1>5, <2>1, FateStaysWhole
  <2>3. /\ new[x].scope = tws[x].scope /\ new[x].props = tws[x].props
        /\ new[x].timeStart = tws[x].timeStart /\ new[x].timeComplete = tws[x].timeComplete
        /\ new[x].isPaused = tws[x].isPaused /\ new[x].timePaused = tws[x].timePaused
        /\ new[x].shifted = tws[x].shifted
    BY <2>1 DEF Whole, Tweens
  <2> QED
    BY <2>2, <2>3 DEF Evolves, Narrower, Ended
<1>7. ASSUME NEW x \in DOMAIN tws, Whole(tws[x])
      PROVE  Evolves(tws[x], new[x], n)
  <2>1. \A t : Whole(t) => Evolves(t, t, n)
    BY DEF Evolves, Narrower, Whole
  <2> QED
    BY <1>2, <1>6, <1>7, <2>1
<1>8. new \in Seq(Tweens \union Garbage) /\ Len(new) = Len(tws) /\ DOMAIN new = DOMAIN tws
  <2>1. new = [x \in 1..Len(tws) |-> new[x]]
    BY <1>1 DEF new, Fate
  <2>2. \A x \in 1..Len(tws) : new[x] \in Tweens \union Garbage
    <3> SUFFICES ASSUME NEW x \in 1..Len(tws) PROVE new[x] \in Tweens \union Garbage
      OBVIOUS
    <3>1. tws[x] \in Tweens \union Garbage
      BY <1>1
    <3>2. x \in ids => new[x] \in Tweens
      BY <1>6 DEF Evolves, Whole
    <3> QED
      BY <1>1, <1>2, <3>1, <3>2
  <2> QED
    BY <1>1, <2>1, <2>2, ZenonT(20), SMTT(20)
<1>9. ASSUME NEW x \in DOMAIN tws
      PROVE  Goes(tws[x], new[x], x, list, lst)
  <2>1. CASE x \in ids
    BY SMTT(30), ZenonT(30), <1>1, <1>3, <1>5, <1>6, <2>1 DEF Goes, Leaves, Removed
  <2>2. CASE x \notin ids
    <3>1. \A i \in DOMAIN list : list[i] = x => i \notin slots
      BY <1>1, <2>2 DEF Leaves, Removed
    <3> QED
      BY <1>2, <1>3, <2>2, <3>1 DEF Goes
  <2> QED
    BY <2>1, <2>2
<1>10. \A i \in Present(lst) : i \in Present(list) /\ lst[i] = list[i]
  BY <1>3, <1>4 DEF Present
<1>11. InPlace(tws, list, cbs, new, lst, n)
  BY <1>1, <1>3, <1>4, <1>7, <1>8, <1>9, <1>10 DEF InPlace, S
<1> QED
  BY <1>11, InPlaceStaysSound DEF new, lst

(* _updateTweenByIndex returns.                                              *)
LEMMA UpdateReturnsStaysSound ==
    ASSUME NEW tws, NEW i, NEW walking \in BOOLEAN, NEW goesOn \in BOOLEAN, NEW cbs, NEW eng, NEW n,
           Sound(tws, IF goesOn /\ walking THEN _tweenList ELSE _removeTweenByIndex(_tweenList, {i}),
                 cbs, eng, n, walk),
           i \in DOMAIN _tweenList,
           walking => i = walk /\ cbs = <<>>,
           UpdateReturns(tws, i, walking, goesOn, cbs)
    PROVE  Sound(tweens', _tweenList', stack', eng, n, walk')
<1> DEFINE list == IF goesOn /\ walking THEN _tweenList ELSE _removeTweenByIndex(_tweenList, {i})
<1>1. DOMAIN list = DOMAIN _tweenList /\ i \in DOMAIN list
  BY DEF _removeTweenByIndex
<1>2. /\ Sound(tws, list, cbs, eng, n, walk)
      /\ \/ walking /\ list[i] = Removed /\ Become(tws, RemoveAt(list, i), cbs) /\ UNCHANGED walk
         \/ walking /\ list[i] # Removed /\ Become(tws, list, cbs) /\ walk' = walk + 1
         \/ ~walking /\ Become(tws, list, cbs) /\ UNCHANGED walk
  BY DEF UpdateReturns
<1>3. Len(list) \in Nat /\ DOMAIN list = 1..Len(list)
  BY <1>2 DEF Sound, Objects
<1> HIDE DEF list
<1>4. CASE walking /\ list[i] = Removed /\ Become(tws, RemoveAt(list, i), cbs) /\ UNCHANGED walk
  <2>1. Sound(tws, list, <<>>, eng, n, i)
    BY <1>2, <1>4
  <2>2. Sound(tws, RemoveAt(list, i), <<>>, eng, n, i)
    BY <1>1, <1>4, <2>1, SpliceStaysSound
  <2>3. Sound(tws, RemoveAt(list, i), cbs, eng, n, walk')
    BY <1>4, <2>2
  <2> QED
    BY ONLY <1>4, <2>3, BecomeStaysSound
<1>5. CASE walking /\ list[i] # Removed /\ Become(tws, list, cbs) /\ walk' = walk + 1
  <2>1. Sound(tws, list, <<>>, eng, n, walk) /\ walk' \in 0..(Len(list) + 1) /\ cbs = <<>>
    BY <1>1, <1>2, <1>3, <1>5
  <2>2. Sound(tws, list, <<>>, eng, n, walk')
    BY ONLY <2>1, WalkStaysSound
  <2>3. Sound(tws, list, cbs, eng, n, walk')
    BY <2>1, <2>2
  <2> QED
    BY ONLY <1>5, <2>3, BecomeStaysSound
<1>6. CASE ~walking /\ Become(tws, list, cbs) /\ UNCHANGED walk
  <2>1. Sound(tws, list, cbs, eng, n, walk')
    BY <1>2, <1>6
  <2> QED
    BY ONLY <1>6, <2>1, BecomeStaysSound
<1> QED
  BY <1>2, <1>4, <1>5, <1>6

-----------------------------------------------------------------------------
(* pauseTweens, resumeTweens and removeTweens.                               *)

(* Every number up to the size of a set is the place of a slot in it.        *)
LEMMA NthSlot ==
    ASSUME NEW S \in SUBSET Nat, IsFiniteSet(S), NEW k \in 1..Cardinality(S)
    PROVE  Nth(S, k) \in S /\ Cardinality({j \in S : j <= Nth(S, k)}) = k
<1> DEFINE n == Cardinality(S)
           UpTo(i) == {j \in S : j <= i}
           rank == [i \in S |-> Cardinality(UpTo(i))]
<1>1. n \in Nat /\ IsFiniteSet(1..n) /\ Cardinality(1..n) = n
  BY FS_CardinalityType, FS_Interval
<1>2. ASSUME NEW i \in S
      PROVE  IsFiniteSet(UpTo(i)) /\ Cardinality(UpTo(i)) \in 1..n
  <2>1. UpTo(i) \in SUBSET S /\ i \in UpTo(i)
    OBVIOUS
  <2>2. IsFiniteSet(UpTo(i)) /\ Cardinality(UpTo(i)) <= n
    BY <2>1, FS_Subset
  <2>3. Cardinality(UpTo(i)) \in Nat /\ Cardinality(UpTo(i)) # 0
    BY <2>1, <2>2, FS_CardinalityType, FS_EmptySet
  <2> QED
    BY <1>1, <2>2, <2>3
<1>3. ASSUME NEW i \in S, NEW j \in S, i < j
      PROVE  Cardinality(UpTo(i)) # Cardinality(UpTo(j))
  <2>1. UpTo(i) \in SUBSET UpTo(j) /\ j \in UpTo(j) /\ j \notin UpTo(i)
    <3>1. i \in Nat /\ j \in Nat /\ \A x \in S : x \in Nat
      OBVIOUS
    <3>2. \A x \in S : x <= i => x <= j
      BY <1>3, <3>1
    <3>3. j <= j /\ ~(j <= i)
      BY <1>3, <3>1
    <3> QED
      BY <3>2, <3>3
  <2>2. Cardinality(UpTo(i)) = Cardinality(UpTo(j)) => UpTo(i) = UpTo(j)
    BY <1>2, <2>1, FS_Subset
  <2> QED
    BY <2>1, <2>2
<1>4. rank \in Injection(S, 1..n)
  <2>1. rank \in [S -> 1..n]
    BY <1>2
  <2>2. ASSUME NEW i \in S, NEW j \in S, rank[i] = rank[j] PROVE i = j
    <3>1. ~(i < j) /\ ~(j < i)
      BY <1>3, <2>2
    <3> QED
      BY <3>1
  <2> QED
    BY <2>1, <2>2 DEF Injection, IsInjective
<1>5. rank \in Surjection(S, 1..n)
  BY <1>1, <1>4, FS_Injection
<1>6. \E i \in S : Cardinality(UpTo(i)) = k
  BY <1>5 DEF Surjection
<1> QED
  BY <1>6 DEF Nth

(* Tweens cl are added at the end of the list.                               *)
Extends(tws, list, cl, eng, n) ==
    /\ cl \in Seq(Tweens) /\ Len(tws) + Len(cl) <= MaxTweens
    /\ \A k \in DOMAIN cl :
        /\ Whole(cl[k]) /\ cl[k].fate = "listed" /\ eng
        /\ cl[k].isPaused => cl[k].timePaused <= n
        /\ \A i \in Present(list) : Free(tws[list[i]], cl[k]) /\ Free(cl[k], tws[list[i]])
        /\ \A l \in DOMAIN cl : k # l => Free(cl[k], cl[l])

LEMMA ExtendStaysSound ==
    ASSUME NEW tws, NEW list, NEW cbs, NEW eng, NEW n, NEW w, NEW cl,
           Sound(tws, list, cbs, eng, n, w), Extends(tws, list, cl, eng, n)
    PROVE  Sound(tws \o cl, list \o [k \in 1..Len(cl) |-> Len(tws) + k], cbs, eng, n, w)
<1> DEFINE T == Len(tws)
           L == Len(list)
           C == Len(cl)
           ids == [k \in 1..C |-> T + k]
           new == tws \o cl
           lst == list \o ids
           S == {Removed} \union (1..(T + C))
<1>1. /\ tws \in Seq(Tweens \union Garbage) /\ T \in Nat /\ DOMAIN tws = 1..T
      /\ list \in Seq({Removed} \union DOMAIN tws) /\ L \in Nat /\ DOMAIN list = 1..L
      /\ cl \in Seq(Tweens) /\ C \in Nat /\ DOMAIN cl = 1..C
      /\ \A i \in Present(list) : Whole(tws[list[i]]) /\ list[i] \in 1..T
      /\ \A k \in DOMAIN cbs : cbs[k].tween \in 1..T /\ Whole(tws[cbs[k].tween])
  BY DEF Sound, Objects, Extends, Present
<1>2. /\ new \in Seq(Tweens \union Garbage) /\ Len(new) = T + C /\ DOMAIN new = 1..(T + C)
      /\ \A x \in 1..T : new[x] = tws[x]
      /\ \A k \in 1..C : new[T + k] = cl[k]
  <2>1. cl \in Seq(Tweens \union Garbage)
    BY <1>1
  <2>2. /\ new \in Seq(Tweens \union Garbage) /\ Len(new) = T + C
        /\ \A x \in 1..(T + C) : new[x] = IF x <= T THEN tws[x] ELSE cl[x - T]
    BY <1>1, <2>1, ConcatProperties
  <2>3. DOMAIN new = 1..(T + C)
    BY <2>2
  <2>4. \A k \in 1..C : T + k \in 1..(T + C) /\ ~(T + k <= T) /\ (T + k) - T = k
    BY <1>1
  <2>5. \A x \in 1..T : x \in 1..(T + C) /\ x <= T
    BY <1>1
  <2> QED
    BY ONLY <2>2, <2>3, <2>4, <2>5
<1>3. /\ lst \in Seq(S) /\ Len(lst) = L + C /\ DOMAIN lst = 1..(L + C)
      /\ \A i \in 1..L : lst[i] = list[i]
      /\ \A k \in 1..C : lst[L + k] = T + k
  <2>1. list \in Seq(S)
    BY <1>1
  <2>2. ids \in Seq(S) /\ Len(ids) = C
    BY <1>1
  <2>3. /\ lst \in Seq(S) /\ Len(lst) = L + C
        /\ \A i \in 1..(L + C) : lst[i] = IF i <= L THEN list[i] ELSE ids[i - L]
    BY <1>1, <2>1, <2>2, ConcatProperties
  <2>4. DOMAIN lst = 1..(L + C)
    BY <2>3
  <2>5. \A k \in 1..C : L + k \in 1..(L + C) /\ ~(L + k <= L) /\ (L + k) - L = k /\ ids[k] = T + k
    BY <1>1
  <2>6. \A i \in 1..L : i \in 1..(L + C) /\ i <= L
    BY <1>1
  <2> HIDE DEF ids
  <2> QED
    BY ONLY <2>3, <2>4, <2>5, <2>6
<1>4. ASSUME NEW i \in DOMAIN lst PROVE (i \in 1..L) \/ (\E k \in 1..C : i = L + k)
  <2>1. CASE i <= L
    BY <1>1, <1>3, <2>1
  <2>2. CASE ~(i <= L)
    <3>1. i - L \in 1..C /\ i = L + (i - L)
      BY <1>1, <1>3, <2>2
    <3> QED
      BY <3>1
  <2> QED
    BY <2>1, <2>2
<1>5. ASSUME NEW x \in DOMAIN new PROVE (x \in 1..T) \/ (\E k \in 1..C : x = T + k)
  <2>1. CASE x <= T
    BY <1>1, <1>2, <2>1
  <2>2. CASE ~(x <= T)
    <3>1. x - T \in 1..C /\ x = T + (x - T)
      BY <1>1, <1>2, <2>2
    <3> QED
      BY <3>1
  <2> QED
    BY <2>1, <2>2
<1>6. \A k \in 1..C : L + k \in DOMAIN lst /\ L + k \notin 1..L /\ T + k \in DOMAIN new /\ T + k \notin 1..T
  BY <1>1, <1>2, <1>3
<1> HIDE DEF new, lst, ids
<1>7. ASSUME NEW i \in Present(lst)
      PROVE  \/ i \in Present(list) /\ lst[i] = list[i] /\ new[lst[i]] = tws[list[i]] /\ list[i] \in 1..T
             \/ \E k \in 1..C : i = L + k /\ lst[i] = T + k /\ new[lst[i]] = cl[k]
  <2>1. i \in DOMAIN lst /\ lst[i] # Removed
    BY DEF Present
  <2>2. CASE i \in 1..L
    BY <1>1, <1>2, <1>3, <2>1, <2>2 DEF Present
  <2>3. CASE \E k \in 1..C : i = L + k
    BY <1>2, <1>3, <2>3
  <2> QED
    BY <1>4, <2>1, <2>2, <2>3
<1>8. \A k \in DOMAIN cbs : new[cbs[k].tween] = tws[cbs[k].tween]
  BY <1>1, <1>2
<1>9. \A k \in 1..C : /\ Whole(cl[k]) /\ cl[k].fate = "listed" /\ eng
                      /\ cl[k].isPaused => cl[k].timePaused <= n
  BY <1>1 DEF Extends
<1>10. Objects(new, lst, cbs)
  <2>1. lst \in Seq({Removed} \union DOMAIN new)
    BY <1>2, <1>3
  <2>2. \A i \in Present(lst) : Whole(new[lst[i]])
    BY <1>1, <1>7, <1>9
  <2>3. \A k \in DOMAIN cbs : cbs[k].tween \in DOMAIN new /\ Whole(new[cbs[k].tween])
    BY <1>1, <1>2, <1>8
  <2>4. Len(new) <= MaxTweens
    BY <1>2 DEF Extends
  <2> QED
    BY <1>2, <2>1, <2>2, <2>3, <2>4 DEF Sound, Objects
<1>11. Listing(new, lst)
  <2>1. ASSUME NEW x \in DOMAIN new
        PROVE  (new[x].fate = "listed") <=> (\E i \in DOMAIN lst : lst[i] = x)
    <3>1. CASE x \in 1..T
      <4>1. (tws[x].fate = "listed") <=> (\E i \in DOMAIN list : list[i] = x)
        BY <1>1, <3>1 DEF Sound, Listing
      <4>2. \A i \in DOMAIN list : i \in DOMAIN lst /\ lst[i] = list[i]
        BY <1>1, <1>3
      <4>3. \A i \in DOMAIN lst : lst[i] = x => i \in DOMAIN list
        BY <1>1, <1>3, <1>4, <1>6, <3>1
      <4> QED
        BY <1>2, <3>1, <4>1, <4>2, <4>3
    <3>2. CASE \E k \in 1..C : x = T + k
      <4>1. PICK k \in 1..C : x = T + k
        BY <3>2
      <4>2. new[x].fate = "listed"
        BY <1>2, <1>9, <4>1
      <4>3. L + k \in DOMAIN lst /\ lst[L + k] = x
        BY <1>3, <1>6, <4>1
      <4> QED
        BY <4>2, <4>3
    <3> QED
      BY <1>5, <3>1, <3>2
  <2>2. ASSUME NEW i \in Present(lst), NEW j \in Present(lst), lst[i] = lst[j] PROVE i = j
    <3>1. CASE i \in Present(list) /\ lst[i] = list[i] /\ list[i] \in 1..T
      <4>1. j \in Present(list) /\ lst[j] = list[j]
        BY <1>6, <1>7, <2>2, <3>1
      <4> QED
        BY <2>2, <3>1, <4>1 DEF Sound, Listing
    <3>2. CASE \E k \in 1..C : i = L + k /\ lst[i] = T + k
      <4>1. PICK k \in 1..C : i = L + k /\ lst[i] = T + k
        BY <3>2
      <4>j. lst[j] \notin 1..T
        BY <1>6, <2>2, <4>1
      <4>l. ~(j \in Present(list) /\ lst[j] = list[j] /\ list[j] \in 1..T)
        BY <4>j
      <4>o. \E l \in 1..C : j = L + l /\ lst[j] = T + l
        BY ONLY <1>7, <2>2, <4>l, j \in Present(lst)
      <4>2. PICK l \in 1..C : j = L + l /\ lst[j] = T + l
        BY <4>o
      <4>3. k = l
        BY <1>1, <2>2, <4>1, <4>2
      <4> QED
        BY <4>1, <4>2, <4>3
    <3> QED
      BY <1>7, <3>1, <3>2
  <2> QED
    BY <2>1, <2>2 DEF Listing
<1>12. Placed(new, lst, cbs, w)
  <2>1. ASSUME NEW k \in DOMAIN cbs PROVE Slotted(new, lst, cbs[k])
    <3>1. Slotted(tws, list, cbs[k]) /\ cbs[k].tween \in 1..T
      BY <1>1 DEF Sound, Placed
    <3>2. cbs[k].at \in DOMAIN lst /\ lst[cbs[k].at] = list[cbs[k].at]
      BY <1>1, <1>3, <3>1 DEF Slotted
    <3>3. \A i \in DOMAIN lst : lst[i] = cbs[k].tween => i \in DOMAIN list /\ list[i] = cbs[k].tween
      BY <1>1, <1>3, <1>4, <1>6, <3>1
    <3> QED
      BY <1>8, <3>1, <3>2, <3>3 DEF Slotted
  <2>2. w \in 0..(Len(lst) + 1)
    BY <1>1, <1>3 DEF Sound, Placed
  <2> QED
    BY <2>1, <2>2 DEF Sound, Placed
<1>13. Clocked(new, lst, cbs, eng, n)
  <2>1. (cbs # <<>> \/ Present(lst) # {}) => eng
    BY <1>7, <1>9 DEF Sound, Clocked
  <2>2. \A i \in Present(lst) : new[lst[i]].isPaused => new[lst[i]].timePaused <= n
    BY <1>7, <1>9 DEF Sound, Clocked
  <2> QED
    BY <1>8, <2>1, <2>2 DEF Sound, Clocked
<1>14. Apart(new, lst, cbs)
  <2>1. ASSUME NEW i \in Present(lst), NEW j \in Present(lst), i # j
        PROVE  Free(new[lst[i]], new[lst[j]])
    <3>1. CASE i \in Present(list) /\ new[lst[i]] = tws[list[i]]
      <4>1. CASE j \in Present(list) /\ new[lst[j]] = tws[list[j]]
        BY <2>1, <3>1, <4>1 DEF Sound, Apart
      <4>2. CASE \E k \in 1..C : new[lst[j]] = cl[k]
        BY <1>1, <3>1, <4>2 DEF Extends
      <4> QED
        BY <1>7, <4>1, <4>2
    <3>2. CASE \E k \in 1..C : i = L + k /\ new[lst[i]] = cl[k]
      <4>1. CASE j \in Present(list) /\ new[lst[j]] = tws[list[j]]
        BY <1>1, <3>2, <4>1 DEF Extends
      <4>2. CASE \E k \in 1..C : j = L + k /\ new[lst[j]] = cl[k]
        BY <1>1, <2>1, <3>2, <4>2 DEF Extends
      <4> QED
        BY <1>7, <4>1, <4>2
    <3> QED
      BY <1>7, <3>1, <3>2
  <2>2. ASSUME NEW k \in DOMAIN cbs, Overwrites(cbs[k]), NEW i \in Present(lst), i < cbs[k].at
        PROVE  Free(new[lst[i]], new[cbs[k].tween])
    <3>1. cbs[k].at \in 1..L
      BY <1>1 DEF Sound, Placed, Slotted
    <3>2. \A l \in 1..C : i # L + l
      BY <1>1, <2>2, <3>1
    <3>3. i \in Present(list) /\ new[lst[i]] = tws[list[i]]
      BY <1>7, <3>2
    <3> QED
      BY <1>8, <2>2, <3>3 DEF Sound, Apart
  <2> QED
    BY <2>1, <2>2 DEF Apart
<1> QED
  BY <1>10, <1>11, <1>12, <1>13, <1>14 DEF Sound, new, lst, ids

(* A tween with fewer properties.                                            *)
LEMMA PropsEvolve ==
    ASSUME NEW tw, Whole(tw), NEW p, p \subseteq tw.props, NEW n
    PROVE  /\ Evolves(tw, [tw EXCEPT !.props = p], n)
           /\ [tw EXCEPT !.props = p].props = p
           /\ [tw EXCEPT !.props = p].fate = tw.fate
           /\ [tw EXCEPT !.props = p].isPaused = tw.isPaused
           /\ [tw EXCEPT !.props = p].timePaused = tw.timePaused
<1> DEFINE new == [tw EXCEPT !.props = p]
<1>1. tw \in Tweens /\ p \in SUBSET Properties
  BY DEF Whole, Tweens
<1>2. new \in Tweens
  BY <1>1 DEF Tweens
<1>3. /\ new.props = p /\ new.fate = tw.fate /\ new.scope = tw.scope
      /\ new.isPaused = tw.isPaused /\ new.timePaused = tw.timePaused
      /\ new.timeStart = tw.timeStart /\ new.timeComplete = tw.timeComplete
      /\ new.shifted = tw.shifted
  BY <1>1 DEF Tweens
<1> HIDE DEF new
<1>4. Evolves(tw, new, n)
  BY <1>2, <1>3 DEF Evolves, Whole, Narrower, Ended
<1> QED
  BY <1>3, <1>4 DEF new

(* Tweens with different properties do not conflict.                         *)
LEMMA DisjointFree ==
    ASSUME NEW a, NEW b, a.props \intersect b.props = {}
    PROVE  Free(a, b)
  BY DEF Free, Conflict

(* What the functions below are given: a sound list and slots in it.         *)
Affected(a) ==
    /\ Sound(a.tweens, a.list, stack, _engineExists, now, walk)
    /\ a.affected \subseteq Present(a.list)

LEMMA AffectTweensSound ==
    ASSUME NEW scope, NEW props,
           Sound(tweens, _tweenList, stack, _engineExists, now, walk),
           Len(_affectTweens(scope, props).tweens) <= MaxTweens
    PROVE  Affected(_affectTweens(scope, props))
<1> DEFINE Its(i)  == _tweenList[i] # Removed /\ tweens[_tweenList[i]].scope = scope
           reached == {i \in Slots : Its(i) /\ (props # {} => \A j \in 1..i :
                           Its(j) => tweens[_tweenList[j]].count = 0)}
           Of(i)   == tweens[_tweenList[i]].props
           whole   == {i \in reached : props = {} \/ (Of(i) \subseteq props /\ Of(i) # {})}
           split   == {i \in reached \ whole : Of(i) \intersect props # {}}
           m       == Cardinality(split)
           ids     == {_tweenList[i] : i \in split}
           clones  == [k \in 1..m |-> clone(tweens[_tweenList[Nth(split, k)]], props)]
           rests   == [id \in DOMAIN tweens |->
                           IF id \in ids THEN [tweens[id] EXCEPT !.props = @ \ props] ELSE tweens[id]]
           lst     == _tweenList \o [k \in 1..m |-> Len(tweens) + k]
           a       == _affectTweens(scope, props)
<1>1. /\ a.tweens = rests \o clones /\ a.list = lst
      /\ a.affected = whole \union {Len(_tweenList) + k : k \in 1..m}
  BY DEF _affectTweens
<1>2. /\ tweens \in Seq(Tweens \union Garbage) /\ Len(tweens) \in Nat
      /\ DOMAIN tweens = 1..Len(tweens)
      /\ _tweenList \in Seq({Removed} \union DOMAIN tweens) /\ Len(_tweenList) \in Nat
      /\ Slots = 1..Len(_tweenList)
      /\ \A i \in Present(_tweenList) :
            Whole(tweens[_tweenList[i]]) /\ _tweenList[i] \in DOMAIN tweens
      /\ \A k \in DOMAIN stack : stack[k].tween \in DOMAIN tweens /\ Whole(tweens[stack[k].tween])
  BY DEF Sound, Objects, Present, Slots
<1>3. whole \subseteq Present(_tweenList) /\ split \subseteq Present(_tweenList)
  BY DEF Present, Slots
<1> HIDE DEF split, whole, a, reached
<1>4. split \in SUBSET Nat /\ IsFiniteSet(split) /\ m \in Nat
  <2>1. split \in SUBSET (1..Len(_tweenList))
    BY <1>2, <1>3 DEF Present, Slots
  <2>2. IsFiniteSet(split)
    <3>1. 1 \in Int /\ Len(_tweenList) \in Int
      BY <1>2
    <3>2. IsFiniteSet(1..Len(_tweenList))
      BY ONLY <3>1, FS_Interval
    <3> QED
      BY ONLY <2>1, <3>2, FS_Subset
  <2> QED
    BY <2>1, <2>2, FS_CardinalityType
<1>5. \A k \in 1..m : /\ Nth(split, k) \in split
                      /\ Cardinality({j \in split : j <= Nth(split, k)}) = k
  BY <1>4, NthSlot
<1> HIDE DEF m
<1>6. \A k, l \in 1..m : k # l => Nth(split, k) # Nth(split, l)
  BY <1>5
<1>7. ids \subseteq DOMAIN tweens /\ \A id \in ids : Whole(tweens[id])
  BY <1>2, <1>3
<1>8. ASSUME NEW id \in DOMAIN tweens, Whole(tweens[id])
      PROVE  Evolves(tweens[id], rests[id], now) /\ rests[id].fate = tweens[id].fate
  <2>1. CASE id \in ids
    <3>1. rests[id] = [tweens[id] EXCEPT !.props = tweens[id].props \ props]
      BY <2>1
    <3> HIDE DEF rests
    <3>2. tweens[id].props \ props \subseteq tweens[id].props
      OBVIOUS
    <3>3. /\ Evolves(tweens[id], [tweens[id] EXCEPT !.props = tweens[id].props \ props], now)
          /\ [tweens[id] EXCEPT !.props = tweens[id].props \ props].fate = tweens[id].fate
      BY ONLY <1>8, <3>2, PropsEvolve
    <3> QED
      BY ONLY <3>1, <3>3
  <2>2. CASE id \notin ids
    <3>1. rests[id] = tweens[id]
      BY <2>2
    <3> HIDE DEF rests
    <3> QED
      BY <1>8, <3>1 DEF Evolves, Narrower, Whole
  <2> QED
    BY <2>1, <2>2
<1>9. \A id \in DOMAIN tweens : id \notin ids => rests[id] = tweens[id]
  OBVIOUS
<1>10. rests \in Seq(Tweens \union Garbage) /\ Len(rests) = Len(tweens) /\ DOMAIN rests = DOMAIN tweens
  <2>1. rests = [x \in 1..Len(tweens) |-> rests[x]]
    BY <1>2
  <2> HIDE DEF rests
  <2>2. \A x \in 1..Len(tweens) : rests[x] \in Tweens \union Garbage
    BY <1>2, <1>7, <1>8, <1>9 DEF Evolves, Whole
  <2> QED
    BY <1>2, <2>1, <2>2, ZenonT(20), SMTT(20)
<1> HIDE DEF rests
<1>11. \A id \in DOMAIN tweens : rests[id].fate = tweens[id].fate
  BY <1>7, <1>8, <1>9
<1>12. InPlace(tweens, _tweenList, stack, rests, _tweenList, now)
  <2>1. \A id \in DOMAIN tweens : Goes(tweens[id], rests[id], id, _tweenList, _tweenList)
    BY <1>11 DEF Goes
  <2>2. \A i \in Present(_tweenList) : Evolves(tweens[_tweenList[i]], rests[_tweenList[i]], now)
    BY <1>2, <1>8
  <2>3. \A k \in DOMAIN stack : Evolves(tweens[stack[k].tween], rests[stack[k].tween], now)
    BY <1>2, <1>8
  <2> QED
    BY <1>2, <1>10, <2>1, <2>2, <2>3 DEF InPlace
<1>13. Sound(rests, _tweenList, stack, _engineExists, now, walk)
  BY <1>12, InPlaceStaysSound
<1>14. clones = [k \in 1..m |-> clones[k]]
  OBVIOUS
<1>15. ASSUME NEW k \in 1..m
       PROVE  LET old == tweens[_tweenList[Nth(split, k)]] IN
              /\ Nth(split, k) \in Present(_tweenList) /\ Nth(split, k) \in split
              /\ Whole(old) /\ Evolves(old, clones[k], now)
              /\ clones[k].props = old.props \intersect props
              /\ clones[k].fate = "listed"
              /\ clones[k].isPaused => clones[k].timePaused <= now
              /\ _engineExists
  <2> DEFINE s == Nth(split, k)
             old == tweens[_tweenList[s]]
  <2>1. s \in split /\ s \in Present(_tweenList)
    BY <1>3, <1>5
  <2>2. clones[k] = [old EXCEPT !.props = old.props \intersect props]
    BY DEF clone
  <2> HIDE DEF s
  <2>3. Whole(old) /\ old.fate = "listed" /\ _engineExists /\ (old.isPaused => old.timePaused <= now)
    BY <1>2, <2>1 DEF Sound, Listing, Clocked, Present
  <2> HIDE DEF clones, old
  <2>4. /\ Evolves(old, clones[k], now)
        /\ clones[k].props = old.props \intersect props /\ clones[k].fate = "listed"
        /\ clones[k].isPaused = old.isPaused /\ clones[k].timePaused = old.timePaused
    BY SMTT(30), ZenonT(30), <2>2, <2>3, PropsEvolve
  <2> QED
    BY <2>1, <2>3, <2>4 DEF s, old
<1> HIDE DEF clones
<1>16. clones \in Seq(Tweens) /\ Len(clones) = m /\ DOMAIN clones = 1..m
  <2>1. \A k \in 1..m : clones[k] \in Tweens
    BY <1>15 DEF Evolves, Whole
  <2> QED
    BY <1>4, <1>14, <2>1, ZenonT(20), SMTT(20)
<1>17. ASSUME NEW k \in 1..m, NEW i \in Present(_tweenList)
       PROVE  /\ Free(rests[_tweenList[i]], clones[k])
              /\ Free(clones[k], rests[_tweenList[i]])
  <2> DEFINE s == Nth(split, k)
  <2>1. /\ s \in Present(_tweenList) /\ s \in split
        /\ Narrower(clones[k], tweens[_tweenList[s]])
        /\ clones[k].props = tweens[_tweenList[s]].props \intersect props
    BY <1>15 DEF Evolves
  <2>2. Narrower(rests[_tweenList[i]], tweens[_tweenList[i]])
    BY <1>2, <1>8 DEF Evolves
  <2> HIDE DEF s
  <2>3. CASE i = s
    <3>1. _tweenList[s] \in ids /\ _tweenList[s] \in DOMAIN tweens /\ Whole(tweens[_tweenList[s]])
      BY <1>2, <2>1
    <3>2. rests[_tweenList[s]] = [tweens[_tweenList[s]] EXCEPT !.props = tweens[_tweenList[s]].props \ props]
      BY <3>1 DEF rests
    <3>3. rests[_tweenList[s]].props = tweens[_tweenList[s]].props \ props
      BY <3>1, <3>2, PropsEvolve
    <3>4. /\ rests[_tweenList[i]].props \intersect clones[k].props = {}
          /\ clones[k].props \intersect rests[_tweenList[i]].props = {}
      BY <2>1, <2>3, <3>3
    <3> QED
      BY <3>4, DisjointFree
  <2>4. CASE i # s
    <3>1. /\ Free(tweens[_tweenList[i]], tweens[_tweenList[s]])
          /\ Free(tweens[_tweenList[s]], tweens[_tweenList[i]])
      BY <2>1, <2>4 DEF Sound, Apart
    <3> QED
      BY <2>1, <2>2, <3>1, NarrowerFree
  <2> QED
    BY <2>3, <2>4
<1>18. ASSUME NEW k \in 1..m, NEW l \in 1..m, k # l
       PROVE  Free(clones[k], clones[l])
  <2> DEFINE s == Nth(split, k)
             t == Nth(split, l)
  <2>1. /\ s \in Present(_tweenList) /\ t \in Present(_tweenList) /\ s # t
        /\ Narrower(clones[k], tweens[_tweenList[s]])
        /\ Narrower(clones[l], tweens[_tweenList[t]])
    BY <1>6, <1>15, <1>18 DEF Evolves
  <2> HIDE DEF s, t
  <2>2. Free(tweens[_tweenList[s]], tweens[_tweenList[t]])
    BY <2>1 DEF Sound, Apart
  <2> QED
    BY <2>1, <2>2, NarrowerFree
<1>19. Len(rests) + Len(clones) <= MaxTweens
  <2>1. clones \in Seq(Tweens \union Garbage)
    BY <1>16
  <2>2. Len(rests \o clones) = Len(rests) + Len(clones)
    BY <1>10, <2>1, ConcatProperties
  <2> QED
    BY <1>1, <2>2 DEF a
<1>20. Extends(rests, _tweenList, clones, _engineExists, now)
  BY <1>15, <1>16, <1>17, <1>18, <1>19 DEF Extends, Evolves
<1>21. Sound(rests \o clones, _tweenList \o [k \in 1..Len(clones) |-> Len(rests) + k],
             stack, _engineExists, now, walk)
  BY <1>13, <1>20, ExtendStaysSound
<1>22. Sound(a.tweens, a.list, stack, _engineExists, now, walk)
  BY <1>1, <1>10, <1>16, <1>21
<1>23. a.affected \subseteq Present(a.list)
  <2>1. DOMAIN lst = 1..(Len(_tweenList) + m) /\ \A i \in Slots : lst[i] = _tweenList[i]
    BY <1>2, <1>4
  <2>2. \A k \in 1..m : lst[Len(_tweenList) + k] = Len(tweens) + k
    BY <1>2, <1>4
  <2> HIDE DEF lst
  <2>3. whole \subseteq Present(lst)
    BY <1>2, <1>3, <1>4, <2>1 DEF Present, Slots
  <2>4. \A k \in 1..m : Len(_tweenList) + k \in Present(lst)
    BY <1>2, <1>4, <2>1, <2>2 DEF Present, Removed
  <2> QED
    BY <1>1, <2>3, <2>4
<1> QED
  BY <1>22, <1>23 DEF Affected, a

LEMMA MapOverTweensSound ==
    ASSUME Sound(tweens, _tweenList, stack, _engineExists, now, walk)
    PROVE  Affected(_mapOverTweens)
  BY DEF Affected, _mapOverTweens

(* Some of the tweens in the list evolve, and nothing else.                  *)
Changes(tws, list, ids, new, n) ==
    /\ new = [id \in DOMAIN tws |-> new[id]]
    /\ \A id \in DOMAIN tws : id \notin ids => new[id] = tws[id]
    /\ \A id \in ids : Evolves(tws[id], new[id], n) /\ new[id].fate = tws[id].fate

LEMMA ChangesStaysSound ==
    ASSUME NEW tws, NEW list, NEW cbs, NEW eng, NEW n, NEW w, NEW ids, NEW new,
           Sound(tws, list, cbs, eng, n, w), Changes(tws, list, ids, new, n)
    PROVE  Sound(new, list, cbs, eng, n, w)
<1>1. /\ tws \in Seq(Tweens \union Garbage) /\ Len(tws) \in Nat /\ DOMAIN tws = 1..Len(tws)
      /\ list \in Seq({Removed} \union DOMAIN tws)
      /\ \A i \in Present(list) : Whole(tws[list[i]]) /\ list[i] \in DOMAIN tws
      /\ \A k \in DOMAIN cbs : cbs[k].tween \in DOMAIN tws /\ Whole(tws[cbs[k].tween])
  BY DEF Sound, Objects, Present
<1>2. \A x \in DOMAIN tws : Whole(tws[x]) => Evolves(tws[x], new[x], n)
  <2>1. \A t : Whole(t) => Evolves(t, t, n)
    BY DEF Evolves, Narrower, Whole
  <2> QED
    BY <2>1 DEF Changes
<1>3. \A x \in DOMAIN tws : new[x].fate = tws[x].fate
  BY DEF Changes
<1>4. new \in Seq(Tweens \union Garbage) /\ Len(new) = Len(tws)
  <2>1. new = [x \in 1..Len(tws) |-> new[x]]
    BY <1>1 DEF Changes
  <2>2. \A x \in 1..Len(tws) : new[x] \in Tweens \union Garbage
    <3> SUFFICES ASSUME NEW x \in 1..Len(tws) PROVE new[x] \in Tweens \union Garbage
      OBVIOUS
    <3>1. x \in DOMAIN tws /\ tws[x] \in Tweens \union Garbage
      BY <1>1
    <3>2. CASE x \in ids
      BY <3>2 DEF Changes, Evolves, Whole
    <3>3. CASE x \notin ids
      BY <3>1, <3>3 DEF Changes
    <3> QED
      BY <3>2, <3>3
  <2> QED
    BY <1>1, <2>1, <2>2, ZenonT(20), SMTT(20)
<1>5. \A x \in DOMAIN tws : Goes(tws[x], new[x], x, list, list)
  BY <1>3 DEF Goes
<1>6. InPlace(tws, list, cbs, new, list, n)
  BY <1>1, <1>2, <1>4, <1>5 DEF InPlace
<1> QED
  BY <1>6, InPlaceStaysSound

LEMMA PauseEvolves ==
    ASSUME NEW tw, Whole(tw), now \in 0..MaxTime, tw.fate # "new"
    PROVE  Evolves(tw, _pauseTweenByIndex(tw), now) /\ _pauseTweenByIndex(tw).fate = tw.fate
<1> DEFINE new == [tw EXCEPT !.timePaused = now, !.isPaused = TRUE]
<1>1. tw \in Tweens
  BY DEF Whole
<1>2. new \in Tweens
  BY <1>1 DEF Tweens
<1>3. /\ new.props = tw.props /\ new.fate = tw.fate /\ new.scope = tw.scope
      /\ new.isPaused /\ new.timePaused = now
      /\ new.timeStart = tw.timeStart /\ new.timeComplete = tw.timeComplete
      /\ new.shifted = tw.shifted
  BY <1>1 DEF Tweens
<1> HIDE DEF new
<1>4. CASE tw.isPaused
  BY <1>4 DEF _pauseTweenByIndex, Evolves, Narrower
<1>5. CASE ~tw.isPaused
  <2>1. _pauseTweenByIndex(tw) = new
    BY <1>5 DEF _pauseTweenByIndex, new
  <2>2. Evolves(tw, new, now)
    BY <1>2, <1>3 DEF Evolves, Whole, Narrower, Ended
  <2> QED
    BY <1>3, <2>1, <2>2
<1> QED
  BY <1>4, <1>5

LEMMA ResumeEvolves ==
    ASSUME NEW tw, Whole(tw), now \in 0..MaxTime, tw.fate # "new",
           tw.isPaused => tw.timePaused <= now,
           _resumeTweenByIndex(tw).timeComplete <= MaxTime
    PROVE  Evolves(tw, _resumeTweenByIndex(tw), now) /\ _resumeTweenByIndex(tw).fate = tw.fate
<1> DEFINE paused == now - tw.timePaused
           new == [tw EXCEPT !.timeStart = tw.timeStart + paused,
                             !.timeComplete = tw.timeComplete + paused,
                             !.timePaused = 0, !.isPaused = FALSE,
                             !.shifted = tw.shifted \/ paused > 0]
<1>1. /\ tw \in Tweens /\ MaxTime \in Nat
      /\ tw.timeStart \in 0..MaxTime /\ tw.timeComplete \in 0..MaxTime
      /\ tw.timePaused \in 0..MaxTime /\ tw.timeStart <= tw.timeComplete
      /\ tw.shifted \in BOOLEAN /\ tw.isPaused \in BOOLEAN
  BY TweenerAssumption DEF Whole, Tweens
<1>2. CASE ~tw.isPaused
  BY <1>2 DEF _resumeTweenByIndex, Evolves, Narrower
<1>3. CASE tw.isPaused
  <2>1. _resumeTweenByIndex(tw) = new
    BY <1>3 DEF _resumeTweenByIndex
  <2>2. /\ new.props = tw.props /\ new.fate = tw.fate /\ new.scope = tw.scope
        /\ ~new.isPaused /\ new.timePaused = 0
        /\ new.timeStart = tw.timeStart + paused
        /\ new.timeComplete = tw.timeComplete + paused
        /\ new.shifted = (tw.shifted \/ paused > 0)
    BY <1>1 DEF Tweens
  <2>3. paused \in Nat
    BY <1>1, <1>3
  <2>4. tw.timeStart + paused \in 0..MaxTime /\ tw.timeComplete + paused \in 0..MaxTime
    BY <1>1, <2>1, <2>2, <2>3
  <2>5. new \in Tweens
    <3>1. (tw.shifted \/ paused > 0) \in BOOLEAN /\ 0 \in 0..MaxTime
      BY <1>1
    <3> DEFINE start == tw.timeStart + paused
               complete == tw.timeComplete + paused
               shift == tw.shifted \/ paused > 0
               other == [tw EXCEPT !.timeStart = start, !.timeComplete = complete,
                                   !.timePaused = 0, !.isPaused = FALSE, !.shifted = shift]
    <3>2. new = other
      OBVIOUS
    <3>3. start \in 0..MaxTime /\ complete \in 0..MaxTime /\ shift \in BOOLEAN
      BY <2>4, <3>1
    <3> HIDE DEF start, complete, shift, new
    <3>4. other \in Tweens
      BY <1>1, <3>1, <3>3 DEF Tweens
    <3> QED
      BY <3>2, <3>4
  <2> HIDE DEF new
  <2>6. Whole(new)
    BY <1>1, <2>2, <2>3, <2>5 DEF Whole
  <2>7. Narrower(new, tw)
    <3>1. ~new.shifted => ~tw.shifted /\ paused = 0
      <4>1. ASSUME ~new.shifted PROVE ~tw.shifted /\ ~(paused > 0)
        BY <2>2, <4>1
      <4> HIDE DEF paused
      <4>2. ~(paused > 0) => paused = 0
        BY <2>3
      <4> QED
        BY <4>1, <4>2
    <3> QED
      BY <1>1, <2>2, <3>1 DEF Narrower
  <2>8. Ended(tw, now) => Ended(new, now)
    <3>1. Ended(tw, now) => paused = 0
      BY <1>1, <1>3 DEF Ended
    <3> QED
      BY <1>1, <2>2, <3>1 DEF Ended
  <2> QED
    BY <2>1, <2>2, <2>6, <2>7, <2>8 DEF Evolves
<1> QED
  BY <1>1, <1>2, <1>3

(* The tweens in the slots a function is given.                              *)
LEMMA AffectedTweens ==
    ASSUME NEW a, Affected(a)
    PROVE  LET ids == {a.list[i] : i \in a.affected} IN
           /\ now \in 0..MaxTime /\ ids \subseteq DOMAIN a.tweens
           /\ \A id \in ids : /\ Whole(a.tweens[id]) /\ a.tweens[id].fate = "listed"
                              /\ a.tweens[id].isPaused => a.tweens[id].timePaused <= now
           /\ \A i \in DOMAIN a.list : a.list[i] \in ids <=> i \in a.affected
<1> DEFINE ids == {a.list[i] : i \in a.affected}
<1>1. \A i \in a.affected : i \in Present(a.list) /\ i \in DOMAIN a.list /\ a.list[i] # Removed
  BY DEF Affected, Present
<1>2. \A i \in a.affected : a.list[i] \in DOMAIN a.tweens
  BY <1>1 DEF Affected, Sound, Objects
<1>3. \A i \in a.affected : /\ Whole(a.tweens[a.list[i]]) /\ a.tweens[a.list[i]].fate = "listed"
                            /\ a.tweens[a.list[i]].isPaused => a.tweens[a.list[i]].timePaused <= now
  BY <1>1, <1>2 DEF Affected, Sound, Objects, Listing, Clocked
<1>4. ASSUME NEW i \in DOMAIN a.list, NEW j \in a.affected, a.list[i] = a.list[j] PROVE i = j
  <2>1. i \in Present(a.list) /\ j \in Present(a.list)
    BY <1>1, <1>4 DEF Present
  <2> QED
    BY <1>4, <2>1 DEF Affected, Sound, Listing
<1>5. \A i \in a.affected : i \in DOMAIN a.list
  BY <1>1
<1>6. \A i \in DOMAIN a.list : a.list[i] \in ids <=> i \in a.affected
  BY <1>4
<1> QED
  BY <1>2, <1>3, <1>6 DEF Affected, Sound, Clocked

LEMMA AffectStaysSound ==
    ASSUME NEW a, Affected(a), Affect(a)
    PROVE  Sound(tweens', _tweenList', stack', _engineExists', now', walk')
<1> DEFINE ids == {a.list[i] : i \in a.affected}
<1>1. /\ Sound(a.tweens, a.list, stack, _engineExists, now, walk)
      /\ UNCHANGED <<_engineExists, ticker, now, walk>>
  BY DEF Affected, Affect
<1>2. /\ now \in 0..MaxTime /\ ids \subseteq DOMAIN a.tweens
      /\ \A id \in ids : /\ Whole(a.tweens[id]) /\ a.tweens[id].fate = "listed"
                         /\ a.tweens[id].isPaused => a.tweens[id].timePaused <= now
      /\ \A i \in DOMAIN a.list : a.list[i] \in ids <=> i \in a.affected
  BY AffectedTweens
<1>3. CASE pauseTweens(a)
  <2> DEFINE new == Changed(a, _pauseTweenByIndex)
  <2>1. /\ new = [id \in DOMAIN a.tweens |-> new[id]]
        /\ \A id \in DOMAIN a.tweens : id \notin ids => new[id] = a.tweens[id]
        /\ \A id \in DOMAIN a.tweens : id \in ids => new[id] = _pauseTweenByIndex(a.tweens[id])
    BY DEF Changed
  <2>2. Become(new, a.list, stack)
    BY <1>3 DEF pauseTweens
  <2> HIDE DEF new, ids
  <2>3. \A id \in ids : Evolves(a.tweens[id], new[id], now) /\ new[id].fate = a.tweens[id].fate
    BY <1>2, <2>1, PauseEvolves
  <2>4. Changes(a.tweens, a.list, ids, new, now)
    BY <2>1, <2>3 DEF Changes
  <2>5. Sound(new, a.list, stack, _engineExists, now, walk)
    BY ONLY <1>1, <2>4, ChangesStaysSound
  <2>6. Sound(tweens', _tweenList', stack', _engineExists, now, walk)
    BY ONLY <2>2, <2>5, BecomeStaysSound
  <2> QED
    BY <1>1, <2>6
<1>4. CASE resumeTweens(a)
  <2> DEFINE new == Changed(a, _resumeTweenByIndex)
  <2>1. /\ new = [id \in DOMAIN a.tweens |-> new[id]]
        /\ \A id \in DOMAIN a.tweens : id \notin ids => new[id] = a.tweens[id]
        /\ \A id \in DOMAIN a.tweens : id \in ids => new[id] = _resumeTweenByIndex(a.tweens[id])
    BY DEF Changed
  <2>2. Become(new, a.list, stack) /\ \A i \in a.affected : new[a.list[i]].timeComplete <= MaxTime
    BY <1>4 DEF resumeTweens
  <2>3. \A id \in ids : new[id].timeComplete <= MaxTime
    BY <2>2
  <2> HIDE DEF new, ids
  <2>4. \A id \in ids : Evolves(a.tweens[id], new[id], now) /\ new[id].fate = a.tweens[id].fate
    BY <1>2, <2>1, <2>3, ResumeEvolves
  <2>5. Changes(a.tweens, a.list, ids, new, now)
    BY <2>1, <2>4 DEF Changes
  <2>6. Sound(new, a.list, stack, _engineExists, now, walk)
    BY ONLY <1>1, <2>5, ChangesStaysSound
  <2>7. Sound(tweens', _tweenList', stack', _engineExists, now, walk)
    BY ONLY <2>2, <2>6, BecomeStaysSound
  <2> QED
    BY <1>1, <2>7
<1>5. CASE removeTweens(a)
  <2> DEFINE new == Fate(a.tweens, ids, "removed")
             lst == _removeTweenByIndex(a.list, a.affected)
  <2>1. Become(new, lst, stack)
    BY <1>5 DEF removeTweens
  <2> HIDE DEF ids
  <2>2. Leaves(a.tweens, a.list, ids, a.affected, "removed")
    BY <1>2 DEF Leaves
  <2>3. Sound(new, lst, stack, _engineExists, now, walk)
    BY ONLY <1>1, <2>2, RemoveStaysSound
  <2>4. Sound(tweens', _tweenList', stack', _engineExists, now, walk)
    BY ONLY <2>1, <2>3, BecomeStaysSound
  <2> QED
    BY <1>1, <2>4
<1> QED
  BY <1>3, <1>4, <1>5 DEF Affect

-----------------------------------------------------------------------------
(* The steps.                                                                *)

Now == Sound(tweens, _tweenList, stack, _engineExists, now, walk)
Then == Sound(tweens', _tweenList', stack', _engineExists', now', walk')

(* The callback running, its tween and its slot.                             *)
LEMMA TopFrame ==
    ASSUME Now, stack # <<>>
    PROVE  /\ stack \in Seq(Frames) /\ Len(stack) \in Nat \ {0} /\ 1 \in DOMAIN stack
           /\ Top = stack[1] /\ Top \in Frames /\ Slotted(tweens, _tweenList, Top)
           /\ Top.tween \in DOMAIN tweens /\ Whole(tweens[Top.tween])
           /\ Top.walking => /\ Top.at = walk /\ ~Overwrites(Top) /\ Tail(stack) = <<>>
           /\ _engineExists /\ now \in 0..MaxTime
           /\ Overwrites(Top) => ~tweens[Top.tween].isPaused
           /\ ~Overwrites(Top) => Top.walking \/ Ended(tweens[Top.tween], now)
           /\ Sound(tweens, _tweenList, Tail(stack), _engineExists, now, walk)
<1>1. stack \in Seq(Frames) /\ Len(stack) \in Nat \ {0} /\ 1 \in DOMAIN stack /\ Top = stack[1]
  <2>1. stack \in Seq(Frames)
    BY DEF Now, Sound, Objects
  <2> QED
    BY <2>1 DEF Top
<1>2. Top \in Frames
  BY <1>1
<1>3. /\ Slotted(tweens, _tweenList, Top)
      /\ Top.walking => Top.at = walk /\ 1 = Len(stack) /\ ~Overwrites(Top)
  BY <1>1 DEF Now, Sound, Placed
<1>4. Top.walking => Tail(stack) = <<>>
  <2>1. Tail(stack) \in Seq(Frames) /\ Len(Tail(stack)) = Len(stack) - 1
    BY <1>1, HeadTailProperties
  <2>2. Top.walking => Len(Tail(stack)) = 0
    BY <1>1, <1>3, <2>1
  <2>3. \A t \in Seq(Frames) : Len(t) = 0 => t = <<>>
    OBVIOUS
  <2> QED
    BY ONLY <2>1, <2>2, <2>3
<1>5. Top.tween \in DOMAIN tweens /\ Whole(tweens[Top.tween])
  BY <1>1 DEF Now, Sound, Objects
<1>6. /\ _engineExists /\ now \in 0..MaxTime
      /\ Overwrites(Top) => ~tweens[Top.tween].isPaused
      /\ ~Overwrites(Top) => Top.walking \/ Ended(tweens[Top.tween], now)
  BY <1>1 DEF Now, Sound, Clocked
<1>7. Sound(tweens, _tweenList, Tail(stack), _engineExists, now, walk)
  BY PopStaysSound DEF Now
<1> QED
  BY <1>1, <1>2, <1>3, <1>4, <1>5, <1>6, <1>7

(* _updateTweenByIndex goes on from one callback to the next.                *)
Turned(cbs, calls) == [cbs EXCEPT ![1].calls = calls]

LEMMA TurnStaysSound ==
    ASSUME NEW tws, NEW list, NEW cbs, NEW eng, NEW n, NEW w, NEW calls,
           Sound(tws, list, cbs, eng, n, w), cbs # <<>>, ~Overwrites(cbs[1]),
           calls \in {"onUpdate", "onComplete"}
    PROVE  Sound(tws, list, Turned(cbs, calls), eng, n, w)
<1> DEFINE t == Turned(cbs, calls)
<1>1. cbs \in Seq(Frames) /\ DOMAIN cbs = 1..Len(cbs) /\ Len(cbs) \in Nat /\ 1 \in DOMAIN cbs
  BY DEF Sound, Objects
<1>2. /\ DOMAIN t = DOMAIN cbs /\ t[1] = [cbs[1] EXCEPT !.calls = calls]
      /\ \A k \in DOMAIN cbs : k # 1 => t[k] = cbs[k]
  BY <1>1 DEF Turned
<1>3. cbs[1] \in Frames
  BY <1>1
<1>4. t[1] \in Frames
  BY <1>2, <1>3 DEF Frames
<1>5. /\ t[1].tween = cbs[1].tween /\ t[1].at = cbs[1].at /\ t[1].walking = cbs[1].walking
      /\ ~Overwrites(t[1])
  BY <1>2, <1>3 DEF Frames, Overwrites
<1>6. t \in Seq(Frames) /\ Len(t) = Len(cbs) /\ t # <<>>
  <2>1. t = [k \in 1..Len(cbs) |-> t[k]]
    BY <1>1 DEF Turned
  <2>2. \A k \in 1..Len(cbs) : t[k] \in Frames
    BY <1>1, <1>2, <1>4
  <2> HIDE DEF t
  <2> QED
    BY <1>1, <2>1, <2>2, ZenonT(20), SMTT(20)
<1> HIDE DEF t
<1>7. \A k \in DOMAIN cbs : /\ t[k].tween = cbs[k].tween /\ t[k].at = cbs[k].at
                            /\ t[k].walking = cbs[k].walking
                            /\ Overwrites(t[k]) <=> Overwrites(cbs[k])
  BY <1>2, <1>5
<1>8. Objects(tws, list, t)
  BY <1>2, <1>6, <1>7 DEF Sound, Objects
<1>9. Placed(tws, list, t, w)
  <2>1. \A k \in DOMAIN cbs : Slotted(tws, list, t[k])
    BY <1>7 DEF Sound, Placed, Slotted
  <2> QED
    BY <1>2, <1>6, <1>7, <2>1 DEF Sound, Placed
<1>10. Clocked(tws, list, t, eng, n)
  BY <1>1, <1>2, <1>7 DEF Sound, Clocked
<1>11. Apart(tws, list, t)
  BY <1>2, <1>7 DEF Sound, Apart
<1> QED
  BY <1>8, <1>9, <1>10, <1>11 DEF Sound, t

(* A tween that was updated.                                                 *)
LEMMA UpdatedEvolves ==
    ASSUME NEW tw, Whole(tw), NEW n, NEW called \in Nat
    PROVE  /\ Evolves(tw, [tw EXCEPT !.hasStarted = TRUE], n)
           /\ [tw EXCEPT !.hasStarted = TRUE].fate = tw.fate
           /\ Evolves(tw, [tw EXCEPT !.timesCalled = called], n)
           /\ [tw EXCEPT !.timesCalled = called].fate = tw.fate
<1> DEFINE a == [tw EXCEPT !.hasStarted = TRUE]
           b == [tw EXCEPT !.timesCalled = called]
<1>1. tw \in Tweens
  BY DEF Whole
<1>2. a \in Tweens /\ b \in Tweens
  BY <1>1 DEF Tweens
<1>3. /\ a.props = tw.props /\ a.fate = tw.fate /\ a.scope = tw.scope
      /\ a.isPaused = tw.isPaused /\ a.timePaused = tw.timePaused
      /\ a.timeStart = tw.timeStart /\ a.timeComplete = tw.timeComplete
      /\ a.shifted = tw.shifted
  BY <1>1 DEF Tweens
<1>4. /\ b.props = tw.props /\ b.fate = tw.fate /\ b.scope = tw.scope
      /\ b.isPaused = tw.isPaused /\ b.timePaused = tw.timePaused
      /\ b.timeStart = tw.timeStart /\ b.timeComplete = tw.timeComplete
      /\ b.shifted = tw.shifted
  BY <1>1 DEF Tweens
<1> HIDE DEF a, b
<1>5. Evolves(tw, a, n) /\ Evolves(tw, b, n)
  BY <1>2, <1>3, <1>4 DEF Evolves, Whole, Narrower, Ended
<1> QED
  BY <1>3, <1>4, <1>5 DEF a, b

LEMMA onStartStaysSound ==
    ASSUME Now, onStart_returns, UNCHANGED <<_engineExists, ticker, now>>
    PROVE  Then
<1>1. stack # <<>> /\ Top.calls = "onStart"
  BY DEF onStart_returns, Calling
<1>2. /\ Top.tween \in DOMAIN tweens /\ Whole(tweens[Top.tween])
      /\ Top = stack[1] /\ ~Overwrites(Top)
  BY <1>1, TopFrame DEF Overwrites
<1> DEFINE tw == [tweens[Top.tween] EXCEPT !.hasStarted = TRUE]
           new == [tweens EXCEPT ![Top.tween] = tw]
<1>3. Evolves(tweens[Top.tween], tw, now) /\ tw.fate = tweens[Top.tween].fate
  BY <1>2, UpdatedEvolves
<1>4. tweens' = new /\ stack' = Turned(stack, "onUpdate") /\ UNCHANGED <<_tweenList, walk>>
  BY DEF onStart_returns, Turned
<1> HIDE DEF tw
<1>5. Sound(new, _tweenList, stack, _engineExists, now, walk)
  BY <1>2, <1>3, ChangeOneStaysSound DEF Now
<1> HIDE DEF new
<1>6. Sound(new, _tweenList, Turned(stack, "onUpdate"), _engineExists, now, walk)
  BY <1>1, <1>2, <1>5, TurnStaysSound
<1> QED
  BY <1>4, <1>6 DEF Then

LEMMA onUpdateStaysSound ==
    ASSUME Now, onUpdate_returns, UNCHANGED <<_engineExists, ticker, now>>
    PROVE  Then
<1>1. stack # <<>> /\ Top.calls = "onUpdate"
  BY DEF onUpdate_returns, Calling
<1>2. /\ Top = stack[1] /\ ~Overwrites(Top) /\ Top.at \in DOMAIN _tweenList
      /\ Top.walking => Top.at = walk /\ Tail(stack) = <<>>
      /\ Top.walking \/ Ended(tweens[Top.tween], now)
      /\ Sound(tweens, _tweenList, Tail(stack), _engineExists, now, walk)
      /\ Whole(tweens[Top.tween]) /\ now \in 0..MaxTime
  BY <1>1, TopFrame DEF Overwrites, Slotted
<1>3. CASE /\ stack' = Turned(stack, "onComplete") /\ UNCHANGED <<tweens, _tweenList, walk>>
  <2>1. Sound(tweens, _tweenList, Turned(stack, "onComplete"), _engineExists, now, walk)
    BY <1>1, <1>2, TurnStaysSound DEF Now
  <2> QED
    BY <1>3, <2>1 DEF Then
<1>4. CASE /\ ~Over(tweens[Top.tween])
           /\ UpdateReturns(tweens, Top.at, Top.walking, TRUE, Tail(stack))
  <2>1. Top.walking = TRUE
    <3>1. tweens[Top.tween].timeComplete \in 0..MaxTime
      BY <1>2 DEF Whole, Tweens
    <3>2. ~Ended(tweens[Top.tween], now)
      BY <1>2, <1>4, <3>1, TweenerAssumption DEF Ended, Over
    <3>3. Top.walking \in BOOLEAN
      BY <1>1, TopFrame DEF Frames
    <3> QED
      BY <1>2, <3>2, <3>3
  <2>2. /\ UpdateReturns(tweens, Top.at, TRUE, TRUE, Tail(stack))
        /\ Sound(tweens, IF TRUE /\ TRUE THEN _tweenList ELSE _removeTweenByIndex(_tweenList, {Top.at}),
                 Tail(stack), _engineExists, now, walk)
        /\ Top.at \in DOMAIN _tweenList /\ Top.at = walk /\ Tail(stack) = <<>>
    BY <1>2, <1>4, <2>1
  <2>3. Sound(tweens', _tweenList', stack', _engineExists, now, walk')
    BY <2>2, UpdateReturnsStaysSound
  <2> QED
    BY <2>3 DEF Then
<1> QED
  BY <1>3, <1>4 DEF onUpdate_returns, Turned

(* The updated tween is over: it leaves its slot and _updateTweenByIndex     *)
(* returns.                                                                  *)
LEMMA EndStaysSound ==
    ASSUME NEW tws, NEW list, NEW cbs, NEW eng, NEW n, NEW w, NEW f, NEW fate,
           Sound(tws, list, cbs, eng, n, w), cbs # <<>>, f = cbs[1], ~Overwrites(f),
           fate \in {"removed", "completed"}
    PROVE  Sound(Fate(tws, {f.tween}, fate), _removeTweenByIndex(list, {f.at}),
                 Tail(cbs), eng, n, w)
<1>1. 1 \in DOMAIN cbs
  BY DEF Sound, Objects
<1>2. f.tween \in DOMAIN tws /\ Whole(tws[f.tween]) /\ Slotted(tws, list, f)
  BY <1>1 DEF Sound, Objects, Placed
<1>3. Leaves(tws, list, {f.tween}, {f.at}, fate)
  BY <1>2 DEF Leaves, Slotted
<1>4. Sound(Fate(tws, {f.tween}, fate), _removeTweenByIndex(list, {f.at}), cbs, eng, n, w)
  BY <1>3, RemoveStaysSound
<1> QED
  BY <1>4, PopStaysSound

LEMMA onCompleteStaysSound ==
    ASSUME Now, onComplete_returns, UNCHANGED <<_engineExists, ticker, now>>
    PROVE  Then
<1> DEFINE new == Fate(tweens, {Top.tween}, "completed")
           lst == _removeTweenByIndex(_tweenList, {Top.at})
<1>1. stack # <<>> /\ Top.calls = "onComplete"
  BY DEF onComplete_returns, Calling
<1>2. /\ Top = stack[1] /\ ~Overwrites(Top) /\ Top.at \in DOMAIN _tweenList
      /\ Top.walking \in BOOLEAN
      /\ Top.walking => Top.at = walk /\ Tail(stack) = <<>>
  BY <1>1, TopFrame DEF Overwrites, Slotted, Frames
<1>3. Sound(new, lst, Tail(stack), _engineExists, now, walk)
  BY <1>1, <1>2, EndStaysSound DEF Now
<1>4. UpdateReturns(new, Top.at, Top.walking, FALSE, Tail(stack))
  BY DEF onComplete_returns
<1> HIDE DEF new
<1>5. Sound(new, IF FALSE /\ Top.walking THEN _tweenList ELSE _removeTweenByIndex(_tweenList, {Top.at}),
            Tail(stack), _engineExists, now, walk)
  BY <1>3
<1>6. Sound(tweens', _tweenList', stack', _engineExists, now, walk')
  BY <1>2, <1>4, <1>5, UpdateReturnsStaysSound
<1> QED
  BY <1>6 DEF Then

LEMMA onCallStaysSound ==
    ASSUME Now, onCall_returns, UNCHANGED <<_engineExists, ticker, now>>
    PROVE  Then
<1> DEFINE called == tweens[Top.tween].timesCalled + 1
           tw  == [tweens[Top.tween] EXCEPT !.timesCalled = called]
           tws == [tweens EXCEPT ![Top.tween] = tw]
           new == IF Top.walking THEN tws ELSE Fate(tws, {Top.tween}, "removed")
<1>1. stack # <<>> /\ Top.calls = "onCall"
  BY DEF onCall_returns, Calling
<1>2. /\ Top = stack[1] /\ ~Overwrites(Top) /\ Top.at \in DOMAIN _tweenList
      /\ Top.walking \in BOOLEAN
      /\ Top.walking => Top.at = walk /\ Tail(stack) = <<>>
      /\ Top.tween \in DOMAIN tweens /\ Whole(tweens[Top.tween])
  BY <1>1, TopFrame DEF Overwrites, Slotted, Frames
<1>3. called \in Nat
  BY <1>2 DEF Whole, Tweens
<1>4. \/ Become(tws, _tweenList, Turned(stack, "onComplete")) /\ UNCHANGED walk
      \/ Become(tws, _tweenList, stack) /\ UNCHANGED walk
      \/ UpdateReturns(new, Top.at, Top.walking, TRUE, Tail(stack))
  BY DEF onCall_returns, Turned
<1> HIDE DEF called
<1>5. Evolves(tweens[Top.tween], tw, now) /\ tw.fate = tweens[Top.tween].fate
  BY <1>2, <1>3, UpdatedEvolves
<1> HIDE DEF tw
<1>6. Sound(tws, _tweenList, stack, _engineExists, now, walk)
  BY <1>2, <1>5, ChangeOneStaysSound DEF Now
<1> HIDE DEF tws
<1>7. CASE Become(tws, _tweenList, Turned(stack, "onComplete")) /\ UNCHANGED walk
  <2>1. Sound(tws, _tweenList, Turned(stack, "onComplete"), _engineExists, now, walk)
    BY <1>1, <1>2, <1>6, TurnStaysSound
  <2>2. Sound(tweens', _tweenList', stack', _engineExists, now, walk)
    BY ONLY <1>7, <2>1, BecomeStaysSound
  <2> QED
    BY <1>7, <2>2 DEF Then
<1>8. CASE Become(tws, _tweenList, stack) /\ UNCHANGED walk
  <2>1. Sound(tweens', _tweenList', stack', _engineExists, now, walk)
    BY ONLY <1>6, <1>8, BecomeStaysSound
  <2> QED
    BY <1>8, <2>1 DEF Then
<1>9. CASE UpdateReturns(new, Top.at, Top.walking, TRUE, Tail(stack))
  <2>1. Sound(new, IF TRUE /\ Top.walking THEN _tweenList ELSE _removeTweenByIndex(_tweenList, {Top.at}),
              Tail(stack), _engineExists, now, walk)
    <3>1. CASE Top.walking
      <4>1. Sound(tws, _tweenList, Tail(stack), _engineExists, now, walk)
        BY <1>1, <1>6, PopStaysSound
      <4> QED
        BY <3>1, <4>1
    <3>2. CASE ~Top.walking
      <4>1. Sound(Fate(tws, {Top.tween}, "removed"), _removeTweenByIndex(_tweenList, {Top.at}),
                  Tail(stack), _engineExists, now, walk)
        BY <1>1, <1>2, <1>6, EndStaysSound
      <4> QED
        BY <3>2, <4>1
    <3> QED
      BY <3>1, <3>2
  <2> HIDE DEF new
  <2>2. Sound(tweens', _tweenList', stack', _engineExists, now, walk')
    BY <1>2, <1>9, <2>1, UpdateReturnsStaysSound
  <2> QED
    BY <2>2 DEF Then
<1> QED
  BY <1>4, <1>7, <1>8, <1>9

LEMMA onOverwriteStaysSound ==
    ASSUME Now, onOverwrite_returns, UNCHANGED <<_engineExists, ticker, now>>
    PROVE  Then
<1> DEFINE old  == _tweenList[Top.at]
           left == tweens[old].props \ tweens[Top.tween].props
           gone == IF left = {} THEN {old} ELSE {}
           tw   == [tweens[old] EXCEPT !.props = left]
           tws  == [tweens EXCEPT ![old] = tw]
           slots == {i \in Slots : _tweenList[i] \in gone}
           new  == Fate(tws, gone, "removed")
           lst  == _removeTweenByIndex(_tweenList, slots)
<1>1. stack # <<>> /\ Overwrites(Top) /\ UNCHANGED walk
  BY DEF onOverwrite_returns, Calling, Overwrites
<1>2. /\ Top = stack[1] /\ 1 \in DOMAIN stack /\ Top.at \in DOMAIN _tweenList /\ Top.at \in Nat
      /\ Top.tween \in DOMAIN tweens /\ Whole(tweens[Top.tween])
      /\ tweens[Top.tween].fate = "new" /\ ~tweens[Top.tween].isPaused /\ _engineExists
      /\ Sound(tweens, _tweenList, Tail(stack), _engineExists, now, walk)
  BY <1>1, TopFrame DEF Slotted, Frames
<1>3. CASE Become(tweens, _tweenList, Tail(stack))
  <2>1. Sound(tweens', _tweenList', stack', _engineExists, now, walk)
    BY ONLY <1>2, <1>3, BecomeStaysSound
  <2> QED
    BY <1>1, <2>1 DEF Then
<1>4. CASE old # Removed /\ AddFrom(new, lst, Top.tween, Top.at + 1, now, Tail(stack))
  <2>1. /\ Top.at \in Present(_tweenList) /\ old \in DOMAIN tweens /\ Whole(tweens[old])
        /\ tweens[old].fate = "listed"
    BY <1>2, <1>4 DEF Present, Now, Sound, Objects, Listing
  <2>2. old # Top.tween
    BY <1>2, <2>1
  <2>3. /\ Evolves(tweens[old], tw, now) /\ tw.fate = tweens[old].fate /\ tw.props = left
    BY <2>1, PropsEvolve
  <2> HIDE DEF tw
  <2>4. Sound(tws, _tweenList, stack, _engineExists, now, walk)
    BY <2>1, <2>3, ChangeOneStaysSound DEF Now
  <2>5. /\ DOMAIN tws = DOMAIN tweens /\ tws[old] = tw
        /\ \A x \in DOMAIN tweens : x # old => tws[x] = tweens[x]
    BY <2>1
  <2>6. gone = {} \/ (gone = {old} /\ left = {})
    OBVIOUS
  <2> HIDE DEF tws, gone, left, old
  <2>7. Leaves(tws, _tweenList, gone, slots, "removed")
    BY <2>1, <2>3, <2>5, <2>6 DEF Leaves, Evolves, Slots
  <2>8. Sound(new, lst, stack, _engineExists, now, walk)
    BY <2>4, <2>7, RemoveStaysSound
  <2>9. new[Top.tween] = tweens[Top.tween] /\ Top.tween \in DOMAIN new
    BY <1>2, <2>2, <2>5, <2>6 DEF Fate
  <2>10. DOMAIN lst = DOMAIN _tweenList /\
         \A i \in DOMAIN lst : lst[i] = IF i \in slots THEN Removed ELSE _tweenList[i]
    BY DEF _removeTweenByIndex
  <2>11. Top.at \in Present(lst) => new[lst[Top.at]].props \intersect new[Top.tween].props = {}
    <3>1. CASE gone = {old}
      <4>1. Top.at \in slots
        BY <1>2, <3>1 DEF Slots, old
      <4> QED
        BY <2>10, <4>1 DEF Present
    <3>2. CASE gone = {}
      <4>1. Top.at \notin slots
        BY <3>2
      <4>2. lst[Top.at] = old
        BY <1>2, <2>10, <4>1 DEF old
      <4>3. new[old] = tw
        BY <2>1, <2>5, <3>2 DEF Fate
      <4> QED
        BY <2>3, <2>9, <4>2, <4>3 DEF left
    <3> QED
      BY <2>6, <3>1, <3>2
  <2> HIDE DEF new, lst
  <2>12. Sound(new, lst, Tail(stack), _engineExists, now, walk)
    BY <1>1, <2>8, PopStaysSound
  <2>13. \A k \in DOMAIN Tail(stack) :
            Overwrites(Tail(stack)[k]) => Tail(stack)[k].tween # Top.tween
    <3> SUFFICES ASSUME NEW k \in DOMAIN Tail(stack), Overwrites(Tail(stack)[k]),
                        Tail(stack)[k].tween = Top.tween
                 PROVE  FALSE
      OBVIOUS
    <3>1. k \in Nat /\ k # 0 /\ k + 1 \in DOMAIN stack /\ Tail(stack)[k] = stack[k + 1]
      BY <1>1, TopFrame, HeadTailProperties
    <3>2. k + 1 = 1
      BY <1>1, <1>2, <3>1 DEF Now, Sound, Placed
    <3> QED
      BY <3>1, <3>2
  <2>14. \A i \in Present(lst) : i < Top.at + 1 => Free(new[lst[i]], new[Top.tween])
    <3> SUFFICES ASSUME NEW i \in Present(lst), i < Top.at + 1
                 PROVE  Free(new[lst[i]], new[Top.tween])
      OBVIOUS
    <3>1. CASE i < Top.at
      BY <1>1, <1>2, <2>8, <3>1 DEF Sound, Apart
    <3>2. CASE i = Top.at
      BY <2>11, <3>2, DisjointFree
    <3>3. i \in Nat
      BY <2>8 DEF Present, Sound, Objects
    <3> QED
      BY <1>2, <3>1, <3>2, <3>3
  <2>15. Adding(new, lst, Top.tween, Top.at + 1, Tail(stack), _engineExists)
    BY <1>2, <2>9, <2>13, <2>14 DEF Adding
  <2>16. Sound(tweens', _tweenList', stack', _engineExists, now, walk)
    BY <1>4, <2>12, <2>15, AddFromStaysSound
  <2> QED
    BY <1>1, <2>16 DEF Then
<1> QED
  BY <1>3, <1>4 DEF onOverwrite_returns

(* The engine is started; its clock starts with it.                          *)
LEMMA StartStaysSound ==
    ASSUME Now, _startEngine
    PROVE  Sound(tweens, _tweenList, stack, TRUE, now', walk) /\ now' \in 0..MaxTime
<1>1. CASE _engineExists
  <2>1. now' = now
    BY <1>1 DEF _startEngine
  <2> QED
    BY <1>1, <2>1 DEF Now, Sound, Clocked
<1>2. CASE ~_engineExists
  <2>1. stack = <<>> /\ Present(_tweenList) = {} /\ now' = 0 /\ 0 \in 0..MaxTime
    BY <1>2, TweenerAssumption DEF Now, Sound, Clocked, _startEngine
  <2> QED
    BY <2>1 DEF Now, Sound, Clocked
<1> QED
  BY <1>1, <1>2

(* A tween object is made.                                                   *)
LEMMA MakeStaysSound ==
    ASSUME NEW tws, NEW list, NEW cbs, NEW eng, NEW n, NEW w, NEW tw,
           Sound(tws, list, cbs, eng, n, w), Whole(tw), tw.fate = "new", Len(tws) < MaxTweens
    PROVE  Sound(Append(tws, tw), list, cbs, eng, n, w)
<1> DEFINE new == Append(tws, tw)
<1>1. /\ tws \in Seq(Tweens \union Garbage) /\ Len(tws) \in Nat /\ DOMAIN tws = 1..Len(tws)
      /\ list \in Seq({Removed} \union DOMAIN tws) /\ DOMAIN list = 1..Len(list)
      /\ \A i \in Present(list) : list[i] \in DOMAIN tws
      /\ \A k \in DOMAIN cbs : cbs[k].tween \in DOMAIN tws
  BY DEF Sound, Objects, Present
<1>2. /\ new \in Seq(Tweens \union Garbage) /\ Len(new) = Len(tws) + 1
      /\ DOMAIN new = 1..(Len(tws) + 1)
      /\ \A x \in DOMAIN tws : new[x] = tws[x]
      /\ new[Len(tws) + 1] = tw
  <2>1. tw \in Tweens \union Garbage
    BY DEF Whole
  <2> QED
    BY <1>1, <2>1, AppendProperties
<1> HIDE DEF new
<1>3. DOMAIN tws \subseteq DOMAIN new /\ \A x \in DOMAIN new : x \in DOMAIN tws \/ x = Len(tws) + 1
  BY <1>1, <1>2
<1>4. Len(tws) + 1 \notin DOMAIN tws /\ Len(tws) + 1 # Removed
  BY <1>1 DEF Removed
<1>5. Objects(new, list, cbs)
  <2>1. list \in Seq({Removed} \union DOMAIN new)
    BY <1>1, <1>3
  <2>2. Len(new) <= MaxTweens
    BY <1>1, <1>2, TweenerAssumption
  <2> QED
    BY <1>1, <1>2, <1>3, <2>1, <2>2 DEF Sound, Objects
<1>6. Listing(new, list)
  <2>1. ASSUME NEW x \in DOMAIN new
        PROVE  (new[x].fate = "listed") <=> (\E i \in DOMAIN list : list[i] = x)
    <3>1. CASE x \in DOMAIN tws
      BY <1>2, <3>1 DEF Sound, Listing
    <3>2. CASE x = Len(tws) + 1
      <4>1. \A i \in DOMAIN list : list[i] \in {Removed} \union DOMAIN tws
        BY <1>1
      <4> QED
        BY <1>2, <1>4, <3>2, <4>1
    <3> QED
      BY <1>3, <3>1, <3>2
  <2> QED
    BY <2>1 DEF Sound, Listing
<1>7. Placed(new, list, cbs, w)
  BY <1>1, <1>2 DEF Sound, Placed, Slotted
<1>8. Clocked(new, list, cbs, eng, n)
  BY <1>1, <1>2 DEF Sound, Clocked
<1>9. Apart(new, list, cbs)
  BY <1>1, <1>2 DEF Sound, Apart
<1> QED
  BY <1>5, <1>6, <1>7, <1>8, <1>9 DEF Sound, new

LEMMA AddStaysSound ==
    ASSUME Now, NEW scope \in Scopes, NEW r \in Requests, _addTweenOrCaller(scope, r)
    PROVE  Then
<1> DEFINE tw == [scope |-> scope, props |-> r.props,
                  timeStart |-> now' + r.delay, timeComplete |-> now' + r.delay + r.duration,
                  isPaused |-> FALSE, timePaused |-> 0, hasStarted |-> FALSE,
                  count |-> r.count, timesCalled |-> 0, waitFrames |-> r.waitFrames,
                  shifted |-> FALSE, fate |-> "new"]
           id == Len(tweens) + 1
           new == Append(tweens, tw)
<1>1. /\ Len(tweens) < MaxTweens /\ _startEngine /\ UNCHANGED walk
      /\ tw.timeComplete <= MaxTime
      /\ AddFrom(new, _tweenList, id, 1, now', stack)
  BY DEF _addTweenOrCaller
<1>2. Sound(tweens, _tweenList, stack, TRUE, now', walk) /\ now' \in 0..MaxTime
  BY <1>1, StartStaysSound
<1>3. Whole(tw)
  <2> DEFINE start == now' + r.delay
             complete == now' + r.delay + r.duration
  <2>1. /\ r.props \in SUBSET Properties /\ r.count \in Nat /\ r.waitFrames \in BOOLEAN
        /\ r.delay \in Nat /\ r.duration \in Nat /\ MaxTime \in Nat
    BY TweenerAssumption
  <2>2. start \in Nat /\ complete \in Nat /\ start <= complete /\ complete <= MaxTime
    BY <1>1, <1>2, <2>1
  <2>3. start \in 0..MaxTime /\ complete \in 0..MaxTime /\ 0 \in 0..MaxTime /\ 0 \in Nat
    BY <2>1, <2>2
  <2>4. tw.timeStart = start /\ tw.timeComplete = complete
    OBVIOUS
  <2>5. tw \in Tweens
    <3> HIDE DEF start, complete
    <3>1. tw = [scope |-> scope, props |-> r.props,
                timeStart |-> start, timeComplete |-> complete,
                isPaused |-> FALSE, timePaused |-> 0, hasStarted |-> FALSE,
                count |-> r.count, timesCalled |-> 0, waitFrames |-> r.waitFrames,
                shifted |-> FALSE, fate |-> "new"]
      BY DEF start, complete
    <3> HIDE DEF tw
    <3> QED
      BY <2>1, <2>3, <3>1 DEF Tweens, Fates
  <2> HIDE DEF tw, start, complete
  <2> QED
    BY <2>2, <2>4, <2>5 DEF Whole
<1>4. tw.fate = "new" /\ ~tw.isPaused
  OBVIOUS
<1> HIDE DEF tw
<1>5. Sound(new, _tweenList, stack, TRUE, now', walk)
  BY <1>1, <1>2, <1>3, <1>4, MakeStaysSound
<1>6. Adding(new, _tweenList, id, 1, stack, TRUE)
  <2>1. /\ tweens \in Seq(Tweens \union Garbage) /\ Len(tweens) \in Nat
        /\ DOMAIN tweens = 1..Len(tweens)
        /\ \A k \in DOMAIN stack : stack[k].tween \in DOMAIN tweens
        /\ DOMAIN _tweenList = 1..Len(_tweenList)
    BY DEF Now, Sound, Objects
  <2>2. tw \in Tweens \union Garbage
    BY <1>3 DEF Whole
  <2>3. new[id] = tw /\ id \in DOMAIN new
    BY <2>1, <2>2, AppendProperties
  <2>4. \A k \in DOMAIN stack : stack[k].tween # id
    BY <2>1
  <2>5. \A i \in Present(_tweenList) : ~(i < 1)
    BY <2>1 DEF Present
  <2> QED
    BY <1>3, <1>4, <2>3, <2>4, <2>5 DEF Adding
<1>7. Sound(tweens', _tweenList', stack', TRUE, now', walk)
  BY <1>1, <1>5, <1>6, AddFromStaysSound
<1>8. _engineExists' = TRUE
  BY <1>1 DEF _startEngine
<1> QED
  BY <1>1, <1>7, <1>8 DEF Then

LEMMA ThrowStaysSound ==
    ASSUME Now, _callOnFunction
    PROVE  Then
<1>1. stack # <<>> /\ Become(tweens, _tweenList, Tail(stack)) /\ UNCHANGED <<_engineExists, now>>
  BY DEF _callOnFunction
<1>2. /\ Sound(tweens, _tweenList, Tail(stack), _engineExists, now, walk)
      /\ Top.walking => Tail(stack) = <<>>
  BY <1>1, TopFrame
<1>3. CASE Top.walking /\ walk' = 0
  <2>1. Sound(tweens, _tweenList, <<>>, _engineExists, now, walk) /\ 0 \in 0..(Len(_tweenList) + 1)
    <3>1. Len(_tweenList) \in Nat
      BY DEF Now, Sound, Objects
    <3>2. 0 \in 0..(Len(_tweenList) + 1)
      BY <3>1
    <3> QED
      BY <1>2, <1>3, <3>2
  <2>2. Sound(tweens, _tweenList, <<>>, _engineExists, now, 0)
    BY ONLY <2>1, WalkStaysSound
  <2>3. Sound(tweens, _tweenList, Tail(stack), _engineExists, now, 0)
    BY <1>2, <1>3, <2>2
  <2>4. Sound(tweens', _tweenList', stack', _engineExists, now, 0)
    BY ONLY <1>1, <2>3, BecomeStaysSound
  <2> QED
    BY <1>1, <1>3, <2>4 DEF Then
<1>4. CASE UNCHANGED walk
  <2>1. Sound(tweens', _tweenList', stack', _engineExists, now, walk)
    BY ONLY <1>1, <1>2, BecomeStaysSound
  <2> QED
    BY <1>1, <1>4, <2>1 DEF Then
<1> QED
  BY <1>3, <1>4 DEF _callOnFunction

LEMMA FrameStaysSound ==
    ASSUME Now, _onEnterFrame
    PROVE  Then
<1>1. stack = <<>> /\ walk = 0 /\ UNCHANGED <<tweens, _tweenList, stack>>
  BY DEF _onEnterFrame
<1>2. _tweenList \in Seq({Removed} \union DOMAIN tweens) /\ Len(_tweenList) \in Nat
  BY DEF Now, Sound, Objects
<1>3. CASE /\ now' = IF now < MaxTime THEN now + 1 ELSE now
           /\ walk' = 1 /\ UNCHANGED _engineExists
  <2>1. now \in 0..MaxTime /\ MaxTime \in Nat
    BY TweenerAssumption DEF Now, Sound, Clocked
  <2>2. now' \in 0..MaxTime /\ now <= now'
    BY <1>3, <2>1
  <2>3. \A i \in Present(_tweenList) : tweens[_tweenList[i]].isPaused =>
            tweens[_tweenList[i]].timePaused <= now /\ tweens[_tweenList[i]].timePaused \in 0..MaxTime
    BY DEF Now, Sound, Clocked, Objects, Whole, Tweens
  <2>4. \A i \in Present(_tweenList) : tweens[_tweenList[i]].isPaused =>
            tweens[_tweenList[i]].timePaused <= now'
    BY <2>1, <2>2, <2>3
  <2>5. Clocked(tweens, _tweenList, <<>>, _engineExists, now')
    BY <1>1, <2>2, <2>4 DEF Now, Sound, Clocked
  <2>6. Sound(tweens, _tweenList, <<>>, _engineExists, now', walk)
    BY <1>1, <2>5 DEF Now, Sound
  <2>7. walk' \in 0..(Len(_tweenList) + 1)
    BY <1>2, <1>3
  <2>8. Sound(tweens, _tweenList, <<>>, _engineExists, now', walk')
    BY ONLY <2>6, <2>7, WalkStaysSound
  <2> QED
    BY <1>1, <1>3, <2>8 DEF Then
<1>4. CASE NoTweens /\ _stopEngine /\ UNCHANGED walk
  <2>1. Present(_tweenList) = {} /\ 0 \in 0..MaxTime
    BY <1>4, TweenerAssumption DEF NoTweens, Present
  <2>2. Clocked(tweens, _tweenList, <<>>, FALSE, 0)
    BY <2>1 DEF Clocked
  <2>3. Sound(tweens, _tweenList, <<>>, FALSE, 0, walk)
    BY <1>1, <2>2 DEF Now, Sound
  <2>4. tweens' = tweens /\ _tweenList' = _tweenList /\ stack' = <<>> /\ _engineExists' = FALSE
        /\ now' = 0 /\ walk' = walk
    BY <1>1, <1>4 DEF _stopEngine
  <2> QED
    BY <2>3, <2>4 DEF Then
<1> QED
  BY <1>3, <1>4 DEF _onEnterFrame

LEMMA LoopStaysSound ==
    ASSUME Now, _updateTweens
    PROVE  Then
<1>1. walk # 0 /\ stack = <<>> /\ UNCHANGED <<_engineExists, ticker, now>>
  BY DEF _updateTweens
<1>2. /\ _tweenList \in Seq({Removed} \union DOMAIN tweens) /\ Len(_tweenList) \in Nat
      /\ DOMAIN _tweenList = 1..Len(_tweenList) /\ walk \in 0..(Len(_tweenList) + 1)
      /\ Sound(tweens, _tweenList, <<>>, _engineExists, now, walk)
  BY <1>1 DEF Now, Sound, Objects, Placed
<1>3. CASE walk' = 0 /\ UNCHANGED <<tweens, _tweenList, stack>>
  <2>1. walk' \in 0..(Len(_tweenList) + 1)
    BY <1>2, <1>3
  <2>2. Sound(tweens, _tweenList, <<>>, _engineExists, now, walk')
    BY ONLY <1>2, <2>1, WalkStaysSound
  <2> QED
    BY <1>1, <1>3, <2>2 DEF Then
<1>4. CASE walk \in Slots /\ walk' = walk + 1 /\ UNCHANGED <<tweens, _tweenList, stack>>
  <2>1. walk' \in 0..(Len(_tweenList) + 1)
    BY <1>2, <1>4 DEF Slots
  <2>2. Sound(tweens, _tweenList, <<>>, _engineExists, now, walk')
    BY ONLY <1>2, <2>1, WalkStaysSound
  <2> QED
    BY <1>1, <1>4, <2>2 DEF Then
<1>5. CASE /\ walk \in Slots /\ _tweenList[walk] = Removed
           /\ UpdateReturns(tweens, walk, TRUE, FALSE, stack)
  <2>1. _removeTweenByIndex(_tweenList, {walk}) = _tweenList
    <3>1. \A i \in DOMAIN _tweenList :
              (IF i \in {walk} THEN Removed ELSE _tweenList[i]) = _tweenList[i]
      BY <1>5
    <3>2. _tweenList = [i \in DOMAIN _tweenList |-> _tweenList[i]]
      BY <1>2
    <3> QED
      BY <3>1, <3>2 DEF _removeTweenByIndex
  <2>2. Sound(tweens, IF FALSE /\ TRUE THEN _tweenList ELSE _removeTweenByIndex(_tweenList, {walk}),
              stack, _engineExists, now, walk)
    BY <1>1, <1>2, <2>1
  <2>3. Sound(tweens', _tweenList', stack', _engineExists, now, walk')
    BY <1>1, <1>5, <2>2, UpdateReturnsStaysSound DEF Slots
  <2> QED
    BY <1>1, <2>3 DEF Then
<1>6. CASE /\ walk \in Present(_tweenList)
           /\ stack' = <<Frame(FirstCallback(tweens[_tweenList[walk]]), _tweenList[walk], walk, TRUE)>>
           /\ UNCHANGED <<tweens, _tweenList, walk>>
  <2> DEFINE id == _tweenList[walk]
             f == Frame(FirstCallback(tweens[id]), id, walk, TRUE)
  <2>1. id \in DOMAIN tweens /\ Whole(tweens[id]) /\ tweens[id].fate = "listed" /\ id \in Ids
        /\ walk \in DOMAIN _tweenList /\ walk \in Nat \ {0} /\ _engineExists
    <3>1. walk \in DOMAIN _tweenList /\ walk \in Nat \ {0} /\ id \in DOMAIN tweens
      BY <1>1, <1>2, <1>6 DEF Present
    <3>2. Whole(tweens[id]) /\ _engineExists /\ tweens[id].fate = "listed"
      BY <1>6, <3>1 DEF Now, Sound, Objects, Clocked, Listing
    <3>3. id \in Ids
      BY <3>1, TweenerAssumption DEF Now, Sound, Objects, Ids
    <3> QED
      BY <3>1, <3>2, <3>3
  <2>2. \A i \in DOMAIN _tweenList : _tweenList[i] = id => i = walk
    BY <1>6 DEF Now, Sound, Listing, Present
  <2>3. f.tween = id /\ f.at = walk /\ f.walking /\ ~Overwrites(f) /\ f \in Frames
    BY <2>1 DEF Frame, Frames, Overwrites, FirstCallback
  <2>4. _tweenList[walk] = id
    OBVIOUS
  <2> HIDE DEF f, id
  <2>5. Slotted(tweens, _tweenList, f)
    BY <2>1, <2>2, <2>3, <2>4 DEF Slotted
  <2>6. Fits(f, tweens, _tweenList, <<>>, _engineExists, now, walk)
    BY <2>1, <2>3, <2>5 DEF Fits
  <2>7. Sound(tweens, _tweenList, <<f>> \o <<>>, _engineExists, now, walk)
    BY <1>2, <2>6, PushStaysSound
  <2>8. <<f>> \o <<>> = <<f>>
    OBVIOUS
  <2>9. stack' = <<f>>
    BY <1>6 DEF f, id
  <2> QED
    BY <1>1, <1>6, <2>7, <2>8, <2>9 DEF Then
<1> QED
  BY <1>3, <1>4, <1>5, <1>6 DEF _updateTweens, Present, Slots

-----------------------------------------------------------------------------
LEMMA InitTweenerInv == Init => TweenerInv
<1> SUFFICES ASSUME Init PROVE TweenerInv
  OBVIOUS
<1>1. /\ tweens = <<>> /\ _tweenList = <<>> /\ stack = <<>> /\ walk = 0 /\ now = 0
      /\ _engineExists = FALSE /\ ticker = "off" /\ MaxTime \in Nat /\ MaxTweens \in Nat
  BY TweenerAssumption DEF Init
<1>2. \A s : DOMAIN <<>> = {}
  OBVIOUS
<1>3. Objects(<<>>, <<>>, <<>>)
  BY <1>1, <1>2 DEF Objects, Present
<1>4. Sound(<<>>, <<>>, <<>>, FALSE, 0, 0)
  BY <1>1, <1>2, <1>3 DEF Sound, Listing, Placed, Clocked, Apart, Present
<1> QED
  BY <1>1, <1>4 DEF TweenerInv, Clock

LEMMA NextTweenerInv == TweenerInv /\ [Next]_vars => TweenerInv'
<1> SUFFICES ASSUME TweenerInv, [Next]_vars PROVE Then /\ Clock'
  BY DEF TweenerInv, Then
<1>1. Now /\ Clock
  BY DEF TweenerInv, Now
<1>2. ASSUME NEW scope \in Scopes, NEW r \in Requests, _addTweenOrCaller(scope, r)
      PROVE  Then /\ Clock'
  <2>1. Clock'
    BY <1>1, <1>2 DEF _addTweenOrCaller, _startEngine, Clock
  <2> QED
    BY <1>1, <1>2, <2>1, AddStaysSound
<1>3. CASE Affect(_mapOverTweens)
  <2>1. Affected(_mapOverTweens)
    BY <1>1, MapOverTweensSound DEF Now
  <2>2. Then
    BY ONLY <1>3, <2>1, AffectStaysSound DEF Then
  <2> QED
    BY <1>1, <1>3, <2>2 DEF Affect, Clock
<1>4. ASSUME NEW scope \in Scopes, NEW props \in SUBSET Properties,
             Affect(_affectTweens(scope, props))
      PROVE  Then /\ Clock'
  <2>1. Len(_affectTweens(scope, props).tweens) <= MaxTweens
    BY <1>4 DEF Affect
  <2>2. Affected(_affectTweens(scope, props))
    BY <1>1, <2>1, AffectTweensSound DEF Now
  <2>3. Then
    BY ONLY <1>4, <2>2, AffectStaysSound DEF Then
  <2>4. UNCHANGED <<_engineExists, ticker, now>>
    BY <1>4 DEF Affect
  <2> QED
    BY <1>1, <2>3, <2>4 DEF Clock
<1>5. CASE CallbackReturns
  <2>1. UNCHANGED <<_engineExists, ticker, now>>
    BY <1>5 DEF CallbackReturns
  <2>2. Then
    BY <1>1, <1>5, <2>1, onStartStaysSound, onUpdateStaysSound, onCallStaysSound,
       onCompleteStaysSound, onOverwriteStaysSound DEF CallbackReturns
  <2> QED
    BY <1>1, <2>1, <2>2 DEF Clock
<1>6. CASE _callOnFunction
  <2>1. Clock'
    BY <1>1, <1>6 DEF _callOnFunction, Clock
  <2> QED
    BY <1>1, <1>6, <2>1, ThrowStaysSound
<1>7. CASE _onEnterFrame
  <2>1. Clock'
    BY <1>1, <1>7 DEF _onEnterFrame, _stopEngine, Clock
  <2> QED
    BY <1>1, <1>7, <2>1, FrameStaysSound
<1>8. CASE _updateTweens
  <2>1. Clock'
    BY <1>1, <1>8 DEF _updateTweens, Clock
  <2> QED
    BY <1>1, <1>8, <2>1, LoopStaysSound
<1>9. CASE UNCHANGED vars
  BY <1>1, <1>9 DEF vars, Clock, Now, Then
<1> QED
  BY <1>2, <1>3, <1>4, <1>5, <1>6, <1>7, <1>8, <1>9 DEF Next

LEMMA TweenerInvImplies == TweenerInv => ListSound /\ OneTweenPerProperty
<1> SUFFICES ASSUME TweenerInv PROVE ListSound /\ OneTweenPerProperty
  OBVIOUS
<1>1. Now /\ Clock
  BY DEF TweenerInv, Now
<1>2. TypeOK
  BY <1>1 DEF Now, Clock, Sound, Objects, Whole, Placed, Clocked, TypeOK
<1>3. ListedOnce
  <2>1. \A id : id \in ToSet(_tweenList) <=> \E i \in DOMAIN _tweenList : _tweenList[i] = id
    BY DEF ToSet
  <2> QED
    BY <1>1, <2>1 DEF Now, Sound, Listing, ListedOnce
<1>4. SlotsStable
  BY <1>1 DEF Now, Sound, Placed, Slotted, Overwrites, SlotsStable, Slots
<1>5. ClockOutlivesTweens
  BY <1>1 DEF Now, Sound, Clocked, ClockOutlivesTweens
<1>6. OneTweenPerProperty
  <2> SUFFICES ASSUME NEW i \in Present(_tweenList), NEW j \in Present(_tweenList), i < j
               PROVE  Free(tweens[_tweenList[i]], tweens[_tweenList[j]])
    BY DEF OneTweenPerProperty, Free
  <2>1. i \in Nat /\ j \in Nat
    BY <1>1 DEF Now, Sound, Objects, Present
  <2>2. i # j
    BY <2>1
  <2> QED
    BY <1>1, <2>2 DEF Now, Sound, Apart
<1> QED
  BY <1>2, <1>3, <1>4, <1>5, <1>6 DEF ListSound

(* ListSound (tweener.js): whatever the callbacks add, split, pause, resume  *)
(* and remove, and wherever they throw, the list holds the tweens that are   *)
(* neither removed nor completed, each once; the indices remembered across   *)
(* callbacks stay right; and the clock is not reset under a tween.           *)
THEOREM ListStaysSound == Spec => []ListSound
<1>1. TweenerInv => ListSound
  BY TweenerInvImplies
<1> QED
  BY <1>1, InitTweenerInv, NextTweenerInv, PTL DEF Spec

(* OneTweenPerProperty ("Remove other tweenings that occur at the same       *)
(* time", tweener.js:578): two tweens in the list that no pause moved never  *)
(* animate one property at the same time, however onOverwrite interferes.    *)
THEOREM NeverTwoTweens == Spec => []OneTweenPerProperty
<1>1. TweenerInv => OneTweenPerProperty
  BY TweenerInvImplies
<1> QED
  BY <1>1, InitTweenerInv, NextTweenerInv, PTL DEF Spec
=============================================================================

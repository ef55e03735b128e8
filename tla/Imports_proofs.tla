--------------------------- MODULE Imports_proofs ---------------------------
(* Safety of Imports for any file system, search path, native modules and  *)
(* overrides, and for imports nested to any depth.                         *)
EXTENDS Imports, FiniteSetTheorems, SequenceTheorems, TLAPS

-----------------------------------------------------------------------------
(* The stack: what a frame may stand on, and what it imports.              *)
Frames == Imports \union Enumerations \union Evaluations \union Resolutions
            \union Overrides \union Lookups

ImportFns == {"do_import", "import_native_file"}

Own(f) == IF f.fn \in ImportFns THEN {<<f.importer, f.name>>} ELSE {}

(* The elements of the search path that an import has passed.              *)
Searched(f) ==
    \A k \in Elements(f) :
        k < f.at => \/ HasDirectory(f, k) \/ ~HasFile(f, k)
                    \/ \E j \in Elements(f) : j < k /\ HasDirectory(f, j)

FrameOK(f) ==
    /\ f \in Frames
    /\ f.fn = "do_import" =>
        /\ f.at \in 0..(Len(f.path) + 1) /\ (f.looked => f.at > 0)
        /\ f.at > 0 => ~gwkjs_is_registered_native_module(f)
        /\ Searched(f)
    /\ f.fn = "import_native_file" => f.importer = Root /\ f.name = gi

(* The import below evaluates the file of its element.                     *)
Evaluating(a, b) ==
    /\ b.fn = "do_import" /\ b.at \in Elements(b) /\ a.dir = b.path[b.at]
    /\ ~HasDirectory(b, b.at) /\ DirectoriesFound(b) = {} /\ HasFile(b, b.at)
    /\ Append(a.dir, b.name) \notin Unreadable

(* The import or enumeration below looks into a directory.                 *)
Looking(b) ==
    b.fn \in {"do_import", "importer_new_enumerate"} /\ b.at \in DOMAIN b.path

(* Frame a is called by frame b.                                           *)
Above(a, b) ==
    /\ b.fn = "do_import" => a.fn \in {"import_file_on_module", "load_module_init"}
    /\ b.fn = "import_native_file" => a.fn = "resolve_namespace_object"
    /\ b.fn = "gwkjs_struct_foreign_lookup" => b.step = "load"
    /\ b.fn = "resolve_namespace_object" /\ b.step = "overrides" /\ a.fn \in ImportFns =>
            Own(a) = {<<Root, overrides>>}
    /\ a.fn = "import_file_on_module" => Evaluating(a, b)
    /\ a.fn = "load_module_init" => Looking(b)

Alone(a) == a.fn \notin {"import_file_on_module", "load_module_init"}

Chained(s) ==
    /\ s \in Seq(Frames)
    /\ \A k \in 1..Len(s) :
        /\ FrameOK(s[k])
        /\ k < Len(s) => Above(s[k], s[k + 1])
        /\ k = Len(s) => Alone(s[k])

(* What the calls under way import; and that of which a file is evaluated. *)
ImportedOf(s)   == UNION {Own(s[k]) : k \in 1..Len(s)}
EvaluatingOf(s) ==
    UNION {Own(s[k + 1]) : k \in {k \in 1..(Len(s) - 1) : s[k].fn = "import_file_on_module"}}

(* The namespaces being resolved, with their objects.                      *)
Space(f) == IF f.fn = "resolve_namespace_object" THEN {<<f.name, f.ns>>} ELSE {}
ResolvingOf(s) == UNION {Space(s[k]) : k \in 1..Len(s)}

IsWaiting(f) == f.fn = "resolve_namespace_object" /\ f.step = "module"
Waiting(s)   == \E k \in 1..Len(s) : IsWaiting(s[k])

IsNative(f) == f.fn = "import_native_file"
Native(s)   == \E k \in 1..Len(s) : IsNative(s[k])

IsMissing(f) == f.fn = "gwkjs_struct_foreign_lookup" /\ f.step = "missing"
Missing(s)   == \E k \in 1..Len(s) : IsMissing(s[k])

(* No two calls import one name, and no two resolve one namespace.         *)
Different(a, b) ==
    /\ Own(a) \intersect Own(b) = {}
    /\ a.fn = "resolve_namespace_object" /\ b.fn = "resolve_namespace_object" => a.name # b.name

Apart(s) == \A j, k \in 1..Len(s) : j # k => Different(s[j], s[k])

-----------------------------------------------------------------------------
(* A frame on top of others.                                               *)
LEMMA Push ==
    ASSUME NEW s \in Seq(Frames), NEW x \in Frames, NEW t, t = <<x>> \o s
    PROVE  /\ t \in Seq(Frames) /\ Len(t) = Len(s) + 1 /\ t # <<>>
           /\ Head(t) = x /\ Tail(t) = s /\ t[1] = x
           /\ \A k \in 1..Len(s) : t[k + 1] = s[k]
<1>1. t \in Seq(Frames) /\ Len(t) = Len(s) + 1 /\ t[1] = x /\ t # <<>>
  OBVIOUS
<1>2. \A k \in 1..Len(s) : t[k + 1] = s[k]
  OBVIOUS
<1>3. Head(t) = x
  BY <1>1
<1>4. Tail(t) = s
  OBVIOUS
<1> QED
  BY <1>1, <1>2, <1>3, <1>4

LEMMA Uncons ==
    ASSUME NEW S, NEW s \in Seq(S), s # <<>>
    PROVE  /\ s = <<Head(s)>> \o Tail(s) /\ Head(s) \in S /\ Tail(s) \in Seq(S)
           /\ Len(s) > 0 /\ Head(s) = s[1] /\ Len(Tail(s)) = Len(s) - 1
           /\ \A k \in 1..(Len(s) - 1) : Tail(s)[k] = s[k + 1]
  OBVIOUS

LEMMA PushChained ==
    ASSUME NEW s \in Seq(Frames), NEW x \in Frames, NEW t, t = <<x>> \o s
    PROVE  Chained(t) <=> /\ FrameOK(x) /\ Chained(s)
                          /\ s = <<>> => Alone(x)
                          /\ s # <<>> => Above(x, Head(s))
<1>1. /\ t \in Seq(Frames) /\ Len(t) = Len(s) + 1 /\ t[1] = x /\ Len(s) \in Nat
      /\ \A k \in 1..Len(s) : t[k + 1] = s[k]
  BY Push
<1>2. s # <<>> <=> Len(s) > 0
  OBVIOUS
<1>3. s # <<>> => Head(s) = s[1]
  OBVIOUS
<1>4. ASSUME Chained(t)
      PROVE  /\ FrameOK(x) /\ Chained(s)
             /\ s = <<>> => Alone(x)
             /\ s # <<>> => Above(x, Head(s))
  <2>1. FrameOK(x) /\ (1 < Len(t) => Above(t[1], t[2])) /\ (1 = Len(t) => Alone(x))
    BY <1>1, <1>4 DEF Chained
  <2>2. s # <<>> => t[2] = s[1]
    BY <1>1, <1>2
  <2>3. ASSUME NEW k \in 1..Len(s)
        PROVE  /\ FrameOK(s[k])
               /\ k < Len(s) => Above(s[k], s[k + 1])
               /\ k = Len(s) => Alone(s[k])
    <3>1. k + 1 \in 1..Len(t) /\ t[k + 1] = s[k]
      BY <1>1
    <3>2. k < Len(s) => k + 1 < Len(t) /\ t[(k + 1) + 1] = s[k + 1]
      BY <1>1
    <3>3. k = Len(s) => k + 1 = Len(t)
      BY <1>1
    <3> QED
      BY <1>4, <3>1, <3>2, <3>3 DEF Chained
  <2> QED
    BY <1>1, <1>2, <1>3, <2>1, <2>2, <2>3 DEF Chained
<1>5. ASSUME FrameOK(x), Chained(s), s = <<>> => Alone(x), s # <<>> => Above(x, Head(s))
      PROVE  Chained(t)
  <2>1. ASSUME NEW k \in 1..Len(t)
        PROVE  /\ FrameOK(t[k])
               /\ k < Len(t) => Above(t[k], t[k + 1])
               /\ k = Len(t) => Alone(t[k])
    <3>1. CASE k = 1
      BY <1>1, <1>2, <1>3, <1>5, <3>1
    <3>2. CASE k # 1
      <4> DEFINE j == k - 1
      <4>1. j \in 1..Len(s) /\ t[k] = s[j]
        BY <1>1, <3>2
      <4>2. k < Len(t) => j < Len(s) /\ t[k + 1] = s[j + 1]
        BY <1>1, <3>2
      <4>3. k = Len(t) => j = Len(s)
        BY <1>1, <3>2
      <4> HIDE DEF j
      <4> QED
        BY <1>5, <4>1, <4>2, <4>3 DEF Chained
    <3> QED
      BY <3>1, <3>2
  <2> QED
    BY <1>1, <2>1 DEF Chained
<1> QED
  BY <1>4, <1>5

LEMMA PushImported ==
    ASSUME NEW s \in Seq(Frames), NEW x \in Frames, NEW t, t = <<x>> \o s
    PROVE  /\ ImportedOf(t) = Own(x) \union ImportedOf(s)
           /\ EvaluatingOf(t) = EvaluatingOf(s) \union
                (IF s # <<>> /\ x.fn = "import_file_on_module" THEN Own(Head(s)) ELSE {})
           /\ EvaluatingOf(t) \subseteq ImportedOf(s)
<1>1. /\ Len(t) = Len(s) + 1 /\ t[1] = x /\ Len(s) \in Nat
      /\ \A k \in 1..Len(s) : t[k + 1] = s[k]
  BY Push
<1>2. s # <<>> => Len(s) > 0 /\ Head(s) = s[1]
  OBVIOUS
<1>3. ASSUME NEW y PROVE y \in ImportedOf(t) <=> y \in Own(x) \union ImportedOf(s)
  <2>1. y \in ImportedOf(t) <=> \E k \in 1..Len(t) : y \in Own(t[k])
    BY DEF ImportedOf
  <2>2. y \in ImportedOf(s) <=> \E k \in 1..Len(s) : y \in Own(s[k])
    BY DEF ImportedOf
  <2>3. ASSUME NEW k \in 1..Len(t), y \in Own(t[k]) PROVE y \in Own(x) \union ImportedOf(s)
    <3>1. k = 1 \/ (k - 1 \in 1..Len(s) /\ t[k] = s[k - 1])
      BY <1>1
    <3> QED
      BY <1>1, <2>2, <2>3, <3>1
  <2>4. ASSUME NEW k \in 1..Len(s), y \in Own(s[k]) PROVE y \in ImportedOf(t)
    <3>1. k + 1 \in 1..Len(t) /\ t[k + 1] = s[k]
      BY <1>1
    <3> QED
      BY <2>1, <2>4, <3>1
  <2>5. y \in Own(x) => y \in ImportedOf(t)
    <3>1. 1 \in 1..Len(t)
      BY <1>1
    <3> QED
      BY <1>1, <2>1, <3>1
  <2> QED
    BY <2>1, <2>2, <2>3, <2>4, <2>5
<1> DEFINE New == IF s # <<>> /\ x.fn = "import_file_on_module" THEN Own(Head(s)) ELSE {}
<1>4. ASSUME NEW y PROVE y \in EvaluatingOf(t) <=> y \in EvaluatingOf(s) \union New
  <2>1. \A k : k \in 1..(Len(t) - 1) <=> k \in 1..Len(s)
    BY <1>1
  <2>2. y \in EvaluatingOf(t) <=>
            \E k \in 1..Len(s) : t[k].fn = "import_file_on_module" /\ y \in Own(t[k + 1])
    BY <2>1 DEF EvaluatingOf
  <2>3. y \in EvaluatingOf(s) <=>
            \E k \in 1..(Len(s) - 1) : s[k].fn = "import_file_on_module" /\ y \in Own(s[k + 1])
    BY DEF EvaluatingOf
  <2>4. ASSUME NEW k \in 1..Len(s), t[k].fn = "import_file_on_module", y \in Own(t[k + 1])
        PROVE  y \in EvaluatingOf(s) \union New
    <3>1. CASE k = 1
      BY <1>1, <1>2, <2>4, <3>1
    <3>2. CASE k # 1
      <4>1. k - 1 \in 1..(Len(s) - 1) /\ t[k] = s[k - 1] /\ t[k + 1] = s[(k - 1) + 1]
        BY <1>1, <3>2
      <4> QED
        BY <2>3, <2>4, <4>1
    <3> QED
      BY <3>1, <3>2
  <2>5. ASSUME NEW k \in 1..(Len(s) - 1), s[k].fn = "import_file_on_module", y \in Own(s[k + 1])
        PROVE  y \in EvaluatingOf(t)
    <3>1. k + 1 \in 1..Len(s) /\ t[k + 1] = s[k] /\ t[(k + 1) + 1] = s[k + 1]
      BY <1>1
    <3> QED
      BY <2>2, <2>5, <3>1
  <2>6. y \in New => y \in EvaluatingOf(t)
    <3>1. s # <<>> => 1 \in 1..Len(s) /\ t[2] = Head(s)
      BY <1>1, <1>2
    <3> QED
      BY <1>1, <2>2, <3>1
  <2> QED
    BY <2>2, <2>3, <2>4, <2>5, <2>6
<1>5. ASSUME NEW y \in EvaluatingOf(t) PROVE y \in ImportedOf(s)
  <2>1. PICK k \in 1..(Len(t) - 1) : y \in Own(t[k + 1])
    BY DEF EvaluatingOf
  <2>2. k \in 1..Len(s) /\ t[k + 1] = s[k]
    BY <1>1
  <2> QED
    BY <2>1, <2>2 DEF ImportedOf
<1> QED
  BY <1>3, <1>4, <1>5

Resolves(s, name) == \E k \in 1..Len(s) : s[k].fn = "resolve_namespace_object" /\ s[k].name = name

LEMMA PushApart ==
    ASSUME NEW s \in Seq(Frames), NEW x \in Frames, NEW t, t = <<x>> \o s
    PROVE  Apart(t) <=> /\ Apart(s) /\ Own(x) \intersect ImportedOf(s) = {}
                        /\ x.fn = "resolve_namespace_object" => ~Resolves(s, x.name)
<1>1. /\ Len(t) = Len(s) + 1 /\ t[1] = x /\ Len(s) \in Nat
      /\ \A k \in 1..Len(s) : t[k + 1] = s[k] /\ k + 1 \in 1..Len(t) /\ k + 1 # 1
      /\ \A k \in 1..Len(t) : k = 1 \/ (k - 1 \in 1..Len(s) /\ t[k] = s[k - 1])
      /\ 1 \in 1..Len(t)
  <2>1. /\ Len(t) = Len(s) + 1 /\ t[1] = x /\ Len(s) \in Nat
        /\ \A k \in 1..Len(s) : t[k + 1] = s[k]
    BY Push
  <2> QED
    BY <2>1
<1>2. ASSUME Apart(t)
      PROVE  /\ Apart(s) /\ Own(x) \intersect ImportedOf(s) = {}
             /\ x.fn = "resolve_namespace_object" => ~Resolves(s, x.name)
  <2>1. ASSUME NEW j \in 1..Len(s), NEW k \in 1..Len(s), j # k
        PROVE  Different(s[j], s[k])
    <3>1. j + 1 # k + 1 /\ j + 1 \in 1..Len(t) /\ k + 1 \in 1..Len(t)
      BY <1>1, <2>1
    <3> QED
      BY <1>1, <1>2, <3>1 DEF Apart
  <2>2. ASSUME NEW k \in 1..Len(s)
        PROVE  Different(x, s[k])
    <3>1. 1 # k + 1 /\ 1 \in 1..Len(t) /\ k + 1 \in 1..Len(t)
      BY <1>1
    <3> QED
      BY <1>1, <1>2, <3>1 DEF Apart
  <2> QED
    <3>1. Apart(s)
      BY <2>1 DEF Apart
    <3>2. Own(x) \intersect ImportedOf(s) = {}
      BY <2>2 DEF ImportedOf, Different
    <3>3. x.fn = "resolve_namespace_object" => ~Resolves(s, x.name)
      BY <2>2 DEF Resolves, Different
    <3> QED
      BY <3>1, <3>2, <3>3
<1>3. ASSUME Apart(s), Own(x) \intersect ImportedOf(s) = {},
             x.fn = "resolve_namespace_object" => ~Resolves(s, x.name)
      PROVE  Apart(t)
  <2>1. ASSUME NEW k \in 1..Len(s)
        PROVE  Different(x, s[k]) /\ Different(s[k], x)
    BY <1>3 DEF ImportedOf, Resolves, Different
  <2>2. ASSUME NEW j \in 1..Len(t), NEW k \in 1..Len(t), j # k
        PROVE  Different(t[j], t[k])
    <3>1. CASE j = 1
      <4>1. k - 1 \in 1..Len(s) /\ t[k] = s[k - 1] /\ t[j] = x
        BY <1>1, <2>2, <3>1
      <4> QED
        BY <2>1, <4>1
    <3>2. CASE k = 1
      <4>1. j - 1 \in 1..Len(s) /\ t[j] = s[j - 1] /\ t[k] = x
        BY <1>1, <2>2, <3>2
      <4> QED
        BY <2>1, <4>1
    <3>3. CASE j # 1 /\ k # 1
      <4>1. /\ j - 1 \in 1..Len(s) /\ t[j] = s[j - 1]
            /\ k - 1 \in 1..Len(s) /\ t[k] = s[k - 1] /\ j - 1 # k - 1
        BY <1>1, <2>2, <3>3
      <4> QED
        BY <1>3, <4>1 DEF Apart
    <3> QED
      BY <3>1, <3>2, <3>3
  <2> QED
    BY <2>2 DEF Apart
<1> QED
  BY <1>2, <1>3

LEMMA PushViews ==
    ASSUME NEW s \in Seq(Frames), NEW x \in Frames, NEW t, t = <<x>> \o s
    PROVE  /\ ResolvingOf(t) = Space(x) \union ResolvingOf(s)
           /\ Waiting(t) <=> IsWaiting(x) \/ Waiting(s)
           /\ Native(t)  <=> IsNative(x) \/ Native(s)
           /\ Missing(t) <=> IsMissing(x) \/ Missing(s)
<1>1. /\ Len(t) = Len(s) + 1 /\ t[1] = x /\ Len(s) \in Nat
      /\ \A k \in 1..Len(s) : t[k + 1] = s[k]
  BY Push
<1>2. /\ \A k \in 1..Len(s) : k + 1 \in 1..Len(t) /\ t[k + 1] = s[k]
      /\ \A k \in 1..Len(t) : t[k] = x \/ \E j \in 1..Len(s) : t[k] = s[j]
      /\ 1 \in 1..Len(t) /\ t[1] = x
  <2>1. ASSUME NEW k \in 1..Len(t) PROVE t[k] = x \/ \E j \in 1..Len(s) : t[k] = s[j]
    <3>1. k = 1 \/ (k - 1 \in 1..Len(s) /\ t[k] = s[k - 1])
      BY <1>1
    <3> QED
      BY <3>1
  <2>2. \A k \in 1..Len(s) : k + 1 \in 1..Len(t) /\ t[k + 1] = s[k]
    BY <1>1
  <2>3. 1 \in 1..Len(t) /\ t[1] = x
    BY <1>1
  <2>4. \A k \in 1..Len(t) : t[k] = x \/ \E j \in 1..Len(s) : t[k] = s[j]
    BY <2>1
  <2> QED
    BY <2>2, <2>3, <2>4
<1>3. ASSUME NEW y PROVE y \in ResolvingOf(t) <=> y \in Space(x) \union ResolvingOf(s)
  <2>1. y \in ResolvingOf(t) <=> \E k \in 1..Len(t) : y \in Space(t[k])
    BY DEF ResolvingOf
  <2>2. y \in ResolvingOf(s) <=> \E k \in 1..Len(s) : y \in Space(s[k])
    BY DEF ResolvingOf
  <2> QED
    BY <1>2, <2>1, <2>2
<1>4. ResolvingOf(t) = Space(x) \union ResolvingOf(s)
  BY <1>3
<1>5. Waiting(t) <=> IsWaiting(x) \/ Waiting(s)
  BY <1>2 DEF Waiting
<1>6. Native(t) <=> IsNative(x) \/ Native(s)
  BY <1>2 DEF Native
<1>7. Missing(t) <=> IsMissing(x) \/ Missing(s)
  BY <1>2 DEF Missing
<1> QED
  BY <1>4, <1>5, <1>6, <1>7

(* Only the innermost lookup can have found nothing.                       *)
LEMMA NoneMissing ==
    ASSUME NEW s \in Seq(Frames), Chained(s), s # <<>>
    PROVE  ~Missing(Tail(s))
<1>1. /\ Tail(s) \in Seq(Frames) /\ Len(Tail(s)) = Len(s) - 1 /\ Len(s) \in Nat
      /\ \A k \in 1..(Len(s) - 1) : Tail(s)[k] = s[k + 1]
  BY Uncons
<1>2. ASSUME NEW k \in 1..Len(Tail(s)) PROVE ~IsMissing(Tail(s)[k])
  <2>1. k \in 1..Len(s) /\ k < Len(s) /\ Tail(s)[k] = s[k + 1]
    BY <1>1
  <2>2. Above(s[k], s[k + 1])
    BY <2>1 DEF Chained
  <2> QED
    BY <2>1, <2>2 DEF Above, IsMissing
<1> QED
  BY <1>2 DEF Missing

LEMMA Pop ==
    ASSUME NEW s, Chained(s), Apart(s), s # <<>>
    PROVE  LET x == Head(s)  r == Tail(s) IN
           /\ Chained(r) /\ Apart(r) /\ r \in Seq(Frames) /\ x \in Frames /\ FrameOK(x)
           /\ s = <<x>> \o r
           /\ r = <<>> => Alone(x)
           /\ r # <<>> => Above(x, Head(r))
           /\ ImportedOf(s) = Own(x) \union ImportedOf(r) /\ Own(x) \intersect ImportedOf(r) = {}
           /\ EvaluatingOf(s) = EvaluatingOf(r) \union
                (IF r # <<>> /\ x.fn = "import_file_on_module" THEN Own(Head(r)) ELSE {})
           /\ EvaluatingOf(s) \subseteq ImportedOf(r)
           /\ ResolvingOf(s) = Space(x) \union ResolvingOf(r)
           /\ x.fn = "resolve_namespace_object" => ~Resolves(r, x.name)
           /\ Waiting(r) => Waiting(s)
           /\ Native(s) <=> IsNative(x) \/ Native(r)
           /\ ~Missing(r) /\ (Missing(s) <=> IsMissing(x))
<1> DEFINE x == Head(s)
           r == Tail(s)
<1>1. s \in Seq(Frames)
  BY DEF Chained
<1>2. s = <<x>> \o r /\ x \in Frames /\ r \in Seq(Frames)
  BY <1>1, Uncons
<1>3. ~Missing(r)
  BY <1>1, NoneMissing
<1> HIDE DEF x, r
<1>4. /\ Chained(r) /\ FrameOK(x)
      /\ r = <<>> => Alone(x)
      /\ r # <<>> => Above(x, Head(r))
  BY <1>2, PushChained
<1>5. /\ Apart(r) /\ Own(x) \intersect ImportedOf(r) = {}
      /\ x.fn = "resolve_namespace_object" => ~Resolves(r, x.name)
  BY <1>2, PushApart
<1>6. /\ ImportedOf(s) = Own(x) \union ImportedOf(r)
      /\ EvaluatingOf(s) = EvaluatingOf(r) \union
            (IF r # <<>> /\ x.fn = "import_file_on_module" THEN Own(Head(r)) ELSE {})
      /\ EvaluatingOf(s) \subseteq ImportedOf(r)
  BY <1>2, PushImported
<1>7. /\ ResolvingOf(s) = Space(x) \union ResolvingOf(r)
      /\ Waiting(s) <=> IsWaiting(x) \/ Waiting(r)
      /\ Native(s)  <=> IsNative(x) \/ Native(r)
      /\ Missing(s) <=> IsMissing(x) \/ Missing(r)
  BY <1>2, PushViews
<1>8. /\ Waiting(r) => Waiting(s)
      /\ Native(s) <=> IsNative(x) \/ Native(r)
      /\ ~Missing(r) /\ (Missing(s) <=> IsMissing(x))
      /\ ResolvingOf(s) = Space(x) \union ResolvingOf(r)
  BY <1>3, <1>7
<1> QED
  BY ONLY <1>2, <1>4, <1>5, <1>6, <1>8 DEF x, r

(* The innermost frame goes on as x.                                       *)
GoesOn(y, x) ==
    /\ Own(x) = Own(y) /\ Space(x) = Space(y)
    /\ \A b : Above(y, b) => Above(x, b)
    /\ Alone(y) => Alone(x)
    /\ x.fn = "import_file_on_module" <=> y.fn = "import_file_on_module"
    /\ x.fn = "resolve_namespace_object" <=> y.fn = "resolve_namespace_object"
    /\ x.fn = "resolve_namespace_object" => x.name = y.name

LEMMA Swap ==
    ASSUME NEW s, Chained(s), Apart(s), s # <<>>, NEW x, FrameOK(x), GoesOn(Head(s), x),
           NEW t, t = <<x>> \o Tail(s)
    PROVE  /\ Chained(t) /\ Apart(t) /\ t # <<>> /\ Head(t) = x /\ Tail(t) = Tail(s)
           /\ ImportedOf(t) = ImportedOf(s) /\ EvaluatingOf(t) = EvaluatingOf(s)
           /\ ResolvingOf(t) = ResolvingOf(s)
           /\ Waiting(t) => IsWaiting(x) \/ Waiting(s)
           /\ Native(t) <=> IsNative(x) \/ Native(Tail(s))
           /\ Missing(t) <=> IsMissing(x)
<1> DEFINE y == Head(s)
           r == Tail(s)
<1>1. /\ Chained(r) /\ Apart(r) /\ r \in Seq(Frames) /\ y \in Frames
      /\ r = <<>> => Alone(y)
      /\ r # <<>> => Above(y, Head(r))
      /\ ImportedOf(s) = Own(y) \union ImportedOf(r) /\ Own(y) \intersect ImportedOf(r) = {}
      /\ EvaluatingOf(s) = EvaluatingOf(r) \union
            (IF r # <<>> /\ y.fn = "import_file_on_module" THEN Own(Head(r)) ELSE {})
      /\ ResolvingOf(s) = Space(y) \union ResolvingOf(r)
      /\ y.fn = "resolve_namespace_object" => ~Resolves(r, y.name)
      /\ Waiting(r) => Waiting(s)
      /\ ~Missing(r)
  BY Pop
<1>2. x \in Frames
  BY DEF FrameOK
<1>3. t = <<x>> \o r /\ GoesOn(y, x)
  OBVIOUS
<1> HIDE DEF y, r
<1>4. Chained(t)
  BY <1>1, <1>2, <1>3, PushChained DEF GoesOn
<1>5. Apart(t)
  <2>1. Own(x) \intersect ImportedOf(r) = {} /\ (x.fn = "resolve_namespace_object" => ~Resolves(r, x.name))
    BY <1>1, <1>3 DEF GoesOn
  <2> QED
    BY <1>1, <1>2, <1>3, <2>1, PushApart
<1>6. ImportedOf(t) = ImportedOf(s) /\ EvaluatingOf(t) = EvaluatingOf(s)
  <2>1. /\ ImportedOf(t) = Own(x) \union ImportedOf(r)
        /\ EvaluatingOf(t) = EvaluatingOf(r) \union
                (IF r # <<>> /\ x.fn = "import_file_on_module" THEN Own(Head(r)) ELSE {})
    BY <1>1, <1>2, <1>3, PushImported
  <2> QED
    BY <1>1, <1>3, <2>1 DEF GoesOn
<1>7. /\ ResolvingOf(t) = Space(x) \union ResolvingOf(r)
      /\ Waiting(t) <=> IsWaiting(x) \/ Waiting(r)
      /\ Native(t)  <=> IsNative(x) \/ Native(r)
      /\ Missing(t) <=> IsMissing(x) \/ Missing(r)
  BY <1>1, <1>2, <1>3, PushViews
<1>8. t # <<>> /\ Head(t) = x /\ Tail(t) = r
  BY <1>1, <1>2, <1>3, Push
<1>9. /\ ResolvingOf(t) = ResolvingOf(s)
      /\ Waiting(t) => IsWaiting(x) \/ Waiting(s)
      /\ Missing(t) <=> IsMissing(x)
  BY <1>1, <1>3, <1>7 DEF GoesOn
<1> QED
  BY ONLY <1>4, <1>5, <1>6, <1>7, <1>8, <1>9 DEF r

(* A value is returned to the innermost frame.                             *)
LEMMA Answered ==
    ASSUME NEW c, Chained(c), Apart(c), NEW value
    PROVE  LET t == Returned(c, value) IN
           /\ Chained(t) /\ Apart(t)
           /\ ImportedOf(t) = ImportedOf(c) /\ EvaluatingOf(t) = EvaluatingOf(c)
           /\ ResolvingOf(t) = ResolvingOf(c)
           /\ Waiting(t) => \/ Waiting(c)
                            \/ /\ c # <<>> /\ Head(c).fn = "resolve_namespace_object"
                               /\ Head(c).step = "overrides" /\ value = "importer"
           /\ Native(t) <=> Native(c)
           /\ Missing(t) <=> Missing(c)
<1>1. CASE c # <<>> /\ Head(c).fn = "resolve_namespace_object"
  <2> DEFINE y == Head(c)
             x == [y EXCEPT !.step = AfterLookup(@, value)]
             t == Returned(c, value)
  <2>1. FrameOK(y) /\ y \in Frames /\ (Native(c) <=> IsNative(y) \/ Native(Tail(c)))
        /\ (Missing(c) <=> IsMissing(y))
    BY <1>1, Pop
  <2>2. t = <<x>> \o Tail(c)
    BY <1>1 DEF Returned
  <2> HIDE DEF t
  <2>3. y.fn = "resolve_namespace_object"
    BY <1>1
  <2> HIDE DEF y
  <2>4. y \in Resolutions
    BY <2>1, <2>3 DEF Frames, Imports, Enumerations, Evaluations, Overrides, Lookups
  <2>5. AfterLookup(y.step, value) \in {"module", "call", "return"}
    BY DEF AfterLookup
  <2>6. /\ x.fn = y.fn /\ x.name = y.name /\ x.ns = y.ns /\ x.step = AfterLookup(y.step, value)
        /\ x \in Resolutions
    BY <2>4, <2>5 DEF Resolutions
  <2>7. AfterLookup(y.step, value) = "module" => y.step = "overrides" /\ value = "importer"
    BY DEF AfterLookup
  <2> HIDE DEF x
  <2>8. FrameOK(x)
    BY <2>3, <2>6 DEF FrameOK, Frames
  <2>9. GoesOn(y, x)
    BY <2>3, <2>6 DEF GoesOn, Own, Space, Above, Alone, ImportFns, Evaluating
  <2>10. /\ Chained(t) /\ Apart(t) 
         /\ ImportedOf(t) = ImportedOf(c) /\ EvaluatingOf(t) = EvaluatingOf(c)
         /\ ResolvingOf(t) = ResolvingOf(c)
         /\ Waiting(t) => IsWaiting(x) \/ Waiting(c)
         /\ Native(t) <=> IsNative(x) \/ Native(Tail(c))
         /\ Missing(t) <=> IsMissing(x)
    BY <1>1, <2>2, <2>8, <2>9, Swap DEF y
  <2>11. ~IsNative(x) /\ ~IsNative(y) /\ ~IsMissing(x) /\ ~IsMissing(y)
    BY <2>3, <2>6 DEF IsNative, IsMissing
  <2>12. IsWaiting(x) => y.step = "overrides" /\ value = "importer"
    BY <2>6, <2>7 DEF IsWaiting
  <2> QED
    BY ONLY <1>1, <2>1, <2>3, <2>10, <2>11, <2>12 DEF t, y
<1>2. CASE ~(c # <<>> /\ Head(c).fn = "resolve_namespace_object")
  <2>1. Returned(c, value) = c
    BY <1>2 DEF Returned
  <2> QED
    BY <2>1
<1> QED
  BY <1>1, <1>2

-----------------------------------------------------------------------------
(* The invariant, in terms of the state's components.                      *)
MarkedIn(mods) == UNION {{<<p, name>> : name \in mods[p]} : p \in DOMAIN mods}

(* Importers, what is stored in them, and how they are reached.            *)
Known(sp, mods, prs, mt) ==
    /\ DOMAIN sp \subseteq Seq(Names) /\ Root \in DOMAIN sp
    /\ sp \in [DOMAIN sp -> Seq(Directories)]
    /\ mods \in [DOMAIN sp -> SUBSET Names]
    /\ prs \in [DOMAIN prs -> Values]
    /\ DOMAIN prs \subseteq MarkedIn(mods)
    /\ \A pn \in DOMAIN prs : prs[pn] = "importer" => Append(pn[1], pn[2]) \in DOMAIN sp
    /\ DOMAIN mt \subseteq DOMAIN prs
    /\ \A pn \in DOMAIN mt : mt[pn].parentModule = pn[1]
    /\ \A p \in DOMAIN sp : p # Root =>
            <<Front(p), Last(p)>> \in DOMAIN mt /\ prs[<<Front(p), Last(p)>>] = "importer"

(* A marked name is stored, has run code or is being imported; of those    *)
(* being imported, the file is evaluated.                                  *)
Marks(mods, prs, ev, I, E) ==
    /\ I \subseteq MarkedIn(mods) \ DOMAIN prs
    /\ MarkedIn(mods) \subseteq DOMAIN prs \union ev \union I
    /\ ev \subseteq MarkedIn(mods)
    /\ I \intersect ev = E

SpacesTyped(res, nss, cr) ==
    res \subseteq Namespaces /\ cr \in 0..MaxNamespaces /\ nss \in [Namespaces -> 0..cr]

(* Until the repository is stored, or being made, there are no namespaces. *)
Resolved(sp, prs, res, nss, cr, R, waiting, native) ==
    /\ SpacesTyped(res, nss, cr)
    /\ \A name, ns : <<name, ns>> \in R => name \in res /\ nss[name] = ns
    /\ waiting => <<overrides>> \in DOMAIN sp
    /\ (cr = 0 /\ res = {}) \/ <<Root, gi>> \in DOMAIN prs \/ native

Registered(prs, reg, ld, missing) ==
    /\ {reg, ld} \subseteq BOOLEAN
    /\ <<Root, cairoNative>> \in DOMAIN prs => reg
    /\ missing => ~reg /\ ld

Full(sp, mods, prs, mt, ev, res, nss, cr, reg, ld, s) ==
    /\ Known(sp, mods, prs, mt)
    /\ Marks(mods, prs, ev, ImportedOf(s), EvaluatingOf(s))
    /\ Resolved(sp, prs, res, nss, cr, ResolvingOf(s), Waiting(s), Native(s))
    /\ Registered(prs, reg, ld, Missing(s))
    /\ Chained(s) /\ Apart(s)

IInv ==
    \/ Full(searchPath, modules, props, meta, evaluated, resolving, namespaces, created,
            registered, loaded, stack)
    \/ /\ stack = <<Aborted>>
       /\ Known(searchPath, modules, props, meta)
       /\ evaluated \subseteq MarkedIn(modules)
       /\ SpacesTyped(resolving, namespaces, created)
       /\ {registered, loaded} \subseteq BOOLEAN

(* Only the stack changes.                                                 *)
LEMMA StackStep ==
    ASSUME NEW sp, NEW mods, NEW prs, NEW mt, NEW ev, NEW res, NEW nss, NEW cr, NEW reg, NEW ld,
           NEW s, Full(sp, mods, prs, mt, ev, res, nss, cr, reg, ld, s),
           NEW t, Chained(t), Apart(t),
           ImportedOf(t) = ImportedOf(s), EvaluatingOf(t) = EvaluatingOf(s),
           ResolvingOf(t) = ResolvingOf(s),
           Waiting(t) => Waiting(s) \/ <<overrides>> \in DOMAIN sp,
           Native(s) => Native(t), Missing(t) => ~reg /\ ld
    PROVE  Full(sp, mods, prs, mt, ev, res, nss, cr, reg, ld, t)
<1>1. Known(sp, mods, prs, mt) /\ Marks(mods, prs, ev, ImportedOf(t), EvaluatingOf(t))
  BY DEF Full
<1>2. Resolved(sp, prs, res, nss, cr, ResolvingOf(t), Waiting(t), Native(t))
  BY DEF Full, Resolved
<1>3. Registered(prs, reg, ld, Missing(t))
  BY DEF Full, Registered
<1> QED
  BY <1>1, <1>2, <1>3 DEF Full

LEMMA InMarked ==
    ASSUME NEW mods, NEW p, NEW name
    PROVE  <<p, name>> \in MarkedIn(mods) <=> p \in DOMAIN mods /\ name \in mods[p]
  BY DEF MarkedIn

LEMMA MarkedPairs ==
    ASSUME NEW mods, NEW o \in MarkedIn(mods)
    PROVE  o = <<o[1], o[2]>> /\ o[1] \in DOMAIN mods /\ o[2] \in mods[o[1]]
  BY DEF MarkedIn

(* A name is marked, or is no longer.                                      *)
LEMMA MarkIsAdded ==
    ASSUME NEW mods, NEW mods2, NEW p \in DOMAIN mods, NEW name,
           DOMAIN mods2 = DOMAIN mods,
           \A q \in DOMAIN mods : mods2[q] = IF q = p THEN mods[p] \union {name} ELSE mods[q]
    PROVE  MarkedIn(mods2) = MarkedIn(mods) \union {<<p, name>>}
<1>1. ASSUME NEW o
      PROVE  o \in MarkedIn(mods2) <=> o \in MarkedIn(mods) \union {<<p, name>>}
  <2>1. o \in MarkedIn(mods2) <=> \E q \in DOMAIN mods : \E n \in mods2[q] : o = <<q, n>>
    BY DEF MarkedIn
  <2>2. o \in MarkedIn(mods) <=> \E q \in DOMAIN mods : \E n \in mods[q] : o = <<q, n>>
    BY DEF MarkedIn
  <2> QED
    BY <2>1, <2>2
<1> QED
  BY <1>1

LEMMA MarkIsTaken ==
    ASSUME NEW mods, NEW mods2, NEW p \in DOMAIN mods, NEW name,
           DOMAIN mods2 = DOMAIN mods,
           \A q \in DOMAIN mods : mods2[q] = IF q = p THEN mods[p] \ {name} ELSE mods[q]
    PROVE  MarkedIn(mods2) = MarkedIn(mods) \ {<<p, name>>}
<1>1. ASSUME NEW o
      PROVE  o \in MarkedIn(mods2) <=> o \in MarkedIn(mods) \ {<<p, name>>}
  <2>1. o \in MarkedIn(mods2) <=> \E q \in DOMAIN mods : \E n \in mods2[q] : o = <<q, n>>
    BY DEF MarkedIn
  <2>2. o \in MarkedIn(mods) <=> \E q \in DOMAIN mods : \E n \in mods[q] : o = <<q, n>>
    BY DEF MarkedIn
  <2> QED
    BY <2>1, <2>2
<1> QED
  BY <1>1

-----------------------------------------------------------------------------
(* importer_get_property.                                                  *)
LEMMA ImportFrame ==
    ASSUME NEW sp, NEW mods, NEW prs, NEW mt, Known(sp, mods, prs, mt),
           NEW p \in DOMAIN sp, NEW name \in Names,
           NEW f, f = [fn |-> "do_import", importer |-> p, name |-> name, path |-> sp[p],
                       at |-> 0, looked |-> FALSE]
    PROVE  /\ f \in Frames /\ FrameOK(f) /\ Alone(f) /\ Own(f) = {<<p, name>>} /\ Space(f) = {}
           /\ ~IsWaiting(f) /\ ~IsNative(f) /\ ~IsMissing(f)
           /\ f.fn = "do_import"
<1>1. p \in Seq(Names) /\ sp[p] \in Seq(Directories)
  BY DEF Known
<1>2. f \in Imports
  BY <1>1 DEF Imports
<1>3. /\ f.fn = "do_import" /\ f.importer = p /\ f.name = name /\ f.path = sp[p]
      /\ f.at = 0 /\ f.looked = FALSE
  OBVIOUS
<1>4. Len(f.path) \in Nat /\ DOMAIN f.path = 1..Len(f.path)
  BY <1>1, <1>3
<1>5. f.at \in 0..(Len(f.path) + 1) /\ \A k \in Elements(f) : ~(k < f.at)
  BY <1>3, <1>4 DEF Elements
<1>6. f \in Frames
  BY <1>2 DEF Frames
<1>7. Searched(f)
  BY <1>5 DEF Searched
<1>8. FrameOK(f)
  BY <1>3, <1>5, <1>6, <1>7 DEF FrameOK
<1> QED
  BY <1>3, <1>6, <1>8 DEF Own, Space, Alone, IsWaiting, IsNative, IsMissing, ImportFns

LEMMA Get ==
    ASSUME NEW sp, NEW mods, NEW prs, NEW mt, NEW ev, NEW res, NEW nss, NEW cr, NEW reg, NEW ld,
           NEW c, Full(sp, mods, prs, mt, ev, res, nss, cr, reg, ld, c),
           NEW p \in DOMAIN sp, NEW name \in Names,
           NEW f, f = [fn |-> "do_import", importer |-> p, name |-> name, path |-> sp[p],
                       at |-> 0, looked |-> FALSE],
           c # <<>> => Above(f, Head(c)),
           NEW mods2, NEW t,
           \/ /\ name \in mods[p] /\ mods2 = mods
              /\ t = Returned(c, IF <<p, name>> \in DOMAIN prs THEN prs[<<p, name>>] ELSE "undefined")
           \/ /\ name \notin mods[p]
              /\ mods2 = [mods EXCEPT ![p] = @ \union {name}]
              /\ t = <<f>> \o c
    PROVE  Full(sp, mods2, prs, mt, ev, res, nss, cr, reg, ld, t)
<1>1. /\ Known(sp, mods, prs, mt) /\ Marks(mods, prs, ev, ImportedOf(c), EvaluatingOf(c))
      /\ Resolved(sp, prs, res, nss, cr, ResolvingOf(c), Waiting(c), Native(c))
      /\ Registered(prs, reg, ld, Missing(c)) /\ Chained(c) /\ Apart(c)
  BY DEF Full
<1>2. /\ f \in Frames /\ FrameOK(f) /\ Alone(f) /\ Own(f) = {<<p, name>>} /\ Space(f) = {}
      /\ ~IsWaiting(f) /\ ~IsNative(f) /\ ~IsMissing(f) /\ f.fn = "do_import"
  BY <1>1, ImportFrame
<1> HIDE DEF Full
<1>3. CASE name \in mods[p] /\ mods2 = mods
           /\ t = Returned(c, IF <<p, name>> \in DOMAIN prs THEN prs[<<p, name>>] ELSE "undefined")
  <2> DEFINE value == IF <<p, name>> \in DOMAIN prs THEN prs[<<p, name>>] ELSE "undefined"
  <2>1. /\ Chained(t) /\ Apart(t)
        /\ ImportedOf(t) = ImportedOf(c) /\ EvaluatingOf(t) = EvaluatingOf(c)
        /\ ResolvingOf(t) = ResolvingOf(c)
        /\ Waiting(t) => \/ Waiting(c)
                         \/ /\ c # <<>> /\ Head(c).fn = "resolve_namespace_object"
                            /\ Head(c).step = "overrides" /\ value = "importer"
        /\ Native(t) <=> Native(c)
        /\ Missing(t) <=> Missing(c)
    <3>1. t = Returned(c, value)
      BY <1>3
    <3> HIDE DEF value
    <3> QED
      BY ONLY <1>1, <3>1, Answered
  <2>2. ASSUME c # <<>>, Head(c).fn = "resolve_namespace_object", Head(c).step = "overrides",
               value = "importer"
        PROVE  <<overrides>> \in DOMAIN sp
    <3>1. <<p, name>> = <<Root, overrides>>
      BY <1>2, <2>2 DEF Above, ImportFns
    <3>2. <<p, name>> \in DOMAIN prs /\ prs[<<p, name>>] = "importer"
      BY <2>2
    <3>3. Append(Root, overrides) \in DOMAIN sp
      BY <1>1, <3>1, <3>2 DEF Known
    <3> QED
      BY <3>3 DEF Root
  <2>3. Missing(t) => ~reg /\ ld
    BY <1>1, <2>1 DEF Registered
  <2> HIDE DEF value
  <2>4. Full(sp, mods, prs, mt, ev, res, nss, cr, reg, ld, t)
    BY <2>1, <2>2, <2>3, StackStep
  <2> QED
    BY <1>3, <2>4
<1>4. CASE name \notin mods[p] /\ mods2 = [mods EXCEPT ![p] = @ \union {name}] /\ t = <<f>> \o c
  <2>1. c \in Seq(Frames)
    BY <1>1 DEF Chained
  <2>2. Chained(t)
    BY <1>1, <1>2, <1>4, <2>1, PushChained
  <2>3. /\ ImportedOf(t) = {<<p, name>>} \union ImportedOf(c)
        /\ EvaluatingOf(t) = EvaluatingOf(c)
    <3>1. /\ ImportedOf(t) = Own(f) \union ImportedOf(c)
          /\ EvaluatingOf(t) = EvaluatingOf(c) \union
                (IF c # <<>> /\ f.fn = "import_file_on_module" THEN Own(Head(c)) ELSE {})
      BY ONLY <1>2, <1>4, <2>1, PushImported
    <3>2. f.fn # "import_file_on_module"
      BY <1>2
    <3> QED
      BY ONLY <1>2, <3>1, <3>2
  <2>4. /\ ResolvingOf(t) = ResolvingOf(c)
        /\ Waiting(t) <=> Waiting(c)
        /\ Native(t) <=> Native(c)
        /\ Missing(t) <=> Missing(c)
    BY <1>2, <1>4, <2>1, PushViews
  <2>5. <<p, name>> \notin MarkedIn(mods)
    BY <1>4, InMarked
  <2>6. Apart(t)
    <3>1. Own(f) \intersect ImportedOf(c) = {}
      BY <1>1, <1>2, <2>5 DEF Marks
    <3> QED
      BY <1>1, <1>2, <1>4, <2>1, <3>1, PushApart
  <2>7. mods \in [DOMAIN sp -> SUBSET Names]
    BY <1>1 DEF Known
  <2>8. /\ mods2 \in [DOMAIN sp -> SUBSET Names]
        /\ MarkedIn(mods2) = MarkedIn(mods) \union {<<p, name>>}
    <3>1. DOMAIN mods = DOMAIN sp /\ p \in DOMAIN mods
      BY <2>7
    <3>2. mods2 \in [DOMAIN sp -> SUBSET Names]
      BY ONLY <1>4, <2>7, name \in Names, p \in DOMAIN sp
    <3>3. \A q \in DOMAIN mods : mods2[q] = IF q = p THEN mods[p] \union {name} ELSE mods[q]
      BY ONLY <1>4, <2>7
    <3>4. DOMAIN mods2 = DOMAIN mods
      BY ONLY <3>1, <3>2
    <3>5. MarkedIn(mods2) = MarkedIn(mods) \union {<<p, name>>}
      BY ONLY <3>1, <3>3, <3>4, MarkIsAdded, SMTT(30)
    <3> QED
      BY ONLY <3>2, <3>5
  <2>9. Known(sp, mods2, prs, mt)
    BY <1>1, <2>8 DEF Known
  <2>10. Marks(mods2, prs, ev, ImportedOf(t), EvaluatingOf(t))
    <3>1. <<p, name>> \notin DOMAIN prs
      BY <1>1, <2>5 DEF Known
    <3> QED
      BY <1>1, <2>3, <2>5, <2>8, <3>1 DEF Marks
  <2>11. Resolved(sp, prs, res, nss, cr, ResolvingOf(t), Waiting(t), Native(t))
    BY <1>1, <2>4 DEF Resolved
  <2>12. Registered(prs, reg, ld, Missing(t))
    BY <1>1, <2>4 DEF Registered
  <2> QED
    BY <2>2, <2>6, <2>9, <2>10, <2>11, <2>12 DEF Full
<1> QED
  BY <1>3, <1>4

-----------------------------------------------------------------------------
(* Calls that are made and that return.                                    *)
LEMMA ResolvingNames ==
    ASSUME NEW s, NEW name
    PROVE  Resolves(s, name) <=> \E ns : <<name, ns>> \in ResolvingOf(s)
<1>1. ASSUME NEW k \in 1..Len(s), s[k].fn = "resolve_namespace_object", s[k].name = name
      PROVE  \E ns : <<name, ns>> \in ResolvingOf(s)
  <2>1. <<name, s[k].ns>> \in Space(s[k])
    BY <1>1 DEF Space
  <2> QED
    BY <2>1 DEF ResolvingOf
<1>2. ASSUME NEW ns, <<name, ns>> \in ResolvingOf(s)
      PROVE  Resolves(s, name)
  <2>1. PICK k \in 1..Len(s) : <<name, ns>> \in Space(s[k])
    BY <1>2 DEF ResolvingOf
  <2> QED
    BY <2>1 DEF Space, Resolves
<1> QED
  BY <1>1, <1>2 DEF Resolves

LEMMA PushResolution ==
    ASSUME NEW sp, NEW mods, NEW prs, NEW mt, NEW ev, NEW res, NEW nss, NEW cr, NEW reg, NEW ld,
           NEW c, Full(sp, mods, prs, mt, ev, res, nss, cr, reg, ld, c),
           NEW name \in Namespaces, name \notin res, cr < MaxNamespaces,
           <<Root, gi>> \in DOMAIN prs \/ Native(c),
           NEW x, x = [fn |-> "resolve_namespace_object", name |-> name, ns |-> cr + 1,
                       step |-> "overrides"],
           c # <<>> => Above(x, Head(c)),
           NEW res2, res2 = res \union {name},
           NEW nss2, nss2 = [nss EXCEPT ![name] = cr + 1],
           NEW t, t = <<x>> \o c
    PROVE  Full(sp, mods, prs, mt, ev, res2, nss2, cr + 1, reg, ld, t)
<1>1. /\ Known(sp, mods, prs, mt) /\ Marks(mods, prs, ev, ImportedOf(c), EvaluatingOf(c))
      /\ Resolved(sp, prs, res, nss, cr, ResolvingOf(c), Waiting(c), Native(c))
      /\ Registered(prs, reg, ld, Missing(c)) /\ Chained(c) /\ Apart(c)
  BY DEF Full
<1> HIDE DEF Full
<1>2. /\ res \subseteq Namespaces /\ cr \in Nat /\ cr + 1 \in 1..MaxNamespaces
      /\ cr + 1 \in 0..MaxNamespaces
      /\ nss \in [Namespaces -> 0..cr]
      /\ \A m, ns : <<m, ns>> \in ResolvingOf(c) => m \in res /\ nss[m] = ns
  BY <1>1, ImportsAssumption DEF Resolved, SpacesTyped
<1>3. x \in Resolutions
  BY <1>2 DEF Resolutions
<1>4. /\ x.fn = "resolve_namespace_object" /\ x.name = name /\ x.ns = cr + 1
      /\ x.step = "overrides"
  OBVIOUS
<1>5. x \in Frames /\ FrameOK(x)
  BY <1>3, <1>4 DEF Frames, FrameOK
<1>6. /\ Own(x) = {} /\ Space(x) = {<<name, cr + 1>>} /\ Alone(x)
      /\ ~IsWaiting(x) /\ ~IsNative(x) /\ ~IsMissing(x) /\ x.fn # "import_file_on_module"
  BY <1>4 DEF Own, Space, Alone, IsWaiting, IsNative, IsMissing, ImportFns
<1>7. c \in Seq(Frames) /\ t = <<x>> \o c /\ (c # <<>> => Above(x, Head(c)))
  BY <1>1 DEF Chained
<1>8. Chained(t)
  BY ONLY <1>1, <1>5, <1>6, <1>7, PushChained
<1>9. ImportedOf(t) = ImportedOf(c) /\ EvaluatingOf(t) = EvaluatingOf(c)
  <2>1. /\ ImportedOf(t) = Own(x) \union ImportedOf(c)
        /\ EvaluatingOf(t) = EvaluatingOf(c) \union
              (IF c # <<>> /\ x.fn = "import_file_on_module" THEN Own(Head(c)) ELSE {})
    BY ONLY <1>5, <1>7, PushImported
  <2> QED
    BY ONLY <1>6, <2>1
<1>10. /\ ResolvingOf(t) = {<<name, cr + 1>>} \union ResolvingOf(c)
       /\ Waiting(t) <=> Waiting(c)
       /\ Native(t) <=> Native(c)
       /\ Missing(t) <=> Missing(c)
  <2>1. /\ ResolvingOf(t) = Space(x) \union ResolvingOf(c)
        /\ Waiting(t) <=> IsWaiting(x) \/ Waiting(c)
        /\ Native(t)  <=> IsNative(x) \/ Native(c)
        /\ Missing(t) <=> IsMissing(x) \/ Missing(c)
    BY ONLY <1>5, <1>7, PushViews
  <2> QED
    BY ONLY <1>6, <2>1
<1>11. Apart(t)
  <2>1. ~Resolves(c, x.name)
    BY <1>2, <1>4, ResolvingNames
  <2>2. Own(x) \intersect ImportedOf(c) = {}
    BY <1>6
  <2> QED
    BY ONLY <1>1, <1>5, <1>7, <2>1, <2>2, PushApart
<1>12. /\ nss2 \in [Namespaces -> 0..(cr + 1)] /\ nss2[name] = cr + 1
       /\ \A m \in Namespaces : m # name => nss2[m] = nss[m]
  <2>1. \A i \in 0..cr : i \in 0..(cr + 1)
    BY <1>2
  <2>2. cr + 1 \in 0..(cr + 1)
    BY <1>2
  <2> QED
    BY ONLY <1>2, <2>1, <2>2, name \in Namespaces, nss2 = [nss EXCEPT ![name] = cr + 1]
<1>13. Resolved(sp, prs, res2, nss2, cr + 1, ResolvingOf(t), Waiting(t), Native(t))
  <2>1. SpacesTyped(res2, nss2, cr + 1)
    BY <1>2, <1>12 DEF SpacesTyped
  <2>2. ASSUME NEW m, NEW ns, <<m, ns>> \in ResolvingOf(t)
        PROVE  m \in res2 /\ nss2[m] = ns
    <3>1. CASE <<m, ns>> = <<name, cr + 1>>
      BY <1>12, <3>1
    <3>2. CASE <<m, ns>> \in ResolvingOf(c)
      <4>1. m \in res /\ nss[m] = ns /\ m \in Namespaces /\ m # name
        BY <1>2, <3>2
      <4> QED
        BY <1>12, <4>1
    <3> QED
      BY <1>10, <2>2, <3>1, <3>2
  <2>3. Waiting(t) => <<overrides>> \in DOMAIN sp
    BY <1>1, <1>10 DEF Resolved
  <2> QED
    BY <1>10, <2>1, <2>2, <2>3 DEF Resolved
<1>14. Registered(prs, reg, ld, Missing(t))
  BY <1>1, <1>10 DEF Registered
<1>15. Marks(mods, prs, ev, ImportedOf(t), EvaluatingOf(t))
  BY <1>1, <1>9
<1> QED
  BY ONLY <1>1, <1>8, <1>11, <1>13, <1>14, <1>15 DEF Full

(* A frame that neither imports nor resolves is pushed; for a file, what   *)
(* the import below evaluates is recorded.                                 *)
Plain(x) == x.fn \notin ImportFns \union {"resolve_namespace_object"}

LEMMA PushPlain ==
    ASSUME NEW sp, NEW mods, NEW prs, NEW mt, NEW ev, NEW res, NEW nss, NEW cr, NEW reg, NEW ld,
           NEW c, Full(sp, mods, prs, mt, ev, res, nss, cr, reg, ld, c),
           NEW x, FrameOK(x), Plain(x), ~IsMissing(x),
           c = <<>> => Alone(x), c # <<>> => Above(x, Head(c)),
           NEW ev2, ev2 = ev \union (IF c # <<>> /\ x.fn = "import_file_on_module"
                                     THEN Own(Head(c)) ELSE {}),
           NEW t, t = <<x>> \o c
    PROVE  Full(sp, mods, prs, mt, ev2, res, nss, cr, reg, ld, t)
<1> DEFINE New == IF c # <<>> /\ x.fn = "import_file_on_module" THEN Own(Head(c)) ELSE {}
<1>1. /\ Known(sp, mods, prs, mt) /\ Marks(mods, prs, ev, ImportedOf(c), EvaluatingOf(c))
      /\ Resolved(sp, prs, res, nss, cr, ResolvingOf(c), Waiting(c), Native(c))
      /\ Registered(prs, reg, ld, Missing(c)) /\ Chained(c) /\ Apart(c)
  BY DEF Full
<1>2. c \in Seq(Frames) /\ x \in Frames
  BY <1>1 DEF Chained, FrameOK
<1>3. /\ Own(x) = {} /\ Space(x) = {} /\ x.fn # "resolve_namespace_object"
      /\ ~IsWaiting(x) /\ ~IsNative(x) /\ ~IsMissing(x)
  BY DEF Own, Space, IsWaiting, IsNative, Plain, ImportFns
<1>4. Chained(t)
  BY <1>1, <1>2, PushChained
<1>5. ImportedOf(t) = ImportedOf(c) /\ EvaluatingOf(t) = EvaluatingOf(c) \union New
  <2>1. /\ ImportedOf(t) = Own(x) \union ImportedOf(c)
        /\ EvaluatingOf(t) = EvaluatingOf(c) \union New
    BY <1>2, PushImported
  <2> QED
    BY ONLY <1>3, <2>1
<1>6. /\ ResolvingOf(t) = ResolvingOf(c)
      /\ Waiting(t) <=> Waiting(c)
      /\ Native(t) <=> Native(c)
      /\ Missing(t) <=> Missing(c)
  BY <1>2, <1>3, PushViews
<1>7. Apart(t)
  BY <1>1, <1>2, <1>3, PushApart
<1>8. New \subseteq ImportedOf(c)
  <2>1. c # <<>> => Own(Head(c)) \subseteq ImportedOf(c)
    BY <1>1, Pop, ZenonT(30)
  <2> QED
    BY <2>1
<1> HIDE DEF New
<1>9. Marks(mods, prs, ev2, ImportedOf(t), EvaluatingOf(t))
  <2>1. ev2 = ev \union New
    BY DEF New
  <2> QED
    BY <1>1, <1>5, <1>8, <2>1 DEF Marks
<1>10. Resolved(sp, prs, res, nss, cr, ResolvingOf(t), Waiting(t), Native(t))
       /\ Registered(prs, reg, ld, Missing(t))
  BY ONLY <1>1, <1>6 DEF Resolved, Registered
<1> QED
  BY ONLY <1>1, <1>4, <1>7, <1>9, <1>10 DEF Full

LEMMA PopPlain ==
    ASSUME NEW sp, NEW mods, NEW prs, NEW mt, NEW ev, NEW res, NEW nss, NEW cr, NEW reg, NEW ld,
           NEW s, Full(sp, mods, prs, mt, ev, res, nss, cr, reg, ld, s), s # <<>>,
           Head(s).fn \notin ImportFns \union {"import_file_on_module"},
           NEW res2, res2 = IF Head(s).fn = "resolve_namespace_object"
                            THEN res \ {Head(s).name} ELSE res
    PROVE  Full(sp, mods, prs, mt, ev, res2, nss, cr, reg, ld, Tail(s))
<1> DEFINE x == Head(s)
           r == Tail(s)
<1>1. /\ Known(sp, mods, prs, mt) /\ Marks(mods, prs, ev, ImportedOf(s), EvaluatingOf(s))
      /\ Resolved(sp, prs, res, nss, cr, ResolvingOf(s), Waiting(s), Native(s))
      /\ Registered(prs, reg, ld, Missing(s)) /\ Chained(s) /\ Apart(s)
  BY DEF Full
<1>2. /\ Chained(r) /\ Apart(r) /\ r \in Seq(Frames)
      /\ ImportedOf(s) = Own(x) \union ImportedOf(r)
      /\ EvaluatingOf(s) = EvaluatingOf(r) \union
            (IF r # <<>> /\ x.fn = "import_file_on_module" THEN Own(Head(r)) ELSE {})
      /\ ResolvingOf(s) = Space(x) \union ResolvingOf(r)
      /\ x.fn = "resolve_namespace_object" => ~Resolves(r, x.name)
      /\ Waiting(r) => Waiting(s)
      /\ Native(s) <=> IsNative(x) \/ Native(r)
      /\ ~Missing(r)
  BY <1>1, Pop
<1>3. /\ x.fn \notin ImportFns \union {"import_file_on_module"}
      /\ res2 = IF x.fn = "resolve_namespace_object" THEN res \ {x.name} ELSE res
  OBVIOUS
<1> HIDE DEF x, r, Full
<1>4. ImportedOf(r) = ImportedOf(s) /\ EvaluatingOf(r) = EvaluatingOf(s) /\ (Native(s) <=> Native(r))
  BY <1>2, <1>3 DEF Own, IsNative, ImportFns
<1>5. Resolved(sp, prs, res2, nss, cr, ResolvingOf(r), Waiting(r), Native(r))
  <2>1. ASSUME NEW name, NEW ns, <<name, ns>> \in ResolvingOf(r)
        PROVE  name \in res2 /\ nss[name] = ns
    <3>1. name \in res /\ nss[name] = ns
      BY <1>1, <1>2, <2>1 DEF Resolved
    <3>2. x.fn = "resolve_namespace_object" => name # x.name
      BY <1>2, <2>1, ResolvingNames
    <3> QED
      BY <1>3, <3>1, <3>2
  <2>2. res2 \subseteq res
    BY <1>3
  <2>3. SpacesTyped(res2, nss, cr)
    BY <1>1, <2>2 DEF Resolved, SpacesTyped
  <2>4. cr = 0 /\ res = {} => cr = 0 /\ res2 = {}
    BY <2>2
  <2> QED
    BY <1>1, <1>2, <1>4, <2>1, <2>3, <2>4 DEF Resolved
<1>6. Registered(prs, reg, ld, Missing(r))
  BY <1>1, <1>2 DEF Registered
<1>7. Marks(mods, prs, ev, ImportedOf(r), EvaluatingOf(r))
  BY <1>1, <1>4
<1> QED
  BY ONLY <1>1, <1>2, <1>5, <1>6, <1>7 DEF Full, r

-----------------------------------------------------------------------------
(* An import ends: of the calls s, those from r on are left.               *)
Leaves(s, r, o) ==
    /\ Chained(r) /\ Apart(r)
    /\ ImportedOf(s) = {o} \union ImportedOf(r) /\ o \notin ImportedOf(r)
    /\ EvaluatingOf(r) = EvaluatingOf(s) \ {o}
    /\ ResolvingOf(r) = ResolvingOf(s)
    /\ Waiting(r) => Waiting(s)
    /\ ~Missing(r)
    /\ r # <<>> /\ Head(r).fn = "resolve_namespace_object" /\ Head(r).step = "overrides" =>
            o = <<Root, overrides>>

(* What becomes of its mark, its property and its value.                   *)
Ends(mods, prs, ev, reg, s, r, o, mods2, prs2, reg2, value) ==
    /\ \/ MarkedIn(mods2) = MarkedIn(mods) /\ DOMAIN prs2 = DOMAIN prs \union {o}
       \/ MarkedIn(mods2) = MarkedIn(mods) \ {o} /\ o \notin ev /\ prs2 = prs
       \/ MarkedIn(mods2) = MarkedIn(mods) /\ o \in ev /\ prs2 = prs
    /\ Native(s) => Native(r) \/ <<Root, gi>> \in DOMAIN prs2
    /\ reg2 \in BOOLEAN /\ (reg => reg2)
    /\ o = <<Root, cairoNative>> /\ o \in DOMAIN prs2 => reg2
    /\ value = "importer" => o \in DOMAIN prs2 /\ prs2[o] = "importer"

LEMMA Leave ==
    ASSUME NEW sp, NEW mods, NEW prs, NEW mt, NEW ev, NEW res, NEW nss, NEW cr, NEW reg, NEW ld,
           NEW s, Full(sp, mods, prs, mt, ev, res, nss, cr, reg, ld, s),
           NEW r, NEW o, Leaves(s, r, o),
           NEW sp2, NEW mods2, NEW prs2, NEW mt2, NEW reg2, NEW value,
           Known(sp2, mods2, prs2, mt2), DOMAIN sp \subseteq DOMAIN sp2,
           Ends(mods, prs, ev, reg, s, r, o, mods2, prs2, reg2, value),
           NEW t, t = Returned(r, value)
    PROVE  Full(sp2, mods2, prs2, mt2, ev, res, nss, cr, reg2, ld, t)
<1>0. /\ \/ MarkedIn(mods2) = MarkedIn(mods) /\ DOMAIN prs2 = DOMAIN prs \union {o}
         \/ MarkedIn(mods2) = MarkedIn(mods) \ {o} /\ o \notin ev /\ prs2 = prs
         \/ MarkedIn(mods2) = MarkedIn(mods) /\ o \in ev /\ prs2 = prs
      /\ Native(s) => Native(r) \/ <<Root, gi>> \in DOMAIN prs2
      /\ reg2 \in BOOLEAN /\ (reg => reg2)
      /\ o = <<Root, cairoNative>> /\ o \in DOMAIN prs2 => reg2
      /\ value = "importer" => o \in DOMAIN prs2 /\ prs2[o] = "importer"
  BY DEF Ends
<1>1. /\ Known(sp, mods, prs, mt) /\ Marks(mods, prs, ev, ImportedOf(s), EvaluatingOf(s))
      /\ Resolved(sp, prs, res, nss, cr, ResolvingOf(s), Waiting(s), Native(s))
      /\ Registered(prs, reg, ld, Missing(s))
  BY DEF Full
<1>2. /\ Chained(t) /\ Apart(t)
      /\ ImportedOf(t) = ImportedOf(r) /\ EvaluatingOf(t) = EvaluatingOf(r)
      /\ ResolvingOf(t) = ResolvingOf(r)
      /\ Waiting(t) => \/ Waiting(r)
                       \/ /\ r # <<>> /\ Head(r).fn = "resolve_namespace_object"
                          /\ Head(r).step = "overrides" /\ value = "importer"
      /\ Native(t) <=> Native(r)
      /\ Missing(t) <=> Missing(r)
  BY Answered DEF Leaves
<1>3. Marks(mods2, prs2, ev, ImportedOf(t), EvaluatingOf(t))
  <2>1. /\ ImportedOf(s) = {o} \union ImportedOf(t) /\ o \notin ImportedOf(t)
        /\ EvaluatingOf(t) = EvaluatingOf(s) \ {o}
    BY ONLY <1>2, Leaves(s, r, o) DEF Leaves
  <2>2. CASE MarkedIn(mods2) = MarkedIn(mods) /\ DOMAIN prs2 = DOMAIN prs \union {o}
    BY ONLY <1>1, <2>1, <2>2 DEF Marks
  <2>3. CASE MarkedIn(mods2) = MarkedIn(mods) \ {o} /\ o \notin ev /\ prs2 = prs
    BY ONLY <1>1, <2>1, <2>3 DEF Marks
  <2>4. CASE MarkedIn(mods2) = MarkedIn(mods) /\ o \in ev /\ prs2 = prs
    BY ONLY <1>1, <2>1, <2>4 DEF Marks
  <2> QED
    BY <1>0, <2>2, <2>3, <2>4
<1>4. DOMAIN prs \subseteq DOMAIN prs2 /\ DOMAIN prs2 \subseteq DOMAIN prs \union {o}
  BY ONLY <1>0
<1>5. Resolved(sp2, prs2, res, nss, cr, ResolvingOf(t), Waiting(t), Native(t))
  <2>1. Waiting(r) => <<overrides>> \in DOMAIN sp2
    BY <1>1 DEF Resolved, Leaves
  <2>2. ASSUME r # <<>>, Head(r).fn = "resolve_namespace_object", Head(r).step = "overrides",
               value = "importer"
        PROVE  <<overrides>> \in DOMAIN sp2
    <3>1. o = <<Root, overrides>> /\ o \in DOMAIN prs2 /\ prs2[o] = "importer"
      BY <1>0, <2>2 DEF Leaves
    <3>2. Append(Root, overrides) \in DOMAIN sp2
      BY <3>1 DEF Known
    <3> QED
      BY <3>2 DEF Root
  <2>3. ResolvingOf(t) = ResolvingOf(s)
    BY <1>2 DEF Leaves
  <2>4. (cr = 0 /\ res = {}) \/ <<Root, gi>> \in DOMAIN prs2 \/ Native(t)
    BY <1>0, <1>1, <1>2, <1>4 DEF Resolved
  <2> QED
    BY ONLY <1>1, <1>2, <2>1, <2>2, <2>3, <2>4 DEF Resolved
<1>6. Registered(prs2, reg2, ld, Missing(t))
  <2>1. ~Missing(t)
    BY <1>2 DEF Leaves
  <2>2. <<Root, cairoNative>> \in DOMAIN prs2 => reg2
    BY <1>0, <1>1, <1>4 DEF Registered
  <2> QED
    BY <1>0, <1>1, <2>1, <2>2 DEF Registered
<1> QED
  BY ONLY <1>2, <1>3, <1>5, <1>6, Known(sp2, mods2, prs2, mt2) DEF Full

LEMMA TopImport ==
    ASSUME NEW sp, NEW mods, NEW prs, NEW mt, NEW ev, NEW res, NEW nss, NEW cr, NEW reg, NEW ld,
           NEW s, Full(sp, mods, prs, mt, ev, res, nss, cr, reg, ld, s), s # <<>>,
           NEW f, f = Head(s), f.fn \in ImportFns, NEW o, o = <<f.importer, f.name>>
    PROVE  /\ Leaves(s, Tail(s), o) /\ f \in Imports /\ FrameOK(f)
           /\ o \notin ev /\ o \notin DOMAIN prs /\ o \in MarkedIn(mods)
           /\ Native(s) <=> IsNative(f) \/ Native(Tail(s))
           /\ IsNative(f) => ~Native(Tail(s)) /\ f.importer = Root /\ f.name = gi
<1> DEFINE r == Tail(s)
<1>1. /\ Known(sp, mods, prs, mt) /\ Marks(mods, prs, ev, ImportedOf(s), EvaluatingOf(s))
      /\ Chained(s) /\ Apart(s)
  BY DEF Full
<1>2. /\ Chained(r) /\ Apart(r) /\ r \in Seq(Frames) /\ f \in Frames /\ FrameOK(f)
      /\ r # <<>> => Above(f, Head(r))
      /\ ImportedOf(s) = Own(f) \union ImportedOf(r) /\ Own(f) \intersect ImportedOf(r) = {}
      /\ EvaluatingOf(s) = EvaluatingOf(r) \union
           (IF r # <<>> /\ f.fn = "import_file_on_module" THEN Own(Head(r)) ELSE {})
      /\ EvaluatingOf(s) \subseteq ImportedOf(r)
      /\ ResolvingOf(s) = Space(f) \union ResolvingOf(r)
      /\ Waiting(r) => Waiting(s)
      /\ Native(s) <=> IsNative(f) \/ Native(r)
      /\ ~Missing(r)
  BY <1>1, Pop
<1>3. f.fn \in ImportFns /\ o = <<f.importer, f.name>>
  OBVIOUS
<1> HIDE DEF r, Full
<1>4. Own(f) = {o} /\ Space(f) = {} /\ f.fn # "import_file_on_module"
  BY <1>3 DEF Own, Space, ImportFns
<1>5. f \in Imports
  BY <1>2, <1>3 DEF Frames, ImportFns, Enumerations, Evaluations, Resolutions, Overrides, Lookups
<1>6. Leaves(s, r, o)
  <2>1. o \notin ImportedOf(r) /\ EvaluatingOf(s) = EvaluatingOf(r) /\ o \notin EvaluatingOf(s)
    BY ONLY <1>2, <1>4
  <2>2. r # <<>> /\ Head(r).fn = "resolve_namespace_object" /\ Head(r).step = "overrides" =>
            o = <<Root, overrides>>
    BY ONLY <1>2, <1>3, <1>4 DEF Above
  <2> QED
    BY ONLY <1>2, <1>4, <2>1, <2>2 DEF Leaves
<1>7. o \notin ev /\ o \notin DOMAIN prs /\ o \in MarkedIn(mods)
  BY ONLY <1>1, <1>2, <1>4 DEF Marks
<1>8. ASSUME IsNative(f) PROVE ~Native(r) /\ f.importer = Root /\ f.name = gi
  <2>1. f.importer = Root /\ f.name = gi
    BY <1>2, <1>8 DEF FrameOK, IsNative
  <2>2. ASSUME NEW k \in 1..Len(r), IsNative(r[k]) PROVE FALSE
    <3>1. FrameOK(r[k])
      BY <1>2 DEF Chained
    <3>2. Own(r[k]) = {o}
      BY <1>3, <2>1, <2>2, <3>1 DEF FrameOK, IsNative, Own, ImportFns
    <3>3. o \in ImportedOf(r)
      BY <3>2 DEF ImportedOf
    <3> QED
      BY <1>2, <1>4, <3>3
  <2> QED
    BY <2>1, <2>2 DEF Native
<1> QED
  BY ONLY <1>2, <1>5, <1>6, <1>7, <1>8 DEF r

LEMMA UnderFile ==
    ASSUME NEW sp, NEW mods, NEW prs, NEW mt, NEW ev, NEW res, NEW nss, NEW cr, NEW reg, NEW ld,
           NEW s, Full(sp, mods, prs, mt, ev, res, nss, cr, reg, ld, s), s # <<>>,
           Head(s).fn = "import_file_on_module",
           NEW f, f = s[2], NEW o, o = <<f.importer, f.name>>
    PROVE  /\ Leaves(s, Tail(Tail(s)), o) /\ f \in Imports /\ FrameOK(f)
           /\ o \in ev /\ o \notin DOMAIN prs /\ o \in MarkedIn(mods)
           /\ Native(s) <=> Native(Tail(Tail(s)))
           /\ Evaluating(Head(s), f) /\ Len(s) > 1
<1> DEFINE q == Tail(s)
           r == Tail(q)
           a == Head(s)
<1>1. /\ Known(sp, mods, prs, mt) /\ Marks(mods, prs, ev, ImportedOf(s), EvaluatingOf(s))
      /\ Chained(s) /\ Apart(s)
  BY DEF Full
<1>2. /\ Chained(q) /\ Apart(q) /\ q \in Seq(Frames)
      /\ q = <<>> => Alone(a)
      /\ q # <<>> => Above(a, Head(q))
      /\ ImportedOf(s) = Own(a) \union ImportedOf(q)
      /\ EvaluatingOf(s) = EvaluatingOf(q) \union
           (IF q # <<>> /\ a.fn = "import_file_on_module" THEN Own(Head(q)) ELSE {})
      /\ ResolvingOf(s) = Space(a) \union ResolvingOf(q)
      /\ Waiting(q) => Waiting(s)
      /\ Native(s) <=> IsNative(a) \/ Native(q)
  BY <1>1, Pop
<1>3. a.fn = "import_file_on_module"
  OBVIOUS
<1>4. q # <<>>
  BY ONLY <1>2, <1>3 DEF Alone
<1>5. f = Head(q) /\ Len(s) > 1
  <2>1. s \in Seq(Frames)
    BY <1>1 DEF Chained
  <2> HIDE DEF Full
  <2>2. Len(q) = Len(s) - 1 /\ \A k \in 1..(Len(s) - 1) : q[k] = s[k + 1]
    BY <2>1, Uncons
  <2>3. Len(q) > 0 /\ Head(q) = q[1]
    BY <1>2, <1>4, Uncons
  <2> HIDE DEF q
  <2>4. Len(s) \in Nat
    BY <2>1
  <2> QED
    BY ONLY <2>2, <2>3, <2>4, f = s[2]
<1>6. /\ Chained(r) /\ Apart(r) /\ r \in Seq(Frames) /\ FrameOK(f)
      /\ r # <<>> => Above(f, Head(r))
      /\ ImportedOf(q) = Own(f) \union ImportedOf(r) /\ Own(f) \intersect ImportedOf(r) = {}
      /\ EvaluatingOf(q) = EvaluatingOf(r) \union
           (IF r # <<>> /\ f.fn = "import_file_on_module" THEN Own(Head(r)) ELSE {})
      /\ EvaluatingOf(q) \subseteq ImportedOf(r)
      /\ ResolvingOf(q) = Space(f) \union ResolvingOf(r)
      /\ Waiting(r) => Waiting(q)
      /\ Native(q) <=> IsNative(f) \/ Native(r)
      /\ ~Missing(r) /\ f \in Frames
  <2> DEFINE g == Head(q)
  <2> HIDE DEF q
  <2>1. /\ Chained(r) /\ Apart(r) /\ r \in Seq(Frames) /\ FrameOK(g)
        /\ r # <<>> => Above(g, Head(r))
        /\ ImportedOf(q) = Own(g) \union ImportedOf(r) /\ Own(g) \intersect ImportedOf(r) = {}
        /\ EvaluatingOf(q) = EvaluatingOf(r) \union
             (IF r # <<>> /\ g.fn = "import_file_on_module" THEN Own(Head(r)) ELSE {})
        /\ EvaluatingOf(q) \subseteq ImportedOf(r)
        /\ ResolvingOf(q) = Space(g) \union ResolvingOf(r)
        /\ Waiting(r) => Waiting(q)
        /\ Native(q) <=> IsNative(g) \/ Native(r)
        /\ ~Missing(r) /\ g \in Frames
    BY ONLY <1>2, <1>4, Pop
  <2>2. f = g
    BY <1>5
  <2> HIDE DEF g, r
  <2> QED
    BY ONLY <2>1, <2>2
<1>7. o = <<f.importer, f.name>>
  OBVIOUS
<1> HIDE DEF q, r, a, Full
<1>8. Evaluating(a, f) /\ f.fn = "do_import"
  BY ONLY <1>2, <1>3, <1>4, <1>5 DEF Above, Evaluating
<1>9. /\ Own(a) = {} /\ Space(a) = {} /\ ~IsNative(a)
      /\ Own(f) = {o} /\ Space(f) = {} /\ ~IsNative(f)
  BY <1>3, <1>7, <1>8 DEF Own, Space, IsNative, ImportFns
<1>10. f \in Imports
  BY <1>6, <1>8 DEF Frames, Enumerations, Evaluations, Resolutions, Overrides, Lookups
<1>11. /\ ImportedOf(s) = {o} \union ImportedOf(r) /\ o \notin ImportedOf(r)
       /\ EvaluatingOf(s) = EvaluatingOf(r) \union {o} /\ o \notin EvaluatingOf(r)
  <2>1. ImportedOf(s) = {o} \union ImportedOf(r) /\ o \notin ImportedOf(r)
    BY ONLY <1>2, <1>6, <1>9
  <2>2. EvaluatingOf(q) = EvaluatingOf(r) /\ EvaluatingOf(s) = EvaluatingOf(q) \union {o}
    BY ONLY <1>2, <1>3, <1>4, <1>5, <1>6, <1>8, <1>9
  <2> QED
    BY ONLY <1>6, <2>1, <2>2
<1>12. Leaves(s, r, o)
  <2>1. r # <<>> /\ Head(r).fn = "resolve_namespace_object" /\ Head(r).step = "overrides" =>
            o = <<Root, overrides>>
    <3>1. f.fn \in ImportFns
      BY <1>8 DEF ImportFns
    <3> QED
      BY ONLY <1>6, <1>9, <3>1 DEF Above
  <2>2. ResolvingOf(r) = ResolvingOf(s)
    BY ONLY <1>2, <1>6, <1>9
  <2> QED
    BY ONLY <1>2, <1>6, <1>11, <2>1, <2>2 DEF Leaves
<1>13. o \in ev /\ o \notin DOMAIN prs /\ o \in MarkedIn(mods)
  BY ONLY <1>1, <1>11 DEF Marks
<1> QED
  BY ONLY <1>2, <1>5, <1>6, <1>8, <1>9, <1>10, <1>12, <1>13 DEF r, q, a

-----------------------------------------------------------------------------
(* The innermost frame goes on.                                            *)
LEMMA Replaced ==
    ASSUME NEW sp, NEW mods, NEW prs, NEW mt, NEW ev, NEW res, NEW nss, NEW cr, NEW reg, NEW ld,
           NEW s, Full(sp, mods, prs, mt, ev, res, nss, cr, reg, ld, s), s # <<>>,
           NEW x, FrameOK(x), GoesOn(Head(s), x),
           IsWaiting(x) => Waiting(s) \/ <<overrides>> \in DOMAIN sp,
           IsNative(Head(s)) => IsNative(x), IsMissing(x) => ~reg /\ ld,
           NEW t, t = <<x>> \o Tail(s)
    PROVE  /\ Full(sp, mods, prs, mt, ev, res, nss, cr, reg, ld, t)
           /\ t # <<>> /\ Head(t) = x /\ Tail(t) = Tail(s) /\ (Native(t) <=> IsNative(x) \/ Native(Tail(s)))
<1>1. Chained(s) /\ Apart(s)
  BY DEF Full
<1>2. Native(s) <=> IsNative(Head(s)) \/ Native(Tail(s))
  BY <1>1, Pop
<1>3. /\ Chained(t) /\ Apart(t) /\ t # <<>> /\ Head(t) = x /\ Tail(t) = Tail(s)
      /\ ImportedOf(t) = ImportedOf(s) /\ EvaluatingOf(t) = EvaluatingOf(s)
      /\ ResolvingOf(t) = ResolvingOf(s)
      /\ Waiting(t) => IsWaiting(x) \/ Waiting(s)
      /\ Native(t) <=> IsNative(x) \/ Native(Tail(s))
      /\ Missing(t) <=> IsMissing(x)
  BY <1>1, Swap
<1>4. Full(sp, mods, prs, mt, ev, res, nss, cr, reg, ld, t)
  BY <1>2, <1>3, StackStep
<1> QED
  BY <1>3, <1>4

LEMMA TopReplaced ==
    ASSUME NEW S, NEW s \in Seq(S), s # <<>>, NEW x \in S, NEW t, t = [s EXCEPT ![1] = x]
    PROVE  t = <<x>> \o Tail(s)
<1> DEFINE u == <<x>> \o Tail(s)
<1>1. /\ Len(s) \in Nat /\ Len(s) > 0 /\ Tail(s) \in Seq(S) /\ Len(Tail(s)) = Len(s) - 1
      /\ \A k \in 1..(Len(s) - 1) : Tail(s)[k] = s[k + 1]
  BY Uncons
<1>2. t \in Seq(S) /\ Len(t) = Len(s)
  BY <1>1
<1>3. u \in Seq(S) /\ Len(u) = 1 + Len(Tail(s))
  BY <1>1
<1>4. ASSUME NEW k \in 1..Len(s) PROVE t[k] = u[k]
  <2>1. CASE k = 1
    BY <1>1, <2>1
  <2>2. CASE k # 1
    <3>1. k - 1 \in 1..(Len(s) - 1) /\ (k - 1) + 1 = k /\ k \in 2..Len(s)
      BY <1>1, <2>2
    <3>2. u[k] = Tail(s)[k - 1]
      BY <1>1, <3>1
    <3>3. Tail(s)[k - 1] = s[k]
      BY <1>1, <3>1
    <3> QED
      BY <2>2, <3>2, <3>3
  <2> QED
    BY <2>1, <2>2
<1>5. Len(t) = Len(u)
  BY <1>1, <1>2, <1>3
<1> HIDE DEF u
<1>6. t = u
  <2>1. u \in Seq(S) /\ t \in Seq(S)
    BY <1>2, <1>3
  <2>2. \A k \in 1..Len(t) : t[k] = u[k]
    BY <1>2, <1>4
  <2> QED
    BY ONLY <1>5, <2>1, <2>2, SeqEqual
<1> QED
  BY <1>6 DEF u

-----------------------------------------------------------------------------
(* The steps.                                                              *)
Now  == Full(searchPath, modules, props, meta, evaluated, resolving, namespaces, created,
             registered, loaded, stack)
Then == Full(searchPath', modules', props', meta', evaluated', resolving', namespaces', created',
             registered', loaded', stack')

(* With callers on the stack instead.                                      *)
With(callers) == Full(searchPath, modules, props, meta, evaluated, resolving, namespaces, created,
                      registered, loaded, callers)

LEMMA TopOf ==
    ASSUME Now, stack # <<>>
    PROVE  /\ stack \in Seq(Frames) /\ Chained(stack) /\ Apart(stack)
           /\ FrameOK(Top) /\ Top \in Frames /\ stack[1] = Top /\ Len(stack) \in Nat
<1>1. stack \in Seq(Frames) /\ Chained(stack) /\ Apart(stack)
  BY DEF Now, Full, Chained
<1>2. FrameOK(Top) /\ Top \in Frames
  BY <1>1, Pop DEF Top
<1>3. stack[1] = Top /\ Len(stack) \in Nat
  BY <1>1 DEF Top
<1> QED
  BY <1>1, <1>2, <1>3

LEMMA ReplacedTop ==
    ASSUME Now, stack # <<>>, NEW x, FrameOK(x), GoesOn(Top, x),
           IsWaiting(x) => Waiting(stack), IsNative(Top) => IsNative(x),
           IsMissing(x) => ~registered /\ loaded,
           NEW t, t = <<x>> \o Tail(stack) \/ t = [stack EXCEPT ![1] = x]
    PROVE  /\ With(t) /\ t # <<>> /\ Head(t) = x /\ Tail(t) = Tail(stack)
           /\ Native(t) <=> IsNative(x) \/ Native(Tail(stack))
<1>1. stack \in Seq(Frames)
  BY TopOf
<1>2. t = <<x>> \o Tail(stack)
  BY <1>1, TopReplaced DEF FrameOK
<1>3. With(stack) /\ GoesOn(Head(stack), x) /\ (IsNative(Head(stack)) => IsNative(x))
  BY DEF Now, With, Top
<1>4. With(t)
  BY <1>2, <1>3, Replaced DEF With
<1>5. /\ t # <<>> /\ Head(t) = x /\ Tail(t) = Tail(stack)
      /\ Native(t) <=> IsNative(x) \/ Native(Tail(stack))
  <2>1. Chained(stack) /\ Apart(stack) /\ FrameOK(x)
    BY TopOf
  <2> QED
    BY ONLY <1>2, <1>3, <2>1, stack # <<>>, Swap
<1> QED
  BY <1>4, <1>5

LEMMA GetStep ==
    ASSUME NEW c, With(c), NEW p \in DOMAIN searchPath, NEW name \in Names,
           c # <<>> => Above(Import(p, name), Head(c)), importer_get_property(p, name, c)
    PROVE  Then
<1>1. /\ \/ /\ name \in modules[p] /\ modules' = modules
            /\ stack' = Returned(c, IF <<p, name>> \in DOMAIN props
                                    THEN props[<<p, name>>] ELSE "undefined")
         \/ /\ name \notin modules[p]
            /\ modules' = [modules EXCEPT ![p] = @ \union {name}]
            /\ stack' = <<Import(p, name)>> \o c
      /\ UNCHANGED <<searchPath, props, meta, evaluated, repoVars>>
  BY DEF importer_get_property
<1>2. Full(searchPath, modules', props, meta, evaluated, resolving, namespaces, created,
           registered, loaded, stack')
  BY <1>1, Get DEF With, Import
<1> QED
  BY <1>1, <1>2 DEF Then, repoVars, foreignVars

LEMMA AboveOther ==
    ASSUME NEW p, NEW name, NEW b,
           b.fn \notin ImportFns,
           b.fn = "gwkjs_struct_foreign_lookup" => b.step = "load",
           b.fn = "resolve_namespace_object" /\ b.step = "overrides" =>
                <<p, name>> = <<Root, overrides>>
    PROVE  Above(Import(p, name), b)
  BY DEF Above, Import, Own, ImportFns

LEMMA LookupOverrideStep ==
    ASSUME Now, lookup_override_function PROVE Then
<1>1. stack # <<>> /\ Top.fn = "resolve_namespace_object"
  BY DEF lookup_override_function, Runs
<1>2. Top \in Frames /\ stack \in Seq(Frames) /\ With(stack) /\ Top = Head(stack) /\ stack[1] = Top
      /\ Len(stack) \in Nat
  BY <1>1, TopOf DEF Now, With, Top
<1>3. Top \in Resolutions
  BY <1>1, <1>2 DEF Frames, Imports, Enumerations, Evaluations, Overrides, Lookups
<1>4. Top.name \in Names /\ overrides \in Names
  BY <1>3, ImportsAssumption DEF Resolutions
<1>5. CASE Top.step = "overrides" /\ importer_get_property(Root, overrides, stack)
  <2>1. Root \in DOMAIN searchPath
    BY DEF Now, Full, Known
  <2>2. Above(Import(Root, overrides), Top)
    BY <1>1, <1>5, AboveOther DEF ImportFns
  <2> QED
    BY <1>2, <1>4, <1>5, <2>1, <2>2, GetStep
<1>6. CASE Top.step = "module" /\ importer_get_property(<<overrides>>, Top.name, stack)
  <2>1. Waiting(stack)
    <3>1. 1 \in 1..Len(stack)
      BY <1>1, <1>2
    <3>2. IsWaiting(stack[1])
      BY <1>1, <1>2, <1>6 DEF IsWaiting
    <3> QED
      BY <3>1, <3>2 DEF Waiting
  <2>2. <<overrides>> \in DOMAIN searchPath
    BY <2>1 DEF Now, Full, Resolved
  <2>3. Above(Import(<<overrides>>, Top.name), Top)
    BY <1>1, <1>6, AboveOther DEF ImportFns
  <2> QED
    BY <1>2, <1>4, <1>6, <2>2, <2>3, GetStep
<1> QED
  BY <1>5, <1>6 DEF lookup_override_function

UserFns == {"import_file_on_module", "load_module_init", "override"}

LEMMA PathsTyped ==
    ASSUME NEW c, With(c)
    PROVE  /\ DOMAIN searchPath \subseteq Seq(Names) /\ Root \in DOMAIN searchPath
           /\ searchPath \in [DOMAIN searchPath -> Seq(Directories)]
           /\ created \in 0..MaxNamespaces /\ {registered, loaded} \subseteq BOOLEAN
  BY DEF With, Full, Known, Resolved, SpacesTyped, Registered

(* A plain frame is pushed.                                                *)
LEMMA PlainStep ==
    ASSUME NEW c, With(c), NEW x, FrameOK(x), Plain(x), ~IsMissing(x),
           c = <<>> => Alone(x), c # <<>> => Above(x, Head(c)), x.fn # "import_file_on_module",
           stack' = <<x>> \o c, UNCHANGED <<importerVars, repoVars>>
    PROVE  Then
<1>1. evaluated' = evaluated \union
        (IF c # <<>> /\ x.fn = "import_file_on_module" THEN Own(Head(c)) ELSE {})
  BY DEF importerVars
<1>2. Full(searchPath, modules, props, meta, evaluated', resolving, namespaces, created,
           registered, loaded, stack')
  BY <1>1, PushPlain DEF With
<1> QED
  BY <1>2 DEF Then, importerVars, repoVars, foreignVars

LEMMA ResolveStep ==
    ASSUME NEW c, With(c), NEW name \in Namespaces, name \notin resolving,
           created < MaxNamespaces, <<Root, gi>> \in DOMAIN props \/ Native(c),
           c # <<>> => Head(c).fn \in UserFns \/ IsNative(Head(c)),
           Resolve(name, c), UNCHANGED importerVars
    PROVE  Then
<1> DEFINE x == [fn |-> "resolve_namespace_object", name |-> name, ns |-> created + 1,
                 step |-> "overrides"]
<1>1. /\ created' = created + 1 /\ resolving' = resolving \union {name}
      /\ namespaces' = [namespaces EXCEPT ![name] = created + 1]
      /\ stack' = <<x>> \o c /\ UNCHANGED foreignVars
  BY DEF Resolve
<1>2. c # <<>> => Above(x, Head(c))
  BY DEF Above, UserFns, IsNative, Own, ImportFns
<1>3. Full(searchPath, modules, props, meta, evaluated, resolving', namespaces', created + 1,
           registered, loaded, stack')
  BY <1>1, <1>2, PushResolution DEF With
<1> QED
  BY <1>1, <1>3 DEF Then, importerVars, foreignVars

LEMMA UsesStep ==
    ASSUME NEW c, With(c), c # <<>> => Head(c).fn \in UserFns, Uses(c)
    PROVE  Then
<1>1. ASSUME NEW p \in DOMAIN searchPath, NEW name \in Names, importer_get_property(p, name, c)
      PROVE  Then
  <2>1. c # <<>> => Above(Import(p, name), Head(c))
    BY AboveOther DEF UserFns, ImportFns
  <2> QED
    BY <1>1, <2>1, GetStep
<1>2. ASSUME created < MaxNamespaces, NEW name \in Namespaces, repo_get_property(name, c)
      PROVE  Then
  BY <1>2, ResolveStep DEF repo_get_property
<1>3. ASSUME NEW p \in DOMAIN searchPath,
             stack' = <<[fn |-> "importer_new_enumerate", path |-> searchPath[p], at |-> 1]>> \o c,
             UNCHANGED <<importerVars, repoVars>>
      PROVE  Then
  <2> DEFINE x == [fn |-> "importer_new_enumerate", path |-> searchPath[p], at |-> 1]
  <2>1. x \in Enumerations /\ x.fn = "importer_new_enumerate"
    BY PathsTyped DEF Enumerations
  <2>2. FrameOK(x) /\ Plain(x) /\ ~IsMissing(x) /\ Alone(x)
    BY <2>1 DEF FrameOK, Frames, Plain, IsMissing, Alone, ImportFns
  <2>3. c # <<>> => Above(x, Head(c))
    BY <2>1 DEF Above, UserFns, ImportFns
  <2> QED
    BY <1>3, <2>1, <2>2, <2>3, PlainStep
<1>4. ASSUME NEW path \in SearchPaths, searchPath' = [searchPath EXCEPT ![Root] = path],
             stack' = c, UNCHANGED <<modules, props, meta, evaluated, repoVars>>
      PROVE  Then
  <2>1. path \in Seq(Directories)
    BY ImportsAssumption
  <2>2. /\ DOMAIN searchPath' = DOMAIN searchPath
        /\ searchPath' \in [DOMAIN searchPath' -> Seq(Directories)]
    BY <1>4, <2>1, PathsTyped
  <2>3. Known(searchPath, modules, props, meta)
    BY DEF With, Full
  <2>4. Known(searchPath', modules, props, meta)
    BY ONLY <2>2, <2>3 DEF Known
  <2>5. Resolved(searchPath', props, resolving, namespaces, created, ResolvingOf(c), Waiting(c),
                 Native(c))
    BY <2>2 DEF With, Full, Resolved
  <2>6. Full(searchPath', modules, props, meta, evaluated, resolving, namespaces, created,
             registered, loaded, c)
    BY <2>4, <2>5 DEF With, Full
  <2> QED
    BY <1>4, <2>6 DEF Then, repoVars, foreignVars
<1>5. ASSUME gwkjs_struct_foreign_lookup(c) PROVE Then
  <2> DEFINE x == [fn |-> "gwkjs_struct_foreign_lookup",
                   step |-> IF registered THEN "found" ELSE "lookup"]
  <2>1. /\ x \in Lookups /\ x.fn = "gwkjs_struct_foreign_lookup" /\ x.step # "missing"
        /\ stack' = <<x>> \o c /\ UNCHANGED <<importerVars, repoVars>>
    BY <1>5 DEF Lookups, gwkjs_struct_foreign_lookup
  <2> HIDE DEF x
  <2>2. FrameOK(x) /\ Plain(x) /\ ~IsMissing(x) /\ Alone(x)
    BY <2>1 DEF FrameOK, Frames, Plain, IsMissing, Alone, ImportFns
  <2>3. c # <<>> => Above(x, Head(c))
    BY <2>1 DEF Above, UserFns, ImportFns
  <2> QED
    BY <2>1, <2>2, <2>3, PlainStep
<1> QED
  BY <1>1, <1>2, <1>3, <1>4, <1>5 DEF Uses

(* What it does in circles is among what it may do anywhere.               *)
LEMMA UserUses ==
    ASSUME User
    PROVE  \/ stack = <<>> /\ Uses(<<>>)
           \/ RunsJavaScript /\ Uses([stack EXCEPT ![1].uses = @ + 1]) /\ Top.uses < MaxUses
<1>1. ASSUME NEW c, Circles(c) PROVE Uses(c)
  BY <1>1 DEF Circles, Uses
<1> QED
  BY <1>1 DEF User

LEMMA UserStep ==
    ASSUME Now, User PROVE Then
<1>1. CASE stack = <<>> /\ Uses(<<>>)
  <2>1. With(<<>>)
    BY <1>1 DEF Now, With
  <2> QED
    BY <1>1, <2>1, UsesStep
<1>2. CASE RunsJavaScript /\ Uses([stack EXCEPT ![1].uses = @ + 1]) /\ Top.uses < MaxUses
  <2> DEFINE x == [Top EXCEPT !.uses = @ + 1]
             c == [stack EXCEPT ![1].uses = @ + 1]
  <2>1. stack # <<>> /\ Top.fn \in UserFns
    BY <1>2 DEF RunsJavaScript, Runs, UserFns
  <2>2. Top \in Frames /\ stack[1] = Top /\ FrameOK(Top)
    BY <2>1, TopOf
  <2>3. Top \in Evaluations \union Overrides
    BY <2>1, <2>2 DEF Frames, UserFns, Imports, Enumerations, Resolutions, Lookups
  <2>4. Top.uses + 1 \in 0..MaxUses
    BY <1>2, <2>3, ImportsAssumption DEF Evaluations, Overrides
  <2>5. /\ x \in Evaluations \union Overrides /\ x.fn = Top.fn
        /\ Top.fn # "override" => x.dir = Top.dir
    BY <2>3, <2>4 DEF Evaluations, Overrides
  <2>6. c = [stack EXCEPT ![1] = x]
    BY <2>2
  <2> HIDE DEF x, c
  <2>7. FrameOK(x)
    BY <2>1, <2>5 DEF FrameOK, Frames, UserFns
  <2>8. GoesOn(Top, x)
    BY <2>1, <2>5 DEF GoesOn, Own, Space, Above, Alone, Evaluating, UserFns, ImportFns
  <2>9. ~IsWaiting(x) /\ ~IsNative(Top) /\ ~IsMissing(x)
    BY <2>1, <2>5 DEF IsWaiting, IsNative, IsMissing, UserFns
  <2>10. With(c) /\ Head(c) = x
    BY <2>1, <2>6, <2>7, <2>8, <2>9, ReplacedTop
  <2>11. Uses(c)
    BY <1>2 DEF c
  <2> QED
    BY <2>1, <2>5, <2>10, <2>11, UsesStep
<1> QED
  BY <1>1, <1>2, UserUses

(* The stack becomes t; nothing else changes.                              *)
LEMMA StackOnly ==
    ASSUME NEW t, With(t), stack' = t, UNCHANGED <<importerVars, repoVars>>
    PROVE  Then
  BY DEF With, Then, importerVars, repoVars, foreignVars

LEMMA PopStep ==
    ASSUME Now, stack # <<>>, Top.fn \in {"importer_new_enumerate", "override",
                "gwkjs_struct_foreign_lookup", "load_module_init"}
    PROVE  With(Tail(stack))
<1>1. /\ Head(stack).fn \notin ImportFns \union {"import_file_on_module"}
      /\ resolving = IF Head(stack).fn = "resolve_namespace_object"
                     THEN resolving \ {Head(stack).name} ELSE resolving
  BY DEF Top, ImportFns
<1> QED
  BY <1>1, PopPlain DEF Now, With

LEMMA CallOverrideStep ==
    ASSUME Now, call_override PROVE Then
<1> DEFINE x == [Top EXCEPT !.step = "return"]
           y == [fn |-> "override", name |-> Top.name, uses |-> 0]
           t == <<x>> \o Tail(stack)
<1>1. stack # <<>> /\ Top.fn = "resolve_namespace_object" /\ Top.step = "call"
      /\ stack' = <<y, x>> \o Tail(stack) /\ UNCHANGED <<importerVars, repoVars>>
  BY DEF call_override, Runs
<1>2. Top \in Frames /\ FrameOK(Top) /\ stack \in Seq(Frames)
  BY <1>1, TopOf
<1>3. Top \in Resolutions
  BY <1>1, <1>2 DEF Frames, Imports, Enumerations, Evaluations, Overrides, Lookups
<1>4. x \in Resolutions /\ x.fn = Top.fn /\ x.name = Top.name /\ x.ns = Top.ns /\ x.step = "return"
  BY <1>3 DEF Resolutions
<1>5. y \in Overrides /\ y.fn = "override"
  <2>1. 0 \in 0..MaxUses
    BY ImportsAssumption
  <2> QED
    BY <1>3, <2>1 DEF Overrides, Resolutions
<1> HIDE DEF x, y
<1>6. FrameOK(x) /\ FrameOK(y)
  BY <1>1, <1>4, <1>5 DEF FrameOK, Frames
<1>7. GoesOn(Top, x) /\ ~IsWaiting(x) /\ ~IsNative(Top) /\ ~IsMissing(x)
  BY <1>1, <1>4 DEF GoesOn, Own, Space, Above, Alone, Evaluating, IsWaiting, IsNative, IsMissing,
                    ImportFns
<1>8. With(t) /\ t # <<>> /\ Head(t) = x
  BY <1>1, <1>6, <1>7, ReplacedTop
<1>9. stack' = <<y>> \o t
  <2>1. Tail(stack) \in Seq(Frames)
    BY <1>1, <1>2, Uncons
  <2>2. x \in Frames /\ y \in Frames
    BY <1>4, <1>5 DEF Frames
  <2> QED
    BY <1>1, <2>1, <2>2
<1> HIDE DEF t
<1>10. Above(y, x) /\ Plain(y) /\ ~IsMissing(y) /\ Alone(y)
  BY <1>1, <1>4, <1>5 DEF Above, Plain, IsMissing, Alone, ImportFns
<1> QED
  BY ONLY <1>1, <1>5, <1>6, <1>8, <1>9, <1>10, PlainStep

LEMMA NamespaceReturnsStep ==
    ASSUME Now, repo_get_property_returns PROVE Then
<1>1. /\ stack # <<>> /\ Head(stack).fn = "resolve_namespace_object"
      /\ resolving' = resolving \ {Head(stack).name} /\ stack' = Tail(stack)
      /\ UNCHANGED <<importerVars, namespaces, created, foreignVars>>
  BY DEF repo_get_property_returns, Runs, Top
<1>2. Full(searchPath, modules, props, meta, evaluated, resolving', namespaces, created,
           registered, loaded, stack')
  BY <1>1, PopPlain DEF Now, ImportFns
<1> QED
  BY <1>1, <1>2 DEF Then, importerVars, foreignVars

(* A lookup of foreign structures goes on with a step.                     *)
LEMMA LookupGoesOn ==
    ASSUME Now, Runs("gwkjs_struct_foreign_lookup"), NEW step \in {"load", "found", "missing"},
           step = "missing" => ~registered /\ loaded
    PROVE  LET t == [stack EXCEPT ![1].step = step] IN
           With(t) /\ t # <<>> /\ Head(t).fn = "gwkjs_struct_foreign_lookup" /\ Head(t).step = step
<1> DEFINE x == [Top EXCEPT !.step = step]
           t == [stack EXCEPT ![1].step = step]
<1>1. stack # <<>> /\ Top.fn = "gwkjs_struct_foreign_lookup"
  BY DEF Runs
<1>2. Top \in Frames /\ stack[1] = Top
  BY <1>1, TopOf
<1>3. Top \in Lookups
  BY <1>1, <1>2 DEF Frames, Imports, Enumerations, Evaluations, Overrides, Resolutions
<1>4. x \in Lookups /\ x.fn = "gwkjs_struct_foreign_lookup" /\ x.step = step
  BY <1>3 DEF Lookups
<1>5. t = [stack EXCEPT ![1] = x]
  BY <1>2
<1> HIDE DEF x, t
<1>6. FrameOK(x)
  BY <1>4 DEF FrameOK, Frames
<1>7. GoesOn(Top, x) /\ ~IsWaiting(x) /\ ~IsNative(Top)
  BY <1>1, <1>4 DEF GoesOn, Own, Space, Above, Alone, Evaluating, IsWaiting, IsNative, ImportFns
<1>8. IsMissing(x) => ~registered /\ loaded
  BY <1>4 DEF IsMissing
<1>9. With(t) /\ t # <<>> /\ Head(t) = x
  BY <1>1, <1>5, <1>6, <1>7, <1>8, ReplacedTop
<1> QED
  BY <1>4, <1>9 DEF t

LEMMA LoadForeignStep ==
    ASSUME Now, gwkjs_foreign_load_foreign_module PROVE Then
<1>1. Runs("gwkjs_struct_foreign_lookup")
  BY DEF gwkjs_foreign_load_foreign_module
<1>2. CASE loaded /\ LooksAgain /\ UNCHANGED <<importerVars, repoVars>>
  <2>1. PICK step \in {"load", "found", "missing"} :
            /\ step = "missing" => ~registered /\ loaded
            /\ stack' = [stack EXCEPT ![1].step = step]
    BY <1>2 DEF LooksAgain
  <2>2. With(stack')
    BY <1>1, <2>1, LookupGoesOn
  <2> QED
    BY <1>2, <2>2, StackOnly
<1>3. CASE importer_get_property(Root, cairo, [stack EXCEPT ![1].step = "load"])
  <2> DEFINE c == [stack EXCEPT ![1].step = "load"]
  <2>1. With(c) /\ Head(c).fn = "gwkjs_struct_foreign_lookup" /\ Head(c).step = "load"
    BY <1>1, LookupGoesOn
  <2>2. importer_get_property(Root, cairo, c)
    BY <1>3
  <2> HIDE DEF c
  <2>3. Root \in DOMAIN searchPath /\ cairo \in Names
    BY <2>1, PathsTyped, ImportsAssumption
  <2>4. Above(Import(Root, cairo), Head(c))
    BY <2>1, AboveOther DEF ImportFns
  <2> QED
    BY <2>1, <2>2, <2>3, <2>4, GetStep
<1> QED
  BY <1>2, <1>3 DEF gwkjs_foreign_load_foreign_module

LEMMA EvalReturnsStep ==
    ASSUME Now, gwkjs_context_eval_returns PROVE Then
<1>1. /\ Runs("gwkjs_struct_foreign_lookup") /\ loaded' = TRUE /\ LooksAgain
      /\ UNCHANGED <<importerVars, resolving, namespaces, created, registered>>
  BY DEF gwkjs_context_eval_returns
<1>2. stack # <<>> /\ Top.fn = "gwkjs_struct_foreign_lookup"
  BY <1>1 DEF Runs
<1>3. PICK step \in {"found", "missing"} :
            /\ step = "missing" => ~registered
            /\ stack' = [stack EXCEPT ![1].step = step]
  BY <1>1 DEF LooksAgain
<1> DEFINE x == [Top EXCEPT !.step = step]
<1>4. Top \in Frames /\ stack[1] = Top /\ stack \in Seq(Frames)
  BY <1>2, TopOf
<1>5. Top \in Lookups
  BY <1>2, <1>4 DEF Frames, Imports, Enumerations, Evaluations, Overrides, Resolutions
<1>6. x \in Lookups /\ x.fn = "gwkjs_struct_foreign_lookup" /\ x.step = step
  BY <1>5 DEF Lookups
<1>7. stack' = [stack EXCEPT ![1] = x]
  BY <1>3, <1>4
<1> HIDE DEF x
<1>8. FrameOK(x) /\ x \in Frames
  BY <1>6 DEF FrameOK, Frames
<1>9. GoesOn(Top, x) /\ ~IsWaiting(x) /\ ~IsNative(Top)
  BY <1>2, <1>6 DEF GoesOn, Own, Space, Above, Alone, Evaluating, IsWaiting, IsNative, ImportFns
<1>10. IsMissing(x) => ~registered
  BY <1>3, <1>6 DEF IsMissing
<1>11. stack' = <<x>> \o Tail(stack)
  BY ONLY <1>2, <1>4, <1>7, <1>8, TopReplaced
<1>12. Full(searchPath, modules, props, meta, evaluated, resolving, namespaces, created,
            registered, TRUE, stack)
  BY DEF Now, Full, Registered
<1>13. GoesOn(Head(stack), x) /\ ~IsNative(Head(stack))
  BY <1>9 DEF Top
<1>14. Full(searchPath, modules, props, meta, evaluated, resolving, namespaces, created,
            registered, TRUE, stack')
  BY ONLY <1>2, <1>8, <1>9, <1>10, <1>11, <1>12, <1>13, Replaced
<1> QED
  BY <1>1, <1>14 DEF Then, importerVars

LEMMA ConvertStep ==
    ASSUME Now, gwkjs_struct_foreign_convert PROVE Then
  BY PopStep, StackOnly DEF gwkjs_struct_foreign_convert, Runs

-----------------------------------------------------------------------------
(* Search paths, and the __init__.js of their directories.                 *)

(* An import stays at its element, or has passed it.                       *)
LEMMA SearchGoesOn ==
    ASSUME NEW f \in Imports, f.fn = "do_import", FrameOK(f),
           NEW x \in Imports, x.fn = "do_import", x.importer = f.importer, x.name = f.name,
           x.path = f.path, x.looked => x.at > 0,
           \/ x.at = f.at
           \/ /\ x.at = f.at + 1 /\ f.at \in Elements(f)
              /\ HasDirectory(f, f.at) \/ DirectoriesFound(f) # {} \/ ~HasFile(f, f.at)
           \/ f.at = 0 /\ x.at = 1 /\ ~gwkjs_is_registered_native_module(f)
    PROVE  FrameOK(x) /\ GoesOn(f, x) /\ ~IsWaiting(x) /\ ~IsNative(f) /\ ~IsNative(x) /\ ~IsMissing(x)
<1>1. /\ f.at \in 0..(Len(f.path) + 1) /\ f.at \in Nat /\ f.path \in Seq(Directories)
      /\ f.at > 0 => ~gwkjs_is_registered_native_module(f)
      /\ Searched(f)
  BY DEF FrameOK, Imports
<1>2. Len(f.path) \in Nat /\ Elements(f) = 1..Len(f.path) /\ Elements(x) = 1..Len(f.path)
  BY <1>1 DEF Elements
<1>3. \A k : (HasDirectory(x, k) <=> HasDirectory(f, k)) /\ (HasFile(x, k) <=> HasFile(f, k))
  BY DEF HasDirectory, HasFile
<1>4. x.at \in 0..(Len(x.path) + 1)
  BY <1>1, <1>2
<1>5. x.at > 0 => ~gwkjs_is_registered_native_module(x)
  <2>1. f.at \in Elements(f) => f.at > 0
    BY <1>2
  <2> QED
    BY <1>1, <2>1 DEF gwkjs_is_registered_native_module
<1>6. Searched(x)
  <2> SUFFICES ASSUME NEW k \in Elements(f), k < x.at
               PROVE  \/ HasDirectory(f, k) \/ ~HasFile(f, k)
                      \/ \E j \in Elements(f) : j < k /\ HasDirectory(f, j)
    BY <1>2, <1>3 DEF Searched
  <2>1. CASE k < f.at
    BY <1>1, <2>1 DEF Searched
  <2>2. CASE ~(k < f.at)
    <3>1. k = f.at /\ (HasDirectory(f, f.at) \/ DirectoriesFound(f) # {} \/ ~HasFile(f, f.at))
      BY <1>1, <1>2, <2>2
    <3> QED
      BY <3>1 DEF DirectoriesFound
  <2> QED
    BY <2>1, <2>2
<1>7. FrameOK(x)
  BY <1>4, <1>5, <1>6 DEF FrameOK, Frames
<1>8. GoesOn(f, x)
  BY DEF GoesOn, Own, Space, Above, Alone, ImportFns
<1> QED
  BY <1>7, <1>8 DEF IsWaiting, IsNative, IsMissing

LEMMA LooksIntoStep ==
    ASSUME Now, stack # <<>>, Looking(Top), NEW d \in Directories, LooksInto(d)
    PROVE  Then
<1> DEFINE x == [fn |-> "load_module_init", dir |-> d, uses |-> 0]
<1>1. stack' = <<x>> \o stack /\ UNCHANGED <<importerVars, repoVars>>
  BY DEF LooksInto
<1>2. x \in Evaluations /\ x.fn = "load_module_init"
  <2>1. 0 \in 0..MaxUses
    BY ImportsAssumption
  <2> QED
    BY <2>1 DEF Evaluations
<1> HIDE DEF x
<1>3. FrameOK(x) /\ Plain(x) /\ ~IsMissing(x)
  BY <1>2 DEF FrameOK, Frames, Plain, IsMissing, ImportFns
<1>4. Above(x, Top)
  BY <1>2 DEF Above, Looking, ImportFns
<1>5. With(stack) /\ Above(x, Head(stack)) /\ x.fn # "import_file_on_module"
  BY <1>2, <1>4 DEF Now, With, Top
<1> QED
  BY ONLY <1>1, <1>3, <1>5, stack # <<>>, PlainStep

LEMMA EnumerateStep ==
    ASSUME Now, importer_new_enumerate PROVE Then
<1>1. stack # <<>> /\ Top.fn = "importer_new_enumerate"
  BY DEF importer_new_enumerate, Runs
<1>2. Top \in Frames /\ stack[1] = Top
  BY <1>1, TopOf
<1>3. Top \in Enumerations
  BY <1>1, <1>2 DEF Frames, Imports, Resolutions, Evaluations, Overrides, Lookups
<1>4. CASE stack' = Tail(stack) /\ UNCHANGED <<importerVars, repoVars>>
  BY <1>1, <1>4, PopStep, StackOnly
<1>5. CASE Top.at \in Elements(Top) /\ LooksInto(Top.path[Top.at])
  <2>1. Looking(Top) /\ Top.path[Top.at] \in Directories
    BY <1>1, <1>3, <1>5 DEF Looking, Elements, Enumerations
  <2> QED
    BY <1>1, <1>5, <2>1, LooksIntoStep
<1>6. CASE stack' = [stack EXCEPT ![1].at = @ + 1] /\ UNCHANGED <<importerVars, repoVars>>
  <2> DEFINE x == [Top EXCEPT !.at = @ + 1]
  <2>1. x \in Enumerations /\ x.fn = "importer_new_enumerate"
    BY <1>1, <1>3 DEF Enumerations
  <2>2. stack' = [stack EXCEPT ![1] = x]
    BY <1>2, <1>6
  <2> HIDE DEF x
  <2>3. FrameOK(x)
    BY <2>1 DEF FrameOK, Frames
  <2>4. GoesOn(Top, x) /\ ~IsWaiting(x) /\ ~IsNative(Top) /\ ~IsMissing(x)
    BY <1>1, <2>1 DEF GoesOn, Own, Space, Above, Alone, Evaluating, IsWaiting, IsNative, IsMissing,
                      ImportFns
  <2>5. With(stack')
    BY <1>1, <2>2, <2>3, <2>4, ReplacedTop
  <2> QED
    BY <1>6, <2>5, StackOnly
<1> QED
  BY <1>4, <1>5, <1>6 DEF importer_new_enumerate, load_module_elements

LEMMA OverrideEndsStep ==
    ASSUME Now, OverrideEnds PROVE Then
  BY PopStep, StackOnly DEF OverrideEnds, Runs

LEMMA InitEndsStep ==
    ASSUME Now, InitEnds PROVE Then \/ stack' = <<Aborted>>
<1> SUFFICES ASSUME stack' # <<Aborted>> PROVE Then
  OBVIOUS
<1> DEFINE q == Tail(stack)
           f == stack[2]
<1>1. stack # <<>> /\ Top.fn = "load_module_init" /\ UNCHANGED <<importerVars, repoVars>>
  BY DEF InitEnds, Runs
<1>2. stack \in Seq(Frames) /\ Chained(stack) /\ Apart(stack)
  BY <1>1, TopOf
<1>3. /\ q = <<>> => Alone(Top)
      /\ q # <<>> => Above(Top, Head(q))
      /\ q \in Seq(Frames)
  BY <1>1, <1>2, Pop DEF Top
<1>4. q # <<>>
  BY ONLY <1>1, <1>3 DEF Alone
<1>5. f = Head(q)
  <2>1. Len(q) = Len(stack) - 1 /\ \A k \in 1..(Len(stack) - 1) : q[k] = stack[k + 1]
    BY <1>1, <1>2, Uncons
  <2>2. Len(q) > 0 /\ Head(q) = q[1]
    BY <1>3, <1>4, Uncons
  <2>3. Len(stack) \in Nat
    BY <1>2
  <2> HIDE DEF q
  <2> QED
    BY ONLY <2>1, <2>2, <2>3
<1>6. Looking(f) /\ With(q)
  BY <1>1, <1>3, <1>4, <1>5, PopStep DEF Above
<1> HIDE DEF q, f
<1>7. Chained(q) /\ Apart(q) /\ FrameOK(f) /\ f \in Frames
  <2>1. Chained(q) /\ Apart(q)
    BY <1>6 DEF With, Full
  <2>2. FrameOK(Head(q)) /\ Head(q) \in Frames
    BY ONLY <1>4, <2>1, Pop
  <2> QED
    BY ONLY <1>5, <2>1, <2>2
<1>8. q[1] = f
  BY <1>3, <1>4, <1>5, Uncons
<1>9. ASSUME NEW x \in Frames, FrameOK(x), GoesOn(f, x), ~IsWaiting(x), ~IsNative(f), ~IsMissing(x),
             stack' = [q EXCEPT ![1] = x]
      PROVE  Then
  <2>1. stack' = <<x>> \o Tail(q)
    BY ONLY <1>3, <1>4, <1>9, TopReplaced
  <2>2. GoesOn(Head(q), x) /\ ~IsNative(Head(q))
    BY <1>5, <1>9
  <2>3. With(stack')
    BY <1>4, <1>6, <1>9, <2>1, <2>2, Replaced DEF With
  <2> QED
    BY <1>1, <2>3, StackOnly
<1>10. CASE f.fn = "do_import" /\ stack' = [q EXCEPT ![1].looked = TRUE]
  <2> DEFINE x == [f EXCEPT !.looked = TRUE]
  <2>1. f \in Imports
    BY <1>7, <1>10 DEF Frames, Enumerations, Resolutions, Evaluations, Overrides, Lookups
  <2>2. /\ x \in Imports /\ x.fn = "do_import" /\ x.importer = f.importer /\ x.name = f.name
        /\ x.path = f.path /\ x.at = f.at
    BY <1>10, <2>1 DEF Imports
  <2>3. f.at > 0
    <3>1. f.at \in DOMAIN f.path /\ f.path \in Seq(Directories)
      BY <1>6, <2>1 DEF Looking, Imports
    <3> QED
      BY <3>1
  <2>4. stack' = [q EXCEPT ![1] = x]
    BY <1>8, <1>10
  <2> HIDE DEF x
  <2>5. FrameOK(x) /\ GoesOn(f, x) /\ ~IsWaiting(x) /\ ~IsNative(f) /\ ~IsNative(x) /\ ~IsMissing(x)
    BY <1>7, <1>10, <2>1, <2>2, <2>3, SearchGoesOn
  <2> QED
    BY <1>9, <2>2, <2>4, <2>5 DEF Frames
<1>11. CASE f.fn = "importer_new_enumerate" /\ stack' = [q EXCEPT ![1].at = @ + 1]
  <2> DEFINE x == [f EXCEPT !.at = @ + 1]
  <2>1. f \in Enumerations
    BY <1>7, <1>11 DEF Frames, Imports, Resolutions, Evaluations, Overrides, Lookups
  <2>2. x \in Enumerations /\ x.fn = "importer_new_enumerate" 
    BY <1>11, <2>1 DEF Enumerations
  <2>3. stack' = [q EXCEPT ![1] = x]
    BY <1>8, <1>11
  <2> HIDE DEF x
  <2>4. FrameOK(x) /\ x \in Frames
    BY <2>2 DEF FrameOK, Frames
  <2>5. GoesOn(f, x) /\ ~IsWaiting(x) /\ ~IsNative(f) /\ ~IsMissing(x)
    BY <1>11, <2>2 DEF GoesOn, Own, Space, Above, Alone, Evaluating, IsWaiting, IsNative,
                       IsMissing, ImportFns
  <2> QED
    BY <1>9, <2>3, <2>4, <2>5
<1> QED
  BY <1>10, <1>11 DEF InitEnds, q, f

-----------------------------------------------------------------------------
(* How imports end.                                                        *)
MetaDefined(mt, p, name, mt2) ==
    /\ DOMAIN mt \subseteq DOMAIN mt2 /\ DOMAIN mt2 \subseteq DOMAIN mt \union {<<p, name>>}
    /\ \A pn \in DOMAIN mt2 : mt2[pn].parentModule = IF pn \in DOMAIN mt THEN mt[pn].parentModule ELSE p

LEMMA MetaPut ==
    ASSUME NEW mt, NEW p, NEW name, <<p, name>> \notin DOMAIN mt, NEW file, NEW mt2,
           mt2 = mt \/ mt2 = Put(mt, <<p, name>>, [file |-> file, parentModule |-> p])
    PROVE  MetaDefined(mt, p, name, mt2)
<1> DEFINE o == <<p, name>>
           m == [file |-> file, parentModule |-> p]
<1>1. m.parentModule = p /\ o \notin DOMAIN mt
  OBVIOUS
<1>2. CASE mt2 = mt
  BY <1>2 DEF MetaDefined
<1>3. CASE mt2 = Put(mt, o, m)
  <2> HIDE DEF m
  <2>1. /\ DOMAIN mt2 = DOMAIN mt \union {o}
        /\ \A pn \in DOMAIN mt2 : mt2[pn] = IF pn \in DOMAIN mt THEN mt[pn] ELSE m
    BY ONLY <1>1, <1>3 DEF Put
  <2> QED
    BY ONLY <1>1, <2>1 DEF MetaDefined
<1> QED
  BY <1>2, <1>3

LEMMA DefinedKnown ==
    ASSUME NEW sp, NEW mods, NEW prs, NEW mt, Known(sp, mods, prs, mt),
           NEW p, NEW name, <<p, name>> \in MarkedIn(mods), <<p, name>> \notin DOMAIN prs,
           NEW value \in {"native", "module"}, NEW prs2, prs2 = Put(prs, <<p, name>>, value),
           NEW mt2, MetaDefined(mt, p, name, mt2)
    PROVE  /\ Known(sp, mods, prs2, mt2)
           /\ DOMAIN prs2 = DOMAIN prs \union {<<p, name>>} /\ prs2[<<p, name>>] = value
<1> DEFINE o == <<p, name>>
<1>1. /\ DOMAIN prs2 = DOMAIN prs \union {o} /\ prs2[o] = value
      /\ \A pn \in DOMAIN prs : prs2[pn] = prs[pn]
  BY DEF Put
<1>2. /\ DOMAIN mt \subseteq DOMAIN mt2 /\ DOMAIN mt2 \subseteq DOMAIN mt \union {o}
      /\ \A pn \in DOMAIN mt2 :
            mt2[pn].parentModule = IF pn \in DOMAIN mt THEN mt[pn].parentModule ELSE p
  BY DEF MetaDefined
<1>3. o[1] = p /\ o[2] = name
  OBVIOUS
<1>4. prs2 \in [DOMAIN prs2 -> Values]
  <2>1. prs2 = [y \in DOMAIN prs2 |-> prs2[y]]
    BY DEF Put
  <2>2. \A y \in DOMAIN prs2 : prs2[y] \in Values
    BY <1>1 DEF Known, Values
  <2> QED
    BY ONLY <2>1, <2>2
<1>5. value # "importer" /\ o \in MarkedIn(mods) /\ Known(sp, mods, prs, mt)
  OBVIOUS
<1>6. o \notin DOMAIN prs
  OBVIOUS
<1> HIDE DEF o
<1>7. \A pn \in DOMAIN prs2 : prs2[pn] = "importer" => Append(pn[1], pn[2]) \in DOMAIN sp
  BY ONLY <1>1, <1>5 DEF Known
<1>8. DOMAIN mt2 \subseteq DOMAIN prs2 /\ \A pn \in DOMAIN mt2 : mt2[pn].parentModule = pn[1]
  BY ONLY <1>1, <1>2, <1>3, <1>5 DEF Known
<1>9. \A q \in DOMAIN sp : q # Root =>
            <<Front(q), Last(q)>> \in DOMAIN mt2 /\ prs2[<<Front(q), Last(q)>>] = "importer"
  BY ONLY <1>1, <1>2, <1>5 DEF Known
<1>10. DOMAIN prs2 \subseteq MarkedIn(mods)
  BY ONLY <1>1, <1>5 DEF Known
<1>11. Known(sp, mods, prs2, mt2)
  BY ONLY <1>4, <1>5, <1>7, <1>8, <1>9, <1>10 DEF Known
<1> QED
  BY ONLY <1>1, <1>11 DEF o

LEMMA DefineStep ==
    ASSUME Now, NEW r, NEW f, NEW file, Leaves(stack, r, <<f.importer, f.name>>),
           <<f.importer, f.name>> \in MarkedIn(modules), <<f.importer, f.name>> \notin DOMAIN props,
           NEW value \in {"native", "module"}, Defines(f, value, r),
           UNCHANGED meta \/ define_meta_properties(f, file),
           Native(stack) => Native(r) \/ <<f.importer, f.name>> = <<Root, gi>>,
           <<f.importer, f.name>> = <<Root, cairoNative>> => registered',
           registered => registered', registered' \in BOOLEAN,
           UNCHANGED <<searchPath, modules, evaluated, resolving, namespaces, created, loaded>>
    PROVE  Then
<1> DEFINE o == <<f.importer, f.name>>
<1>1. Known(searchPath, modules, props, meta)
  BY DEF Now, Full
<1>2. props' = Put(props, o, value) /\ stack' = Returned(r, value)
  BY DEF Defines
<1>3. MetaDefined(meta, f.importer, f.name, meta')
  <2>1. <<f.importer, f.name>> \notin DOMAIN meta
    BY <1>1 DEF Known
  <2>2. \/ meta' = meta
        \/ meta' = Put(meta, <<f.importer, f.name>>, [file |-> file, parentModule |-> f.importer])
    BY DEF define_meta_properties
  <2> QED
    BY ONLY <2>1, <2>2, MetaPut
<1>4. Known(searchPath, modules, props', meta')
      /\ DOMAIN props' = DOMAIN props \union {o} /\ props'[o] = value
  <2> DEFINE p == f.importer
             n == f.name
  <2>1. /\ <<p, n>> \in MarkedIn(modules) /\ <<p, n>> \notin DOMAIN props
        /\ MetaDefined(meta, p, n, meta') /\ props' = Put(props, <<p, n>>, value) /\ o = <<p, n>>
    BY <1>2, <1>3
  <2>2. value \in {"native", "module"}
    OBVIOUS
  <2> HIDE DEF p, n, o
  <2>3. /\ Known(searchPath, modules, props', meta')
        /\ DOMAIN props' = DOMAIN props \union {<<p, n>>} /\ props'[<<p, n>>] = value
    BY ONLY <1>1, <2>1, <2>2, DefinedKnown
  <2> QED
    BY ONLY <2>1, <2>3
<1>5. value # "importer" /\ Leaves(stack, r, o) /\ registered' \in BOOLEAN
      /\ (registered => registered') /\ (o = <<Root, cairoNative>> => registered')
      /\ (Native(stack) => Native(r) \/ o = <<Root, gi>>)
  OBVIOUS
<1> HIDE DEF o
<1>6. Ends(modules, props, evaluated, registered, stack, r, o, modules, props', registered', value)
  BY ONLY <1>4, <1>5 DEF Ends
<1>7. Full(searchPath, modules, props', meta', evaluated, resolving, namespaces, created,
           registered', loaded, stack')
  BY ONLY Now, <1>2, <1>4, <1>5, <1>6, Leave DEF Now
<1> QED
  BY <1>7 DEF Then

(* The property was not defined: there is none to delete.                  *)
LEMMA NothingToCancel ==
    ASSUME NEW sp, NEW mods, NEW mt, Known(sp, mods, props, mt), NEW f,
           <<f.importer, f.name>> \notin DOMAIN props, cancel_import(f)
    PROVE  props' = props
<1>1. DOMAIN props \ {<<f.importer, f.name>>} = DOMAIN props
  OBVIOUS
<1>2. props' = [x \in DOMAIN props |-> props[x]]
  BY <1>1 DEF cancel_import, Restrict
<1>3. props \in [DOMAIN props -> Values]
  BY DEF Known
<1> QED
  BY ONLY <1>2, <1>3

LEMMA FailStep ==
    ASSUME Now, NEW r, NEW f, Leaves(stack, r, <<f.importer, f.name>>),
           <<f.importer, f.name>> \in MarkedIn(modules), <<f.importer, f.name>> \notin DOMAIN props,
           <<f.importer, f.name>> \notin evaluated,
           Fails(f, r), UNCHANGED props \/ cancel_import(f), Native(stack) => Native(r),
           UNCHANGED <<searchPath, meta, evaluated, repoVars>>
    PROVE  Then
<1> DEFINE o == <<f.importer, f.name>>
<1>1. Known(searchPath, modules, props, meta) /\ Registered(props, registered, loaded, Missing(stack))
  BY DEF Now, Full
<1>2. props' = props
  BY <1>1, NothingToCancel
<1>3. /\ modules' = [modules EXCEPT ![f.importer] = @ \ {f.name}]
      /\ stack' = Returned(r, "undefined")
  BY DEF Fails
<1>4. f.importer \in DOMAIN modules /\ modules \in [DOMAIN searchPath -> SUBSET Names]
  BY <1>1, InMarked DEF Known
<1>5. /\ modules' \in [DOMAIN searchPath -> SUBSET Names] /\ DOMAIN modules' = DOMAIN modules
      /\ \A q \in DOMAIN modules : modules'[q] = IF q = f.importer THEN modules[f.importer] \ {f.name}
                                                 ELSE modules[q]
  BY ONLY <1>3, <1>4
<1>6. MarkedIn(modules') = MarkedIn(modules) \ {o}
  <2> DEFINE p == f.importer
             n == f.name
  <2>1. /\ p \in DOMAIN modules /\ DOMAIN modules' = DOMAIN modules
        /\ \A q \in DOMAIN modules : modules'[q] = IF q = p THEN modules[p] \ {n} ELSE modules[q]
    BY ONLY <1>4, <1>5
  <2> HIDE DEF p, n
  <2>2. MarkedIn(modules') = MarkedIn(modules) \ {<<p, n>>}
    BY ONLY <2>1, MarkIsTaken
  <2> QED
    BY ONLY <2>2 DEF p, n
<1>7. o \notin DOMAIN props /\ Leaves(stack, r, o) /\ o \notin evaluated
  OBVIOUS
<1> HIDE DEF o
<1>8. Known(searchPath, modules', props, meta)
  BY ONLY <1>1, <1>5, <1>6, <1>7 DEF Known
<1>9. /\ registered \in BOOLEAN
      /\ Native(stack) => Native(r) \/ <<Root, gi>> \in DOMAIN props
      /\ (o = <<Root, cairoNative>> /\ o \in DOMAIN props => registered)
  BY <1>1, <1>7 DEF Registered
<1>10. Ends(modules, props, evaluated, registered, stack, r, o, modules', props, registered,
            "undefined")
  BY ONLY <1>6, <1>7, <1>9 DEF Ends
<1>11. Full(searchPath, modules', props, meta, evaluated, resolving, namespaces, created,
            registered, loaded, stack')
  BY ONLY Now, <1>3, <1>7, <1>8, <1>10, Leave DEF Now
<1> QED
  BY <1>2, <1>11 DEF Then, repoVars, foreignVars

LEMMA ModuleEndsStep ==
    ASSUME Now, ModuleEnds PROVE Then
<1> DEFINE f == stack[2]
           o == <<f.importer, f.name>>
           r == Tail(Tail(stack))
<1>1. stack # <<>> /\ Head(stack).fn = "import_file_on_module"
      /\ UNCHANGED <<searchPath, modules, evaluated, repoVars>>
  BY DEF ModuleEnds, Runs, Top
<1>2. /\ Leaves(stack, r, o) /\ f \in Imports /\ FrameOK(f)
      /\ o \in evaluated /\ o \notin DOMAIN props /\ o \in MarkedIn(modules)
      /\ Native(stack) <=> Native(r)
      /\ Evaluating(Head(stack), f)
  BY <1>1, UnderFile DEF Now
<1>3. Known(searchPath, modules, props, meta) /\ Registered(props, registered, loaded, Missing(stack))
  BY DEF Now, Full
<1>4. o # <<Root, cairoNative>>
  <2>1. f.fn = "do_import" /\ f.at > 0
    BY <1>2 DEF Evaluating, Elements, Imports
  <2>2. ~gwkjs_is_registered_native_module(f)
    BY <1>2, <2>1 DEF FrameOK
  <2> QED
    BY <2>2, ImportsAssumption DEF gwkjs_is_registered_native_module
<1>5. registered \in BOOLEAN /\ registered' = registered
      /\ UNCHANGED <<resolving, namespaces, created, loaded>>
  BY <1>1, <1>3 DEF Registered, repoVars, foreignVars
<1>6. CASE /\ Defines(f, "module", r)
           /\ define_meta_properties(f, Append(Top.dir, f.name))
  BY <1>1, <1>2, <1>4, <1>5, <1>6, DefineStep
<1>7. CASE stack' = Returned(r, "module") /\ cancel_import(f) /\ UNCHANGED meta
  <2>1. props' = props
    BY <1>2, <1>3, <1>7, NothingToCancel
  <2> HIDE DEF o, f, r
  <2>2. Ends(modules, props, evaluated, registered, stack, r, o, modules, props, registered,
             "module")
    BY ONLY <1>2, <1>5 DEF Ends
  <2>3. Full(searchPath, modules, props, meta, evaluated, resolving, namespaces, created,
             registered, loaded, stack')
    BY ONLY Now, <1>2, <1>3, <1>7, <2>2, Leave DEF Now
  <2> QED
    BY <1>1, <1>7, <2>1, <2>3 DEF Then, repoVars, foreignVars
<1> QED
  BY <1>6, <1>7 DEF ModuleEnds

-----------------------------------------------------------------------------
(* Sub-importers.                                                          *)

(* Every number up to the size of a set of indices is the place of one.    *)
LEMMA NthIndex ==
    ASSUME NEW S \in SUBSET Nat, IsFiniteSet(S)
    PROVE  /\ Cardinality(S) \in Nat
           /\ \A k \in 1..Cardinality(S) :
                Nth(S, k) \in S /\ Cardinality({j \in S : j <= Nth(S, k)}) = k
           /\ \A i \in S : \E k \in 1..Cardinality(S) : Nth(S, k) = i
<1> DEFINE n == Cardinality(S)
           UpTo(i) == {j \in S : j <= i}
           rank == [i \in S |-> Cardinality(UpTo(i))]
<1>1. n \in Nat /\ IsFiniteSet(1..n) /\ Cardinality(1..n) = n
  BY FS_CardinalityType, FS_Interval
<1>2. ASSUME NEW i \in S
      PROVE  IsFiniteSet(UpTo(i)) /\ Cardinality(UpTo(i)) \in 1..n
  <2>1. UpTo(i) \in SUBSET S /\ i \in UpTo(i)
    OBVIOUS
  <2>2. IsFiniteSet(UpTo(i)) /\ Cardinality(UpTo(i)) <= n
    BY <2>1, FS_Subset
  <2>3. Cardinality(UpTo(i)) \in Nat /\ Cardinality(UpTo(i)) # 0
    BY <2>1, <2>2, FS_CardinalityType, FS_EmptySet
  <2> QED
    BY <1>1, <2>2, <2>3
<1>3. ASSUME NEW i \in S, NEW j \in S, i < j
      PROVE  Cardinality(UpTo(i)) # Cardinality(UpTo(j))
  <2>1. UpTo(i) \in SUBSET UpTo(j) /\ j \in UpTo(j) /\ j \notin UpTo(i)
    <3>1. i \in Nat /\ j \in Nat /\ \A x \in S : x \in Nat
      OBVIOUS
    <3>2. \A x \in S : x <= i => x <= j
      BY <1>3, <3>1
    <3>3. j <= j /\ ~(j <= i)
      BY <1>3, <3>1
    <3> QED
      BY <3>2, <3>3
  <2>2. Cardinality(UpTo(i)) = Cardinality(UpTo(j)) => UpTo(i) = UpTo(j)
    BY <1>2, <2>1, FS_Subset
  <2> QED
    BY <2>1, <2>2
<1>4. \A i, j \in S : rank[i] = rank[j] => i = j
  <2> SUFFICES ASSUME NEW i \in S, NEW j \in S, rank[i] = rank[j] PROVE i = j
    OBVIOUS
  <2>1. ~(i < j) /\ ~(j < i)
    BY <1>3
  <2> QED
    BY <2>1
<1>5. rank \in Injection(S, 1..n)
  <2>1. rank \in [S -> 1..n]
    BY <1>2
  <2> QED
    BY <1>4, <2>1 DEF Injection, IsInjective
<1>6. rank \in Surjection(S, 1..n)
  BY <1>1, <1>5, FS_Injection
<1>7. \A k \in 1..n : \E i \in S : Cardinality(UpTo(i)) = k
  BY <1>6 DEF Surjection
<1>8. \A k \in 1..n : Nth(S, k) \in S /\ Cardinality(UpTo(Nth(S, k))) = k
  BY <1>7 DEF Nth
<1>9. ASSUME NEW i \in S PROVE \E k \in 1..n : Nth(S, k) = i
  <2> DEFINE k == Cardinality(UpTo(i))
  <2>1. k \in 1..n
    BY <1>2
  <2>2. Nth(S, k) \in S /\ Cardinality(UpTo(Nth(S, k))) = k
    BY <1>8, <2>1
  <2>3. rank[Nth(S, k)] = rank[i]
    BY <2>2
  <2>4. Nth(S, k) = i
    BY <1>4, <2>2, <2>3
  <2> QED
    BY <2>1, <2>4
<1> QED
  BY <1>1, <1>8, <1>9

LEMMA FoundDirectories ==
    ASSUME NEW f \in Imports
    PROVE  LET found == DirectoriesFound(f)
               path  == [k \in 1..Cardinality(found) |-> Append(f.path[Nth(found, k)], f.name)]
           IN  /\ path \in Seq(Directories)
               /\ ToSet(path) = {Append(f.path[k], f.name) : k \in found}
<1> DEFINE found == DirectoriesFound(f)
           n == Cardinality(found)
           path == [k \in 1..n |-> Append(f.path[Nth(found, k)], f.name)]
<1>1. /\ Elements(f) = 1..Len(f.path) /\ Len(f.path) \in Nat
      /\ found \in SUBSET Elements(f)
  BY DEF Imports, Elements, DirectoriesFound
<1>2. found \in SUBSET Nat /\ IsFiniteSet(found)
  <2> HIDE DEF found
  <2>1. IsFiniteSet(1..Len(f.path)) /\ found \in SUBSET (1..Len(f.path))
    BY <1>1, FS_Interval
  <2>2. IsFiniteSet(found)
    BY ONLY <2>1, FS_Subset
  <2> QED
    BY <2>1, <2>2
<1>3. \A k \in found : Append(f.path[k], f.name) \in Directories
  BY DEF DirectoriesFound, HasDirectory
<1> HIDE DEF found
<1>4. /\ n \in Nat
      /\ \A k \in 1..n : Nth(found, k) \in found
      /\ \A i \in found : \E k \in 1..n : Nth(found, k) = i
  BY <1>2, NthIndex
<1>5. path \in Seq(Directories) /\ DOMAIN path = 1..n
  <2>1. \A k \in 1..n : path[k] \in Directories
    BY <1>3, <1>4
  <2> HIDE DEF n
  <2>2. path \in [1..n -> Directories]
    BY <2>1
  <2> QED
    BY ONLY <1>4, <2>2
<1>6. ToSet(path) = {Append(f.path[k], f.name) : k \in found}
  <2>1. ToSet(path) = {path[k] : k \in 1..n}
    BY <1>5 DEF ToSet
  <2>2. \A k \in 1..n : path[k] = Append(f.path[Nth(found, k)], f.name)
    OBVIOUS
  <2> HIDE DEF path, n
  <2>3. \A d : d \in {path[k] : k \in 1..n} <=> d \in {Append(f.path[k], f.name) : k \in found}
    BY <1>4, <2>2
  <2> QED
    BY <2>1, <2>3
<1> QED
  BY <1>5, <1>6 DEF found

LEMMA Appended ==
    ASSUME NEW S, NEW p \in Seq(S), NEW name \in S
    PROVE  /\ Append(p, name) \in Seq(S) /\ Append(p, name) # <<>>
           /\ Front(Append(p, name)) = p /\ Last(Append(p, name)) = name
<1> DEFINE q == Append(p, name)
<1>1. q \in Seq(S) /\ q # <<>> /\ Len(q) = Len(p) + 1 /\ q[Len(p) + 1] = name
  BY AppendProperties
<1>2. \A k \in 1..Len(p) : q[k] = p[k]
  BY AppendProperties
<1>3. Last(q) = name
  BY <1>1 DEF Last
<1>4. Front(q) = p
  <2>1. Len(p) \in Nat /\ Len(q) - 1 = Len(p) /\ Len(p) <= Len(q)
    BY <1>1
  <2>2. Front(q) = SubSeq(q, 1, Len(p))
    BY <2>1 DEF Front
  <2> HIDE DEF q
  <2>3. SubSeq(q, 1, Len(p)) \in Seq(S) /\ Len(SubSeq(q, 1, Len(p))) = Len(p)
    BY <1>1, <2>1
  <2>4. \A k \in 1..Len(p) : SubSeq(q, 1, Len(p))[k] = p[k]
    BY <1>1, <1>2, <2>1
  <2> QED
    BY <2>2, <2>3, <2>4, SeqEqual
<1> QED
  BY <1>1, <1>3, <1>4

NewImporter(sp, mods, prs, mt, p, name, path, sp2, mods2, prs2, mt2) ==
    /\ path \in Seq(Directories)
    /\ sp2 = Put(sp, Append(p, name), path)
    /\ mods2 = Put(mods, Append(p, name), {})
    /\ prs2 = Put(prs, <<p, name>>, "importer")
    /\ MetaDefined(mt, p, name, mt2) /\ <<p, name>> \in DOMAIN mt2

ImporterAdded(sp, mods, prs, o, sp2, mods2, prs2) ==
    /\ DOMAIN sp \subseteq DOMAIN sp2 /\ MarkedIn(mods2) = MarkedIn(mods)
    /\ DOMAIN prs2 = DOMAIN prs \union {o} /\ prs2[o] = "importer"

LEMMA ImporterKnown ==
    ASSUME NEW sp, NEW mods, NEW prs, NEW mt, Known(sp, mods, prs, mt),
           NEW p, NEW name, <<p, name>> \in MarkedIn(mods), <<p, name>> \notin DOMAIN prs,
           NEW path, NEW sp2, NEW mods2, NEW prs2, NEW mt2,
           NewImporter(sp, mods, prs, mt, p, name, path, sp2, mods2, prs2, mt2)
    PROVE  Known(sp2, mods2, prs2, mt2) /\ ImporterAdded(sp, mods, prs, <<p, name>>, sp2, mods2, prs2)
<1> DEFINE o == <<p, name>>
           P == Append(p, name)
<1> USE DEF NewImporter
<1>1. p \in DOMAIN sp /\ p \in Seq(Names) /\ name \in Names
  BY InMarked DEF Known
<1>2. P \in Seq(Names) /\ P # <<>> /\ Front(P) = p /\ Last(P) = name
  BY <1>1, Appended
<1>3. P \notin DOMAIN sp
  <2>1. P \in DOMAIN sp => <<Front(P), Last(P)>> \in DOMAIN mt
    BY <1>2 DEF Known, Root
  <2>2. DOMAIN mt \subseteq DOMAIN prs
    BY DEF Known
  <2> QED
    BY <1>2, <2>1, <2>2
<1>4. /\ DOMAIN prs2 = DOMAIN prs \union {o} /\ prs2[o] = "importer"
      /\ \A pn \in DOMAIN prs : prs2[pn] = prs[pn]
  BY DEF Put
<1>5. prs2 \in [DOMAIN prs2 -> Values]
  <2>1. prs2 = [y \in DOMAIN prs2 |-> prs2[y]]
    BY DEF Put
  <2>2. \A y \in DOMAIN prs2 : prs2[y] \in Values
    BY <1>4 DEF Known, Values
  <2> QED
    BY ONLY <2>1, <2>2
<1>6. /\ DOMAIN mt \subseteq DOMAIN mt2 /\ DOMAIN mt2 \subseteq DOMAIN mt \union {o} /\ o \in DOMAIN mt2
      /\ \A pn \in DOMAIN mt2 :
            mt2[pn].parentModule = IF pn \in DOMAIN mt THEN mt[pn].parentModule ELSE p
  BY DEF MetaDefined
<1>7. o[1] = p /\ o[2] = name /\ Append(o[1], o[2]) = P /\ o = <<p, name>>
  OBVIOUS
<1>8. Known(sp, mods, prs, mt) /\ o \in MarkedIn(mods) /\ o \notin DOMAIN prs
  OBVIOUS
<1>9. sp2 = Put(sp, P, path) /\ mods2 = Put(mods, P, {}) /\ path \in Seq(Directories)
  OBVIOUS
<1> HIDE DEF o, P, NewImporter
<1>10. /\ DOMAIN sp2 = DOMAIN sp \union {P} /\ sp2[P] = path
       /\ sp2 \in [DOMAIN sp2 -> Seq(Directories)]
  <2>1. sp \in [DOMAIN sp -> Seq(Directories)]
    BY <1>8 DEF Known
  <2> QED
    BY ONLY <1>3, <1>9, <2>1 DEF Put
<1>11. /\ mods2 \in [DOMAIN sp2 -> SUBSET Names]
       /\ DOMAIN mods2 = DOMAIN mods \union {P} /\ mods2[P] = {}
       /\ \A q \in DOMAIN mods : q # P /\ mods2[q] = mods[q]
  <2>1. mods \in [DOMAIN sp -> SUBSET Names] /\ DOMAIN mods = DOMAIN sp
    BY <1>8 DEF Known
  <2> QED
    BY ONLY <1>3, <1>9, <1>10, <2>1 DEF Put
<1>12. MarkedIn(mods2) = MarkedIn(mods)
  <2>1. ASSUME NEW q, NEW m PROVE <<q, m>> \in MarkedIn(mods2) <=> <<q, m>> \in MarkedIn(mods)
    BY <1>11, InMarked
  <2>2. \A z \in MarkedIn(mods) : z = <<z[1], z[2]>>
    BY MarkedPairs
  <2>3. \A z \in MarkedIn(mods2) : z = <<z[1], z[2]>>
    BY MarkedPairs
  <2>4. ASSUME NEW z PROVE z \in MarkedIn(mods2) <=> z \in MarkedIn(mods)
    BY ONLY <2>1, <2>2, <2>3
  <2> QED
    BY <2>4
<1>13. DOMAIN sp2 \subseteq Seq(Names) /\ Root \in DOMAIN sp2
  BY ONLY <1>2, <1>8, <1>10 DEF Known
<1>14. \A pn \in DOMAIN prs2 : prs2[pn] = "importer" => Append(pn[1], pn[2]) \in DOMAIN sp2
  BY ONLY <1>4, <1>7, <1>8, <1>10 DEF Known
<1>15. DOMAIN mt2 \subseteq DOMAIN prs2 /\ \A pn \in DOMAIN mt2 : mt2[pn].parentModule = pn[1]
  BY ONLY <1>4, <1>6, <1>7, <1>8 DEF Known
<1>16. ASSUME NEW q \in DOMAIN sp2, q # Root
       PROVE  <<Front(q), Last(q)>> \in DOMAIN mt2 /\ prs2[<<Front(q), Last(q)>>] = "importer"
  <2>1. CASE q = P
    BY ONLY <1>2, <1>4, <1>6, <1>7, <2>1
  <2>2. CASE q \in DOMAIN sp
    <3>1. <<Front(q), Last(q)>> \in DOMAIN mt /\ prs[<<Front(q), Last(q)>>] = "importer"
          /\ DOMAIN mt \subseteq DOMAIN prs
      BY ONLY <1>8, <1>16, <2>2 DEF Known
    <3> QED
      BY ONLY <1>4, <1>6, <3>1
  <2> QED
    BY <1>10, <1>16, <2>1, <2>2
<1>17. DOMAIN prs2 \subseteq MarkedIn(mods2)
  BY ONLY <1>4, <1>8, <1>12 DEF Known
<1>18. Known(sp2, mods2, prs2, mt2)
  BY ONLY <1>5, <1>10, <1>11, <1>13, <1>14, <1>15, <1>16, <1>17 DEF Known
<1> QED
  BY ONLY <1>4, <1>10, <1>12, <1>18 DEF o, ImporterAdded

-----------------------------------------------------------------------------
(* The steps of do_import.                                                 *)

(* The import on top of the stack.                                         *)
LEMMA TopImporting ==
    ASSUME Now, stack # <<>>, Top.fn \in ImportFns
    PROVE  LET o == <<Top.importer, Top.name>>
               r == Tail(stack)
           IN  /\ Leaves(stack, r, o) /\ Top \in Imports /\ FrameOK(Top) /\ stack[1] = Top
               /\ o \notin evaluated /\ o \notin DOMAIN props /\ o \in MarkedIn(modules)
               /\ Native(stack) <=> IsNative(Top) \/ Native(r)
               /\ IsNative(Top) => ~Native(r) /\ Top.importer = Root /\ Top.name = gi
<1>1. Top = Head(stack) /\ stack[1] = Top
  BY TopOf DEF Top
<1> QED
  BY ONLY <1>1, Now, stack # <<>>, Top.fn \in ImportFns, TopImport DEF Now

LEMMA NativeStep ==
    ASSUME Now, import_native_file PROVE Then
<1> DEFINE o == <<Top.importer, Top.name>>
           r == Tail(stack)
<1>1. stack # <<>> /\ Top.fn = "do_import" /\ Top.at = 0
  BY DEF import_native_file, Runs
<1>2. /\ Leaves(stack, r, o) /\ Top \in Imports /\ FrameOK(Top) /\ stack[1] = Top
      /\ o \notin evaluated /\ o \notin DOMAIN props /\ o \in MarkedIn(modules)
      /\ Native(stack) <=> Native(r)
  BY <1>1, TopImporting DEF ImportFns, IsNative
<1>3. /\ created \in Nat /\ {registered, loaded} \subseteq BOOLEAN
      /\ cairoNative # gi /\ GLib \in Namespaces /\ MaxNamespaces \in Nat \ {0}
  BY ImportsAssumption DEF Now, Full, Resolved, SpacesTyped, Registered
<1>4. CASE /\ gwkjs_is_registered_native_module(Top) /\ Top.name = gi
           /\ Resolve(GLib, <<[Top EXCEPT !.fn = "import_native_file"]>> \o Tail(stack))
           /\ UNCHANGED importerVars
  <2> DEFINE x == [Top EXCEPT !.fn = "import_native_file"]
             c == <<x>> \o Tail(stack)
  <2>1. x \in Imports /\ x.fn = "import_native_file" /\ x.importer = Root /\ x.name = gi
        /\ x.importer = Top.importer /\ x.name = Top.name
    BY <1>2, <1>4 DEF Imports, gwkjs_is_registered_native_module
  <2>2. Resolve(GLib, c) /\ UNCHANGED importerVars
    BY <1>4
  <2> HIDE DEF x
  <2>3. FrameOK(x)
    BY <2>1 DEF FrameOK, Frames
  <2>4. GoesOn(Top, x) /\ ~IsWaiting(x) /\ ~IsNative(Top) /\ ~IsMissing(x) /\ IsNative(x)
    BY <1>1, <2>1 DEF GoesOn, Own, Space, Above, Alone, IsWaiting, IsNative, IsMissing, ImportFns
  <2>5. With(c) /\ c # <<>> /\ Head(c) = x /\ Tail(c) = r /\ Native(c)
    <3>1. c = <<x>> \o Tail(stack)
      OBVIOUS
    <3> HIDE DEF c
    <3>2. /\ With(c) /\ c # <<>> /\ Head(c) = x /\ Tail(c) = Tail(stack)
          /\ Native(c) <=> IsNative(x) \/ Native(Tail(stack))
      BY ONLY Now, <1>1, <2>3, <2>4, <3>1, ReplacedTop
    <3> QED
      BY <2>4, <3>2
  <2> HIDE DEF c
  <2>6. ~Native(r)
    <3>1. x = Head(c) /\ x.fn \in ImportFns
      BY <2>1, <2>5 DEF ImportFns
    <3>0. PICK own : own = <<x.importer, x.name>>
      OBVIOUS
    <3>2. IsNative(x) => ~Native(Tail(c))
      BY ONLY <2>5, <3>1, <3>0, TopImport DEF With
    <3> QED
      BY <2>4, <2>5, <3>2
  <2>7. created = 0 /\ resolving = {}
    <3>1. <<Root, gi>> \notin DOMAIN props /\ ~Native(stack)
      BY <1>2, <2>1, <2>6
    <3> QED
      BY <3>1 DEF Now, Full, Resolved
  <2>8. GLib \notin resolving /\ created < MaxNamespaces /\ (c # <<>> => IsNative(Head(c)))
    BY <1>3, <2>4, <2>5, <2>7
  <2> QED
    BY ONLY <1>3, <2>2, <2>5, <2>8, ResolveStep
<1>5. CASE /\ Top.name # gi
           /\ Defines(Top, "native", Tail(stack)) /\ define_meta_properties(Top, <<>>)
           /\ gwkjs_struct_foreign_register(Top.name)
           /\ UNCHANGED <<searchPath, modules, evaluated, resolving, namespaces, created, loaded>>
  <2>1. /\ registered => registered'
        /\ o = <<Root, cairoNative>> => registered'
        /\ registered' \in BOOLEAN
    BY <1>3, <1>5 DEF gwkjs_struct_foreign_register
  <2> QED
    BY <1>2, <1>5, <2>1, DefineStep
<1>6. CASE /\ ~gwkjs_is_registered_native_module(Top) /\ stack' = [stack EXCEPT ![1].at = 1]
           /\ UNCHANGED <<importerVars, repoVars>>
  <2> DEFINE x == [Top EXCEPT !.at = 1]
  <2>1. /\ x \in Imports /\ x.fn = "do_import" /\ x.importer = Top.importer /\ x.name = Top.name
        /\ x.path = Top.path /\ x.at = 1
    BY <1>1, <1>2 DEF Imports
  <2>2. stack' = [stack EXCEPT ![1] = x]
    BY <1>2, <1>6
  <2> HIDE DEF x
  <2>3. FrameOK(x) /\ GoesOn(Top, x) /\ ~IsWaiting(x) /\ ~IsNative(Top) /\ ~IsMissing(x)
    BY <1>1, <1>2, <1>6, <2>1, SearchGoesOn
  <2>4. With(stack')
    BY <1>1, <2>2, <2>3, ReplacedTop
  <2> QED
    BY <1>6, <2>4, StackOnly
<1> QED
  BY <1>4, <1>5, <1>6 DEF import_native_file

LEMMA RepoReturnsStep ==
    ASSUME Now, repo_new_returns PROVE Then
<1> DEFINE o == <<Top.importer, Top.name>>
           r == Tail(stack)
<1>1. /\ stack # <<>> /\ Top.fn = "import_native_file"
      /\ Defines(Top, "native", r) /\ define_meta_properties(Top, <<>>)
      /\ UNCHANGED <<searchPath, modules, evaluated, repoVars>>
  BY DEF repo_new_returns, Runs
<1>2. /\ Leaves(stack, r, o) /\ o \notin DOMAIN props /\ o \in MarkedIn(modules)
      /\ Top.importer = Root /\ Top.name = gi
  BY <1>1, TopImporting DEF ImportFns, IsNative
<1>3. registered \in BOOLEAN /\ gi # cairoNative
  BY ImportsAssumption DEF Now, Full, Registered
<1>4. /\ o = <<Root, gi>> /\ o # <<Root, cairoNative>> /\ registered' = registered
      /\ UNCHANGED <<searchPath, modules, evaluated, resolving, namespaces, created, loaded>>
  BY <1>1, <1>2, <1>3 DEF repoVars, foreignVars
<1> QED
  BY <1>1, <1>2, <1>3, <1>4, DefineStep

LEMMA FileStep ==
    ASSUME Now, stack # <<>>, Top.fn = "do_import", Top.at \in Elements(Top),
           NEW d, d = Top.path[Top.at], ~HasDirectory(Top, Top.at), DirectoriesFound(Top) = {},
           HasFile(Top, Top.at), Append(d, Top.name) \notin Unreadable,
           evaluated' = evaluated \union {<<Top.importer, Top.name>>},
           stack' = <<[fn |-> "import_file_on_module", dir |-> d, uses |-> 0]>> \o stack,
           UNCHANGED <<searchPath, modules, props, meta, repoVars>>
    PROVE  Then
<1> DEFINE x == [fn |-> "import_file_on_module", dir |-> d, uses |-> 0]
<1>1. Top \in Imports /\ Head(stack) = Top
  BY TopImporting DEF ImportFns, Top
<1>2. d \in Directories
  BY <1>1 DEF Imports, Elements
<1>3. x \in Evaluations /\ x.fn = "import_file_on_module" /\ x.dir = d /\ stack' = <<x>> \o stack
  <2>1. 0 \in 0..MaxUses
    BY ImportsAssumption
  <2> QED
    BY <1>2, <2>1 DEF Evaluations
<1> HIDE DEF x
<1>4. FrameOK(x) /\ Plain(x) /\ ~IsMissing(x)
  BY <1>3 DEF FrameOK, Frames, Plain, IsMissing, ImportFns
<1>5. Above(x, Head(stack))
  <2>1. Evaluating(x, Top)
    BY <1>3 DEF Evaluating
  <2> QED
    BY <1>1, <1>3, <2>1 DEF Above, ImportFns
<1>6. evaluated' = evaluated \union
        (IF stack # <<>> /\ x.fn = "import_file_on_module" THEN Own(Head(stack)) ELSE {})
  BY <1>1, <1>3 DEF Own, ImportFns
<1>7. Full(searchPath, modules, props, meta, evaluated', resolving, namespaces, created,
           registered, loaded, stack')
  BY ONLY Now, stack # <<>>, <1>3, <1>4, <1>5, <1>6, PushPlain DEF Now
<1> QED
  BY <1>7 DEF Then, repoVars, foreignVars

LEMMA SearchStep ==
    ASSUME Now, do_import PROVE Then
<1> DEFINE o == <<Top.importer, Top.name>>
           r == Tail(stack)
           d == Top.path[Top.at]
<1>1. stack # <<>> /\ Top.fn = "do_import" /\ Top.at \in Elements(Top)
  BY DEF do_import, Runs
<1>2. /\ Leaves(stack, r, o) /\ Top \in Imports /\ FrameOK(Top) /\ stack[1] = Top
      /\ o \notin evaluated /\ o \notin DOMAIN props /\ o \in MarkedIn(modules)
      /\ Native(stack) <=> Native(r)
  BY <1>1, TopImporting DEF ImportFns, IsNative
<1>3. Top.at > 0 /\ d \in Directories /\ ~gwkjs_is_registered_native_module(Top)
  BY <1>1, <1>2 DEF Imports, Elements, FrameOK
<1>4. CASE LooksInto(d)
  <2>1. Looking(Top)
    BY <1>1 DEF Looking, Elements
  <2> QED
    BY <1>1, <1>3, <1>4, <2>1, LooksIntoStep
<1>5. CASE Defines(Top, "module", r) /\ UNCHANGED <<searchPath, modules, meta, evaluated, repoVars>>
  <2>1. /\ registered \in BOOLEAN /\ registered' = registered
        /\ UNCHANGED <<searchPath, modules, meta, evaluated, resolving, namespaces, created, loaded>>
    BY <1>5 DEF Now, Full, Registered, repoVars, foreignVars
  <2>2. o # <<Root, cairoNative>>
    BY <1>3, ImportsAssumption DEF gwkjs_is_registered_native_module
  <2> QED
    BY <1>2, <1>5, <2>1, <2>2, DefineStep
<1>6. CASE /\ HasDirectory(Top, Top.at) \/ DirectoriesFound(Top) # {} \/ ~HasFile(Top, Top.at)
           /\ stack' = [stack EXCEPT ![1].at = @ + 1, ![1].looked = FALSE]
           /\ UNCHANGED <<importerVars, repoVars>>
  <2> DEFINE x == [Top EXCEPT !.at = @ + 1, !.looked = FALSE]
  <2>1. /\ x \in Imports /\ x.fn = "do_import" /\ x.importer = Top.importer /\ x.name = Top.name
        /\ x.path = Top.path /\ x.at = Top.at + 1 /\ ~x.looked
    <3>1. /\ x.fn = Top.fn /\ x.importer = Top.importer /\ x.name = Top.name
          /\ x.path = Top.path /\ x.at = Top.at + 1 /\ x.looked = FALSE
      BY <1>2 DEF Imports
    <3>2. Top.at + 1 \in Nat
      BY <1>2 DEF Imports
    <3>3. x \in Imports
      BY <1>2, <3>2 DEF Imports
    <3> QED
      BY <1>1, <3>1, <3>3
  <2>2. stack' = [stack EXCEPT ![1] = x]
    BY <1>1, <1>2, <1>6
  <2> HIDE DEF x
  <2>3. FrameOK(x) /\ GoesOn(Top, x) /\ ~IsWaiting(x) /\ ~IsNative(Top) /\ ~IsMissing(x)
    BY <1>1, <1>2, <1>6, <2>1, SearchGoesOn
  <2>4. With(stack')
    BY <1>1, <2>2, <2>3, ReplacedTop
  <2> QED
    BY <1>6, <2>4, StackOnly
<1>7. CASE /\ cancel_import(Top) /\ Fails(Top, r)
           /\ UNCHANGED <<searchPath, meta, evaluated, repoVars>>
  BY <1>2, <1>7, FailStep
<1>8. CASE /\ ~HasDirectory(Top, Top.at) /\ DirectoriesFound(Top) = {} /\ HasFile(Top, Top.at)
           /\ Append(d, Top.name) \notin Unreadable
           /\ evaluated' = evaluated \union {o}
           /\ stack' = <<[fn |-> "import_file_on_module", dir |-> d, uses |-> 0]>> \o stack
           /\ UNCHANGED <<searchPath, modules, props, meta, repoVars>>
  BY <1>1, <1>8, FileStep
<1> QED
  BY <1>1, <1>4, <1>5, <1>6, <1>7, <1>8 DEF do_import

LEMMA SearchEndsStep ==
    ASSUME Now, do_import_returns PROVE Then
<1> DEFINE o == <<Top.importer, Top.name>>
           r == Tail(stack)
           P == Append(Top.importer, Top.name)
<1>1. stack # <<>> /\ Top.fn = "do_import" /\ UNCHANGED <<evaluated, repoVars>>
      /\ Top.at = Len(Top.path) + 1
  BY DEF do_import_returns, Runs
<1>2. /\ Leaves(stack, r, o) /\ Top \in Imports /\ FrameOK(Top)
      /\ o \notin evaluated /\ o \notin DOMAIN props /\ o \in MarkedIn(modules)
      /\ Native(stack) <=> Native(r)
  BY <1>1, TopImporting DEF ImportFns, IsNative
<1>3. CASE Fails(Top, r) /\ UNCHANGED <<searchPath, props, meta>>
  BY <1>1, <1>2, <1>3, FailStep
<1>4. CASE import_directory(Top)
  <2>1. PICK path \in Seq(Directories) : gwkjs_define_importer(Top, path)
    BY <1>2, <1>4, FoundDirectories DEF import_directory
  <2>2. path \o <<>> = path
    OBVIOUS
  <2>3. /\ searchPath' = Put(searchPath, P, path) /\ modules' = Put(modules, P, {})
        /\ meta' = Put(meta, o, [file |-> <<>>, parentModule |-> Top.importer])
        /\ props' = Put(props, o, "importer") /\ stack' = Returned(r, "importer")
    BY <2>1, <2>2 DEF gwkjs_define_importer, gwkjs_create_importer,
                         gwkjs_define_string_array, importer_new,
                      define_meta_properties, Defines
  <2>4. Known(searchPath, modules, props, meta) /\ registered \in BOOLEAN
    BY DEF Now, Full, Registered
  <2>5. MetaDefined(meta, Top.importer, Top.name, meta') /\ o \in DOMAIN meta'
    <3>1. o \notin DOMAIN meta
      BY <1>2, <2>4 DEF Known
    <3>2. o \in DOMAIN meta'
      BY <2>3 DEF Put
    <3> QED
      BY <2>3, <3>1, <3>2, MetaPut
  <2>6. /\ Known(searchPath', modules', props', meta')
        /\ DOMAIN searchPath \subseteq DOMAIN searchPath' /\ MarkedIn(modules') = MarkedIn(modules)
        /\ DOMAIN props' = DOMAIN props \union {o} /\ props'[o] = "importer"
    <3> DEFINE p == Top.importer
               n == Top.name
    <3>1. /\ <<p, n>> \in MarkedIn(modules) /\ <<p, n>> \notin DOMAIN props /\ o = <<p, n>>
          /\ NewImporter(searchPath, modules, props, meta, p, n, path,
                         searchPath', modules', props', meta')
      BY <1>2, <2>3, <2>5 DEF NewImporter
    <3> HIDE DEF p, n, o, P
    <3>2. /\ Known(searchPath', modules', props', meta')
          /\ ImporterAdded(searchPath, modules, props, <<p, n>>, searchPath', modules', props')
      BY ONLY <2>4, <3>1, ImporterKnown
    <3> QED
      BY ONLY <3>1, <3>2 DEF ImporterAdded
  <2>7. o # <<Root, cairoNative>>
    <3>1. Top.at > 0
      BY <1>1, <1>2 DEF Imports
    <3>2. ~gwkjs_is_registered_native_module(Top)
      BY <1>1, <1>2, <3>1 DEF FrameOK
    <3> QED
      BY <3>2, ImportsAssumption DEF gwkjs_is_registered_native_module
  <2> HIDE DEF o, r, P
  <2>8. Ends(modules, props, evaluated, registered, stack, r, o, modules', props', registered,
             "importer")
    BY ONLY <1>2, <2>4, <2>6, <2>7 DEF Ends
  <2>9. Full(searchPath', modules', props', meta', evaluated, resolving, namespaces, created,
             registered, loaded, stack')
    BY ONLY Now, <1>2, <2>3, <2>6, <2>8, Leave DEF Now
  <2> QED
    BY <1>1, <2>9 DEF Then, repoVars, foreignVars
<1> QED
  BY <1>3, <1>4 DEF do_import_returns

-----------------------------------------------------------------------------
(* The invariant holds initially and is kept.                              *)
LEMMA InitIInv == Init => IInv
<1> SUFFICES ASSUME Init PROVE Now
  BY DEF IInv, Now
<1>1. /\ searchPath = Put(<<>>, Root, IncludePath \o gwkjs_get_search_path)
      /\ modules = Put(<<>>, Root, {})
      /\ props = <<>> /\ meta = <<>> /\ evaluated = {} /\ resolving = {}
      /\ namespaces = [n \in Namespaces |-> 0] /\ created = 0
      /\ registered = FALSE /\ loaded = FALSE /\ stack = <<>>
  BY DEF Init, gwkjs_context_constructed, gwkjs_create_root_importer,
            gwkjs_define_string_array, gwkjs_create_importer, importer_new
<1>2. IncludePath \o gwkjs_get_search_path \in Seq(Directories)
  <2>1. /\ IncludePath \in Seq(Directories) /\ Environment \in Seq(Directories)
        /\ DataDirs \in Seq(Directories) /\ Resource \in Directories /\ DataDir \in Directories
    BY ImportsAssumption
  <2> QED
    BY <2>1 DEF gwkjs_get_search_path
<1>3. DOMAIN <<>> = {} /\ Root \in Seq(Names)
  BY DEF Root
<1>4. /\ DOMAIN searchPath = {Root} /\ searchPath \in [DOMAIN searchPath -> Seq(Directories)]
      /\ modules \in [DOMAIN searchPath -> SUBSET Names] /\ DOMAIN modules = {Root}
      /\ modules[Root] = {}
  BY <1>1, <1>2, <1>3 DEF Put
<1>5. MarkedIn(modules) = {}
  BY <1>4 DEF MarkedIn
<1>6. props \in [DOMAIN props -> Values] /\ DOMAIN props = {} /\ DOMAIN meta = {}
  BY <1>1, <1>3
<1>7. Known(searchPath, modules, props, meta)
  BY <1>3, <1>4, <1>5, <1>6 DEF Known
<1>8. /\ Chained(<<>>) /\ Apart(<<>>) /\ ImportedOf(<<>>) = {} /\ EvaluatingOf(<<>>) = {}
      /\ ResolvingOf(<<>>) = {} /\ ~Waiting(<<>>) /\ ~Missing(<<>>)
  <2>1. <<>> \in Seq(Frames) /\ (\A k : k \notin 1..Len(<<>>)) /\ (\A k : k \notin 1..(Len(<<>>) - 1))
    OBVIOUS
  <2> QED
    BY <2>1 DEF Chained, Apart, ImportedOf, EvaluatingOf, ResolvingOf, Waiting, Missing
<1>9. Marks(modules, props, evaluated, {}, {})
  BY <1>1, <1>5, <1>6 DEF Marks
<1>10. Resolved(searchPath, props, resolving, namespaces, created, {}, Waiting(stack), Native(stack))
  <2>1. SpacesTyped(resolving, namespaces, created)
    BY <1>1, ImportsAssumption DEF SpacesTyped
  <2> QED
    BY <1>1, <1>8, <2>1 DEF Resolved
<1>11. Registered(props, registered, loaded, Missing(stack))
  BY <1>1, <1>6, <1>8 DEF Registered
<1> QED
  BY <1>1, <1>7, <1>8, <1>9, <1>10, <1>11 DEF Now, Full

LEMMA AbortedStops == stack = <<Aborted>> => ~Next
<1> SUFFICES ASSUME stack = <<Aborted>> PROVE ~Next
  OBVIOUS
<1>1. stack # <<>> /\ Top = Aborted /\ Top.fn = "abort"
  BY DEF Top, Aborted
<1>2. \A fn : Runs(fn) => fn = "abort"
  BY <1>1 DEF Runs
<1>3. ~User
  BY <1>1, <1>2, UserUses DEF RunsJavaScript
<1>4. ~Step
  BY <1>2 DEF Step, import_native_file, repo_new_returns, do_import, do_import_returns,
              importer_new_enumerate, gwkjs_foreign_load_foreign_module,
              gwkjs_context_eval_returns, gwkjs_struct_foreign_convert,
              lookup_override_function, call_override, repo_get_property_returns
<1>5. ~UserEnds
  BY <1>2 DEF UserEnds, ModuleEnds, InitEnds, OverrideEnds
<1> QED
  BY <1>3, <1>4, <1>5 DEF Next

LEMMA NextFull ==
    ASSUME Now, Next
    PROVE  Then \/ (stack' = <<Aborted>> /\ UNCHANGED <<importerVars, repoVars>>)
<1>1. ASSUME InitEnds PROVE Then \/ (stack' = <<Aborted>> /\ UNCHANGED <<importerVars, repoVars>>)
  <2>1. UNCHANGED <<importerVars, repoVars>>
    BY <1>1 DEF InitEnds
  <2> QED
    BY <1>1, <2>1, InitEndsStep
<1>2. ASSUME Step PROVE Then
  BY <1>2, NativeStep, RepoReturnsStep, SearchStep, SearchEndsStep, EnumerateStep, LoadForeignStep,
     EvalReturnsStep, ConvertStep, LookupOverrideStep, CallOverrideStep, NamespaceReturnsStep DEF Step
<1> QED
  BY <1>1, <1>2, UserStep, ModuleEndsStep, OverrideEndsStep DEF Next, UserEnds

LEMMA NextIInv == IInv /\ [Next]_vars => IInv'
<1> SUFFICES ASSUME IInv, [Next]_vars PROVE IInv'
  OBVIOUS
<1>1. CASE UNCHANGED vars
  BY <1>1 DEF IInv, vars
<1>2. CASE Now /\ Next
  <2>1. CASE Then
    BY <2>1 DEF IInv, Then
  <2>2. CASE stack' = <<Aborted>> /\ UNCHANGED <<importerVars, repoVars>>
    <3>1. /\ Known(searchPath, modules, props, meta)
          /\ evaluated \subseteq MarkedIn(modules)
          /\ SpacesTyped(resolving, namespaces, created)
          /\ {registered, loaded} \subseteq BOOLEAN
      BY <1>2 DEF Now, Full, Marks, Resolved, Registered
    <3>2. /\ Known(searchPath', modules', props', meta')
          /\ evaluated' \subseteq MarkedIn(modules')
          /\ SpacesTyped(resolving', namespaces', created')
          /\ {registered', loaded'} \subseteq BOOLEAN
      BY <2>2, <3>1 DEF importerVars, repoVars, foreignVars
    <3> QED
      BY <2>2, <3>2 DEF IInv
  <2> QED
    BY <1>2, <2>1, <2>2, NextFull
<1>3. CASE stack = <<Aborted>> /\ Next
  BY <1>3, AbortedStops
<1> QED
  BY <1>1, <1>2, <1>3 DEF IInv, Now

-----------------------------------------------------------------------------
(* The invariant gives what the code that an import runs relies on.        *)
LEMMA MarkedIsMarkedIn == Marked = MarkedIn(modules)
  BY DEF Marked, MarkedIn

(* What is true of the importers, whatever is running.                     *)
LEMMA KnownTypes ==
    ASSUME Known(searchPath, modules, props, meta), evaluated \subseteq MarkedIn(modules),
           SpacesTyped(resolving, namespaces, created), {registered, loaded} \subseteq BOOLEAN,
           stack \in Seq(Frames \union {Aborted})
    PROVE  TypeOK /\ ParentsKnown /\ DOMAIN props \subseteq Marked
<1>1. DOMAIN props \subseteq (DOMAIN searchPath) \X Names
  <2>1. ASSUME NEW pn \in DOMAIN props PROVE pn \in (DOMAIN searchPath) \X Names
    <3>1. pn \in MarkedIn(modules)
      BY DEF Known
    <3>2. pn = <<pn[1], pn[2]>> /\ pn[1] \in DOMAIN modules /\ pn[2] \in modules[pn[1]]
      BY <3>1, MarkedPairs
    <3>3. modules \in [DOMAIN searchPath -> SUBSET Names]
      BY DEF Known
    <3> QED
      BY <3>2, <3>3
  <2> QED
    BY <2>1
<1>2. ParentsKnown
  <2>1. ASSUME NEW pn \in DOMAIN meta, meta[pn].parentModule # Root
        PROVE  LET p == meta[pn].parentModule
               IN  <<Front(p), Last(p)>> \in DOMAIN meta
                    /\ props[<<Front(p), Last(p)>>] = "importer"
    <3> DEFINE p == meta[pn].parentModule
    <3>1. pn \in DOMAIN props /\ p = pn[1]
      BY DEF Known
    <3>2. p \in DOMAIN searchPath
      BY <1>1, <3>1
    <3> HIDE DEF p
    <3>3. p # Root => <<Front(p), Last(p)>> \in DOMAIN meta
                        /\ props[<<Front(p), Last(p)>>] = "importer"
      BY <3>2 DEF Known
    <3> QED
      BY <2>1, <3>3 DEF p
  <2> QED
    BY <2>1 DEF ParentsKnown
<1>3. DOMAIN props \subseteq Marked /\ evaluated \subseteq Marked
  BY MarkedIsMarkedIn DEF Known
<1>4. /\ \A p \in DOMAIN searchPath : searchPath[p] \in Seq(Directories)
      /\ \A pn \in DOMAIN props : props[pn] \in Values
  BY DEF Known
<1>5. TypeOK
  BY <1>1, <1>3, <1>4 DEF TypeOK, Known, SpacesTyped, Frames
<1> QED
  BY <1>2, <1>3, <1>5

LEMMA FullIsSafe == Now => ReentrySafe
<1> SUFFICES ASSUME Now PROVE ReentrySafe
  OBVIOUS
<1>1. /\ Known(searchPath, modules, props, meta)
      /\ Marks(modules, props, evaluated, ImportedOf(stack), EvaluatingOf(stack))
      /\ Resolved(searchPath, props, resolving, namespaces, created, ResolvingOf(stack),
                  Waiting(stack), Native(stack))
      /\ Registered(props, registered, loaded, Missing(stack))
      /\ Chained(stack) /\ Apart(stack) /\ stack \in Seq(Frames)
  BY DEF Now, Full, Chained
<1>2. DOMAIN stack = 1..Len(stack)
  BY <1>1
<1>3. TypeOK /\ ParentsKnown /\ DOMAIN props \subseteq Marked
  <2>1. stack \in Seq(Frames \union {Aborted})
    BY <1>1
  <2> QED
    BY <1>1, <2>1, KnownTypes DEF Marks, Resolved, Registered
<1>4. /\ \A k \in Importing : k \in 1..Len(stack) /\ Own(stack[k]) = {Imported(k)}
      /\ \A k \in 1..Len(stack) : k \in Importing \/ Own(stack[k]) = {}
  BY <1>2 DEF Importing, Imported, Own, ImportFns
<1>5. ImportedOf(stack) = {Imported(k) : k \in Importing}
  <2>1. ASSUME NEW y
        PROVE  y \in ImportedOf(stack) <=> y \in {Imported(k) : k \in Importing}
    <3>1. y \in ImportedOf(stack) <=> \E k \in 1..Len(stack) : y \in Own(stack[k])
      BY DEF ImportedOf
    <3> QED
      BY <1>4, <3>1
  <2> QED
    BY <2>1
<1>6. MarksAccounted
  <2>1. \A k \in Importing : Imported(k) \in Marked \ DOMAIN props
    BY <1>1, <1>5, MarkedIsMarkedIn DEF Marks
  <2>2. ASSUME NEW j \in Importing, NEW k \in Importing, Imported(j) = Imported(k), j # k
        PROVE  FALSE
    <3>1. Different(stack[j], stack[k])
      BY <1>1, <1>4, <2>2 DEF Apart
    <3> QED
      BY <1>4, <2>2, <3>1 DEF Different
  <2>3. \A pn \in Marked :
            pn \in DOMAIN props \union evaluated \union {Imported(k) : k \in Importing}
    BY <1>1, <1>5, MarkedIsMarkedIn DEF Marks
  <2> QED
    BY <1>3, <2>1, <2>2, <2>3 DEF MarksAccounted
<1>7. NamespaceVisible
  <2>1. ASSUME NEW k \in DOMAIN stack, stack[k].fn = "resolve_namespace_object"
        PROVE  namespaces[stack[k].name] = stack[k].ns /\ stack[k].name \in resolving
    <3>1. <<stack[k].name, stack[k].ns>> \in ResolvingOf(stack)
      BY <1>2, <2>1 DEF ResolvingOf, Space
    <3> QED
      BY <1>1, <3>1 DEF Resolved
  <2> QED
    BY <2>1 DEF NamespaceVisible
<1>8. ForeignFound
  <2>1. ASSUME NEW k \in DOMAIN stack, IsMissing(stack[k])
        PROVE  ~registered /\ <<Root, cairoNative>> \notin DOMAIN props /\ loaded
    <3>1. Missing(stack)
      BY <1>2, <2>1 DEF Missing
    <3> QED
      BY <1>1, <3>1 DEF Registered
  <2> QED
    BY <2>1 DEF ForeignFound, IsMissing
<1> QED
  BY <1>3, <1>6, <1>7, <1>8 DEF ReentrySafe

LEMMA IInvIsSafe == IInv => ReentrySafe
<1> SUFFICES ASSUME IInv PROVE ReentrySafe
  OBVIOUS
<1>1. CASE Now
  BY <1>1, FullIsSafe
<1>2. CASE /\ stack = <<Aborted>>
           /\ Known(searchPath, modules, props, meta)
           /\ evaluated \subseteq MarkedIn(modules)
           /\ SpacesTyped(resolving, namespaces, created)
           /\ {registered, loaded} \subseteq BOOLEAN
  <2>1. stack \in Seq(Frames \union {Aborted})
    BY <1>2
  <2>2. TypeOK /\ ParentsKnown /\ DOMAIN props \subseteq Marked
    BY <1>2, <2>1, KnownTypes
  <2>3. \A k \in DOMAIN stack : stack[k].fn = "abort"
    BY <1>2 DEF Aborted
  <2>4. Importing = {}
    BY <2>3 DEF Importing
  <2>5. MarksAccounted
    BY <1>2, <2>2, <2>4 DEF MarksAccounted
  <2>6. NamespaceVisible /\ ForeignFound
    BY <2>3 DEF NamespaceVisible, ForeignFound
  <2> QED
    BY <2>2, <2>5, <2>6 DEF ReentrySafe
<1> QED
  BY <1>1, <1>2 DEF IInv, Now

(* The importers, the repository and the foreign structures are in a state *)
(* that code run by an import can work with, however imports nest, and     *)
(* whatever fails: no name is imported while it is being imported, what is *)
(* marked is accounted for, a namespace that is being resolved is visible. *)
THEOREM ImportsStaySafe == Spec => []ReentrySafe
<1>1. Spec => []IInv
  BY InitIInv, NextIInv, PTL DEF Spec
<1> QED
  BY <1>1, IInvIsSafe, PTL

-----------------------------------------------------------------------------
(* Only an import evaluates a file.                                        *)
LEMMA HeadOf ==
    ASSUME NEW S, NEW s \in Seq(S), NEW x
    PROVE  Head(<<x>> \o s) = x
<1>1. s \in Seq(S \union {x}) /\ <<x>> \in Seq(S \union {x})
  OBVIOUS
<1>2. <<x>> \o s \in Seq(S \union {x}) /\ (<<x>> \o s)[1] = x
  BY <1>1
<1> QED
  BY <1>2

LEMMA TopSet ==
    ASSUME NEW S, NEW s \in Seq(S), s # <<>>, NEW y
    PROVE  [s EXCEPT ![1] = y] \in Seq(S \union {y}) /\ Len([s EXCEPT ![1] = y]) = Len(s)
<1> DEFINE t == [s EXCEPT ![1] = y]
<1>1. Len(s) \in Nat /\ DOMAIN s = 1..Len(s)
  OBVIOUS
<1>2. t \in [1..Len(s) -> S \union {y}]
  BY <1>1
<1> HIDE DEF t
<1>3. t \in Seq(S \union {y}) /\ Len(t) = Len(s)
  BY <1>1, <1>2, LenProperties
<1> QED
  BY <1>3 DEF t

(* The value returned to them leaves callers as many as they are.          *)
LEMMA ReturnedLength ==
    ASSUME NEW S, NEW s \in Seq(S), NEW value
    PROVE  Len(Returned(s, value)) = Len(s)
<1>1. CASE s # <<>> /\ Head(s).fn = "resolve_namespace_object"
  <2> DEFINE x == [Head(s) EXCEPT !.step = AfterLookup(@, value)]
  <2>1. Returned(s, value) = <<x>> \o Tail(s)
    BY <1>1 DEF Returned
  <2> HIDE DEF x
  <2>2. Tail(s) \in Seq(S) /\ Len(Tail(s)) = Len(s) - 1 /\ Len(s) \in Nat
    BY <1>1
  <2>3. Tail(s) \in Seq(S \union {x}) /\ <<x>> \in Seq(S \union {x})
    BY <2>2
  <2>4. Len(<<x>> \o Tail(s)) = 1 + Len(Tail(s))
    BY <2>3
  <2> QED
    BY <2>1, <2>2, <2>4
<1>2. CASE ~(s # <<>> /\ Head(s).fn = "resolve_namespace_object")
  BY <1>2 DEF Returned
<1> QED
  BY <1>1, <1>2

LEMMA GetEvaluatesNothing ==
    ASSUME NEW S, NEW callers \in Seq(S), Len(callers) = Len(stack),
           NEW p, NEW name, importer_get_property(p, name, callers)
    PROVE  ~EvaluatesFile
<1>1. CASE stack' = <<Import(p, name)>> \o callers
  <2>1. Head(stack') = Import(p, name)
    BY <1>1, HeadOf
  <2> QED
    BY <2>1 DEF EvaluatesFile, Import
<1>2. ASSUME NEW value, stack' = Returned(callers, value) PROVE ~EvaluatesFile
  <2>1. Len(stack') = Len(callers) /\ Len(callers) \in Nat
    BY <1>2, ReturnedLength
  <2> QED
    BY <2>1 DEF EvaluatesFile
<1> QED
  BY <1>1, <1>2 DEF importer_get_property

(* Nor does what JavaScript does at once.                                  *)
LEMMA UsesEvaluateNothing ==
    ASSUME NEW S, NEW callers \in Seq(S), Len(callers) = Len(stack), Uses(callers)
    PROVE  ~EvaluatesFile
<1>1. ASSUME NEW p, NEW name, importer_get_property(p, name, callers) PROVE ~EvaluatesFile
  BY <1>1, GetEvaluatesNothing
<1>2. ASSUME NEW name, repo_get_property(name, callers) PROVE ~EvaluatesFile
  <2> DEFINE x == [fn |-> "resolve_namespace_object", name |-> name, ns |-> created',
                   step |-> "overrides"]
  <2>1. stack' = <<x>> \o callers
    BY <1>2 DEF repo_get_property, Resolve
  <2>2. x.fn = "resolve_namespace_object"
    OBVIOUS
  <2> HIDE DEF x
  <2>3. Head(stack') = x
    BY <2>1, HeadOf
  <2> QED
    BY <2>2, <2>3 DEF EvaluatesFile
<1>3. ASSUME NEW p, stack' = <<[fn |-> "importer_new_enumerate", path |-> searchPath[p],
                                at |-> 1]>> \o callers
      PROVE  ~EvaluatesFile
  <2>1. Head(stack').fn = "importer_new_enumerate"
    BY <1>3, HeadOf
  <2> QED
    BY <2>1 DEF EvaluatesFile
<1>4. CASE stack' = callers
  <2>1. Len(callers) \in Nat
    OBVIOUS
  <2> QED
    BY <1>4, <2>1 DEF EvaluatesFile
<1>5. CASE gwkjs_struct_foreign_lookup(callers)
  <2> DEFINE x == [fn |-> "gwkjs_struct_foreign_lookup",
                   step |-> IF registered THEN "found" ELSE "lookup"]
  <2>1. stack' = <<x>> \o callers /\ x.fn = "gwkjs_struct_foreign_lookup"
    BY <1>5 DEF gwkjs_struct_foreign_lookup
  <2> HIDE DEF x
  <2>2. Head(stack') = x
    BY <2>1, HeadOf
  <2> QED
    BY <2>1, <2>2 DEF EvaluatesFile
<1> QED
  BY <1>1, <1>2, <1>3, <1>4, <1>5 DEF Uses

LEMMA ImportEvaluates ==
    ASSUME Now, Next, EvaluatesFile PROVE stack # <<>> /\ Top.fn \in ImportFns
<1>0. stack \in Seq(Frames) /\ Len(stack) \in Nat /\ \A fn : Runs(fn) => stack # <<>> /\ Top.fn = fn
  BY DEF Now, Full, Chained, Runs
<1>1. ~User
  <2>1. CASE stack = <<>> /\ Uses(<<>>)
    <3>1. <<>> \in Seq(Frames) /\ Len(<<>>) = Len(stack)
      BY <2>1
    <3> QED
      BY <2>1, <3>1, UsesEvaluateNothing
  <2>2. CASE RunsJavaScript /\ Uses([stack EXCEPT ![1].uses = @ + 1])
    <3> DEFINE y == [stack[1] EXCEPT !.uses = @ + 1]
               t == [stack EXCEPT ![1] = y]
    <3>1. stack # <<>>
      BY <1>0, <2>2 DEF RunsJavaScript
    <3>2. t = [stack EXCEPT ![1].uses = @ + 1]
      BY <1>0, <3>1
    <3>3. Uses(t)
      BY <2>2, <3>2
    <3> HIDE DEF y
    <3>4. t \in Seq(Frames \union {y}) /\ Len(t) = Len(stack)
      BY <1>0, <3>1, TopSet
    <3> HIDE DEF t
    <3> QED
      BY <3>3, <3>4, UsesEvaluateNothing
  <2> QED
    BY <2>1, <2>2, UserUses
<1>2. ~importer_new_enumerate
  <2>1. CASE stack' = Tail(stack)
    BY <1>0, <2>1 DEF EvaluatesFile
  <2>2. ASSUME NEW d, LooksInto(d) PROVE FALSE
    <3>1. Head(stack').fn = "load_module_init"
      BY <1>0, <2>2, HeadOf DEF LooksInto
    <3> QED
      BY <3>1 DEF EvaluatesFile
  <2>3. ASSUME stack' = [stack EXCEPT ![1].at = @ + 1], stack # <<>> PROVE FALSE
    <3> DEFINE y == [stack[1] EXCEPT !.at = @ + 1]
    <3>1. stack' = [stack EXCEPT ![1] = y]
      BY <1>0, <2>3
    <3> HIDE DEF y
    <3>2. Len(stack') = Len(stack)
      BY <1>0, <2>3, <3>1, TopSet
    <3> QED
      BY <1>0, <3>2 DEF EvaluatesFile
  <2> QED
    BY <1>0, <2>1, <2>2, <2>3 DEF importer_new_enumerate, load_module_elements
<1>3. ASSUME NEW step, stack # <<>>
      PROVE  [stack EXCEPT ![1].step = step] \in Seq(Frames \union {[stack[1] EXCEPT !.step = step]})
                /\ Len([stack EXCEPT ![1].step = step]) = Len(stack)
  <2> DEFINE y == [stack[1] EXCEPT !.step = step]
  <2>1. [stack EXCEPT ![1].step = step] = [stack EXCEPT ![1] = y]
    BY <1>0, <1>3
  <2> HIDE DEF y
  <2>2. [stack EXCEPT ![1] = y] \in Seq(Frames \union {y}) /\ Len([stack EXCEPT ![1] = y]) = Len(stack)
    BY <1>0, <1>3, TopSet
  <2> QED
    BY <2>1, <2>2 DEF y
<1>4. stack # <<>> => ~LooksAgain
  <2>1. stack # <<>> /\ LooksAgain => Len(stack') = Len(stack)
    BY <1>3 DEF LooksAgain
  <2> QED
    BY <1>0, <2>1 DEF EvaluatesFile
<1>5. ~gwkjs_foreign_load_foreign_module
  <2>1. ASSUME stack # <<>>, importer_get_property(Root, cairo, [stack EXCEPT ![1].step = "load"])
        PROVE  FALSE
    <3> DEFINE t == [stack EXCEPT ![1].step = "load"]
    <3>1. PICK y : t \in Seq(Frames \union {y}) /\ Len(t) = Len(stack)
      BY <1>3, <2>1
    <3>2. importer_get_property(Root, cairo, t)
      BY <2>1
    <3> HIDE DEF t
    <3> QED
      BY <3>1, <3>2, GetEvaluatesNothing
  <2> QED
    BY <1>0, <1>4, <2>1 DEF gwkjs_foreign_load_foreign_module
<1>6. ~gwkjs_context_eval_returns
  BY <1>0, <1>4 DEF gwkjs_context_eval_returns
<1>7. stack # <<>> => stack' # Tail(stack)
  BY <1>0 DEF EvaluatesFile
<1>8. ~gwkjs_struct_foreign_convert /\ ~repo_get_property_returns /\ ~OverrideEnds
  BY <1>0, <1>7 DEF gwkjs_struct_foreign_convert, repo_get_property_returns, OverrideEnds
<1>9. ~lookup_override_function
  BY <1>0, GetEvaluatesNothing DEF lookup_override_function
<1>10. ~call_override
  <2> DEFINE x == [fn |-> "override", name |-> Top.name, uses |-> 0]
             y == [Top EXCEPT !.step = "return"]
  <2>1. ASSUME call_override PROVE stack' = <<x, y>> \o Tail(stack) /\ stack # <<>>
    BY <1>0, <2>1 DEF call_override
  <2>2. x.fn = "override"
    OBVIOUS
  <2> HIDE DEF x, y
  <2>3. stack # <<>> => Head(<<x, y>> \o Tail(stack)) = x
    <3> SUFFICES ASSUME stack # <<>> PROVE Head(<<x, y>> \o Tail(stack)) = x
      OBVIOUS
    <3>1. Tail(stack) \in Seq(Frames \union {x, y}) /\ <<x, y>> \in Seq(Frames \union {x, y})
      BY <1>0
    <3>2. <<x, y>> \o Tail(stack) \in Seq(Frames \union {x, y}) /\ (<<x, y>> \o Tail(stack))[1] = x
      BY <3>1
    <3> QED
      BY <3>2
  <2> QED
    BY <2>1, <2>2, <2>3 DEF EvaluatesFile
<1>11. ~ModuleEnds
  <2>1. ASSUME NEW value, Runs("import_file_on_module"), stack' = Returned(Tail(Tail(stack)), value)
        PROVE  FALSE
    <3>0. stack # <<>> /\ Head(stack).fn = "import_file_on_module"
      BY <1>0, <2>1 DEF Top
    <3>1. Len(stack) > 1
      <4>1. PICK f, o : f = stack[2] /\ o = <<f.importer, f.name>>
        OBVIOUS
      <4> QED
        BY <3>0, <4>1, UnderFile DEF Now
    <3>2. Tail(stack) \in Seq(Frames) /\ Len(Tail(stack)) = Len(stack) - 1
      BY <1>0, <3>1
    <3>3. Tail(Tail(stack)) \in Seq(Frames) /\ Len(Tail(Tail(stack))) = Len(stack) - 2
      <4> DEFINE q == Tail(stack)
      <4>1. q \in Seq(Frames) /\ Len(q) = Len(stack) - 1
        BY <3>2
      <4> HIDE DEF q
      <4>2. q # <<>>
        BY <1>0, <3>1, <4>1
      <4>3. Tail(q) \in Seq(Frames) /\ Len(Tail(q)) = Len(q) - 1
        BY <4>1, <4>2
      <4> QED
        BY <1>0, <4>1, <4>3 DEF q
    <3>4. Len(stack') = Len(stack) - 2
      BY <2>1, <3>3, ReturnedLength
    <3> QED
      BY <1>0, <3>4 DEF EvaluatesFile
  <2> QED
    BY <2>1 DEF ModuleEnds, Defines
<1>12. ~InitEnds
  <2>1. stack' # <<Aborted>>
    BY DEF EvaluatesFile, Aborted
  <2>2. ASSUME NEW y, stack # <<>>, Tail(stack) # <<>>, stack' = [Tail(stack) EXCEPT ![1] = y]
        PROVE  FALSE
    <3>1. Tail(stack) \in Seq(Frames) /\ Len(Tail(stack)) = Len(stack) - 1
      BY <1>0, <2>2
    <3>2. Len(stack') = Len(stack) - 1
      BY <2>2, <3>1, TopSet
    <3> QED
      BY <1>0, <3>2 DEF EvaluatesFile
  <2>3. ASSUME Runs("load_module_init") PROVE stack # <<>> /\ Tail(stack) # <<>>
    <3>1. stack # <<>> /\ Head(stack).fn = "load_module_init"
      BY <1>0, <2>3 DEF Top
    <3>2. Tail(stack) = <<>> => Alone(Head(stack))
      BY <3>1, Pop DEF Now, Full
    <3> QED
      BY <3>1, <3>2 DEF Alone
  <2>4. stack # <<>> => Tail(stack) \in Seq(Frames)
    BY <1>0
  <2>5. ASSUME Runs("load_module_init"), stack' = [Tail(stack) EXCEPT ![1].looked = TRUE] PROVE FALSE
    BY <2>2, <2>3, <2>4, <2>5
  <2>6. ASSUME Runs("load_module_init"), stack' = [Tail(stack) EXCEPT ![1].at = @ + 1] PROVE FALSE
    BY <2>2, <2>3, <2>4, <2>6
  <2> QED
    BY <2>1, <2>5, <2>6 DEF InitEnds
<1>13. import_native_file \/ repo_new_returns \/ do_import \/ do_import_returns
  BY <1>1, <1>2, <1>5, <1>6, <1>8, <1>9, <1>10, <1>11, <1>12 DEF Next, Step, UserEnds
<1> QED
  BY <1>0, <1>13 DEF import_native_file, repo_new_returns, do_import, do_import_returns, ImportFns

LEMMA NextEvaluatesOnce ==
    IInv /\ [Next]_vars => [EvaluatesFile => <<Top.importer, Top.name>> \notin evaluated]_vars
<1> SUFFICES ASSUME IInv, Next, EvaluatesFile
             PROVE  <<Top.importer, Top.name>> \notin evaluated
  OBVIOUS
<1>1. Now
  BY AbortedStops DEF IInv, Now
<1> QED
  BY <1>1, ImportEvaluates, TopImporting

-----------------------------------------------------------------------------
(* What is stored under a name comes from the first element that has it.   *)
LEMMA LeastExists ==
    ASSUME NEW S \in SUBSET Nat, IsFiniteSet(S), S # {}
    PROVE  Min(S) \in S /\ \A j \in S : Min(S) <= j
<1> DEFINE m == Nth(S, 1)
           upTo == {j \in S : j <= m}
<1>1. Cardinality(S) \in Nat /\ Cardinality(S) # 0
  BY FS_CardinalityType, FS_EmptySet
<1>2. m \in S /\ Cardinality(upTo) = 1
  BY <1>1, NthIndex
<1> HIDE DEF m
<1>3. m \in Nat /\ m \in upTo
  BY <1>2
<1>4. IsFiniteSet(upTo)
  BY FS_Subset
<1>5. upTo = {m}
  <2>1. PICK x : upTo = {x}
    BY <1>2, <1>4, FS_Singleton
  <2> HIDE DEF upTo
  <2> QED
    BY <1>3, <2>1
<1>6. ASSUME NEW j \in S PROVE m <= j
  <2>1. j \in Nat /\ (j <= m => j \in {m})
    BY <1>5
  <2> QED
    BY <1>3, <2>1
<1>7. \E x \in S : \A j \in S : x <= j
  BY <1>2, <1>6
<1> QED
  BY <1>7 DEF Min

LEMMA HavingIndices ==
    ASSUME NEW f \in Imports
    PROVE  /\ Elements(f) = 1..Len(f.path) /\ Len(f.path) \in Nat
           /\ Having(f) \in SUBSET Nat /\ IsFiniteSet(Having(f))
<1>1. Elements(f) = 1..Len(f.path) /\ Len(f.path) \in Nat
  BY DEF Imports, Elements
<1>2. Having(f) \in SUBSET (1..Len(f.path)) /\ IsFiniteSet(1..Len(f.path))
  BY <1>1, FS_Interval DEF Having
<1>3. IsFiniteSet(Having(f))
  BY ONLY <1>2, FS_Subset
<1> QED
  BY <1>1, <1>2, <1>3

(* The file that is evaluated.                                             *)
LEMMA FileIsFirst ==
    ASSUME NEW f \in Imports, Searched(f), f.at \in Elements(f), ~HasDirectory(f, f.at),
           DirectoriesFound(f) = {}, HasFile(f, f.at)
    PROVE  Min(Having(f)) = f.at
<1>1. /\ Elements(f) = 1..Len(f.path) /\ Len(f.path) \in Nat
      /\ Having(f) \in SUBSET Nat /\ IsFiniteSet(Having(f))
  BY HavingIndices
<1>2. f.at \in Having(f)
  BY DEF Having
<1>3. ASSUME NEW k \in Having(f), k < f.at PROVE FALSE
  <2>1. k \in Elements(f) /\ (HasDirectory(f, k) \/ HasFile(f, k))
    BY DEF Having
  <2>2. \A j \in Elements(f) : j < f.at => ~HasDirectory(f, j)
    BY DEF DirectoriesFound
  <2>3. PICK j \in Elements(f) : j < k /\ HasDirectory(f, j)
    BY <1>3, <2>1, <2>2 DEF Searched
  <2>4. j < f.at
    BY <1>1, <1>3, <2>1, <2>3
  <2> QED
    BY <2>2, <2>3, <2>4
<1>4. Min(Having(f)) \in Having(f) /\ \A j \in Having(f) : Min(Having(f)) <= j
  BY <1>1, <1>2, LeastExists
<1>5. Min(Having(f)) <= f.at /\ ~(Min(Having(f)) < f.at)
  BY <1>2, <1>3, <1>4
<1>6. Min(Having(f)) \in Nat /\ f.at \in Nat
  BY <1>1, <1>2, <1>4
<1> QED
  BY <1>5, <1>6

(* The directories found.                                                  *)
LEMMA DirectoryIsFirst ==
    ASSUME NEW f \in Imports, Searched(f), f.at = Len(f.path) + 1, DirectoriesFound(f) # {}
    PROVE  /\ HasDirectory(f, Min(Having(f)))
           /\ DirectoriesFound(f) = {j \in Having(f) : HasDirectory(f, j)}
<1>1. /\ Elements(f) = 1..Len(f.path) /\ Len(f.path) \in Nat
      /\ Having(f) \in SUBSET Nat /\ IsFiniteSet(Having(f))
  BY HavingIndices
<1>2. \A k \in Elements(f) : k < f.at
  BY <1>1
<1>3. DirectoriesFound(f) = {j \in Having(f) : HasDirectory(f, j)}
  BY <1>2 DEF DirectoriesFound, Having
<1> DEFINE m == Min(Having(f))
<1>4. m \in Having(f) /\ \A j \in Having(f) : m <= j
  BY <1>1, <1>3, LeastExists
<1> HIDE DEF m
<1>5. m \in Elements(f) /\ m \in Nat /\ (HasDirectory(f, m) \/ HasFile(f, m))
  BY <1>1, <1>4 DEF Having
<1>6. ASSUME ~HasDirectory(f, m) PROVE FALSE
  <2>1. PICK j \in Elements(f) : j < m /\ HasDirectory(f, j)
    BY <1>2, <1>5, <1>6 DEF Searched
  <2>2. j \in Having(f) /\ j \in Nat
    BY <1>1, <2>1 DEF Having
  <2> QED
    BY <1>4, <1>5, <2>1, <2>2
<1> QED
  BY <1>3, <1>6 DEF m

(* The one import under way of a name.                                     *)
LEMMA ImportOfIs ==
    ASSUME Now, NEW k \in 1..Len(stack), stack[k].fn \in ImportFns
    PROVE  ImportOf(<<stack[k].importer, stack[k].name>>) = stack[k]
<1>1. k \in Importing /\ Imported(k) = <<stack[k].importer, stack[k].name>>
  BY DEF Now, Full, Chained, Importing, Imported, ImportFns
<1>2. \A i, j \in Importing : Imported(i) = Imported(j) => i = j
  BY FullIsSafe DEF ReentrySafe, MarksAccounted
<1>3. (CHOOSE i \in Importing : Imported(i) = Imported(k)) = k
  BY <1>1, <1>2
<1> QED
  BY <1>1, <1>3 DEF ImportOf

(* Which imports define a name.                                            *)
LEMMA Defined ==
    ASSUME NEW f, NEW value, NEW callers, Defines(f, value, callers),
           NEW pn \in DOMAIN props' \ DOMAIN props
    PROVE  pn = <<f.importer, f.name>> /\ props'[pn] = value
  BY DEF Defines, Put

LEMMA TopIsImported ==
    ASSUME Now, stack # <<>>, Top.fn \in ImportFns,
           NEW pn, pn = <<Top.importer, Top.name>>
    PROVE  ImportOf(pn) = Top
<1>1. stack[1] = Top /\ 1 \in 1..Len(stack)
  BY TopOf
<1> QED
  BY <1>1, ImportOfIs

LEMMA ModuleInOrder ==
    ASSUME Now, ModuleEnds, NEW pn \in DOMAIN props' \ DOMAIN props
    PROVE  InOrder(pn)
<1>1. stack # <<>> /\ Head(stack).fn = "import_file_on_module" /\ Top = Head(stack)
  BY DEF ModuleEnds, Runs, Top
<1>2. PICK f, o : f = stack[2] /\ o = <<f.importer, f.name>>
  OBVIOUS
<1>3. f \in Imports /\ FrameOK(f) /\ Evaluating(Top, f) /\ Len(stack) > 1
  BY <1>1, <1>2, UnderFile DEF Now
<1>4. Defines(f, "module", Tail(Tail(stack))) /\ define_meta_properties(f, Append(Top.dir, f.name))
  <2>1. props' # props
    OBVIOUS
  <2>2. ASSUME cancel_import(f) PROVE FALSE
    BY <2>2 DEF cancel_import, Restrict
  <2> QED
    BY <1>2, <2>2 DEF ModuleEnds
<1>5. pn = o /\ props'[pn] = "module"
  BY <1>2, <1>4, Defined
<1>6. ImportOf(pn) = f
  <2>1. 2 \in 1..Len(stack)
    BY <1>3, TopOf, <1>1
  <2>2. f.fn \in ImportFns
    BY <1>3 DEF Evaluating, ImportFns
  <2> QED
    BY <1>2, <1>5, <2>1, <2>2, ImportOfIs
<1>7. /\ f.at \in Elements(f) /\ Top.dir = f.path[f.at] /\ ~HasDirectory(f, f.at)
      /\ DirectoriesFound(f) = {} /\ HasFile(f, f.at) /\ Append(Top.dir, f.name) \notin Unreadable
      /\ Searched(f)
  BY <1>3 DEF Evaluating, FrameOK
<1>8. Min(Having(f)) = f.at
  BY <1>3, <1>7, FileIsFirst
<1>9. meta'[pn].file = Append(Top.dir, f.name)
  BY <1>2, <1>4, <1>5 DEF define_meta_properties, Put
<1> QED
  BY <1>5, <1>6, <1>7, <1>8, <1>9 DEF InOrder

LEMMA ImporterInOrder ==
    ASSUME Now, do_import_returns, NEW pn \in DOMAIN props' \ DOMAIN props
    PROVE  InOrder(pn)
<1>1. stack # <<>> /\ Top.fn = "do_import" /\ Top.at = Len(Top.path) + 1
  BY DEF do_import_returns, Runs
<1>2. Top \in Imports /\ FrameOK(Top)
  BY <1>1, TopImporting DEF ImportFns
<1>3. import_directory(Top) /\ DirectoriesFound(Top) # {}
  BY DEF do_import_returns
<1> DEFINE found == DirectoriesFound(Top)
           path  == [k \in 1..Cardinality(found) |-> Append(Top.path[Nth(found, k)], Top.name)]
<1>4. gwkjs_define_importer(Top, path)
  BY <1>3 DEF import_directory
<1>5. path \in Seq(Directories) /\ ToSet(path) = {Append(Top.path[k], Top.name) : k \in found}
  BY <1>2, FoundDirectories
<1> HIDE DEF found, path
<1>6. pn = <<Top.importer, Top.name>> /\ props'[pn] = "importer"
  <2>1. Defines(Top, "importer", Tail(stack))
    BY <1>4 DEF gwkjs_define_importer
  <2> QED
    BY <2>1, Defined
<1>7. searchPath'[Append(pn[1], pn[2])] = path
  <2>1. path \o <<>> = path /\ Append(pn[1], pn[2]) = Append(Top.importer, Top.name)
    BY <1>5, <1>6
  <2> QED
    BY <1>4, <2>1 DEF gwkjs_define_importer, gwkjs_create_importer,
                         gwkjs_define_string_array, Put
<1>8. ImportOf(pn) = Top
  BY <1>1, <1>6, TopIsImported DEF ImportFns
<1>9. HasDirectory(Top, Min(Having(Top))) /\ found = {j \in Having(Top) : HasDirectory(Top, j)}
  BY <1>1, <1>2, <1>3, DirectoryIsFirst DEF found, FrameOK
<1>10. /\ ToSet(searchPath'[Append(pn[1], pn[2])]) =
            {Append(Top.path[k], Top.name) : k \in {j \in Having(Top) : HasDirectory(Top, j)}}
       /\ props'[pn] # "module"
  <2>1. props'[pn] # "module"
    BY <1>6
  <2> QED
    BY ONLY <1>5, <1>7, <1>9, <2>1
<1> QED
  BY ONLY <1>8, <1>9, <1>10 DEF InOrder

LEMMA OtherInOrder ==
    ASSUME Now, Next, ~ModuleEnds, ~do_import_returns, NEW pn \in DOMAIN props' \ DOMAIN props
    PROVE  InOrder(pn)
<1>1. props' # props
  OBVIOUS
<1>2. \A callers : ~Uses(callers)
  BY <1>1 DEF Uses, importer_get_property, repo_get_property, gwkjs_struct_foreign_lookup, importerVars
<1>3. /\ ~User /\ ~InitEnds /\ ~OverrideEnds /\ ~importer_new_enumerate
      /\ ~gwkjs_foreign_load_foreign_module /\ ~gwkjs_context_eval_returns
      /\ ~gwkjs_struct_foreign_convert
      /\ ~lookup_override_function /\ ~call_override /\ ~repo_get_property_returns
  BY <1>1, <1>2, UserUses DEF InitEnds, OverrideEnds, importer_new_enumerate, load_module_elements, LooksInto,
     gwkjs_foreign_load_foreign_module, gwkjs_context_eval_returns, gwkjs_struct_foreign_convert,
     lookup_override_function, importer_get_property, call_override, repo_get_property_returns,
     importerVars
<1>4. ASSUME NEW callers, Defines(Top, "native", callers) PROVE InOrder(pn)
  BY <1>4, Defined DEF InOrder
<1>5. ASSUME do_import PROVE InOrder(pn)
  <2>1. stack # <<>> /\ Top.fn \in ImportFns
    BY <1>5 DEF do_import, Runs, ImportFns
  <2>2. ~cancel_import(Top) /\ ~LooksInto(Top.path[Top.at]) /\ ~UNCHANGED importerVars
    BY <1>1 DEF cancel_import, Restrict, LooksInto, importerVars
  <2>3. Top.looked /\ Defines(Top, "module", Tail(stack))
    BY <1>1, <1>5, <2>2 DEF do_import
  <2>4. pn = <<Top.importer, Top.name>> /\ props'[pn] = "module"
    BY <2>3, Defined
  <2>5. ImportOf(pn) = Top
    BY <2>1, <2>4, TopIsImported
  <2> QED
    BY <2>3, <2>4, <2>5 DEF InOrder
<1>6. ASSUME import_native_file PROVE InOrder(pn)
  BY <1>1, <1>4, <1>6 DEF import_native_file, importerVars
<1>7. ASSUME repo_new_returns PROVE InOrder(pn)
  BY <1>4, <1>7 DEF repo_new_returns
<1> QED
  BY <1>3, <1>5, <1>6, <1>7 DEF Next, Step, UserEnds

LEMMA NextFoundInOrder ==
    IInv /\ [Next]_vars => [\A pn \in DOMAIN props' \ DOMAIN props : InOrder(pn)]_vars
<1> SUFFICES ASSUME IInv, Next, NEW pn \in DOMAIN props' \ DOMAIN props PROVE InOrder(pn)
  OBVIOUS
<1>1. Now
  BY AbortedStops DEF IInv, Now
<1> QED
  BY <1>1, ModuleInOrder, ImporterInOrder, OtherInOrder

(* Whatever is imported in circles, fails or sets the search path: the     *)
(* file for a name is evaluated at most once, and what is stored under the *)
(* name is from the first element of the search path that has it.          *)
THEOREM ModulesStayRight == Spec => ModulesRight
<1>1. Spec => []IInv
  BY InitIInv, NextIInv, PTL DEF Spec
<1>2. Spec => EvaluatedOnce
  BY <1>1, NextEvaluatesOnce, PTL DEF Spec, EvaluatedOnce
<1>3. Spec => FoundInOrder
  BY <1>1, NextFoundInOrder, PTL DEF Spec, FoundInOrder
<1> QED
  BY <1>2, <1>3 DEF ModulesRight
=============================================================================

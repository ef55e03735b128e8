------------------------------ MODULE Variants ------------------------------
(***************************************************************************)
(* modules/overrides/GLib.js: new GLib.Variant(signature, value) and       *)
(* deep_unpack.  A signature is a sequence of type characters, of which    *)
(* the functions of the module shift off what they have read; each result  *)
(* has the rest of it.  The constructors and accessors of GVariant are     *)
(* external; the simple types are converted as any argument is (Marshal),  *)
(* on the contract that a call that fails throws.                          *)
(***************************************************************************)
EXTENDS Marshal

CONSTANTS
    Types,              \* types, as trees [kind, sub]
    Signatures,         \* what is given for a signature
    Packed(_)           \* the JavaScript values tried for one

VARIABLES
    sig, given,         \* what new GLib.Variant is given
    at,
    packed,             \* what _pack_variant gave, and the rest of the signature
    got                 \* what unpack or deep_unpack gave

variantVars == <<sig, given, at, packed, got>>

(* The simple types stand for the others of SIMPLE_TYPES.                  *)
SIMPLE_TYPES == {"b", "y", "i", "s"}
TagOf == [char \in SIMPLE_TYPES |->
            CASE char = "b" -> "boolean" [] char = "y" -> "uint8"
              [] char = "i" -> "int32"   [] char = "s" -> "utf8"]
TypeOf(char)  == [tag |-> TagOf[char], iface |-> "none", array |-> "none", sub |-> << >>]
StringArray   == [tag |-> "array", iface |-> "none", array |-> "zero", sub |-> <<TypeOf("s")>>]

-----------------------------------------------------------------------------
Read(type, rest) == [ok |-> TRUE, type |-> type, rest |-> rest]
NotRead          == [ok |-> FALSE, type |-> << >>, rest |-> << >>]
Prefixed(s, r)   == IF r.ok THEN Read(s \o r.type, r.rest) ELSE NotRead

(* The closing character is next, and shifted.                             *)
Closed(r, close) ==
    IF r.ok /\ r.rest # << >> /\ Head(r.rest) = close
    THEN Read(Append(r.type, close), Tail(r.rest)) ELSE NotRead

RECURSIVE _read_single_type(_, _), ReadElements(_)
_read_single_type(signature, forceSimple) ==
    IF signature = << >> THEN NotRead ELSE
    LET char == Head(signature)
        rest == Tail(signature)
    IN IF char \in SIMPLE_TYPES THEN Read(<<char>>, rest)
       ELSE IF forceSimple THEN NotRead
       ELSE CASE char \in {"m", "a"} -> Prefixed(<<char>>, _read_single_type(rest, FALSE))
         [] char = "{" ->
                LET key == _read_single_type(rest, TRUE)
                    val == _read_single_type(key.rest, FALSE)
                IN IF key.ok THEN Closed(Prefixed(<<char>> \o key.type, val), "}") ELSE NotRead
         [] char = "(" -> Prefixed(<<char>>, ReadElements(rest))
         [] char = "v" -> Read(<<char>>, rest)
         [] OTHER -> NotRead

(* The elements of a tuple, and its end.                                   *)
ReadElements(signature) ==
    CASE signature = << >> -> NotRead
      [] signature # << >> /\ Head(signature) = ")" -> Read(<<")">>, Tail(signature))
      [] OTHER ->
            LET el == _read_single_type(signature, FALSE)
            IN IF el.ok THEN Prefixed(el.type, ReadElements(el.rest)) ELSE NotRead

-----------------------------------------------------------------------------
(* A GVariant is of a kind, with a C value or the variants it is made of.  *)
Variant(kind, c, children) == [kind |-> kind, c |-> c, children |-> children]
VariantJS(v)   == JS("variant", 0, <<v>>)

Packs(v, rest) == [ok |-> TRUE, variant |-> v, rest |-> rest]
NotPacked      == [ok |-> FALSE, variant |-> Variant("none", NULL, << >>), rest |-> << >>]

HasNoValue(v)  == v.is \in {"null", "undefined"}

(* value.length and value[i]: a string has its characters; what has no     *)
(* length has no elements.                                                 *)
Items(v) ==
    CASE v.is = "array"  -> v.sub
      [] v.is = "string" -> IF v.n = 0 THEN << >> ELSE <<v>>
      [] OTHER           -> << >>

(* for (key in value), each with its value.                                *)
Entries(v) ==
    IF v.is = "dict"
    THEN [i \in 1..(Len(v.sub) \div 2) |-> JS("array", 0, <<v.sub[2 * i - 1], v.sub[2 * i]>>)]
    ELSE << >>

PackSimple(char, rest, value) ==
    {IF r.ok THEN Packs(Variant(char, r.c, << >>), rest) ELSE NotPacked :
        r \in ToC(TypeOf(char), "nothing", FALSE, value)}

(* An array of strings is passed to C as it is.                            *)
PackStrings(rest, value) ==
    {IF r.ok THEN Packs(Variant("as", r.c, << >>), rest) ELSE NotPacked :
        r \in ToC(StringArray, "nothing", FALSE, value)}

(* Element after element, each against a copy of the type.                 *)
RECURSIVE _pack_variant(_, _), PackEach(_, _), PackTuple(_, _)
PackEach(type, values) ==
    IF values = << >> THEN {Packs(Variant("a", NULL, << >>), << >>)} ELSE
    LET last == Len(values) IN
    UNION {IF ~before.ok THEN {before} ELSE
           {IF r.ok THEN [before EXCEPT !.variant.children = Append(@, r.variant)] ELSE NotPacked :
                r \in _pack_variant(type, values[last])} :
           before \in PackEach(type, SubSeq(values, 1, last - 1))}

(* As many values as the signature has types before its end, what is left  *)
(* over being ignored.                                                     *)
PackTuple(signature, values) ==
    IF signature # << >> /\ Head(signature) = ")"
    THEN {Packs(Variant("(", NULL, << >>), Tail(signature))}
    ELSE IF values = << >> THEN {NotPacked}
    ELSE UNION {IF ~first.ok THEN {NotPacked} ELSE
                {IF r.ok THEN Packs(Variant("(", NULL, <<first.variant>> \o r.variant.children), r.rest)
                 ELSE NotPacked : r \in PackTuple(first.rest, Tail(values))} :
                first \in _pack_variant(signature, Head(values))}

(* Mutant: nothing is taken off the signature for an absent value.         *)
mutant_maybe_unread(signature, value) ==
    {Packs(Variant("m", NULL, << >>), signature)}

PackNothing(signature, value) ==
    LET t == _read_single_type(signature, FALSE)
    IN {IF t.ok THEN Packs(Variant("m", NULL, << >>), t.rest) ELSE NotPacked}

PackMaybe(signature, value) ==
    IF HasNoValue(value) THEN PackNothing(signature, value)
    ELSE {IF r.ok THEN [r EXCEPT !.variant = Variant("m", NULL, <<@>>)] ELSE NotPacked :
            r \in _pack_variant(signature, value)}

(* An array of bytes needs the byteArray module, which this port does not  *)
(* register; null has no elements for a dictionary, and no length.         *)
PackArray(signature, value) ==
    LET t == _read_single_type(signature, FALSE) IN
    CASE ~t.ok -> {NotPacked}
      [] t.ok /\ t.type[1] = "s" -> PackStrings(t.rest, value)
      [] t.ok /\ t.type[1] = "y" -> {NotPacked}
      [] t.ok /\ t.type[1] = "{" ->
            {IF r.ok THEN [r EXCEPT !.rest = t.rest, !.variant.kind = "a{"] ELSE NotPacked :
                r \in PackEach(t.type, Entries(value))}
      [] OTHER ->
            IF HasNoValue(value) THEN {NotPacked}
            ELSE {[r EXCEPT !.rest = t.rest] : r \in PackEach(t.type, Items(value))}

Item(value, i) == IF i \in DOMAIN Items(value) THEN Items(value)[i] ELSE Undefined

PackEntry(signature, value) ==
    UNION {IF ~key.ok THEN {NotPacked} ELSE
           {IF r.ok /\ r.rest # << >> /\ Head(r.rest) = "}"
            THEN Packs(Variant("{", NULL, <<key.variant, r.variant>>), Tail(r.rest)) ELSE NotPacked :
                r \in _pack_variant(key.rest, Item(value, 2))} :
           key \in IF HasNoValue(value) THEN {NotPacked} ELSE _pack_variant(signature, Item(value, 1))}

_pack_variant(signature, value) ==
    IF signature = << >> THEN {NotPacked} ELSE
    LET char == Head(signature)
        rest == Tail(signature)
    IN CASE char \in SIMPLE_TYPES -> PackSimple(char, rest, value)
         [] char = "v" -> {IF value.is = "variant" THEN Packs(Variant("v", NULL, value.sub), rest)
                           ELSE NotPacked}
         [] char = "m" -> PackMaybe(rest, value)
         [] char = "a" -> PackArray(rest, value)
         [] char = "(" -> IF HasNoValue(value) THEN {NotPacked} ELSE PackTuple(rest, Items(value))
         [] char = "{" -> PackEntry(rest, value)
         [] OTHER -> {NotPacked}

-----------------------------------------------------------------------------
(* What comes back: an array of children, a dictionary, a value.           *)
RECURSIVE _unpack_variant(_, _)
UnpackChild(v, deep) == IF deep THEN _unpack_variant(v, deep) ELSE VariantJS(v)

(* The key of an entry is unpacked also when the rest is not.              *)
UnpackDictionary(v, deep) ==
    JS("dict", 0, [i \in 1..(2 * Len(v.children)) |->
        LET entry == v.children[(i + 1) \div 2] IN
        IF i % 2 = 1 THEN _unpack_variant(entry.children[1], TRUE)
        ELSE UnpackChild(entry.children[2], deep)])

_unpack_variant(v, deep) ==
    CASE v.kind \in SIMPLE_TYPES -> FromC(TypeOf(v.kind), v.c).js
      [] v.kind = "v" -> VariantJS(v.children[1])
      [] v.kind = "m" -> IF v.children = << >> THEN Null ELSE UnpackChild(v.children[1], deep)
      [] v.kind = "a{" -> UnpackDictionary(v, deep)
      [] v.kind = "as" ->
            JS("array", 0, [i \in DOMAIN v.c.sub |-> UnpackChild(Variant("s", v.c.sub[i], << >>), deep)])
      [] v.kind \in {"a", "(", "{"} ->
            JS("array", 0, [i \in DOMAIN v.children |-> UnpackChild(v.children[i], deep)])

-----------------------------------------------------------------------------
VariantInit ==
    /\ sig \in Signatures
    /\ given \in Packed(sig)
    /\ at = "given" /\ packed = NotPacked /\ got = Undefined

(* new GLib.Variant: nothing of the signature may be left.                 *)
_new_internal ==
    /\ at = "given"
    /\ packed' \in _pack_variant(sig, given)
    /\ at' = IF packed'.ok /\ packed'.rest = << >> THEN "made" ELSE "refused"
    /\ UNCHANGED <<sig, given, got>>

deep_unpack ==
    /\ at = "made" /\ at' = "deep"
    /\ got' = _unpack_variant(packed.variant, TRUE)
    /\ UNCHANGED <<sig, given, packed>>

unpack ==
    /\ at = "made" /\ at' = "shallow"
    /\ got' = _unpack_variant(packed.variant, FALSE)
    /\ UNCHANGED <<sig, given, packed>>

VariantNext == _new_internal \/ deep_unpack \/ unpack

-----------------------------------------------------------------------------
(* A type is spelt by its own character, its parts, and the end of it.     *)
RECURSIVE Spell(_), SpellEach(_), WellFormed(_), Checked(_), Fits(_, _), Loose(_)
SpellEach(types) == IF types = << >> THEN << >> ELSE Spell(Head(types)) \o SpellEach(Tail(types))
Spell(t) ==
    <<t.kind>> \o SpellEach(t.sub)
    \o (CASE t.kind = "(" -> <<")">> [] t.kind = "{" -> <<"}">> [] OTHER -> << >>)

WellFormed(t) ==
    /\ t.kind = "{" => t.sub[1].kind \in SIMPLE_TYPES
    /\ \A i \in DOMAIN t.sub : WellFormed(t.sub[i])

(* What is packed without being read: only the types of the elements of an *)
(* array have the keys of their entries checked.                           *)
Checked(t) ==
    IF t.kind = "a" THEN WellFormed(t) ELSE \A i \in DOMAIN t.sub : Checked(t.sub[i])

(* Arrays of bytes cannot be made in this port.                            *)
Loose(t) ==
    \/ t.kind = "a" /\ t.sub[1].kind = "y"
    \/ \E i \in DOMAIN t.sub : Loose(t.sub[i])

(* The JavaScript values that a type stands for.                           *)
Fits(t, v) ==
    CASE t.kind = "b" -> v.is = "boolean"
      [] t.kind \in {"y", "i"} -> v.is = "number" /\ v.n \in {2 * i : i \in RangeOf(TagOf[t.kind])}
      [] t.kind = "s" -> v.is = "string"
      [] t.kind = "v" -> v.is = "variant"
      [] t.kind = "m" -> v.is = "null" \/ Fits(t.sub[1], v)
      [] t.kind = "a" /\ t.sub[1].kind = "{" ->
            v.is = "dict" /\ \A i \in DOMAIN v.sub : Fits(t.sub[1].sub[2 - (i % 2)], v.sub[i])
      [] t.kind = "a" /\ t.sub[1].kind # "{" ->
            v.is = "array" /\ \A i \in DOMAIN v.sub : Fits(t.sub[1], v.sub[i])
      [] t.kind \in {"(", "{"} ->
            /\ v.is = "array" /\ Len(v.sub) = Len(t.sub)
            /\ \A i \in DOMAIN v.sub : Fits(t.sub[i], v.sub[i])

(* What one level of unpacking leaves as variants, unpacked further.       *)
UnpackRest(v) ==
    IF v.is \in {"array", "dict"}
    THEN [v EXCEPT !.sub = [i \in DOMAIN v.sub |->
            IF v.sub[i].is = "variant" THEN _unpack_variant(v.sub[i].sub[1], TRUE) ELSE v.sub[i]]]
    ELSE v

TypesOf == [s \in Signatures |-> {t \in Types : Spell(t) = s}]

(* A variant is made only of a signature that is one complete type, and    *)
(* every value such a type stands for is packed, and unpacked to itself,   *)
(* all at once or level by level.                                          *)
VariantRoundTrip ==
    /\ at \in {"made", "deep", "shallow"} => \E t \in TypesOf[sig] : Checked(t)
    /\ \A t \in TypesOf[sig] : WellFormed(t) /\ ~Loose(t) /\ Fits(t, given) =>
        /\ at # "refused"
        /\ at = "deep" => got = given
        /\ at = "shallow" /\ t.kind \in {"a", "(", "{"} => UnpackRest(got) = given
=============================================================================

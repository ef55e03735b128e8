------------------------------ MODULE Numbers ------------------------------
(***************************************************************************)
(* How a JavaScript value becomes a C number: gwkjs/jsapi-util.cpp         *)
(* (gwkjs_jsvalue_to_int, gwkjs_value_to_int64, ...), the numeric cases of *)
(* gwkjs_value_to_g_argument in gi/arg.cpp, and the checks of enumerations *)
(* and flags.                                                              *)
(*                                                                         *)
(* A type of w bits holds 2 * Half[w] values; the instances scale Half     *)
(* down, keeping 8 < 16 < 32 < 64, so that every boundary is within TLC's  *)
(* reach.  A JavaScript number is counted in halves, so that rounding and  *)
(* truncation differ: the record n of a number is twice its value.         *)
(***************************************************************************)
EXTENDS Integers

CONSTANTS
    Half,               \* Half[w]: half the number of values of w bits
    FloatMax,           \* G_MAXFLOAT
    EnumValues,         \* the values of the enumeration types
    FlagValues          \* the sums of the bits of the flags types

Widths == {8, 16, 32, 64}

Lowest(w)   == -Half[w]
Highest(w)  == Half[w] - 1
UHighest(w) == 2 * Half[w] - 1

SInt(w) == Lowest(w)..Highest(w)
UInt(w) == 0..UHighest(w)

ASSUME NumbersAssumption ==
    /\ Half \in [Widths -> Nat \ {0}]
    /\ Half[8] < Half[16] /\ Half[16] < Half[32] /\ Half[32] < Half[64]
    /\ \A w, x \in Widths : w <= x => Half[x] % Half[w] = 0     \* powers of 2
    /\ FloatMax \in Nat
    /\ EnumValues["enum"] \subseteq SInt(32) /\ EnumValues["unsigned_enum"] \subseteq UInt(32)

(* What is left of an integer when its high bits are cut off.              *)
Wrap(i, w)  == ((i + Half[w]) % (2 * Half[w])) - Half[w]
UWrap(i, w) == i % (2 * Half[w])

(* A double in halves, cut to an integer towards zero.                     *)
Truncated(n) == IF n >= 0 THEN n \div 2 ELSE -((-n) \div 2)

-----------------------------------------------------------------------------
(* JavaScript values: [is, n, sub]; sub holds the elements of an array,    *)
(* or the keys and values of a dictionary one after the other.             *)
JS(is, n, sub) == [is |-> is, n |-> n, sub |-> sub]
Number(n) == JS("number", n, << >>)
NaN       == JS("NaN", 0, << >>)
Null      == JS("null", 0, << >>)
Undefined == JS("undefined", 0, << >>)

Numeric(v)  == v.is \in {"number", "NaN", "boolean"}
IsObject(v) == v.is \in {"object", "param", "union", "foreign", "array", "dict"}

(* JSValueToNumber; a string that spells a number is not told apart from   *)
(* one that does not.                                                      *)
JSValueToNumber(v) ==
    CASE v.is = "number"  -> v
      [] v.is = "boolean" -> Number(2 * v.n)
      [] v.is = "null"    -> Number(0)
      [] OTHER            -> NaN

JSValueToBoolean(v) ==
    IF v.is \in {"number", "boolean", "string"} THEN v.n # 0 ELSE IsObject(v)

-----------------------------------------------------------------------------
(* A cast of a double to an integer.  Outside the range of the type it is  *)
(* undefined: the build gives the lowest value, one end or the other, or   *)
(* what is left of the integer.                                            *)
CastInt(d, w) ==
    LET i == Truncated(d.n) IN
    IF d.is = "NaN" THEN {Lowest(w), 0}
    ELSE IF i \in SInt(w) THEN {i}
    ELSE {Lowest(w), IF i < 0 THEN Lowest(w) ELSE Highest(w)}

CastUInt(d, w) ==
    LET i == Truncated(d.n) IN
    IF d.is = "NaN" THEN {0, Half[w]}
    ELSE IF i \in UInt(w) THEN {i}
    ELSE {UWrap(i, w), IF i < 0 THEN 0 ELSE UHighest(w)}

(* A conversion gives a C value, or an exception, or is refused.           *)
Converted(ns) == {[ok |-> TRUE, n |-> i] : i \in ns}
Refused       == {[ok |-> FALSE, n |-> 0]}

(* gwkjs_jsvalue_to_int and gwkjs_jsvalue_to_uint: null is 0.              *)
gwkjs_jsvalue_to_int(v) ==
    IF Numeric(v) THEN Converted(CastInt(JSValueToNumber(v), 32))
    ELSE IF v.is = "null" THEN Converted({0})
    ELSE Refused

gwkjs_jsvalue_to_uint(v) ==
    IF Numeric(v) THEN Converted(CastUInt(JSValueToNumber(v), 32))
    ELSE IF v.is = "null" THEN Converted({0})
    ELSE Refused

(* gwkjs_value_to_int64, _int32 and _uint32 add a half and then cut        *)
(* towards zero; what is not a number becomes 0 without an exception.      *)
Rounded(v) == IF v.is = "number" THEN Number(v.n + 1) ELSE v

gwkjs_value_to_int64(v) ==
    IF v.is \in {"number", "NaN"} THEN CastInt(Rounded(v), 64) ELSE {0}

gwkjs_value_to_int32(v) ==
    IF v.is \in {"number", "NaN"} THEN CastInt(Rounded(v), 32) ELSE {0}

gwkjs_value_to_uint32(v) ==
    IF v.is \in {"number", "NaN"} THEN CastUInt(Rounded(v), 32) ELSE {0}

(* What single precision cannot hold becomes infinite, which the first     *)
(* number past its range stands for.                                       *)
FloatRange(d) == d.is = "number" => d.n \in (-2 * FloatMax)..(2 * FloatMax)

Single(d) == IF FloatRange(d) THEN d
             ELSE Number(IF d.n > 0 THEN 2 * FloatMax + 1 ELSE -2 * FloatMax - 1)

(* gwkjs_value_to_double, _float and _boolean: null is 0 or false, other   *)
(* values that are not numbers are refused; a boolean is no double.        *)
gwkjs_value_to_double(v) ==
    CASE v.is \in {"number", "NaN"} -> [ok |-> TRUE, d |-> v]
      [] v.is = "null" -> [ok |-> TRUE, d |-> Number(0)]
      [] OTHER         -> [ok |-> FALSE, d |-> Number(0)]

gwkjs_value_to_float(v) ==
    LET r == gwkjs_value_to_double(v) IN [r EXCEPT !.d = Single(@)]

gwkjs_value_to_boolean(v) ==
    [ok |-> Numeric(v) \/ v.is = "null", b |-> Numeric(v) /\ JSValueToBoolean(v)]

-----------------------------------------------------------------------------
(* The numeric cases of gwkjs_value_to_g_argument.                         *)
InRange(results, range) == {IF r.ok /\ r.n \in range THEN r
                            ELSE [ok |-> FALSE, n |-> 0] : r \in results}

(* Comparing with G_MAXINT64 compares with 2^63, the double next to it.    *)
Number64(d, casts, low, high) ==
    IF d.is = "number" /\ (d.n < 2 * low \/ d.n > 2 * high)
    THEN Refused ELSE Converted(casts)

(* Mutants: a narrow type is not checked against its own range; 64 bits    *)
(* are checked like 32.                                                    *)
mutant_unchecked_argument(tag, v) ==
    CASE tag \in {"int8", "int16", "int32"} -> gwkjs_jsvalue_to_int(v)
      [] tag \in {"uint8", "uint16", "uint32"} -> gwkjs_jsvalue_to_uint(v)
      [] OTHER -> Converted({JSValueToNumber(v).n})

IntegerArgument(tag, v) ==
    LET d == JSValueToNumber(v) IN
    CASE tag = "int8"   -> InRange(gwkjs_jsvalue_to_int(v), SInt(8))
      [] tag = "uint8"  -> InRange(gwkjs_jsvalue_to_uint(v), UInt(8))
      [] tag = "int16"  -> InRange(gwkjs_jsvalue_to_int(v), SInt(16))
      [] tag = "uint16" -> InRange(gwkjs_jsvalue_to_uint(v), UInt(16))
      [] tag = "int32"  -> gwkjs_jsvalue_to_int(v)
      [] tag = "uint32" -> Number64(d, CastUInt(d, 32), 0, UHighest(32))
      [] tag = "int64"  -> Number64(d, CastInt(d, 64), Lowest(64), Half[64])
      [] tag = "uint64" -> IF d.is = "number" /\ d.n < 0 THEN Refused
                           ELSE Converted(CastUInt(d, 64))

SignedTags   == {"int8", "int16", "int32", "int64"}
UnsignedTags == {"uint8", "uint16", "uint32", "uint64"}
IntegerTags  == SignedTags \union UnsignedTags

Width(tag) ==
    CASE tag \in {"int8", "uint8"}   -> 8
      [] tag \in {"int16", "uint16"} -> 16
      [] tag \in {"int32", "uint32"} -> 32
      [] OTHER                       -> 64

RangeOf(tag) == IF tag \in SignedTags THEN SInt(Width(tag)) ELSE UInt(Width(tag))

(* Element of an array of integers: gwkjs_array_to_intarray reads every    *)
(* element as an int and cuts it to the size of the element.               *)
IntegerElement(tag, v) ==
    {IF r.ok /\ tag \in SignedTags THEN [r EXCEPT !.n = Wrap(@, Width(tag))]
     ELSE IF r.ok THEN [r EXCEPT !.n = UWrap(@, Width(tag))]
     ELSE r : r \in gwkjs_jsvalue_to_int(v)}

-----------------------------------------------------------------------------
(* Enumerations and flags are stored in an int.                            *)
_gwkjs_enum_value_is_valid(iface, i)  == i \in EnumValues[iface]
_gwkjs_flags_value_is_valid(i) == i \in UInt(32) /\ i \in FlagValues

_gwkjs_enum_to_int(i) == Wrap(i, 32)
_gwkjs_enum_from_int(iface, i) ==
    IF iface = "enum" THEN i ELSE UWrap(i, 32)

ValidEnum(iface, i) == IF iface = "flags" THEN _gwkjs_flags_value_is_valid(i)
                       ELSE _gwkjs_enum_value_is_valid(iface, i)

(* null passes every check and is 0.                                       *)
EnumArgument(iface, v) ==
    IF v.is = "null" THEN Converted({0})
    ELSE IF v.is \notin {"number", "NaN"} THEN Refused
    ELSE {IF ValidEnum(iface, i) THEN [ok |-> TRUE, n |-> _gwkjs_enum_to_int(i)]
          ELSE [ok |-> FALSE, n |-> 0] : i \in gwkjs_value_to_int64(v)}
=============================================================================

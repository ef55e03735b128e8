---------------------------- MODULE MCProperties ----------------------------
EXTENDS Properties, TLC

MCHalf == 8 :> 4 @@ 16 :> 8 @@ 32 :> 16 @@ 64 :> 64
MCEnumValues == "enum" :> {0, 3} @@ "unsigned_enum" :> {0, 3}
MCFlagValues == 0..3

(* A class of JavaScript below two of C.  The nearer of them overrides a   *)
(* method and a vfunc of the other, and implements one that the other only *)
(* declares; the class of JavaScript implements an interface, and so does  *)
(* the farthest.                                                           *)
Class(described, methods, interfaces, vfuncs, overrides) ==
    [described |-> described, methods |-> methods, interfaces |-> interfaces,
     vfuncs |-> vfuncs, overrides |-> overrides]
MCClasses == <<Class(FALSE, {}, <<1>>, {}, {}),
               Class(TRUE, {"show"}, << >>, {}, {"grow", "paint"}),
               Class(TRUE, {"show"}, <<2>>, {"grow", "paint"}, {"grow"})>>
MCInterfaces == <<[methods |-> {"size"}, vfuncs |-> {}], [methods |-> {"hide"}, vfuncs |-> {}]>>
MCVfuncs  == "vfunc_grow" :> "grow" @@ "vfunc_paint" :> "paint"
MCSpelled == "Rank" :> "rank"

Property(gtype, readable, writable, custom, default) ==
    [gtype |-> gtype, readable |-> readable, writable |-> writable,
     custom |-> custom, default |-> default]
MCGProperties ==
    "rank" :> Property("INT", TRUE, TRUE, FALSE, C("int", 0, << >>)) @@
    "kind" :> Property("CHAR", TRUE, FALSE, FALSE, C("int", 1, << >>))
MCNames == {"show", "hide", "size", "vfunc_grow", "vfunc_paint", "rank", "Rank", "kind"}
MCUsed     == {"show", "hide", "vfunc_grow", "rank", "Rank"}
MCAssigned == {"show", "rank"}
MCJsValues == {Number(3), JS("string", 1, << >>)}
MCCValues(name) == {C("int", 2, << >>)}
=============================================================================

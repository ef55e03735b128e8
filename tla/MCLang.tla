------------------------------- MODULE MCLang -------------------------------
(***************************************************************************)
(* Two interfaces, one of which requires the other and has a member of its *)
(* own; classes that override one or both methods, with the interfaces in  *)
(* either order.                                                           *)
(***************************************************************************)
EXTENDS Lang, TLC

MCRequires == "I" :> {} @@ "J" :> {"I"}
MCMember   == "I" :> ("f" :> "unimplemented" @@ "g" :> "none")
           @@ "J" :> ("f" :> "none" @@ "g" :> "default")

Defined(own, list) == [own |-> own, implements |-> list]

MCDefinitions ==
    {Defined({}, list) : list \in {<< >>, <<"I">>, <<"J">>}}
    \union {Defined({"f"}, list) : list \in {<< >>, <<"I">>, <<"I", "J">>, <<"J", "I">>}}
    \union {Defined({"f", "g"}, << >>)}
=============================================================================

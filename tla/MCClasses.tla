----------------------------- MODULE MCClasses -----------------------------
(***************************************************************************)
(* A class of one namespace derives from one of another, whose override    *)
(* asks for the first; a type that no namespace describes derives from     *)
(* both.  Beside them the wrappers of an enumeration's type and of one     *)
(* GParamSpec, which share nothing with the classes: a behaviour is one of *)
(* either.                                                                 *)
(***************************************************************************)
EXTENDS Classes, Wrappers, TLC

MCParent  == "Object" :> NoType @@ "Widget" :> "Object" @@ "Local" :> "Widget"
MCHome    == "Object" :> "base" @@ "Widget" :> "toolkit" @@ "Local" :> Private
MCTouches == "base" :> {"Widget", "Local"} @@ "toolkit" :> {"Widget", "Object"}
MCEnumerations == "Gravity" :> <<[name |-> "south-west", value |-> 7], [name |-> "south_west", value |-> 8]>>
MCFixed == "south-west" :> "SOUTH_WEST" @@ "south_west" :> "SOUTH_WEST"
MCStatics == "Gravity" :> {"rotate"} @@ "Param" :> {"internal"}

MCInit   == Init /\ WrappersInit
Untouched == owned = Pspecs /\ \A w \in Ids : life[w] = "unused"
MCStep   == Untouched /\ Step /\ UNCHANGED wrapperVars
MCNext   ==
    \/ Untouched /\ Next /\ UNCHANGED wrapperVars
    \/ stack = << >> /\ uses = 0 /\ WrappersNext /\ UNCHANGED vars
MCSpec   == MCInit /\ [][MCNext]_<<vars, wrapperVars>> /\ WF_<<vars, wrapperVars>>(MCStep)
=============================================================================

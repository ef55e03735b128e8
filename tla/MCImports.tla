----------------------------- MODULE MCImports -----------------------------
(* An instance of Imports for TLC: native modules gi and system, and two   *)
(* directories t1 and t2 with                                              *)
(*   t1/a.js  t1/GLib.js (unreadable)  t1/overrides/GLib.js                *)
(*   t2/a/  t2/a/__init__.js (has system)  t2/a/a.js  t2/GLib.js           *)
(*   t2/overrides/                                                         *)
(* of which t1 is where the program's resources and t2 where the installed *)
(* modules are.  The module for foreign structures is a, over system.      *)
EXTENDS Imports

MCNames == {"a", "system", "gi", "overrides", "GLib"}
MCDirectories == {<<"t1">>, <<"t2">>, <<"t1", "overrides">>, <<"t2", "overrides">>, <<"t2", "a">>}
MCFiles == {<<"t1", "a">>, <<"t1", "GLib">>, <<"t2", "GLib">>, <<"t1", "overrides", "GLib">>,
            <<"t2", "a", "a">>}
MCUnreadable == {<<"t1", "GLib">>}
MCInits == {<<"t2", "a">>}
MCInitNames == [d \in MCDirectories |-> IF d = <<"t2", "a">> THEN {"system"} ELSE {}]
MCIncludePath == <<>>
MCEnvironment == <<>>
MCResource == <<"t1">>
MCDataDirs == <<>>
MCDataDir == <<"t2">>
MCSearchPaths == {<<<<"t1">>, <<"t2">>>>, <<<<"t2">>, <<"t1">>>>}
=============================================================================

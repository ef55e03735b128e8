------------------------------ MODULE Imports ------------------------------
(***************************************************************************)
(* gwkjs/importer.cpp, gwkjs/native.cpp, gi/repo.cpp and gi/foreign.cpp:   *)
(* what happens when code reads a property of an importer (imports.foo) or *)
(* of the repository object (imports.gi.Foo) that is not there yet, or     *)
(* converts a foreign structure (a type of cairo) whose functions          *)
(* imports.cairo has yet to register.                                      *)
(*                                                                         *)
(* Importing runs JavaScript (the module's code, a directory's __init__.js,*)
(* a namespace's override), which imports in turn, also what is being      *)
(* imported already, sets searchPath and throws.  Both classes therefore   *)
(* remember names in a table (priv->modules), and their getProperty hooks  *)
(* are asked before the properties stored on the object.                   *)
(*                                                                         *)
(* gwkjs_throw only logs and the hooks set no exception: an import that    *)
(* fails gives undefined.  An importer is named by the names that lead to  *)
(* it from the root importer, a file or directory by its path.  Search     *)
(* path elements are directories, and JavaScript sets searchPath to a new  *)
(* array: changing the array while a search reads it, which typelibs have  *)
(* which version, the properties' attributes and deletion by JavaScript    *)
(* are left out.                                                           *)
(***************************************************************************)
EXTENDS Integers, FiniteSets, SequencesExt

CONSTANTS
    Names,              \* names of modules, directories and namespaces
    Directories, Files, \* the file system: paths; those of files without .js
    Unreadable,         \* files whose contents cannot be loaded
    Inits,              \* directories with an __init__.js
    InitNames,          \* names that the __init__.js of a directory defines
    StaticModules,      \* names of the native modules that the build registers
    gi, overrides, GLib,
    cairo, cairoNative, \* the module for foreign structures, the native one under it
    Namespaces,         \* namespaces there may be a typelib for
    SearchPaths,        \* values a program gives the root importer's searchPath
    IncludePath,        \* the search path the program gave to its context
    Environment, Resource, DataDirs, DataDir, \* parts of the standard search path
    MaxNamespaces,      \* bound: namespace objects made
    MaxUses,            \* bound: what a piece of JavaScript does while it is imported
    MaxDepth,           \* bound: nesting up to which it does anything
    MaxStack            \* the C stack: nesting at which nothing goes on

(* gwkjs_context_class_init registers the repository's native module, and  *)
(* those that are linked in.                                               *)
Natives == {gi} \union StaticModules

ASSUME ImportsAssumption ==
    /\ {gi, overrides, cairo} \union Namespaces \union Natives \subseteq Names
    /\ {gi, cairoNative} \subseteq Natives /\ gi # cairoNative /\ GLib \in Namespaces
    /\ Unreadable \subseteq Files /\ Inits \subseteq Directories
    /\ InitNames \in [Directories -> SUBSET Names]
    /\ SearchPaths \union {IncludePath, Environment, DataDirs} \subseteq Seq(Directories)
    /\ {Resource, DataDir} \subseteq Directories
    /\ MaxNamespaces \in Nat \ {0} /\ {MaxUses, MaxDepth, MaxStack} \subseteq Nat

VARIABLES
    searchPath,     \* of every importer
    modules,        \* the names in each importer's priv->modules
    props,          \* what is stored under <<importer, name>>
    meta,           \* the meta properties of what is stored there
    evaluated,      \* <<importer, name>> of which a file was evaluated; not in the code
    resolving,      \* names in the repository's priv->modules
    namespaces,     \* the namespace object stored under a name, 0 for none
    created,        \* namespace objects made
    registered,     \* cairo's types are in foreign_structs_table
    loaded,         \* of cairo in foreign_modules
    stack           \* calls running, innermost first

vars == <<searchPath, modules, props, meta, evaluated, resolving, namespaces, created,
          registered, loaded, stack>>

importerVars == <<searchPath, modules, props, meta, evaluated>>
foreignVars  == <<registered, loaded>>
repoVars     == <<resolving, namespaces, created, foreignVars>>

(* The importer that the global object's imports is; read-only.            *)
Root == <<>>
Values == {"native", "importer", "module"}

(* at is an index of path, looked: the __init__.js there was looked into.  *)
Imports == [fn : {"do_import", "import_native_file"}, importer : Seq(Names), name : Names,
            path : Seq(Directories), at : Nat, looked : BOOLEAN]
Enumerations == [fn : {"importer_new_enumerate"}, path : Seq(Directories), at : Nat]
Evaluations == [fn : {"import_file_on_module", "load_module_init"}, dir : Directories,
                uses : 0..MaxUses]
Resolutions == [fn : {"resolve_namespace_object"}, name : Namespaces, ns : 1..MaxNamespaces,
                step : {"overrides", "module", "call", "return"}]
Overrides == [fn : {"override"}, name : Namespaces, uses : 0..MaxUses]
Lookups == [fn : {"gwkjs_struct_foreign_lookup"}, step : {"lookup", "load", "found", "missing"}]
Aborted == [fn |-> "abort"]

gwkjs_get_search_path == Environment \o <<Resource>> \o DataDirs \o <<DataDir>>

(* The function f with value for x.                                        *)
Put(f, x, value) == [y \in DOMAIN f \union {x} |-> IF y = x THEN value ELSE f[y]]

(* A new importer remembers no names.                                      *)
importer_new(tables, p) == Put(tables, p, {})

(* The property searchPath of importer p is a new array.                   *)
gwkjs_define_string_array(paths, p, elements) == Put(paths, p, elements)

gwkjs_create_importer(paths, p, initial, standard) ==
    gwkjs_define_string_array(paths, p, initial \o (IF standard THEN gwkjs_get_search_path ELSE <<>>))

gwkjs_create_root_importer ==
    /\ searchPath = gwkjs_create_importer(<<>>, Root, IncludePath, TRUE)
    /\ modules = importer_new(<<>>, Root)

(* A context makes its root importer, in which nothing is stored.          *)
gwkjs_context_constructed ==
    /\ gwkjs_create_root_importer
    /\ props = <<>> /\ meta = <<>> /\ evaluated = {}

Init ==
    /\ gwkjs_context_constructed
    /\ resolving = {} /\ namespaces = [n \in Namespaces |-> 0] /\ created = 0
    /\ registered = FALSE /\ loaded = FALSE
    /\ stack = <<>>

Top == Head(stack)
Runs(fn) == stack # <<>> /\ Top.fn = fn

(* gwkjs_eval_with_scope runs a file in a context of its own, whose global  *)
(* object gets the imports of the first one.                               *)
RunsJavaScript == Runs("import_file_on_module") \/ Runs("load_module_init") \/ Runs("override")

-----------------------------------------------------------------------------
(* A lookup of lookup_override_function gives value.                       *)
AfterLookup(step, value) ==
    CASE step = "overrides" /\ value = "importer" -> "module"
      [] step = "module" /\ value = "module"      -> "call"
      [] OTHER                                    -> "return"

(* importer_get_property returns value to its caller.                      *)
Returned(callers, value) ==
    IF callers # <<>> /\ Head(callers).fn = "resolve_namespace_object"
    THEN <<[Head(callers) EXCEPT !.step = AfterLookup(@, value)]>> \o Tail(callers)
    ELSE callers

Import(p, name) ==
    [fn |-> "do_import", importer |-> p, name |-> name, path |-> searchPath[p],
     at |-> 0, looked |-> FALSE]

(* For a marked name the property stored on the object is the answer.      *)
(* Mutant: the name is marked after its import (the mark when it begins is *)
(* missing).                                                               *)
mutant_marks_late(p, name, callers) ==
    /\ \/ /\ <<p, name>> \in DOMAIN props
          /\ stack' = Returned(callers, props[<<p, name>>])
       \/ /\ <<p, name>> \notin DOMAIN props
          /\ stack' = <<Import(p, name)>> \o callers
    /\ modules' = [modules EXCEPT ![p] = @ \union {name}]
    /\ UNCHANGED <<searchPath, props, meta, evaluated, repoVars>>

importer_get_property(p, name, callers) ==
    /\ \/ /\ name \in modules[p]
          /\ stack' = Returned(callers, IF <<p, name>> \in DOMAIN props
                                        THEN props[<<p, name>>] ELSE "undefined")
          /\ UNCHANGED modules
       \/ /\ name \notin modules[p]
          /\ modules' = [modules EXCEPT ![p] = @ \union {name}]
          /\ stack' = <<Import(p, name)>> \o callers
    /\ UNCHANGED <<searchPath, props, meta, evaluated, repoVars>>

(* do_import of frame f ends with a value, and callers go on.              *)
Defines(f, value, callers) ==
    /\ props' = Put(props, <<f.importer, f.name>>, value)
    /\ stack' = Returned(callers, value)

(* The __moduleName__ is the name.  Native modules and importers have no   *)
(* __file__.                                                               *)
define_meta_properties(f, file) ==
    meta' = Put(meta, <<f.importer, f.name>>, [file |-> file, parentModule |-> f.importer])

(* Without a result the mark is taken back.                                *)
(* Mutant: it is not.                                                      *)
mutant_keeps_mark(f, callers) ==
    /\ stack' = Returned(callers, "undefined")
    /\ UNCHANGED modules

Fails(f, callers) ==
    /\ modules' = [modules EXCEPT ![f.importer] = @ \ {f.name}]
    /\ stack' = Returned(callers, "undefined")

(* The property that a failed import may have defined is deleted.          *)
cancel_import(f) == props' = Restrict(props, DOMAIN props \ {<<f.importer, f.name>>})

-----------------------------------------------------------------------------
(* The namespace's property is defined before the override is looked up.   *)
Resolve(name, callers) ==
    /\ created' = created + 1
    /\ resolving' = resolving \union {name}
    /\ namespaces' = [namespaces EXCEPT ![name] = created']
    /\ stack' = <<[fn |-> "resolve_namespace_object", name |-> name, ns |-> created',
                   step |-> "overrides"]>> \o callers
    /\ UNCHANGED foreignVars

(* A typelib that cannot be loaded (g_irepository_require) changes nothing.*)
repo_get_property(name, callers) ==
    /\ <<Root, gi>> \in DOMAIN props
    /\ name \notin resolving
    /\ Resolve(name, callers)
    /\ UNCHANGED importerVars

lookup_override_function ==
    /\ Runs("resolve_namespace_object")
    /\ \/ Top.step = "overrides" /\ importer_get_property(Root, overrides, stack)
       \/ Top.step = "module" /\ importer_get_property(<<overrides>>, Top.name, stack)

(* A module without _init has an override that returns at once.            *)
call_override ==
    /\ Runs("resolve_namespace_object") /\ Top.step = "call"
    /\ stack' = <<[fn |-> "override", name |-> Top.name, uses |-> 0],
                  [Top EXCEPT !.step = "return"]>> \o Tail(stack)
    /\ UNCHANGED <<importerVars, repoVars>>

(* The result of resolve_namespace_object is never set: the mark goes.     *)
repo_get_property_returns ==
    /\ Runs("resolve_namespace_object") /\ Top.step = "return"
    /\ resolving' = resolving \ {Top.name}
    /\ stack' = Tail(stack)
    /\ UNCHANGED <<importerVars, namespaces, created, foreignVars>>

-----------------------------------------------------------------------------
(* Foreign structures: cairo's, whose functions its native module          *)
(* registers when it is defined.                                           *)

gwkjs_struct_foreign_register(module) == registered' = (registered \/ module = cairoNative)

(* The conversion of a value, or the release of an argument, of the type.  *)
gwkjs_struct_foreign_lookup(callers) ==
    /\ stack' = <<[fn |-> "gwkjs_struct_foreign_lookup",
                   step |-> IF registered THEN "found" ELSE "lookup"]>> \o callers
    /\ UNCHANGED <<importerVars, repoVars>>

(* The second lookup, after the module was loaded.                         *)
LooksAgain == stack' = [stack EXCEPT ![1].step = IF registered THEN "found" ELSE "missing"]

(* The script "imports.cairo;" is evaluated; a lookup by the code that     *)
(* this runs evaluates it, too.                                            *)
gwkjs_foreign_load_foreign_module ==
    /\ Runs("gwkjs_struct_foreign_lookup") /\ Top.step = "lookup"
    /\ \/ loaded /\ LooksAgain /\ UNCHANGED <<importerVars, repoVars>>
       \/ ~loaded /\ importer_get_property(Root, cairo, [stack EXCEPT ![1].step = "load"])

(* An import that fails throws nothing: the module counts as loaded.       *)
gwkjs_context_eval_returns ==
    /\ Runs("gwkjs_struct_foreign_lookup") /\ Top.step = "load"
    /\ loaded' = TRUE
    /\ LooksAgain
    /\ UNCHANGED <<importerVars, resolving, namespaces, created, registered>>

gwkjs_struct_foreign_convert ==
    /\ Runs("gwkjs_struct_foreign_lookup") /\ Top.step \in {"found", "missing"}
    /\ stack' = Tail(stack)
    /\ UNCHANGED <<importerVars, repoVars>>

-----------------------------------------------------------------------------
(* The steps of do_import.                                                 *)

Elements(f) == DOMAIN f.path
HasDirectory(f, k) == Append(f.path[k], f.name) \in Directories
HasFile(f, k) == Append(f.path[k], f.name) \in Files

(* Native modules first.  That of gi is the repository: repo_new looks up  *)
(* GLib.                                                                   *)
gwkjs_is_registered_native_module(f) == f.importer = Root /\ f.name \in Natives

import_native_file ==
    /\ Runs("do_import") /\ Top.at = 0
    /\ LET native == gwkjs_is_registered_native_module(Top)
           frame  == [Top EXCEPT !.fn = "import_native_file"]
       IN \/ /\ native /\ Top.name = gi
             /\ Resolve(GLib, <<frame>> \o Tail(stack))
             /\ UNCHANGED importerVars
          \/ /\ native /\ Top.name # gi
             /\ Defines(Top, "native", Tail(stack))
             /\ define_meta_properties(Top, <<>>)
             /\ gwkjs_struct_foreign_register(Top.name)
             /\ UNCHANGED <<searchPath, modules, evaluated, resolving, namespaces, created, loaded>>
          \/ /\ ~native
             /\ stack' = [stack EXCEPT ![1].at = 1]
             /\ UNCHANGED <<importerVars, repoVars>>

repo_new_returns ==
    /\ Runs("import_native_file")
    /\ Defines(Top, "native", Tail(stack))
    /\ define_meta_properties(Top, <<>>)
    /\ UNCHANGED <<searchPath, modules, evaluated, repoVars>>

LooksInto(d) ==
    /\ stack' = <<[fn |-> "load_module_init", dir |-> d, uses |-> 0]>> \o stack
    /\ UNCHANGED <<importerVars, repoVars>>

(* The directories found so far hide the files after them.                 *)
DirectoriesFound(f) == {k \in Elements(f) : k < f.at /\ HasDirectory(f, k)}

(* One element of the search path.                                         *)
do_import ==
    /\ Runs("do_import") /\ Top.at \in Elements(Top)
    /\ LET d    == Top.path[Top.at]
           init == d \in Inits /\ ~Top.looked
           here == Top.looked /\ Top.name \in InitNames[d]
           skip == HasDirectory(Top, Top.at) \/ DirectoriesFound(Top) # {}
                    \/ ~HasFile(Top, Top.at)
           file == Append(d, Top.name)
       IN \/ /\ init
             /\ LooksInto(d)
          \/ /\ ~init /\ here
             /\ Defines(Top, "module", Tail(stack))
             /\ UNCHANGED <<searchPath, modules, meta, evaluated, repoVars>>
          \/ /\ ~init /\ ~here /\ skip
             /\ stack' = [stack EXCEPT ![1].at = @ + 1, ![1].looked = FALSE]
             /\ UNCHANGED <<importerVars, repoVars>>
          \/ /\ ~init /\ ~here /\ ~skip /\ file \in Unreadable
             /\ cancel_import(Top) /\ Fails(Top, Tail(stack))
             /\ UNCHANGED <<searchPath, meta, evaluated, repoVars>>
          \/ /\ ~init /\ ~here /\ ~skip /\ file \notin Unreadable
             /\ evaluated' = evaluated \union {<<Top.importer, Top.name>>}
             /\ stack' = <<[fn |-> "import_file_on_module", dir |-> d, uses |-> 0]>> \o stack
             /\ UNCHANGED <<searchPath, modules, props, meta, repoVars>>

gwkjs_define_importer(f, path) ==
    LET p == Append(f.importer, f.name)
    IN  /\ searchPath' = gwkjs_create_importer(searchPath, p, path, FALSE)
        /\ modules' = importer_new(modules, p)
        /\ define_meta_properties(f, <<>>)
        /\ Defines(f, "importer", Tail(stack))

(* The k-th of a set of indices.                                           *)
Nth(S, k) == CHOOSE i \in S : Cardinality({j \in S : j <= i}) = k

(* A sub-importer that searches the directories found.                     *)
import_directory(f) ==
    LET found == DirectoriesFound(f)
    IN  gwkjs_define_importer(f, [k \in 1..Cardinality(found) |->
                                    Append(f.path[Nth(found, k)], f.name)])

(* The end of the search path.                                             *)
do_import_returns ==
    /\ Runs("do_import") /\ Top.at = Len(Top.path) + 1
    /\ \/ /\ DirectoriesFound(Top) # {}
          /\ import_directory(Top)
       \/ /\ DirectoriesFound(Top) = {}
          /\ Fails(Top, Tail(stack))
          /\ UNCHANGED <<searchPath, props, meta>>
    /\ UNCHANGED <<evaluated, repoVars>>

(* Enumerating the names in an importer, too, looks into __init__.js.      *)
load_module_elements(d) == d \in Inits /\ LooksInto(d)

importer_new_enumerate ==
    /\ Runs("importer_new_enumerate")
    /\ \/ /\ Top.at > Len(Top.path)
          /\ stack' = Tail(stack)
          /\ UNCHANGED <<importerVars, repoVars>>
       \/ /\ Top.at \in Elements(Top)
          /\ load_module_elements(Top.path[Top.at])
       \/ /\ Top.at \in Elements(Top) /\ Top.path[Top.at] \notin Inits
          /\ stack' = [stack EXCEPT ![1].at = @ + 1]
          /\ UNCHANGED <<importerVars, repoVars>>

-----------------------------------------------------------------------------
(* The end of JavaScript that an import runs.                              *)

(* import_file_on_module.  The module's object is made before its code     *)
(* runs and is returned also if the code throws, without being defined.    *)

ModuleEnds ==
    /\ Runs("import_file_on_module")
    /\ \/ /\ Defines(stack[2], "module", Tail(Tail(stack)))
          /\ define_meta_properties(stack[2], Append(Top.dir, stack[2].name))
       \/ /\ stack' = Returned(Tail(Tail(stack)), "module")
          /\ cancel_import(stack[2])
          /\ UNCHANGED meta
    /\ UNCHANGED <<searchPath, modules, evaluated, repoVars>>

(* load_module_init stores the object under a name for which the hook says *)
(* undefined: the assertion of gwkjs_object_set_property fails.  After an  *)
(* exception it does not, and what was defined before can be imported.     *)
InitEnds ==
    /\ Runs("load_module_init")
    /\ \/ stack' = <<Aborted>>
       \/ /\ stack[2].fn = "do_import"
          /\ stack' = [Tail(stack) EXCEPT ![1].looked = TRUE]
       \/ /\ stack[2].fn = "importer_new_enumerate"
          /\ stack' = [Tail(stack) EXCEPT ![1].at = @ + 1]
    /\ UNCHANGED <<importerVars, repoVars>>

OverrideEnds ==
    /\ Runs("override")
    /\ stack' = Tail(stack)
    /\ UNCHANGED <<importerVars, repoVars>>

UserEnds == Len(stack) < MaxStack /\ (ModuleEnds \/ InitEnds \/ OverrideEnds)

(* What JavaScript may do before.  What is not marked and not found may be *)
(* asked for again and again.                                              *)
Uses(callers) ==
    \/ \E p \in DOMAIN searchPath, name \in Names : importer_get_property(p, name, callers)
    \/ created < MaxNamespaces /\ \E name \in Namespaces : repo_get_property(name, callers)
    \/ \E p \in DOMAIN searchPath :
            /\ stack' = <<[fn |-> "importer_new_enumerate", path |-> searchPath[p],
                           at |-> 1]>> \o callers
            /\ UNCHANGED <<importerVars, repoVars>>
    \/ \E path \in SearchPaths :
            /\ searchPath' = [searchPath EXCEPT ![Root] = path]
            /\ stack' = callers
            /\ UNCHANGED <<modules, props, meta, evaluated, repoVars>>
    \/ gwkjs_struct_foreign_lookup(callers)

(* However deep it is, it may ask for what is being imported already.      *)
Importing == {k \in DOMAIN stack : stack[k].fn \in {"do_import", "import_native_file"}}
Imported(k) == <<stack[k].importer, stack[k].name>>

Circles(callers) ==
    \/ \E p \in DOMAIN searchPath, name \in Names :
            (\E k \in Importing : Imported(k) = <<p, name>>) /\ importer_get_property(p, name, callers)
    \/ gwkjs_struct_foreign_lookup(callers)

User ==
    \/ stack = <<>> /\ Uses(<<>>)
    \/ /\ RunsJavaScript /\ Top.uses < MaxUses /\ Len(stack) < MaxStack
       /\ LET callers == [stack EXCEPT ![1].uses = @ + 1]
          IN  IF Len(stack) < MaxDepth THEN Uses(callers) ELSE Circles(callers)

Step ==
    \/ import_native_file \/ repo_new_returns \/ do_import \/ do_import_returns
    \/ importer_new_enumerate
    \/ gwkjs_foreign_load_foreign_module \/ gwkjs_context_eval_returns
    \/ gwkjs_struct_foreign_convert
    \/ lookup_override_function \/ call_override \/ repo_get_property_returns

Next == User \/ Step \/ UserEnds

(* C code goes on; the code of modules, overrides and __init__.js ends.    *)
Spec == Init /\ [][Next]_vars /\ WF_vars(Step) /\ WF_vars(UserEnds)

-----------------------------------------------------------------------------
Marked == UNION {{<<p, name>> : name \in modules[p]} : p \in DOMAIN modules}

TypeOK ==
    /\ DOMAIN searchPath \subseteq Seq(Names)
    /\ \A p \in DOMAIN searchPath : searchPath[p] \in Seq(Directories)
    /\ modules \in [DOMAIN searchPath -> SUBSET Names]
    /\ DOMAIN meta \subseteq DOMAIN props
    /\ {registered, loaded} \subseteq BOOLEAN
    /\ DOMAIN props \subseteq (DOMAIN searchPath) \X Names
    /\ \A pn \in DOMAIN props : props[pn] \in Values
    /\ \A pn \in DOMAIN props : props[pn] = "importer" => Append(pn[1], pn[2]) \in DOMAIN searchPath
    /\ evaluated \subseteq Marked
    /\ resolving \subseteq Namespaces
    /\ created \in 0..MaxNamespaces
    /\ namespaces \in [Namespaces -> 0..created]
    /\ stack \in Seq(Imports \union Enumerations \union Evaluations \union Resolutions
                        \union Overrides \union Lookups \union {Aborted})

ImportOf(pn) == stack[CHOOSE k \in Importing : Imported(k) = pn]
Having(f) == {k \in Elements(f) : HasDirectory(f, k) \/ HasFile(f, k)}

(* "We need to add the module BEFORE trying to import it. Otherwise, there *)
(* will be an infinite recursing" (importer.cpp:971): no name is imported  *)
(* while it is imported, a name that is stored stays marked, and a marked  *)
(* name is being imported, is stored or has run code that threw - so an    *)
(* import that found nothing can be tried again.                           *)
MarksAccounted ==
    /\ \A k \in Importing : Imported(k) \in Marked \ DOMAIN props
    /\ \A j, k \in Importing : Imported(j) = Imported(k) => j = k
    /\ stack # <<Aborted>> => \A pn \in Marked :
            pn \in DOMAIN props \union evaluated \union {Imported(k) : k \in Importing}
    /\ DOMAIN props \subseteq Marked

(* "Define the property early, to avoid reentrancy issues if the override  *)
(* module looks for namespaces that import this" (repo.cpp:133): until its *)
(* override has returned, everybody who asks for a namespace gets the      *)
(* object the override is applied to.                                      *)
NamespaceVisible ==
    \A k \in DOMAIN stack :
        stack[k].fn = "resolve_namespace_object" =>
            /\ namespaces[stack[k].name] = stack[k].ns
            /\ stack[k].name \in resolving

(* foreign.cpp: a lookup answers that nothing implements a type only if no *)
(* module has registered it, also when it was the lookup that loaded it,   *)
(* or the module's own code converts such a value; and it does not give up *)
(* before an attempt to load the module has ended.                         *)
ForeignFound ==
    \A k \in DOMAIN stack :
        stack[k].fn = "gwkjs_struct_foreign_lookup" /\ stack[k].step = "missing" =>
            /\ ~registered /\ <<Root, cairoNative>> \notin DOMAIN props
            /\ loaded

(* A module, native module or sub-importer knows its place: following      *)
(* __parentModule__ leads through importers to the root.                   *)
ParentsKnown ==
    \A pn \in DOMAIN meta :
        LET p == meta[pn].parentModule
        IN  p # Root => <<Front(p), Last(p)>> \in DOMAIN meta /\ props[<<Front(p), Last(p)>>] = "importer"

(* Code that an import runs finds the importers, the repository and the    *)
(* foreign structures in a state it can work with.                         *)
ReentrySafe == TypeOK /\ MarksAccounted /\ NamespaceVisible /\ ForeignFound /\ ParentsKnown

(* Whatever imports whatever in circles, fails or changes the search path, *)
(* the file for a name of an importer is evaluated at most once.           *)
EvaluatesFile == stack' # <<>> /\ Len(stack') > Len(stack)
                    /\ Head(stack').fn = "import_file_on_module"
EvaluatedOnce ==
    [][EvaluatesFile => <<Top.importer, Top.name>> \notin evaluated]_vars

(* The comment at importer.cpp:524: what is stored for a name is from the  *)
(* first element of the search path that has it - a file, which is its     *)
(* __file__, or, if that element has a directory of that name, a           *)
(* sub-importer for all such directories, whatever files there are         *)
(* elsewhere on the path.                                                  *)
InOrder(pn) ==
    LET f == ImportOf(pn)
        first == Min(Having(f))
    IN  /\ props'[pn] = "importer" =>
            /\ HasDirectory(f, first)
            /\ ToSet(searchPath'[Append(pn[1], pn[2])]) =
                {Append(f.path[k], f.name) : k \in {j \in Having(f) : HasDirectory(f, j)}}
        /\ props'[pn] = "module" /\ ~f.looked =>
            /\ f.at = first /\ ~HasDirectory(f, first)
            /\ meta'[pn].file = Append(f.path[first], f.name)
            /\ meta'[pn].file \notin Unreadable

FoundInOrder == [][\A pn \in DOMAIN props' \ DOMAIN props : InOrder(pn)]_vars

(* Every module is the one its search path names, and its code ran once.   *)
ModulesRight == EvaluatedOnce /\ FoundInOrder

(* Modules that import each other in circles, and foreign structures that  *)
(* the module for them converts, do not recurse until the C stack is full, *)
(* where nothing would go on: the code that began an import goes on.  But  *)
(* for the abort at the end of an __init__.js.                             *)
EveryImportEnds == stack # <<>> ~> stack \in {<<>>, <<Aborted>>}
=============================================================================

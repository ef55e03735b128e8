------------------------------ MODULE MainLoop ------------------------------
(***************************************************************************)
(* modules/mainloop.js: main loops under names.  run makes the loop of a   *)
(* name if there is none and iterates it; quit takes the name away and     *)
(* stops its loop.  What a thread is doing is a stack: the loops it        *)
(* iterates, the callbacks they dispatched, and the calls it waits for.    *)
(***************************************************************************)
EXTENDS Naturals, Sequences

CONSTANT Names          \* names of main loops

VARIABLES
    running,            \* running[l]: loop l is to go on
    mainLoops,          \* name -> the loop _mainLoops has under it; 0 is none
    stack               \* frames [op, id], innermost last; none is the program

loopVars == <<running, mainLoops, stack>>

LoopInit ==
    /\ running = << >>
    /\ mainLoops = [n \in Names |-> 0]
    /\ stack = << >>

Frame(op, id) == [op |-> op, id |-> id]
Push(f)       == stack' = Append(stack, f)
Popped        == SubSeq(stack, 1, Len(stack) - 1)
On(op)        == stack # << >> /\ stack[Len(stack)].op = op
Top           == stack[Len(stack)]

(* JavaScript runs: the program, or a callback.                            *)
InScript      == stack = << >> \/ On("callback")

(* A loop iterates and may dispatch its sources.                           *)
Iterating     == On("loop") /\ running[Top.id]

run(n) ==
    /\ InScript
    /\ LET l == IF mainLoops[n] = 0 THEN Len(running) + 1 ELSE mainLoops[n] IN
        /\ running' = IF mainLoops[n] = 0 THEN Append(running, TRUE)
                      ELSE [running EXCEPT ![l] = TRUE]
        /\ mainLoops' = [mainLoops EXCEPT ![n] = l]
        /\ Push(Frame("loop", l))

(* The innermost loop was stopped: its run returns to its caller.          *)
RunReturns ==
    /\ On("loop") /\ ~running[Top.id]
    /\ stack' = Popped
    /\ UNCHANGED <<running, mainLoops>>

(* Mutant: quit leaves the loop under its name.                            *)
mutant_name_kept(n) == mainLoops

(* quit forgets the loop before it finds out whether it runs.              *)
Forgotten(n) == [mainLoops EXCEPT ![n] = 0]

(* quit throws when no loop has the name.                                  *)
QuitThrows(n) == mainLoops[n] = 0

quit(n) ==
    /\ ~QuitThrows(n)
    /\ running' = [running EXCEPT ![mainLoops[n]] = FALSE]
    /\ mainLoops' = Forgotten(n)

(* A callback returns to the loop that dispatched it.                      *)
CallbackReturns ==
    /\ On("callback")
    /\ stack' = Popped
    /\ UNCHANGED <<running, mainLoops>>
=============================================================================

------------------------- MODULE MCWin32EnvSchedule -------------------------
(***************************************************************************)
(* The two halves of Win32Env checked in one run: the file operations of   *)
(* Win32Env and its background work, Schedule and StartThread.  They share *)
(* no state, so a behaviour exercises one of them, chosen in the initial    *)
(* state by phase, while the other keeps an initial state of its own.      *)
(***************************************************************************)
EXTENDS MCWin32Env

CONSTANTS SchItems, SchWorkers, NoItem, SchGarbage

VARIABLES phase, call, queue, wrapper, wk, started, ran

Sc == INSTANCE Win32Schedule WITH Items <- SchItems, Workers <- SchWorkers,
                                  Garbage <- SchGarbage

scVars == <<call, queue, wrapper, wk, started, ran>>
allVars == <<phase, vars, scVars>>

(* The directory the file operations keep while the scheduler runs.       *)
EnvAtRest == Init /\ fs = [n \in Names |-> Absent]

EnvSchInit ==
    /\ phase \in {"files", "scheduler"}
    /\ \/ phase = "files" /\ Init
       \/ phase = "scheduler" /\ EnvAtRest
    /\ Sc!SchInit

EnvSchNext ==
    \/ phase = "files" /\ Next /\ UNCHANGED <<phase, scVars>>
    \/ phase = "scheduler" /\ Sc!SchNext /\ UNCHANGED <<phase, vars>>

(* Only the scheduler has threads the system must keep running; its       *)
(* actions are enabled in its own phase only.                              *)
EnvSchSpec == EnvSchInit /\ [][EnvSchNext]_allVars /\ Sc!SchFairness

(* Work the system accepted is run exactly once and its wrapper freed      *)
(* (Win32Schedule, from Win32Env::Schedule and WorkItemWrapperProc).       *)
AcceptedRunsOnce == Sc!AcceptedRunsOnce
=============================================================================

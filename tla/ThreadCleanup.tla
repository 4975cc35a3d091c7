---------------------------- MODULE ThreadCleanup ----------------------------
(***************************************************************************)
(* wilton_clean_tls as the caller of clean_thread_local: one of the        *)
(* cleaners is that of the script engine map, so that a thread which       *)
(* cleans takes the mutex of the engines with that of the cleaners held.   *)
(* Threads run scripts, which may clean and register, end, and begin again *)
(* under the same id.  The engine map is ScriptEngineMap, whose variables  *)
(* this module takes over, and the cleaners are TlsCleaners.               *)
(***************************************************************************)
EXTENDS ScriptEngineMap

CONSTANTS
    Cleaners, NoCleaner, Reentrant, MaxCleaners,    \* as in TlsCleaners
    EngineCleaner                                   \* calls clean_thread_local

ASSUME CleanersAssumption ==
    /\ NoCleaner \notin Cleaners
    /\ EngineCleaner \in Cleaners
    /\ Reentrant \subseteq Cleaners \ {EngineCleaner}
    /\ MaxCleaners \in Nat

VARIABLES
    cmutex, reg, cpc, ran, before,  \* TlsCleaners: mutex, reg, pc, ran, before
    target,     \* the id that each thread cleans, or has cleaned last
    alive,      \* the ids that belong to a running thread
    abused      \* history: an id was cleaned while its thread might run scripts

Cl == INSTANCE TlsCleaners WITH mutex <- cmutex, pc <- cpc

cleanerVars == <<cmutex, reg, cpc, ran, before>>

lifeVars == <<target, alive, abused>>

cleanupVars == <<vars, cleanerVars, lifeVars>>

CleanupTypeOK ==
    /\ TypeOK
    /\ Cl!TypeOK
    /\ target \in [Threads -> Threads \cup {NoThread}]
    /\ alive \subseteq Threads
    /\ abused \in BOOLEAN

CleanupInit ==
    /\ Init
    /\ Cl!Init
    /\ target = [t \in Threads |-> NoThread]
    /\ alive = Threads
    /\ abused = FALSE

-----------------------------------------------------------------------------
\* Code of the thread that is in none of the functions, but may be a script.
Free(t) == t \in alive /\ pc[t] = "idle" /\ cpc[t] = "idle"

RunEngine(t) ==
    /\ Free(t)
    /\ CallRun(t) \/ FinishUse(t)
    /\ UNCHANGED <<cleanerVars, lifeVars>>

RegisterCleaner(t, c) ==
    /\ Free(t)
    /\ Cl!Register(t, c)
    /\ UNCHANGED <<vars, lifeVars>>

\* An id is cleaned in good order after its thread has ended, or by the thread
\* itself when no script of its own is running.
InOrder(t, id) == id \notin alive \/ (id = t /\ uses[t] = <<>>)

CleanTls(t, id) ==
    /\ Free(t)
    /\ Cl!CallClean(t)
    /\ target' = [target EXCEPT ![t] = id]
    /\ abused' = (abused \/ ~InOrder(t, id))
    /\ UNCHANGED <<vars, alive>>

LockCleaners(t) ==
    /\ Cl!Lock(t)
    /\ UNCHANGED <<vars, lifeVars>>

NextCleaner(t) == reg[Len(ran[t]) + 1]

AtCleaner(t) == cpc[t] = "loop" /\ Len(ran[t]) < Len(reg) /\ pc[t] = "idle"

\* The cleaner of the engine map is called with the id, as the others are, ...
EnterEngineCleaner(t) ==
    /\ AtCleaner(t)
    /\ NextCleaner(t) = EngineCleaner
    /\ CallClean(t, target[t])
    /\ UNCHANGED <<cleanerVars, lifeVars>>

\* ... and returns when it has erased the engine.
LeaveEngineCleaner(t) ==
    /\ Erase(t)
    /\ Cl!RunCleaner(t)
    /\ UNCHANGED lifeVars

OtherCleaner(t) ==
    /\ AtCleaner(t)
    /\ NextCleaner(t) # EngineCleaner
    /\ Cl!RunCleaner(t) \/ Cl!NestedCall(t)
    /\ UNCHANGED <<vars, lifeVars>>

ReturnFromClean(t) ==
    /\ Cl!ReturnCleaned(t)
    /\ UNCHANGED <<vars, lifeVars>>

LockEngines(t) ==
    /\ Lock(t)
    /\ UNCHANGED <<cleanerVars, lifeVars>>

EngineStep(t) ==
    /\ Find(t) \/ LoadInitCode(t) \/ Construct(t)
    /\ UNCHANGED <<cleanerVars, lifeVars>>

\* A thread ends; its engine stays in the map until its id is cleaned.
Exit(t) ==
    /\ Free(t)
    /\ uses[t] = <<>>
    /\ alive' = alive \ {t}
    /\ UNCHANGED <<vars, cleanerVars, target, abused>>

\* A thread begins under an id that was used before.
Start(t) ==
    /\ t \notin alive
    /\ alive' = alive \cup {t}
    /\ abused' = (abused \/ \E u \in Threads : cpc[u] # "idle" /\ target[u] = t)
    /\ UNCHANGED <<vars, cleanerVars, target>>

CleanStep(t) ==
    EnterEngineCleaner(t) \/ LeaveEngineCleaner(t) \/ OtherCleaner(t) \/ ReturnFromClean(t)

CleanupNext ==
    \E t \in Threads :
        \/ RunEngine(t) \/ LockEngines(t) \/ EngineStep(t)
        \/ (\E c \in Cleaners \cup {NoCleaner} : RegisterCleaner(t, c))
        \/ (\E id \in Threads : CleanTls(t, id))
        \/ LockCleaners(t) \/ CleanStep(t)
        \/ Exit(t) \/ Start(t)

CleanupSpec == CleanupInit /\ [][CleanupNext]_cleanupVars

(***************************************************************************)
(* Threads inside the functions go on: cleaners return unless they call    *)
(* back, constructors return or throw.  A free mutex that is waited for is *)
(* taken by one of the waiters.                                            *)
(***************************************************************************)
FairCleanupSpec ==
    /\ CleanupSpec
    /\ \A t \in Threads : WF_cleanupVars(EngineStep(t)) /\ WF_cleanupVars(CleanStep(t))
    /\ WF_cleanupVars(\E t \in Threads : LockEngines(t))
    /\ WF_cleanupVars(\E t \in Threads : LockCleaners(t))

-----------------------------------------------------------------------------
\* See TlsCleaners: no cleaner is missed or run out of turn, also when they wait
\* for the engine map between them.
CleanersRun == Cl!EveryCleanerRuns

\* See TlsCleaners: nobody registers during an iteration, which now spans the
\* waits for another mutex.
CleanersStayValid == Cl!IteratorsStayValid

\* As long as ids are cleaned in good order, every script runs in an engine that
\* exists: what run_script has taken from the map and uses after the mutex is
\* released (script_engine_map.hpp:123) is erased by no thread.
UseIsSafeInOrder ==
    ~abused => \A t \in Threads : \A i \in 1..Len(uses[t]) : uses[t][i] \in live

\* wilton_clean_tls comes to its end unless a cleaner calls back or the engines'
\* mutex is for ever taken by others, who give it back: the two mutexes are not
\* waited for in a circle here.
CleaningEnds ==
    [](\A t \in Threads : cpc[t] # "nested") =>
        \A t \in Threads :
            <>[](cmutex = t) => []<>(mutex \in Threads \ {t}) /\ []<>(mutex = NoThread)
=============================================================================

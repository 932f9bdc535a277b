------------------------------ MODULE SaveLoad ------------------------------
(* save_system: the Debug tab's direct load of a save slot.  A worker thread *)
(* writes a request into the engine's save state, starts the engine's pump   *)
(* on a thread of its own, polls the done flag for at most ten seconds and   *)
(* reads the result.  The pump is the engine's; it may fail, fault or hang.  *)
EXTENDS Naturals

CONSTANT Worker            \* the clicks on the button: one thread each

VARIABLES
    load_in_progress,      \* g_load_in_progress
    load_pc,               \* where each worker is in load_slot
    late,                  \* the workers whose wait ran out
    outcome,               \* what load_slot returned
    pump,                  \* the pump thread each worker started
    request, done, result, \* the engine's save state: opcode, done flag, code
    served                 \* history: the pumps that loaded the slot

saveVars == <<load_in_progress, load_pc, late, outcome, pump, request, done, result, served>>

SaveInit ==
    /\ load_in_progress = FALSE /\ late = {} /\ served = {}
    /\ load_pc = [w \in Worker |-> "idle"] /\ outcome = [w \in Worker |-> "none"]
    /\ pump = [w \in Worker |-> "none"]
    /\ request = "none" /\ done = FALSE /\ result = 0

Returns(w, r) ==
    /\ load_pc' = [load_pc EXCEPT ![w] = "back"] /\ outcome' = [outcome EXCEPT ![w] = r]

\* The button is drawn disabled while a load is in progress, and only then.
ClickLoad(w) ==
    /\ load_pc[w] = "idle" /\ ~load_in_progress
    /\ load_pc' = [load_pc EXCEPT ![w] = "asked"]
    /\ UNCHANGED <<load_in_progress, late, outcome, pump, request, done, result, served>>

EnterLoad(w) ==
    /\ load_pc[w] = "asked" /\ load_in_progress' = TRUE
    /\ IF load_in_progress THEN Returns(w, "refused")
       ELSE load_pc' = [load_pc EXCEPT ![w] = "entered"] /\ UNCHANGED outcome
    /\ UNCHANGED <<late, pump, request, done, result, served>>

\* The engine has no save buffer yet, or the thread cannot be made.
CannotStart(w) ==
    /\ load_pc[w] = "entered" /\ load_in_progress' = FALSE
    /\ \/ Returns(w, "refused") /\ UNCHANGED <<request, done, result>>
       \/ Returns(w, "failed") /\ request' = "load" /\ done' = FALSE /\ result' = 0
    /\ UNCHANGED <<late, pump, served>>

\* Mutant of StartPump: the answer of an earlier load is not cleared.
StartPumpUncleared(w) ==
    /\ load_pc[w] = "entered" /\ request' = "load"
    /\ pump' = [pump EXCEPT ![w] = "running"] /\ load_pc' = [load_pc EXCEPT ![w] = "waiting"]
    /\ UNCHANGED <<load_in_progress, late, outcome, served, done, result>>
StartPump(w) ==
    /\ load_pc[w] = "entered"
    /\ request' = "load" /\ done' = FALSE /\ result' = 0
    /\ pump' = [pump EXCEPT ![w] = "running"]
    /\ load_pc' = [load_pc EXCEPT ![w] = "waiting"]
    /\ UNCHANGED <<load_in_progress, late, outcome, served>>

PumpReads(p) ==
    /\ pump[p] = "running" /\ request = "load"
    /\ pump' = [pump EXCEPT ![p] = "loading"]
    /\ UNCHANGED <<load_in_progress, load_pc, late, outcome, request, done, result, served>>
PumpAnswers(p) ==
    /\ pump[p] = "loading" /\ pump' = [pump EXCEPT ![p] = "exited"]
    /\ done' = TRUE /\ request' = "none"
    /\ \/ result' = 0 /\ served' = served \cup {p}
       \/ result' = 1 /\ UNCHANGED served
    /\ UNCHANGED <<load_in_progress, load_pc, late, outcome>>
PumpFaults(p) ==
    /\ pump[p] \in {"running", "loading"} /\ pump' = [pump EXCEPT ![p] = "exited"]
    /\ UNCHANGED <<load_in_progress, load_pc, late, outcome, request, done, result, served>>

SeesDone(w) ==
    /\ load_pc[w] = "waiting" /\ done
    /\ load_pc' = [load_pc EXCEPT ![w] = "joining"]
    /\ UNCHANGED <<load_in_progress, late, outcome, pump, request, done, result, served>>
GivesUp(w) ==
    /\ load_pc[w] = "waiting"
    /\ load_pc' = [load_pc EXCEPT ![w] = "joining"] /\ late' = late \cup {w}
    /\ UNCHANGED <<load_in_progress, outcome, pump, request, done, result, served>>

\* The wait for the thread ends after two seconds, whether it has exited or not.
FinishLoad(w) ==
    /\ load_pc[w] = "joining" /\ load_in_progress' = FALSE
    /\ Returns(w, IF w \notin late /\ result = 0 THEN "loaded" ELSE "failed")
    /\ UNCHANGED <<late, pump, request, done, result, served>>

SaveNext == \E w \in Worker : \/ ClickLoad(w) \/ EnterLoad(w) \/ CannotStart(w) \/ StartPump(w)
                              \/ PumpReads(w) \/ PumpAnswers(w) \/ PumpFaults(w)
                              \/ SeesDone(w) \/ GivesUp(w) \/ FinishLoad(w)

(* A load that reports success was served by the pump it started: the flag   *)
(* and the code that an earlier load left behind are never taken for its own.*)
(* Once a wait has run out the abandoned pump may answer a later load; until *)
(* then the clearing in load_slot is enough.                                 *)
SuccessIsOwn ==
    late = {} => \A w \in Worker : outcome[w] = "loaded" => w \in served

=============================================================================

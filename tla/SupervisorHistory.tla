-------------------------- MODULE SupervisorHistory --------------------------
(***************************************************************************)
(* Supervisor with two history variables about the kill flag.  They change *)
(* with the steps of Supervisor and never hinder one.                      *)
(***************************************************************************)
EXTENDS Supervisor

VARIABLES
  forewarned,   \* the requests that arrived after a kill of their thread settled
  overrun       \* the graph steps each request began since the flag is up

historyVars == <<vars, forewarned, overrun>>

HistoryInit ==
  /\ Init
  /\ forewarned = {}
  /\ overrun = [r \in Requests |-> 0]

Arrives(r) == pc[r] = "idle" /\ pc'[r] = "audit"

BeginsStep(r) == pc[r] = "agent.step.start" /\ pc'[r] = "step"

(***************************************************************************)
(* The kill of t has settled: its flag is up, and no call is about to      *)
(* write back a row it read before that.                                   *)
(***************************************************************************)
KillSettled(t) ==
  /\ KillRequested(t)
  /\ \A c \in Callers : (pc[c] = "write" /\ tid[c] = t) =>
       (existing[c] = NoRow \/ existing[c].kill_requested)

HistoryNext ==
  /\ Next
  /\ forewarned' = forewarned \cup {r \in Requests : Arrives(r) /\ KillSettled(tid[r])}
  /\ overrun' = [r \in Requests |->
       IF ~KillRequested(tid[r]) THEN 0
       ELSE IF BeginsStep(r) THEN overrun[r] + 1 ELSE overrun[r]]

HistorySpec == HistoryInit /\ [][HistoryNext]_historyVars

FairHistorySpec == HistorySpec /\ \A c \in Callers : WF_vars(Advance(c))

(***************************************************************************)
(* "Check the kill flag between steps" (runtime.py:117-118): while the     *)
(* flag of its thread stays up an invocation begins one step at most, the  *)
(* one whose check came before the kill, however calls overlap.            *)
(***************************************************************************)
KillStopsWithinOneStep == \A r \in Requests : overrun[r] <= 1

(***************************************************************************)
(* "treat as a pre-emptive cancel so the next invocation observes it"      *)
(* (state.py:76-77): an invocation that arrives after a kill of its thread *)
(* has settled steps the graph not even once, however calls overlap and    *)
(* whatever statuses they write meanwhile.                                 *)
(***************************************************************************)
PreemptiveKillIsObserved ==
  \A r \in forewarned : ~Announced(r, "agent.step.start")

==============================================================================

-------------------------- MODULE ThreadStateCallers --------------------------
(***************************************************************************)
(* Concurrent callers of app/agent/state.py.  The API runs its handlers as *)
(* coroutines of one event loop, so a call may be suspended at every       *)
(* statement it awaits and another call may run there: each statement is   *)
(* one action, and a caller's local variables keep what it has read.       *)
(*                                                                         *)
(* A caller is idle between two calls and may call again and again; any    *)
(* caller may set any status or request a kill, of any thread.             *)
(***************************************************************************)
EXTENDS ThreadState

CONSTANT Callers

VARIABLES
  pc,         \* the statement each caller is about to run, or has left in doubt
  tid,        \* the thread_id it was called with
  mark,       \* the status it is to write
  existing    \* the local variable `existing` of _upsert

vars == <<agent_thread_state, pc, tid, mark, existing>>

CallerTypeOK ==
  /\ ThreadStateTypeOK
  /\ pc \in [Callers -> {"idle", "lookup", "select", "write", "in_doubt"}]
  /\ tid \in [Callers -> Threads]
  /\ mark \in [Callers -> Statuses]
  /\ existing \in [Callers -> Row \cup {NoRow}]

Init ==
  /\ ThreadStateInit
  /\ pc = [c \in Callers |-> "idle"]
  /\ tid \in [Callers -> Threads]
  /\ mark = [c \in Callers |-> "running"]
  /\ existing = [c \in Callers |-> NoRow]

(***************************************************************************)
(* The calls.  request_kill first runs a SELECT of its own, for the        *)
(* previous_status it answers with, and calls _upsert with the same        *)
(* arguments whether or not the thread has a row.                          *)
(***************************************************************************)
SetThreadStatus(c, t, status) ==
  /\ pc[c] = "idle"
  /\ pc' = [pc EXCEPT ![c] = "select"]
  /\ tid' = [tid EXCEPT ![c] = t]
  /\ mark' = [mark EXCEPT ![c] = status]
  /\ UNCHANGED <<agent_thread_state, existing>>

RequestKill(c, t) ==
  /\ pc[c] = "idle"
  /\ pc' = [pc EXCEPT ![c] = "lookup"]
  /\ tid' = [tid EXCEPT ![c] = t]
  /\ mark' = [mark EXCEPT ![c] = "kill_requested"]
  /\ UNCHANGED <<agent_thread_state, existing>>

Lookup(c) ==
  /\ pc[c] = "lookup"
  /\ pc' = [pc EXCEPT ![c] = "select"]
  /\ UNCHANGED <<agent_thread_state, tid, mark, existing>>

(***************************************************************************)
(* The two statements of _upsert, and the ways a call ends by raising: the *)
(* INSERT meets a row, the database fails a statement, or the connection   *)
(* is lost under the write.  A write whose call has raised is in doubt: it *)
(* takes effect, at once or (on Postgres) any time later, or never does.   *)
(* Only then is the caller idle; what a client does that does not wait for *)
(* that is done by another caller.                                         *)
(***************************************************************************)
Select(c) ==
  /\ pc[c] = "select"
  /\ pc' = [pc EXCEPT ![c] = "write"]
  /\ existing' = [existing EXCEPT ![c] = agent_thread_state[tid[c]]]
  /\ UNCHANGED <<agent_thread_state, tid, mark>>

\* The call is over, and its local variables with it.
Return(c) ==
  /\ pc' = [pc EXCEPT ![c] = "idle"]
  /\ mark' = [mark EXCEPT ![c] = "running"]
  /\ existing' = [existing EXCEPT ![c] = NoRow]
  /\ UNCHANGED tid

\* The write has been decided on, and may take effect.
Pending(c) == pc[c] \in {"write", "in_doubt"}

Write(c) ==
  /\ Pending(c)
  /\ Upsert(tid[c], existing[c], mark[c])
  /\ Return(c)

Conflict(c) ==
  /\ Pending(c)
  /\ InsertConflicts(tid[c], existing[c])
  /\ Return(c)
  /\ UNCHANGED agent_thread_state

LeaveInDoubt(c) ==
  /\ pc[c] = "write"
  /\ pc' = [pc EXCEPT ![c] = "in_doubt"]
  /\ UNCHANGED <<agent_thread_state, tid, mark, existing>>

Fail(c) ==
  /\ pc[c] # "idle"
  /\ Return(c)
  /\ UNCHANGED agent_thread_state

Begin(c, t) ==
  \/ RequestKill(c, t)
  \/ \E status \in Statuses \ {"kill_requested"} : SetThreadStatus(c, t, status)

Run(c) ==
  Lookup(c) \/ Select(c) \/ Write(c) \/ Conflict(c) \/ LeaveInDoubt(c) \/ Fail(c)

Next == \E c \in Callers : Run(c) \/ \E t \in Threads : Begin(c, t)

Spec == Init /\ [][Next]_vars

------------------------------------------------------------------------------
(***************************************************************************)
(* The same callers when no two calls overlap: a call begins only while    *)
(* every caller is idle, so that no write is left in doubt.                *)
(***************************************************************************)
SerialNext ==
  \E c \in Callers :
    \/ Run(c)
    \/ /\ \A d \in Callers : pc[d] = "idle"
       /\ \E t \in Threads : Begin(c, t)

SerialSpec == Init /\ [][SerialNext]_vars

------------------------------------------------------------------------------
(***************************************************************************)
(* The kill of thread t has settled: its flag is up and every call that is *)
(* between its SELECT and the effect of its write has either seen the flag *)
(* or seen no row (and will then be refused by the primary key).           *)
(***************************************************************************)
Settled(t) ==
  /\ KillRequested(t)
  /\ \A c \in Callers :
       (Pending(c) /\ tid[c] = t) =>
         (existing[c] = NoRow \/ existing[c].kill_requested)

(***************************************************************************)
(* A settled kill is permanent: however later calls overlap and fail, the  *)
(* flag stays up and no caller gets hold of a row without it.  The window  *)
(* in which _upsert (state.py:25-56) can lose a kill is exactly the time   *)
(* between another call's SELECT and the effect of its UPDATE, which may   *)
(* come after that call has raised.                                        *)
(***************************************************************************)
SettledKillIsPermanent == [][\A t \in Threads : Settled(t) => Settled(t)']_vars

(***************************************************************************)
(* When calls do not overlap, state.py does what KillSwitch promises.      *)
(***************************************************************************)
Atomic == INSTANCE KillSwitch

SerialCallsAreAtomic == Atomic!Spec

(***************************************************************************)
(* "Preserve a previously-set kill flag unless explicitly updated": the    *)
(* comment of state.py:45, for overlapping calls.                          *)
(***************************************************************************)
KillFlagPreserved ==
  [][\A t \in Threads : KillRequested(t) => KillRequested(t)']_vars

==============================================================================

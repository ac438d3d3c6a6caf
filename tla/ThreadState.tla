----------------------------- MODULE ThreadState -----------------------------
(***************************************************************************)
(* The table agent_thread_state and the statements app/agent/state.py runs *)
(* on it.  Every function of that file that writes goes through _upsert,   *)
(* which is not one statement but two: a SELECT of the thread's row and,   *)
(* decided by what it saw, an INSERT or an UPDATE.  This module gives the  *)
(* effect of each statement; who issues them, and when, is left to the     *)
(* modules that extend it (ThreadStateCallers, Supervisor).                *)
(*                                                                         *)
(* last_event and updated_at are left out: no statement reads them.        *)
(***************************************************************************)
CONSTANTS
  Threads,    \* the thread_ids in use, the table's PRIMARY KEY
  NoRow       \* what a SELECT returns for a thread that has no row

VARIABLE agent_thread_state   \* the row of each thread, or NoRow

Statuses ==
  {"running", "completed", "killed", "cancelled", "error", "kill_requested"}

Row == [status : Statuses, kill_requested : BOOLEAN]

ASSUME NoRowIsNoRow == NoRow \notin Row

ThreadStateTypeOK == agent_thread_state \in [Threads -> Row \cup {NoRow}]

ThreadStateInit == agent_thread_state = [t \in Threads |-> NoRow]

\* Mutated form: bool(row) for bool(row["kill_requested"]).
RowExists(t) == agent_thread_state[t] # NoRow

(***************************************************************************)
(* is_kill_requested: FALSE for a thread without a row.                    *)
(***************************************************************************)
KillRequested(t) ==
  /\ agent_thread_state[t] # NoRow
  /\ agent_thread_state[t].kill_requested

\* Mutated form: the INSERT writes the argument kill_requested as it came.
WrittenAsPassed(existing, status) ==
  [status         |-> status,
   kill_requested |-> IF status = "kill_requested" THEN TRUE
                      ELSE IF existing = NoRow THEN NoRow
                      ELSE existing.kill_requested]

\* Mutated form: the UPDATE takes "no explicit flag" for "clear the flag".
WrittenForgettingTheFlag(existing, status) ==
  [status |-> status, kill_requested |-> status = "kill_requested"]

(***************************************************************************)
(* The row _upsert writes, given the row its SELECT returned.  Only        *)
(* request_kill passes kill_requested=True, always with the status         *)
(* "kill_requested"; set_thread_status passes None, and then the flag is   *)
(* the one the SELECT saw.                                                 *)
(***************************************************************************)
Written(existing, status) ==
  [status         |-> status,
   kill_requested |-> \/ status = "kill_requested"
                      \/ existing # NoRow /\ existing.kill_requested]

(***************************************************************************)
(* The second statement of _upsert: INSERT when the SELECT saw no row,     *)
(* otherwise an UPDATE of the row.  An INSERT of a thread that has got a   *)
(* row in between violates the primary key and raises.                     *)
(***************************************************************************)
InsertConflicts(t, existing) ==
  existing = NoRow /\ agent_thread_state[t] # NoRow

Upsert(t, existing, status) ==
  /\ ~InsertConflicts(t, existing)
  /\ agent_thread_state' =
       [agent_thread_state EXCEPT ![t] = Written(existing, status)]

==============================================================================

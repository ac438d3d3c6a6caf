----------------------------- MODULE Checkpoints -----------------------------
(***************************************************************************)
(* The table langgraph_checkpoints and PostgresCheckpointer                *)
(* (app/agent/checkpointing.py).  The rows of a thread form a sequence in  *)
(* the order of their seq column.  A checkpoint_id is a fresh uuid; here   *)
(* it is the position of the row, so that parent_id is a position too and  *)
(* 0 stands for None.                                                      *)
(*                                                                         *)
(* Of the state dict we keep step, completed and input; the messages and   *)
(* the thread_id it repeats are left out.                                  *)
(***************************************************************************)
EXTENDS Naturals, Sequences

CONSTANTS
  Threads,    \* the thread_ids in use
  Requests    \* the invocations; one stands for its request_id and its input

VARIABLE langgraph_checkpoints

State == [step : Nat, completed : BOOLEAN, input : Requests]

Checkpoint == [parent_id : Nat, state : State]

CheckpointsTypeOK == langgraph_checkpoints \in [Threads -> Seq(Checkpoint)]

CheckpointsInit == langgraph_checkpoints = [t \in Threads |-> <<>>]

\* Mutated form: the thread is the primary key, and its row replaced.
PutReplacing(t, s, parent) ==
  langgraph_checkpoints' =
    [langgraph_checkpoints EXCEPT ![t] = <<[parent_id |-> parent, state |-> s]>>]

(***************************************************************************)
(* put: one INSERT, committed on its own, under a checkpoint_id that is    *)
(* made afresh (NextId) and handed to the caller.                          *)
(***************************************************************************)
NextId(t) == Len(langgraph_checkpoints[t]) + 1

PutCheckpoint(t, s, parent) ==
  langgraph_checkpoints' =
    [langgraph_checkpoints EXCEPT
       ![t] = Append(@, [parent_id |-> parent, state |-> s])]

\* Mutated form: ORDER BY seq ASC.
OldestId(t) == IF langgraph_checkpoints[t] = <<>> THEN 0 ELSE 1

(***************************************************************************)
(* get_latest: the row with the highest seq.  LatestId is its              *)
(* checkpoint_id, 0 when the thread has none.                              *)
(***************************************************************************)
LatestId(t) == Len(langgraph_checkpoints[t])

(***************************************************************************)
(* The state an invocation resumes from: that of the latest checkpoint, or *)
(* a fresh one, with the invocation's own input.                           *)
(***************************************************************************)
ResumedState(t, r) ==
  IF LatestId(t) = 0
  THEN [step |-> 0, completed |-> FALSE, input |-> r]
  ELSE [langgraph_checkpoints[t][LatestId(t)].state EXCEPT !.input = r]

==============================================================================

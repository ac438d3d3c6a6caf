------------------------------ MODULE KillSwitch ------------------------------
(***************************************************************************)
(* What app/agent/state.py promises its callers, each call taken as one    *)
(* atomic step: a kill raises the thread's flag, for a thread nobody has   *)
(* seen yet as well, and a change of status leaves the flag as it is, so   *)
(* that a kill, once acknowledged, holds for every later invocation of     *)
(* the thread.                                                             *)
(***************************************************************************)
CONSTANTS Threads, NoRow

VARIABLE agent_thread_state

RunStatuses == {"running", "completed", "killed", "cancelled", "error"}

Killed(t) ==
  /\ agent_thread_state[t] # NoRow
  /\ agent_thread_state[t].kill_requested

SetThreadStatus(t, status) ==
  agent_thread_state' =
    [agent_thread_state EXCEPT
       ![t] = [status |-> status, kill_requested |-> Killed(t)]]

RequestKill(t) ==
  agent_thread_state' =
    [agent_thread_state EXCEPT
       ![t] = [status |-> "kill_requested", kill_requested |-> TRUE]]

Init == agent_thread_state = [t \in Threads |-> NoRow]

Next ==
  \E t \in Threads :
    \/ RequestKill(t)
    \/ \E status \in RunStatuses : SetThreadStatus(t, status)

Spec == Init /\ [][Next]_agent_thread_state

==============================================================================

-------------------------------- MODULE Sandbox --------------------------------
(***************************************************************************)
(* run_command (app/tools/sandbox.py): a child process per call, its       *)
(* output captured through pipes, and a timeout.                           *)
(*                                                                         *)
(* The child may start a helper, which inherits the pipes: communicate     *)
(* reads until nobody holds them.  When the timeout strikes, wait_for      *)
(* cancels the communicate under way, and what that had read is lost.      *)
(* Output is counted in blocks; stdout and stderr are not told apart.      *)
(***************************************************************************)
EXTENDS Naturals

CONSTANTS
  Calls,        \* the calls of run_command
  Allowed,      \* those whose executable is on the allowlist
  MaxOutput     \* bound: the blocks a child and its helper write

ASSUME SandboxAssumption == Allowed \subseteq Calls /\ MaxOutput \in Nat

VARIABLES
  pc,           \* what each call awaits, or how it ended
  child,        \* its child process
  helper,       \* the process that shares the child's pipes
  output,       \* the blocks they have written
  collected,    \* those the communicate under way has read
  lost,         \* those a cancelled communicate had read
  timed_out,
  returncode    \* what the result says of the child's exit

processes == <<child, helper, output>>

answers == <<timed_out, returncode>>

vars == <<pc, processes, collected, lost, answers>>

Ends == {"rejected", "returned", "raised", "cancelled"}

\* The types; and a result has an exit status (an int, never None), and only a
\* result has.
SandboxTypeOK ==
  /\ pc \in [Calls -> {"idle", "spawn", "communicate", "drain"} \cup Ends]
  /\ child \in [Calls -> {"none", "running", "exited", "killed"}]
  /\ helper \in [Calls -> {"none", "running", "gone"}]
  /\ output \in [Calls -> 0..MaxOutput]
  /\ collected \in [Calls -> Nat]
  /\ lost \in [Calls -> Nat]
  /\ timed_out \in [Calls -> BOOLEAN]
  /\ returncode \in [Calls -> {"unset", "own", "killed", "unknown"}]
  /\ \A c \in Calls : returncode[c] # "unset" <=> pc[c] = "returned"

Init ==
  /\ pc = [c \in Calls |-> "idle"]
  /\ child = [c \in Calls |-> "none"]
  /\ helper = [c \in Calls |-> "none"]
  /\ output = [c \in Calls |-> 0]
  /\ collected = [c \in Calls |-> 0]
  /\ lost = [c \in Calls |-> 0]
  /\ timed_out = [c \in Calls |-> FALSE]
  /\ returncode = [c \in Calls |-> "unset"]

Goto(c, l) == pc' = [pc EXCEPT ![c] = l]

\* Nobody holds the write ends of the pipes.
PipesClosed(c) == child[c] # "running" /\ helper[c] # "running"

\* communicate has read to the end, and the child has been waited for.
Communicated(c) == PipesClosed(c) /\ collected[c] + lost[c] = output[c]

------------------------------------------------------------------------------
(***************************************************************************)
(* The call.  The settings may not be readable, and a command that is a    *)
(* string not be split (an open quote), before the allowlist is asked.  A  *)
(* cancelled create_subprocess_exec leaves no child behind.                *)
(***************************************************************************)
RunCommand(c) ==
  /\ pc[c] = "idle"
  /\ Goto(c, IF c \in Allowed THEN "spawn" ELSE "rejected")
  /\ UNCHANGED <<processes, collected, lost, answers>>

ParseFails(c) ==
  /\ pc[c] = "idle"
  /\ Goto(c, "raised")
  /\ UNCHANGED <<processes, collected, lost, answers>>

Spawn(c) ==
  /\ pc[c] = "spawn"
  /\ child' = [child EXCEPT ![c] = "running"]
  /\ Goto(c, "communicate")
  /\ UNCHANGED <<helper, output, collected, lost, answers>>

SpawnFails(c) ==
  /\ pc[c] = "spawn"
  /\ Goto(c, "raised")
  /\ UNCHANGED <<processes, collected, lost, answers>>

\* communicate reads a block, the first time or the second.
Read(c) ==
  /\ pc[c] \in {"communicate", "drain"}
  /\ collected[c] + lost[c] < output[c]
  /\ collected' = [collected EXCEPT ![c] = @ + 1]
  /\ UNCHANGED <<pc, processes, lost, answers>>

\* Mutated form: wait for the child in place of its output.
FinishOnExit(c) ==
  /\ pc[c] = "communicate"
  /\ child[c] # "running"
  /\ Goto(c, "returned")
  /\ returncode' = [returncode EXCEPT ![c] = "own"]
  /\ UNCHANGED <<processes, collected, lost, timed_out>>

Finish(c) ==
  /\ pc[c] = "communicate"
  /\ Communicated(c)
  /\ Goto(c, "returned")
  /\ returncode' = [returncode EXCEPT ![c] = "own"]
  /\ UNCHANGED <<processes, collected, lost, timed_out>>

\* What the communicate under way has read goes with it.
Discard(c) ==
  /\ lost' = [lost EXCEPT ![c] = @ + collected[c]]
  /\ collected' = [collected EXCEPT ![c] = 0]

\* Mutated form: the child is not killed.
TimeoutWithoutKill(c) ==
  /\ pc[c] = "communicate"
  /\ timed_out' = [timed_out EXCEPT ![c] = TRUE]
  /\ Discard(c)
  /\ Goto(c, "drain")
  /\ UNCHANGED <<processes, returncode>>

(***************************************************************************)
(* The timeout strikes, at any time: before the child ends, after it, or   *)
(* while its answer is on the way.  proc.kill() does nothing to a child    *)
(* that has exited, and raises ProcessLookupError, outside the inner try,  *)
(* once asyncio has also seen its pipes closed.                            *)
(***************************************************************************)
Timeout(c) ==
  /\ pc[c] = "communicate"
  /\ timed_out' = [timed_out EXCEPT ![c] = TRUE]
  /\ Discard(c)
  /\ \/ /\ PipesClosed(c)
        /\ Goto(c, "raised")
        /\ UNCHANGED child
     \/ /\ Goto(c, "drain")
        /\ child' = [child EXCEPT ![c] = IF @ = "running" THEN "killed" ELSE @]
  /\ UNCHANGED <<helper, output, returncode>>

\* Mutated form: proc.returncode as it is, which may be None.
ExitStatusOrNone(c) == {IF child[c] = "killed" THEN "killed" ELSE "own", "unset"}

\* The child's status, unless kill() and asyncio have both waited for it, or
\* (-1 for None) nobody has yet.
ExitStatus(c) == {IF child[c] = "killed" THEN "killed" ELSE "own", "unknown"}

\* The second communicate, which has no timeout.
DrainEnds(c) ==
  /\ pc[c] = "drain"
  /\ Communicated(c)
  /\ Goto(c, "returned")
  /\ \E status \in ExitStatus(c) : returncode' = [returncode EXCEPT ![c] = status]
  /\ UNCHANGED <<processes, collected, lost, timed_out>>

(***************************************************************************)
(* Reading a pipe fails: the first communicate lets the exception through, *)
(* the second one's is caught and empty output returned.                   *)
(***************************************************************************)
PipeFails(c) ==
  \/ /\ pc[c] = "communicate"
     /\ Goto(c, "raised")
     /\ UNCHANGED <<processes, collected, lost, answers>>
  \/ /\ pc[c] = "drain"
     /\ Goto(c, "returned")
     /\ Discard(c)
     /\ \E status \in ExitStatus(c) : returncode' = [returncode EXCEPT ![c] = status]
     /\ UNCHANGED <<processes, timed_out>>

Cancel(c) ==
  /\ pc[c] \in {"spawn", "communicate", "drain"}
  /\ Goto(c, "cancelled")
  /\ UNCHANGED <<processes, collected, lost, answers>>

------------------------------------------------------------------------------
(***************************************************************************)
(* The processes, which nothing but the kill holds up.                     *)
(***************************************************************************)
Fork(c) ==
  /\ child[c] = "running" /\ helper[c] = "none"
  /\ helper' = [helper EXCEPT ![c] = "running"]
  /\ UNCHANGED <<pc, child, output, collected, lost, answers>>

WriteOutput(c) ==
  /\ ~PipesClosed(c)
  /\ output[c] < MaxOutput
  /\ output' = [output EXCEPT ![c] = @ + 1]
  /\ UNCHANGED <<pc, child, helper, collected, lost, answers>>

ChildExits(c) ==
  /\ child[c] = "running"
  /\ child' = [child EXCEPT ![c] = "exited"]
  /\ UNCHANGED <<pc, helper, output, collected, lost, answers>>

HelperExits(c) ==
  /\ helper[c] = "running"
  /\ helper' = [helper EXCEPT ![c] = "gone"]
  /\ UNCHANGED <<pc, child, output, collected, lost, answers>>

Processes(c) == Fork(c) \/ WriteOutput(c) \/ ChildExits(c) \/ HelperExits(c)

Handler(c) ==
  \/ Spawn(c)
  \/ Read(c)
  \/ Finish(c)
  \/ Timeout(c)
  \/ DrainEnds(c)

Terminating == (\A c \in Calls : pc[c] \in Ends) /\ UNCHANGED vars

Next ==
  \/ \E c \in Calls :
       \/ RunCommand(c)
       \/ ParseFails(c)
       \/ Handler(c)
       \/ SpawnFails(c)
       \/ PipeFails(c)
       \/ Cancel(c)
       \/ Processes(c)
  \/ Terminating

Spec == Init /\ [][Next]_vars

(***************************************************************************)
(* The event loop serves every call, and the clock runs.  Nothing is       *)
(* assumed of the child: only in FairSpec do helpers come to an end.       *)
(***************************************************************************)
LoopSpec == Spec /\ \A c \in Calls : WF_vars(Handler(c)) /\ WF_vars(Timeout(c))

FairSpec == LoopSpec /\ \A c \in Calls : WF_vars(HelperExits(c))

------------------------------------------------------------------------------
(***************************************************************************)
(* A result that is not timed out is the whole truth: the child has        *)
(* exited by itself, its status is the one told, and all that it and its   *)
(* helpers wrote is in the output, however late they wrote it.             *)
(***************************************************************************)
ResultIsComplete ==
  \A c \in Calls : (pc[c] = "returned" /\ ~timed_out[c]) =>
    /\ child[c] = "exited" /\ returncode[c] = "own"
    /\ helper[c] # "running" /\ collected[c] = output[c]

(***************************************************************************)
(* A child that still runs belongs to a call that awaits it, or to one     *)
(* that was cancelled or failed before the timeout: once that has struck,  *)
(* the child is dead, whichever way the call goes on.                      *)
(***************************************************************************)
NoChildIsLeft ==
  \A c \in Calls : child[c] = "running" =>
    pc[c] \in {"communicate", "cancelled", "raised"} /\ ~timed_out[c]

(***************************************************************************)
(* Every call ends, though its child never exits by itself, if those the   *)
(* child has started do.                                                   *)
(***************************************************************************)
EveryCommandEnds == \A c \in Calls : pc[c] \in {"communicate", "drain"} ~> pc[c] \in Ends

(***************************************************************************)
(* "Enforces a wall-clock timeout" (sandbox.py:67): once the timeout has   *)
(* struck the call ends, whatever the processes do.                        *)
(***************************************************************************)
TimeoutIsEnforced == \A c \in Calls : timed_out[c] ~> pc[c] \in Ends

==============================================================================

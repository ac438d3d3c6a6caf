---------------------------- MODULE Sandbox_proofs ----------------------------
(***************************************************************************)
(* Proofs about Sandbox, for any number of calls and any bound on their    *)
(* output: its types, that a result which is not timed out is complete,    *)
(* and that no child is left running by a call that ended by itself.       *)
(***************************************************************************)
EXTENDS Sandbox, TLAPS

Returned(c) ==
  /\ child[c] = "exited" /\ returncode[c] = "own"
  /\ helper[c] # "running" /\ collected[c] = output[c]

(***************************************************************************)
(* The two properties speak of calls that are over; the invariant adds     *)
(* what holds before: nothing is lost and nothing killed until the timeout *)
(* strikes, and the child is dead from then on.                            *)
(***************************************************************************)
CallInv(c) ==
  /\ pc[c] \in {"idle", "spawn", "rejected"} => child[c] = "none"
  /\ pc[c] \in {"idle", "spawn", "communicate"} => lost[c] = 0 /\ ~timed_out[c]
  /\ pc[c] = "communicate" => child[c] \in {"running", "exited"}
  /\ pc[c] = "drain" => timed_out[c]
  /\ timed_out[c] => child[c] \in {"exited", "killed"}
  /\ child[c] = "running" => pc[c] \in {"communicate", "cancelled", "raised"}
  /\ pc[c] = "returned" /\ ~timed_out[c] => Returned(c)

SandboxInv == SandboxTypeOK /\ \A c \in Calls : CallInv(c)

\* The variables of call d, which a step of another call leaves alone.
Untouched(d) ==
  /\ pc'[d] = pc[d] /\ child'[d] = child[d] /\ helper'[d] = helper[d]
  /\ output'[d] = output[d] /\ collected'[d] = collected[d] /\ lost'[d] = lost[d]
  /\ timed_out'[d] = timed_out[d] /\ returncode'[d] = returncode[d]

LEMMA CallStep ==
  ASSUME SandboxInv, NEW c \in Calls,
         \/ RunCommand(c) \/ ParseFails(c) \/ Handler(c) \/ SpawnFails(c)
         \/ PipeFails(c) \/ Cancel(c) \/ Processes(c)
  PROVE  SandboxInv'
<1> USE SandboxAssumption DEF SandboxInv, Goto, processes, answers, Ends
<1> DEFINE Step == /\ SandboxTypeOK' /\ CallInv(c)'
                   /\ \A d \in Calls \ {c} : Untouched(d)
<1>s. ASSUME Step PROVE SandboxInv'
  BY <1>s DEF CallInv, Returned, Untouched
<1>1. CASE RunCommand(c) \/ ParseFails(c)
  <2>1. Step
    BY <1>1 DEF RunCommand, ParseFails, SandboxTypeOK, CallInv, Returned, Untouched
  <2> QED
    BY <1>s, <2>1
<1>2. CASE Spawn(c) \/ SpawnFails(c)
  <2>1. Step
    BY <1>2 DEF Spawn, SpawnFails, SandboxTypeOK, CallInv, Returned, Untouched
  <2> QED
    BY <1>s, <2>1
<1>3. CASE Read(c)
  <2>1. SandboxTypeOK' /\ \A d \in Calls \ {c} : Untouched(d)
    BY <1>3 DEF Read, SandboxTypeOK, Untouched
  <2>2. CallInv(c)'
    BY <1>3 DEF Read, SandboxTypeOK, CallInv, Returned
  <2> QED
    BY <1>s, <2>1, <2>2
<1>4. CASE Finish(c)
  <2>1. SandboxTypeOK' /\ \A d \in Calls \ {c} : Untouched(d)
    BY <1>4 DEF Finish, SandboxTypeOK, Untouched
  <2>2. Returned(c)'
    BY <1>4 DEF Finish, Communicated, PipesClosed, SandboxTypeOK, CallInv, Returned
  <2>3. CallInv(c)'
    BY <1>4, <2>2 DEF Finish, Communicated, PipesClosed, SandboxTypeOK, CallInv, Returned
  <2> QED
    BY <1>s, <2>1, <2>3
<1>5. CASE Timeout(c)
  <2>1. SandboxTypeOK' /\ \A d \in Calls \ {c} : Untouched(d)
    BY <1>5 DEF Timeout, Discard, SandboxTypeOK, Untouched
  <2>2. CallInv(c)'
    BY <1>5 DEF Timeout, PipesClosed, SandboxTypeOK, CallInv, Returned
  <2> QED
    BY <1>s, <2>1, <2>2
<1>6. CASE DrainEnds(c)
  <2>1. SandboxTypeOK' /\ \A d \in Calls \ {c} : Untouched(d)
    BY <1>6 DEF DrainEnds, ExitStatus, SandboxTypeOK, Untouched
  <2>2. CallInv(c)'
    BY <1>6 DEF DrainEnds, SandboxTypeOK, CallInv, Returned
  <2> QED
    BY <1>s, <2>1, <2>2
<1>7. CASE PipeFails(c)
  <2>1. SandboxTypeOK' /\ \A d \in Calls \ {c} : Untouched(d)
    <3>1. CASE pc[c] = "communicate"
      BY <1>7, <3>1 DEF PipeFails, SandboxTypeOK, Untouched
    <3>2. CASE pc[c] = "drain" /\ Discard(c)
      <4>1. PICK status \in {"own", "killed", "unknown"} :
              returncode' = [returncode EXCEPT ![c] = status]
        BY <1>7, <3>2 DEF PipeFails, ExitStatus
      <4>2. /\ Goto(c, "returned") /\ UNCHANGED <<child, helper, output, timed_out>>
        BY <1>7, <3>2 DEF PipeFails
      <4> QED
        BY <3>2, <4>1, <4>2 DEF Discard, SandboxTypeOK, Untouched
    <3> QED
      BY <1>7, <3>1, <3>2 DEF PipeFails
  <2>2. CallInv(c)'
    BY <1>7 DEF PipeFails, SandboxTypeOK, CallInv, Returned
  <2> QED
    BY <1>s, <2>1, <2>2
<1>8. CASE Cancel(c)
  <2>1. Step
    BY <1>8 DEF Cancel, SandboxTypeOK, CallInv, Returned, Untouched
  <2> QED
    BY <1>s, <2>1
<1>9. CASE Processes(c)
  <2>1. SandboxTypeOK' /\ \A d \in Calls \ {c} : Untouched(d)
    BY <1>9 DEF Processes, Fork, WriteOutput, ChildExits, HelperExits,
                SandboxTypeOK, Untouched
  <2>2. CallInv(c)'
    BY <1>9 DEF Processes, Fork, WriteOutput, ChildExits, HelperExits, PipesClosed,
                SandboxTypeOK, CallInv, Returned
  <2> QED
    BY <1>s, <2>1, <2>2
<1> QED
  BY <1>1, <1>2, <1>3, <1>4, <1>5, <1>6, <1>7, <1>8, <1>9 DEF Handler

LEMMA SandboxInvariance == Spec => []SandboxInv
<1>1. Init => SandboxInv
  BY SandboxAssumption DEF Init, SandboxInv, SandboxTypeOK, CallInv, Ends
<1>2. SandboxInv /\ [Next]_vars => SandboxInv'
  <2>1. ASSUME SandboxInv, UNCHANGED vars PROVE SandboxInv'
    BY <2>1 DEF vars, processes, answers, SandboxInv, SandboxTypeOK, CallInv, Returned
  <2> QED
    BY <2>1, CallStep DEF Next, Terminating
<1> QED
  BY <1>1, <1>2, PTL DEF Spec

(***************************************************************************)
(* The types of the calls and their processes (SandboxTypeOK).             *)
(***************************************************************************)
THEOREM TypeCorrect == Spec => []SandboxTypeOK
  BY SandboxInvariance, PTL DEF SandboxInv

(***************************************************************************)
(* A result that is not timed out is complete (ResultIsComplete): the      *)
(* child's own status and all the output, its helpers' included.           *)
(***************************************************************************)
THEOREM ResultsAreComplete == Spec => []ResultIsComplete
<1>1. SandboxInv => ResultIsComplete
  BY DEF SandboxInv, CallInv, Returned, ResultIsComplete
<1> QED
  BY <1>1, SandboxInvariance, PTL

(***************************************************************************)
(* No child outlives a call that returned, and none the timeout            *)
(* (NoChildIsLeft).                                                        *)
(***************************************************************************)
THEOREM ChildrenAreReaped == Spec => []NoChildIsLeft
<1>1. SandboxInv => NoChildIsLeft
  BY DEF SandboxInv, CallInv, NoChildIsLeft
<1> QED
  BY <1>1, SandboxInvariance, PTL

==============================================================================

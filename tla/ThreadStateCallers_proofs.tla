---------------------- MODULE ThreadStateCallers_proofs ----------------------
(***************************************************************************)
(* Proofs about ThreadStateCallers: its types, and that a settled kill is  *)
(* permanent for any number of callers, threads and overlapping calls.     *)
(***************************************************************************)
EXTENDS ThreadStateCallers, TLAPS

(***************************************************************************)
(* What _upsert writes is a row, and with the flag up when the call is a   *)
(* kill or the SELECT has seen the flag.                                   *)
(***************************************************************************)
LEMMA WrittenIsRow ==
  ASSUME NEW e \in Row \cup {NoRow}, NEW s \in Statuses
  PROVE  /\ Written(e, s) \in Row
         /\ Written(e, s) # NoRow
         /\ e # NoRow /\ e.kill_requested => Written(e, s).kill_requested
<1>1. /\ Written(e, s).status = s
      /\ Written(e, s).kill_requested \in BOOLEAN
      /\ e # NoRow /\ e.kill_requested => Written(e, s).kill_requested
  BY DEF Written
<1>2. Written(e, s) \in Row
  BY <1>1 DEF Written, Row
<1> QED
  BY <1>1, <1>2, NoRowIsNoRow

(***************************************************************************)
(* Every step keeps the types.                                             *)
(***************************************************************************)
LEMMA TypeStep ==
  ASSUME CallerTypeOK, [Next]_vars
  PROVE  CallerTypeOK'
<1> USE DEF CallerTypeOK, ThreadStateTypeOK
<1>1. ASSUME NEW c \in Callers, NEW t \in Threads, Begin(c, t)
      PROVE  CallerTypeOK'
  BY <1>1 DEF Begin, SetThreadStatus, RequestKill, Statuses
<1>2. ASSUME NEW c \in Callers, Lookup(c)
      PROVE  CallerTypeOK'
  BY <1>2 DEF Lookup
<1>3. ASSUME NEW c \in Callers, Select(c)
      PROVE  CallerTypeOK'
  BY <1>3 DEF Select
<1>4. ASSUME NEW c \in Callers, Write(c)
      PROVE  CallerTypeOK'
  <2>1. Written(existing[c], mark[c]) \in Row
    BY WrittenIsRow
  <2> QED
    BY <1>4, <2>1 DEF Write, Upsert, Return, Statuses
<1>5. ASSUME NEW c \in Callers, Conflict(c) \/ LeaveInDoubt(c) \/ Fail(c)
      PROVE  CallerTypeOK'
  BY <1>5 DEF Conflict, LeaveInDoubt, Fail, Return, Statuses
<1>6. CASE UNCHANGED vars
  BY <1>6 DEF vars
<1> QED
  BY <1>1, <1>2, <1>3, <1>4, <1>5, <1>6 DEF Next, Run

(***************************************************************************)
(* Every variable keeps its type (CallerTypeOK), whoever calls.            *)
(***************************************************************************)
THEOREM TypeCorrect == Spec => []CallerTypeOK
<1>1. Init => CallerTypeOK
  BY DEF Init, CallerTypeOK, ThreadStateInit, ThreadStateTypeOK, Statuses
<1>2. CallerTypeOK /\ [Next]_vars => CallerTypeOK'
  BY TypeStep
<1> QED
  BY <1>1, <1>2, PTL DEF Spec

------------------------------------------------------------------------------
(***************************************************************************)
(* No step of any caller takes a settled kill back.  A SELECT made while   *)
(* the flag is up sees it; a write made then was decided by a SELECT that  *)
(* saw the flag, or is an INSERT and refused.                              *)
(***************************************************************************)
LEMMA SettledStep ==
  ASSUME CallerTypeOK, NEW t \in Threads, Settled(t), [Next]_vars
  PROVE  Settled(t)'
<1> USE DEF Settled, Pending, KillRequested, CallerTypeOK, ThreadStateTypeOK
<1>1. ASSUME NEW c \in Callers, NEW u \in Threads, Begin(c, u)
      PROVE  Settled(t)'
  BY <1>1 DEF Begin, SetThreadStatus, RequestKill
<1>2. ASSUME NEW c \in Callers, Lookup(c)
      PROVE  Settled(t)'
  BY <1>2 DEF Lookup
<1>3. ASSUME NEW c \in Callers, Select(c)
      PROVE  Settled(t)'
  BY <1>3 DEF Select
<1>4. ASSUME NEW c \in Callers, Write(c)
      PROVE  Settled(t)'
  <2>1. KillRequested(t)'
    <3>1. CASE tid[c] # t
      BY <1>4, <3>1 DEF Write, Upsert
    <3>2. CASE tid[c] = t
      <4>1. existing[c] # NoRow /\ existing[c].kill_requested
        BY <1>4, <3>2 DEF Write, Upsert, InsertConflicts
      <4>2. agent_thread_state'[t] = Written(existing[c], mark[c])
        BY <1>4, <3>2 DEF Write, Upsert
      <4> QED
        BY <4>1, <4>2, WrittenIsRow
    <3> QED
      BY <3>1, <3>2
  <2>2. \A d \in Callers : (Pending(d)' /\ tid'[d] = t) =>
           (existing'[d] = NoRow \/ existing'[d].kill_requested)
    BY <1>4 DEF Write, Return
  <2> QED
    BY <2>1, <2>2
<1>5. ASSUME NEW c \in Callers, Conflict(c) \/ LeaveInDoubt(c) \/ Fail(c)
      PROVE  Settled(t)'
  BY <1>5 DEF Conflict, LeaveInDoubt, Fail, Return
<1>6. CASE UNCHANGED vars
  BY <1>6 DEF vars
<1> QED
  BY <1>1, <1>2, <1>3, <1>4, <1>5, <1>6 DEF Next, Run

(***************************************************************************)
(* A settled kill is permanent (SettledKillIsPermanent).                   *)
(***************************************************************************)
THEOREM SettledKillsStay == Spec => SettledKillIsPermanent
<1>1. CallerTypeOK /\ [Next]_vars => [\A t \in Threads : Settled(t) => Settled(t)']_vars
  BY SettledStep
<1> QED
  BY <1>1, TypeCorrect, PTL DEF Spec, SettledKillIsPermanent

------------------------------------------------------------------------------
(***************************************************************************)
(* Calls that do not overlap implement the atomic specification.  One      *)
(* caller at a time is busy, so the row its SELECT saw is still there when *)
(* it writes: that is what the step of KillSwitch needs.                   *)
(***************************************************************************)
OneBusy == \A c, d \in Callers : pc[c] # "idle" /\ pc[d] # "idle" => c = d

SeenIsCurrent ==
  \A c \in Callers : Pending(c) => existing[c] = agent_thread_state[tid[c]]

SerialInv == CallerTypeOK /\ OneBusy /\ SeenIsCurrent

LEMMA SerialStepIsStep == SerialNext => Next
  BY DEF SerialNext, Next

LEMMA SerialInvariance == SerialSpec => []SerialInv
<1>1. Init => SerialInv
  BY DEF Init, SerialInv, CallerTypeOK, ThreadStateInit, ThreadStateTypeOK,
         Statuses, OneBusy, SeenIsCurrent, Pending
<1>2. SerialInv /\ [SerialNext]_vars => SerialInv'
  <2> SUFFICES ASSUME SerialInv, [SerialNext]_vars, CallerTypeOK'
               PROVE  OneBusy' /\ SeenIsCurrent'
    BY SerialStepIsStep, TypeStep DEF SerialInv
  <2> USE DEF SerialInv, CallerTypeOK, ThreadStateTypeOK, OneBusy, SeenIsCurrent,
              Pending
  <2>1. ASSUME NEW c \in Callers, NEW t \in Threads, Begin(c, t),
               \A d \in Callers : pc[d] = "idle"
        PROVE  OneBusy' /\ SeenIsCurrent'
    BY <2>1 DEF Begin, SetThreadStatus, RequestKill
  <2>2. ASSUME NEW c \in Callers, Lookup(c)
        PROVE  OneBusy' /\ SeenIsCurrent'
    BY <2>2 DEF Lookup
  <2>3. ASSUME NEW c \in Callers, Select(c)
        PROVE  OneBusy' /\ SeenIsCurrent'
    BY <2>3 DEF Select
  <2>4. ASSUME NEW c \in Callers, Write(c)
        PROVE  OneBusy' /\ SeenIsCurrent'
    BY <2>4 DEF Write, Return
  <2>5. ASSUME NEW c \in Callers, Conflict(c) \/ LeaveInDoubt(c) \/ Fail(c)
        PROVE  OneBusy' /\ SeenIsCurrent'
    BY <2>5 DEF Conflict, LeaveInDoubt, Fail, Return
  <2>6. CASE UNCHANGED vars
    BY <2>6 DEF vars
  <2> QED
    BY <2>1, <2>2, <2>3, <2>4, <2>5, <2>6 DEF SerialNext, Run
<1> QED
  BY <1>1, <1>2, PTL DEF SerialSpec

(***************************************************************************)
(* A write by the only busy caller is one step of KillSwitch; every other  *)
(* statement of a call leaves the table as it is.                          *)
(***************************************************************************)
LEMMA SerialStepRefines ==
  ASSUME SerialInv, [SerialNext]_vars
  PROVE  [Atomic!Next]_agent_thread_state
<1> USE DEF SerialInv, CallerTypeOK, ThreadStateTypeOK
<1>1. ASSUME NEW c \in Callers, Write(c)
      PROVE  Atomic!Next
  <2> DEFINE t == tid[c]
  <2>1. /\ t \in Threads
        /\ mark[c] \in Statuses
        /\ existing[c] = agent_thread_state[t]
        /\ agent_thread_state' =
             [agent_thread_state EXCEPT ![t] = Written(existing[c], mark[c])]
    BY <1>1 DEF Write, Upsert, SeenIsCurrent
  <2>2. CASE mark[c] = "kill_requested"
    <3>1. Written(existing[c], mark[c]) =
            [status |-> "kill_requested", kill_requested |-> TRUE]
      BY <2>2 DEF Written
    <3>2. Atomic!RequestKill(t)
      BY <2>1, <3>1 DEF Atomic!RequestKill
    <3> QED
      BY <2>1, <3>2 DEF Atomic!Next
  <2>3. CASE mark[c] # "kill_requested"
    <3>1. mark[c] \in Atomic!RunStatuses
      BY <2>1, <2>3 DEF Statuses, Atomic!RunStatuses
    <3>2. Written(existing[c], mark[c]) =
            [status |-> mark[c], kill_requested |-> Atomic!Killed(t)]
      BY <2>1, <2>3 DEF Written, Atomic!Killed
    <3>3. Atomic!SetThreadStatus(t, mark[c])
      BY <2>1, <3>2 DEF Atomic!SetThreadStatus
    <3> QED
      BY <2>1, <3>1, <3>3 DEF Atomic!Next
  <2> QED
    BY <2>2, <2>3
<1>2. ASSUME NEW c \in Callers, Run(c), ~Write(c)
      PROVE  UNCHANGED agent_thread_state
  BY <1>2 DEF Run, Lookup, Select, Conflict, LeaveInDoubt, Fail
<1>3. ASSUME NEW c \in Callers, NEW t \in Threads, Begin(c, t)
      PROVE  UNCHANGED agent_thread_state
  BY <1>3 DEF Begin, SetThreadStatus, RequestKill
<1>4. CASE UNCHANGED vars
  BY <1>4 DEF vars
<1> QED
  BY <1>1, <1>2, <1>3, <1>4 DEF SerialNext

(***************************************************************************)
(* Calls of state.py that do not overlap do what KillSwitch promises       *)
(* (SerialCallsAreAtomic).                                                 *)
(***************************************************************************)
THEOREM SerialImplementsKillSwitch == SerialSpec => SerialCallsAreAtomic
<1>1. Init => Atomic!Init
  BY DEF Init, ThreadStateInit, Atomic!Init
<1>2. SerialInv /\ [SerialNext]_vars => [Atomic!Next]_agent_thread_state
  BY SerialStepRefines
<1> QED
  BY <1>1, <1>2, SerialInvariance, PTL DEF SerialSpec, SerialCallsAreAtomic, Atomic!Spec

==============================================================================

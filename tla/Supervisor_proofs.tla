-------------------------- MODULE Supervisor_proofs --------------------------
(***************************************************************************)
(* Proofs about Supervisor, and about the history variables that           *)
(* SupervisorHistory adds to it, for any number of requests, kills and     *)
(* threads, any max_steps, with overlapping calls and with every fault     *)
(* allowed.  In three parts: the types, and that audit comes first; what   *)
(* one invocation announces, records and checkpoints, and who is killed;   *)
(* what a kill does to the invocations of its thread.                      *)
(***************************************************************************)
EXTENDS SupervisorHistory, SequenceTheorems, FiniteSetTheorems, TLAPS

(***************************************************************************)
(* The statements a call of /agent/kill runs, which are not those of an    *)
(* invocation.                                                             *)
(***************************************************************************)
KillersOK ==
  /\ \A k \in Killers :
       /\ pc[k] \in {"idle", "lookup", "select", "write"} \cup Ends
       /\ pc[k] \in {"select", "write"} => mark[k] = "kill_requested"
  /\ \A r \in Requests : pc[r] # "lookup"

TablesOK ==
  /\ ThreadStateTypeOK
  /\ CheckpointsTypeOK
  /\ audit_log \subseteq Requests
  /\ agent_metrics \in [Requests -> Seq(Outcomes)]
  /\ published \in [Requests -> Seq(EventTypes)]

LocalsOK ==
  /\ step_fn \in {"default", "custom"}
  /\ pc \in [Callers -> Awaits \cup Ends \cup {"idle"}]
  /\ tid \in [Callers -> Threads]
  /\ mark \in [Callers -> Statuses]
  /\ existing \in [Callers -> Row \cup {NoRow}]
  /\ state \in [Requests -> State]
  /\ parent_id \in [Requests -> Nat]
  /\ rounds \in [Requests -> Nat]
  /\ outcome \in [Requests -> Outcomes]

TypeInv == TypeOK /\ KillersOK

LEMMA TypeSplit == TypeOK <=> TablesOK /\ LocalsOK
  BY DEF TypeOK, TablesOK, LocalsOK

(***************************************************************************)
(* What _upsert writes is a row.                                           *)
(***************************************************************************)
LEMMA WrittenIsRow ==
  ASSUME NEW e \in Row \cup {NoRow}, NEW s \in Statuses
  PROVE  Written(e, s) \in Row
<1>1. Written(e, s).kill_requested \in BOOLEAN
  BY DEF Written
<1> QED
  BY <1>1 DEF Written, Row

(***************************************************************************)
(* What a caller awaits keeps the types of the tables.                     *)
(***************************************************************************)
LEMMA ExecuteTypes ==
  ASSUME TypeInv, NEW c \in Callers, Execute(c)
  PROVE  TablesOK'
<1> USE DEF TypeInv, TypeOK, TablesOK, ThreadStateTypeOK, CheckpointsTypeOK
<1>0. pc[c] \in {"audit", "put", "record"} \cup EventTypes => c \in Requests
  BY DEF KillersOK, Callers, Ends, EventTypes
<1>1. CASE pc[c] = "audit" /\ InsertAudit(c)
           /\ UNCHANGED <<agent_thread_state, langgraph_checkpoints,
                          agent_metrics, published>>
  BY <1>0, <1>1 DEF InsertAudit
<1>2. CASE pc[c] = "write" /\ Upsert(tid[c], existing[c], mark[c])
           /\ UNCHANGED <<audit_log, langgraph_checkpoints, agent_metrics, published>>
  <2>1. Written(existing[c], mark[c]) \in Row
    BY WrittenIsRow
  <2> QED
    BY <1>2, <2>1 DEF Upsert
<1>3. CASE pc[c] = "put" /\ PutCheckpoint(tid[c], state[c], parent_id[c])
           /\ UNCHANGED <<audit_log, agent_thread_state, agent_metrics, published>>
  <2>1. [parent_id |-> parent_id[c], state |-> state[c]] \in Checkpoint
    BY <1>0, <1>3 DEF Checkpoint
  <2> QED
    BY <1>3, <2>1 DEF PutCheckpoint
<1>4. CASE pc[c] = "record" /\ RecordInvokeLatency(c)
           /\ UNCHANGED <<audit_log, agent_thread_state, langgraph_checkpoints,
                          published>>
  BY <1>0, <1>4 DEF RecordInvokeLatency
<1>5. CASE pc[c] \in EventTypes /\ Publish(c, pc[c])
           /\ UNCHANGED <<audit_log, agent_thread_state, langgraph_checkpoints,
                          agent_metrics>>
  BY <1>0, <1>5 DEF Publish
<1>6. CASE UNCHANGED tables
  BY <1>6 DEF tables
<1> QED
  BY <1>1, <1>2, <1>3, <1>4, <1>5, <1>6 DEF Execute

LEMMA UnchangedTables == TablesOK /\ UNCHANGED tables => TablesOK'
  BY DEF TablesOK, ThreadStateTypeOK, CheckpointsTypeOK, tables

(***************************************************************************)
(* The values get_latest and a step function give an invocation.           *)
(***************************************************************************)
LEMMA CheckpointIdType ==
  ASSUME CheckpointsTypeOK, NEW t \in Threads
  PROVE  LatestId(t) \in Nat /\ NextId(t) \in Nat
  BY DEF CheckpointsTypeOK, LatestId, NextId

LEMMA ResumedStateType ==
  ASSUME CheckpointsTypeOK, NEW t \in Threads, NEW r \in Requests
  PROVE  ResumedState(t, r) \in State /\ ResumedState(t, r).input = r
<1>1. CASE LatestId(t) = 0
  BY <1>1 DEF ResumedState, State
<1>2. CASE LatestId(t) # 0
  <2>1. langgraph_checkpoints[t] \in Seq(Checkpoint)
    BY DEF CheckpointsTypeOK
  <2>2. LatestId(t) \in 1..Len(langgraph_checkpoints[t])
    BY <1>2, <2>1 DEF LatestId
  <2>3. langgraph_checkpoints[t][LatestId(t)] \in Checkpoint
    BY <2>1, <2>2
  <2>4. langgraph_checkpoints[t][LatestId(t)].state \in State
    BY <2>3 DEF Checkpoint
  <2> QED
    BY <1>2, <2>4 DEF ResumedState, State
<1> QED
  BY <1>1, <1>2

LEMMA StepResultsType ==
  ASSUME NEW s \in State, NEW n \in StepResults(s)
  PROVE  n \in State /\ n.input = s.input
<1>1. /\ s.step \in Nat /\ s.completed \in BOOLEAN /\ s.input \in Requests
      /\ s = [step |-> s.step, completed |-> s.completed, input |-> s.input]
  BY DEF State
<1>2. n \in {s, [s EXCEPT !.completed = TRUE],
             [s EXCEPT !.step = @ + 1, !.completed = TRUE]}
  BY DEF StepResults
<1>3. CASE n = s
  BY <1>3
<1>4. CASE n = [s EXCEPT !.completed = TRUE]
  <2>1. n = [step |-> s.step, completed |-> TRUE, input |-> s.input]
    BY <1>1, <1>4
  <2> QED
    BY <1>1, <2>1 DEF State
<1>5. CASE n = [s EXCEPT !.step = @ + 1, !.completed = TRUE]
  <2>1. n = [step |-> s.step + 1, completed |-> TRUE, input |-> s.input]
    BY <1>1, <1>5
  <2> QED
    BY <1>1, <2>1 DEF State
<1> QED
  BY <1>2, <1>3, <1>4, <1>5

------------------------------------------------------------------------------
(***************************************************************************)
(* Every action keeps the types of the local variables, and killers in     *)
(* their own statements.                                                   *)
(***************************************************************************)
LEMMA ArriveLocals ==
  ASSUME TypeInv, NEW c \in Callers, Arrive(c)
  PROVE  LocalsOK' /\ KillersOK' /\ UNCHANGED tables
<1>1. PICK l \in {"audit", "lookup"} :
        /\ Goto(c, l)
        /\ l = "lookup" <=> c \in Killers
        /\ UNCHANGED <<tables, step_fn, tid, mark, existing, progress, outcome>>
  BY SupervisorAssumption DEF Arrive, Invoke, Kill, Callers
<1>2. LocalsOK'
  BY <1>1, TypeSplit DEF TypeInv, LocalsOK, Goto, Awaits, progress
<1>3. KillersOK'
  BY <1>1, TypeSplit, SupervisorAssumption
  DEF TypeInv, LocalsOK, KillersOK, Goto, Callers
<1> QED
  BY <1>1, <1>2, <1>3

LEMMA CallUpsertType ==
  ASSUME LocalsOK, NEW c \in Callers, NEW s \in Statuses, CallUpsert(c, s)
  PROVE  /\ pc' \in [Callers -> Awaits \cup Ends \cup {"idle"}]
         /\ mark' \in [Callers -> Statuses]
         /\ pc'[c] = "select" /\ mark'[c] = s
         /\ \A d \in Callers \ {c} : pc'[d] = pc[d] /\ mark'[d] = mark[d]
  BY DEF LocalsOK, CallUpsert, Goto, Awaits

LEMMA GotoType ==
  ASSUME LocalsOK, NEW c \in Callers, NEW l \in Awaits \cup Ends \cup {"idle"}, Goto(c, l)
  PROVE  /\ pc' \in [Callers -> Awaits \cup Ends \cup {"idle"}]
         /\ pc'[c] = l
         /\ \A d \in Callers \ {c} : pc'[d] = pc[d]
  BY DEF LocalsOK, Goto

LEMMA EnterRoundType ==
  ASSUME LocalsOK, NEW r \in Requests, NEW n \in Nat, EnterRound(r, n)
  PROVE  /\ rounds' \in [Requests -> Nat]
         /\ outcome' \in [Requests -> Outcomes]
         /\ \E l \in {"is_kill_requested", "record"} : Goto(r, l)
  BY DEF LocalsOK, EnterRound, Outcomes

LEMMA InvokeLocals ==
  ASSUME TypeInv, NEW r \in Requests, AdvanceInvoke(r)
  PROVE  LocalsOK' /\ KillersOK' /\ Execute(r)
<1> USE DEF TypeInv, LocalsOK
<1>0. LocalsOK /\ CheckpointsTypeOK /\ r \in Callers /\ r \notin Killers
  BY TypeSplit, SupervisorAssumption DEF TablesOK, Callers
<1> DEFINE Moved == \E l \in Awaits \cup Ends : Goto(r, l)
<1>k. ASSUME Moved, UNCHANGED mark, pc'[r] # "lookup"
      PROVE  KillersOK' /\ pc' \in [Callers -> Awaits \cup Ends \cup {"idle"}]
  BY <1>k, <1>0, SupervisorAssumption DEF KillersOK, Goto, Callers
<1>u. ASSUME NEW s \in Statuses, CallUpsert(r, s)
      PROVE  KillersOK' /\ pc' \in [Callers -> Awaits \cup Ends \cup {"idle"}]
             /\ mark' \in [Callers -> Statuses]
  BY <1>u, <1>0, CallUpsertType, SupervisorAssumption, SMTT(30) DEF KillersOK, Callers
<1>1. CASE Audit(r)
  BY <1>0, <1>1, <1>u DEF Audit, Statuses, progress
<1>2. CASE PublishStart(r) \/ PublishStepStart(r) \/ PublishFailure(r) \/ PublishEnd(r)
  <2>1. \E l \in {"get_latest", "step", "record", "returned"} : Pass(r, l)
    BY <1>2 DEF PublishStart, PublishStepStart, PublishFailure, PublishEnd
  <2>2. Moved /\ pc'[r] # "lookup"
    BY <1>0, <2>1 DEF Pass, Goto, Awaits, Ends
  <2> QED
    BY <1>0, <2>1, <2>2, <1>k DEF Pass, progress
<1>3. CASE Resume(r)
  <2>1. tid[r] \in Threads
    BY <1>0
  <2>2. state' \in [Requests -> State] /\ parent_id' \in [Requests -> Nat]
    BY <1>0, <1>3, <2>1, ResumedStateType, CheckpointIdType DEF Resume
  <2>3. EnterRound(r, 0) /\ UNCHANGED <<step_fn, tid, mark, existing>> /\ Execute(r)
    BY <1>3 DEF Resume
  <2>4. /\ rounds' \in [Requests -> Nat]
        /\ outcome' \in [Requests -> Outcomes]
        /\ \E l \in {"is_kill_requested", "record"} : Goto(r, l)
    BY <1>0, <2>3, EnterRoundType
  <2>5. Moved /\ pc'[r] # "lookup"
    BY <1>0, <2>4 DEF Goto, Awaits
  <2> QED
    BY <1>0, <2>2, <2>3, <2>4, <2>5, <1>k
<1>4. CASE CheckKill(r)
  <2>1. Moved /\ pc'[r] # "lookup" /\ outcome' \in [Requests -> Outcomes]
    BY <1>0, <1>4 DEF CheckKill, Goto, Awaits, EventTypes, Outcomes
  <2> QED
    BY <1>0, <1>4, <2>1, <1>k DEF CheckKill, progress
<1>5. CASE PublishKilled(r)
  BY <1>0, <1>5, <1>u DEF PublishKilled, Statuses, progress
<1>6. CASE Step(r)
  <2>1. state' \in [Requests -> State]
    BY <1>0, <1>6, StepResultsType DEF Step
  <2>2. Moved /\ pc'[r] # "lookup"
    BY <1>0, <1>6 DEF Step, Goto, Awaits
  <2> QED
    BY <1>0, <1>6, <2>1, <2>2, <1>k DEF Step
<1>7. CASE Put(r)
  <2>1. parent_id' \in [Requests -> Nat]
    BY <1>0, <1>7, CheckpointIdType DEF Put
  <2>2. Moved /\ pc'[r] # "lookup"
    BY <1>0, <1>7 DEF Put, Goto, Awaits, EventTypes
  <2> QED
    BY <1>0, <1>7, <2>1, <2>2, <1>k DEF Put
<1>8. CASE PublishStepEnd(r)
  <2>1. /\ Moved /\ pc'[r] # "lookup"
        /\ rounds' \in [Requests -> Nat]
        /\ outcome' \in [Requests -> Outcomes]
    <3>1. CASE Goto(r, "record") /\ UNCHANGED <<rounds, outcome>>
      BY <1>0, <3>1 DEF Goto, Awaits
    <3>2. CASE EnterRound(r, rounds[r] + 1)
      <4>1. rounds[r] + 1 \in Nat
        BY <1>0
      <4>2. /\ rounds' \in [Requests -> Nat]
            /\ outcome' \in [Requests -> Outcomes]
            /\ \E l \in {"is_kill_requested", "record"} : Goto(r, l)
        BY <1>0, <3>2, <4>1, EnterRoundType
      <4> QED
        BY <1>0, <4>2 DEF Goto, Awaits
    <3> QED
      BY <1>8, <3>1, <3>2 DEF PublishStepEnd
  <2> QED
    BY <1>0, <1>8, <2>1, <1>k DEF PublishStepEnd
<1>9. CASE Record(r)
  <2>1. CASE CallUpsert(r, "completed")
    BY <1>0, <1>9, <2>1, <1>u DEF Record, Statuses, progress
  <2>2. CASE (Goto(r, "returned") \/ Goto(r, "raised")) /\ UNCHANGED mark
    <3>1. Moved /\ pc'[r] # "lookup"
      BY <1>0, <2>2 DEF Goto, Ends
    <3> QED
      BY <1>0, <1>9, <2>2, <3>1, <1>k DEF Record, progress
  <2> QED
    BY <1>9, <2>1, <2>2 DEF Record
<1> QED
  BY <1>1, <1>2, <1>3, <1>4, <1>5, <1>6, <1>7, <1>8, <1>9 DEF AdvanceInvoke

LEMMA UpsertLocals ==
  ASSUME TypeInv, NEW c \in Callers, Lookup(c) \/ Select(c) \/ Write(c)
  PROVE  LocalsOK' /\ KillersOK' /\ Execute(c)
<1> USE TypeSplit DEF TypeInv
<1>1. CASE Lookup(c)
  <2>1. LocalsOK' /\ mark'[c] = "kill_requested" /\ pc'[c] = "select"
        /\ \A d \in Callers \ {c} : pc'[d] = pc[d] /\ mark'[d] = mark[d]
    BY <1>1, CallUpsertType DEF Lookup, LocalsOK, Statuses, progress
  <2> QED
    BY <1>1, <2>1 DEF KillersOK, Callers, Lookup
<1>2. CASE Select(c)
  <2>1. agent_thread_state[tid[c]] \in Row \cup {NoRow}
    BY DEF LocalsOK, TablesOK, ThreadStateTypeOK
  <2>2. LocalsOK'
    BY <1>2, <2>1 DEF Select, Goto, LocalsOK, Awaits, progress
  <2>3. KillersOK'
    BY <1>2 DEF Select, Goto, LocalsOK, KillersOK, Callers
  <2> QED
    BY <1>2, <2>2, <2>3 DEF Select
<1>3. CASE Write(c)
  <2>1. /\ AfterUpsert[mark[c]] \in (Awaits \cup Ends) \ {"lookup", "audit"}
        /\ mark[c] = "kill_requested" => AfterUpsert[mark[c]] = "returned"
    BY DEF LocalsOK, Statuses, AfterUpsert, Awaits, EventTypes, Ends
  <2>2. LocalsOK'
    BY <1>3, <2>1 DEF Write, Goto, LocalsOK, progress
  <2>3. KillersOK'
    BY <1>3, <2>1 DEF Write, Goto, LocalsOK, KillersOK, Callers, Ends
  <2> QED
    BY <1>3, <2>2, <2>3 DEF Write
<1> QED
  BY <1>1, <1>2, <1>3

LEMMA UnwindLocals ==
  ASSUME TypeInv, NEW c \in Callers, NEW kind \in {"error", "cancelled"},
         Running(c), Unwind(c, kind)
  PROVE  LocalsOK' /\ KillersOK'
<1> USE TypeSplit DEF TypeInv
<1>1. CASE InTry(c) /\ CallUpsert(c, kind) /\ outcome' = [outcome EXCEPT ![c] = kind]
  <2>1. c \notin Killers
    BY <1>1 DEF InTry, KillersOK, Ends
  <2>2. /\ pc' \in [Callers -> Awaits \cup Ends \cup {"idle"}]
        /\ mark' \in [Callers -> Statuses]
        /\ pc'[c] = "select"
        /\ \A d \in Callers \ {c} : pc'[d] = pc[d] /\ mark'[d] = mark[d]
    BY <1>1, CallUpsertType DEF Statuses
  <2>3. LocalsOK'
    BY <1>1, <2>1, <2>2 DEF Unwind, LocalsOK, Outcomes, progress
  <2> QED
    BY <2>1, <2>2, <2>3 DEF KillersOK, Callers
<1>2. CASE InHandler(c) /\ Goto(c, "record") /\ UNCHANGED <<mark, outcome>>
  <2>1. c \notin Killers
    BY <1>2 DEF InHandler, KillersOK, Ends
  <2>2. LocalsOK'
    BY <1>2, <2>1 DEF Unwind, LocalsOK, Goto, Awaits, progress
  <2> QED
    BY <1>2, <2>1, <2>2 DEF KillersOK, Callers, Goto, LocalsOK
<1>3. CASE Goto(c, Uncaught(c, kind)) /\ UNCHANGED <<mark, outcome>>
  <2>1. Uncaught(c, kind) \in Ends
    BY DEF Uncaught, Ends
  <2>2. LocalsOK'
    BY <1>3, <2>1 DEF Unwind, LocalsOK, Goto, progress
  <2> QED
    BY <1>3, <2>1, <2>2 DEF KillersOK, Callers, Goto, LocalsOK, Ends
<1> QED
  BY <1>1, <1>2, <1>3 DEF Unwind

LEMMA CrashLocals ==
  ASSUME TypeInv, Crash
  PROVE  LocalsOK' /\ KillersOK' /\ UNCHANGED tables
<1> USE TypeSplit DEF TypeInv
<1>1. LocalsOK'
  BY DEF Crash, LocalsOK, Ends, progress
<1>2. KillersOK'
  BY DEF Crash, LocalsOK, KillersOK, Callers, Ends
<1> QED
  BY <1>1, <1>2 DEF Crash

------------------------------------------------------------------------------
(***************************************************************************)
(* Every variable keeps its type (TypeOK).                                 *)
(***************************************************************************)
LEMMA TypeStep ==
  ASSUME TypeInv, [Next]_vars
  PROVE  TypeInv'
<1>0. TablesOK /\ LocalsOK /\ KillersOK
  BY TypeSplit DEF TypeInv
<1>1. TablesOK' /\ LocalsOK' /\ KillersOK' => TypeInv'
  BY TypeSplit, PTL DEF TypeInv
<1>2. ASSUME NEW c \in Callers, Arrive(c)
      PROVE  TypeInv'
  BY <1>0, <1>1, <1>2, ArriveLocals, UnchangedTables
<1>3. ASSUME NEW c \in Callers, Advance(c)
      PROVE  TypeInv'
  <2>1. CASE Conflict(c)
    BY <1>0, <1>1, <2>1, UnwindLocals, UnchangedTables DEF Conflict, Running, Awaits
  <2>2. CASE c \in Requests /\ AdvanceInvoke(c)
    BY <1>1, <2>2, InvokeLocals, ExecuteTypes
  <2>3. CASE Lookup(c) \/ Select(c) \/ Write(c)
    BY <1>1, <2>3, UpsertLocals, ExecuteTypes
  <2> QED
    BY <1>3, <2>1, <2>2, <2>3 DEF Advance
<1>4. ASSUME NEW c \in Callers, Raise(c) \/ Cancel(c)
      PROVE  TypeInv'
  <2>1. LocalsOK' /\ KillersOK'
    BY <1>4, UnwindLocals DEF Raise, Cancel
  <2>2. TablesOK'
    BY <1>0, <1>4, ExecuteTypes, UnchangedTables DEF Raise, Cancel
  <2> QED
    BY <1>1, <2>1, <2>2
<1>5. CASE Crash
  BY <1>0, <1>1, <1>5, CrashLocals, UnchangedTables
<1>6. CASE SetGraph
  <2>1. LocalsOK' /\ KillersOK' /\ UNCHANGED tables
    BY <1>0, <1>6, SupervisorAssumption DEF SetGraph, LocalsOK, KillersOK, progress
  <2> QED
    BY <1>0, <1>1, <2>1, UnchangedTables
<1>7. CASE UNCHANGED vars
  <2>1. LocalsOK' /\ KillersOK' /\ UNCHANGED tables
    BY <1>0, <1>7 DEF vars, LocalsOK, KillersOK, progress
  <2> QED
    BY <1>0, <1>1, <2>1, UnchangedTables
<1> QED
  BY <1>2, <1>3, <1>4, <1>5, <1>6, <1>7 DEF Next, Terminating

LEMMA TypeInit == Init => TypeInv
<1> SUFFICES ASSUME Init PROVE TypeInv
  OBVIOUS
<1>1. TablesOK
  BY DEF Init, TablesOK, ThreadStateInit, ThreadStateTypeOK, CheckpointsInit,
         CheckpointsTypeOK
<1>2. LocalsOK
  BY DEF Init, LocalsOK, Statuses, State, Outcomes
<1>3. KillersOK
  BY DEF Init, KillersOK, Callers
<1> QED
  BY <1>1, <1>2, <1>3, TypeSplit DEF TypeInv

LEMMA TypeInvariance == Spec => []TypeInv
<1>1. TypeInv /\ [Next]_vars => TypeInv'
  BY TypeStep
<1> QED
  BY <1>1, TypeInit, PTL DEF Spec

(***************************************************************************)
(* The variables of Supervisor keep their types (TypeOK), whatever fails   *)
(* and however calls overlap: no statement of invoke or _upsert ever       *)
(* writes a row that is not one, or resumes from one.                      *)
(***************************************************************************)
THEOREM TypeCorrect == Spec => []TypeOK
<1>1. TypeInv => TypeOK
  BY DEF TypeInv
<1> QED
  BY <1>1, TypeInvariance, PTL

------------------------------------------------------------------------------
(***************************************************************************)
(* Audit first.  AuditFirst and RefusedLeavesNoTrace say nothing of what a *)
(* request is about to do, so neither is inductive.  The invariant adds    *)
(* that a request awaits something other than its audit INSERT only once   *)
(* its audit row is there, and that the state it carries is its own.       *)
(***************************************************************************)
AfterAudit == Awaits \ {"audit", "lookup"}

OwnInput == \A r \in Requests : state[r].input = r

TracesAreAudited ==
  \A r \in Requests :
    /\ pc[r] \in AfterAudit => r \in audit_log
    /\ LeftTraces(r) => r \in audit_log /\ pc[r] \notin {"idle", "audit", "rejected"}

RowsAreAsked ==
  \A t \in Threads : agent_thread_state[t] # NoRow =>
    \/ \E r \in audit_log : tid[r] = t
    \/ \E k \in Killers : tid[k] = t /\ pc[k] # "idle"

AuditInv == TypeInv /\ OwnInput /\ TracesAreAudited /\ RowsAreAsked

(***************************************************************************)
(* How a step of caller c moves it, and with which effect on the tables.   *)
(***************************************************************************)
Moves(c) ==
  /\ tid' = tid
  /\ \A d \in Callers \ {c} : pc'[d] = pc[d]
  /\ pc'[c] # "idle"
  /\ \/ pc[c] = "idle" /\ pc'[c] \in {"audit", "lookup"} /\ UNCHANGED tables
     \/ pc[c] = "audit" /\ Execute(c) /\ pc'[c] = "select"
     \/ pc[c] = "audit" /\ (Execute(c) \/ UNCHANGED tables)
        /\ pc'[c] \in {"rejected", "raised"}
     \/ pc[c] \in Awaits \ {"audit"} /\ (Execute(c) \/ UNCHANGED tables)
        /\ pc'[c] \in AfterAudit \cup {"returned", "raised"}

LEMMA ArriveMoves ==
  ASSUME TypeInv, NEW c \in Callers, Arrive(c)
  PROVE  Moves(c) /\ state' = state
  BY TypeSplit DEF TypeInv, LocalsOK, Arrive, Invoke, Kill, Goto, Moves, progress

LEMMA InvokeMoves ==
  ASSUME TypeInv, NEW r \in Requests, AdvanceInvoke(r)
  PROVE  Moves(r)
<1>0. LocalsOK /\ r \in Callers
  BY TypeSplit DEF TypeInv, Callers
<1>1. tid' = tid /\ Execute(r)
  BY InvokeLocals
     DEF AdvanceInvoke, Audit, PublishStart, Resume, CheckKill, PublishKilled,
         PublishStepStart, Step, Put, PublishStepEnd, PublishFailure, Record,
         PublishEnd, Pass
<1>2. CASE Audit(r)
  BY <1>0, <1>1, <1>2 DEF Audit, CallUpsert, Goto, LocalsOK, Moves
<1>3. CASE ~Audit(r)
  <2>1. pc[r] \in Awaits \ {"audit"}
    BY <1>3 DEF AdvanceInvoke, PublishStart, Resume, CheckKill, PublishKilled,
         PublishStepStart, Step, Put, PublishStepEnd, PublishFailure, Record,
         PublishEnd, Awaits, EventTypes
  <2>2. \E l \in AfterAudit \cup {"returned", "raised"} : Goto(r, l)
    BY <1>3 DEF AdvanceInvoke, PublishStart, Resume, EnterRound, CheckKill,
         PublishKilled, PublishStepStart, Step, Put, PublishStepEnd,
         PublishFailure, Record, PublishEnd, Pass, CallUpsert, AfterAudit,
         Awaits, EventTypes
  <2>3. /\ \A d \in Callers \ {r} : pc'[d] = pc[d]
        /\ pc'[r] \in AfterAudit \cup {"returned", "raised"}
        /\ pc'[r] # "idle"
    BY <1>0, <2>2 DEF Goto, LocalsOK, AfterAudit, Awaits, EventTypes
  <2> QED
    BY <1>1, <2>1, <2>3 DEF Moves
<1> QED
  BY <1>2, <1>3

LEMMA UpsertMoves ==
  ASSUME TypeInv, NEW c \in Callers, Lookup(c) \/ Select(c) \/ Write(c)
  PROVE  Moves(c) /\ state' = state
<1>0. LocalsOK
  BY TypeSplit DEF TypeInv
<1>1. tid' = tid /\ state' = state /\ Execute(c) /\ pc[c] \in Awaits \ {"audit"}
  BY UpsertLocals DEF Lookup, Select, Write, progress, Awaits
<1>2. AfterUpsert[mark[c]] \in AfterAudit \cup {"returned"}
  BY <1>0 DEF LocalsOK, Statuses, AfterUpsert, AfterAudit, Awaits, EventTypes
<1>3. \E l \in AfterAudit \cup {"returned"} : Goto(c, l)
  BY <1>2 DEF Lookup, Select, Write, CallUpsert, AfterAudit, Awaits
<1>4. /\ \A d \in Callers \ {c} : pc'[d] = pc[d]
      /\ pc'[c] \in AfterAudit \cup {"returned"}
      /\ pc'[c] # "idle"
  BY <1>0, <1>3 DEF Goto, LocalsOK, AfterAudit, Awaits, EventTypes
<1> QED
  BY <1>1, <1>4 DEF Moves

LEMMA UnwindMoves ==
  ASSUME TypeInv, NEW c \in Callers, NEW kind \in {"error", "cancelled"},
         Running(c), Unwind(c, kind), Execute(c) \/ UNCHANGED tables
  PROVE  Moves(c) /\ state' = state
<1>0. LocalsOK /\ tid' = tid /\ state' = state
  BY TypeSplit DEF TypeInv, Unwind, progress
<1>1. CASE pc[c] = "audit"
  <2>1. ~InTry(c) /\ ~InHandler(c)
    BY <1>1 DEF InTry, InHandler
  <2>2. \E l \in {"rejected", "raised"} : Goto(c, l)
    BY <1>1, <2>1 DEF Unwind, Uncaught
  <2> QED
    BY <1>0, <1>1, <2>2 DEF Goto, LocalsOK, Moves
<1>2. CASE pc[c] # "audit"
  <2>1. \E l \in {"select", "record", "raised"} : Goto(c, l)
    BY <1>2 DEF Unwind, CallUpsert, Uncaught
  <2>2. /\ \A d \in Callers \ {c} : pc'[d] = pc[d]
        /\ pc'[c] \in AfterAudit \cup {"returned", "raised"}
        /\ pc'[c] # "idle"
    BY <1>0, <2>1 DEF Goto, LocalsOK, AfterAudit, Awaits
  <2> QED
    BY <1>0, <1>2, <2>2 DEF Running, Moves
<1> QED
  BY <1>1, <1>2

LEMMA CallerMoves ==
  ASSUME TypeInv, OwnInput, NEW c \in Callers,
         Arrive(c) \/ Advance(c) \/ Raise(c) \/ Cancel(c)
  PROVE  Moves(c) /\ OwnInput'
<1>0. LocalsOK /\ TablesOK
  BY TypeSplit DEF TypeInv
<1>s. state' = state => OwnInput'
  BY DEF OwnInput
<1>1. CASE Arrive(c)
  BY <1>1, <1>s, ArriveMoves
<1>2. CASE Lookup(c) \/ Select(c) \/ Write(c)
  BY <1>2, <1>s, UpsertMoves
<1>3. CASE Conflict(c) \/ Raise(c) \/ Cancel(c)
  BY <1>3, <1>s, UnwindMoves DEF Conflict, Raise, Cancel, Running, Awaits
<1>4. CASE c \in Requests /\ AdvanceInvoke(c)
  <2>1. CASE Resume(c)
    <3>1. ResumedState(tid[c], c).input = c
      BY <1>0, <1>4, ResumedStateType DEF LocalsOK, TablesOK
    <3> QED
      BY <1>0, <1>4, <2>1, <3>1, InvokeMoves DEF Resume, OwnInput, LocalsOK
  <2>2. CASE Step(c)
    <3>1. PICK s \in StepResults(state[c]) : state' = [state EXCEPT ![c] = s]
      BY <2>2 DEF Step
    <3>2. s.input = c
      BY <1>0, <1>4, <3>1, StepResultsType DEF OwnInput, LocalsOK
    <3> QED
      BY <1>0, <1>4, <3>1, <3>2, InvokeMoves DEF OwnInput, LocalsOK
  <2>3. CASE ~Resume(c) /\ ~Step(c)
    <3>1. state' = state
      BY <1>4, <2>3
         DEF AdvanceInvoke, Audit, PublishStart, CheckKill, PublishKilled,
             PublishStepStart, Put, PublishStepEnd, PublishFailure, Record,
             PublishEnd, Pass, progress
    <3> QED
      BY <1>4, <1>s, <3>1, InvokeMoves
  <2> QED
    BY <2>1, <2>2, <2>3
<1> QED
  BY <1>1, <1>2, <1>3, <1>4 DEF Advance

(***************************************************************************)
(* The traces and rows that what a caller awaits may leave behind.         *)
(***************************************************************************)
LEMMA ExecuteTraces ==
  ASSUME TypeInv, OwnInput, NEW c \in Callers, Execute(c)
  PROVE  /\ audit_log \subseteq audit_log'
         /\ pc[c] = "audit" => c \in audit_log'
         /\ \A r \in Requests : LeftTraces(r)' =>
              LeftTraces(r) \/ (r = c /\ pc[c] \in AfterAudit)
         /\ \A t \in Threads : agent_thread_state'[t] # NoRow =>
              agent_thread_state[t] # NoRow \/ (tid[c] = t /\ pc[c] = "write")
<1>0. TablesOK /\ LocalsOK
  BY TypeSplit DEF TypeInv
<1>a. pc[c] \in {"write", "put", "record"} \cup EventTypes => pc[c] \in AfterAudit
  BY DEF AfterAudit, Awaits, EventTypes
<1>r. pc[c] \in {"audit", "put", "record"} \cup EventTypes => c \in Requests
  BY DEF TypeInv, KillersOK, Callers, Ends, EventTypes
<1>1. CASE pc[c] = "audit" /\ InsertAudit(c)
           /\ UNCHANGED <<agent_thread_state, langgraph_checkpoints,
                          agent_metrics, published>>
  BY <1>1 DEF InsertAudit, LeftTraces
<1>2. CASE pc[c] = "write" /\ Upsert(tid[c], existing[c], mark[c])
           /\ UNCHANGED <<audit_log, langgraph_checkpoints, agent_metrics, published>>
  BY <1>0, <1>2 DEF Upsert, LeftTraces, TablesOK, ThreadStateTypeOK
<1>3. CASE pc[c] = "put" /\ PutCheckpoint(tid[c], state[c], parent_id[c])
           /\ UNCHANGED <<audit_log, agent_thread_state, agent_metrics, published>>
  <2> DEFINE cps == langgraph_checkpoints
  <2>1. ASSUME NEW r \in Requests, NEW t \in Threads, NEW i \in 1..Len(cps'[t]),
               cps'[t][i].state.input = r, r # c
        PROVE  \E j \in 1..Len(cps[t]) : cps[t][j].state.input = r
    <3>1. CASE t # tid[c]
      BY <1>0, <1>3, <2>1, <3>1 DEF PutCheckpoint, TablesOK, CheckpointsTypeOK
    <3>2. CASE t = tid[c]
      <4>1. cps'[t] = Append(cps[t], [parent_id |-> parent_id[c], state |-> state[c]])
        BY <1>0, <1>3, <3>2 DEF PutCheckpoint, TablesOK, CheckpointsTypeOK
      <4>2. cps[t] \in Seq(Checkpoint)
        BY <1>0 DEF TablesOK, CheckpointsTypeOK
      <4>3. i # Len(cps[t]) + 1
        BY <1>r, <1>3, <2>1, <4>1, <4>2 DEF OwnInput
      <4>4. i \in 1..Len(cps[t]) /\ cps'[t][i] = cps[t][i]
        BY <2>1, <4>1, <4>2, <4>3
      <4> QED
        BY <2>1, <4>4
    <3> QED
      BY <3>1, <3>2
  <2>2. \A r \in Requests : LeftTraces(r)' => LeftTraces(r) \/ r = c
    BY <1>3, <2>1 DEF LeftTraces
  <2> QED
    BY <1>a, <1>3, <2>2
<1>4. CASE pc[c] = "record" /\ RecordInvokeLatency(c)
           /\ UNCHANGED <<audit_log, agent_thread_state, langgraph_checkpoints,
                          published>>
  BY <1>0, <1>a, <1>4 DEF RecordInvokeLatency, LeftTraces, TablesOK
<1>5. CASE pc[c] \in EventTypes /\ Publish(c, pc[c])
           /\ UNCHANGED <<audit_log, agent_thread_state, langgraph_checkpoints,
                          agent_metrics>>
  <2>1. pc[c] # "audit"
    BY <1>5 DEF EventTypes
  <2> QED
    BY <1>0, <1>a, <1>5, <2>1 DEF Publish, LeftTraces, TablesOK
<1>6. CASE pc[c] \in {"lookup", "select", "get_latest", "is_kill_requested", "step"}
           /\ UNCHANGED tables
  BY <1>6 DEF tables, LeftTraces
<1> QED
  BY <1>1, <1>2, <1>3, <1>4, <1>5, <1>6 DEF Execute

LEMMA UnchangedTraces ==
  ASSUME UNCHANGED tables
  PROVE  /\ audit_log' = audit_log
         /\ agent_thread_state' = agent_thread_state
         /\ \A r \in Requests : LeftTraces(r)' = LeftTraces(r)
  BY DEF tables, LeftTraces

(***************************************************************************)
(* A caller that moves keeps the invariant.                                *)
(***************************************************************************)
LEMMA MovesKeepAudit ==
  ASSUME AuditInv, NEW c \in Callers, Moves(c)
  PROVE  TracesAreAudited' /\ RowsAreAsked'
<1> DEFINE Effect == Execute(c) \/ UNCHANGED tables
<1>0. TypeInv /\ OwnInput /\ LocalsOK /\ tid' = tid
  BY TypeSplit DEF AuditInv, TypeInv, Moves
<1>1. Effect
  BY DEF Moves
<1>2. /\ audit_log \subseteq audit_log'
      /\ \A r \in Requests : LeftTraces(r)' =>
           LeftTraces(r) \/ (r = c /\ pc[c] \in AfterAudit)
      /\ \A t \in Threads : agent_thread_state'[t] # NoRow =>
           agent_thread_state[t] # NoRow \/ (tid[c] = t /\ pc[c] = "write")
  BY <1>0, <1>1, ExecuteTraces, UnchangedTraces
<1>3. c \in Requests => (pc'[c] \in AfterAudit => c \in audit_log')
  <2> SUFFICES ASSUME c \in Requests, pc'[c] \in AfterAudit
               PROVE  c \in audit_log'
    OBVIOUS
  <2>1. CASE pc[c] = "audit"
    BY <1>0, <2>1, ExecuteTraces DEF Moves, AfterAudit, Awaits, EventTypes
  <2>2. CASE pc[c] # "audit"
    <3>1. pc[c] \in AfterAudit
      BY <1>0, <2>2
         DEF Moves, AfterAudit, Awaits, EventTypes, TypeInv, KillersOK
    <3> QED
      BY <1>2, <3>1 DEF AuditInv, TracesAreAudited
  <2> QED
    BY <2>1, <2>2
<1>4. ASSUME NEW r \in Requests
      PROVE  /\ pc'[r] \in AfterAudit => r \in audit_log'
             /\ LeftTraces(r)' =>
                  r \in audit_log' /\ pc'[r] \notin {"idle", "audit", "rejected"}
  <2>0. /\ pc[r] \in AfterAudit => r \in audit_log
        /\ LeftTraces(r) => r \in audit_log /\ pc[r] \notin {"idle", "audit", "rejected"}
    BY DEF AuditInv, TracesAreAudited
  <2>1. CASE r # c
    <3>1. pc'[r] = pc[r]
      BY <2>1 DEF Moves, Callers
    <3> QED
      BY <1>2, <2>0, <2>1, <3>1
  <2>2. CASE r = c
    <3>1. LeftTraces(r)' => pc[c] \in Awaits \ {"audit"} \/ LeftTraces(r)
      BY <1>2 DEF AfterAudit
    <3>2. LeftTraces(r)' => r \in audit_log'
      BY <1>2, <2>0, <2>2
    <3>3. LeftTraces(r)' => pc'[c] \in AfterAudit \cup {"returned", "raised"}
      BY <1>2, <2>0, <2>2, <3>1 DEF Moves, AfterAudit, Awaits, EventTypes
    <3>4. AfterAudit \cap {"idle", "audit", "rejected"} = {}
      BY DEF AfterAudit, Awaits, EventTypes
    <3> QED
      BY <1>3, <2>2, <3>2, <3>3, <3>4
  <2> QED
    BY <2>1, <2>2
<1>5. ASSUME NEW t \in Threads, agent_thread_state'[t] # NoRow
      PROVE  \/ \E r \in audit_log' : tid'[r] = t
             \/ \E k \in Killers : tid'[k] = t /\ pc'[k] # "idle"
  <2>1. \A k \in Killers : pc[k] # "idle" => pc'[k] # "idle"
    BY DEF Moves, Callers
  <2>2. CASE agent_thread_state[t] # NoRow
    BY <1>0, <1>2, <2>1, <2>2 DEF AuditInv, RowsAreAsked
  <2>3. CASE tid[c] = t /\ pc[c] = "write"
    <3>1. CASE c \in Killers
      BY <1>0, <2>1, <2>3, <3>1
    <3>2. CASE c \in Requests
      BY <1>0, <1>2, <2>3, <3>2
         DEF AuditInv, TracesAreAudited, AfterAudit, Awaits
    <3> QED
      BY <3>1, <3>2 DEF Callers
  <2> QED
    BY <1>2, <1>5, <2>2, <2>3
<1> QED
  BY <1>4, <1>5 DEF TracesAreAudited, RowsAreAsked

LEMMA AuditStep ==
  ASSUME AuditInv, [Next]_vars
  PROVE  AuditInv'
<1>0. TypeInv' /\ TypeInv /\ OwnInput /\ LocalsOK
  BY TypeStep, TypeSplit DEF AuditInv, TypeInv
<1>1. ASSUME NEW c \in Callers, Arrive(c) \/ Advance(c) \/ Raise(c) \/ Cancel(c)
      PROVE  AuditInv'
  BY <1>0, <1>1, CallerMoves, MovesKeepAudit DEF AuditInv
<1>2. ASSUME UNCHANGED <<tables, tid, state>>,
             \A c \in Callers :
               pc'[c] = pc[c] \/ (pc[c] # "idle" /\ pc'[c] = "crashed")
      PROVE  AuditInv'
  <2>1. OwnInput'
    BY <1>0, <1>2 DEF OwnInput
  <2>2. "crashed" \notin AfterAudit
    BY DEF AfterAudit, Awaits, EventTypes
  <2>3. TracesAreAudited'
    BY <1>2, <2>2, UnchangedTraces DEF AuditInv, TracesAreAudited, Callers
  <2>4. RowsAreAsked'
    BY <1>2, UnchangedTraces DEF AuditInv, RowsAreAsked, Callers
  <2> QED
    BY <1>0, <2>1, <2>3, <2>4 DEF AuditInv
<1>3. CASE Crash
  BY <1>2, <1>3 DEF Crash, progress, Running, Awaits, EventTypes
<1>4. CASE SetGraph \/ UNCHANGED vars
  BY <1>2, <1>4 DEF SetGraph, vars, progress
<1> QED
  BY <1>1, <1>3, <1>4 DEF Next, Terminating

LEMMA AuditInvariance == Spec => []AuditInv
<1>1. Init => AuditInv
  <2> SUFFICES ASSUME Init PROVE OwnInput /\ TracesAreAudited /\ RowsAreAsked
    BY TypeInit DEF AuditInv
  <2>1. OwnInput
    BY DEF Init, OwnInput
  <2>2. TracesAreAudited
    BY DEF Init, TracesAreAudited, LeftTraces, CheckpointsInit, AfterAudit,
           Awaits, EventTypes, Callers
  <2>3. RowsAreAsked
    BY DEF Init, RowsAreAsked, ThreadStateInit
  <2> QED
    BY <2>1, <2>2, <2>3
<1>2. AuditInv /\ [Next]_vars => AuditInv'
  BY AuditStep
<1> QED
  BY <1>1, <1>2, PTL DEF Spec

(***************************************************************************)
(* Audit first (AuditFirst): no event, metric row or checkpoint of a       *)
(* request without its audit row, no row of a thread nobody asked for, in  *)
(* every interleaving and under every fault.                               *)
(***************************************************************************)
THEOREM AuditComesFirst == Spec => []AuditFirst
<1>1. AuditInv => AuditFirst
  BY DEF AuditInv, TracesAreAudited, RowsAreAsked, AuditFirst
<1> QED
  BY <1>1, AuditInvariance, PTL

(***************************************************************************)
(* A request answered with 503 has left no trace (RefusedLeavesNoTrace).   *)
(***************************************************************************)
THEOREM RefusalLeavesNoTrace == Spec => []RefusedLeavesNoTrace
<1>1. AuditInv => RefusedLeavesNoTrace
  BY DEF AuditInv, TracesAreAudited, RefusedLeavesNoTrace
<1> QED
  BY <1>1, AuditInvariance, PTL

------------------------------------------------------------------------------
(***************************************************************************)
(* What one invocation announces, records and checkpoints, and who is      *)
(* killed.                                                                 *)
(***************************************************************************)

Acts(c) == Arrive(c) \/ Advance(c) \/ Raise(c) \/ Cancel(c)

Fails(c) == Conflict(c) \/ Raise(c) \/ Cancel(c)

(***************************************************************************)
(* A step of caller c leaves the local variables of the others alone, and  *)
(* on the tables it has the effect of what c awaits, or none.              *)
(***************************************************************************)
LEMMA OneCallerActs ==
  ASSUME TypeInv, NEW c \in Callers, Acts(c)
  PROVE  /\ tid' = tid
         /\ Execute(c) \/ UNCHANGED tables
         /\ \A d \in Callers \ {c} :
              pc'[d] = pc[d] /\ mark'[d] = mark[d] /\ existing'[d] = existing[d]
         /\ \A r \in Requests \ {c} :
              /\ state'[r] = state[r] /\ parent_id'[r] = parent_id[r]
              /\ rounds'[r] = rounds[r] /\ outcome'[r] = outcome[r]
<1>0. LocalsOK
  BY TypeSplit DEF TypeInv
<1>1. tid' = tid /\ (Execute(c) \/ UNCHANGED tables)
  BY DEF Acts, Arrive, Invoke, Kill, Advance, AdvanceInvoke, Audit, PublishStart,
       Resume, CheckKill, PublishKilled, PublishStepStart, Step, Put,
       PublishStepEnd, PublishFailure, Record, PublishEnd, Pass,
       Lookup, Select, Write, Conflict, Raise, Cancel, Unwind
<1>2. /\ \E l : Goto(c, l)
      /\ mark' = mark \/ \E s : mark' = [mark EXCEPT ![c] = s]
      /\ existing' = existing \/ \E e : existing' = [existing EXCEPT ![c] = e]
  BY DEF Acts, Arrive, Invoke, Kill, Advance, AdvanceInvoke, Audit, PublishStart,
       Resume, EnterRound, CheckKill, PublishKilled, PublishStepStart, Step, Put,
       PublishStepEnd, PublishFailure, Record, PublishEnd, Pass, CallUpsert,
       Lookup, Select, Write, Conflict, Raise, Cancel, Unwind
<1>3. /\ state' = state \/ \E s : state' = [state EXCEPT ![c] = s]
      /\ parent_id' = parent_id \/ \E n : parent_id' = [parent_id EXCEPT ![c] = n]
      /\ rounds' = rounds \/ \E n : rounds' = [rounds EXCEPT ![c] = n]
      /\ outcome' = outcome \/ \E o : outcome' = [outcome EXCEPT ![c] = o]
  BY DEF Acts, Arrive, Invoke, Kill, Advance, AdvanceInvoke, Audit, PublishStart,
       Resume, EnterRound, CheckKill, PublishKilled, PublishStepStart, Step, Put,
       PublishStepEnd, PublishFailure, Record, PublishEnd, Pass, CallUpsert,
       Lookup, Select, Write, Conflict, Raise, Cancel, Unwind, progress
<1> QED
  BY <1>0, <1>1, <1>2, <1>3 DEF Goto, LocalsOK

LEMMA CrashActs ==
  ASSUME TypeInv, Crash
  PROVE  /\ UNCHANGED <<tables, tid, mark, state, parent_id, rounds, outcome>>
         /\ \A c \in Callers :
              pc'[c] = IF Running(c) THEN "crashed" ELSE pc[c]
         /\ \A c \in Callers : existing'[c] = NoRow
  BY DEF Crash, progress

(***************************************************************************)
(* The effect of what a caller awaits, row by row.                         *)
(***************************************************************************)
LEMMA Effects ==
  ASSUME TypeInv, NEW c \in Callers, Execute(c)
  PROVE  /\ \A r \in Requests :
              published'[r] = IF r = c /\ pc[c] \in EventTypes
                              THEN Append(published[r], pc[c]) ELSE published[r]
         /\ \A r \in Requests :
              agent_metrics'[r] = IF r = c /\ pc[c] = "record"
                                  THEN Append(agent_metrics[r], outcome[r])
                                  ELSE agent_metrics[r]
         /\ \A t \in Threads :
              langgraph_checkpoints'[t] =
                IF t = tid[c] /\ pc[c] = "put"
                THEN Append(langgraph_checkpoints[t],
                            [parent_id |-> parent_id[c], state |-> state[c]])
                ELSE langgraph_checkpoints[t]
         /\ \A t \in Threads :
              agent_thread_state'[t] =
                IF t = tid[c] /\ pc[c] = "write"
                THEN Written(existing[c], mark[c]) ELSE agent_thread_state[t]
         /\ pc[c] = "write" => ~InsertConflicts(tid[c], existing[c])
<1>0. TablesOK /\ LocalsOK
  BY TypeSplit DEF TypeInv
<1>1. CASE pc[c] = "audit" /\ InsertAudit(c)
           /\ UNCHANGED <<agent_thread_state, langgraph_checkpoints,
                          agent_metrics, published>>
  BY <1>1 DEF EventTypes
<1>2. CASE pc[c] = "write" /\ Upsert(tid[c], existing[c], mark[c])
           /\ UNCHANGED <<audit_log, langgraph_checkpoints, agent_metrics, published>>
  BY <1>0, <1>2 DEF EventTypes, Upsert, TablesOK, ThreadStateTypeOK
<1>3. CASE pc[c] = "put" /\ PutCheckpoint(tid[c], state[c], parent_id[c])
           /\ UNCHANGED <<audit_log, agent_thread_state, agent_metrics, published>>
  BY <1>0, <1>3 DEF EventTypes, PutCheckpoint, TablesOK, CheckpointsTypeOK
<1>4. CASE pc[c] = "record" /\ RecordInvokeLatency(c)
           /\ UNCHANGED <<audit_log, agent_thread_state, langgraph_checkpoints,
                          published>>
  BY <1>0, <1>4 DEF EventTypes, RecordInvokeLatency, TablesOK
<1>5. CASE pc[c] \in EventTypes /\ Publish(c, pc[c])
           /\ UNCHANGED <<audit_log, agent_thread_state, langgraph_checkpoints,
                          agent_metrics>>
  BY <1>0, <1>5 DEF EventTypes, Publish, TablesOK
<1>6. CASE pc[c] \in {"lookup", "select", "get_latest", "is_kill_requested", "step"}
           /\ UNCHANGED tables
  BY <1>6 DEF tables, EventTypes
<1> QED
  BY <1>1, <1>2, <1>3, <1>4, <1>5, <1>6 DEF Execute

LEMMA NextActs ==
  ASSUME [Next]_vars
  PROVE  \/ \E c \in Callers : Acts(c)
         \/ Crash
         \/ UNCHANGED <<tables, pc, tid, mark, existing, state, parent_id, rounds, outcome>>
  BY DEF Next, Acts, SetGraph, Terminating, vars, progress

------------------------------------------------------------------------------
(***************************************************************************)
(* What one invocation announces and records.  The label of a request, and *)
(* for a call of _upsert the status it writes, tell which event it has     *)
(* published last, whether its metric is recorded, and what its outcome    *)
(* may be.                                                                 *)
(***************************************************************************)
Protocol(s) ==
  /\ s # <<>> => Head(s) = "agent.invoke.start"
  /\ \A i \in 1..Len(s) - 1 : <<s[i], s[i + 1]>> \in MayFollow

EndsWith(s, types) == s # <<>> /\ s[Len(s)] \in types

Ongoing ==
  {"agent.invoke.start", "agent.step.start", "agent.step.end", "agent.invoke.killed"}

BetweenSteps == {"agent.invoke.start", "agent.step.end"}

Upserting(r, status) == pc[r] \in {"select", "write"} /\ mark[r] = status

\* Up to the start event, and after the metric of a success.
Beginning(r) ==
  pc[r] \in {"idle", "audit", "agent.invoke.start"} \/ Upserting(r, "running")

Completing(r) == Upserting(r, "completed") \/ pc[r] = "agent.invoke.end"

EventsInv(r) ==
  /\ Protocol(published[r])
  /\ Beginning(r) => published[r] = <<>>
  /\ pc[r] = "get_latest" => EndsWith(published[r], {"agent.invoke.start"})
  /\ pc[r] \in {"is_kill_requested", "agent.step.start", "agent.invoke.killed"} =>
       EndsWith(published[r], BetweenSteps)
  /\ pc[r] \in {"step", "put", "agent.step.end"} =>
       EndsWith(published[r], {"agent.step.start"})
  /\ Upserting(r, "killed") => EndsWith(published[r], {"agent.invoke.killed"})
  /\ InHandler(r) => EndsWith(published[r], Ongoing)
  /\ (pc[r] = "record" /\ outcome[r] = "ok") \/ Completing(r) =>
       EndsWith(published[r], {"agent.step.end"})

OutcomeInv(r) ==
  /\ mark[r] # "kill_requested"
  /\ Upserting(r, "killed") \/ pc[r] = "agent.invoke.killed" => outcome[r] = "killed"
  /\ Upserting(r, "error") \/ pc[r] = "agent.invoke.error" => outcome[r] = "error"
  /\ Upserting(r, "cancelled") \/ pc[r] = "agent.invoke.cancelled" => outcome[r] = "cancelled"
  /\ Completing(r) => outcome[r] = "ok"
  /\ Announced(r, "agent.invoke.error") => outcome[r] = "error"
  /\ Announced(r, "agent.invoke.cancelled") => outcome[r] = "cancelled"
  /\ Announced(r, "agent.invoke.end") => outcome[r] = "ok"

MetricInv(r) ==
  /\ agent_metrics[r] \in {<<>>, <<outcome[r]>>}
  /\ pc[r] \in Awaits \cup {"idle"} /\ ~Completing(r) => agent_metrics[r] = <<>>
  /\ pc[r] = "returned" \/ Completing(r) => agent_metrics[r] = <<outcome[r]>>

CallInv(r) == EventsInv(r) /\ OutcomeInv(r) /\ MetricInv(r)

LEMMA Extended ==
  ASSUME NEW s \in Seq(EventTypes), NEW e \in EventTypes, Protocol(s),
         \/ s = <<>> /\ e = "agent.invoke.start"
         \/ s # <<>> /\ <<s[Len(s)], e>> \in MayFollow
  PROVE  /\ Protocol(Append(s, e))
         /\ \A types : EndsWith(Append(s, e), types) <=> e \in types
<1>1. /\ Append(s, e) # <<>>
      /\ Len(Append(s, e)) = Len(s) + 1
      /\ Append(s, e)[Len(s) + 1] = e
      /\ \A i \in 1..Len(s) : Append(s, e)[i] = s[i]
  BY AppendProperties
<1>2. Head(Append(s, e)) = "agent.invoke.start"
  <2>1. Head(Append(s, e)) = Append(s, e)[1]
    BY <1>1
  <2>2. CASE s = <<>>
    BY <2>1, <2>2, <1>1
  <2>3. CASE s # <<>>
    <3>1. 1 \in 1..Len(s) /\ Head(s) = s[1]
      BY <2>3
    <3> QED
      BY <1>1, <2>1, <2>3, <3>1 DEF Protocol
  <2> QED
    BY <2>2, <2>3
<1>3. ASSUME NEW i \in 1..Len(Append(s, e)) - 1
      PROVE  <<Append(s, e)[i], Append(s, e)[i + 1]>> \in MayFollow
  <2>1. CASE i = Len(s)
    BY <1>1, <1>3, <2>1
  <2>2. CASE i # Len(s)
    BY <1>1, <1>3, <2>2 DEF Protocol
  <2> QED
    BY <2>1, <2>2
<1>4. Append(s, e)[Len(Append(s, e))] = e
  BY <1>1
<1>5. \A types : EndsWith(Append(s, e), types) <=> e \in types
  BY <1>1, <1>4 DEF EndsWith
<1> QED
  BY <1>2, <1>3, <1>5 DEF Protocol

(***************************************************************************)
(* Nothing follows a failure or the end.                                   *)
(***************************************************************************)
LEMMA OngoingIsUnfinished ==
  ASSUME NEW r \in Requests, published[r] \in Seq(EventTypes), Protocol(published[r]),
         published[r] = <<>> \/ EndsWith(published[r], Ongoing),
         NEW type \in EventTypes \ Ongoing
  PROVE  ~Announced(r, type)
<1> SUFFICES ASSUME NEW i \in 1..Len(published[r]), published[r][i] = type
             PROVE  FALSE
  BY DEF Announced
<1>1. CASE i = Len(published[r])
  BY <1>1 DEF EndsWith
<1>2. CASE i # Len(published[r])
  <2>1. <<published[r][i], published[r][i + 1]>> \in MayFollow
    BY <1>2 DEF Protocol
  <2> QED
    BY <2>1 DEF MayFollow, Ongoing
<1> QED
  BY <1>1, <1>2

LEMMA AnnouncedAppend ==
  ASSUME NEW r \in Requests, published[r] \in Seq(EventTypes), NEW e \in EventTypes,
         published'[r] = Append(published[r], e), NEW type
  PROVE  Announced(r, type)' <=> Announced(r, type) \/ type = e
  BY DEF Announced

LEMMA CallFrame ==
  ASSUME NEW r \in Requests, CallInv(r),
         pc'[r] = pc[r] \/ pc'[r] \in {"crashed", "raised"},
         mark'[r] = mark[r], outcome'[r] = outcome[r],
         published'[r] = published[r], agent_metrics'[r] = agent_metrics[r]
  PROVE  CallInv(r)'
<1>1. EventsInv(r)'
  BY DEF CallInv, EventsInv, Beginning, Completing, Upserting, InHandler
<1>2. OutcomeInv(r)'
  BY DEF CallInv, OutcomeInv, Completing, Upserting, Announced
<1>3. MetricInv(r)'
  BY DEF CallInv, MetricInv, Completing, Upserting, Awaits, EventTypes
<1> QED
  BY <1>1, <1>2, <1>3 DEF CallInv

(***************************************************************************)
(* The statements that publish nothing and record nothing: what a call     *)
(* awaits has no effect on what was announced and recorded of it.          *)
(***************************************************************************)
LEMMA Silent ==
  ASSUME TypeInv, NEW r \in Requests, Execute(r) \/ UNCHANGED tables,
         pc[r] \notin EventTypes
  PROVE  published'[r] = published[r]
  BY Effects DEF tables, Callers

LEMMA Unrecorded ==
  ASSUME TypeInv, NEW r \in Requests, Execute(r) \/ UNCHANGED tables,
         pc[r] # "record"
  PROVE  agent_metrics'[r] = agent_metrics[r]
  BY Effects DEF tables, Callers

LEMMA Publishes ==
  ASSUME TypeInv, NEW r \in Requests, Execute(r), pc[r] \in EventTypes
  PROVE  published'[r] = Append(published[r], pc[r]) /\ published[r] \in Seq(EventTypes)
  BY Effects, TypeSplit DEF TypeInv, TablesOK, Callers

(***************************************************************************)
(* Publishing an event that may follow keeps the protocol.                 *)
(***************************************************************************)
LEMMA PublishKeepsProtocol ==
  ASSUME TypeInv, NEW r \in Requests, CallInv(r), Execute(r), pc[r] \in EventTypes
  PROVE  /\ Protocol(published'[r])
         /\ EndsWith(published'[r], {pc[r]})
         /\ \A type : Announced(r, type)' <=> Announced(r, type) \/ type = pc[r]
         /\ agent_metrics'[r] = agent_metrics[r]
<1>1. published'[r] = Append(published[r], pc[r]) /\ published[r] \in Seq(EventTypes)
  BY Publishes
<1>2. \/ published[r] = <<>> /\ pc[r] = "agent.invoke.start"
      \/ published[r] # <<>> /\ <<published[r][Len(published[r])], pc[r]>> \in MayFollow
  BY DEF CallInv, EventsInv, Beginning, Completing, InHandler, EndsWith, MayFollow,
         BetweenSteps, Ongoing, EventTypes
<1>3. pc[r] # "record"
  BY DEF EventTypes
<1> QED
  BY <1>1, <1>2, <1>3, Extended, AnnouncedAppend, Unrecorded DEF CallInv, EventsInv

(***************************************************************************)
(* One lemma per kind of step of an invocation.                            *)
(***************************************************************************)
LEMMA BeginningKeepsCall ==
  ASSUME TypeInv, NEW r \in Requests, CallInv(r),
         Invoke(r) \/ Audit(r) \/ Select(r) \/ PublishStart(r)
  PROVE  CallInv(r)'
<1>0. LocalsOK /\ r \in Callers
  BY TypeSplit DEF TypeInv, Callers
<1>1. CASE Invoke(r)
  <2>1. pc'[r] = "audit" /\ mark'[r] = mark[r] /\ outcome'[r] = outcome[r]
        /\ published' = published /\ agent_metrics' = agent_metrics /\ pc[r] = "idle"
    BY <1>0, <1>1 DEF Invoke, Goto, LocalsOK, tables
  <2> QED
    BY <2>1 DEF CallInv, EventsInv, OutcomeInv, MetricInv, Beginning, Completing,
         Upserting, InHandler, Announced, Awaits, EventTypes
<1>2. CASE Audit(r)
  <2>1. pc'[r] = "select" /\ mark'[r] = "running" /\ outcome'[r] = outcome[r]
        /\ published'[r] = published[r] /\ agent_metrics'[r] = agent_metrics[r]
        /\ pc[r] = "audit"
    BY <1>0, <1>2, Silent, Unrecorded DEF Audit, CallUpsert, Goto, LocalsOK, EventTypes
  <2> QED
    BY <2>1 DEF CallInv, EventsInv, OutcomeInv, MetricInv, Beginning, Completing,
         Upserting, InHandler, Announced, Awaits, EventTypes
<1>3. CASE Select(r)
  <2>1. pc'[r] = "write" /\ mark'[r] = mark[r] /\ outcome'[r] = outcome[r]
        /\ published'[r] = published[r] /\ agent_metrics'[r] = agent_metrics[r]
        /\ pc[r] = "select"
    BY <1>0, <1>3, Silent, Unrecorded DEF Select, Goto, LocalsOK, EventTypes
  <2> QED
    BY <2>1 DEF CallInv, EventsInv, OutcomeInv, MetricInv, Beginning, Completing,
         Upserting, InHandler, Announced, Awaits, EventTypes
<1>4. CASE PublishStart(r)
  <2>1. pc'[r] = "get_latest" /\ mark'[r] = mark[r] /\ outcome'[r] = outcome[r]
        /\ pc[r] = "agent.invoke.start" /\ Execute(r)
    BY <1>0, <1>4 DEF PublishStart, Pass, Goto, LocalsOK
  <2>2. pc[r] \in EventTypes
    BY <2>1 DEF EventTypes
  <2> QED
    BY <2>1, <2>2, PublishKeepsProtocol
    DEF CallInv, EventsInv, OutcomeInv, MetricInv, Beginning, Completing,
        Upserting, InHandler, Awaits, EventTypes
<1> QED
  BY <1>1, <1>2, <1>3, <1>4

LEMMA WriteKeepsCall ==
  ASSUME TypeInv, NEW r \in Requests, CallInv(r), Write(r)
  PROVE  CallInv(r)'
<1>0. LocalsOK /\ r \in Callers
  BY TypeSplit DEF TypeInv, Callers
<1>1. pc'[r] = AfterUpsert[mark[r]] /\ mark'[r] = mark[r] /\ outcome'[r] = outcome[r]
      /\ published'[r] = published[r] /\ agent_metrics'[r] = agent_metrics[r]
      /\ pc[r] = "write"
  BY <1>0, Silent, Unrecorded DEF Write, Goto, LocalsOK, EventTypes
<1>2. mark[r] \in Statuses \ {"kill_requested"}
  BY <1>0 DEF LocalsOK, CallInv, OutcomeInv
<1>3. EventsInv(r)'
  BY <1>1, <1>2 DEF CallInv, EventsInv, OutcomeInv, Beginning, Completing, Upserting, InHandler,
       AfterUpsert, Statuses
<1>4. OutcomeInv(r)' /\ MetricInv(r)'
  BY <1>1, <1>2 DEF CallInv, OutcomeInv, MetricInv, Completing, Upserting,
       AfterUpsert, Statuses, Announced, Awaits, EventTypes
<1> QED
  BY <1>3, <1>4 DEF CallInv

(***************************************************************************)
(* In the step loop nothing is recorded and no failure announced, so that  *)
(* the outcome may still change.                                           *)
(***************************************************************************)
InLoop(r) ==
  pc[r] \in {"get_latest", "is_kill_requested", "agent.step.start", "step", "put",
             "agent.step.end", "agent.invoke.killed"}

LEMMA LoopIsOpen ==
  ASSUME TypeInv, NEW r \in Requests, CallInv(r), InTry(r)
  PROVE  /\ agent_metrics[r] = <<>>
         /\ EndsWith(published[r], Ongoing)
         /\ \A type \in EventTypes \ Ongoing : ~Announced(r, type)
<1>1. agent_metrics[r] = <<>>
  BY DEF CallInv, MetricInv, InTry, Completing, Upserting, Awaits, EventTypes
<1>2. EndsWith(published[r], Ongoing)
  BY DEF CallInv, EventsInv, InTry, Upserting, EndsWith, BetweenSteps, Ongoing
<1>3. published[r] \in Seq(EventTypes)
  BY TypeSplit DEF TypeInv, TablesOK
<1> QED
  BY <1>1, <1>2, <1>3, OngoingIsUnfinished DEF CallInv, EventsInv

LEMMA QuietLoopKeepsCall ==
  ASSUME TypeInv, NEW r \in Requests, CallInv(r),
         Resume(r) \/ CheckKill(r) \/ Step(r) \/ Put(r)
  PROVE  CallInv(r)'
<1>0. LocalsOK /\ r \in Callers
  BY TypeSplit DEF TypeInv, Callers
<1>1. InTry(r) /\ pc[r] \in {"get_latest", "is_kill_requested", "step", "put"}
  BY DEF Resume, CheckKill, Step, Put, InTry
<1>2. published'[r] = published[r] /\ agent_metrics'[r] = agent_metrics[r] /\ mark'[r] = mark[r]
  BY <1>1, Silent, Unrecorded DEF Resume, CheckKill, Step, Put, EventTypes
<1>3. \A type : Announced(r, type)' <=> Announced(r, type)
  BY <1>2 DEF Announced
<1>4. \/ /\ pc[r] = "get_latest"
         /\ \/ pc'[r] = "is_kill_requested" /\ outcome'[r] = outcome[r]
            \/ pc'[r] = "record" /\ outcome'[r] = "max_steps_exceeded"
      \/ /\ pc[r] = "is_kill_requested"
         /\ \/ pc'[r] = "agent.step.start" /\ outcome'[r] = outcome[r]
            \/ pc'[r] = "agent.invoke.killed" /\ outcome'[r] = "killed"
      \/ pc[r] = "step" /\ pc'[r] = "put" /\ outcome'[r] = outcome[r]
      \/ pc[r] = "put" /\ pc'[r] = "agent.step.end" /\ outcome'[r] = outcome[r]
  BY <1>0 DEF Resume, EnterRound, CheckKill, Step, Put, Goto, LocalsOK
<1>5. EventsInv(r)'
  BY <1>2, <1>4 DEF CallInv, EventsInv, Beginning, Completing, Upserting, InHandler,
       EndsWith, BetweenSteps
<1>6. OutcomeInv(r)'
  BY <1>1, <1>2, <1>3, <1>4, LoopIsOpen
  DEF CallInv, OutcomeInv, Completing, Upserting, Ongoing, EventTypes
<1>7. MetricInv(r)'
  BY <1>1, <1>2, <1>4, LoopIsOpen DEF MetricInv, Completing, Upserting
<1> QED
  BY <1>5, <1>6, <1>7 DEF CallInv

LEMMA LoudLoopKeepsCall ==
  ASSUME TypeInv, NEW r \in Requests, CallInv(r),
         PublishStepStart(r) \/ PublishStepEnd(r) \/ PublishKilled(r)
  PROVE  CallInv(r)'
<1>0. LocalsOK /\ r \in Callers
  BY TypeSplit DEF TypeInv, Callers
<1>1. /\ InTry(r) /\ Execute(r)
      /\ pc[r] \in {"agent.step.start", "agent.step.end", "agent.invoke.killed"}
      /\ pc[r] \in EventTypes /\ pc[r] \in Ongoing
  BY DEF PublishStepStart, PublishStepEnd, PublishKilled, Pass, InTry, EventTypes, Ongoing
<1>2. /\ Protocol(published'[r])
      /\ EndsWith(published'[r], {pc[r]})
      /\ \A type \in EventTypes \ Ongoing : ~Announced(r, type)'
      /\ agent_metrics'[r] = <<>>
  BY <1>1, PublishKeepsProtocol, LoopIsOpen
<1>3. \/ /\ pc[r] = "agent.step.start" /\ pc'[r] = "step"
         /\ outcome'[r] = outcome[r] /\ mark'[r] = mark[r]
      \/ /\ pc[r] = "agent.step.end"
         /\ \/ pc'[r] \in {"record", "is_kill_requested"} /\ outcome'[r] = outcome[r]
            \/ pc'[r] = "record" /\ outcome'[r] = "max_steps_exceeded"
         /\ mark'[r] = mark[r]
      \/ /\ pc[r] = "agent.invoke.killed" /\ pc'[r] = "select"
         /\ outcome'[r] = outcome[r] /\ mark'[r] = "killed" /\ outcome[r] = "killed"
  BY <1>0 DEF PublishStepStart, PublishStepEnd, EnterRound, PublishKilled, Pass, CallUpsert,
       Goto, LocalsOK, CallInv, OutcomeInv, progress
<1>4. EventsInv(r)'
  BY <1>2, <1>3 DEF EventsInv, Beginning, Completing, Upserting, InHandler,
       EndsWith, BetweenSteps
<1>5. OutcomeInv(r)'
  BY <1>2, <1>3
  DEF CallInv, OutcomeInv, Completing, Upserting, Ongoing, EventTypes
<1>6. MetricInv(r)'
  BY <1>2, <1>3 DEF MetricInv, Completing, Upserting
<1> QED
  BY <1>4, <1>5, <1>6 DEF CallInv

LEMMA Singleton ==
  ASSUME NEW S, NEW x \in S
  PROVE  Append(<<>>, x) = <<x>> /\ Len(<<x>>) = 1 /\ <<x>> # <<>>
  OBVIOUS

LEMMA RecordKeepsCall ==
  ASSUME TypeInv, NEW r \in Requests, CallInv(r), Record(r)
  PROVE  CallInv(r)'
<1>0. LocalsOK /\ r \in Callers
  BY TypeSplit DEF TypeInv, Callers
<1>1. /\ pc[r] = "record" /\ Execute(r) /\ published'[r] = published[r]
      /\ outcome'[r] = outcome[r] /\ agent_metrics[r] = <<>>
  BY Silent DEF Record, CallInv, MetricInv, Completing, Upserting, Awaits, EventTypes
<1>2. agent_metrics'[r] = <<outcome[r]>>
  <2>1. agent_metrics'[r] = Append(<<>>, outcome[r])
    BY <1>0, <1>1, Effects
  <2> QED
    BY <1>0, <2>1, Singleton DEF LocalsOK
<1>3. \/ outcome[r] = "ok" /\ pc'[r] = "select" /\ mark'[r] = "completed"
      \/ pc'[r] \in {"returned", "raised"} /\ mark'[r] = mark[r]
  BY <1>0 DEF Record, CallUpsert, Goto, LocalsOK
<1>4. EventsInv(r)'
  BY <1>1, <1>3 DEF CallInv, EventsInv, Beginning, Completing, Upserting, InHandler
<1>5. OutcomeInv(r)'
  BY <1>1, <1>3 DEF CallInv, OutcomeInv, Completing, Upserting, Announced
<1>6. MetricInv(r)'
  BY <1>1, <1>2, <1>3 DEF MetricInv, Completing, Upserting, Awaits, EventTypes
<1> QED
  BY <1>4, <1>5, <1>6 DEF CallInv

LEMMA EndingKeepsCall ==
  ASSUME TypeInv, NEW r \in Requests, CallInv(r), PublishFailure(r) \/ PublishEnd(r)
  PROVE  CallInv(r)'
<1>0. LocalsOK /\ r \in Callers
  BY TypeSplit DEF TypeInv, Callers
<1>1. /\ Execute(r) /\ outcome'[r] = outcome[r] /\ mark'[r] = mark[r]
      /\ \/ /\ pc[r] \in {"agent.invoke.cancelled", "agent.invoke.error"}
            /\ pc'[r] = "record" /\ outcome[r] \in {"cancelled", "error"}
         \/ /\ pc[r] = "agent.invoke.end" /\ pc'[r] = "returned" /\ outcome[r] = "ok"
            /\ agent_metrics[r] = <<outcome[r]>>
      /\ pc[r] \in EventTypes
  BY <1>0 DEF PublishFailure, PublishEnd, Pass, Goto, LocalsOK, EventTypes,
       CallInv, OutcomeInv, MetricInv, Completing
<1>2. /\ Protocol(published'[r])
      /\ \A type : Announced(r, type)' <=> Announced(r, type) \/ type = pc[r]
      /\ agent_metrics'[r] = agent_metrics[r]
  BY <1>1, PublishKeepsProtocol
<1>4. EventsInv(r)'
  BY <1>1, <1>2 DEF EventsInv, Beginning, Completing, Upserting, InHandler
<1>5. OutcomeInv(r)'
  BY <1>1, <1>2 DEF CallInv, OutcomeInv, Completing, Upserting
<1>6. MetricInv(r)'
  BY <1>1, <1>2 DEF CallInv, MetricInv, Completing, Upserting, Awaits, EventTypes
<1> QED
  BY <1>4, <1>5, <1>6 DEF CallInv

(***************************************************************************)
(* What an invocation awaits raises, with or without its effect.           *)
(***************************************************************************)
LEMMA FailureKeepsCall ==
  ASSUME TypeInv, NEW r \in Requests, CallInv(r), Running(r), pc[r] # "lookup",
         NEW kind \in {"error", "cancelled"}, Unwind(r, kind),
         Execute(r) \/ UNCHANGED tables
  PROVE  CallInv(r)'
<1>0. LocalsOK /\ r \in Callers /\ published[r] \in Seq(EventTypes)
  BY TypeSplit DEF TypeInv, TablesOK, Callers
<1>1. \/ published'[r] = published[r]
      \/ /\ pc[r] \in EventTypes
         /\ Protocol(published'[r])
         /\ EndsWith(published'[r], {pc[r]})
         /\ \A type : Announced(r, type)' <=> Announced(r, type) \/ type = pc[r]
  BY <1>0, Silent, PublishKeepsProtocol DEF tables
<1>2. Protocol(published'[r])
  BY <1>1 DEF CallInv, EventsInv
<1>3. CASE InTry(r)
  <2>1. /\ pc'[r] = "select" /\ mark'[r] = kind /\ outcome'[r] = kind
    BY <1>0, <1>3 DEF Unwind, CallUpsert, Goto, LocalsOK, InTry, InHandler
  <2>2. agent_metrics'[r] = <<>>
    BY <1>3, Unrecorded, LoopIsOpen DEF InTry
  <2>3. EndsWith(published'[r], Ongoing) /\ \A type \in EventTypes \ Ongoing : ~Announced(r, type)'
    <3>1. pc[r] \in EventTypes => pc[r] \in Ongoing
      BY <1>3 DEF InTry, EventTypes, Ongoing
    <3>2. published'[r] = published[r] => \A type : Announced(r, type)' <=> Announced(r, type)
      BY DEF Announced
    <3> QED
      BY <1>1, <1>3, <3>1, <3>2, LoopIsOpen DEF EndsWith
  <2>4. EventsInv(r)'
    BY <1>2, <2>1, <2>3 DEF EventsInv, Beginning, Completing, Upserting, InHandler
  <2>5. OutcomeInv(r)'
    BY <2>1, <2>3 DEF OutcomeInv, Completing, Upserting, Ongoing, EventTypes
  <2>6. MetricInv(r)'
    BY <2>1, <2>2 DEF MetricInv, Completing, Upserting
  <2> QED
    BY <2>4, <2>5, <2>6 DEF CallInv
<1>4. CASE InHandler(r) /\ ~InTry(r)
  <2>1. /\ pc'[r] = "record" /\ mark'[r] = mark[r] /\ outcome'[r] = outcome[r]
        /\ outcome[r] \in {"cancelled", "error"}
    BY <1>0, <1>4 DEF Unwind, Goto, LocalsOK, CallInv, OutcomeInv, InHandler, Upserting
  <2>2. agent_metrics'[r] = <<>>
    BY <1>4, Unrecorded DEF InHandler, CallInv, MetricInv, Completing, Upserting, Awaits, EventTypes
  <2>3. pc[r] \in EventTypes =>
          /\ pc[r] = "agent.invoke.cancelled" => outcome[r] = "cancelled"
          /\ pc[r] = "agent.invoke.error" => outcome[r] = "error"
          /\ pc[r] \in {"agent.invoke.cancelled", "agent.invoke.error"}
    BY <1>4 DEF InHandler, CallInv, OutcomeInv, EventTypes
  <2>4. EventsInv(r)'
    BY <1>2, <2>1 DEF EventsInv, Beginning, Completing, Upserting, InHandler
  <2>5. OutcomeInv(r)'
    BY <1>1, <2>1, <2>3 DEF CallInv, OutcomeInv, Completing, Upserting, Announced
  <2>6. MetricInv(r)'
    BY <2>1, <2>2 DEF MetricInv, Completing, Upserting
  <2> QED
    BY <2>4, <2>5, <2>6 DEF CallInv
<1>5. CASE ~InTry(r) /\ ~InHandler(r)
  <2>1. pc'[r] \in {"rejected", "raised"} /\ mark'[r] = mark[r] /\ outcome'[r] = outcome[r]
    BY <1>0, <1>5 DEF Unwind, Uncaught, Goto, LocalsOK
  <2>2. agent_metrics'[r] \in {<<>>, <<outcome[r]>>}
    <3>1. CASE pc[r] # "record"
      BY <3>1, Unrecorded DEF CallInv, MetricInv
    <3>2. CASE pc[r] = "record"
      <4>1. agent_metrics[r] = <<>>
        BY <3>2 DEF CallInv, MetricInv, Completing, Upserting, Awaits, EventTypes
      <4>2. agent_metrics'[r] \in {<<>>, Append(<<>>, outcome[r])}
        BY <1>0, <3>2, <4>1, Effects DEF tables
      <4> QED
        BY <1>0, <4>2, Singleton DEF LocalsOK
    <3> QED
      BY <3>1, <3>2
  <2>3. pc[r] \in EventTypes =>
          \/ pc[r] = "agent.invoke.start"
          \/ pc[r] = "agent.invoke.end" /\ outcome[r] = "ok"
    BY <1>5 DEF InTry, InHandler, CallInv, OutcomeInv, Completing, EventTypes
  <2>4. EventsInv(r)'
    BY <1>2, <2>1 DEF EventsInv, Beginning, Completing, Upserting, InHandler
  <2>5. OutcomeInv(r)'
    BY <1>1, <2>1, <2>3 DEF CallInv, OutcomeInv, Completing, Upserting, Announced
  <2>6. MetricInv(r)'
    BY <2>1, <2>2 DEF MetricInv, Completing, Upserting, Awaits, EventTypes
  <2> QED
    BY <2>4, <2>5, <2>6 DEF CallInv
<1> QED
  BY <1>3, <1>4, <1>5

LEMMA CallStep ==
  ASSUME TypeInv, \A r \in Requests : CallInv(r), [Next]_vars
  PROVE  \A r \in Requests : CallInv(r)'
<1>0. SUFFICES ASSUME NEW r \in Requests PROVE CallInv(r)'
  OBVIOUS
<1>1. CallInv(r) /\ r \in Callers /\ r \notin Killers /\ pc[r] # "lookup"
  BY SupervisorAssumption DEF TypeInv, KillersOK, Callers
<1>2. CASE \E c \in Callers : c # r /\ Acts(c)
  <2>1. PICK c \in Callers : c # r /\ Acts(c)
    BY <1>2
  <2>2. /\ pc'[r] = pc[r] /\ mark'[r] = mark[r] /\ outcome'[r] = outcome[r]
        /\ Execute(c) \/ UNCHANGED tables
    BY <1>1, <2>1, OneCallerActs
  <2>3. published'[r] = published[r] /\ agent_metrics'[r] = agent_metrics[r]
    BY <2>1, <2>2, Effects DEF tables
  <2> QED
    BY <1>1, <2>2, <2>3, CallFrame
<1>3. CASE Acts(r)
  <2>1. CASE Fails(r)
    <3>1. /\ Running(r) /\ (Execute(r) \/ UNCHANGED tables)
          /\ \E kind \in {"error", "cancelled"} : Unwind(r, kind)
      BY <2>1 DEF Fails, Conflict, Raise, Cancel, Running, Awaits
    <3> QED
      BY <1>1, <3>1, FailureKeepsCall
  <2>2. CASE Invoke(r) \/ Select(r) \/ Write(r) \/ AdvanceInvoke(r)
    BY <1>1, <2>2, BeginningKeepsCall, WriteKeepsCall, QuietLoopKeepsCall, LoudLoopKeepsCall,
       RecordKeepsCall, EndingKeepsCall DEF AdvanceInvoke
  <2> QED
    BY <1>1, <1>3, <2>1, <2>2 DEF Acts, Fails, Arrive, Advance, Lookup
<1>4. CASE Crash
  <2>1. /\ pc'[r] = pc[r] \/ pc'[r] = "crashed"
        /\ mark'[r] = mark[r] /\ outcome'[r] = outcome[r]
        /\ published'[r] = published[r] /\ agent_metrics'[r] = agent_metrics[r]
    BY <1>1, <1>4, CrashActs DEF tables
  <2> QED
    BY <1>1, <2>1, CallFrame
<1>5. CASE UNCHANGED <<tables, pc, mark, outcome>>
  BY <1>1, <1>5, CallFrame DEF tables
<1> QED
  BY <1>2, <1>3, <1>4, <1>5, NextActs

LEMMA CallInvariance == Spec => [](\A r \in Requests : CallInv(r))
<1>1. ASSUME Init PROVE \A r \in Requests : CallInv(r)
  BY <1>1 DEF Init, CallInv, EventsInv, OutcomeInv, MetricInv, Protocol, EndsWith, Beginning,
       Completing, Upserting, InHandler, Announced, Callers
<1>2. TypeInv /\ (\A r \in Requests : CallInv(r)) /\ [Next]_vars
        => (\A r \in Requests : CallInv(r))'
  BY CallStep
<1> QED
  BY <1>1, <1>2, TypeInvariance, PTL DEF Spec

(***************************************************************************)
(* What a subscriber sees of a request (EventProtocol), in every           *)
(* interleaving and under every fault.                                     *)
(***************************************************************************)
THEOREM EventsFollowProtocol == Spec => []EventProtocol
<1>1. (\A r \in Requests : CallInv(r)) => EventProtocol
  BY DEF CallInv, EventsInv, Protocol, EventProtocol
<1> QED
  BY <1>1, CallInvariance, PTL

(***************************************************************************)
(* One metric per invocation, with its outcome (MetricOnce).               *)
(***************************************************************************)
THEOREM MetricsAreRecordedOnce == Spec => []MetricOnce
<1>1. (\A r \in Requests : CallInv(r)) /\ TypeInv => MetricOnce
  <2> SUFFICES ASSUME TypeInv, NEW r \in Requests, CallInv(r)
               PROVE  /\ Len(agent_metrics[r]) <= 1
                      /\ pc[r] = "returned" => agent_metrics[r] = <<outcome[r]>>
                      /\ agent_metrics[r] # <<>> => agent_metrics[r] = <<outcome[r]>>
    BY DEF CallInv, OutcomeInv, MetricOnce
  <2>1. agent_metrics[r] = <<>> \/ agent_metrics[r] = <<outcome[r]>>
    BY DEF CallInv, MetricInv
  <2>3. Len(agent_metrics[r]) <= 1
    <3>1. CASE agent_metrics[r] = <<>>
      BY <3>1
    <3>2. CASE agent_metrics[r] = <<outcome[r]>>
      BY <3>2, Singleton
    <3> QED
      BY <2>1, <3>1, <3>2
  <2>2. pc[r] = "returned" => agent_metrics[r] = <<outcome[r]>>
    BY DEF CallInv, MetricInv
  <2> QED
    BY <2>1, <2>2, <2>3
<1> QED
  BY <1>1, CallInvariance, TypeInvariance, PTL

------------------------------------------------------------------------------
(***************************************************************************)
(* Who is killed.  A raised flag, a flag that a call of _upsert has read,  *)
(* and the outcome of an invocation all go back to a call of /agent/kill.  *)
(***************************************************************************)
Asked(t) == \E k \in Killers : tid[k] = t /\ pc[k] # "idle"

AskedInv ==
  /\ \A t \in Threads : KillRequested(t) => Asked(t)
  /\ \A c \in Callers : existing[c] # NoRow /\ existing[c].kill_requested => Asked(tid[c])
  /\ \A r \in Requests :
       outcome[r] = "killed" \/ Announced(r, "agent.invoke.killed") => Asked(tid[r])

LEMMA TidStays ==
  ASSUME TypeInv, [Next]_vars PROVE tid' = tid
  BY NextActs, OneCallerActs, CrashActs

LEMMA NobodyTurnsIdle ==
  ASSUME TypeInv, [Next]_vars, NEW c \in Callers, pc'[c] = "idle"
  PROVE  pc[c] = "idle"
<1>0. LocalsOK
  BY TypeSplit DEF TypeInv
<1>1. ASSUME NEW d \in Callers, Acts(d)
      PROVE  \E l : Goto(d, l) /\ l # "idle"
  <2>1. AfterUpsert[mark[d]] # "idle"
    BY <1>0 DEF LocalsOK, Statuses, AfterUpsert
  <2> QED
    BY <1>1, <2>1 DEF Acts, Arrive, Invoke, Kill, Advance, AdvanceInvoke, Audit, PublishStart,
         Resume, EnterRound, CheckKill, PublishKilled, PublishStepStart, Step, Put,
         PublishStepEnd, PublishFailure, Record, PublishEnd, Pass, CallUpsert,
         Lookup, Select, Write, Conflict, Raise, Cancel, Unwind, Uncaught
<1>2. ASSUME NEW d \in Callers, NEW l, Goto(d, l), l # "idle"
      PROVE  pc[c] = "idle"
  BY <1>0, <1>2 DEF Goto, LocalsOK
<1> QED
  BY <1>0, <1>1, <1>2, NextActs, CrashActs

LEMMA AskedStays ==
  ASSUME TypeInv, [Next]_vars, NEW t, Asked(t)
  PROVE  Asked(t)'
  BY TidStays, NobodyTurnsIdle DEF Asked, Callers

LEMMA ExistingAfter ==
  ASSUME TypeInv, [Next]_vars, NEW c \in Callers
  PROVE  existing'[c] \in {existing[c], NoRow, agent_thread_state[tid[c]]}
<1>0. LocalsOK
  BY TypeSplit DEF TypeInv
<1>1. CASE Acts(c)
  <2>1. \/ existing' = existing
        \/ existing' = [existing EXCEPT ![c] = NoRow]
        \/ existing' = [existing EXCEPT ![c] = agent_thread_state[tid[c]]]
    BY <1>1 DEF Acts, Arrive, Invoke, Kill, Advance, AdvanceInvoke, Audit, PublishStart,
         Resume, CheckKill, PublishKilled, PublishStepStart, Step, Put,
         PublishStepEnd, PublishFailure, Record, PublishEnd, Pass,
         Lookup, Select, Write, Conflict, Raise, Cancel, Unwind
  <2> QED
    BY <1>0, <2>1 DEF LocalsOK
<1>2. CASE \E d \in Callers \ {c} : Acts(d)
  BY <1>2, OneCallerActs
<1> QED
  BY <1>1, <1>2, NextActs, CrashActs

(***************************************************************************)
(* The row of a thread changes by a statement of a call that awaits its    *)
(* write, and only so.                                                     *)
(***************************************************************************)
LEMMA RowAfter ==
  ASSUME TypeInv, [Next]_vars, NEW t \in Threads
  PROVE  \/ agent_thread_state'[t] = agent_thread_state[t]
         \/ \E c \in Callers :
              /\ pc[c] = "write" /\ tid[c] = t /\ Acts(c)
              /\ ~InsertConflicts(t, existing[c])
              /\ agent_thread_state'[t] = Written(existing[c], mark[c])
<1>1. CASE \E c \in Callers : Acts(c)
  <2>1. PICK c \in Callers : Acts(c)
    BY <1>1
  <2>2. CASE UNCHANGED tables
    BY <2>2 DEF tables
  <2>3. CASE Execute(c)
    BY <2>1, <2>3, Effects
  <2> QED
    BY <2>1, <2>2, <2>3, OneCallerActs
<1> QED
  BY <1>1, NextActs, CrashActs DEF tables

LEMMA OutcomeAfter ==
  ASSUME TypeInv, [Next]_vars, NEW r \in Requests, outcome'[r] = "killed"
  PROVE  outcome[r] = "killed" \/ KillRequested(tid[r])
<1>0. LocalsOK /\ r \in Callers
  BY TypeSplit DEF TypeInv, Callers
<1>1. CASE Acts(r)
  <2>1. \/ outcome' = outcome
        \/ \E o \in {"max_steps_exceeded", "error", "cancelled"} :
             outcome' = [outcome EXCEPT ![r] = o]
        \/ KillRequested(tid[r])
    BY <1>1 DEF Acts, Arrive, Invoke, Kill, Advance, AdvanceInvoke, Audit, PublishStart,
         Resume, EnterRound, CheckKill, PublishKilled, PublishStepStart, Step, Put,
         PublishStepEnd, PublishFailure, Record, PublishEnd, Pass,
         Lookup, Select, Write, Conflict, Raise, Cancel, Unwind
  <2> QED
    BY <1>0, <2>1 DEF LocalsOK
<1>2. CASE \E d \in Callers \ {r} : Acts(d)
  BY <1>2, OneCallerActs
<1> QED
  BY <1>1, <1>2, NextActs, CrashActs

(***************************************************************************)
(* An event is announced by the caller that awaits its publication.        *)
(***************************************************************************)
LEMMA AnnouncedByAwaiting ==
  ASSUME TypeInv, [Next]_vars, NEW r \in Requests, NEW type, Announced(r, type)'
  PROVE  Announced(r, type) \/ (pc[r] = type /\ Acts(r))
<1>0. published[r] \in Seq(EventTypes) /\ r \in Callers
  BY TypeSplit DEF TypeInv, TablesOK, Callers
<1>1. CASE published'[r] = published[r]
  BY <1>1 DEF Announced
<1>2. CASE published'[r] # published[r]
  <2>1. PICK c \in Callers : Acts(c)
    BY <1>2, NextActs, CrashActs DEF tables
  <2>2. /\ c = r /\ pc[r] \in EventTypes
        /\ published'[r] = Append(published[r], pc[r])
    <3>1. Execute(c)
      BY <1>2, <2>1, OneCallerActs DEF tables
    <3>2. published'[r] = IF r = c /\ pc[c] \in EventTypes
                          THEN Append(published[r], pc[c]) ELSE published[r]
      BY <3>1, Effects
    <3> QED
      BY <1>2, <3>2
  <2> QED
    BY <1>0, <2>1, <2>2, AnnouncedAppend
<1> QED
  BY <1>1, <1>2

LEMMA AskedStep ==
  ASSUME TypeInv, \A r \in Requests : CallInv(r), AskedInv, [Next]_vars
  PROVE  AskedInv'
<1>0. LocalsOK /\ TablesOK /\ tid' = tid
  BY TypeSplit, TidStays DEF TypeInv
<1>1. ASSUME NEW t \in Threads, KillRequested(t)'
      PROVE  Asked(t)'
  <2>1. CASE agent_thread_state'[t] = agent_thread_state[t]
    BY <1>1, <2>1, AskedStays DEF AskedInv, KillRequested
  <2>2. ASSUME NEW c \in Callers, pc[c] = "write", tid[c] = t,
               agent_thread_state'[t] = Written(existing[c], mark[c])
        PROVE  Asked(t)'
    <3>1. mark[c] = "kill_requested" \/ (existing[c] # NoRow /\ existing[c].kill_requested)
      BY <1>1, <2>2 DEF KillRequested, Written
    <3>2. CASE c \in Killers
      BY <2>2, <3>2, AskedStays DEF Asked
    <3>3. CASE c \in Requests
      BY <2>2, <3>1, <3>3, AskedStays DEF AskedInv, CallInv, OutcomeInv
    <3> QED
      BY <3>2, <3>3 DEF Callers
  <2> QED
    BY <2>1, <2>2, RowAfter
<1>2. ASSUME NEW c \in Callers, existing'[c] # NoRow, existing'[c].kill_requested
      PROVE  Asked(tid[c])'
  <2>1. existing'[c] \in {existing[c], agent_thread_state[tid[c]]}
    BY <1>2, ExistingAfter
  <2>2. Asked(tid[c])
    BY <1>0, <1>2, <2>1 DEF AskedInv, KillRequested, LocalsOK
  <2> QED
    BY <1>0, <2>2, AskedStays
<1>3. ASSUME NEW r \in Requests, outcome'[r] = "killed" \/ Announced(r, "agent.invoke.killed")'
      PROVE  Asked(tid[r])'
  <2>1. outcome[r] = "killed" \/ KillRequested(tid[r]) \/ Announced(r, "agent.invoke.killed")
    BY <1>3, OutcomeAfter, AnnouncedByAwaiting DEF CallInv, OutcomeInv
  <2>2. Asked(tid[r])
    BY <1>0, <2>1 DEF AskedInv, LocalsOK, Callers
  <2> QED
    BY <1>0, <2>2, AskedStays
<1> QED
  BY <1>0, <1>1, <1>2, <1>3 DEF AskedInv

(***************************************************************************)
(* Nobody is killed unasked (KilledOnlyWhenAsked), however calls overlap   *)
(* and whatever fails.                                                     *)
(***************************************************************************)
THEOREM KillsAreAskedFor == Spec => []KilledOnlyWhenAsked
<1>1. ASSUME Init PROVE AskedInv
  BY <1>1 DEF Init, AskedInv, ThreadStateInit, KillRequested, Announced, Callers
<1>2. TypeInv /\ (\A r \in Requests : CallInv(r)) /\ AskedInv /\ [Next]_vars => AskedInv'
  BY AskedStep
<1>3. AskedInv => KilledOnlyWhenAsked
  BY DEF AskedInv, Asked, KilledOnlyWhenAsked
<1> QED
  BY <1>1, <1>2, <1>3, TypeInvariance, CallInvariance, PTL DEF Spec

------------------------------------------------------------------------------
(***************************************************************************)
(* Events and checkpoints.  Each label of the step loop is reached by one  *)
(* action.                                                                 *)
(***************************************************************************)
LEMMA LoopLabels ==
  ASSUME TypeInv, NEW r \in Requests, Acts(r)
  PROVE  /\ pc'[r] = "get_latest" => PublishStart(r)
         /\ pc'[r] = "is_kill_requested" => Resume(r) \/ PublishStepEnd(r)
         /\ pc'[r] = "agent.step.start" => CheckKill(r) /\ ~KillRequested(tid[r])
         /\ pc'[r] = "agent.invoke.killed" => CheckKill(r) /\ KillRequested(tid[r])
         /\ pc'[r] = "step" => PublishStepStart(r)
         /\ pc'[r] = "put" => Step(r)
         /\ pc'[r] = "agent.step.end" => Put(r)
<1>0. LocalsOK /\ r \in Callers
  BY TypeSplit DEF TypeInv, Callers
<1> DEFINE Labels == {"get_latest", "is_kill_requested", "agent.step.start",
                      "agent.invoke.killed", "step", "put", "agent.step.end"}
<1>1. CASE Arrive(r) \/ Lookup(r) \/ Select(r) \/ Fails(r)
  <2>1. \E l \in {"audit", "lookup", "select", "write", "record", "rejected", "raised"} :
          Goto(r, l)
    BY <1>1 DEF Arrive, Invoke, Kill, CallUpsert, Lookup, Select, Fails, Conflict, Raise,
         Cancel, Unwind, Uncaught
  <2> QED
    BY <1>0, <2>1 DEF Goto, LocalsOK
<1>2. CASE Write(r)
  <2>1. pc'[r] = AfterUpsert[mark[r]] /\ mark[r] \in Statuses
    BY <1>0, <1>2 DEF Write, Goto, LocalsOK
  <2> QED
    BY <2>1 DEF Statuses, AfterUpsert
<1>3. CASE Audit(r) \/ PublishKilled(r) \/ PublishFailure(r) \/ Record(r) \/ PublishEnd(r)
  <2>1. \E l \in {"select", "record", "returned", "raised"} : Goto(r, l)
    BY <1>3 DEF Audit, PublishKilled, PublishFailure, Record, PublishEnd, Pass, CallUpsert
  <2> QED
    BY <1>0, <2>1 DEF Goto, LocalsOK
<1>4. CASE PublishStart(r)
  BY <1>0, <1>4 DEF PublishStart, Pass, Goto, LocalsOK
<1>5. CASE Resume(r)
  BY <1>0, <1>5 DEF Resume, EnterRound, Goto, LocalsOK
<1>6. CASE CheckKill(r)
  BY <1>0, <1>6 DEF CheckKill, Goto, LocalsOK
<1>7. CASE PublishStepStart(r)
  BY <1>0, <1>7 DEF PublishStepStart, Pass, Goto, LocalsOK
<1>8. CASE Step(r)
  BY <1>0, <1>8 DEF Step, Goto, LocalsOK
<1>9. CASE Put(r)
  BY <1>0, <1>9 DEF Put, Goto, LocalsOK
<1>10. CASE PublishStepEnd(r)
  BY <1>0, <1>10 DEF PublishStepEnd, EnterRound, Goto, LocalsOK
<1> QED
  BY <1>1, <1>2, <1>3, <1>4, <1>5, <1>6, <1>7, <1>8, <1>9, <1>10
  DEF Acts, Fails, Advance, AdvanceInvoke

(***************************************************************************)
(* The rows of a thread are appended to, by the request whose put it is.   *)
(***************************************************************************)
RowsOf(r) == langgraph_checkpoints[tid[r]]

NewRow(c) == [parent_id |-> parent_id[c], state |-> state[c]]

LEMMA RowsType ==
  ASSUME TypeInv, NEW r \in Requests
  PROVE  /\ RowsOf(r) \in Seq(Checkpoint)
         /\ \A i \in 1..Len(RowsOf(r)) :
              /\ RowsOf(r)[i].parent_id \in Nat
              /\ RowsOf(r)[i].state.step \in Nat
         /\ tid[r] \in Threads /\ parent_id[r] \in Nat /\ state[r].step \in Nat
         /\ NewRow(r) \in Checkpoint
<1>1. /\ tid[r] \in Threads /\ parent_id[r] \in Nat /\ state[r] \in State
      /\ RowsOf(r) \in Seq(Checkpoint)
  BY TypeSplit DEF TypeInv, TablesOK, LocalsOK, CheckpointsTypeOK, RowsOf, Callers
<1>2. state[r].step \in Nat /\ NewRow(r) \in Checkpoint
  BY <1>1 DEF State, Checkpoint, NewRow
<1>3. ASSUME NEW i \in 1..Len(RowsOf(r))
      PROVE  RowsOf(r)[i].parent_id \in Nat /\ RowsOf(r)[i].state.step \in Nat
  <2>1. RowsOf(r)[i] \in Checkpoint
    BY <1>1
  <2> QED
    BY <2>1 DEF Checkpoint, State
<1> QED
  BY <1>1, <1>2, <1>3

LEMMA RowsAfter ==
  ASSUME TypeInv, [Next]_vars, NEW t \in Threads
  PROVE  \/ langgraph_checkpoints'[t] = langgraph_checkpoints[t]
         \/ \E c \in Requests :
              /\ pc[c] = "put" /\ tid[c] = t /\ Acts(c) /\ Execute(c)
              /\ langgraph_checkpoints'[t] = Append(langgraph_checkpoints[t], NewRow(c))
<1>1. CASE \E c \in Callers : Acts(c)
  <2>1. PICK c \in Callers : Acts(c)
    BY <1>1
  <2>2. CASE UNCHANGED tables
    BY <2>2 DEF tables
  <2>3. CASE Execute(c)
    <3>1. pc[c] = "put" => c \in Requests
      BY DEF TypeInv, KillersOK, Callers, Ends
    <3> QED
      BY <2>1, <2>3, <3>1, Effects DEF NewRow
  <2> QED
    BY <2>1, <2>2, <2>3, OneCallerActs
<1> QED
  BY <1>1, NextActs, CrashActs DEF tables

(***************************************************************************)
(* Of the checkpoints of a request, one is new or none.                    *)
(***************************************************************************)
LEMMA CheckpointsAfter ==
  ASSUME TypeInv, OwnInput, [Next]_vars, NEW r \in Requests
  PROVE  /\ RowsOf(r)' \in Seq(Checkpoint)
         /\ Len(RowsOf(r)) <= Len(RowsOf(r)')
         /\ \A i \in 1..Len(RowsOf(r)) : RowsOf(r)'[i] = RowsOf(r)[i]
         /\ \/ CheckpointsOf(r)' = CheckpointsOf(r)
            \/ /\ pc[r] = "put" /\ Acts(r) /\ Execute(r)
               /\ RowsOf(r)' = Append(RowsOf(r), NewRow(r))
               /\ CheckpointsOf(r)' = CheckpointsOf(r) \cup {Len(RowsOf(r)) + 1}
<1>0. tid' = tid /\ tid[r] \in Threads /\ RowsOf(r) \in Seq(Checkpoint)
  BY TidStays, RowsType
<1>1. CASE RowsOf(r)' = RowsOf(r)
  BY <1>0, <1>1 DEF CheckpointsOf, RowsOf
<1>2. ASSUME NEW c \in Requests, pc[c] = "put", tid[c] = tid[r], Acts(c), Execute(c),
             RowsOf(r)' = Append(RowsOf(r), NewRow(c))
      PROVE  /\ RowsOf(r)' \in Seq(Checkpoint)
             /\ Len(RowsOf(r)) <= Len(RowsOf(r)')
             /\ \A i \in 1..Len(RowsOf(r)) : RowsOf(r)'[i] = RowsOf(r)[i]
             /\ CheckpointsOf(r)' = IF c = r THEN CheckpointsOf(r) \cup {Len(RowsOf(r)) + 1}
                                    ELSE CheckpointsOf(r)
  <2>1. NewRow(c) \in Checkpoint /\ NewRow(c).state.input = c
    BY RowsType DEF NewRow, OwnInput
  <2>2. /\ RowsOf(r)' \in Seq(Checkpoint)
        /\ Len(RowsOf(r)') = Len(RowsOf(r)) + 1
        /\ RowsOf(r)'[Len(RowsOf(r)) + 1] = NewRow(c)
        /\ \A i \in 1..Len(RowsOf(r)) : RowsOf(r)'[i] = RowsOf(r)[i]
    BY <1>0, <1>2, <2>1, AppendProperties
  <2>3. CheckpointsOf(r) = {i \in 1..Len(RowsOf(r)) : RowsOf(r)[i].state.input = r}
    BY DEF CheckpointsOf, RowsOf
  <2>4. CheckpointsOf(r)' = {i \in 1..Len(RowsOf(r)') : RowsOf(r)'[i].state.input = r}
    BY DEF CheckpointsOf, RowsOf
  <2>5. Len(RowsOf(r)) \in Nat
    BY <1>0
  <2> QED
    BY <2>1, <2>2, <2>3, <2>4, <2>5
<1> QED
  BY <1>0, <1>1, <1>2, RowsAfter, SMTT(30) DEF RowsOf

LEMMA FiniteCheckpoints ==
  ASSUME TypeInv, NEW r \in Requests
  PROVE  /\ IsFiniteSet(CheckpointsOf(r)) /\ Cardinality(CheckpointsOf(r)) \in Nat
         /\ Len(RowsOf(r)) + 1 \notin CheckpointsOf(r)
         /\ CheckpointsOf(r) \subseteq 1..Len(RowsOf(r))
<1>1. Len(RowsOf(r)) \in Nat
  BY RowsType
<1>2. CheckpointsOf(r) \subseteq 1..Len(RowsOf(r))
  BY DEF CheckpointsOf, RowsOf
<1>3. IsFiniteSet(1..Len(RowsOf(r)))
  BY <1>1, FS_Interval
<1>4. IsFiniteSet(CheckpointsOf(r))
  BY <1>2, <1>3, FS_Subset
<1>5. Len(RowsOf(r)) + 1 \notin CheckpointsOf(r)
  BY <1>1, <1>2
<1> QED
  BY <1>2, <1>4, <1>5, FS_CardinalityType

LEMMA PutAdds ==
  ASSUME TypeInv, OwnInput, [Next]_vars, NEW r \in Requests, pc[r] = "put", Execute(r)
  PROVE  /\ RowsOf(r)' = Append(RowsOf(r), NewRow(r))
         /\ CheckpointsOf(r)' = CheckpointsOf(r) \cup {Len(RowsOf(r)) + 1}
<1>1. RowsOf(r)' = Append(RowsOf(r), NewRow(r))
  BY Effects, TidStays, RowsType DEF RowsOf, NewRow, Callers
<1>2. /\ Len(RowsOf(r)') = Len(RowsOf(r)) + 1
      /\ RowsOf(r)'[Len(RowsOf(r)) + 1] = NewRow(r)
      /\ Len(RowsOf(r)) \in Nat
  BY <1>1, RowsType, AppendProperties
<1>3. NewRow(r).state.input = r
  BY DEF NewRow, OwnInput
<1>4. Len(RowsOf(r)) + 1 \in CheckpointsOf(r)'
  BY <1>2, <1>3 DEF CheckpointsOf, RowsOf
<1> QED
  BY <1>1, <1>4, CheckpointsAfter, FiniteCheckpoints

(***************************************************************************)
(* Counting the events of a type.                                          *)
(***************************************************************************)
LEMMA CountIs ==
  ASSUME NEW s \in Seq(EventTypes), NEW type
  PROVE  /\ IsFiniteSet({i \in 1..Len(s) : s[i] = type})
         /\ Len(s) + 1 \notin {i \in 1..Len(s) : s[i] = type}
<1>1. Len(s) \in Nat
  OBVIOUS
<1>2. IsFiniteSet(1..Len(s))
  BY <1>1, FS_Interval
<1>3. {i \in 1..Len(s) : s[i] = type} \subseteq 1..Len(s)
  OBVIOUS
<1>4. IsFiniteSet({i \in 1..Len(s) : s[i] = type})
  BY <1>2, <1>3, FS_Subset
<1> QED
  BY <1>1, <1>4

LEMMA CountAfter ==
  ASSUME TypeInv, [Next]_vars, NEW r \in Requests, NEW type
  PROVE  /\ Count(r, type) \in Nat
         /\ Count(r, type)' \in {Count(r, type), Count(r, type) + 1}
         /\ Count(r, type)' # Count(r, type) => pc[r] = type /\ Acts(r)
         /\ pc[r] = type /\ type \in EventTypes /\ Execute(r)
              => Count(r, type)' = Count(r, type) + 1
<1>0. published[r] \in Seq(EventTypes) /\ r \in Callers
  BY TypeSplit DEF TypeInv, TablesOK, Callers
<1> DEFINE Those == {i \in 1..Len(published[r]) : published[r][i] = type}
<1>1. IsFiniteSet(Those) /\ Len(published[r]) + 1 \notin Those
  BY <1>0, CountIs
<1>2. Count(r, type) = Cardinality(Those) /\ Count(r, type) \in Nat
  BY <1>1, FS_CardinalityType DEF Count
<1>3. ASSUME published'[r] = published[r]
      PROVE  Count(r, type)' = Count(r, type)
  BY <1>3 DEF Count
<1>4. ASSUME pc[r] \in EventTypes, published'[r] = Append(published[r], pc[r])
      PROVE  Count(r, type)' = IF pc[r] = type THEN Count(r, type) + 1 ELSE Count(r, type)
  <2>1. /\ Len(published'[r]) = Len(published[r]) + 1
        /\ published'[r][Len(published[r]) + 1] = pc[r]
        /\ \A i \in 1..Len(published[r]) : published'[r][i] = published[r][i]
        /\ Len(published[r]) \in Nat
    BY <1>0, <1>4, AppendProperties
  <2>2. {i \in 1..Len(published'[r]) : published'[r][i] = type} =
          IF pc[r] = type THEN Those \cup {Len(published[r]) + 1} ELSE Those
    BY <2>1
  <2>3. Cardinality(Those \cup {Len(published[r]) + 1}) = Cardinality(Those) + 1
    BY <1>1, FS_AddElement
  <2>4. Count(r, type)' = Cardinality({i \in 1..Len(published'[r]) : published'[r][i] = type})
    BY DEF Count
  <2> QED
    BY <1>2, <2>2, <2>3, <2>4
<1>5. \/ published'[r] = published[r]
      \/ Acts(r) /\ pc[r] \in EventTypes /\ published'[r] = Append(published[r], pc[r])
  <2>1. CASE \E c \in Callers : Acts(c)
    BY <1>0, <2>1, OneCallerActs, Effects DEF tables
  <2> QED
    BY <2>1, NextActs, CrashActs DEF tables
<1>6. pc[r] \in EventTypes /\ Execute(r) => published'[r] = Append(published[r], pc[r])
  BY <1>0, Effects
<1> QED
  BY <1>2, <1>3, <1>4, <1>5, <1>6

------------------------------------------------------------------------------
(***************************************************************************)
(* The label of a request tells how far its checkpoints are behind its     *)
(* step events.                                                            *)
(***************************************************************************)
StepsInv(r) ==
  LET checkpoints == Cardinality(CheckpointsOf(r))
  IN  /\ Count(r, "agent.step.end") <= checkpoints
      /\ checkpoints <= Count(r, "agent.step.start")
      /\ pc[r] \in {"step", "put"} => checkpoints + 1 <= Count(r, "agent.step.start")
      /\ pc[r] = "agent.step.end" => Count(r, "agent.step.end") + 1 <= checkpoints

LEMMA StepsStep ==
  ASSUME TypeInv, TypeInv', OwnInput, [Next]_vars, NEW r \in Requests, StepsInv(r)
  PROVE  StepsInv(r)'
<1> DEFINE checkpoints == Cardinality(CheckpointsOf(r))
           started == Count(r, "agent.step.start")
           ended == Count(r, "agent.step.end")
<1>0. /\ checkpoints \in Nat /\ started \in Nat /\ ended \in Nat /\ r \in Callers
      /\ {"agent.step.start", "agent.step.end"} \subseteq EventTypes
  BY FiniteCheckpoints, CountAfter DEF Callers, EventTypes
<1>1. /\ started' \in {started, started + 1}
      /\ ended' \in {ended, ended + 1}
      /\ ended' # ended => pc[r] = "agent.step.end" /\ Acts(r)
  BY CountAfter
<1>2. \/ CheckpointsOf(r)' = CheckpointsOf(r) /\ checkpoints' = checkpoints
      \/ /\ pc[r] = "put" /\ Acts(r) /\ Execute(r)
         /\ checkpoints' = checkpoints + 1
  <2>1. Cardinality(CheckpointsOf(r) \cup {Len(RowsOf(r)) + 1}) = checkpoints + 1
    BY FiniteCheckpoints, FS_AddElement
  <2> QED
    BY <2>1, CheckpointsAfter
<1>3. CASE Acts(r)
  <2>1. pc'[r] \in {"step", "put"} => checkpoints' + 1 <= started'
    <3>1. CASE pc'[r] = "step"
      <4>1. pc[r] = "agent.step.start" /\ Execute(r)
        BY <1>3, <3>1, LoopLabels DEF PublishStepStart, Pass
      <4>2. started' = started + 1
        BY <1>0, <4>1, CountAfter
      <4> QED
        BY <1>0, <1>2, <4>1, <4>2 DEF StepsInv
    <3>2. CASE pc'[r] = "put"
      <4>1. pc[r] = "step"
        BY <1>3, <3>2, LoopLabels DEF Step
      <4> QED
        BY <1>0, <1>1, <1>2, <4>1 DEF StepsInv
    <3> QED
      BY <3>1, <3>2
  <2>2. pc'[r] = "agent.step.end" => ended' + 1 <= checkpoints'
    <3> SUFFICES ASSUME pc'[r] = "agent.step.end" PROVE ended' + 1 <= checkpoints'
      OBVIOUS
    <3>1. Put(r)
      BY <1>3, LoopLabels
    <3>2. pc[r] = "put" /\ Execute(r)
      BY <3>1 DEF Put
    <3>3. checkpoints' = checkpoints + 1
      BY <1>0, <3>2, PutAdds, FiniteCheckpoints, FS_AddElement
    <3> QED
      BY <1>0, <1>1, <3>2, <3>3 DEF StepsInv
  <2>3. ended' <= checkpoints' /\ checkpoints' <= started'
    BY <1>0, <1>1, <1>2 DEF StepsInv
  <2> QED
    BY <2>1, <2>2, <2>3 DEF StepsInv
<1>4. CASE ~Acts(r)
  <2>1. pc'[r] = pc[r] \/ pc'[r] = "crashed"
    BY <1>0, <1>4, NextActs, OneCallerActs, CrashActs
  <2>2. ended' = ended /\ checkpoints' = checkpoints
    BY <1>1, <1>2, <1>4
  <2> QED
    BY <1>0, <1>1, <2>1, <2>2 DEF StepsInv
<1> QED
  BY <1>3, <1>4

LEMMA OwnInputInvariance == Spec => []OwnInput
<1>1. AuditInv => OwnInput
  BY DEF AuditInv
<1> QED
  BY <1>1, AuditInvariance, PTL

(***************************************************************************)
(* Every step seen to end is checkpointed, and every checkpoint is of an   *)
(* announced step (StepsAreCheckpointed).                                  *)
(***************************************************************************)
THEOREM EndedStepsAreCheckpointed == Spec => []StepsAreCheckpointed
<1>1. Init => \A r \in Requests : StepsInv(r)
  <2> SUFFICES ASSUME Init, NEW r \in Requests PROVE StepsInv(r)
    OBVIOUS
  <2>1. CheckpointsOf(r) = {} /\ \A type : {i \in 1..Len(published[r]) : published[r][i] = type} = {}
    BY DEF Init, CheckpointsInit, CheckpointsOf, Callers
  <2>2. Cardinality(CheckpointsOf(r)) = 0 /\ \A type : Count(r, type) = 0
    BY <2>1, FS_EmptySet DEF Count
  <2> QED
    BY <2>2 DEF Init, StepsInv, Callers
<1>2. TypeInv /\ TypeInv' /\ OwnInput /\ (\A r \in Requests : StepsInv(r)) /\ [Next]_vars
        => (\A r \in Requests : StepsInv(r))'
  BY StepsStep
<1>3. (\A r \in Requests : StepsInv(r)) => StepsAreCheckpointed
  BY DEF StepsInv, StepsAreCheckpointed
<1> QED
  BY <1>1, <1>2, <1>3, TypeInvariance, OwnInputInvariance, PTL DEF Spec

------------------------------------------------------------------------------
(***************************************************************************)
(* The chain of an invocation.  Until it resumes it has no checkpoint;     *)
(* from then on, while it is in the step loop, its parent_id is its latest *)
(* checkpoint, or the row it resumed from, and its state continues that.   *)
(***************************************************************************)
Fresh(r) == Beginning(r) \/ pc[r] = "get_latest"

Stepping(r) ==
  pc[r] \in {"is_kill_requested", "agent.step.start", "step", "put", "agent.step.end"}

Chained(r) ==
  \A i \in CheckpointsOf(r) :
    LET earlier == {j \in CheckpointsOf(r) : j < i}
        parent  == RowsOf(r)[i].parent_id
    IN  /\ parent < i
        /\ earlier # {} => \A j \in earlier : parent \in CheckpointsOf(r) /\ j <= parent
        /\ parent # 0 => RowsOf(r)[i].state.step - RowsOf(r)[parent].state.step \in {0, 1}

IsLastOwn(r, p) == p \in CheckpointsOf(r) /\ \A j \in CheckpointsOf(r) : j <= p

ChainInv(r) ==
  /\ Chained(r)
  /\ Fresh(r) => CheckpointsOf(r) = {}
  /\ Stepping(r) =>
       /\ parent_id[r] <= Len(RowsOf(r))
       /\ CheckpointsOf(r) = {} \/ IsLastOwn(r, parent_id[r])
       /\ parent_id[r] # 0 =>
            \/ state[r].step = RowsOf(r)[parent_id[r]].state.step
            \/ pc[r] = "put" /\ state[r].step = RowsOf(r)[parent_id[r]].state.step + 1

LEMMA FreshBefore ==
  ASSUME TypeInv, NEW r \in Requests, Acts(r), Fresh(r)'
  PROVE  Fresh(r) /\ pc[r] # "put"
<1>0. LocalsOK /\ r \in Callers
  BY TypeSplit DEF TypeInv, Callers
<1>1. CASE Invoke(r) \/ Audit(r) \/ PublishStart(r)
  BY <1>1 DEF Invoke, Audit, PublishStart, Fresh, Beginning
<1>2. CASE Select(r)
  BY <1>0, <1>2 DEF Select, Goto, LocalsOK, Fresh, Beginning, Upserting
<1>3. CASE Write(r)
  <2>1. pc'[r] = AfterUpsert[mark[r]] /\ mark[r] \in Statuses /\ pc[r] = "write"
    BY <1>0, <1>3 DEF Write, Goto, LocalsOK
  <2> QED
    BY <2>1 DEF Fresh, Beginning, Upserting, Statuses, AfterUpsert
<1>4. CASE Fails(r)
  <2>1. \/ pc'[r] = "select" /\ mark'[r] \in {"error", "cancelled"}
        \/ pc'[r] \in {"record", "rejected", "raised"}
    BY <1>0, <1>4 DEF Fails, Conflict, Raise, Cancel, Unwind, Uncaught, CallUpsert, Goto, LocalsOK
  <2> QED
    BY <2>1 DEF Fresh, Beginning, Upserting
<1>5. CASE PublishKilled(r) \/ PublishFailure(r) \/ Record(r) \/ PublishEnd(r)
  <2>1. \/ pc'[r] = "select" /\ mark'[r] \in {"killed", "completed"}
        \/ pc'[r] \in {"record", "returned", "raised"}
    BY <1>0, <1>5 DEF PublishKilled, PublishFailure, Record, PublishEnd, Pass, CallUpsert,
         Goto, LocalsOK
  <2> QED
    BY <2>1 DEF Fresh, Beginning, Upserting
<1>6. CASE Resume(r) \/ CheckKill(r) \/ PublishStepStart(r) \/ Step(r) \/ Put(r)
           \/ PublishStepEnd(r)
  <2>1. pc'[r] \in {"is_kill_requested", "record", "agent.step.start", "agent.invoke.killed",
                    "step", "put", "agent.step.end"}
    BY <1>0, <1>6 DEF Resume, CheckKill, PublishStepStart, Step, Put, PublishStepEnd,
         EnterRound, Pass, Goto, LocalsOK
  <2> QED
    BY <2>1 DEF Fresh, Beginning, Upserting
<1>7. CASE Lookup(r) \/ Kill(r)
  <2>1. ~Lookup(r)
    BY DEF Lookup, TypeInv, KillersOK
  <2>2. pc'[r] = "lookup"
    BY <1>0, <1>7, <2>1 DEF Kill, Goto, LocalsOK
  <2> QED
    BY <2>2 DEF Fresh, Beginning, Upserting
<1> QED
  BY <1>1, <1>2, <1>3, <1>4, <1>5, <1>6, <1>7 DEF Acts, Fails, Arrive, Advance, AdvanceInvoke

(***************************************************************************)
(* The state that get_latest and a step function give.                     *)
(***************************************************************************)
LEMMA ResumedStep ==
  ASSUME TypeInv, NEW r \in Requests, Resume(r)
  PROVE  /\ parent_id'[r] = Len(RowsOf(r))
         /\ parent_id'[r] # 0 => state'[r].step = RowsOf(r)[parent_id'[r]].state.step
<1>0. LocalsOK /\ RowsOf(r) \in Seq(Checkpoint)
  BY TypeSplit, RowsType DEF TypeInv
<1>1. parent_id'[r] = Len(RowsOf(r)) /\ state'[r] = ResumedState(tid[r], r)
  BY <1>0 DEF Resume, LatestId, RowsOf, LocalsOK
<1>2. ASSUME Len(RowsOf(r)) # 0
      PROVE  state'[r].step = RowsOf(r)[Len(RowsOf(r))].state.step
  <2>1. state'[r] = [RowsOf(r)[Len(RowsOf(r))].state EXCEPT !.input = r]
    BY <1>1, <1>2 DEF ResumedState, LatestId, RowsOf
  <2>2. RowsOf(r)[Len(RowsOf(r))] \in Checkpoint
    BY <1>0, <1>2
  <2>3. RowsOf(r)[Len(RowsOf(r))].state \in State
    BY <2>2 DEF Checkpoint
  <2> QED
    BY <2>1, <2>3 DEF State
<1> QED
  BY <1>1, <1>2

LEMMA SteppedState ==
  ASSUME TypeInv, NEW r \in Requests, Step(r)
  PROVE  state'[r].step = state[r].step \/ state'[r].step = state[r].step + 1
<1>0. state \in [Requests -> State] /\ state[r] \in State
  BY TypeSplit DEF TypeInv, LocalsOK
<1>1. PICK n \in StepResults(state[r]) : state'[r] = n
  BY <1>0 DEF Step
<1>2. n \in {state[r], [state[r] EXCEPT !.completed = TRUE],
             [state[r] EXCEPT !.step = @ + 1, !.completed = TRUE]}
  BY DEF StepResults
<1> QED
  BY <1>0, <1>1, <1>2 DEF State

LEMMA ChainStep ==
  ASSUME TypeInv, TypeInv', OwnInput, [Next]_vars, NEW r \in Requests, ChainInv(r)
  PROVE  ChainInv(r)'
<1>0. /\ LocalsOK /\ r \in Callers /\ tid' = tid
      /\ RowsOf(r) \in Seq(Checkpoint) /\ parent_id[r] \in Nat
      /\ \A i \in 1..Len(RowsOf(r)) : RowsOf(r)[i].parent_id \in Nat
      /\ Len(RowsOf(r)) \in Nat /\ CheckpointsOf(r) \subseteq 1..Len(RowsOf(r))
  BY TypeSplit, TidStays, RowsType, FiniteCheckpoints DEF TypeInv, Callers
<1>1. /\ RowsOf(r)' \in Seq(Checkpoint)
      /\ Len(RowsOf(r)') \in Nat /\ Len(RowsOf(r)) <= Len(RowsOf(r)')
      /\ \A i \in 1..Len(RowsOf(r)) : RowsOf(r)'[i] = RowsOf(r)[i]
  BY CheckpointsAfter
<1>2. CASE CheckpointsOf(r)' = CheckpointsOf(r)
  <2>1. Chained(r)'
    <3> SUFFICES ASSUME NEW i \in CheckpointsOf(r)
                 PROVE  LET earlier == {j \in CheckpointsOf(r) : j < i}
                            parent  == RowsOf(r)'[i].parent_id
                        IN  /\ parent < i
                            /\ earlier # {} =>
                                 \A j \in earlier : parent \in CheckpointsOf(r) /\ j <= parent
                            /\ parent # 0 =>
                                 RowsOf(r)'[i].state.step - RowsOf(r)'[parent].state.step \in {0, 1}
      BY <1>2 DEF Chained
    <3>1. i \in 1..Len(RowsOf(r)) /\ RowsOf(r)'[i] = RowsOf(r)[i]
      BY <1>0, <1>1
    <3>2. RowsOf(r)[i].parent_id \in Nat /\ RowsOf(r)[i].parent_id < i
      BY <1>0, <3>1 DEF ChainInv, Chained
    <3>3. RowsOf(r)[i].parent_id # 0 =>
            RowsOf(r)'[RowsOf(r)[i].parent_id] = RowsOf(r)[RowsOf(r)[i].parent_id]
      BY <1>0, <1>1, <3>1, <3>2
    <3> QED
      BY <3>1, <3>3 DEF ChainInv, Chained
  <2>2. CASE Acts(r)
    <3>1. Fresh(r)' => CheckpointsOf(r)' = {}
      BY <1>2, <2>2, FreshBefore DEF ChainInv
    <3>2. ASSUME Resume(r)
          PROVE  /\ CheckpointsOf(r)' = {}
                 /\ parent_id'[r] <= Len(RowsOf(r)')
                 /\ parent_id'[r] # 0 =>
                      state'[r].step = RowsOf(r)'[parent_id'[r]].state.step
      <4>1. Fresh(r)
        BY <3>2 DEF Resume, Fresh
      <4>2. parent_id'[r] = Len(RowsOf(r))
        BY <3>2, ResumedStep
      <4>3. parent_id'[r] # 0 => RowsOf(r)'[parent_id'[r]] = RowsOf(r)[parent_id'[r]]
        BY <1>0, <1>1, <4>2
      <4> QED
        BY <1>1, <1>2, <3>2, <4>1, <4>2, <4>3, ResumedStep DEF ChainInv
    <3>3. ASSUME Stepping(r)', ~Resume(r)
          PROVE  /\ Stepping(r) /\ parent_id'[r] = parent_id[r]
                 /\ \/ state'[r].step = state[r].step /\ pc[r] # "put"
                    \/ /\ pc[r] = "step" /\ pc'[r] = "put"
                       /\ state'[r].step = state[r].step + 1
      <4>1. ~Put(r)
        BY <1>0, <1>2, PutAdds, FiniteCheckpoints DEF Put
      <4>2. CheckKill(r) \/ PublishStepStart(r) \/ Step(r) \/ PublishStepEnd(r)
        BY <2>2, <3>3, <4>1, LoopLabels DEF Stepping
      <4>3. CASE CheckKill(r) \/ PublishStepStart(r) \/ PublishStepEnd(r)
        BY <4>3 DEF CheckKill, PublishStepStart, PublishStepEnd, Pass, Stepping, progress
      <4>4. CASE Step(r)
        BY <1>0, <4>4, SteppedState DEF Step, Goto, LocalsOK, Stepping
      <4> QED
        BY <4>2, <4>3, <4>4
    <3>4. ASSUME Stepping(r)', ~Resume(r)
          PROVE  /\ parent_id'[r] <= Len(RowsOf(r)')
                 /\ CheckpointsOf(r)' = {} \/ IsLastOwn(r, parent_id[r])'
                 /\ parent_id'[r] # 0 =>
                      \/ state'[r].step = RowsOf(r)'[parent_id'[r]].state.step
                      \/ /\ pc'[r] = "put"
                         /\ state'[r].step = RowsOf(r)'[parent_id'[r]].state.step + 1
      <4>1. parent_id[r] <= Len(RowsOf(r))
        BY <3>3, <3>4 DEF ChainInv
      <4>2. CheckpointsOf(r)' = {} \/ IsLastOwn(r, parent_id[r])'
        BY <1>2, <3>3, <3>4 DEF ChainInv, IsLastOwn
      <4>3. parent_id[r] # 0 => RowsOf(r)'[parent_id[r]] = RowsOf(r)[parent_id[r]]
        BY <1>0, <1>1, <4>1
      <4>4. parent_id[r] # 0 /\ pc[r] # "put" =>
              state[r].step = RowsOf(r)[parent_id[r]].state.step
        BY <3>3, <3>4 DEF ChainInv
      <4> QED
        BY <1>0, <1>1, <3>3, <3>4, <4>1, <4>2, <4>3, <4>4
    <3> QED
      BY <2>1, <3>1, <3>2, <3>4 DEF ChainInv
  <2>3. CASE ~Acts(r)
    <3>1. /\ pc'[r] = pc[r] \/ pc'[r] = "crashed"
          /\ parent_id'[r] = parent_id[r] /\ state'[r] = state[r] /\ mark'[r] = mark[r]
      BY <1>0, <2>3, NextActs, OneCallerActs, CrashActs
    <3>2. Fresh(r)' => Fresh(r)
      BY <3>1 DEF Fresh, Beginning, Upserting
    <3>3. Stepping(r)' => Stepping(r)
      BY <3>1 DEF Stepping
    <3>4. parent_id[r] \in 1..Len(RowsOf(r)) => RowsOf(r)'[parent_id[r]] = RowsOf(r)[parent_id[r]]
      BY <1>1
    <3>5. Stepping(r)' => /\ parent_id'[r] <= Len(RowsOf(r)')
                          /\ CheckpointsOf(r)' = {} \/ IsLastOwn(r, parent_id[r])'
      BY <1>0, <1>1, <1>2, <3>1, <3>3 DEF ChainInv, IsLastOwn
    <3>6. Stepping(r)' /\ parent_id'[r] # 0 =>
            \/ state'[r].step = RowsOf(r)'[parent_id'[r]].state.step
            \/ pc'[r] = "put" /\ state'[r].step = RowsOf(r)'[parent_id'[r]].state.step + 1
      BY <1>0, <3>1, <3>3, <3>4 DEF ChainInv, Stepping
    <3> QED
      BY <1>2, <2>1, <3>1, <3>2, <3>5, <3>6 DEF ChainInv
  <2> QED
    BY <2>2, <2>3
<1>3. CASE /\ pc[r] = "put" /\ Acts(r) /\ Execute(r)
           /\ RowsOf(r)' = Append(RowsOf(r), NewRow(r))
           /\ CheckpointsOf(r)' = CheckpointsOf(r) \cup {Len(RowsOf(r)) + 1}
  <2> DEFINE new == Len(RowsOf(r)) + 1
  <2>1. /\ Len(RowsOf(r)') = new /\ RowsOf(r)'[new] = NewRow(r)
        /\ NewRow(r).parent_id = parent_id[r] /\ NewRow(r).state = state[r]
    BY <1>3, RowsType, AppendProperties DEF NewRow
  <2>2. /\ Stepping(r)
        /\ parent_id[r] <= Len(RowsOf(r))
        /\ CheckpointsOf(r) = {} \/ IsLastOwn(r, parent_id[r])
        /\ parent_id[r] # 0 =>
             \/ state[r].step = RowsOf(r)[parent_id[r]].state.step
             \/ state[r].step = RowsOf(r)[parent_id[r]].state.step + 1
    BY <1>3 DEF Stepping, ChainInv
  <2>3. Chained(r)'
    <3> SUFFICES ASSUME NEW i \in CheckpointsOf(r) \cup {new}
                 PROVE  LET own     == CheckpointsOf(r) \cup {new}
                            earlier == {j \in own : j < i}
                            parent  == RowsOf(r)'[i].parent_id
                        IN  /\ parent < i
                            /\ earlier # {} => \A j \in earlier : parent \in own /\ j <= parent
                            /\ parent # 0 =>
                                 RowsOf(r)'[i].state.step - RowsOf(r)'[parent].state.step \in {0, 1}
      BY <1>3 DEF Chained
    <3>1. CASE i = new
      <4>1. RowsOf(r)'[i].parent_id = parent_id[r] /\ RowsOf(r)'[i].state.step = state[r].step
        BY <2>1, <3>1
      <4>2. parent_id[r] < i
        BY <1>0, <2>2, <3>1
      <4>3. ASSUME NEW j \in CheckpointsOf(r)
            PROVE  parent_id[r] \in CheckpointsOf(r) /\ j <= parent_id[r]
        BY <2>2 DEF IsLastOwn
      <4>4. parent_id[r] # 0 =>
              /\ RowsOf(r)'[parent_id[r]] = RowsOf(r)[parent_id[r]]
              /\ RowsOf(r)[parent_id[r]].state.step \in Nat
        BY <1>0, <1>1, <2>2, RowsType
      <4>5. {j \in CheckpointsOf(r) \cup {new} : j < i} \subseteq CheckpointsOf(r)
        BY <1>0, <3>1
      <4>6. parent_id[r] # 0 =>
              state[r].step - RowsOf(r)'[parent_id[r]].state.step \in {0, 1}
        BY <2>2, <4>4, RowsType
      <4> QED
        BY <4>1, <4>2, <4>3, <4>5, <4>6
    <3>2. CASE i \in CheckpointsOf(r)
      <4>1. i \in 1..Len(RowsOf(r)) /\ RowsOf(r)'[i] = RowsOf(r)[i] /\ i < new
        BY <1>0, <1>1, <3>2
      <4>2. RowsOf(r)[i].parent_id \in Nat /\ RowsOf(r)[i].parent_id < i
        BY <1>0, <3>2, <4>1 DEF ChainInv, Chained
      <4>3. RowsOf(r)[i].parent_id # 0 =>
              RowsOf(r)'[RowsOf(r)[i].parent_id] = RowsOf(r)[RowsOf(r)[i].parent_id]
        BY <1>0, <1>1, <4>1, <4>2
      <4>4. {j \in CheckpointsOf(r) \cup {new} : j < i} = {j \in CheckpointsOf(r) : j < i}
        BY <1>0, <4>1
      <4> QED
        BY <3>2, <4>1, <4>2, <4>3, <4>4 DEF ChainInv, Chained
    <3> QED
      BY <3>1, <3>2
  <2>4. ~Fresh(r)'
    BY <1>3, FreshBefore
  <2>5. ASSUME Stepping(r)'
        PROVE  /\ parent_id'[r] = new
               /\ state'[r].step = RowsOf(r)'[new].state.step
    <3>1. Put(r)
      BY <1>3, <2>5, LoopLabels
      DEF Stepping, Resume, PublishStepEnd, CheckKill, PublishStepStart, Step
    <3>2. parent_id'[r] = new /\ state' = state
      BY <1>0, <3>1 DEF Put, NextId, RowsOf, LocalsOK
    <3> QED
      BY <2>1, <3>2
  <2>6. new \in CheckpointsOf(r)' /\ \A j \in CheckpointsOf(r)' : j <= new
    BY <1>0, <1>3
  <2>7. Stepping(r)' => /\ parent_id'[r] <= Len(RowsOf(r)')
                        /\ IsLastOwn(r, parent_id[r])'
                        /\ state'[r].step = RowsOf(r)'[parent_id'[r]].state.step
    BY <1>0, <2>1, <2>5, <2>6 DEF IsLastOwn
  <2> QED
    BY <2>3, <2>4, <2>7 DEF ChainInv
<1> QED
  BY <1>2, <1>3, CheckpointsAfter

(***************************************************************************)
(* The checkpoints of an invocation form a chain (CheckpointChain),        *)
(* whoever else writes to the thread in between.                           *)
(***************************************************************************)
THEOREM CheckpointsFormChains == Spec => []CheckpointChain
<1>1. Init => \A r \in Requests : ChainInv(r)
  <2> SUFFICES ASSUME Init, NEW r \in Requests PROVE ChainInv(r)
    OBVIOUS
  <2>1. CheckpointsOf(r) = {} /\ ~Stepping(r)
    BY DEF Init, CheckpointsInit, CheckpointsOf, Stepping, Callers
  <2> QED
    BY <2>1 DEF ChainInv, Chained
<1>2. TypeInv /\ TypeInv' /\ OwnInput /\ (\A r \in Requests : ChainInv(r)) /\ [Next]_vars
        => (\A r \in Requests : ChainInv(r))'
  BY ChainStep
<1>3. (\A r \in Requests : ChainInv(r)) => CheckpointChain
  BY DEF ChainInv, Chained, RowsOf, CheckpointChain
<1> QED
  BY <1>1, <1>2, <1>3, TypeInvariance, OwnInputInvariance, PTL DEF Spec

------------------------------------------------------------------------------
(***************************************************************************)
(* Clients that wait for their answers: of two requests of one thread at   *)
(* most one is running.                                                    *)
(***************************************************************************)
Alone ==
  \A q, r \in Requests : q # r /\ tid[q] = tid[r] => ~(Running(q) /\ Running(r))

LEMMA RunningBefore ==
  ASSUME TypeInv, [Next]_vars, NEW r \in Requests, Running(r)'
  PROVE  Running(r) \/ Invoke(r)
<1>0. r \in Callers /\ r \notin Killers
  BY SupervisorAssumption DEF Callers
<1>1. Acts(r) => Running(r) \/ Invoke(r)
  BY <1>0 DEF Acts, Arrive, Advance, AdvanceInvoke, Audit, PublishStart,
       Resume, CheckKill, PublishKilled, PublishStepStart, Step, Put,
       PublishStepEnd, PublishFailure, Record, PublishEnd,
       Lookup, Select, Write, Conflict, Raise, Cancel, Running, Awaits, EventTypes
<1>2. ~Acts(r) => pc'[r] = pc[r] \/ pc'[r] = "crashed"
  BY <1>0, NextActs, OneCallerActs, CrashActs
<1> QED
  BY <1>1, <1>2 DEF Running, Awaits, EventTypes

LEMMA AloneStep ==
  ASSUME ~Overlap, TypeInv, Alone, [Next]_vars
  PROVE  Alone'
<1> SUFFICES ASSUME NEW q \in Requests, NEW r \in Requests, q # r,
                    tid[q] = tid[r], Running(q)', Running(r)'
             PROVE  FALSE
  BY TidStays DEF Alone
<1>1. ASSUME NEW x \in {q, r}, NEW y \in {q, r} \ {x}, Invoke(x)
      PROVE  FALSE
  <2>1. ~Running(y)
    BY <1>1 DEF Invoke
  <2>2. pc'[y] = pc[y]
    <3>1. Acts(x) /\ x \in Callers /\ y \in Callers \ {x}
      BY <1>1 DEF Acts, Arrive, Callers
    <3> QED
      BY <3>1, OneCallerActs
  <2> QED
    BY <2>1, <2>2 DEF Running
<1> QED
  BY <1>1, RunningBefore DEF Alone

(***************************************************************************)
(* While an invocation steps, its parent_id is the latest row of its       *)
(* thread.                                                                 *)
(***************************************************************************)
LineInv ==
  /\ LinearHistory
  /\ \A r \in Requests : Stepping(r) => parent_id[r] = Len(RowsOf(r))

LEMMA LineStep ==
  ASSUME TypeInv, OwnInput, Alone, LineInv, [Next]_vars
  PROVE  LineInv'
<1>0. LocalsOK /\ TablesOK /\ tid' = tid
  BY TypeSplit, TidStays DEF TypeInv
<1>1. ASSUME NEW t \in Threads, NEW i \in 1..Len(langgraph_checkpoints'[t])
      PROVE  langgraph_checkpoints'[t][i].parent_id = i - 1
  <2>1. CASE langgraph_checkpoints'[t] = langgraph_checkpoints[t]
    BY <1>1, <2>1 DEF LineInv, LinearHistory
  <2>2. ASSUME NEW c \in Requests, pc[c] = "put", tid[c] = t,
               langgraph_checkpoints'[t] = Append(langgraph_checkpoints[t], NewRow(c))
        PROVE  langgraph_checkpoints'[t][i].parent_id = i - 1
    <3> DEFINE rows == langgraph_checkpoints[t]
    <3>1. rows \in Seq(Checkpoint) /\ NewRow(c) \in Checkpoint /\ Len(rows) \in Nat
      BY <2>2, RowsType DEF RowsOf
    <3>2. parent_id[c] = Len(rows)
      BY <2>2 DEF LineInv, Stepping, RowsOf
    <3>3. /\ Len(langgraph_checkpoints'[t]) = Len(rows) + 1
          /\ langgraph_checkpoints'[t][Len(rows) + 1] = NewRow(c)
          /\ \A j \in 1..Len(rows) : langgraph_checkpoints'[t][j] = rows[j]
      BY <2>2, <3>1, AppendProperties
    <3>4. CASE i = Len(rows) + 1
      BY <3>1, <3>2, <3>3, <3>4 DEF NewRow
    <3>5. CASE i \in 1..Len(rows)
      BY <3>3, <3>5 DEF LineInv, LinearHistory
    <3> QED
      BY <1>1, <3>1, <3>3, <3>4, <3>5
  <2> QED
    BY <2>1, <2>2, RowsAfter
<1>2. ASSUME NEW r \in Requests, Stepping(r)'
      PROVE  parent_id'[r] = Len(RowsOf(r)')
  <2>0. r \in Callers /\ tid[r] \in Threads /\ RowsOf(r) \in Seq(Checkpoint)
    BY RowsType DEF Callers
  <2>1. CASE Acts(r)
    <3>1. CASE Put(r)
      <4>1. pc[r] = "put" /\ Execute(r) /\ parent_id'[r] = Len(RowsOf(r)) + 1
        BY <1>0, <3>1 DEF Put, NextId, RowsOf, LocalsOK
      <4>2. RowsOf(r)' = Append(RowsOf(r), NewRow(r)) /\ NewRow(r) \in Checkpoint
        BY <4>1, PutAdds, RowsType
      <4> QED
        BY <2>0, <4>1, <4>2, AppendProperties
    <3>2. ASSUME Resume(r) \/ CheckKill(r) \/ PublishStepStart(r) \/ Step(r) \/ PublishStepEnd(r)
          PROVE  RowsOf(r)' = RowsOf(r) /\ pc[r] # "put"
      <4>1. Execute(r) /\ pc[r] # "put"
        BY <3>2 DEF Resume, CheckKill, PublishStepStart, Step, PublishStepEnd, Pass
      <4> QED
        BY <1>0, <2>0, <4>1, Effects DEF RowsOf
    <3>3. CASE Resume(r)
      BY <3>2, <3>3, ResumedStep
    <3>4. CASE CheckKill(r) \/ PublishStepStart(r) \/ Step(r) \/ PublishStepEnd(r)
      <4>1. parent_id' = parent_id /\ Stepping(r)
        BY <3>4 DEF CheckKill, PublishStepStart, Step, PublishStepEnd, Pass, progress, Stepping
      <4> QED
        BY <3>2, <3>4, <4>1 DEF LineInv
    <3> QED
      BY <1>2, <2>1, <3>1, <3>3, <3>4, LoopLabels DEF Stepping
  <2>2. CASE ~Acts(r)
    <3>1. parent_id'[r] = parent_id[r] /\ (pc'[r] = pc[r] \/ pc'[r] = "crashed")
      BY <2>0, <2>2, NextActs, OneCallerActs, CrashActs
    <3>2. Stepping(r) /\ Running(r)
      BY <1>2, <3>1 DEF Stepping, Running, Awaits, EventTypes
    <3>3. ASSUME NEW c \in Requests, pc[c] = "put", tid[c] = tid[r], Acts(c)
          PROVE  FALSE
      <4>1. Running(c) /\ c # r
        BY <2>2, <3>3 DEF Running, Awaits, EventTypes
      <4> QED
        BY <3>2, <3>3, <4>1 DEF Alone
    <3>4. RowsOf(r)' = RowsOf(r)
      BY <1>0, <2>0, <3>3, RowsAfter DEF RowsOf
    <3> QED
      BY <3>1, <3>2, <3>4 DEF LineInv
  <2> QED
    BY <2>1, <2>2
<1> QED
  BY <1>1, <1>2 DEF LineInv, LinearHistory

LEMMA AloneInvariance ==
  ASSUME ~Overlap
  PROVE  Spec => []Alone
<1>1. Init => Alone
  BY DEF Init, Alone, Running, Awaits, EventTypes, Callers
<1>2. TypeInv /\ Alone /\ [Next]_vars => Alone'
  BY AloneStep
<1> QED
  BY <1>1, <1>2, TypeInvariance, PTL DEF Spec

(***************************************************************************)
(* When clients wait for their answers, the checkpoints of every thread    *)
(* form one line (LinearHistory), crashes and failures included.           *)
(***************************************************************************)
THEOREM PatientClientsKeepOneLine ==
  ASSUME ~Overlap
  PROVE  Spec => []LinearHistory
<1>1. Init => LineInv
  BY DEF Init, CheckpointsInit, LineInv, LinearHistory, Stepping, Callers
<1>2. TypeInv /\ OwnInput /\ Alone /\ LineInv /\ [Next]_vars => LineInv'
  BY LineStep
<1>3. LineInv => LinearHistory
  BY DEF LineInv
<1> QED
  BY <1>1, <1>2, <1>3, TypeInvariance, OwnInputInvariance, AloneInvariance, PTL DEF Spec

------------------------------------------------------------------------------
(***************************************************************************)
(* The flag of a killed thread.  From its check of the flag to its write   *)
(* of the status, an invocation that is being killed finds the flag up:    *)
(* only calls of /agent/kill write to the row meanwhile, and they raise it.*)
(***************************************************************************)
Killing(r) == pc[r] = "agent.invoke.killed" \/ (pc[r] = "select" /\ mark[r] = "killed")

StayInv ==
  /\ KilledStaysKilled
  /\ \A r \in Requests :
       /\ Killing(r) => KillRequested(tid[r])
       /\ pc[r] = "write" /\ mark[r] = "killed" =>
            existing[r] # NoRow /\ existing[r].kill_requested

LEMMA KillingLabels ==
  ASSUME TypeInv, NEW r \in Requests, Acts(r)
  PROVE  /\ Killing(r)' => (CheckKill(r) /\ KillRequested(tid[r])) \/ PublishKilled(r)
         /\ pc'[r] = "write" => Select(r)
<1>0. LocalsOK /\ r \in Callers
  BY TypeSplit DEF TypeInv, Callers
<1>1. CASE Arrive(r) \/ Audit(r) \/ Lookup(r) \/ Fails(r) \/ Record(r) \/ PublishFailure(r)
           \/ PublishEnd(r)
  <2>1. \/ pc'[r] = "select" /\ mark'[r] # "killed"
        \/ pc'[r] \in {"audit", "lookup", "record", "returned", "rejected", "raised"}
    BY <1>0, <1>1 DEF Arrive, Invoke, Kill, Audit, Lookup, Fails, Conflict, Raise, Cancel,
         Unwind, Uncaught, CallUpsert, Record, PublishFailure, PublishEnd, Pass, Goto, LocalsOK
  <2> QED
    BY <2>1 DEF Killing
<1>2. CASE PublishStart(r) \/ Resume(r) \/ PublishStepStart(r) \/ Step(r) \/ Put(r)
           \/ PublishStepEnd(r)
  <2>1. pc'[r] \in {"get_latest", "is_kill_requested", "record", "step", "put",
                    "agent.step.end"}
    BY <1>0, <1>2 DEF PublishStart, Resume, PublishStepStart, Step, Put, PublishStepEnd,
         EnterRound, Pass, Goto, LocalsOK
  <2> QED
    BY <2>1 DEF Killing
<1>3. CASE Write(r)
  <2>1. pc'[r] = AfterUpsert[mark[r]] /\ mark[r] \in Statuses
    BY <1>0, <1>3 DEF Write, Goto, LocalsOK
  <2> QED
    BY <2>1 DEF Statuses, AfterUpsert, Killing
<1>4. CASE Select(r)
  BY <1>0, <1>4 DEF Select, Goto, LocalsOK, Killing
<1>5. CASE CheckKill(r)
  BY <1>0, <1>5 DEF CheckKill, Goto, LocalsOK, Killing
<1>6. CASE PublishKilled(r)
  BY <1>0, <1>6 DEF PublishKilled, CallUpsert, Goto, LocalsOK
<1> QED
  BY <1>1, <1>2, <1>3, <1>4, <1>5, <1>6 DEF Acts, Fails, Advance, AdvanceInvoke

LEMMA StayStep ==
  ASSUME TypeInv, Alone, StayInv, [Next]_vars
  PROVE  StayInv'
<1>0. LocalsOK /\ tid' = tid /\ \A c \in Callers : tid[c] \in Threads
  BY TypeSplit, TidStays DEF TypeInv, LocalsOK
<1>1. ASSUME NEW t \in Threads, agent_thread_state'[t] # NoRow,
             agent_thread_state'[t].status = "killed"
      PROVE  KillRequested(t)'
  <2>1. CASE agent_thread_state'[t] = agent_thread_state[t]
    BY <1>1, <2>1 DEF StayInv, KilledStaysKilled, KillRequested
  <2>2. ASSUME NEW c \in Callers, pc[c] = "write",
               agent_thread_state'[t] = Written(existing[c], mark[c])
        PROVE  KillRequested(t)'
    <3>1. mark[c] = "killed"
      BY <1>1, <2>2 DEF Written
    <3>2. c \in Requests
      BY <2>2, <3>1 DEF TypeInv, KillersOK, Callers
    <3> QED
      BY <1>1, <2>2, <3>1, <3>2 DEF StayInv, Written, KillRequested
  <2> QED
    BY <2>1, <2>2, RowAfter
<1>2. ASSUME NEW r \in Requests, Running(r), pc[r] # "write", KillRequested(tid[r])
      PROVE  KillRequested(tid[r])'
  <2>1. CASE agent_thread_state'[tid[r]] = agent_thread_state[tid[r]]
    BY <1>0, <1>2, <2>1 DEF KillRequested
  <2>2. ASSUME NEW c \in Callers, pc[c] = "write", tid[c] = tid[r],
               agent_thread_state'[tid[r]] = Written(existing[c], mark[c])
        PROVE  KillRequested(tid[r])'
    <3>1. c \notin Requests
      BY <1>2, <2>2 DEF Alone, Running, Awaits, EventTypes
    <3>2. mark[c] = "kill_requested"
      BY <2>2, <3>1 DEF TypeInv, KillersOK, Callers
    <3>3. Written(existing[c], mark[c]) # NoRow /\ Written(existing[c], mark[c]).kill_requested
      <4>1. Written(existing[c], mark[c]) \in Row
        BY <1>0, WrittenIsRow DEF LocalsOK
      <4> QED
        BY <3>2, <4>1, NoRowIsNoRow DEF Written
    <3> QED
      BY <1>0, <2>2, <3>3 DEF KillRequested
  <2> QED
    BY <1>0, <2>1, <2>2, RowAfter DEF Callers
<1>3. ASSUME NEW r \in Requests, Killing(r)'
      PROVE  KillRequested(tid[r])'
  <2>1. CASE Acts(r)
    <3>1. CASE CheckKill(r) /\ KillRequested(tid[r])
      BY <1>2, <3>1 DEF CheckKill, Running, Awaits
    <3>2. CASE PublishKilled(r)
      BY <1>2, <3>2 DEF PublishKilled, StayInv, Killing, Running, Awaits, EventTypes
    <3> QED
      BY <1>3, <2>1, <3>1, <3>2, KillingLabels
  <2>2. CASE ~Acts(r)
    <3>1. mark'[r] = mark[r] /\ (pc'[r] = pc[r] \/ pc'[r] = "crashed")
      BY <2>2, NextActs, OneCallerActs, CrashActs DEF Callers
    <3>2. Killing(r)
      BY <1>3, <3>1 DEF Killing
    <3> QED
      BY <1>2, <3>2 DEF StayInv, Killing, Running, Awaits, EventTypes
  <2> QED
    BY <2>1, <2>2
<1>4. ASSUME NEW r \in Requests, pc'[r] = "write", mark'[r] = "killed"
      PROVE  existing'[r] # NoRow /\ existing'[r].kill_requested
  <2>1. CASE Acts(r)
    <3>1. Select(r)
      BY <1>4, <2>1, KillingLabels
    <3>2. pc[r] = "select" /\ mark[r] = "killed" /\ existing'[r] = agent_thread_state[tid[r]]
      BY <1>0, <1>4, <3>1 DEF Select, LocalsOK, Callers
    <3> QED
      BY <3>2 DEF StayInv, Killing, KillRequested
  <2>2. CASE ~Acts(r)
    <3>1. \/ mark'[r] = mark[r] /\ pc'[r] = pc[r] /\ existing'[r] = existing[r]
          \/ pc'[r] = "crashed"
          \/ Crash /\ ~Running(r) /\ pc'[r] = pc[r]
      BY <2>2, NextActs, OneCallerActs, CrashActs DEF Callers
    <3> QED
      BY <1>4, <3>1 DEF StayInv, Running, Awaits
  <2> QED
    BY <2>1, <2>2
<1> QED
  BY <1>1, <1>3, <1>4 DEF StayInv, KilledStaysKilled

(***************************************************************************)
(* When clients wait for their answers, a killed thread stays killed       *)
(* (KilledStaysKilled), although kills run between the SELECT and the      *)
(* write of the invocation.                                                *)
(***************************************************************************)
THEOREM PatientClientsStayKilled ==
  ASSUME ~Overlap
  PROVE  Spec => []KilledStaysKilled
<1>1. Init => StayInv
  BY DEF Init, ThreadStateInit, StayInv, KilledStaysKilled, Killing, Callers
<1>2. TypeInv /\ Alone /\ StayInv /\ [Next]_vars => StayInv'
  BY StayStep
<1>3. StayInv => KilledStaysKilled
  BY DEF StayInv
<1> QED
  BY <1>1, <1>2, <1>3, TypeInvariance, AloneInvariance, PTL DEF Spec

------------------------------------------------------------------------------
(***************************************************************************)
(* What a kill does to the invocations of its thread.                      *)
(***************************************************************************)

(***************************************************************************)
(* Only a check of the flag that finds it down leads to the next step, and *)
(* only its announcement to its beginning.                                 *)
(***************************************************************************)
LEMMA StepNeedsCheck ==
  ASSUME TypeInv, [Next]_vars, NEW r \in Requests
  PROVE  /\ pc'[r] = "agent.step.start" =>
              \/ pc[r] = "agent.step.start"
              \/ pc[r] = "is_kill_requested" /\ ~KillRequested(tid[r])
         /\ pc'[r] = "step" => pc[r] \in {"step", "agent.step.start"}
<1>0. LocalsOK /\ r \in Callers
  BY TypeSplit DEF TypeInv, Callers
<1>1. CASE pc'[r] = pc[r]
  BY <1>1
<1>2. ASSUME NEW c \in Callers, c # r,
             Arrive(c) \/ Advance(c) \/ Raise(c) \/ Cancel(c)
      PROVE  pc'[r] = pc[r]
  <2>1. \E l : Goto(c, l)
    BY <1>2 DEF Arrive, Invoke, Kill, Advance, AdvanceInvoke, Audit, PublishStart,
         Resume, EnterRound, CheckKill, PublishKilled, PublishStepStart, Step, Put,
         PublishStepEnd, PublishFailure, Record, PublishEnd, Pass, CallUpsert,
         Lookup, Select, Write, Conflict, Raise, Cancel, Unwind
  <2> QED
    BY <1>0, <1>2, <2>1 DEF Goto, LocalsOK
<1>3. ASSUME Arrive(r) \/ Lookup(r) \/ Select(r) \/ Conflict(r) \/ Raise(r) \/ Cancel(r)
      PROVE  pc'[r] \notin {"agent.step.start", "step"}
  <2>1. \E l \in {"audit", "lookup", "select", "write", "record", "rejected", "raised"} :
          Goto(r, l)
    BY <1>3 DEF Arrive, Invoke, Kill, CallUpsert, Lookup, Select, Conflict, Raise,
         Cancel, Unwind, Uncaught
  <2> QED
    BY <1>0, <2>1 DEF Goto, LocalsOK
<1>4. ASSUME Write(r)
      PROVE  pc'[r] \notin {"agent.step.start", "step"}
  BY <1>0, <1>4 DEF Write, Goto, LocalsOK, Statuses, AfterUpsert
<1>5. ASSUME AdvanceInvoke(r), ~CheckKill(r), ~PublishStepStart(r)
      PROVE  pc'[r] \notin {"agent.step.start", "step"}
  <2>1. \E l \in {"select", "get_latest", "is_kill_requested", "put", "agent.step.end",
                  "record", "returned", "raised"} : Goto(r, l)
    BY <1>5 DEF AdvanceInvoke, Audit, PublishStart, Resume, EnterRound, PublishKilled,
         Step, Put, PublishStepEnd, PublishFailure, Record, PublishEnd, Pass, CallUpsert
  <2> QED
    BY <1>0, <2>1 DEF Goto, LocalsOK
<1>6. ASSUME CheckKill(r)
      PROVE  /\ pc[r] = "is_kill_requested"
             /\ pc'[r] # "step"
             /\ pc'[r] = "agent.step.start" => ~KillRequested(tid[r])
  BY <1>0, <1>6 DEF CheckKill, Goto, LocalsOK
<1>7. ASSUME PublishStepStart(r)
      PROVE  pc[r] = "agent.step.start" /\ pc'[r] = "step"
  BY <1>0, <1>7 DEF PublishStepStart, Pass, Goto, LocalsOK
<1>8. CASE Crash
  BY <1>0, <1>8 DEF Crash
<1>9. CASE SetGraph \/ UNCHANGED vars
  BY <1>1, <1>9 DEF SetGraph, vars
<1> QED
  BY <1>1, <1>2, <1>3, <1>4, <1>5, <1>6, <1>7, <1>8, <1>9 DEF Next, Advance, Terminating

LEMMA HistoryTypes == HistorySpec => []TypeInv
<1>1. HistoryInit => TypeInv
  BY TypeInit DEF HistoryInit
<1>2. TypeInv /\ [HistoryNext]_historyVars => TypeInv'
  BY TypeStep DEF HistoryNext, historyVars
<1> QED
  BY <1>1, <1>2, PTL DEF HistorySpec

------------------------------------------------------------------------------
(***************************************************************************)
(* A request that has begun a step under the raised flag does not await    *)
(* the announcement of another.                                            *)
(***************************************************************************)
OverrunInv ==
  /\ overrun \in [Requests -> {0, 1}]
  /\ \A r \in Requests : overrun[r] = 1 => pc[r] # "agent.step.start"

LEMMA OverrunStep ==
  ASSUME TypeInv, OverrunInv, [HistoryNext]_historyVars
  PROVE  OverrunInv'
<1>1. CASE UNCHANGED historyVars
  <2>1. overrun' = overrun /\ pc' = pc
    BY <1>1 DEF historyVars, vars
  <2> QED
    BY <2>1 DEF OverrunInv
<1>2. CASE HistoryNext
  <2>1. [Next]_vars
    BY <1>2 DEF HistoryNext
  <2>2. ASSUME NEW r \in Requests
        PROVE  /\ overrun'[r] \in {0, 1}
               /\ overrun'[r] = 1 => pc'[r] # "agent.step.start"
    <3>1. /\ ~KillRequested(tid[r]) => overrun'[r] = 0
          /\ KillRequested(tid[r]) /\ BeginsStep(r) => overrun'[r] = overrun[r] + 1
          /\ KillRequested(tid[r]) /\ ~BeginsStep(r) => overrun'[r] = overrun[r]
      BY <1>2 DEF HistoryNext
    <3>2. CASE ~KillRequested(tid[r])
      BY <3>1, <3>2
    <3>3. CASE KillRequested(tid[r]) /\ BeginsStep(r)
      <4>1. overrun[r] = 0
        BY <3>3 DEF OverrunInv, BeginsStep
      <4> QED
        BY <3>1, <3>3, <4>1 DEF BeginsStep
    <3>4. CASE KillRequested(tid[r]) /\ ~BeginsStep(r)
      <4>1. overrun'[r] = overrun[r]
        BY <3>1, <3>4
      <4> QED
        BY <2>1, <3>4, <4>1, StepNeedsCheck DEF OverrunInv
    <3> QED
      BY <3>2, <3>3, <3>4
  <2>3. overrun' \in [Requests -> {0, 1}]
    <3>1. overrun' = [r \in Requests |-> overrun'[r]]
      BY <1>2 DEF HistoryNext
    <3> QED
      BY <2>2, <3>1
  <2> QED
    BY <2>2, <2>3 DEF OverrunInv
<1> QED
  BY <1>1, <1>2

(***************************************************************************)
(* While the flag of its thread is up an invocation begins one step at     *)
(* most (KillStopsWithinOneStep).                                          *)
(***************************************************************************)
THEOREM KillStopsInvocations == HistorySpec => []KillStopsWithinOneStep
<1>1. HistoryInit => OverrunInv
  BY DEF HistoryInit, OverrunInv
<1>2. TypeInv /\ OverrunInv /\ [HistoryNext]_historyVars => OverrunInv'
  BY OverrunStep
<1>3. OverrunInv => KillStopsWithinOneStep
  BY DEF OverrunInv, KillStopsWithinOneStep
<1> QED
  BY <1>1, <1>2, <1>3, HistoryTypes, PTL DEF HistorySpec

------------------------------------------------------------------------------
(***************************************************************************)
(* A settled kill stays settled: a call that writes saw the flag, or no    *)
(* row, and then its INSERT meets the row of the kill.                     *)
(***************************************************************************)
LEMMA ExecuteRow ==
  ASSUME NEW c \in Callers, Execute(c) \/ UNCHANGED tables
  PROVE  \/ agent_thread_state' = agent_thread_state
         \/ pc[c] = "write" /\ Upsert(tid[c], existing[c], mark[c])
  BY DEF Execute, tables

LEMMA RowOnlyWritten ==
  ASSUME TypeInv, [Next]_vars
  PROVE  \/ agent_thread_state' = agent_thread_state
         \/ \E c \in Callers :
              pc[c] = "write" /\ Upsert(tid[c], existing[c], mark[c])
<1>1. ASSUME NEW c \in Callers, Arrive(c) \/ Advance(c) \/ Raise(c) \/ Cancel(c)
      PROVE  Execute(c) \/ UNCHANGED tables
  BY <1>1 DEF Arrive, Invoke, Kill, Advance, AdvanceInvoke, Audit, PublishStart,
       Resume, EnterRound, CheckKill, PublishKilled, PublishStepStart, Step, Put,
       PublishStepEnd, PublishFailure, Record, PublishEnd, Pass,
       Lookup, Select, Write, Conflict, Raise, Cancel
<1> QED
  BY <1>1, ExecuteRow DEF Next, Crash, SetGraph, Terminating, vars, tables

LEMMA WriteFollowsSelect ==
  ASSUME TypeInv, [Next]_vars, NEW c \in Callers, pc'[c] = "write"
  PROVE  \/ pc[c] = "write" /\ existing'[c] = existing[c]
         \/ existing'[c] = agent_thread_state[tid[c]]
<1>0. LocalsOK
  BY TypeSplit DEF TypeInv
<1>1. ASSUME NEW d \in Callers, d # c,
             Arrive(d) \/ Advance(d) \/ Raise(d) \/ Cancel(d)
      PROVE  pc'[c] = pc[c] /\ existing'[c] = existing[c]
  <2>1. /\ \E l : Goto(d, l)
        /\ \/ existing' = existing
           \/ \E e : existing' = [existing EXCEPT ![d] = e]
    BY <1>1 DEF Arrive, Invoke, Kill, Advance, AdvanceInvoke, Audit, PublishStart,
         Resume, EnterRound, CheckKill, PublishKilled, PublishStepStart, Step, Put,
         PublishStepEnd, PublishFailure, Record, PublishEnd, Pass, CallUpsert,
         Lookup, Select, Write, Conflict, Raise, Cancel, Unwind
  <2> QED
    BY <1>0, <1>1, <2>1 DEF Goto, LocalsOK
<1>2. ASSUME Arrive(c) \/ Lookup(c) \/ Write(c) \/ Conflict(c) \/ Raise(c) \/ Cancel(c)
      PROVE  FALSE
  <2>1. \E l \in {"audit", "lookup", "select", "record", "rejected", "raised",
                  AfterUpsert[mark[c]]} : Goto(c, l)
    BY <1>2 DEF Arrive, Invoke, Kill, CallUpsert, Lookup, Write, Conflict, Raise,
         Cancel, Unwind, Uncaught
  <2>2. AfterUpsert[mark[c]] # "write"
    BY <1>0 DEF LocalsOK, Statuses, AfterUpsert
  <2> QED
    BY <1>0, <2>1, <2>2 DEF Goto, LocalsOK
<1>3. CASE Select(c)
  BY <1>0, <1>3 DEF Select, LocalsOK
<1>4. ASSUME AdvanceInvoke(c)
      PROVE  FALSE
  <2>1. \E l \in {"select", "get_latest", "is_kill_requested", "agent.invoke.killed",
                  "agent.step.start", "step", "put", "agent.step.end",
                  "record", "returned", "raised"} : Goto(c, l)
    BY <1>4 DEF AdvanceInvoke, Audit, PublishStart, Resume, EnterRound, CheckKill,
         PublishKilled, PublishStepStart, Step, Put, PublishStepEnd, PublishFailure,
         Record, PublishEnd, Pass, CallUpsert
  <2> QED
    BY <1>0, <2>1 DEF Goto, LocalsOK
<1>5. CASE Crash
  BY <1>0, <1>5 DEF Crash, Running, Awaits
<1>6. CASE SetGraph \/ UNCHANGED vars
  BY <1>6 DEF SetGraph, vars
<1> QED
  BY <1>1, <1>2, <1>3, <1>4, <1>5, <1>6 DEF Next, Advance, Terminating

LEMMA SettledStays ==
  ASSUME TypeInv, [Next]_vars, tid' = tid, NEW t \in Threads, KillSettled(t)
  PROVE  KillSettled(t)'
<1>0. LocalsOK /\ TablesOK
  BY TypeSplit DEF TypeInv
<1>1. KillRequested(t)'
  <2>1. CASE agent_thread_state' = agent_thread_state
    BY <2>1 DEF KillSettled, KillRequested
  <2>2. ASSUME NEW c \in Callers, pc[c] = "write", Upsert(tid[c], existing[c], mark[c])
        PROVE  KillRequested(t)'
    <3>1. CASE tid[c] # t
      BY <1>0, <2>2, <3>1
         DEF Upsert, KillSettled, KillRequested, TablesOK, ThreadStateTypeOK
    <3>2. CASE tid[c] = t
      <4>1. existing[c] # NoRow /\ existing[c].kill_requested
        BY <2>2, <3>2 DEF Upsert, InsertConflicts, KillSettled, KillRequested
      <4>2. Written(existing[c], mark[c]) \in Row
        BY <1>0, WrittenIsRow DEF LocalsOK
      <4>3. Written(existing[c], mark[c]).kill_requested
        BY <4>1 DEF Written
      <4>4. agent_thread_state'[t] = Written(existing[c], mark[c])
        BY <1>0, <2>2, <3>2 DEF Upsert, TablesOK, ThreadStateTypeOK
      <4> QED
        BY <4>2, <4>3, <4>4, NoRowIsNoRow DEF KillRequested
    <3> QED
      BY <3>1, <3>2
  <2> QED
    BY <2>1, <2>2, RowOnlyWritten
<1>2. ASSUME NEW c \in Callers, pc'[c] = "write", tid'[c] = t
      PROVE  existing'[c] = NoRow \/ existing'[c].kill_requested
  BY <1>2, WriteFollowsSelect DEF KillSettled, KillRequested
<1> QED
  BY <1>1, <1>2 DEF KillSettled

(***************************************************************************)
(* A request that was warned announces no step, and does not await one's   *)
(* announcement: its kill is settled whenever it looks at the flag.        *)
(***************************************************************************)
WarnedInv ==
  /\ forewarned \subseteq Requests
  /\ \A r \in Requests :
       /\ pc[r] = "idle" => ~Announced(r, "agent.step.start")
       /\ r \in forewarned =>
            /\ KillSettled(tid[r])
            /\ pc[r] # "agent.step.start"
            /\ ~Announced(r, "agent.step.start")

LEMMA WarnedStep ==
  ASSUME TypeInv, WarnedInv, [HistoryNext]_historyVars
  PROVE  WarnedInv'
<1>1. [Next]_vars /\ tid' = tid
  BY TidStays DEF HistoryNext, historyVars
<1>2. ASSUME NEW r \in Requests
      PROVE  /\ pc'[r] = "idle" => ~Announced(r, "agent.step.start")'
             /\ r \in forewarned' =>
                  /\ KillSettled(tid[r])'
                  /\ pc'[r] # "agent.step.start"
                  /\ ~Announced(r, "agent.step.start")'
  <2>0. /\ r \in Callers /\ tid[r] \in Threads
        /\ "agent.step.start" \in EventTypes
    BY TypeSplit DEF TypeInv, LocalsOK, Callers, EventTypes
  <2>1. pc'[r] = "idle" => ~Announced(r, "agent.step.start")'
    BY <1>1, <2>0, NobodyTurnsIdle, AnnouncedByAwaiting DEF WarnedInv
  <2>2. CASE r \in forewarned
    <3>1. KillSettled(tid[r]) /\ pc[r] # "agent.step.start" /\ ~Announced(r, "agent.step.start")
      BY <2>2 DEF WarnedInv
    <3>2. KillRequested(tid[r])
      BY <3>1 DEF KillSettled
    <3> QED
      BY <1>1, <2>0, <2>1, <3>1, <3>2, SettledStays, StepNeedsCheck, AnnouncedByAwaiting
  <2>3. CASE r \notin forewarned /\ r \in forewarned'
    <3>1. Arrives(r) /\ KillSettled(tid[r])
      BY <2>3 DEF HistoryNext, historyVars
    <3>2. ~Announced(r, "agent.step.start")
      BY <3>1 DEF Arrives, WarnedInv
    <3>3. pc'[r] = "audit" /\ pc[r] = "idle"
      BY <3>1 DEF Arrives
    <3> QED
      BY <1>1, <2>0, <2>1, <3>1, <3>2, <3>3, SettledStays, AnnouncedByAwaiting
  <2> QED
    BY <2>1, <2>2, <2>3
<1>3. forewarned' \subseteq Requests
  BY DEF HistoryNext, historyVars, WarnedInv
<1> QED
  BY <1>1, <1>2, <1>3 DEF WarnedInv

(***************************************************************************)
(* An invocation that arrives after a kill has settled begins no step      *)
(* (PreemptiveKillIsObserved).                                             *)
(***************************************************************************)
THEOREM KillsAreObserved == HistorySpec => []PreemptiveKillIsObserved
<1>1. HistoryInit => WarnedInv
  BY DEF HistoryInit, Init, WarnedInv, Announced
<1>2. TypeInv /\ WarnedInv /\ [HistoryNext]_historyVars => WarnedInv'
  BY WarnedStep
<1>3. WarnedInv => PreemptiveKillIsObserved
  BY DEF WarnedInv, PreemptiveKillIsObserved
<1> QED
  BY <1>1, <1>2, <1>3, HistoryTypes, PTL DEF HistorySpec

==============================================================================

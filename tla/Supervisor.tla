------------------------------ MODULE Supervisor ------------------------------
(***************************************************************************)
(* Supervisor.invoke (app/agent/runtime.py) and the handlers of            *)
(* /agent/invoke and /agent/kill that call it and request_kill             *)
(* (app/api/app.py): concurrent coroutines of one process over the four    *)
(* tables and the event bus.                                               *)
(*                                                                         *)
(* Every statement, publication and graph step is awaited, so each is one  *)
(* action, and other coroutines run in between.  pc[c] names what caller c *)
(* awaits; where that is a publication, it is the type of the event.       *)
(* The tables outlive a crash of the process, the coroutines do not.       *)
(***************************************************************************)
EXTENDS ThreadState, Naturals, Sequences, FiniteSets

CONSTANTS
  Requests,    \* the calls of /agent/invoke
  Killers,     \* the calls of /agent/kill
  MaxSteps,    \* max_steps of the Supervisor
  Graphs,      \* the step functions that may be installed
  Overlap,     \* may clients call a thread while a call on it is running?
  Faults       \* what may go wrong

FaultKinds == {"database", "bus", "step", "cancel", "crash"}

ASSUME SupervisorAssumption ==
  /\ Requests \cap Killers = {}
  /\ MaxSteps \in Nat
  /\ Graphs \subseteq {"default", "custom"}
  /\ Overlap \in BOOLEAN
  /\ Faults \subseteq FaultKinds

Callers == Requests \cup Killers

VARIABLES
  langgraph_checkpoints,   \* the checkpoints of each thread
  audit_log,       \* the requests whose audit row is persisted
  agent_metrics,   \* the outcomes in the metric rows of each request
  published,       \* the events published about each request, in order
  step_fn,         \* the step function of the Supervisor
  pc,              \* what each caller awaits, or how its call ended
  tid,             \* the thread_id of each call
  mark,            \* the status the caller's _upsert is to write
  existing,        \* the row that _upsert's SELECT returned
  state,           \* the local variables of invoke
  parent_id,
  rounds,          \* passes of the step loop that are over
  outcome

INSTANCE Checkpoints

tables ==
  <<audit_log, agent_thread_state, langgraph_checkpoints, agent_metrics,
    published>>

progress == <<state, parent_id, rounds>>

vars == <<tables, step_fn, pc, tid, mark, existing, progress, outcome>>

EventTypes ==
  {"agent.invoke.start", "agent.step.start", "agent.step.end",
   "agent.invoke.killed", "agent.invoke.cancelled", "agent.invoke.error",
   "agent.invoke.end"}

Outcomes == {"ok", "killed", "max_steps_exceeded", "cancelled", "error"}

\* How a call may end: a response, 503, another exception, the process's death.
Ends == {"returned", "rejected", "raised", "crashed"}

Awaits ==
  EventTypes \cup {"audit", "lookup", "select", "write", "get_latest",
                   "is_kill_requested", "step", "put", "record"}

TypeOK ==
  /\ ThreadStateTypeOK
  /\ CheckpointsTypeOK
  /\ audit_log \subseteq Requests
  /\ agent_metrics \in [Requests -> Seq(Outcomes)]
  /\ published \in [Requests -> Seq(EventTypes)]
  /\ step_fn \in {"default", "custom"}
  /\ pc \in [Callers -> Awaits \cup Ends \cup {"idle"}]
  /\ tid \in [Callers -> Threads]
  /\ mark \in [Callers -> Statuses]
  /\ existing \in [Callers -> Row \cup {NoRow}]
  /\ state \in [Requests -> State]
  /\ parent_id \in [Requests -> Nat]
  /\ rounds \in [Requests -> Nat]
  /\ outcome \in [Requests -> Outcomes]

Init ==
  /\ ThreadStateInit
  /\ CheckpointsInit
  /\ audit_log = {}
  /\ agent_metrics = [r \in Requests |-> <<>>]
  /\ published = [r \in Requests |-> <<>>]
  /\ step_fn = "default"
  /\ pc = [c \in Callers |-> "idle"]
  /\ tid \in [Callers -> Threads]
  /\ mark = [c \in Callers |-> "running"]
  /\ existing = [c \in Callers |-> NoRow]
  /\ state = [r \in Requests |-> [step |-> 0, completed |-> FALSE, input |-> r]]
  /\ parent_id = [r \in Requests |-> 0]
  /\ rounds = [r \in Requests |-> 0]
  /\ outcome = [r \in Requests |-> "ok"]

------------------------------------------------------------------------------
(***************************************************************************)
(* The statements and publications, by the effect each has.                *)
(***************************************************************************)
InsertAudit(r) == audit_log' = audit_log \cup {r}

\* Mutated form: the literal "ok" is recorded for the outcome.
RecordDefaultOutcome(r) ==
  agent_metrics' = [agent_metrics EXCEPT ![r] = Append(@, "ok")]

RecordInvokeLatency(r) ==
  agent_metrics' = [agent_metrics EXCEPT ![r] = Append(@, outcome[r])]

Publish(r, type) == published' = [published EXCEPT ![r] = Append(@, type)]

\* What caller c awaits takes effect.
Execute(c) ==
  \/ /\ pc[c] = "audit"
     /\ InsertAudit(c)
     /\ UNCHANGED <<agent_thread_state, langgraph_checkpoints, agent_metrics,
                    published>>
  \/ /\ pc[c] = "write"
     /\ Upsert(tid[c], existing[c], mark[c])
     /\ UNCHANGED <<audit_log, langgraph_checkpoints, agent_metrics, published>>
  \/ /\ pc[c] = "put"
     /\ PutCheckpoint(tid[c], state[c], parent_id[c])
     /\ UNCHANGED <<audit_log, agent_thread_state, agent_metrics, published>>
  \/ /\ pc[c] = "record"
     /\ RecordInvokeLatency(c)
     /\ UNCHANGED <<audit_log, agent_thread_state, langgraph_checkpoints,
                    published>>
  \/ /\ pc[c] \in EventTypes
     /\ Publish(c, pc[c])
     /\ UNCHANGED <<audit_log, agent_thread_state, langgraph_checkpoints,
                    agent_metrics>>
  \/ /\ pc[c] \in {"lookup", "select", "get_latest", "is_kill_requested", "step"}
     /\ UNCHANGED tables

Goto(c, l) == pc' = [pc EXCEPT ![c] = l]

\* Call set_thread_status, or _upsert from request_kill.
CallUpsert(c, status) ==
  /\ Goto(c, "select")
  /\ mark' = [mark EXCEPT ![c] = status]

\* What follows a call of _upsert, told by the status it has written.
AfterUpsert ==
  [running        |-> "agent.invoke.start",
   killed         |-> "record",
   cancelled      |-> "agent.invoke.cancelled",
   error          |-> "agent.invoke.error",
   completed      |-> "agent.invoke.end",
   kill_requested |-> "returned"]

\* What c awaits takes effect, and c goes on to await l.
Pass(c, l) ==
  /\ Execute(c)
  /\ Goto(c, l)
  /\ UNCHANGED <<step_fn, tid, mark, existing, progress, outcome>>

Running(c) == pc[c] \in Awaits

------------------------------------------------------------------------------
(***************************************************************************)
(* A call arrives.  A well-behaved client (Overlap = FALSE) waits for the  *)
(* answer of one invocation of a thread before it sends the next.          *)
(***************************************************************************)
Invoke(r) ==
  /\ pc[r] = "idle"
  /\ Overlap \/ \A q \in Requests \ {r} : tid[q] = tid[r] => ~Running(q)
  /\ Goto(r, "audit")
  /\ UNCHANGED <<tables, step_fn, tid, mark, existing, progress, outcome>>

Kill(k) ==
  /\ pc[k] = "idle"
  /\ Goto(k, "lookup")
  /\ UNCHANGED <<tables, step_fn, tid, mark, existing, progress, outcome>>

(***************************************************************************)
(* insert_audit, and request_kill's own SELECT.                            *)
(***************************************************************************)
Audit(r) ==
  /\ pc[r] = "audit"
  /\ Execute(r)
  /\ CallUpsert(r, "running")
  /\ UNCHANGED <<step_fn, tid, existing, progress, outcome>>

Lookup(k) ==
  /\ pc[k] = "lookup"
  /\ Execute(k)
  /\ CallUpsert(k, "kill_requested")
  /\ UNCHANGED <<step_fn, tid, existing, progress, outcome>>

(***************************************************************************)
(* The two statements of _upsert.                                          *)
(***************************************************************************)
Select(c) ==
  /\ pc[c] = "select"
  /\ Execute(c)
  /\ Goto(c, "write")
  /\ existing' = [existing EXCEPT ![c] = agent_thread_state[tid[c]]]
  /\ UNCHANGED <<step_fn, tid, mark, progress, outcome>>

Write(c) ==
  /\ pc[c] = "write"
  /\ Execute(c)
  /\ Goto(c, AfterUpsert[mark[c]])
  /\ existing' = [existing EXCEPT ![c] = NoRow]
  /\ UNCHANGED <<step_fn, tid, mark, progress, outcome>>

(***************************************************************************)
(* The step loop.  EnterRound(r, n) begins pass n + 1, or falls out of the *)
(* loop into its else branch.                                              *)
(***************************************************************************)
\* Mutated form: the loop does not look at the kill flag.
EnterRoundUnchecked(r, n) ==
  /\ rounds' = [rounds EXCEPT ![r] = n]
  /\ Goto(r, IF n < MaxSteps THEN "agent.step.start" ELSE "record")
  /\ UNCHANGED outcome

EnterRound(r, n) ==
  /\ rounds' = [rounds EXCEPT ![r] = n]
  /\ \/ /\ n < MaxSteps
        /\ Goto(r, "is_kill_requested")
        /\ UNCHANGED outcome
     \/ /\ n >= MaxSteps
        /\ Goto(r, "record")
        /\ outcome' = [outcome EXCEPT ![r] = "max_steps_exceeded"]

PublishStart(r) == pc[r] = "agent.invoke.start" /\ Pass(r, "get_latest")

Resume(r) ==
  /\ pc[r] = "get_latest"
  /\ Execute(r)
  /\ state' = [state EXCEPT ![r] = ResumedState(tid[r], r)]
  /\ parent_id' = [parent_id EXCEPT ![r] = LatestId(tid[r])]
  /\ EnterRound(r, 0)
  /\ UNCHANGED <<step_fn, tid, mark, existing>>

CheckKill(r) ==
  /\ pc[r] = "is_kill_requested"
  /\ Execute(r)
  /\ \/ /\ KillRequested(tid[r])
        /\ outcome' = [outcome EXCEPT ![r] = "killed"]
        /\ Goto(r, "agent.invoke.killed")
     \/ /\ ~KillRequested(tid[r])
        /\ Goto(r, "agent.step.start")
        /\ UNCHANGED outcome
  /\ UNCHANGED <<step_fn, tid, mark, existing, progress>>

PublishKilled(r) ==
  /\ pc[r] = "agent.invoke.killed"
  /\ Execute(r)
  /\ CallUpsert(r, "killed")
  /\ UNCHANGED <<step_fn, tid, existing, progress, outcome>>

PublishStepStart(r) == pc[r] = "agent.step.start" /\ Pass(r, "step")

(***************************************************************************)
(* The states a step function may return for s.  default_supervisor_step   *)
(* completes at once; an injected one, like those of the tests, may ask    *)
(* for another step by returning the state as it came (with the            *)
(* "completed" of an earlier invocation, when there was one) or complete.  *)
(***************************************************************************)
StepResults(s) ==
  IF step_fn = "default"
  THEN {[s EXCEPT !.step = @ + 1, !.completed = TRUE]}
  ELSE {s, [s EXCEPT !.completed = TRUE]}

Step(r) ==
  /\ pc[r] = "step"
  /\ Execute(r)
  /\ \E s \in StepResults(state[r]) : state' = [state EXCEPT ![r] = s]
  /\ Goto(r, "put")
  /\ UNCHANGED <<step_fn, tid, mark, existing, parent_id, rounds, outcome>>

\* Mutated form: parent_id is not moved on to the row just written.
PutParentKept(r) ==
  /\ pc[r] = "put"
  /\ Execute(r)
  /\ Goto(r, "agent.step.end")
  /\ UNCHANGED <<step_fn, tid, mark, existing, state, parent_id, rounds, outcome>>

Put(r) ==
  /\ pc[r] = "put"
  /\ Execute(r)
  /\ parent_id' = [parent_id EXCEPT ![r] = NextId(tid[r])]
  /\ Goto(r, "agent.step.end")
  /\ UNCHANGED <<step_fn, tid, mark, existing, state, rounds, outcome>>

PublishStepEnd(r) ==
  /\ pc[r] = "agent.step.end"
  /\ Execute(r)
  /\ \/ /\ state[r].completed
        /\ Goto(r, "record")
        /\ UNCHANGED <<rounds, outcome>>
     \/ /\ ~state[r].completed
        /\ EnterRound(r, rounds[r] + 1)
  /\ UNCHANGED <<step_fn, tid, mark, existing, state, parent_id>>

(***************************************************************************)
(* The handlers' events, the finally block, and what follows it.           *)
(***************************************************************************)
PublishFailure(r) ==
  /\ pc[r] \in {"agent.invoke.cancelled", "agent.invoke.error"}
  /\ Pass(r, "record")

Record(r) ==
  /\ pc[r] = "record"
  /\ Execute(r)
  /\ \/ /\ outcome[r] = "ok"
        /\ CallUpsert(r, "completed")
     \/ /\ outcome[r] \in {"killed", "max_steps_exceeded"}
        /\ Goto(r, "returned")
        /\ UNCHANGED mark
     \/ /\ outcome[r] \in {"cancelled", "error"}
        /\ Goto(r, "raised")
        /\ UNCHANGED mark
  /\ UNCHANGED <<step_fn, tid, existing, progress, outcome>>

PublishEnd(r) == pc[r] = "agent.invoke.end" /\ Pass(r, "returned")

------------------------------------------------------------------------------
(***************************************************************************)
(* Exceptions.  The try block begins after the start event and ends before *)
(* the status "completed"; an exception raised inside a handler goes       *)
(* straight to the finally block, one raised outside all of them to the    *)
(* client.  Only a failed audit INSERT is turned into a 503: the exception *)
(* of a cancelled one is not an Exception.                                 *)
(***************************************************************************)
\* Mutated form: the end event is published inside the try block.
InTryToTheEnd(r) ==
  \/ pc[r] \in Awaits \ {"audit", "lookup", "select", "write", "record"}
  \/ pc[r] \in {"select", "write"} /\ mark[r] = "killed"

InTry(r) ==
  \/ pc[r] \in {"get_latest", "is_kill_requested", "agent.invoke.killed",
                "agent.step.start", "step", "put", "agent.step.end"}
  \/ pc[r] \in {"select", "write"} /\ mark[r] = "killed"

InHandler(r) ==
  \/ pc[r] \in {"agent.invoke.cancelled", "agent.invoke.error"}
  \/ pc[r] \in {"select", "write"} /\ mark[r] \in {"cancelled", "error"}

\* Mutated form: a failed audit INSERT does not keep the agent from running.
UncaughtRunsOn(c, kind) ==
  IF pc[c] = "audit" /\ kind = "error" THEN "select" ELSE "raised"

\* Mutated form: the API answers 503 to every exception it meets.
UncaughtIs503(c, kind) == IF kind = "error" THEN "rejected" ELSE "raised"

\* Where an exception ends that no handler of invoke meets.
Uncaught(c, kind) ==
  IF pc[c] = "audit" /\ kind = "error" THEN "rejected" ELSE "raised"

Unwind(c, kind) ==
  /\ \/ /\ InTry(c)
        /\ outcome' = [outcome EXCEPT ![c] = kind]
        /\ CallUpsert(c, kind)
     \/ /\ InHandler(c)
        /\ Goto(c, "record")
        /\ UNCHANGED <<mark, outcome>>
     \/ /\ ~InTry(c)
        /\ ~InHandler(c)
        /\ Goto(c, Uncaught(c, kind))
        /\ UNCHANGED <<mark, outcome>>
  /\ existing' = [existing EXCEPT ![c] = NoRow]
  /\ UNCHANGED <<step_fn, tid, progress>>

\* Mutated form: a refused INSERT is tried again, without a new SELECT.
ConflictRetried(c) ==
  /\ pc[c] = "write"
  /\ InsertConflicts(tid[c], existing[c])
  /\ UNCHANGED vars

\* The INSERT of _upsert meets a row that was not there at its SELECT.
Conflict(c) ==
  /\ pc[c] = "write"
  /\ InsertConflicts(tid[c], existing[c])
  /\ UNCHANGED tables
  /\ Unwind(c, "error")

\* Who is to blame when what c awaits raises.
Culprit(c) ==
  CASE pc[c] \in EventTypes -> "bus"
    [] pc[c] = "step"       -> "step"
    [] OTHER                -> "database"

(***************************************************************************)
(* What c awaits raises, or c is cancelled there: either may happen before *)
(* or after it took effect (a commit whose acknowledgement is lost).  A    *)
(* write that is still to take effect after its call has raised            *)
(* (Database!Settles, on Postgres only) is left out here.                  *)
(***************************************************************************)
Raise(c) ==
  /\ Running(c)
  /\ Culprit(c) \in Faults
  /\ Execute(c) \/ UNCHANGED tables
  /\ Unwind(c, "error")

Cancel(c) ==
  /\ "cancel" \in Faults
  /\ Running(c)
  /\ Execute(c) \/ UNCHANGED tables
  /\ Unwind(c, "cancelled")

\* The process dies; the next one begins with the default graph.
Crash ==
  /\ "crash" \in Faults
  /\ \E c \in Callers : Running(c)
  /\ pc' = [c \in Callers |-> IF Running(c) THEN "crashed" ELSE pc[c]]
  /\ existing' = [c \in Callers |-> NoRow]
  /\ step_fn' = "default"
  /\ UNCHANGED <<tables, tid, mark, progress, outcome>>

\* set_graph, at any time.
SetGraph ==
  /\ step_fn' \in Graphs \ {step_fn}
  /\ UNCHANGED <<tables, pc, tid, mark, existing, progress, outcome>>

------------------------------------------------------------------------------
Arrive(c) == (c \in Requests /\ Invoke(c)) \/ (c \in Killers /\ Kill(c))

\* The next step of invoke proper.
AdvanceInvoke(r) ==
  \/ Audit(r)
  \/ PublishStart(r)
  \/ Resume(r)
  \/ CheckKill(r)
  \/ PublishKilled(r)
  \/ PublishStepStart(r)
  \/ Step(r)
  \/ Put(r)
  \/ PublishStepEnd(r)
  \/ PublishFailure(r)
  \/ Record(r)
  \/ PublishEnd(r)

\* What c awaits answers, and c runs on to what it awaits next.
Advance(c) ==
  \/ c \in Requests /\ AdvanceInvoke(c)
  \/ Lookup(c)
  \/ Select(c)
  \/ Write(c)
  \/ Conflict(c)

Terminating ==
  /\ \A c \in Callers : pc[c] \in Ends
  /\ UNCHANGED vars

Next ==
  \/ \E c \in Callers : Arrive(c) \/ Advance(c) \/ Raise(c) \/ Cancel(c)
  \/ Crash
  \/ SetGraph
  \/ Terminating

Spec == Init /\ [][Next]_vars

(***************************************************************************)
(* Every statement, publication and step is answered in the end, one way   *)
(* or the other.  Nothing is assumed of clients, faults and set_graph.     *)
(***************************************************************************)
FairSpec == Spec /\ \A c \in Callers : WF_vars(Advance(c))

------------------------------------------------------------------------------
(***************************************************************************)
(* Audit first ("Only after the audit row is durably persisted do we       *)
(* publish lifecycle events on Redis and step the graph", runtime.py:3-6): *)
(* whatever fails and however calls overlap, an event, a metric row or a   *)
(* checkpoint of a request is never seen without its audit row, and a      *)
(* thread has a row only if a request for it has been audited or somebody  *)
(* has asked for its kill.                                                 *)
(***************************************************************************)
CheckpointsOf(r) ==
  {i \in 1..Len(langgraph_checkpoints[tid[r]]) :
     langgraph_checkpoints[tid[r]][i].state.input = r}

LeftTraces(r) ==
  \/ published[r] # <<>>
  \/ agent_metrics[r] # <<>>
  \/ \E t \in Threads : \E i \in 1..Len(langgraph_checkpoints[t]) :
       langgraph_checkpoints[t][i].state.input = r

AuditFirst ==
  /\ \A r \in Requests : LeftTraces(r) => r \in audit_log
  /\ \A t \in Threads : agent_thread_state[t] # NoRow =>
       \/ \E r \in audit_log : tid[r] = t
       \/ \E k \in Killers : tid[k] = t /\ pc[k] # "idle"

(***************************************************************************)
(* "the agent did NOT execute" (app.py:107-110): a request answered with   *)
(* 503 has left no event, no metric row and no checkpoint behind.          *)
(***************************************************************************)
RefusedLeavesNoTrace ==
  \A r \in Requests : pc[r] = "rejected" => ~LeftTraces(r)

(***************************************************************************)
(* What a subscriber may see of one request: it begins with its start      *)
(* event; a step ends only after it began; the end follows a step; a kill  *)
(* is announced only between two steps; and nothing follows a failure or   *)
(* the end.  A failure may still follow the announcement of a kill.        *)
(***************************************************************************)
MayFollow ==
  {<<"agent.invoke.start", "agent.step.start">>,
   <<"agent.invoke.start", "agent.invoke.killed">>,
   <<"agent.step.start", "agent.step.end">>,
   <<"agent.step.end", "agent.step.start">>,
   <<"agent.step.end", "agent.invoke.killed">>,
   <<"agent.step.end", "agent.invoke.end">>}
  \cup {"agent.invoke.start", "agent.step.start", "agent.step.end",
        "agent.invoke.killed"}
       \X {"agent.invoke.cancelled", "agent.invoke.error"}

EventProtocol ==
  \A r \in Requests :
    /\ published[r] # <<>> => Head(published[r]) = "agent.invoke.start"
    /\ \A i \in 1..Len(published[r]) - 1 :
         <<published[r][i], published[r][i + 1]>> \in MayFollow

(***************************************************************************)
(* Events and checkpoints agree: every step that a subscriber saw end has  *)
(* its checkpoint persisted, and every checkpoint belongs to a step that   *)
(* was announced.                                                          *)
(***************************************************************************)
Count(r, type) == Cardinality({i \in 1..Len(published[r]) : published[r][i] = type})

StepsAreCheckpointed ==
  \A r \in Requests :
    /\ Count(r, "agent.step.end") <= Cardinality(CheckpointsOf(r))
    /\ Cardinality(CheckpointsOf(r)) <= Count(r, "agent.step.start")

(***************************************************************************)
(* The checkpoints of one invocation form a chain from the row it resumed  *)
(* from, even when those of other invocations of the thread lie between    *)
(* them: nobody continues a state he has not written or resumed from.      *)
(***************************************************************************)
CheckpointChain ==
  \A r \in Requests : \A i \in CheckpointsOf(r) :
    LET rows    == langgraph_checkpoints[tid[r]]
        earlier == {j \in CheckpointsOf(r) : j < i}
        parent  == rows[i].parent_id
    IN  /\ parent < i
        /\ earlier # {} => \A j \in earlier : parent \in CheckpointsOf(r) /\ j <= parent
        /\ parent # 0 => rows[i].state.step - rows[parent].state.step \in {0, 1}

(***************************************************************************)
(* The latency metric is recorded once per invocation at most, and exactly *)
(* once, with the outcome it returned, for one that has returned; a        *)
(* failure announced on the bus is never recorded as a success.            *)
(***************************************************************************)
Announced(r, type) == \E i \in 1..Len(published[r]) : published[r][i] = type

MetricOnce ==
  \A r \in Requests :
    /\ Len(agent_metrics[r]) <= 1
    /\ pc[r] = "returned" => agent_metrics[r] = <<outcome[r]>>
    /\ agent_metrics[r] # <<>> =>
         /\ Announced(r, "agent.invoke.cancelled") => agent_metrics[r] = <<"cancelled">>
         /\ Announced(r, "agent.invoke.error") => agent_metrics[r] = <<"error">>
         /\ Announced(r, "agent.invoke.end") => agent_metrics[r] = <<"ok">>

(***************************************************************************)
(* Nobody is killed unasked: a request whose kill is announced, recorded   *)
(* or written to its thread has a call of /agent/kill of that thread       *)
(* before it.                                                              *)
(***************************************************************************)
KilledOnlyWhenAsked ==
  \A r \in Requests :
    (outcome[r] = "killed" \/ Announced(r, "agent.invoke.killed")) =>
      \E k \in Killers : tid[k] = tid[r] /\ pc[k] # "idle"

(***************************************************************************)
(* For clients that wait for their answers (Overlap = FALSE), whatever     *)
(* else fails: the checkpoints of a thread form one line, each row the     *)
(* child of the one before it, over all its invocations.  It says nothing  *)
(* of steps without a checkpoint: one that ran just before a crash is run  *)
(* again.                                                                  *)
(***************************************************************************)
LinearHistory ==
  \A t \in Threads : \A i \in 1..Len(langgraph_checkpoints[t]) :
    langgraph_checkpoints[t][i].parent_id = i - 1

(***************************************************************************)
(* For such clients a thread whose status is "killed" still has its flag   *)
(* up, so that it stays killed for every later invocation, although kills  *)
(* run between the statements of the invocation.                           *)
(***************************************************************************)
KilledStaysKilled ==
  \A t \in Threads :
    (agent_thread_state[t] # NoRow /\ agent_thread_state[t].status = "killed") =>
      KillRequested(t)

(***************************************************************************)
(* Every call ends: no invocation runs for ever, whatever its graph and    *)
(* however kills, conflicts and other invocations run beside it.           *)
(***************************************************************************)
EveryCallEnds == \A c \in Callers : Running(c) ~> pc[c] \in Ends

------------------------------------------------------------------------------
(***************************************************************************)
(* What the documentation says and the code does not do (see README).      *)
(***************************************************************************)

\* runtime.py:119, step 5 of the contract: Publish "agent.invoke.end" or
\* "agent.invoke.killed" (for an invocation that returns).
EndOrKilled ==
  \A r \in Requests : pc[r] = "returned" =>
    Announced(r, "agent.invoke.end") \/ Announced(r, "agent.invoke.killed")

==============================================================================

# NoblePort supervisor: a verification project in TLA+

This directory models the NoblePort supervisor (`app/`) and the permit scripts
beside it (`scripts/`), and checks them: TLA+
modules, TLC configurations for small instances, and theorems whose proofs
TLAPS checks for every value of the constants. `PROJECT.json` lists the runs,
the lines each definition stands for, a mutated form of the code for every
property, and the hazards the properties are for. Paths below are relative to
the repository.

Contents: 1 inventory - 2 the modules and how they correspond to the code -
3 the runs - 4 fairness - 5 what is proved - 6 findings and observations -
7 what is not modelled, and why - 8 plan.

## 1. Inventory

The service is one asyncio process (FastAPI on one event loop). Every `await`
on the database, the bus or the graph is a point where another request runs,
where the call may be cancelled, and where the process may die. All lasting
state is in the database.

| Component | State | Operations | Talks to |
|---|---|---|---|
| Supervisor runtime `app/agent/runtime.py` | `step_fn`; per call: `state`, `parent_id`, the round, `outcome` | `invoke`, `set_graph`, `get_supervisor` | all tables, the event bus |
| Thread state, kill switch `app/agent/state.py` | table `agent_thread_state` (status, kill flag) | `set_thread_status`, `request_kill`, `is_kill_requested`, `get_thread_status` | database facade |
| Checkpoint store `app/agent/checkpointing.py` | table `langgraph_checkpoints` | `put`, `get_latest`, `list_all` | database facade |
| Audit log `app/db/audit.py` | table `audit_log` | `insert_audit`, `list_audit` | database facade |
| Metrics `app/db/metrics.py` | table `agent_metrics` | `record_invoke_latency`, `gate_latency_summary` | database facade |
| Event bus `app/redis_bus/events.py` | the published events, the Redis client, a singleton | `publish`, `ping`, `close`, set/reset | Redis, or nothing |
| Database facade `app/db/connection.py`, `schema.py` | one SQLite connection with a lock, or a Postgres pool; a singleton | `connect`, `migrate`, `execute`, `fetch_*`, `close` | aiosqlite / asyncpg |
| HTTP API `app/api/` | none of its own | `/agent/invoke`, `/agent/kill`, `/agent/status`, `/ready`, `/health`, `/metrics/gates`; lifespan | supervisor, state, metrics |
| Command sandbox `app/tools/sandbox.py` | a child process per call | `run_command` | the operating system |
| Settings `app/config.py` | environment variables, read once and cached | `from_env`, `get_settings` | - |
| Permit pipeline `scripts/` | the day's report, the processed lists, the digest and its PDF, each a file | `fetch_permits.py`, `process_and_notify.py`, `generate_digest.py` | one another by files, Slack and a PDF converter by command-line tools |

**Hard behaviours.**

- *Read, await, write.* `_upsert` (`state.py:25-56`) runs a SELECT and then an
  INSERT or UPDATE with the kill flag the SELECT saw. Two calls on one thread
  interleave between the two.
- *Order of effects.* The audit row must precede everything else; the checkpoint
  must precede its `agent.step.end`; the metric is written in a `finally`, and the
  success path goes on after it.
- *Partial failure.* Any of about twenty awaits of `invoke` may raise, before or
  after its effect, some inside exception handlers that await themselves.
- *Cancellation.* `CancelledError` is not an `Exception`: it takes the other
  handler, and on SQLite leaves what was already sent to aiosqlite's thread queued.
- *Crash and resume.* Tables survive; the next invocation of the thread resumes
  from its latest checkpoint.
- *Subprocesses.* The child of `run_command` may outlive its parent call, share its
  pipes with processes of its own, and exit just as its timeout strikes.
- *Lazy singletons.* `_db`, `_bus` and `_supervisor` are built by whoever asks first,
  and `_db` is handed out before it is connected.
- *Files between programs.* Each permit script opens its output with "w", in place:
  until it is closed, and for good if the script dies, the file is empty or cut off,
  and the script after it may already be reading. Nothing orders the three.
- *Caps and batches.* Lists cut at 5, 15, 25, 30 and 40, in batches of 5, next to
  counts of the whole; percentiles of one, of two, of twenty-one values.
- *History.* Kills, invocations and failures of one thread in any order, over
  several invocations.

**What makes each component correct.**

- Runtime: audit first; 503 means that nothing happened; the event stream of a
  request keeps a protocol; one metric per invocation, with the outcome announced;
  steps seen to end are checkpointed; one invocation's checkpoints form a chain, and
  a thread's checkpoints a line when its clients wait; every call ends.
- Kill switch: a kill is not taken back, stops an invocation within one step, is
  observed when it comes first, and nobody is killed unasked.
- Database facade: what `execute` returned from is durable; statements of different
  coroutines on one connection are atomic; nobody waits for ever for the lock.
- Command sandbox: a result is complete or marked as timed out; once the timeout has
  struck the child is dead; every command ends.
- Life cycle: nobody is handed a database that is not ready or belongs to an earlier
  lifespan; shutdown closes what was opened; starts and stops end.
- Settings: the bus in use is of the kind that `/ready` checks.
- Metrics: a percentile splits the sample where it says; the figures are ordered, are
  those of their own gate and move with its calls.
- Permit pipeline: no script works with half a file; the alerts leave out nothing and
  repeat nothing up to their cap; each critical permit announced as alerted has been
  alerted, has failed or is beyond the cap; the figures, tables and capped lists of the
  messages and of the digest are those of the day's permits (two sentences of the
  messages are not, section 6); every script ends.

## 2. Modules

```
ThreadState ----------.------------------.
  | (rows, Upsert)    |                  |
ThreadStateCallers    |   Checkpoints    |
  | implements        |    | INSTANCE    |
KillSwitch           Supervisor <--------'        StatementStore
                       |                            ^ implements
                     SupervisorHistory            Database

Ordering <-- Permits <-- Pipeline --.
   ^                                 MCReports (two reporters)
   '-------- GateMetrics -----------'

Sandbox, Lifecycle: modules of their own
```

`ThreadState` - the table `agent_thread_state`: one row or none per thread, and
`Upsert(t, old, status)`, the INSERT or UPDATE of `_upsert` with what its SELECT
returned. `Written` is the row it writes (the preserved flag is `old`'s, not the
table's), `InsertConflicts` is a violated primary key. `set_thread_status` never
passes `kill_requested`, `request_kill` always passes True, so the status tells
both arguments. `last_event` and `updated_at` are left out.

`ThreadStateCallers` - coroutines in `state.py`, one action per statement; a
caller's variables `tid`, `mark`, `existing` are its locals. `Fail` is a statement
that raises. A write whose connection is lost (`LeaveInDoubt`) raises at once and, on
Postgres, may take effect later: the caller then stands for the statement that is still
on its way, and what its client does next is done by another caller. `SerialSpec` is the
same without overlap, and without anything left in doubt when a call begins.

`KillSwitch` - the abstract specification of `state.py`: setting a status leaves
the flag alone, a kill raises it, each in one step.

`Checkpoints` - `langgraph_checkpoints`, a sequence of rows per thread in `seq`
order. A fresh `checkpoint_id` is the row's position, so `parent_id` is one too,
and 0 is None. Of the state dict it keeps `step`, `completed` and `input`.

`Supervisor` - `invoke` and the two handlers that change state. `pc[c]` names what
caller `c` awaits (for a publication the type of the event, so an event and the
await of its publication have one name), and the action of that label does the
awaited operation's effect (`Execute`) together with all the code up to the next
await: the loop test, the branch, the handler entered. The correspondence, in the
order of `invoke`:

| Code (`runtime.py`) | Action |
|---|---|
| 126-139 `insert_audit` | `Audit` |
| 142, 167, 207, 216, 235 `set_thread_status` | `Select`, `Write` (after which `AfterUpsert` tells where the code goes on) |
| 145-149 start event | `PublishStart` |
| 156-160 `get_latest`, resume | `Resume` |
| 162-163, 200-203 `for`, `else`, kill check | `EnterRound`, `CheckKill` |
| 164-170 killed | `PublishKilled` |
| 172-182 step | `PublishStepStart`, `Step` (`StepResults`) |
| 182-195 checkpoint, step end | `Put`, `PublishStepEnd` |
| 205-222 handlers | `Unwind` (`InTry`, `InHandler`, `Uncaught`), `PublishFailure` |
| 223-232 `finally` | `Record` |
| 234-247 success | `Record` (guard), `PublishEnd` |
| 81-83 `set_graph` | `SetGraph` |
| `api/app.py:97-115`, `132-136` | `Invoke`, `Kill`, `Lookup`, `Uncaught` |

Faults are a constant: any subset of database, bus, step function, cancellation
and crash. `Raise` and `Cancel` may happen at any await, before or after the effect
(`Execute(c) \/ UNCHANGED tables`: a commit whose acknowledgement is lost), but not
after the call has raised, which a Postgres write in doubt may do (`Database!Settles`):
that case is left out here, see abstraction (a) and 8.2.
`Conflict` needs no fault: it is what overlapping first calls do.

`SupervisorHistory` - two history variables (which requests arrived after a kill
had settled; how many steps each began under a raised flag) for the two promises about kills.

`Database` - `execute` on both dialects, chosen by the url. SQLite: the lock, the open
transaction, and the queue of aiosqlite's worker thread, which goes on when the
awaiting coroutine has been cancelled. Postgres: the pool, in which a call takes a
connection and keeps it until the server is done with the statement
(`AcquireConnection`, `Runs`, `Answered`, `RefusedByServer`), and a connection that is
lost with the statement before, in or after execution (`Broken`; a statement `adrift`
may still take effect, `Settles`). `StatementStore` - what `Supervisor` and
`ThreadStateCallers` assume of a write: whole, at most once, durable once returned, in
doubt if cancelled or cut off. `Database` implements it on either dialect (refinement
mapping: `log` is `durable \o pending`).

`Sandbox` - `run_command` (`app/tools/sandbox.py`): per call, what it awaits (`pc`),
its child, a helper the child may start and which inherits the pipes, and the output
in blocks: written, read by the `communicate` under way, or lost with one that was
cancelled. `ParseFails` is a command that `shlex` cannot split, or settings that cannot be
read, before anything else; `RunCommand` is the allowlist (`is_allowed` decides by the executable, so
a set of calls stands for it), `Spawn` the `create_subprocess_exec`, `Finish` the
first `communicate`, `Timeout` the `except` branch up to the second one, `DrainEnds`
and `PipeFails` how that ends. The rest is the operating system and asyncio:
`communicate` returns when the child has been waited for and nobody holds its pipes
(`Communicated`).

`Lifecycle` - the lifespan of `api/app.py:37-48` and the getters of the three
singletons. The lifespan and the requests are tasks that run the same code:
`GetDatabase` (`connection.py:147-154`, with `_db` set before the connection is
there), `Connect`, `Migrate` statement by statement, and `Return`, what the caller
does with the result: the lifespan goes on to `get_event_bus` and `get_supervisor`,
a request builds a supervisor if it came through `get_supervisor` or works with the
database. `ResetSupervisor`, `ResetEventBus` and `ResetDatabase` are the `finally`
block. The server is external: it sends requests while the lifespan yields and, to
stop, takes no more and waits for those it has (uvicorn without a
`timeout_graceful_shutdown`, as in the `Dockerfile`). `schema` is what the database
file has seen and outlives the process; everything else starts afresh after `Crash`.
`environ` and `_cached` are the settings (`config.py`): read from the environment by
whoever asks first, kept for the process, and refused when the timeout is not a number
(`SettingsFail`). The environment may change at any time (`Setenv`), and it decides
which kind of bus the next `get_event_bus` builds.
The awaits of `connect` are one action: nothing else is done with the object between
them except by tasks that already have it, and those find it unconnected in either
case.

`GateMetrics` - the table `agent_metrics` and `gate_latency_summary`. Latencies are in
tenths of a microsecond, percentiles in hundredths of that, so that the interpolation
and the rounding to microseconds are exact integers (`Rounded`: half to even, as
Python's `round`; the code's floats agree up to their last bits).

`Permits` - what the scripts compute, as operators: the classification, the report of
a day, the lists, the messages, the batches of alerts, the tables and rows of the
digest. A permit is a name, a municipality, a type and a valuation; the name stands for
the record itself, because two permits of a town may be given one `permit_id`.

`Ordering` - what the scripts and the metrics do to lists: `Selected` is the loop that
appends what meets a condition, `Descending` is `list.sort`, which keeps the order of
arrival between equals, `Total` is `sum`. They are written as recursive functions and
by the place that each item takes, without an operator as argument (`SelectSeq` and
`SortSeq` take one), so that one can reason about them.

`Pipeline` - the scripts as three processes over four files. `processed` holds the
lists that `process_and_notify.py` makes when it has loaded the report. An action is
what a script does between two moments at which another could see or disturb it: open
a file (`Fetch`, `Load`, `LoadRaw`: the contents are `Partial` from here), close it
(`SavePermits`, `SaveProcessed`, `SaveMarkdown`), send a message (`SendDaily` to
`SendAlert`, the round of the alert loop), convert. What came of an alert is counted;
what came of a summary is printed and otherwise ignored, so it has no variable, and the
total of the last line (`sent + 3`) is left to section 6. `Partial` is a file that was not
written to its end: `json.load` refuses a part of a JSON file, so `Readable` is about
those; a part of the Markdown digest can be read by whoever opens it, and is only told
apart by the script not having got past its write. A script dies at any point
(`Dies`), or at once on a file it cannot read (`Unreadable`, `NoRaw`); run again, it
does everything again.

Deliberate abstractions. (a) A database read or write is one action. `Database`
justifies that on SQLite, and on Postgres for statements that return or are refused; a
write cut off by a lost connection may there take effect after its call has raised.
`ThreadStateCallers` has such writes, `Supervisor` does not (8.2).
(b) `NullEventBus.publish` takes an uncontended lock and does not really suspend, so
the null bus has fewer interleavings than the model; the Redis bus has all of them.
(c) The default step function does not suspend either. An injected one does; which
function is called is read at `Step`, when it answers; a function replaced while it
runs is covered, because the model allows the step to be taken before the
replacement. (d) A step function asks for another step or completes; it does not
write tables. (e) Generated uuids are fresh: a request is its own `request_id`.
(f) The types asyncpg demands of a timestamp parameter are a matter of the driver.

## 3. Runs

| Run | Module, cfg | Shows | States |
|---|---|---|---|
| `thread_state_race` | `MCThreadState`, `ThreadState_race.cfg` | `CallerTypeOK`; `SettledKillIsPermanent`: once a kill has settled, no interleaving of three callers, failing and leaving writes in doubt, takes it back | 2.3 10^6 |
| `thread_state_serial` | `MCThreadState`, `ThreadState_serial.cfg` | `SerialCallsAreAtomic`: without overlap `state.py` is the atomic `KillSwitch` | 2.2 10^4 |
| `thread_state_lost_kill` | `MCThreadState`, `ThreadState_lost_kill.cfg` | violation of `KillFlagPreserved` (finding 1) | |
| `supervisor_race` | `MCSupervisorHistory`, `Supervisor_race.cfg` | overlap, no faults: `TypeOK`, `CheckpointChain`, `KilledOnlyWhenAsked`, `KillStopsWithinOneStep`, `PreemptiveKillIsObserved`, `EveryCallEnds` | 2.6 10^5 |
| `supervisor_errors` | `MCSupervisor`, `Supervisor_errors.cfg` | overlap, everything may raise: `AuditFirst`, `RefusedLeavesNoTrace`, `EventProtocol`, `MetricOnce` | 1.3 10^6 |
| `supervisor_serial` | `MCSupervisor`, `Supervisor_serial.cfg` | clients that wait, cancellation and crashes: `StepsAreCheckpointed`, `LinearHistory`, `KilledStaysKilled` | 1.9 10^6 |
| `supervisor_silent_exit` | `MCSupervisor`, `Supervisor_silent_exit.cfg` | violation of `EndOrKilled` (finding 2) | |
| `database` | `MCDatabase`, `Database.cfg` | three overlapping writes, on SQLite and on a pool of two connections, with refusals, cancellations, lost connections, a crash: `DatabaseTypeOK`, `AcknowledgedIsDurable`, `WritesAreAtomic`, `EveryWriteEnds` | 1.4 10^4 |
| `sandbox` | `MCSandbox`, `Sandbox.cfg` | a command and its helper against the timeout: `SandboxTypeOK`, `ResultIsComplete`, `NoChildIsLeft`, `EveryCommandEnds` | 1.9 10^3 |
| `sandbox_unbounded` | `MCSandbox`, `Sandbox_unbounded.cfg` | violation of `TimeoutIsEnforced` (finding 3) | |
| `lifecycle` | `MCLifecycle`, `Lifecycle.cfg` | start, service, stop, twice in a process, with failures, crashes and an environment that changes: `LifecycleTypeOK`, `RequestsFindTheDatabaseReady`, `PartsBelongTogether`, `ReadyChecksTheBusInUse`, `NothingStaysOpen`, `StartsAndStopsEnd` | 1.4 10^4 |
| `reports` | `MCReports`, `Reports.cfg` | the gate metrics over every table of up to four calls and tables around twenty-one: `PercentilesSplitTheSample`, `SummaryIsConsistent`, `FiguresFollowTheCalls`; the permit scripts, started four times in any order and dying anywhere, over four days: `NobodyWorksOnHalfAFile`, `AlertsTileTheCriticals`, `AnnouncedAlertsAreAccountedFor`, `MessagesTellTheDay`, `DigestTellsTheDay`, `ScriptsEnd` | 2.3 10^4 |

**Bounds and why they are enough.** One thread: rows of different threads never
meet (every statement has `WHERE thread_id = ?`), so a race needs one; the
refinement to `KillSwitch` uses two, so that writing the wrong row would show. Two
invocations and a kill: every hazard listed is a race between two actors, or a
history "invoke, kill, invoke"; `state.py` alone runs with three callers.
`MaxSteps` is 2 where the step structure matters (a kill between two steps, the
second checkpoint's parent, falling out of the loop after one or two rounds) and 1
where the number of fault points is the point. Each request is invoked once;
repetition of a client is a second request. No other counter needs a bound:
`rounds` stops at `MaxSteps`, a request's events and rows are finite.
Calls of `run_command` share nothing, so one allowed call is enough (a refused one
stands beside it); `MaxOutput` 3 lets output be read before the timeout, after it,
and written after the child's exit. `MaxObjects` 4 is two lifespans of one process,
a supervisor and a database left over from the first included; two requests are
what a race for an unready database takes; two schema statements have a state
between them for a failure or a crash to hit. The environment is of three kinds: no
Redis, Redis, a timeout that is not a number.
Two connections stand for the ten of the pool, with three writes: one waits, and one
connection may be free or lost while the other works.
In `reports` the caps 5, 25, 5, 15, 3, 30, 40 of the code are 2, 4, 2, 2, 1, 3, 4, so
that seven permits pass each of them; the days hold the values on both sides of every
threshold, equal valuations, no alert, one full and one partial alert, and more
critical permits than are alerted. The cap of alerts is a
multiple of the batch size, as 25 is of 5, and `PermitsAssumption` says so: the slice
of a batch is cut at the end of the list, not at the cap, so with any other cap the
last batch would go past it. `MaxStarts` 4 is the three scripts and one of them again.
Each script runs once at a time. The tables of metrics hold up to four calls of two
gates with any latencies, or twenty and twenty-one: 21 values are the first at which
p95 falls on an integral rank. The two reporters share nothing; a behaviour of
`MCReports` exercises one of them.

`LinearHistory` and `KilledStaysKilled` are promised only to clients that wait for
their answer (`Overlap = FALSE`); with overlapping invocations they are false (both
resume from one row; finding 1). Kills are never made to wait.
`PreemptiveKillIsObserved` holds with overlap too, for a kill that has settled
(`KillSettled`: no call is about to write back a row it read before the kill).

## 4. Fairness

`Supervisor!FairSpec` has weak fairness of `Advance(c)` for every caller: an await of
the database, the bus or the graph is answered in the end, and the event loop runs
the coroutine on. Clients, kills, faults and `set_graph` have none, so
`EveryCallEnds` does not depend on anybody calling or failing. A step function that
never returns is outside the assumption (the code has no timeout for it).
`Database!FairSpec` has weak fairness of `Serve` (aiosqlite's thread works off
its queue), of `ServeConnection(c)` (the server comes to an end with each statement,
or the connection breaks) and of each `Wakes(w)`. Weak fairness per waiter suffices
because each call writes once, so the lock, or a connection, is free for good in the
end; `asyncio.Lock` and the pool's queue in fact wake their waiters in order.
`Sandbox!LoopSpec` has weak fairness of what the event loop does for a call
(`Handler`), and of `Timeout` by itself, because the clock runs whatever the pipes
bring. Nothing is assumed of the child: it need not exit, so `EveryCommandEnds` rests
on the kill. Only `FairSpec` assumes that helpers come to an end; without it the
property fails, and that is finding 3.
`Lifecycle!FairSpec` has weak fairness of the starting lifespan (which goes on or,
with settings that cannot be read, fails), of the resets, and
of each request's handler (that it ends is `EveryCallEnds`). Nobody owes a start, a
stop, a request or a crash; a shutdown ends because no requests arrive during it.
`Pipeline!FairSpec` has weak fairness of each script once it is started, the answers of
the Slack tool and of the converter included: `subprocess.run` has no timeout, so a
tool that hangs is outside the assumption. Nobody owes a start or a death.

## 5. What is proved

`ThreadStateCallers_proofs`, for any number of threads and callers:

- `TypeCorrect`: `Spec => []CallerTypeOK`.
- `SettledKillsStay`: `Spec => SettledKillIsPermanent`. No invariant beyond the
  types is needed: `Settled(t)` carries its own strengthening, that every call which
  is between SELECT and write has seen the flag or no row.
- `SerialImplementsKillSwitch`: `SerialSpec => Atomic!Spec`. The invariant
  `SerialInv` says that one caller at most is in a call, and that what it has read
  is still what the table holds; so its write is the abstract step, and the other
  statements stutter.

`Supervisor_proofs`, for any threads, requests, kills, `MaxSteps`, graphs, faults
and with or without overlap:

- `TypeCorrect`: `Spec => []TypeOK`.
- `AuditComesFirst`: `Spec => []AuditFirst`. `AuditFirst` is not inductive: it says
  nothing of what a call is about to do. The invariant `AuditInv` adds the types; that
  a request which awaits anything after its audit INSERT is audited, and that one
  which is idle, at its audit or refused has left no trace (`TracesAreAudited`); and
  that a request carries its own input, so that it checkpoints under its own name
  (`OwnInput`). The proof reduces every action to one relation, `Moves(c)`, on labels
  and tables, and shows the invariant for that.
- `RefusalLeavesNoTrace`: `Spec => []RefusedLeavesNoTrace`. It does not follow from
  audit first: a refused request may be audited (the INSERT took effect and its
  acknowledgement was lost). The same invariant gives it.

The second part of the module is about single invocations. Two lemmas carry it:
`OneCallerActs` (a step of one call leaves the locals of the others alone) and
`Effects` (what an awaited operation does to each row of each table), so that each
invariant needs only the actions of the request it is about.

- `EventsFollowProtocol`, `MetricsAreRecordedOnce`: `Spec =>` always `EventProtocol`
  and `MetricOnce`. By `CallInv` the label of a request (and the status it is about
  to write) tells its last event, whether its metric is recorded, and its outcome.
- `KillsAreAskedFor`: `Spec => []KilledOnlyWhenAsked`. `AskedInv` adds that a raised
  flag in the table, and one a call of `_upsert` has read, go back to a kill.
- `EndedStepsAreCheckpointed`: `Spec => []StepsAreCheckpointed`, from `StepsInv`, which
  counts events and checkpoints at each label of the step loop.
- `CheckpointsFormChains`: `Spec => []CheckpointChain`. `ChainInv` says that in the
  step loop `parent_id` is the call's own latest checkpoint, or the row it resumed
  from, and that `state` continues that row.
- `PatientClientsKeepOneLine` and `PatientClientsStayKilled`: if `~Overlap`, `Spec =>`
  always `LinearHistory` and `KilledStaysKilled`. Both rest on `Alone` (of two requests
  of a thread one at most is running). `LineInv`: `parent_id` is then the thread's
  latest row. `StayInv`: from the check of the flag to the write of "killed" the flag
  stays up, because only kills write to the row meanwhile.

The third part is about `SupervisorHistory`: `KillStopsInvocations` (`KillStopsWithinOneStep`; by
`OverrunInv` a request that began a step under the raised flag is not at the start of
another) and `KillsAreObserved` (`PreemptiveKillIsObserved`; `WarnedInv` says that a
settled kill stays settled, whatever is written, and that a warned request never
passes the check).

`Database_proofs`, for any number of writes and connections, on either dialect, with or
without crashes:

- `TypeCorrect`: `Spec => []DatabaseTypeOK`, the lock included: the call that holds
  it is the one inside `async with`; and each dialect leaves the other's state alone.
- `AcknowledgedStaysDurable`: `Spec => []AcknowledgedIsDurable`. `CommitInv` adds
  that the write of a call which awaits its commit is in the open transaction or
  durable already (another call's commit may have taken it along).
- `DatabaseImplementsStore`: `Spec => WritesAreAtomic`. `OrderInv` says that a
  statement is queued once at most, and never both queued and in effect; that one
  queued for a call which no longer awaits it belongs to a cancelled call; and that
  what is still pending was acknowledged to nobody. So `Executed` is `TakeEffect`,
  an awaited `Committed` is `Return`, and `Crash` loses unacknowledged writes only.
  `PoolInv` is the same for the pool: a statement is with one connection at most, and
  one adrift has been told to nobody and is not yet in effect.

`Sandbox_proofs`, for any number of calls, any allowlist and any amount of output:

- `TypeCorrect`: `Spec => []SandboxTypeOK`; a call has an exit status exactly when it
  has returned a result.
- `ResultsAreComplete`: `Spec => []ResultIsComplete`, and `ChildrenAreReaped`:
  `Spec => []NoChildIsLeft`. Both speak of calls that are over; `CallInv` adds what
  holds before: nothing is lost or killed until the timeout strikes, so that what
  `Finish` returns is all there is, and the child is dead from then on.

`Lifecycle_proofs`, for any number of requests, any schema and any number of
lifespans in a process:

- `TypeCorrect`: `Spec => []LifecycleTypeOK`.
- `DatabaseIsReady`, `PartsAreCurrent` and `StopsAreClean`: `Spec =>` always
  `RequestsFindTheDatabaseReady`, `PartsBelongTogether` and `NothingStaysOpen`. The
  invariant, `PhaseInv`, tells for each point of the lifespan what has been built and
  what is open; `RequestInv` that requests are under way only while the lifespan
  yields or waits for them. So a request never meets a global that is None, and the
  code that would build an object for it is never reached.
- `ReadyIsConsistent`: `Spec => []ReadyChecksTheBusInUse`, from `SettingsInv`: the bus
  in use is of the kind the cached settings say, though bus and database are built
  anew by every lifespan and the environment changes between them.

`Pipeline_proofs`, for any days, any caps and any number of starts:

- `FilesAreWhole`: `Spec => []NobodyWorksOnHalfAFile`. `FilesInv` adds that the digest
  about to be written is the day's. What rests on `json.load` is said of the JSON files
  only.
- `AlertsCoverTheCriticals`: `Spec => []AlertsTileTheCriticals`. `AlertsInv` says that
  the alerts tried are the first batches, each below the cap; the rest is the
  arithmetic of a cap that is a multiple of the batch size.
- `AnnouncedAlertsAddUp`: `Spec => []AnnouncedAlertsAreAccountedFor`. Each permit below
  the cap falls into exactly one batch (`AlertPlace`: the place of a permit divided by
  the batch size is the number of its alert), a batch has one outcome, and the list of
  critical permits has each once; so the acknowledged and the failed ones divide the
  first 25 (`PermitsAreDivided`), and the announced number is what is left and these.
- `MessagesAreTrue`: `Spec => []MessagesTellTheDay`, which is about the counts, totals
  and capped lists, not about every sentence. `ToldInv` says that what was told
  is made of the report and of the lists of the whole day, whatever the files hold by
  then. What the messages made of those say is a matter of data, and proved for every
  day: the report ranks the permits of the day (`Ranking`: each once, and none before
  one that is worth more), so does each list of the permits it selects, a top of such a
  list leaves out nothing that is worth more (`TopIs`), and a table has one line for
  each value of its field with the count and the total of the permits that have it
  (`TableIs`). The alerts name the critical permits up to the cap by the batch that each
  falls into (`NamedAreTheTop`).
- `DigestIsTrue`: `Spec => []DigestTellsTheDay`, from `FilesInv` and the same lemmas; the
  two loops that share a counter of rows are `RowsAre`. Each of the two parts of that
  table is the top of its own kind; nothing is said of one against the other.

`GateMetrics_proofs`, for tables of any length, any gates and any latencies:

- `PercentilesSplit`: `MetricsSpec => []PercentilesSplitTheSample`. The sorted values
  are a rearrangement of those of the rows, so that counting ranks counts rows; an
  interpolated value lies between its two neighbours; and the mirrored table sorts to
  the reversed and negated list, because two ascending rearrangements of the same
  numbers are equal (`AscendingIsUnique`, by the pigeonhole principle).
- `SummaryConsistent`: `MetricsSpec => []SummaryIsConsistent`. Rounding half to even is
  monotone (`RoundedMonotone`), and the rows are counted by an injection into pairs of a
  gate and a rank, and back.
- `FiguresFollow`: `MetricsSpec => FiguresFollowTheCalls`. A value that is the largest
  goes to the end of the sorted list, where it moves each rank to the right by less
  than a place; that the smallest raises nothing follows by looking from the other end.

The invariant of these three is the type of the table alone: they are about what the
operators compute.

`Ordering_proofs` holds what both rest on, for lists of any length: `Selected` lists the
indices of the chosen items in their order (`SelectedIs`), `Descending` is a
rearrangement that descends (`DescendingIs`), the items listed by a set of indices sum
up to what the indices do (`TotalOfListed`). The library's induction theorems take an
operator as argument, which the provers cannot instantiate. Here induction goes by sets
instead: the set of the numbers up to n (or of the subsets of a finite set) of which
the claim is true holds all of them, since what it lacks would have a least member
(`UptoInduct`, `FiniteInduct`).

Assumptions: `NoRow` is not a row (`ThreadState`), calls of invoke and of kill are
different calls, `MaxSteps` is a natural number, the graphs and faults are of the
known kinds (`Supervisor`), `NoWrite` is not a write (`Database`),
the allowed calls are calls (`Sandbox`), the lifespan is not a request and the bounds
are natural numbers (`Lifecycle`), the caps are positive and the alert cap a multiple
of the batch size, with no more critical rows in the digest's table than rows
(`Permits`), a day is a sequence of different permits with natural valuations, and no
report is the value that stands for an absent or a partial file (`Pipeline`), latencies
are natural numbers and the tables left by earlier calls hold rows (`GateMetrics`). TLC
evaluates them in every run of those modules.

Only model-checked: the liveness properties (`EveryCallEnds`, `EveryWriteEnds`,
`EveryCommandEnds`, `StartsAndStopsEnd`, `ScriptsEnd`); TLAPS does not do liveness under
fairness. Every other property of a passing run is the statement of a theorem.

## 6. Findings and observations

Findings, each with a run that shows it:

1. *A kill can be lost* (`thread_state_lost_kill`). `state.py:45` says "Preserve a
   previously-set kill flag unless explicitly updated." The flag preserved is the one
   an earlier SELECT returned; a kill between that SELECT and the UPDATE is cleared.
   `SettledKillIsPermanent` says how far the damage goes: only calls that had read
   before the kill can do it.
2. *An invocation that runs out of `max_steps` ends silently*
   (`supervisor_silent_exit`): neither the end nor the killed event that step 5 of the
   contract (`runtime.py:119`) names, and the thread's status stays "running".
3. *The timeout of a command is not a bound* (`sandbox_unbounded`). `sandbox.py:67`
   says "Enforces a wall-clock timeout." After the timeout the child is killed and
   `communicate` awaited again, without a timeout (`sandbox.py:99`); it reads until
   nobody holds the pipes, so a process the child started keeps the call waiting.

Observations from the code, without a run of their own:

- `request_kill` is called idempotent ("calling on an already-killed thread returns
  the current state", `state.py:68`); it always writes "kill_requested" over the
  status, "killed" included, and answers with that (`state.py:87-98`).
- `audit.py:3-4` wants an audit row before every state-changing agent action; the
  kill handler (`app.py:132-136`) writes none. `AuditFirst` therefore says "audited, or
  somebody asked for its kill" of thread rows.
- No code clears the kill flag: a killed thread can never be invoked to an end again.
- A status "running" stays after a crash, and nothing recovers it. A step whose result
  was not checkpointed before the crash, the cancellation or the failure is run again by
  the next invocation: `LinearHistory` says that the checkpoints form one line, not that
  a step runs once.
- On Postgres an UPDATE of `agent_thread_state` whose connection is lost may take effect
  after its call has raised and after a later kill, and take the kill down, also when
  the calls follow one another (`LeaveInDoubt`; `SettledKillIsPermanent` counts such a
  write among those that a kill has to wait for).
- `checkpointing.py:3-6` says that the supervisor "delegates" to `PostgresSaver` where
  it is installed, `checkpointing.py:114-116` that it is handed through, and the
  repository's README (65-66) that the supervisor uses it; the code builds a
  `PostgresCheckpointer` always (`runtime.py:73`) and uses the probe for a line of
  `/health` only (`runtime.py:77-79`).
- `metrics.py:38` calls the percentile "NIST-style"; NIST's rank is p(n + 1), the code's
  is p(n - 1) counted from zero. The model has the code's.
- The `completed` of an earlier run is carried into the next through the checkpoint;
  a graph that never touches the key ends after one step.
- The killed event is published before the status "killed" is written; if the write
  fails an error event follows a killed one. `EventProtocol` allows it.
- `app.py:108-110` takes a 500 to "imply the agent ran and crashed". When the first
  two invocations of a thread overlap, the later INSERT violates the primary key
  before the start event: a 500 for an agent that never ran (`Conflict`).
- When the timeout of a command strikes as its child is exiting, `proc.kill()` may
  raise `ProcessLookupError` (`sandbox.py:97`, outside the inner `try`), and
  `run_command` raises it in place of a result; or the result says `timed_out` of a
  child that exited by itself, with its own status or with 255 (`Timeout`,
  `ExitStatus`). `ResultIsComplete` is about the other results only.
- What the first `communicate` had read is lost with the timeout (`Discard`): the
  output of a timed-out command is not all that it wrote.
- A cancelled `run_command` leaves its child running (`Cancel`); `NoChildIsLeft`
  excepts it.
- `get_database` keeps a Database whose `connect` failed (`connection.py:151-153`);
  a later caller in the same process would be handed it. Under the lifespan there is
  none: the start has failed and the process ends.
- When closing the bus raises, the lifespan's `finally` does not reach
  `reset_database` (`app.py:46-48`): the connection is closed by the end of the process.
- `runtime.py:126-127` says the caller takes a failed audit for "a hard 500"; the
  handler answers 503 (`app.py:103-110`), which is what the model does.
- `process_and_notify.py:325` prints `sent + 3` as "Total notifications sent": the three
  summaries are counted whether they were sent, failed or had nothing to say, and what
  they are added to is a number of batches.
- The daily summary says "Full daily digest report generated. N individual critical
  alerts sent" (line 215) before either is: the digest is another script, and N counts
  all critical permits, where 25 at most are alerted, in batches that may fail (the
  committed day has 73). `AnnouncedAlertsAreAccountedFor` says what becomes of N. The
  strategic summary refers to the digest likewise (line 181).
- The breakdown names four "municipalities with no activity today" (line 258) that are
  written into the code, whatever the day was like.
- "top 30 critical/strategic permits" (`generate_digest.py:61`) are up to 40 rows: 30
  critical ones, filled up with HIGH ones of three types. On a day with more than 30
  critical permits, the committed one among them, the table leaves critical ones out
  and lists HIGH ones.
- A Markdown digest that was cut off by the death of its script is not marked as such,
  and nothing refuses it.
- A script that is run again sends all its messages again; one that dies while it
  writes has destroyed the file of the run before.

## 7. What is not modelled, and why

- Wording and payloads of events, audit rows and log lines; timestamps and latencies.
- Read-only operations (`get_thread_status`, `list_audit`, `list_all`, `/ready`,
  `/health`, `/agent/status`): they change nothing. `/ready` appears in `Lifecycle` by
  what it asks of the settings, `/metrics/gates` in `GateMetrics`.
- `try_langgraph_postgres_saver`, `checkpoint_backend_info`: they report only.
- `_convert_params` (`?` to `$1`, `$2`): a conversion of constant texts, without state.
- The default values of `app/config.py`, and `reset_settings`, `set_event_bus`, which
  the tests use.
- The generator of permits that stands for the municipal portals (`fetch_permits.py`):
  a day is any sequence of permits. `format_valuation`, emoji, Markdown and Slack
  layout. Averages and "% of Total" in the digest's tables. The rate limit between alerts.
- aiosqlite, asyncpg and redis are external, as are the Slack tool and the converter;
  `Database` models what `connection.py` relies on of the first two, and
  `PROJECT.json` says so.

## 8. Plan

All components of the inventory are modelled, and every safety and action property is
proved. What could be added, in this order:

1. The composition of `Lifecycle` and `Supervisor`: a shutdown while invocations run,
   under a server that cancels them after a grace period. The `Dockerfile` sets none,
   so today the server waits.
2. `Supervisor` over `StatementStore` itself, in place of atomic statements: the
   refinement of section 5 says that this adds only what `Raise` and `Cancel` already
   allow (an effect whose acknowledgement is lost), with one difference, that the write
   of a cancelled call, or on Postgres of one that lost its connection, may take effect
   later. A late checkpoint would break the single line of `LinearHistory`; of the other
   writes it would have to be shown that no invocation can tell.
3. Two runs of one permit script at a time.

No module that is proved about declares a RECURSIVE operator; new algorithms are
written as recursive functions or with folds.

------------------------------- MODULE Lifecycle -------------------------------
(***************************************************************************)
(* Startup, service and shutdown: the lifespan of the application          *)
(* (app/api/app.py) and the three objects it keeps in module globals, the  *)
(* Database of app/db/connection.py, the event bus of                      *)
(* app/redis_bus/events.py and the Supervisor of app/agent/runtime.py.     *)
(*                                                                         *)
(* The lifespan and the request handlers call the same get_ functions,     *)
(* which build what they do not find, from settings that app/config.py     *)
(* reads from the environment once.  Objects are numbered in the order     *)
(* they are built in a process; 0 is None.  A function whose awaits find   *)
(* everything in place does not suspend: it is one step.                   *)
(***************************************************************************)
EXTENDS Naturals

CONSTANTS
  Requests,     \* the requests the server handles at one time
  Lifespan,     \* the task that runs the lifespan
  Statements,   \* the number of statements of the schema
  MaxObjects    \* bound: the objects built in one process

ASSUME LifecycleAssumption ==
  /\ Lifespan \notin Requests
  /\ Statements \in Nat
  /\ MaxObjects \in Nat

Tasks == Requests \cup {Lifespan}

VARIABLES
  environ,      \* os.environ: REDIS_URL unset, or set, or a bad timeout
  _cached,      \* the Settings
  pc,           \* where each task is
  db,           \* _db
  bus,          \* _bus
  supervisor,   \* _supervisor: the database and the bus it was given
  made,         \* the objects built in this process
  redis,        \* those that are a RedisEventBus
  connected,    \* the Databases with an open connection
  clients,      \* the buses with an open Redis client
  schema,       \* the statements of the schema the database file has seen
  statement,    \* those a task's migrate has executed
  wants,        \* which get_ function a request has called
  held          \* the database and bus a request works with

settings == <<environ, _cached>>

globals == <<db, bus, supervisor, made, redis>>

resources == <<connected, clients, schema>>

locals == <<statement, wants, held>>

vars == <<settings, pc, globals, resources, locals>>

Parts == [db : Nat, bus : Nat]

None == [db |-> 0, bus |-> 0]

Environments == {"null", "redis", "invalid"}

LifecycleTypeOK ==
  /\ environ \in Environments /\ _cached \in Environments \cup {"none"}
  /\ redis \subseteq Nat
  /\ pc \in [Tasks -> {"off", "idle", "get_database", "get_supervisor", "connect",
                       "migrate", "use", "serving", "draining", "reset_bus",
                       "reset_database", "stopped", "failed"}]
  /\ db \in Nat /\ bus \in Nat /\ supervisor \in Parts /\ made \in Nat
  /\ connected \subseteq Nat /\ clients \subseteq Nat
  /\ schema \in 0..Statements
  /\ statement \in [Tasks -> 0..Statements]
  /\ wants \in [Requests -> {"database", "supervisor"}]
  /\ held \in [Requests -> Parts]

\* Where the tasks of a process that has just started are.
Idle == [t \in Tasks |-> IF t = Lifespan THEN "off" ELSE "idle"]

Init ==
  /\ environ \in Environments /\ _cached = "none" /\ redis = {}
  /\ pc = Idle
  /\ db = 0 /\ bus = 0 /\ supervisor = None /\ made = 0
  /\ connected = {} /\ clients = {} /\ schema = 0
  /\ statement = [t \in Tasks |-> 0]
  /\ wants = [r \in Requests |-> "database"]
  /\ held = [r \in Requests |-> None]

Goto(t, l) == pc' = [pc EXCEPT ![t] = l]

\* An exception leaves the lifespan, or is answered with a 500.
Raise(t) == Goto(t, IF t = Lifespan THEN "failed" ELSE "idle")

------------------------------------------------------------------------------
(***************************************************************************)
(* get_settings.  The environment of a process may change under it, as the *)
(* fixtures of the tests change it; from_env raises on a timeout that is   *)
(* not a number.                                                           *)
(***************************************************************************)

\* Mutated form: the environment is read at every call.
ReadEnvironment == environ # "invalid" /\ _cached' = environ

GetSettings ==
  \/ _cached # "none" /\ UNCHANGED _cached
  \/ _cached = "none" /\ environ # "invalid" /\ _cached' = environ

Setenv ==
  /\ environ' \in Environments \ {environ}
  /\ UNCHANGED <<_cached, pc, globals, resources, locals>>

(***************************************************************************)
(* get_event_bus and the end of get_supervisor, which build their objects  *)
(* without suspending.                                                     *)
(***************************************************************************)
BusOf(b, n) == IF b = 0 THEN n + 1 ELSE b

GetEventBus ==
  \/ bus # 0 /\ UNCHANGED <<_cached, bus, made, redis>>
  \/ /\ bus = 0
     /\ GetSettings
     /\ bus' = BusOf(bus, made)
     /\ made' = made + 1
     /\ redis' = IF _cached' = "redis" THEN redis \cup {bus'} ELSE redis

NewSupervisor == [db |-> db, bus |-> BusOf(bus, made)]

\* What the caller of get_database does with the Database returned.
Return(t) ==
  \/ /\ t = Lifespan
     /\ GetEventBus
     /\ supervisor' = IF supervisor = None THEN NewSupervisor ELSE supervisor
     /\ Goto(t, "serving")
     /\ UNCHANGED held
  \/ /\ t \in Requests /\ wants[t] = "database"
     /\ held' = [held EXCEPT ![t] = [db |-> db, bus |-> bus]]
     /\ Goto(t, "use")
     /\ UNCHANGED <<_cached, bus, supervisor, made, redis>>
  \/ /\ t \in Requests /\ wants[t] = "supervisor"
     /\ GetEventBus
     /\ supervisor' = NewSupervisor
     /\ held' = [held EXCEPT ![t] = NewSupervisor]
     /\ Goto(t, "use")

\* _db is set before the connection exists.
GetDatabase(t) ==
  /\ pc[t] = "get_database"
  /\ \/ /\ db # 0
        /\ Return(t)
        /\ UNCHANGED db
     \/ /\ db = 0 /\ made < MaxObjects
        /\ GetSettings
        /\ made' = made + 1
        /\ db' = made + 1
        /\ Goto(t, "connect")
        /\ UNCHANGED <<bus, supervisor, redis, held>>
  /\ UNCHANGED <<environ, resources, statement, wants>>

\* The settings cannot be read, and nothing is built.
SettingsFail(t) ==
  /\ pc[t] = "get_database" /\ db = 0
  /\ _cached = "none" /\ environ = "invalid"
  /\ Raise(t)
  /\ UNCHANGED <<settings, globals, resources, locals>>

GetSupervisor(r) ==
  /\ pc[r] = "get_supervisor"
  /\ IF supervisor = None
     THEN Goto(r, "get_database") /\ UNCHANGED held
     ELSE Goto(r, "use") /\ held' = [held EXCEPT ![r] = supervisor]
  /\ UNCHANGED <<settings, globals, resources, statement, wants>>

Connect(t) ==
  /\ pc[t] = "connect"
  /\ connected' = connected \cup {db}
  /\ statement' = [statement EXCEPT ![t] = 0]
  /\ Goto(t, "migrate")
  /\ UNCHANGED <<settings, globals, clients, schema, wants, held>>

\* SQLite may refuse the file, or the PRAGMA that follows.
ConnectFails(t) ==
  /\ pc[t] = "connect"
  /\ connected' \in {connected, connected \cup {db}}
  /\ Raise(t)
  /\ UNCHANGED <<settings, globals, clients, schema, locals>>

\* Mutated form: one statement too many.
MigrateTooFar(t) ==
  /\ pc[t] = "migrate"
  /\ \/ /\ statement[t] <= Statements
        /\ statement' = [statement EXCEPT ![t] = @ + 1]
        /\ schema' = IF schema < statement[t] + 1 THEN statement[t] + 1 ELSE schema
        /\ UNCHANGED <<_cached, pc, globals, held>>
     \/ /\ statement[t] > Statements
        /\ Return(t)
        /\ UNCHANGED <<db, schema, statement>>
  /\ UNCHANGED <<environ, connected, clients, wants>>

\* Every statement says IF NOT EXISTS; after the last one the call returns.
Migrate(t) ==
  /\ pc[t] = "migrate"
  /\ \/ /\ statement[t] < Statements
        /\ statement' = [statement EXCEPT ![t] = @ + 1]
        /\ schema' = IF schema < statement[t] + 1 THEN statement[t] + 1 ELSE schema
        /\ UNCHANGED <<_cached, pc, globals, held>>
     \/ /\ statement[t] = Statements
        /\ Return(t)
        /\ UNCHANGED <<db, schema, statement>>
  /\ UNCHANGED <<environ, connected, clients, wants>>

\* Mutated form: the schema is tried again from its first statement.
MigrateRetried(t) ==
  /\ pc[t] = "migrate" /\ 0 < statement[t] /\ statement[t] < Statements
  /\ statement' = [statement EXCEPT ![t] = 0]
  /\ UNCHANGED <<settings, pc, globals, resources, wants, held>>

MigrateFails(t) ==
  /\ pc[t] = "migrate" /\ statement[t] < Statements
  /\ Raise(t)
  /\ UNCHANGED <<settings, globals, resources, locals>>

------------------------------------------------------------------------------
(***************************************************************************)
(* The lifespan.  The server runs it, and sends requests while it yields;  *)
(* a process may run it several times, one after the other, until one      *)
(* fails.                                                                  *)
(***************************************************************************)

\* Mutated form: it yields at once and leaves the building to the requests.
StartLazily ==
  /\ pc[Lifespan] \in {"off", "stopped"}
  /\ made + 2 <= MaxObjects
  /\ Goto(Lifespan, "serving")
  /\ UNCHANGED <<settings, globals, resources, locals>>

Start ==
  /\ pc[Lifespan] \in {"off", "stopped"}
  /\ made + 2 <= MaxObjects
  /\ Goto(Lifespan, "get_database")
  /\ UNCHANGED <<settings, globals, resources, locals>>

\* The server takes no more requests and waits for those it has.
Stop ==
  /\ pc[Lifespan] = "serving"
  /\ Goto(Lifespan, "draining")
  /\ UNCHANGED <<settings, globals, resources, locals>>

\* Mutated form: the next lifespan finds the supervisor of this one.
KeepSupervisor ==
  /\ pc[Lifespan] = "draining" /\ \A r \in Requests : pc[r] = "idle"
  /\ Goto(Lifespan, "reset_bus")
  /\ UNCHANGED <<settings, globals, resources, locals>>

ResetSupervisor ==
  /\ pc[Lifespan] = "draining" /\ \A r \in Requests : pc[r] = "idle"
  /\ supervisor' = None
  /\ Goto(Lifespan, "reset_bus")
  /\ UNCHANGED <<settings, db, bus, made, redis, resources, locals>>

\* Mutated form: the bus is discarded and not closed.
DiscardEventBus ==
  /\ pc[Lifespan] = "reset_bus"
  /\ bus' = 0
  /\ Goto(Lifespan, "reset_database")
  /\ UNCHANGED <<settings, db, supervisor, made, redis, resources, locals>>

ResetEventBus ==
  /\ pc[Lifespan] = "reset_bus"
  /\ clients' = clients \ {bus}
  /\ bus' = 0
  /\ Goto(Lifespan, "reset_database")
  /\ UNCHANGED <<settings, db, supervisor, made, redis, connected, schema, locals>>

ResetDatabase ==
  /\ pc[Lifespan] = "reset_database"
  /\ connected' = connected \ {db}
  /\ db' = 0
  /\ Goto(Lifespan, "stopped")
  /\ UNCHANGED <<settings, bus, supervisor, made, redis, clients, schema, locals>>

\* A close that raises ends the lifespan, with the database still open.
ResetFails ==
  /\ pc[Lifespan] \in {"reset_bus", "reset_database"}
  /\ Raise(Lifespan)
  /\ UNCHANGED <<settings, globals, resources, locals>>

\* The process ends, after a lifespan that failed or at any other time; the
\* next one has an environment of its own.
Crash ==
  /\ environ' \in Environments /\ _cached' = "none" /\ redis' = {}
  /\ pc' = Idle
  /\ db' = 0 /\ bus' = 0 /\ supervisor' = None /\ made' = 0
  /\ connected' = {} /\ clients' = {}
  /\ UNCHANGED <<schema, locals>>

------------------------------------------------------------------------------
(***************************************************************************)
(* A request: the handler gets the supervisor (/agent/invoke, /health) or  *)
(* the database (the others; /ready asks get_settings first whether Redis  *)
(* is to be checked), and uses them until it is done.                      *)
(***************************************************************************)
Arrive(r) ==
  /\ pc[Lifespan] = "serving" /\ pc[r] = "idle"
  /\ \/ /\ Goto(r, "get_supervisor") /\ wants' = [wants EXCEPT ![r] = "supervisor"]
        /\ UNCHANGED _cached
     \/ /\ Goto(r, "get_database") /\ wants' = [wants EXCEPT ![r] = "database"]
        /\ UNCHANGED _cached \/ GetSettings
  /\ UNCHANGED <<environ, globals, resources, statement, held>>

\* Events and pings open the client of a Redis bus; a NullEventBus has none.
Publish(r) ==
  /\ pc[r] = "use" /\ held[r].bus \in redis
  /\ clients' = clients \cup {held[r].bus}
  /\ UNCHANGED <<settings, pc, globals, connected, schema, locals>>

Respond(r) ==
  /\ pc[r] = "use"
  /\ Goto(r, "idle")
  /\ UNCHANGED <<settings, globals, resources, locals>>

Getting(t) == GetDatabase(t) \/ Connect(t) \/ Migrate(t)

Failing(t) == SettingsFail(t) \/ ConnectFails(t) \/ MigrateFails(t)

Handling(r) == GetSupervisor(r) \/ Getting(r) \/ Respond(r)

Resetting == ResetSupervisor \/ ResetEventBus \/ ResetDatabase

Next ==
  \/ Start
  \/ Stop
  \/ Resetting
  \/ ResetFails
  \/ Getting(Lifespan)
  \/ Failing(Lifespan)
  \/ \E r \in Requests : Arrive(r) \/ Publish(r) \/ Handling(r)
  \/ Setenv
  \/ Crash

Spec == Init /\ [][Next]_vars

\* The event loop goes on with every task; it owes nobody a start or a stop.
FairSpec ==
  /\ Spec
  /\ WF_vars(Getting(Lifespan) \/ SettingsFail(Lifespan)) /\ WF_vars(Resetting)
  /\ \A r \in Requests : WF_vars(Handling(r))

------------------------------------------------------------------------------
(***************************************************************************)
(* A request never works with a Database that is not connected, that is    *)
(* closed under its hands, or whose schema is not complete, whatever       *)
(* starts failed before and wherever the process died: get_database hands  *)
(* out what it finds, ready or not.                                        *)
(***************************************************************************)
RequestsFindTheDatabaseReady ==
  \A r \in Requests : pc[r] = "use" =>
    held[r].db \in connected /\ schema = Statements

(***************************************************************************)
(* The parts belong together: a request works with the database and the    *)
(* bus of the running lifespan, the ones shutdown will close, and never    *)
(* with a supervisor left over from an earlier one.                        *)
(***************************************************************************)
PartsBelongTogether ==
  \A r \in Requests : pc[r] = "use" => held[r] = [db |-> db, bus |-> bus]

(***************************************************************************)
(* One process, one configuration: the bus the events go to is a Redis bus *)
(* exactly when get_settings says so, and /ready checks Redis by that,     *)
(* over any number of lifespans and whatever becomes of the environment.   *)
(***************************************************************************)
ReadyChecksTheBusInUse == bus # 0 => (bus \in redis <=> _cached = "redis")

(***************************************************************************)
(* A lifespan that stopped without an error leaves no connection and no    *)
(* client open, also those opened by requests during its shutdown.         *)
(***************************************************************************)
NothingStaysOpen == pc[Lifespan] = "stopped" => connected = {} /\ clients = {}

(***************************************************************************)
(* A start comes to service or to a failure, and a shutdown to its end,    *)
(* whatever fails on the way and however many requests are under way.      *)
(***************************************************************************)
StartsAndStopsEnd ==
  /\ pc[Lifespan] = "get_database" ~> pc[Lifespan] \in {"serving", "failed", "off"}
  /\ pc[Lifespan] = "draining" ~> pc[Lifespan] \in {"stopped", "failed", "off"}

==============================================================================

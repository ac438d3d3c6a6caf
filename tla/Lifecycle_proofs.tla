--------------------------- MODULE Lifecycle_proofs ---------------------------
(***************************************************************************)
(* Proofs about Lifecycle, for any number of requests, any schema and any  *)
(* number of lifespans in a process: requests find the database ready and  *)
(* the parts of the running lifespan, and a clean stop leaves nothing      *)
(* open.                                                                   *)
(***************************************************************************)
EXTENDS Lifecycle, TLAPS

Built == db # 0 /\ connected = {db}

(***************************************************************************)
(* What stands at each point of the lifespan.  The properties speak of     *)
(* requests in service; they hold because nothing is there before a start, *)
(* one step adds one thing, and requests come only after the last and are  *)
(* gone before the first is taken down.                                    *)
(***************************************************************************)
PhaseInv ==
  LET l == pc[Lifespan] IN
  /\ l \in {"off", "get_database", "connect", "migrate", "serving", "draining",
            "reset_bus", "reset_database", "stopped", "failed"}
  /\ l \in {"off", "get_database", "stopped"} => db = 0 /\ connected = {}
  /\ l = "connect" => db # 0 /\ connected = {}
  /\ l \in {"migrate", "serving", "draining", "reset_bus", "reset_database"} => Built
  /\ l = "migrate" => statement[Lifespan] <= schema
  /\ l \in {"serving", "draining"} => /\ schema = Statements /\ bus # 0
                                      /\ supervisor = [db |-> db, bus |-> bus]
  /\ l \in {"serving", "draining", "reset_bus"} => clients \subseteq {bus}
  /\ l \in {"off", "get_database", "connect", "migrate", "reset_database", "stopped"} =>
       bus = 0 /\ clients = {}
  /\ l \in {"off", "get_database", "connect", "migrate",
            "reset_bus", "reset_database", "stopped"} => supervisor = None

RequestInv ==
  \A r \in Requests :
    /\ pc[r] \in {"idle", "get_database", "get_supervisor", "use"}
    /\ pc[r] # "idle" => pc[Lifespan] \in {"serving", "draining"}
    /\ pc[r] = "use" => held[r] = [db |-> db, bus |-> bus]

LifecycleInv == LifecycleTypeOK /\ PhaseInv /\ RequestInv

\* The requests are tasks of their own.
LEMMA RequestsApart == \A r \in Requests : r # Lifespan /\ r \in Tasks
  BY LifecycleAssumption DEF Tasks

------------------------------------------------------------------------------
LEMMA StartUp ==
  ASSUME LifecycleInv, Start \/ Getting(Lifespan) \/ Failing(Lifespan) \/ Setenv
  PROVE  LifecycleInv'
<1> USE LifecycleAssumption, RequestsApart
    DEF LifecycleInv, LifecycleTypeOK, Goto, settings, globals, resources, locals, Tasks
<1>1. CASE Start
  BY <1>1 DEF Start, PhaseInv, RequestInv, Built
<1>2. CASE GetDatabase(Lifespan)
  <2>1. /\ pc[Lifespan] = "get_database" /\ made' = made + 1 /\ db' = made + 1
        /\ Goto(Lifespan, "connect") /\ UNCHANGED <<bus, supervisor, redis, held>>
        /\ UNCHANGED <<environ, resources, statement, wants>>
        /\ _cached' \in Environments \cup {"none"}
    BY <1>2 DEF GetDatabase, GetSettings, PhaseInv
  <2> QED
    BY <2>1 DEF PhaseInv, RequestInv, Built
<1>3. CASE Connect(Lifespan)
  <2>1. /\ connected' = {db} /\ statement' = [statement EXCEPT ![Lifespan] = 0]
        /\ db # 0 /\ pc[Lifespan] = "connect" /\ Goto(Lifespan, "migrate")
        /\ UNCHANGED <<settings, globals, clients, schema, wants, held>>
    BY <1>3 DEF Connect, PhaseInv
  <2>2. LifecycleTypeOK'
    BY <2>1
  <2>3. PhaseInv' /\ RequestInv'
    BY <2>1 DEF PhaseInv, RequestInv, Built
  <2> QED
    BY <2>2, <2>3
<1>4. CASE Migrate(Lifespan)
  <2>1. CASE statement[Lifespan] < Statements
    <3>1. /\ statement' = [statement EXCEPT ![Lifespan] = @ + 1]
          /\ schema' = IF schema < statement[Lifespan] + 1
                       THEN statement[Lifespan] + 1 ELSE schema
          /\ UNCHANGED <<settings, pc, globals, held, connected, clients, wants>>
          /\ pc[Lifespan] = "migrate"
      BY <1>4, <2>1 DEF Migrate
    <3>2. LifecycleTypeOK'
      BY <2>1, <3>1
    <3>3. PhaseInv' /\ RequestInv'
      BY <2>1, <3>1 DEF PhaseInv, RequestInv, Built
    <3> QED
      BY <3>2, <3>3
  <2>2. CASE statement[Lifespan] = Statements
    <3>1. /\ pc[Lifespan] = "migrate" /\ Return(Lifespan)
          /\ UNCHANGED <<environ, db, schema, statement, connected, clients, wants>>
      BY <1>4, <2>2 DEF Migrate
    <3>2. /\ bus' = made + 1 /\ made' = made + 1
          /\ redis' \subseteq redis \cup {made + 1}
          /\ _cached' \in Environments \cup {"none"}
          /\ supervisor' = [db |-> db, bus |-> made + 1]
          /\ Goto(Lifespan, "serving") /\ UNCHANGED held
      BY <3>1 DEF Return, GetEventBus, GetSettings, BusOf, NewSupervisor, PhaseInv
    <3>3. LifecycleTypeOK'
      BY <3>1, <3>2 DEF Parts
    <3>4. schema = Statements
      BY <2>2, <3>1 DEF PhaseInv
    <3>5. PhaseInv' /\ RequestInv'
      BY <3>1, <3>2, <3>4 DEF PhaseInv, RequestInv, Built
    <3> QED
      BY <3>3, <3>5
  <2> QED
    BY <1>4, <2>1, <2>2 DEF Migrate
<1>5. CASE ConnectFails(Lifespan)
  BY <1>5 DEF ConnectFails, Raise, PhaseInv, RequestInv, Built
<1>6. CASE MigrateFails(Lifespan)
  BY <1>6 DEF MigrateFails, Raise, PhaseInv, RequestInv, Built
<1>7. CASE SettingsFail(Lifespan)
  BY <1>7 DEF SettingsFail, Raise, PhaseInv, RequestInv, Built
<1>8. CASE Setenv
  BY <1>8 DEF Setenv, PhaseInv, RequestInv, Built
<1> QED
  BY <1>1, <1>2, <1>3, <1>4, <1>5, <1>6, <1>7, <1>8 DEF Getting, Failing

LEMMA ShutDown ==
  ASSUME LifecycleInv, Stop \/ Resetting \/ ResetFails \/ Crash
  PROVE  LifecycleInv'
<1> USE LifecycleAssumption, RequestsApart
    DEF LifecycleInv, LifecycleTypeOK, Goto, settings, globals, resources, locals, Tasks
<1>1. CASE Stop
  BY <1>1 DEF Stop, PhaseInv, RequestInv, Built
<1>2. CASE ResetSupervisor
  BY <1>2 DEF ResetSupervisor, PhaseInv, RequestInv, Built, None, Parts
<1>3. CASE ResetEventBus
  BY <1>3 DEF ResetEventBus, PhaseInv, RequestInv, Built
<1>4. CASE ResetDatabase
  BY <1>4 DEF ResetDatabase, PhaseInv, RequestInv, Built
<1>5. CASE ResetFails
  BY <1>5 DEF ResetFails, Raise, PhaseInv, RequestInv, Built
<1>6. CASE Crash
  BY <1>6 DEF Crash, Idle, PhaseInv, RequestInv, Built, None, Parts
<1> QED
  BY <1>1, <1>2, <1>3, <1>4, <1>5, <1>6 DEF Resetting

LEMMA Service ==
  ASSUME LifecycleInv, NEW r \in Requests, Arrive(r) \/ Publish(r) \/ Handling(r)
  PROVE  LifecycleInv'
<1> USE LifecycleAssumption, RequestsApart
    DEF LifecycleInv, LifecycleTypeOK, Goto, settings, globals, resources, locals, Tasks
<1>1. CASE Arrive(r)
  BY <1>1 DEF Arrive, GetSettings, PhaseInv, RequestInv, Built
<1>2. CASE Publish(r)
  <2>1. held[r].bus = bus /\ pc[Lifespan] \in {"serving", "draining"}
    BY <1>2 DEF Publish, RequestInv
  <2>2. clients' = clients \cup {bus} /\ UNCHANGED <<settings, pc, globals, connected, schema, locals>>
    BY <1>2, <2>1 DEF Publish
  <2>3. LifecycleTypeOK'
    BY <2>2
  <2>4. PhaseInv' /\ RequestInv'
    BY <2>1, <2>2 DEF PhaseInv, RequestInv, Built
  <2> QED
    BY <2>3, <2>4
<1>3. CASE Respond(r)
  BY <1>3 DEF Respond, PhaseInv, RequestInv, Built
<1>4. CASE GetSupervisor(r)
  <2>1. /\ pc[r] = "get_supervisor" /\ Goto(r, "use")
        /\ held' = [held EXCEPT ![r] = supervisor]
        /\ supervisor = [db |-> db, bus |-> bus] /\ pc[Lifespan] \in {"serving", "draining"}
        /\ UNCHANGED <<settings, globals, resources, statement, wants>>
    BY <1>4 DEF GetSupervisor, PhaseInv, RequestInv, None
  <2> QED
    BY <2>1 DEF PhaseInv, RequestInv, Built
<1>5. CASE GetDatabase(r)
  <2>1. /\ pc[r] = "get_database" /\ pc[Lifespan] \in {"serving", "draining"}
        /\ db # 0 /\ bus # 0 /\ supervisor = [db |-> db, bus |-> bus]
        /\ Return(r) /\ UNCHANGED <<environ, db, resources, statement, wants>>
    BY <1>5 DEF GetDatabase, PhaseInv, RequestInv, Built
  <2>2. /\ UNCHANGED <<_cached, bus, supervisor, made, redis>> /\ Goto(r, "use")
        /\ held' = [held EXCEPT ![r] = [db |-> db, bus |-> bus]]
    BY <2>1 DEF Return, GetEventBus, BusOf, NewSupervisor
  <2> QED
    BY <2>1, <2>2 DEF PhaseInv, RequestInv, Built, Parts
<1>6. ~Connect(r) /\ ~Migrate(r)
  BY DEF Connect, Migrate, RequestInv
<1> QED
  BY <1>1, <1>2, <1>3, <1>4, <1>5, <1>6 DEF Handling, Getting

(***************************************************************************)
(* The settings in use are the first ones read, and the buses were built   *)
(* by them.                                                                *)
(***************************************************************************)
SettingsInv ==
  /\ \A b \in redis : b <= made
  /\ bus # 0 => _cached # "none" /\ (bus \in redis <=> _cached = "redis")

LEMMA SettingsStep == LifecycleTypeOK /\ SettingsInv /\ [Next]_vars => SettingsInv'
<1> SUFFICES ASSUME LifecycleTypeOK, SettingsInv, [Next]_vars PROVE SettingsInv'
  OBVIOUS
<1> USE DEF settings, globals, resources, locals
<1>k. ASSUME UNCHANGED _cached \/ GetSettings, UNCHANGED redis, made' \in {made, made + 1},
             bus' \in {0, bus}
      PROVE  SettingsInv'
  BY <1>k DEF SettingsInv, GetSettings, LifecycleTypeOK
<1>b. ASSUME GetEventBus PROVE SettingsInv'
  <2>1. CASE bus # 0
    BY <1>b, <1>k, <2>1 DEF GetEventBus
  <2>2. CASE bus = 0
    <3>1. /\ bus' = made + 1 /\ made' = made + 1 /\ _cached' # "none"
          /\ redis' = IF _cached' = "redis" THEN redis \cup {made + 1} ELSE redis
      BY <1>b, <2>2 DEF GetEventBus, GetSettings, BusOf, LifecycleTypeOK, Environments
    <3>2. made \in Nat /\ redis \subseteq Nat /\ \A b \in redis : b <= made
      BY DEF LifecycleTypeOK, SettingsInv
    <3>3. made + 1 \notin redis /\ \A b \in redis' : b <= made + 1
      BY <3>1, <3>2
    <3> QED
      BY <3>1, <3>3 DEF SettingsInv
  <2> QED
    BY <2>1, <2>2
<1>r. ASSUME NEW t, Return(t) PROVE SettingsInv'
  BY <1>b, <1>k, <1>r DEF Return
<1>g. ASSUME NEW t, Getting(t) PROVE SettingsInv'
  <2>1. CASE GetDatabase(t)
    BY <1>k, <1>r, <2>1 DEF GetDatabase
  <2>2. CASE Connect(t)
    BY <1>k, <2>2 DEF Connect
  <2>3. CASE Migrate(t)
    BY <1>k, <1>r, <2>3 DEF Migrate
  <2> QED
    BY <1>g, <2>1, <2>2, <2>3 DEF Getting
<1>1. CASE Start \/ Stop \/ Resetting \/ ResetFails
  BY <1>1, <1>k DEF Start, Stop, Resetting, ResetFails, ResetSupervisor, ResetEventBus,
                    ResetDatabase
<1>2. CASE Failing(Lifespan)
  BY <1>2, <1>k DEF Failing, SettingsFail, ConnectFails, MigrateFails
<1>3. ASSUME NEW q \in Requests, Arrive(q) \/ Publish(q) \/ Handling(q) PROVE SettingsInv'
  BY <1>3, <1>g, <1>k DEF Arrive, Publish, Handling, GetSupervisor, Respond
<1>4. CASE Setenv \/ UNCHANGED vars
  BY <1>4, <1>k DEF Setenv, vars
<1>5. CASE Crash
  BY <1>5 DEF Crash, SettingsInv
<1> QED
  BY <1>1, <1>2, <1>3, <1>4, <1>5, <1>g DEF Next

LEMMA LifecycleInvariance == Spec => [](LifecycleInv /\ SettingsInv)
<1>1. Init => LifecycleInv /\ SettingsInv
  BY LifecycleAssumption, RequestsApart
     DEF Init, Idle, LifecycleInv, LifecycleTypeOK, PhaseInv, RequestInv, None, Parts, Tasks,
         Environments, SettingsInv
<1>2. LifecycleInv /\ [Next]_vars => LifecycleInv'
  <2>1. ASSUME LifecycleInv, UNCHANGED vars PROVE LifecycleInv'
    BY <2>1 DEF vars, settings, globals, resources, locals, LifecycleInv, LifecycleTypeOK,
                PhaseInv, RequestInv, Built
  <2> QED
    BY <2>1, StartUp, ShutDown, Service DEF Next
<1>3. LifecycleInv /\ SettingsInv /\ [Next]_vars => SettingsInv'
  BY SettingsStep DEF LifecycleInv
<1> QED
  BY <1>1, <1>2, <1>3, PTL DEF Spec

------------------------------------------------------------------------------
(***************************************************************************)
(* The types of the globals, the tasks and the resources                   *)
(* (LifecycleTypeOK).                                                      *)
(***************************************************************************)
THEOREM TypeCorrect == Spec => []LifecycleTypeOK
  BY LifecycleInvariance, PTL DEF LifecycleInv

(***************************************************************************)
(* get_database hands out what it finds, and under the lifespan that is a  *)
(* connected Database with a complete schema                               *)
(* (RequestsFindTheDatabaseReady).                                         *)
(***************************************************************************)
THEOREM DatabaseIsReady == Spec => []RequestsFindTheDatabaseReady
<1>1. LifecycleInv => RequestsFindTheDatabaseReady
  BY DEF LifecycleInv, PhaseInv, RequestInv, Built, RequestsFindTheDatabaseReady
<1> QED
  BY <1>1, LifecycleInvariance, PTL

(***************************************************************************)
(* A request works with the parts of the running lifespan                  *)
(* (PartsBelongTogether).                                                  *)
(***************************************************************************)
THEOREM PartsAreCurrent == Spec => []PartsBelongTogether
<1>1. LifecycleInv => PartsBelongTogether
  BY DEF LifecycleInv, RequestInv, PartsBelongTogether
<1> QED
  BY <1>1, LifecycleInvariance, PTL

(***************************************************************************)
(* /ready checks Redis exactly when the bus in use is one                  *)
(* (ReadyChecksTheBusInUse).                                               *)
(***************************************************************************)
THEOREM ReadyIsConsistent == Spec => []ReadyChecksTheBusInUse
<1>1. SettingsInv => ReadyChecksTheBusInUse
  BY DEF SettingsInv, ReadyChecksTheBusInUse
<1> QED
  BY <1>1, LifecycleInvariance, PTL

(***************************************************************************)
(* A clean stop leaves nothing open (NothingStaysOpen).                    *)
(***************************************************************************)
THEOREM StopsAreClean == Spec => []NothingStaysOpen
<1>1. LifecycleInv => NothingStaysOpen
  BY DEF LifecycleInv, PhaseInv, NothingStaysOpen
<1> QED
  BY <1>1, LifecycleInvariance, PTL

==============================================================================

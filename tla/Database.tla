------------------------------- MODULE Database -------------------------------
(***************************************************************************)
(* Database.execute (app/db/connection.py), on either dialect.  SQLite: one *)
(* connection for all coroutines, an asyncio lock around the statement and *)
(* its commit, and the worker thread of aiosqlite, which runs what it is   *)
(* sent in order and goes on doing so when the coroutine that awaits it is *)
(* cancelled.  Postgres: a pool of connections, and a server that commits  *)
(* each statement as it executes it.                                       *)
(*                                                                         *)
(* A write is named by the call that makes it.  fetch_one and fetch_all    *)
(* take the same lock, or a connection of the same pool, and execute_many  *)
(* has the shape of execute.                                               *)
(***************************************************************************)
EXTENDS Naturals, Sequences

CONSTANTS
  Writes,       \* the calls of execute; each makes one write
  NoWrite,      \* the holder of the lock, or of a connection, that is free
  Connections,  \* the connections of the Postgres pool (max_size)
  MayCrash      \* may the process die?

ASSUME DatabaseAssumption == NoWrite \notin Writes /\ MayCrash \in BOOLEAN

VARIABLES
  dialect,      \* "sqlite" or "postgres", from the url
  durable,      \* the committed writes, in order
  pending,      \* those of the connection's open transaction
  queue,        \* the operations sent to aiosqlite's thread
  _lock,        \* the call that holds self._lock, or NoWrite
  _pg_pool,     \* the call each connection of the pool works for, or NoWrite
  adrift,       \* the writes at the server whose connection is gone
  pc            \* what each call awaits, or how it ended

sqlite == <<pending, queue, _lock>>

postgres == <<_pg_pool, adrift>>

vars == <<dialect, durable, sqlite, postgres, pc>>

Ends == {"returned", "failed", "broken", "cancelled", "lost"}

Operation == [call : Writes, op : {"execute", "commit"}]

\* The types, and that the lock is with the call inside `async with`; each
\* dialect leaves the other's state alone.
DatabaseTypeOK ==
  /\ dialect \in {"sqlite", "postgres"}
  /\ durable \in Seq(Writes)
  /\ pending \in Seq(Writes)
  /\ queue \in Seq(Operation)
  /\ _lock \in Writes \cup {NoWrite}
  /\ _pg_pool \in [Connections -> Writes \cup {NoWrite}]
  /\ adrift \subseteq Writes
  /\ pc \in [Writes -> {"idle", "lock", "execute", "commit"} \cup Ends]
  /\ dialect = "sqlite" =>
       /\ \A w \in Writes : _lock = w <=> pc[w] \in {"execute", "commit"}
       /\ \A c \in Connections : _pg_pool[c] = NoWrite
       /\ adrift = {}
  /\ dialect = "postgres" =>
       /\ \A w \in Writes : pc[w] # "commit"
       /\ pending = <<>> /\ queue = <<>> /\ _lock = NoWrite

Init ==
  /\ dialect \in {"sqlite", "postgres"}
  /\ durable = <<>>
  /\ pending = <<>>
  /\ queue = <<>>
  /\ _lock = NoWrite
  /\ _pg_pool = [c \in Connections |-> NoWrite]
  /\ adrift = {}
  /\ pc = [w \in Writes |-> "idle"]

Goto(w, l) == pc' = [pc EXCEPT ![w] = l]

\* Leave the `async with` block, if w is in it, and the call.
Leave(w, end) ==
  /\ Goto(w, end)
  /\ _lock' = IF _lock = w THEN NoWrite ELSE _lock

Call(w) ==
  /\ pc[w] = "idle"
  /\ Goto(w, "lock")
  /\ UNCHANGED <<dialect, durable, sqlite, postgres>>

------------------------------------------------------------------------------
(***************************************************************************)
(* SQLite.                                                                 *)
(***************************************************************************)

\* Mutated form: execute without the lock.
AcquireUnlocked(w) ==
  /\ dialect = "sqlite" /\ pc[w] = "lock"
  /\ _lock' = w
  /\ Goto(w, "execute")
  /\ queue' = Append(queue, [call |-> w, op |-> "execute"])
  /\ UNCHANGED <<dialect, durable, pending, postgres>>

Acquire(w) ==
  /\ dialect = "sqlite" /\ pc[w] = "lock"
  /\ _lock = NoWrite
  /\ _lock' = w
  /\ Goto(w, "execute")
  /\ queue' = Append(queue, [call |-> w, op |-> "execute"])
  /\ UNCHANGED <<dialect, durable, pending, postgres>>

(***************************************************************************)
(* aiosqlite's thread runs the first operation of its queue.  Its answer   *)
(* reaches the call only if that still awaits it.  A statement that is     *)
(* refused has no effect; a commit that fails leaves the transaction open. *)
(***************************************************************************)
Serving(op) == queue # <<>> /\ Head(queue).op = op

Awaited == pc[Head(queue).call] = Head(queue).op

\* Mutated form: execute returns without a commit.
ExecutedWithoutCommit ==
  /\ Serving("execute")
  /\ pending' = Append(pending, Head(queue).call)
  /\ queue' = Tail(queue)
  /\ IF Awaited THEN Leave(Head(queue).call, "returned") ELSE UNCHANGED <<pc, _lock>>
  /\ UNCHANGED <<dialect, durable, postgres>>

Executed ==
  /\ Serving("execute")
  /\ pending' = Append(pending, Head(queue).call)
  /\ \/ /\ Awaited
        /\ Goto(Head(queue).call, "commit")
        /\ queue' = Append(Tail(queue), [call |-> Head(queue).call, op |-> "commit"])
     \/ /\ ~Awaited
        /\ queue' = Tail(queue)
        /\ UNCHANGED pc
  /\ UNCHANGED <<dialect, durable, _lock, postgres>>

Committed ==
  /\ Serving("commit")
  /\ durable' = durable \o pending
  /\ pending' = <<>>
  /\ queue' = Tail(queue)
  /\ IF Awaited THEN Leave(Head(queue).call, "returned") ELSE UNCHANGED <<pc, _lock>>
  /\ UNCHANGED <<dialect, postgres>>

\* Mutated form: a refused operation is tried again although its call was told.
RefusedAndRetried ==
  /\ queue # <<>>
  /\ IF Awaited THEN Leave(Head(queue).call, "failed") ELSE UNCHANGED <<pc, _lock>>
  /\ UNCHANGED <<dialect, durable, pending, queue, postgres>>

Refused ==
  /\ queue # <<>>
  /\ queue' = Tail(queue)
  /\ IF Awaited THEN Leave(Head(queue).call, "failed") ELSE UNCHANGED <<pc, _lock>>
  /\ UNCHANGED <<dialect, durable, pending, postgres>>

------------------------------------------------------------------------------
(***************************************************************************)
(* Postgres.  A call takes a connection that is free, and the connection   *)
(* is free again when the server is done with the statement: asyncpg waits *)
(* for that also when the call is cancelled.                               *)
(***************************************************************************)
InTable(w) == \E i \in 1..Len(durable) : durable[i] = w

AcquireConnection(w, c) ==
  /\ dialect = "postgres" /\ pc[w] = "lock"
  /\ _pg_pool[c] = NoWrite
  /\ _pg_pool' = [_pg_pool EXCEPT ![c] = w]
  /\ Goto(w, "execute")
  /\ UNCHANGED <<dialect, durable, sqlite, adrift>>

\* The pool opens a connection on demand, and the server may refuse it.
AcquireFails(w) ==
  /\ dialect = "postgres" /\ pc[w] = "lock"
  /\ Goto(w, "failed")
  /\ UNCHANGED <<dialect, durable, sqlite, postgres>>

\* The server executes the statement and commits it.
Runs(c) ==
  /\ _pg_pool[c] # NoWrite /\ ~InTable(_pg_pool[c])
  /\ durable' = Append(durable, _pg_pool[c])
  /\ UNCHANGED <<dialect, sqlite, postgres, pc>>

\* Mutated form: the connection of a cancelled call is not given back.
ReleaseAwaited(c, end) ==
  /\ _pg_pool[c] # NoWrite
  /\ IF pc[_pg_pool[c]] = "execute"
     THEN Goto(_pg_pool[c], end) /\ _pg_pool' = [_pg_pool EXCEPT ![c] = NoWrite]
     ELSE UNCHANGED <<_pg_pool, pc>>
  /\ UNCHANGED <<dialect, durable, sqlite>>

\* The connection goes back to the pool, and its call, if that still awaits
\* it, out of `async with` to its end.
Release(c, end) ==
  /\ _pg_pool[c] # NoWrite
  /\ _pg_pool' = [_pg_pool EXCEPT ![c] = NoWrite]
  /\ IF pc[_pg_pool[c]] = "execute" THEN Goto(_pg_pool[c], end) ELSE UNCHANGED pc
  /\ UNCHANGED <<dialect, durable, sqlite>>

Answered(c) == InTable(_pg_pool[c]) /\ Release(c, "returned") /\ UNCHANGED adrift

\* The statement is refused, or ended by the cancellation, without effect.
RefusedByServer(c) == ~InTable(_pg_pool[c]) /\ Release(c, "failed") /\ UNCHANGED adrift

\* The connection is lost, with the statement before, in or after execution.
Broken(c) ==
  /\ Release(c, "broken")
  /\ adrift' = IF InTable(_pg_pool[c]) THEN adrift ELSE adrift \cup {_pg_pool[c]}

\* The server comes to an end with a statement whose connection is gone.
Settles(w) ==
  /\ w \in adrift
  /\ adrift' = adrift \ {w}
  /\ durable' \in {durable, Append(durable, w)}
  /\ UNCHANGED <<dialect, sqlite, _pg_pool, pc>>

------------------------------------------------------------------------------
(***************************************************************************)
(* A coroutine is cancelled at an await; what it has sent stays queued, or *)
(* goes on at the server.                                                  *)
(***************************************************************************)
Cancel(w) ==
  /\ pc[w] \in {"lock", "execute", "commit"}
  /\ Leave(w, "cancelled")
  /\ UNCHANGED <<dialect, durable, pending, queue, postgres>>

\* The process dies, and the open transaction with it; what runs at the
\* server goes on.
Crash ==
  /\ MayCrash
  /\ \E w \in Writes : pc[w] \notin {"idle"} \cup Ends
  /\ pc' = [w \in Writes |-> IF pc[w] \in {"idle"} \cup Ends THEN pc[w] ELSE "lost"]
  /\ pending' = <<>>
  /\ queue' = <<>>
  /\ _lock' = NoWrite
  /\ _pg_pool' = [c \in Connections |-> NoWrite]
  /\ adrift' = adrift \cup
                 {w \in Writes : ~InTable(w) /\ \E c \in Connections : _pg_pool[c] = w}
  /\ UNCHANGED <<dialect, durable>>

Serve == Executed \/ Committed \/ Refused

ServeConnection(c) == Runs(c) \/ Answered(c) \/ RefusedByServer(c) \/ Broken(c)

AcquireAny(w) ==
  Acquire(w) \/ AcquireFails(w) \/ \E c \in Connections : AcquireConnection(w, c)

Terminating ==
  /\ \A w \in Writes : pc[w] \in Ends
  /\ queue = <<>>
  /\ \A c \in Connections : _pg_pool[c] = NoWrite
  /\ adrift = {}
  /\ UNCHANGED vars

Next ==
  \/ \E w \in Writes : Call(w) \/ AcquireAny(w) \/ Settles(w) \/ Cancel(w)
  \/ Serve
  \/ \E c \in Connections : ServeConnection(c)
  \/ Crash
  \/ Terminating

Spec == Init /\ [][Next]_vars

(***************************************************************************)
(* aiosqlite's thread and the Postgres server come to an end with what     *)
(* they are sent, and the lock and the pool wake a waiter: both serve      *)
(* their waiters in turn.                                                  *)
(***************************************************************************)
Wakes(w) == Acquire(w) \/ \E c \in Connections : AcquireConnection(w, c)

FairSpec ==
  /\ Spec
  /\ WF_vars(Serve) /\ \A c \in Connections : WF_vars(ServeConnection(c))
  /\ \A w \in Writes : WF_vars(Wakes(w))

------------------------------------------------------------------------------
(***************************************************************************)
(* A write that execute returned from is committed, and stays committed,   *)
(* whatever is cancelled, refused or crashes around it: the audit row is   *)
(* "durably persisted" (runtime.py:5) when the agent goes on.              *)
(***************************************************************************)
AcknowledgedIsDurable ==
  \A w \in Writes : pc[w] = "returned" => \E i \in 1..Len(durable) : durable[i] = w

(***************************************************************************)
(* What a coroutine reads on the connection, committed or not, is a        *)
(* StatementStore: a cancelled call's write may come late, but never       *)
(* twice, never after it was refused, and never between what others have   *)
(* been told.                                                              *)
(***************************************************************************)
Store ==
  INSTANCE StatementStore WITH
    log    <- durable \o pending,
    answer <- [w \in Writes |->
                 CASE pc[w] = "idle" -> "none"
                   [] pc[w] \in Ends -> pc[w]
                   [] OTHER          -> "open"]

WritesAreAtomic == Store!Spec

(***************************************************************************)
(* No call waits for ever, for the lock or for the database: a cancelled   *)
(* or refused call lets the next one in.                                   *)
(***************************************************************************)
EveryWriteEnds == \A w \in Writes : pc[w] = "lock" ~> pc[w] \in Ends

==============================================================================

---------------------------- MODULE Database_proofs ----------------------------
(***************************************************************************)
(* Proofs about Database, for any number of writes and a pool of any size: *)
(* its types, that an acknowledged write is durable, and that the database *)
(* behaves as a StatementStore, on either dialect.                         *)
(***************************************************************************)
EXTENDS Database, SequenceTheorems, TLAPS

------------------------------------------------------------------------------
(***************************************************************************)
(* The values of a sequence.                                               *)
(***************************************************************************)
Holds(s, w) == \E i \in 1..Len(s) : s[i] = w

LEMMA AppendHolds ==
  ASSUME NEW S, NEW s \in Seq(S), NEW e \in S, NEW w
  PROVE  Holds(Append(s, e), w) <=> Holds(s, w) \/ w = e
<1>1. /\ Len(Append(s, e)) = Len(s) + 1 /\ Len(s) \in Nat
      /\ \A i \in 1..Len(s) : Append(s, e)[i] = s[i]
      /\ Append(s, e)[Len(s) + 1] = e
  BY AppendProperties, LenProperties
<1> QED
  BY <1>1 DEF Holds

LEMMA ConcatHolds ==
  ASSUME NEW S, NEW s \in Seq(S), NEW t \in Seq(S), NEW w
  PROVE  Holds(s \o t, w) <=> Holds(s, w) \/ Holds(t, w)
<1>1. /\ Len(s) \in Nat /\ Len(t) \in Nat
      /\ Len(s \o t) = Len(s) + Len(t)
      /\ \A i \in 1..Len(s) + Len(t) :
           (s \o t)[i] = IF i <= Len(s) THEN s[i] ELSE t[i - Len(s)]
  BY ConcatProperties, LenProperties
<1>2. ASSUME Holds(s \o t, w) PROVE Holds(s, w) \/ Holds(t, w)
  <2>1. PICK i \in 1..Len(s) + Len(t) : (s \o t)[i] = w
    BY <1>1, <1>2 DEF Holds
  <2>2. CASE i <= Len(s)
    BY <1>1, <2>1, <2>2 DEF Holds
  <2>3. CASE ~(i <= Len(s))
    <3>1. i - Len(s) \in 1..Len(t) /\ t[i - Len(s)] = w
      BY <1>1, <2>1, <2>3
    <3> QED
      BY <3>1 DEF Holds
  <2> QED
    BY <2>2, <2>3
<1>3. ASSUME Holds(s, w) PROVE Holds(s \o t, w)
  <2>1. PICK i \in 1..Len(s) : s[i] = w
    BY <1>3 DEF Holds
  <2>2. i \in 1..Len(s) + Len(t) /\ (s \o t)[i] = w
    BY <1>1, <2>1
  <2> QED
    BY <1>1, <2>2 DEF Holds
<1>4. ASSUME Holds(t, w) PROVE Holds(s \o t, w)
  <2>1. PICK i \in 1..Len(t) : t[i] = w
    BY <1>4 DEF Holds
  <2>2. i + Len(s) \in 1..Len(s) + Len(t) /\ ~(i + Len(s) <= Len(s))
        /\ (i + Len(s)) - Len(s) = i
    BY <1>1
  <2>3. (s \o t)[i + Len(s)] = w
    BY <1>1, <2>1, <2>2
  <2> QED
    BY <1>1, <2>2, <2>3 DEF Holds
<1> QED
  BY <1>2, <1>3, <1>4

------------------------------------------------------------------------------
(***************************************************************************)
(* Types, and the discipline of the lock.                                  *)
(***************************************************************************)
LEMMA HeadType ==
  ASSUME DatabaseTypeOK, queue # <<>>
  PROVE  /\ Head(queue) \in Operation
         /\ Head(queue).call \in Writes
         /\ Tail(queue) \in Seq(Operation)
<1>1. queue \in Seq(Operation)
  BY DEF DatabaseTypeOK
<1>2. Head(queue) \in Operation /\ Tail(queue) \in Seq(Operation)
  BY <1>1, HeadTailProperties
<1> QED
  BY <1>2 DEF Operation

LEMMA LeaveType ==
  ASSUME DatabaseTypeOK, NEW w \in Writes, NEW end \in Ends, Leave(w, end)
  PROVE  /\ _lock' \in Writes \cup {NoWrite}
         /\ pc' \in [Writes -> {"idle", "lock", "execute", "commit"} \cup Ends]
         /\ dialect = "sqlite" =>
              \A v \in Writes : _lock' = v <=> pc'[v] \in {"execute", "commit"}
         /\ dialect = "postgres" =>
              _lock' = NoWrite /\ \A v \in Writes : pc'[v] # "commit"
  BY DatabaseAssumption DEF DatabaseTypeOK, Leave, Goto, Ends

\* A connection that is released worked for one call, which moves alone.
LEMMA ReleaseMoves ==
  ASSUME DatabaseTypeOK, NEW c \in Connections, NEW end \in Ends, Release(c, end)
  PROVE  /\ dialect = "postgres"
         /\ _pg_pool[c] \in Writes
         /\ _pg_pool' \in [Connections -> Writes \cup {NoWrite}]
         /\ _pg_pool'[c] = NoWrite
         /\ \A d \in Connections \ {c} : _pg_pool'[d] = _pg_pool[d]
         /\ pc' \in [Writes -> {"idle", "lock", "execute", "commit"} \cup Ends]
         /\ pc'[_pg_pool[c]] =
              IF pc[_pg_pool[c]] = "execute" THEN end ELSE pc[_pg_pool[c]]
         /\ \A v \in Writes \ {_pg_pool[c]} : pc'[v] = pc[v]
         /\ UNCHANGED <<dialect, durable, pending, queue, _lock>>
<1>1. /\ _pg_pool[c] \in Writes /\ dialect = "postgres"
      /\ UNCHANGED <<dialect, durable, pending, queue, _lock>>
  BY DEF Release, DatabaseTypeOK, sqlite
<1>2. _pg_pool' = [_pg_pool EXCEPT ![c] = NoWrite]
  BY DEF Release
<1>3. \/ pc[_pg_pool[c]] = "execute" /\ pc' = [pc EXCEPT ![_pg_pool[c]] = end]
      \/ pc[_pg_pool[c]] # "execute" /\ pc' = pc
  BY DEF Release, Goto
<1> QED
  BY <1>1, <1>2, <1>3 DEF DatabaseTypeOK

\* What settles is in the table, or nowhere; the rest of the table stays.
LEMMA SettlesMoves ==
  ASSUME DatabaseTypeOK, NEW v \in Writes, Settles(v)
  PROVE  /\ dialect = "postgres" /\ v \in adrift /\ adrift' = adrift \ {v}
         /\ UNCHANGED <<dialect, pending, queue, _lock, _pg_pool, pc>>
         /\ durable' = durable \/ durable' = Append(durable, v)
         /\ durable' \in Seq(Writes)
         /\ \A w : Holds(durable, w) => Holds(durable', w)
         /\ \A w : Holds(durable', w) => Holds(durable, w) \/ w = v
<1>1. /\ dialect = "postgres" /\ v \in adrift /\ adrift' = adrift \ {v}
      /\ UNCHANGED <<dialect, pending, queue, _lock, _pg_pool, pc>>
      /\ durable' = durable \/ durable' = Append(durable, v)
  BY DEF Settles, sqlite, DatabaseTypeOK
<1>2. CASE durable' = durable
  BY <1>1, <1>2 DEF Holds, DatabaseTypeOK
<1>3. CASE durable' = Append(durable, v)
  <2>1. durable \in Seq(Writes) /\ durable' \in Seq(Writes)
    BY <1>3, AppendProperties DEF DatabaseTypeOK
  <2>2. \A w : Holds(durable', w) <=> Holds(durable, w) \/ w = v
    BY <1>3, <2>1, AppendHolds
  <2> QED
    BY <1>1, <2>1, <2>2
<1> QED
  BY <1>1, <1>2, <1>3

LEMMA TypeStep == DatabaseTypeOK /\ [Next]_vars => DatabaseTypeOK'
<1> SUFFICES ASSUME DatabaseTypeOK, [Next]_vars PROVE DatabaseTypeOK'
  OBVIOUS
<1> USE DEF sqlite, postgres
<1>1. CASE \E w \in Writes : Call(w)
  BY <1>1 DEF Call, Goto, DatabaseTypeOK
<1>2. CASE \E w \in Writes : Acquire(w)
  <2>1. PICK w \in Writes : Acquire(w)
    BY <1>2
  <2>2. queue' \in Seq(Operation)
    BY <2>1, AppendProperties DEF Acquire, DatabaseTypeOK, Operation
  <2> QED
    BY <2>1, <2>2, DatabaseAssumption DEF Acquire, Goto, DatabaseTypeOK
<1>3. CASE \E w \in Writes : Cancel(w)
  BY <1>3, LeaveType DEF Cancel, Ends, DatabaseTypeOK
<1>q. ASSUME queue # <<>> PROVE dialect = "sqlite"
  BY <1>q DEF DatabaseTypeOK
<1>4. CASE Executed
  <2>1. /\ Head(queue) \in Operation /\ Head(queue).call \in Writes
        /\ Tail(queue) \in Seq(Operation)
    BY <1>4, HeadType DEF Executed, Serving
  <2>2. pending' \in Seq(Writes)
    BY <1>4, <2>1, AppendProperties DEF Executed, DatabaseTypeOK
  <2>3. queue' \in Seq(Operation)
    <3>1. [call |-> Head(queue).call, op |-> "commit"] \in Operation
      BY <2>1 DEF Operation
    <3> QED
      BY <1>4, <2>1, <3>1, AppendProperties DEF Executed
  <2>4. \/ UNCHANGED <<pc, _lock>>
        \/ /\ pc[Head(queue).call] = "execute"
           /\ Goto(Head(queue).call, "commit")
           /\ UNCHANGED _lock
    BY <1>4 DEF Executed, Awaited, Serving
  <2>5. dialect = "sqlite"
    BY <1>4, <1>q DEF Executed, Serving
  <2>6. /\ pc' \in [Writes -> {"idle", "lock", "execute", "commit"} \cup Ends]
        /\ \A w \in Writes : pc'[w] \in {"execute", "commit"} <=> pc[w] \in {"execute", "commit"}
    BY <2>1, <2>4 DEF Goto, DatabaseTypeOK
  <2>7. UNCHANGED <<dialect, durable, _lock, _pg_pool, adrift>>
    BY <1>4 DEF Executed
  <2> QED
    BY <2>2, <2>3, <2>5, <2>6, <2>7 DEF DatabaseTypeOK
<1>5. CASE Committed
  <2>1. /\ Head(queue).call \in Writes /\ Tail(queue) \in Seq(Operation)
    BY <1>5, HeadType DEF Committed, Serving
  <2>2. durable' \in Seq(Writes) /\ pending' \in Seq(Writes)
    BY <1>5, ConcatProperties, EmptySeq DEF Committed, DatabaseTypeOK
  <2> QED
    BY <1>5, <1>q, <2>1, <2>2, LeaveType DEF Committed, Serving, Ends, DatabaseTypeOK
<1>6. CASE Refused
  BY <1>6, <1>q, HeadType, LeaveType DEF Refused, Ends, DatabaseTypeOK
<1>7. CASE Crash
  BY <1>7, EmptySeq, DatabaseAssumption DEF Crash, Ends, DatabaseTypeOK
<1>8. CASE UNCHANGED vars
  BY <1>8 DEF vars, DatabaseTypeOK
<1>9. CASE \E w \in Writes, c \in Connections : AcquireConnection(w, c)
  BY <1>9 DEF AcquireConnection, Goto, DatabaseTypeOK
<1>10. CASE \E w \in Writes : AcquireFails(w)
  BY <1>10 DEF AcquireFails, Goto, Ends, DatabaseTypeOK
<1>11. CASE \E c \in Connections : Runs(c)
  BY <1>11, AppendProperties DEF Runs, DatabaseTypeOK
<1>12. ASSUME NEW c \in Connections, NEW end \in Ends, Release(c, end),
              adrift' \in {adrift, adrift \cup {_pg_pool[c]}}
       PROVE  DatabaseTypeOK'
  BY <1>12, ReleaseMoves DEF DatabaseTypeOK, Ends
<1>13. CASE \E c \in Connections : Answered(c) \/ RefusedByServer(c) \/ Broken(c)
  BY <1>12, <1>13 DEF Answered, RefusedByServer, Broken, Ends
<1>14. CASE \E w \in Writes : Settles(w)
  BY <1>14, SettlesMoves DEF DatabaseTypeOK
<1> QED
  BY <1>1, <1>2, <1>3, <1>4, <1>5, <1>6, <1>7, <1>8, <1>9, <1>10, <1>11, <1>13, <1>14
  DEF Next, AcquireAny, Serve, ServeConnection, Terminating

(***************************************************************************)
(* The types (DatabaseTypeOK), and that the lock of Database.execute is    *)
(* held by the call inside `async with` and by no other, whatever is       *)
(* cancelled, refused or lost there.                                       *)
(***************************************************************************)
THEOREM TypeCorrect == Spec => []DatabaseTypeOK
<1>1. Init => DatabaseTypeOK
  BY DatabaseAssumption, EmptySeq DEF Init, DatabaseTypeOK
<1> QED
  BY <1>1, TypeStep, PTL DEF Spec

------------------------------------------------------------------------------
(***************************************************************************)
(* Durability.  A call that awaits its commit has its write in the open    *)
(* transaction, or another call's commit has already taken it along.       *)
(***************************************************************************)
CommitInv ==
  \A w \in Writes :
    /\ pc[w] = "commit" => Holds(durable, w) \/ Holds(pending, w)
    /\ pc[w] = "returned" => Holds(durable, w)

LEMMA LeaveMoves ==
  ASSUME DatabaseTypeOK, NEW w \in Writes, NEW end \in Ends, Leave(w, end)
  PROVE  pc'[w] = end /\ \A v \in Writes \ {w} : pc'[v] = pc[v]
  BY DEF DatabaseTypeOK, Leave, Goto

LEMMA CommitStep == DatabaseTypeOK /\ CommitInv /\ [Next]_vars => CommitInv'
<1> SUFFICES ASSUME DatabaseTypeOK, CommitInv, [Next]_vars,
                    NEW w \in Writes
             PROVE  /\ pc'[w] = "commit" => Holds(durable', w) \/ Holds(pending', w)
                    /\ pc'[w] = "returned" => Holds(durable', w)
  BY DEF CommitInv, Holds
<1> USE DEF CommitInv, sqlite
<1>1. CASE \E v \in Writes : Call(v) \/ Acquire(v)
  BY <1>1 DEF Call, Acquire, Goto, DatabaseTypeOK
<1>2. CASE \E v \in Writes : Cancel(v)
  BY <1>2, LeaveMoves DEF Cancel, Ends
<1>3. CASE Executed
  <2>1. Head(queue).call \in Writes
    BY <1>3, HeadType DEF Executed, Serving
  <2>2. \A v \in Writes : Holds(pending', v) <=> Holds(pending, v) \/ v = Head(queue).call
    BY <1>3, <2>1, AppendHolds DEF Executed, DatabaseTypeOK
  <2>3. UNCHANGED durable
    BY <1>3 DEF Executed
  <2>4. \/ UNCHANGED pc
        \/ /\ pc' = [pc EXCEPT ![Head(queue).call] = "commit"]
    BY <1>3 DEF Executed, Goto
  <2> QED
    BY <2>1, <2>2, <2>3, <2>4 DEF DatabaseTypeOK
<1>4. CASE Committed
  <2>1. Head(queue).call \in Writes
    BY <1>4, HeadType DEF Committed, Serving
  <2>2. \A v \in Writes : Holds(durable', v) <=> Holds(durable, v) \/ Holds(pending, v)
    BY <1>4, ConcatHolds DEF Committed, DatabaseTypeOK
  <2>3. CASE UNCHANGED pc
    BY <2>2, <2>3
  <2>4. CASE Awaited /\ Leave(Head(queue).call, "returned")
    <3>1. pc[Head(queue).call] = "commit"
      BY <1>4, <2>4 DEF Committed, Serving, Awaited
    <3>2. /\ pc'[Head(queue).call] = "returned"
          /\ \A v \in Writes \ {Head(queue).call} : pc'[v] = pc[v]
      BY <2>1, <2>4, LeaveMoves DEF Ends
    <3> QED
      BY <2>1, <2>2, <3>1, <3>2
  <2> QED
    BY <1>4, <2>3, <2>4 DEF Committed
<1>5. CASE Refused
  BY <1>5, HeadType, LeaveMoves DEF Refused, Ends
<1>6. CASE Crash
  BY <1>6 DEF Crash, Ends, DatabaseTypeOK
<1>7. CASE UNCHANGED vars
  BY <1>7 DEF vars
<1>8. CASE \E v \in Writes, c \in Connections : AcquireConnection(v, c)
  BY <1>8 DEF AcquireConnection, Goto, DatabaseTypeOK
<1>9. CASE \E v \in Writes : AcquireFails(v)
  BY <1>9 DEF AcquireFails, Goto, DatabaseTypeOK
<1>10. CASE \E c \in Connections : Runs(c)
  <2>1. PICK c \in Connections : Runs(c)
    BY <1>10
  <2>2. _pg_pool[c] \in Writes
    BY <2>1 DEF Runs, DatabaseTypeOK
  <2>3. Holds(durable, w) => Holds(durable', w)
    BY <2>1, <2>2, AppendHolds DEF Runs, DatabaseTypeOK
  <2> QED
    BY <2>1, <2>3 DEF Runs
<1>11. CASE \E c \in Connections : Answered(c) \/ RefusedByServer(c) \/ Broken(c)
  BY <1>11, ReleaseMoves DEF Answered, RefusedByServer, Broken, InTable, Holds, Ends
<1>12. CASE \E v \in Writes : Settles(v)
  BY <1>12, SettlesMoves
<1> QED
  BY <1>1, <1>2, <1>3, <1>4, <1>5, <1>6, <1>7, <1>8, <1>9, <1>10, <1>11, <1>12
  DEF Next, AcquireAny, Serve, ServeConnection, Terminating

(***************************************************************************)
(* What execute returned from is committed and stays so                    *)
(* (AcknowledgedIsDurable), for any number of overlapping calls and        *)
(* whatever is refused, cancelled or lost in a crash around them.          *)
(***************************************************************************)
THEOREM AcknowledgedStaysDurable == Spec => []AcknowledgedIsDurable
<1>1. Init => CommitInv
  BY DEF Init, CommitInv
<1>2. CommitInv => AcknowledgedIsDurable
  BY DEF CommitInv, AcknowledgedIsDurable, Holds
<1> QED
  BY <1>1, <1>2, CommitStep, TypeCorrect, PTL DEF Spec

------------------------------------------------------------------------------
(***************************************************************************)
(* The queue.  Waits(q, w): q holds the statement of call w.               *)
(***************************************************************************)
Waits(q, w) == \E i \in 1..Len(q) : q[i].call = w /\ q[i].op = "execute"

Once(q) ==
  \A i, j \in 1..Len(q) :
    q[i].op = "execute" /\ q[j].op = "execute" /\ q[i].call = q[j].call => i = j

LEMMA AppendWaits ==
  ASSUME NEW q \in Seq(Operation), NEW e \in Operation
  PROVE  /\ \A w : Waits(Append(q, e), w) <=> Waits(q, w) \/ (e.call = w /\ e.op = "execute")
         /\ Once(q) /\ (e.op = "execute" => ~Waits(q, e.call)) => Once(Append(q, e))
<1>1. /\ Len(Append(q, e)) = Len(q) + 1 /\ Len(q) \in Nat
      /\ \A i \in 1..Len(q) : Append(q, e)[i] = q[i]
      /\ Append(q, e)[Len(q) + 1] = e
  BY AppendProperties, LenProperties
<1> QED
  BY <1>1 DEF Waits, Once

LEMMA TailWaits ==
  ASSUME NEW q \in Seq(Operation), q # <<>>
  PROVE  /\ \A w : Waits(Tail(q), w) => Waits(q, w)
         /\ Once(q) => Once(Tail(q))
         /\ Head(q).op = "execute" => Waits(q, Head(q).call)
         /\ Once(q) /\ Head(q).op = "execute" => ~Waits(Tail(q), Head(q).call)
<1>1. /\ Len(q) \in Nat /\ 1 \in 1..Len(q)
      /\ Len(Tail(q)) = Len(q) - 1
      /\ \A i \in 1..Len(Tail(q)) : Tail(q)[i] = q[i + 1]
      /\ Head(q) = q[1]
  BY HeadTailProperties, LenProperties, EmptySeq
<1>2. \A i \in 1..Len(Tail(q)) : i + 1 \in 1..Len(q) /\ i + 1 # 1
  BY <1>1
<1>3. \A w : Waits(Tail(q), w) => Waits(q, w)
  BY <1>1, <1>2 DEF Waits
<1>4. Once(q) => Once(Tail(q))
  BY <1>1, <1>2 DEF Once
<1>5. Head(q).op = "execute" => Waits(q, Head(q).call)
  BY <1>1 DEF Waits
<1>6. Once(q) /\ Head(q).op = "execute" => ~Waits(Tail(q), Head(q).call)
  BY <1>1, <1>2 DEF Once, Waits
<1> QED
  BY <1>3, <1>4, <1>5, <1>6

(***************************************************************************)
(* Each statement is queued or has taken effect or neither, never both: so *)
(* what aiosqlite's thread runs for a call that is gone has not been run   *)
(* before, and what a crash takes was never acknowledged.                  *)
(***************************************************************************)
OrderInv ==
  /\ Once(queue)
  /\ \A w \in Writes :
       /\ Waits(queue, w) => pc[w] \in {"execute", "cancelled"}
       /\ Holds(durable, w) \/ Holds(pending, w) =>
            pc[w] \in {"execute", "commit"} \cup Ends /\ ~Waits(queue, w)
       /\ Holds(pending, w) => pc[w] \notin {"execute", "returned"}

(***************************************************************************)
(* The pool.  A statement is with one connection, whose call awaits it or  *)
(* was cancelled, or it is adrift, its call told and its effect open.      *)
(***************************************************************************)
Serves(c, w) == _pg_pool[c] = w

PoolInv ==
  /\ \A w \in Writes, c, d \in Connections :
       Serves(c, w) => /\ pc[w] \in {"execute", "cancelled"}
                       /\ w \notin adrift
                       /\ Serves(d, w) => d = c
  /\ \A w \in adrift :
       pc[w] \in {"broken", "cancelled", "lost"} /\ ~Holds(durable, w)

LEMMA PoolStep == DatabaseTypeOK /\ PoolInv /\ [Next]_vars => PoolInv'
<1> SUFFICES ASSUME DatabaseTypeOK, PoolInv, [Next]_vars PROVE PoolInv'
  OBVIOUS
<1> USE DEF sqlite, postgres, Serves
<1>n. NoWrite \notin Writes
  BY DatabaseAssumption
<1>s. ASSUME dialect = "sqlite", dialect' = "sqlite", DatabaseTypeOK' PROVE PoolInv'
  BY <1>n, <1>s DEF DatabaseTypeOK, PoolInv
<1>t. DatabaseTypeOK'
  BY TypeStep
<1>k. ASSUME UNCHANGED <<_pg_pool, adrift, durable>>,
             \A w \in Writes : pc'[w] = pc[w]
                             \/ pc[w] \in {"idle", "lock"} \/ pc'[w] = "cancelled"
      PROVE  PoolInv'
  BY <1>k DEF PoolInv, DatabaseTypeOK, Holds
<1>1. CASE \E v \in Writes : Call(v)
  BY <1>1, <1>k DEF Call, Goto, DatabaseTypeOK
<1>2. CASE \E v \in Writes : Cancel(v)
  BY <1>2, <1>k, LeaveMoves DEF Cancel, Ends
<1>3. CASE \E v \in Writes : AcquireFails(v)
  BY <1>3, <1>k DEF AcquireFails, Goto, DatabaseTypeOK
<1>4. CASE (\E v \in Writes : Acquire(v)) \/ Executed \/ Committed \/ Refused
  BY <1>4, <1>s, <1>t DEF Acquire, Executed, Committed, Refused, Serving, DatabaseTypeOK
<1>5. CASE \E v \in Writes, c \in Connections : AcquireConnection(v, c)
  <2>1. PICK v \in Writes, c \in Connections : AcquireConnection(v, c)
    BY <1>5
  <2>2. /\ pc[v] = "lock" /\ pc'[v] = "execute"
        /\ \A w \in Writes \ {v} : pc'[w] = pc[w]
        /\ _pg_pool'[c] = v /\ \A d \in Connections \ {c} : _pg_pool'[d] = _pg_pool[d]
        /\ UNCHANGED <<adrift, durable>>
    BY <2>1 DEF AcquireConnection, Goto, DatabaseTypeOK
  <2>3. v \notin adrift /\ \A d \in Connections : ~Serves(d, v)
    BY <2>2 DEF PoolInv
  <2> QED
    BY <2>2, <2>3 DEF PoolInv, DatabaseTypeOK, Holds
<1>6. CASE \E c \in Connections : Runs(c)
  <2>1. PICK c \in Connections : Runs(c)
    BY <1>6
  <2>2. /\ _pg_pool[c] \in Writes /\ UNCHANGED <<_pg_pool, adrift, pc>>
        /\ _pg_pool[c] \notin adrift
    BY <2>1 DEF Runs, DatabaseTypeOK, PoolInv
  <2>3. \A w : Holds(durable', w) <=> Holds(durable, w) \/ w = _pg_pool[c]
    BY <2>1, <2>2, AppendHolds DEF Runs, DatabaseTypeOK
  <2> QED
    BY <2>2, <2>3 DEF PoolInv, Holds
<1>7. CASE \E c \in Connections : Answered(c) \/ RefusedByServer(c) \/ Broken(c)
  <2>1. PICK c \in Connections, end \in Ends :
          /\ Release(c, end)
          /\ \/ UNCHANGED adrift
             \/ /\ end = "broken" /\ ~InTable(_pg_pool[c])
                /\ adrift' = adrift \cup {_pg_pool[c]}
    BY <1>7 DEF Answered, RefusedByServer, Broken, Ends
  <2> DEFINE v == _pg_pool[c]
  <2>2. /\ v \in Writes /\ pc[v] \in {"execute", "cancelled"} /\ v \notin adrift
        /\ \A d \in Connections \ {c} : ~Serves(d, v)
    BY <2>1, ReleaseMoves DEF PoolInv
  <2>3. /\ _pg_pool'[c] = NoWrite
        /\ \A d \in Connections \ {c} : _pg_pool'[d] = _pg_pool[d]
        /\ pc'[v] = (IF pc[v] = "execute" THEN end ELSE pc[v])
        /\ \A w \in Writes \ {v} : pc'[w] = pc[w]
        /\ UNCHANGED durable
    BY <2>1, ReleaseMoves
  <2>4. \A d \in Connections : ~(_pg_pool'[d] = v)
    BY <1>n, <2>2, <2>3
  <2>5. \A w \in Writes, d, f \in Connections :
          _pg_pool'[d] = w => /\ pc'[w] \in {"execute", "cancelled"}
                              /\ w \notin adrift'
                              /\ _pg_pool'[f] = w => f = d
    BY <1>n, <2>1, <2>3, <2>4 DEF PoolInv
  <2>6. \A w \in adrift' : pc'[w] \in {"broken", "cancelled", "lost"} /\ ~Holds(durable', w)
    BY <2>1, <2>2, <2>3 DEF PoolInv, InTable, Holds, DatabaseTypeOK
  <2> QED
    BY <2>5, <2>6 DEF PoolInv, Holds
<1>8. CASE \E v \in Writes : Settles(v)
  <2>1. PICK v \in Writes : Settles(v)
    BY <1>8
  <2>2. /\ adrift' = adrift \ {v} /\ UNCHANGED <<_pg_pool, pc>>
        /\ \A w \in adrift' : ~Holds(durable', w)
    BY <2>1, SettlesMoves DEF PoolInv
  <2> QED
    BY <2>2 DEF PoolInv, Holds
<1>9. CASE Crash
  <2>1. /\ \A c \in Connections : _pg_pool'[c] = NoWrite
        /\ UNCHANGED durable
        /\ pc' = [w \in Writes |-> IF pc[w] \in {"idle"} \cup Ends THEN pc[w] ELSE "lost"]
        /\ adrift' = adrift \cup
             {w \in Writes : ~InTable(w) /\ \E c \in Connections : _pg_pool[c] = w}
    BY <1>9 DEF Crash
  <2>2. \A w \in adrift' : pc'[w] \in {"broken", "cancelled", "lost"} /\ ~Holds(durable', w)
    BY <2>1 DEF PoolInv, InTable, Holds, Ends, DatabaseTypeOK
  <2> QED
    BY <1>n, <2>1, <2>2 DEF PoolInv, Holds
<1>10. CASE UNCHANGED vars
  BY <1>10 DEF vars, PoolInv, Holds
<1> QED
  BY <1>1, <1>2, <1>3, <1>4, <1>5, <1>6, <1>7, <1>8, <1>9, <1>10
  DEF Next, AcquireAny, Serve, ServeConnection, Terminating

LEMMA OrderStep ==
  DatabaseTypeOK /\ CommitInv /\ OrderInv /\ PoolInv /\ [Next]_vars => OrderInv'
<1> SUFFICES ASSUME DatabaseTypeOK, CommitInv, OrderInv, PoolInv, [Next]_vars
             PROVE  OrderInv'
  OBVIOUS
<1> USE DEF sqlite
<1> DEFINE Kept(w) ==
      /\ Waits(queue', w) => pc'[w] \in {"execute", "cancelled"}
      /\ Holds(durable', w) \/ Holds(pending', w) =>
           pc'[w] \in {"execute", "commit"} \cup Ends /\ ~Waits(queue', w)
      /\ Holds(pending', w) => pc'[w] \notin {"execute", "returned"}
<1>k. ASSUME Once(queue'), \A w \in Writes : Kept(w) PROVE OrderInv'
  BY <1>k DEF OrderInv, Once, Waits, Holds
<1>q. queue \in Seq(Operation)
  BY DEF DatabaseTypeOK
<1>1. CASE \E v \in Writes : Call(v)
  BY <1>1, <1>k DEF Call, Goto, OrderInv, DatabaseTypeOK, Ends
<1>2. CASE \E v \in Writes : Acquire(v)
  <2>1. PICK v \in Writes : Acquire(v)
    BY <1>2
  <2>2. [call |-> v, op |-> "execute"] \in Operation
    BY DEF Operation
  <2>3. pc[v] = "lock" /\ ~Waits(queue, v) /\ ~Holds(durable, v) /\ ~Holds(pending, v)
    BY <2>1 DEF Acquire, OrderInv, Ends
  <2>4. /\ Once(queue')
        /\ \A w \in Writes : Waits(queue', w) <=> Waits(queue, w) \/ v = w
    BY <1>q, <2>1, <2>2, <2>3, AppendWaits DEF Acquire, OrderInv
  <2>5. /\ UNCHANGED <<durable, pending>>
        /\ pc' = [pc EXCEPT ![v] = "execute"]
    BY <2>1 DEF Acquire, Goto
  <2>6. \A w \in Writes : Kept(w)
    BY <2>3, <2>4, <2>5 DEF OrderInv, DatabaseTypeOK
  <2> QED
    BY <1>k, <2>4, <2>6
<1>3. CASE \E v \in Writes : Cancel(v)
  <2>1. PICK v \in Writes : Cancel(v)
    BY <1>3
  <2>2. /\ UNCHANGED <<durable, pending, queue>>
        /\ pc'[v] = "cancelled" /\ \A w \in Writes \ {v} : pc'[w] = pc[w]
    BY <2>1, LeaveMoves DEF Cancel, Ends
  <2> QED
    BY <1>k, <2>2 DEF OrderInv, Ends
<1>h. ASSUME queue # <<>>
      PROVE  /\ Head(queue) \in Operation /\ Head(queue).call \in Writes
             /\ Tail(queue) \in Seq(Operation)
             /\ \A w : Waits(Tail(queue), w) => Waits(queue, w)
             /\ Once(Tail(queue))
             /\ Head(queue).op = "execute" => Waits(queue, Head(queue).call)
             /\ Head(queue).op = "execute" => ~Waits(Tail(queue), Head(queue).call)
  BY <1>q, <1>h, HeadType, TailWaits DEF OrderInv
<1>4. CASE Executed
  <2> DEFINE v == Head(queue).call
  <2>1. queue # <<>> /\ Head(queue).op = "execute" /\ v \in Writes
    BY <1>4, <1>h DEF Executed, Serving
  <2>2. [call |-> v, op |-> "commit"] \in Operation
    BY <2>1 DEF Operation
  <2>3. queue' = Tail(queue) \/ queue' = Append(Tail(queue), [call |-> v, op |-> "commit"])
    BY <1>4 DEF Executed
  <2>4. Once(queue') /\ \A w \in Writes : Waits(queue', w) <=> Waits(Tail(queue), w)
    <3> DEFINE e == [call |-> v, op |-> "commit"]
    <3>1. e \in Operation /\ e.op # "execute"
      BY <2>2
    <3>2. /\ Tail(queue) \in Seq(Operation) /\ Once(Tail(queue))
      BY <1>h, <2>1
    <3> HIDE DEF e
    <3>3. /\ \A w : Waits(Append(Tail(queue), e), w) <=> Waits(Tail(queue), w)
          /\ Once(Append(Tail(queue), e))
      BY <3>1, <3>2, AppendWaits
    <3>4. queue' = Tail(queue) \/ queue' = Append(Tail(queue), e)
      BY <2>3 DEF e
    <3> QED
      BY <3>2, <3>3, <3>4
  <2>5. \A w \in Writes : Holds(pending', w) <=> Holds(pending, w) \/ w = v
    BY <1>4, <2>1, AppendHolds DEF Executed, DatabaseTypeOK
  <2>6. UNCHANGED durable /\ pc[v] \in {"execute", "cancelled"}
    BY <1>4, <1>h, <2>1 DEF Executed, OrderInv
  <2>7. /\ pc'[v] \in {"commit", "cancelled"}
        /\ \A w \in Writes \ {v} : pc'[w] = pc[w]
    BY <1>4, <2>1, <2>6 DEF Executed, Awaited, Goto, DatabaseTypeOK
  <2>8. \A w \in Writes : Kept(w)
    <3>1. Kept(v)
      BY <1>h, <2>1, <2>4, <2>7 DEF Ends
    <3>2. \A w \in Writes \ {v} : Kept(w)
      BY <1>h, <2>1, <2>4, <2>5, <2>6, <2>7 DEF OrderInv
    <3> QED
      BY <2>1, <3>1, <3>2
  <2> QED
    BY <1>k, <2>4, <2>8
<1>a. ASSUME queue # <<>>, queue' = Tail(queue), NEW end \in Ends \ {"cancelled"},
             Awaited, Leave(Head(queue).call, end),
             \A w \in Writes : Holds(durable', w) \/ Holds(pending', w) =>
                               Holds(durable, w) \/ Holds(pending, w),
             \A w \in Writes : Holds(pending', w) => Holds(pending, w) /\ end # "returned"
      PROVE  OrderInv'
  <2> DEFINE v == Head(queue).call
  <2>1. /\ pc'[v] = end /\ \A w \in Writes \ {v} : pc'[w] = pc[w]
        /\ v \in Writes
    BY <1>a, <1>h, LeaveMoves
  <2>2. ~Waits(Tail(queue), v)
    <3>1. CASE Head(queue).op = "execute"
      BY <1>a, <1>h, <3>1
    <3>2. CASE Head(queue).op = "commit"
      BY <1>a, <1>h, <2>1, <3>2 DEF Awaited, OrderInv
    <3> QED
      BY <1>a, <1>h, <3>1, <3>2 DEF Operation
  <2>3. Kept(v)
    BY <1>a, <2>1, <2>2 DEF Ends
  <2>4. \A w \in Writes \ {v} : Kept(w)
    BY <1>a, <1>h, <2>1 DEF OrderInv
  <2> QED
    BY <1>a, <1>h, <1>k, <2>1, <2>3, <2>4
<1>u. ASSUME queue # <<>>, queue' = Tail(queue), UNCHANGED pc,
             \A w \in Writes : Holds(durable', w) \/ Holds(pending', w) =>
                               Holds(durable, w) \/ Holds(pending, w),
             \A w \in Writes : Holds(pending', w) => Holds(pending, w)
      PROVE  OrderInv'
  BY <1>u, <1>h, <1>k DEF OrderInv
<1>5. CASE Committed
  <2>1. queue # <<>> /\ queue' = Tail(queue) /\ pending' = <<>>
    BY <1>5 DEF Committed, Serving
  <2>2. \A w \in Writes : /\ Holds(durable', w) <=> Holds(durable, w) \/ Holds(pending, w)
                          /\ ~Holds(pending', w)
    <3>1. durable' = durable \o pending
      BY <1>5 DEF Committed
    <3>2. \A w : Holds(durable', w) <=> Holds(durable, w) \/ Holds(pending, w)
      BY <3>1, ConcatHolds DEF DatabaseTypeOK
    <3>3. \A w : ~Holds(pending', w)
      BY <2>1 DEF Holds
    <3> QED
      BY <3>2, <3>3
  <2> QED
    BY <1>5, <1>a, <1>u, <2>1, <2>2 DEF Committed, Ends
<1>6. CASE Refused
  <2>1. queue # <<>> /\ queue' = Tail(queue) /\ UNCHANGED <<durable, pending>>
    BY <1>6 DEF Refused
  <2> QED
    BY <1>6, <1>a, <1>u, <2>1 DEF Refused, Ends
<1>7. CASE Crash
  <2>1. /\ queue' = <<>> /\ pending' = <<>> /\ UNCHANGED durable
        /\ pc' = [w \in Writes |-> IF pc[w] \in {"idle"} \cup Ends THEN pc[w] ELSE "lost"]
    BY <1>7 DEF Crash
  <2>2. Len(queue') = 0 /\ Len(pending') = 0
    BY <2>1, EmptySeq
  <2>3. Once(queue') /\ \A w \in Writes : ~Waits(queue', w) /\ ~Holds(pending', w)
    BY <2>2 DEF Once, Waits, Holds
  <2> QED
    BY <1>k, <2>1, <2>3 DEF OrderInv, Ends
<1>8. CASE UNCHANGED vars
  BY <1>8, <1>k DEF vars, OrderInv
<1>p. ASSUME dialect = "postgres", UNCHANGED <<pending, queue>>,
             \A w \in Writes :
               /\ Holds(durable', w) => Holds(durable, w) \/ pc[w] \in {"execute"} \cup Ends
               /\ pc'[w] = pc[w] \/ pc'[w] \in {"execute"} \cup Ends
      PROVE  OrderInv'
  <2>1. pending = <<>> /\ queue = <<>>
    BY <1>p DEF DatabaseTypeOK
  <2>2. Len(pending) = 0 /\ Len(queue) = 0
    BY <2>1, EmptySeq
  <2>3. /\ Once(queue')
        /\ \A w : ~Holds(pending, w) /\ ~Holds(pending', w) /\ ~Waits(queue', w)
    BY <1>p, <2>2 DEF Once, Holds, Waits
  <2> QED
    BY <1>k, <1>p, <2>3 DEF OrderInv
<1>9. CASE \E v \in Writes, c \in Connections : AcquireConnection(v, c)
  BY <1>9, <1>p DEF AcquireConnection, Goto, DatabaseTypeOK, Holds
<1>10. CASE \E v \in Writes : AcquireFails(v)
  BY <1>10, <1>p DEF AcquireFails, Goto, Ends, DatabaseTypeOK, Holds
<1>11. CASE \E c \in Connections : Runs(c)
  <2>1. PICK c \in Connections : Runs(c)
    BY <1>11
  <2>2. /\ _pg_pool[c] \in Writes /\ dialect = "postgres"
        /\ pc[_pg_pool[c]] \in {"execute"} \cup Ends
    BY <2>1 DEF Runs, DatabaseTypeOK, PoolInv, Serves, Ends
  <2>3. \A w : Holds(durable', w) <=> Holds(durable, w) \/ w = _pg_pool[c]
    BY <2>1, <2>2, AppendHolds DEF Runs, DatabaseTypeOK
  <2> QED
    BY <1>p, <2>1, <2>2, <2>3 DEF Runs
<1>12. CASE \E c \in Connections : Answered(c) \/ RefusedByServer(c) \/ Broken(c)
  <2>1. PICK c \in Connections, end \in Ends : Release(c, end)
    BY <1>12 DEF Answered, RefusedByServer, Broken, Ends
  <2>2. /\ dialect = "postgres" /\ _pg_pool[c] \in Writes
        /\ UNCHANGED <<durable, pending, queue>>
        /\ \A w \in Writes : pc'[w] = pc[w] \/ pc'[w] = end
    BY <2>1, ReleaseMoves
  <2> QED
    BY <1>p, <2>2 DEF Holds
<1>13. CASE \E v \in Writes : Settles(v)
  <2>1. PICK v \in Writes : Settles(v)
    BY <1>13
  <2>2. pc[v] \in Ends
    BY <2>1, SettlesMoves DEF PoolInv, Ends
  <2> QED
    BY <1>p, <2>1, <2>2, SettlesMoves
<1> QED
  BY <1>1, <1>2, <1>3, <1>4, <1>5, <1>6, <1>7, <1>8, <1>9, <1>10, <1>11, <1>12, <1>13
  DEF Next, AcquireAny, Serve, ServeConnection, Terminating

Inv == DatabaseTypeOK /\ CommitInv /\ OrderInv /\ PoolInv

LEMMA DatabaseInvariance == Spec => []Inv
<1>1. Init => DatabaseTypeOK
  BY DatabaseAssumption, EmptySeq DEF Init, DatabaseTypeOK
<1>2. Init => CommitInv /\ OrderInv /\ PoolInv
  <2> SUFFICES ASSUME Init PROVE CommitInv /\ OrderInv /\ PoolInv
    OBVIOUS
  <2>0. Len(durable) = 0 /\ Len(pending) = 0 /\ Len(queue) = 0
    BY EmptySeq DEF Init
  <2>1. \A w : ~Holds(durable, w) /\ ~Holds(pending, w) /\ ~Waits(queue, w)
    BY <2>0 DEF Holds, Waits
  <2>2. Once(queue)
    BY <2>0 DEF Once
  <2> QED
    BY <2>1, <2>2, DatabaseAssumption DEF Init, CommitInv, OrderInv, PoolInv, Serves
<1> QED
  BY <1>1, <1>2, TypeStep, CommitStep, OrderStep, PoolStep, PTL DEF Spec, Inv

------------------------------------------------------------------------------
(***************************************************************************)
(* The refinement mapping, and what its answers tell.                      *)
(***************************************************************************)
log == durable \o pending

answer ==
  [w \in Writes |->
     CASE pc[w] = "idle" -> "none"
       [] pc[w] \in Ends -> pc[w]
       [] OTHER          -> "open"]

Inside == {"lock", "execute", "commit"}

LEMMA AnswerIs ==
  /\ answer \in [Writes -> {"none", "open"} \cup Ends]
  /\ \A w \in Writes :
       /\ pc[w] = "idle" => answer[w] = "none"
       /\ pc[w] \in Inside => answer[w] = "open"
       /\ pc[w] \in Ends => answer[w] = pc[w]
  BY DEF answer, Inside, Ends

LEMMA AnswerBecomes ==
  /\ answer' \in [Writes -> {"none", "open"} \cup Ends]
  /\ \A w \in Writes :
       /\ pc'[w] = "idle" => answer'[w] = "none"
       /\ pc'[w] \in Inside => answer'[w] = "open"
       /\ pc'[w] \in Ends => answer'[w] = pc'[w]
       /\ pc'[w] = pc[w] => answer'[w] = answer[w]
  BY DEF answer, Inside, Ends

\* A call that moves alone, from old to new, tells its caller the same.
LEMMA OneIsTold ==
  ASSUME NEW v \in Writes, \A w \in Writes \ {v} : pc'[w] = pc[w]
  PROVE  answer' = [answer EXCEPT ![v] = answer'[v]]
  BY AnswerIs, AnswerBecomes

\* log = durable \o pending holds what either of them holds.
LEMMA LogHolds ==
  ASSUME DatabaseTypeOK, NEW w
  PROVE  /\ log \in Seq(Writes)
         /\ Holds(log, w) <=> Holds(durable, w) \/ Holds(pending, w)
  BY ConcatProperties, ConcatHolds DEF DatabaseTypeOK, log

(***************************************************************************)
(* Every step of Database is a step of StatementStore or leaves it alone.  *)
(***************************************************************************)
LEMMA StoreStep ==
  Inv /\ [Next]_vars => [Store!Next]_<<log, answer>>
<1> SUFFICES ASSUME DatabaseTypeOK, CommitInv, OrderInv, PoolInv, [Next]_vars
             PROVE  Store!Next \/ UNCHANGED <<log, answer>>
  BY DEF Inv
<1> USE DEF sqlite
<1>t. ASSUME NEW v \in Writes, NEW old, NEW new, answer[v] = old, answer'[v] = new,
             \A w \in Writes \ {v} : pc'[w] = pc[w], UNCHANGED log
      PROVE  Store!Tell(v, old, new)
  BY <1>t, OneIsTold DEF Store!Tell, log, answer
<1>s. ASSUME UNCHANGED <<durable, pending>> PROVE UNCHANGED log
  BY <1>s DEF log
<1>r. ASSUME NEW w \in Writes, Store!InEffect(w), Store!Tell(w, "open", "returned")
      PROVE  Store!Next
  BY <1>r DEF Store!Next, Store!Return
<1>1. CASE \E v \in Writes : Call(v)
  <2>1. PICK v \in Writes : Call(v)
    BY <1>1
  <2>2. /\ pc[v] = "idle" /\ pc'[v] \in Inside
        /\ \A w \in Writes \ {v} : pc'[w] = pc[w]
        /\ UNCHANGED <<durable, pending>>
    BY <2>1 DEF Call, Goto, DatabaseTypeOK, Inside
  <2>3. Store!Tell(v, "none", "open")
    BY <1>s, <1>t, <2>2, AnswerIs, AnswerBecomes
  <2> QED
    BY <2>3 DEF Store!Next, Store!Request
<1>2. CASE \E v \in Writes : Acquire(v)
  <2>1. PICK v \in Writes : Acquire(v)
    BY <1>2
  <2>2. /\ pc[v] \in Inside /\ pc'[v] \in Inside
        /\ \A w \in Writes \ {v} : pc'[w] = pc[w]
        /\ UNCHANGED <<durable, pending>>
    BY <2>1 DEF Acquire, Goto, DatabaseTypeOK, Inside
  <2>3. \A w \in Writes : answer'[w] = answer[w]
    BY <2>2, AnswerIs, AnswerBecomes
  <2> QED
    BY <1>s, <2>2, <2>3, AnswerIs, AnswerBecomes
<1>3. CASE \E v \in Writes : Cancel(v)
  <2>1. PICK v \in Writes : Cancel(v)
    BY <1>3
  <2>2. /\ pc[v] \in Inside /\ pc'[v] = "cancelled" /\ "cancelled" \in Ends
        /\ \A w \in Writes \ {v} : pc'[w] = pc[w]
        /\ UNCHANGED <<durable, pending>>
    BY <2>1, LeaveMoves DEF Cancel, Inside, Ends
  <2>3. Store!Tell(v, "open", "cancelled")
    BY <1>s, <1>t, <2>2, AnswerIs, AnswerBecomes
  <2> QED
    BY <2>3 DEF Store!Next, Store!GiveUp
<1>4. CASE Executed
  <2> DEFINE v == Head(queue).call
  <2>1. queue # <<>> /\ Head(queue).op = "execute" /\ v \in Writes
    BY <1>4, HeadType DEF Executed, Serving
  <2>2. Waits(queue, v)
    BY <2>1, TailWaits DEF DatabaseTypeOK
  <2>3. pc[v] \in {"execute", "cancelled"} /\ ~Holds(log, v)
    BY <2>1, <2>2, LogHolds DEF OrderInv
  <2>4. log' = Append(log, v)
    <3>1. durable' = durable /\ pending' = Append(pending, v)
      BY <1>4 DEF Executed
    <3>2. durable \o Append(pending, v) = Append(durable \o pending, v)
      <4>1. /\ durable \in Seq(Writes) /\ pending \in Seq(Writes)
            /\ <<v>> \in Seq(Writes) /\ durable \o pending \in Seq(Writes)
        BY <2>1, ConcatProperties DEF DatabaseTypeOK
      <4>2. /\ Append(pending, v) = pending \o <<v>>
            /\ Append(durable \o pending, v) = (durable \o pending) \o <<v>>
        BY <2>1, <4>1, AppendIsConcat
      <4> QED
        BY <4>1, <4>2, ConcatAssociative
    <3> QED
      BY <3>1, <3>2 DEF log
  <2>5. answer' = answer /\ answer[v] \in {"open", "cancelled"}
    <3>1. /\ pc'[v] = IF pc[v] = "execute" THEN "commit" ELSE pc[v]
          /\ \A w \in Writes \ {v} : pc'[w] = pc[w]
      BY <1>4, <2>1 DEF Executed, Awaited, Goto, DatabaseTypeOK
    <3>2. \A w \in Writes : answer'[w] = answer[w]
      BY <2>1, <2>3, <3>1, AnswerIs, AnswerBecomes DEF Inside, Ends
    <3> QED
      BY <2>1, <2>3, <3>2, AnswerIs, AnswerBecomes DEF Inside, Ends
  <2>6. Store!TakeEffect(v)
    BY <2>3, <2>4, <2>5 DEF Store!TakeEffect, Store!InEffect, Holds, log, answer
  <2> QED
    BY <2>1, <2>6 DEF Store!Next
<1>5. CASE Committed
  <2> DEFINE v == Head(queue).call
  <2>1. queue # <<>> /\ Head(queue).op = "commit" /\ v \in Writes
    BY <1>5, HeadType DEF Committed, Serving
  <2>2. UNCHANGED log
    <3>1. durable' = durable \o pending /\ pending' = <<>>
      BY <1>5 DEF Committed
    <3>2. (durable \o pending) \o <<>> = durable \o pending
      BY ConcatProperties, ConcatEmptySeq DEF DatabaseTypeOK
    <3> QED
      BY <3>1, <3>2 DEF log
  <2>3. CASE UNCHANGED pc
    BY <2>2, <2>3, AnswerIs, AnswerBecomes
  <2>4. CASE Awaited /\ Leave(v, "returned")
    <3>1. /\ pc[v] = "commit" /\ pc'[v] = "returned"
          /\ \A w \in Writes \ {v} : pc'[w] = pc[w]
      BY <2>1, <2>4, LeaveMoves DEF Awaited, Ends
    <3>2. Store!Tell(v, "open", "returned")
      BY <1>t, <2>1, <2>2, <3>1, AnswerIs, AnswerBecomes DEF Inside, Ends
    <3>3. Holds(log, v)
      BY <2>1, <3>1, LogHolds DEF CommitInv
    <3>4. Store!InEffect(v)
      BY <3>3 DEF Store!InEffect, Holds, log
    <3> QED
      BY <1>r, <2>1, <3>2, <3>4
  <2> QED
    BY <1>5, <2>3, <2>4 DEF Committed
<1>6. CASE Refused
  <2> DEFINE v == Head(queue).call
  <2>1. v \in Writes /\ Head(queue).op \in {"execute", "commit"}
    BY <1>6, HeadType DEF Refused, Operation
  <2>2. UNCHANGED log
    BY <1>6, <1>s DEF Refused
  <2>3. CASE UNCHANGED pc
    BY <2>2, <2>3, AnswerIs, AnswerBecomes
  <2>4. CASE Awaited /\ Leave(v, "failed")
    <3>1. /\ pc[v] \in Inside /\ pc'[v] = "failed"
          /\ \A w \in Writes \ {v} : pc'[w] = pc[w]
      BY <2>1, <2>4, LeaveMoves DEF Awaited, Inside, Ends
    <3>2. Store!Tell(v, "open", "failed")
      BY <1>t, <2>1, <2>2, <3>1, AnswerIs, AnswerBecomes DEF Ends
    <3> QED
      BY <2>1, <3>2 DEF Store!Next, Store!GiveUp
  <2> QED
    BY <1>6, <2>3, <2>4 DEF Refused
<1>7. CASE Crash
  <2>1. /\ pending' = <<>> /\ durable' = durable
        /\ pc' = [w \in Writes |-> IF pc[w] \in {"idle"} \cup Ends THEN pc[w] ELSE "lost"]
    BY <1>7 DEF Crash
  <2>2. /\ durable \in Seq(Writes) /\ pending \in Seq(Writes)
        /\ Len(durable) \in Nat /\ Len(pending) \in Nat
    BY LenProperties DEF DatabaseTypeOK
  <2>3. /\ log \in Seq(Writes) /\ Len(log) = Len(durable) + Len(pending)
        /\ \A i \in 1..Len(log) :
             log[i] = IF i <= Len(durable) THEN durable[i] ELSE pending[i - Len(durable)]
    BY <2>2, ConcatProperties DEF log
  <2>4. log' = durable
    BY <2>1, <2>2, ConcatEmptySeq DEF log
  <2>5. SubSeq(log, 1, Len(durable)) = durable
    <3>1. /\ SubSeq(log, 1, Len(durable)) \in Seq(Writes)
          /\ Len(SubSeq(log, 1, Len(durable))) = Len(durable)
          /\ \A i \in 1..Len(durable) : SubSeq(log, 1, Len(durable))[i] = log[i]
      BY <2>2, <2>3, SubSeqProperties
    <3> QED
      BY <2>2, <2>3, <3>1, SeqEqual
  <2>6. \A i \in Len(durable) + 1..Len(log) : answer[log[i]] # "returned"
    <3> SUFFICES ASSUME NEW i \in Len(durable) + 1..Len(log)
                 PROVE  answer[log[i]] # "returned"
      OBVIOUS
    <3>1. i - Len(durable) \in 1..Len(pending) /\ log[i] = pending[i - Len(durable)]
      BY <2>2, <2>3
    <3>2. log[i] \in Writes /\ Holds(pending, log[i])
      BY <2>2, <3>1, ElementOfSeq DEF Holds
    <3>3. pc[log[i]] # "returned" /\ pc[log[i]] \in {"execute", "commit"} \cup Ends
      BY <3>2 DEF OrderInv
    <3> QED
      BY <3>2, <3>3, AnswerIs DEF Inside
  <2>7. answer' = [w \in Writes |-> IF answer[w] = "open" THEN "lost" ELSE answer[w]]
    <3>1. \A w \in Writes :
            answer'[w] = IF answer[w] = "open" THEN "lost" ELSE answer[w]
      <4> SUFFICES ASSUME NEW w \in Writes
                   PROVE  answer'[w] = IF answer[w] = "open" THEN "lost" ELSE answer[w]
        OBVIOUS
      <4>1. CASE pc[w] = "idle" \/ pc[w] \in Ends
        BY <2>1, <4>1, AnswerIs, AnswerBecomes DEF Ends
      <4>2. CASE pc[w] \in Inside
        BY <2>1, <4>2, AnswerIs, AnswerBecomes DEF Inside, Ends
      <4> QED
        BY <4>1, <4>2 DEF DatabaseTypeOK, Inside
    <3> QED
      BY <3>1, AnswerIs, AnswerBecomes
  <2>8. Len(durable) \in 0..Len(log)
    BY <2>2, <2>3
  <2>9. Store!Crash
    BY <2>4, <2>5, <2>6, <2>7, <2>8 DEF Store!Crash, log, answer
  <2> QED
    BY <2>9 DEF Store!Next
<1>8. CASE UNCHANGED vars
  BY <1>8 DEF vars, log, answer
<1>p. ASSUME dialect = "postgres" PROVE pending = <<>> /\ log = durable
  BY <1>p, ConcatEmptySeq DEF DatabaseTypeOK, log
<1>e. ASSUME NEW v \in Writes, dialect = "postgres", ~Holds(durable, v),
             pc[v] \in {"execute", "broken", "cancelled", "lost"},
             durable' = Append(durable, v), UNCHANGED <<pending, pc>>
      PROVE  Store!Next
  <2>1. durable' \in Seq(Writes) /\ log = durable
    BY <1>e, <1>p, AppendProperties DEF DatabaseTypeOK
  <2>2. log' = Append(log, v)
    BY <1>e, <1>p, <2>1, ConcatEmptySeq DEF log
  <2>3. answer' = answer /\ answer[v] \in {"open", "broken", "cancelled", "lost"}
    BY <1>e, AnswerIs, AnswerBecomes DEF Inside, Ends
  <2>4. Store!TakeEffect(v)
    BY <1>e, <2>1, <2>2, <2>3 DEF Store!TakeEffect, Store!InEffect, Holds, log, answer
  <2> QED
    BY <2>4 DEF Store!Next
<1>9. CASE \E v \in Writes, c \in Connections : AcquireConnection(v, c)
  <2>1. PICK v \in Writes, c \in Connections : AcquireConnection(v, c)
    BY <1>9
  <2>2. /\ pc[v] \in Inside /\ pc'[v] \in Inside
        /\ \A w \in Writes \ {v} : pc'[w] = pc[w]
        /\ UNCHANGED <<durable, pending>>
    BY <2>1 DEF AcquireConnection, Goto, DatabaseTypeOK, Inside
  <2>3. \A w \in Writes : answer'[w] = answer[w]
    BY <2>2, AnswerIs, AnswerBecomes
  <2> QED
    BY <1>s, <2>2, <2>3, AnswerIs, AnswerBecomes
<1>10. CASE \E v \in Writes : AcquireFails(v)
  <2>1. PICK v \in Writes : AcquireFails(v)
    BY <1>10
  <2>2. /\ pc[v] \in Inside /\ pc'[v] = "failed" /\ "failed" \in Ends
        /\ \A w \in Writes \ {v} : pc'[w] = pc[w]
        /\ UNCHANGED <<durable, pending>>
    BY <2>1 DEF AcquireFails, Goto, DatabaseTypeOK, Inside, Ends
  <2>3. Store!Tell(v, "open", "failed")
    BY <1>s, <1>t, <2>2, AnswerIs, AnswerBecomes
  <2> QED
    BY <2>3 DEF Store!Next, Store!GiveUp
<1>11. CASE \E c \in Connections : Runs(c)
  BY <1>11, <1>e DEF Runs, InTable, Holds, DatabaseTypeOK, PoolInv, Serves
<1>12. CASE \E c \in Connections : Answered(c) \/ RefusedByServer(c) \/ Broken(c)
  <2>1. PICK c \in Connections, end \in {"returned", "failed", "broken"} :
          Release(c, end) /\ (end = "returned" => InTable(_pg_pool[c]))
    BY <1>12 DEF Answered, RefusedByServer, Broken
  <2> DEFINE v == _pg_pool[c]
  <2>2. /\ v \in Writes /\ dialect = "postgres" /\ UNCHANGED <<durable, pending>>
        /\ pc'[v] = (IF pc[v] = "execute" THEN end ELSE pc[v])
        /\ \A w \in Writes \ {v} : pc'[w] = pc[w]
    BY <2>1, ReleaseMoves DEF Ends
  <2>3. CASE pc[v] # "execute"
    <3>1. \A w \in Writes : answer'[w] = answer[w]
      BY <2>2, <2>3, AnswerBecomes
    <3> QED
      BY <1>s, <2>2, <3>1, AnswerIs, AnswerBecomes
  <2>4. CASE pc[v] = "execute"
    <3>1. pc'[v] = end /\ pc'[v] \in Ends /\ pc[v] \in Inside
      BY <2>2, <2>4 DEF Ends, Inside
    <3>2. Store!Tell(v, "open", end)
      BY <1>s, <1>t, <2>2, <3>1, AnswerIs, AnswerBecomes
    <3>3. CASE end = "returned"
      <4>1. Store!InEffect(v)
        BY <1>p, <2>1, <2>2, <3>3 DEF Store!InEffect, InTable, log
      <4> QED
        BY <1>r, <2>2, <3>2, <3>3, <4>1
    <3>4. CASE end \in {"failed", "broken"}
      BY <2>2, <3>2, <3>4 DEF Store!Next, Store!GiveUp
    <3> QED
      BY <3>3, <3>4
  <2> QED
    BY <2>3, <2>4
<1>13. CASE \E v \in Writes : Settles(v)
  <2>1. PICK v \in Writes : Settles(v)
    BY <1>13
  <2>2. CASE UNCHANGED durable
    <3>1. \A w \in Writes : answer'[w] = answer[w]
      BY <2>1, AnswerBecomes DEF Settles
    <3> QED
      BY <1>s, <2>1, <2>2, <3>1, AnswerIs, AnswerBecomes DEF Settles
  <2>3. CASE durable' = Append(durable, v)
    BY <1>e, <2>1, <2>3 DEF Settles, PoolInv, DatabaseTypeOK
  <2> QED
    BY <2>1, <2>2, <2>3 DEF Settles
<1> QED
  BY <1>1, <1>2, <1>3, <1>4, <1>5, <1>6, <1>7, <1>8, <1>9, <1>10, <1>11, <1>12, <1>13
  DEF Next, AcquireAny, Serve, ServeConnection, Terminating

(***************************************************************************)
(* Database.execute, on the shared connection or through the pool,         *)
(* implements the atomic writes its callers rely on (WritesAreAtomic).     *)
(***************************************************************************)
THEOREM DatabaseImplementsStore == Spec => WritesAreAtomic
<1>1. Init => Store!Init
  <2> SUFFICES ASSUME Init PROVE Store!Init
    OBVIOUS
  <2>1. durable \o pending = <<>>
    BY EmptySeq, ConcatEmptySeq DEF Init
  <2>2. \A w \in Writes : pc[w] = "idle"
    BY DEF Init
  <2>3. answer = [w \in Writes |-> "none"]
    BY <2>2, AnswerIs
  <2> QED
    BY <2>1, <2>3 DEF Store!Init, answer
<1>2. Inv /\ [Next]_vars
        => [Store!Next]_<<durable \o pending,
             [w \in Writes |->
                CASE pc[w] = "idle" -> "none"
                  [] pc[w] \in Ends -> pc[w]
                  [] OTHER          -> "open"]>>
  BY StoreStep DEF log, answer
<1> QED
  BY <1>1, <1>2, DatabaseInvariance, PTL DEF Spec, WritesAreAtomic, Store!Spec

==============================================================================

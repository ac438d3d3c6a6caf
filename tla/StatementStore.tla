---------------------------- MODULE StatementStore ----------------------------
(***************************************************************************)
(* What the callers of Database.execute rely on (Supervisor and            *)
(* ThreadStateCallers are written against it): a write takes effect at     *)
(* most once and whole; one that has returned has taken effect and         *)
(* survives a crash; one that was refused by the database never takes      *)
(* effect, while one that was cancelled or cut off, or that failed after   *)
(* it took effect, leaves its caller in doubt.                             *)
(***************************************************************************)
EXTENDS Naturals, Sequences

CONSTANT Writes   \* the calls of execute

VARIABLES
  log,      \* the writes that have taken effect, in order
  answer    \* what each caller has been told

InEffect(w) == \E i \in 1..Len(log) : log[i] = w

Init ==
  /\ log = <<>>
  /\ answer = [w \in Writes |-> "none"]

Tell(w, old, new) ==
  /\ answer[w] = old
  /\ answer' = [answer EXCEPT ![w] = new]
  /\ UNCHANGED log

Request(w) == Tell(w, "none", "open")

Return(w) == InEffect(w) /\ Tell(w, "open", "returned")

GiveUp(w) == \E end \in {"failed", "broken", "cancelled"} : Tell(w, "open", end)

TakeEffect(w) ==
  /\ answer[w] \in {"open", "broken", "cancelled", "lost"}
  /\ ~InEffect(w)
  /\ log' = Append(log, w)
  /\ UNCHANGED answer

\* What has not been acknowledged may be lost, the latest writes first.
Crash ==
  /\ \E n \in 0..Len(log) :
       /\ log' = SubSeq(log, 1, n)
       /\ \A i \in n + 1..Len(log) : answer[log[i]] # "returned"
  /\ answer' = [w \in Writes |-> IF answer[w] = "open" THEN "lost" ELSE answer[w]]

Next ==
  \/ \E w \in Writes : Request(w) \/ Return(w) \/ GiveUp(w) \/ TakeEffect(w)
  \/ Crash

Spec == Init /\ [][Next]_<<log, answer>>

==============================================================================

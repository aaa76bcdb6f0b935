------------------------- MODULE OperationLifecycle --------------------------
(***************************************************************************)
(* What the scheduler promises about one operation, without versions,      *)
(* retries of writes, indexes or clients: an operation is created once, an *)
(* executing one has one owner and changes hands only through the queue,   *)
(* failures are counted one at a time up to the limit, and a completed     *)
(* operation stays as it is until it is removed for good.                  *)
(***************************************************************************)
EXTENDS Naturals

CONSTANTS Operations, Workers, NoWorker, MaxJobRetries

VARIABLE life   \* operation -> [stage, owner, attempts]

Life(stage, owner, attempts) ==
    [stage |-> stage, owner |-> owner, attempts |-> attempts]

Unfinished(op) == life[op].stage \in {"Queued", "Executing"}

Become(op, stage, owner, attempts) ==
    life' = [life EXCEPT ![op] = Life(stage, owner, attempts)]

Init == life = [op \in Operations |-> Life("Absent", NoWorker, 0)]

\* A client's action becomes a new operation.
Create(op) ==
    /\ life[op].stage = "Absent"
    /\ Become(op, "Queued", NoWorker, 0)

\* A queued operation gets an owner.
Assign(op, w) ==
    /\ life[op].stage = "Queued"
    /\ Become(op, "Executing", w, life[op].attempts)

\* A failure that counts, with attempts left.
Retry(op) ==
    /\ Unfinished(op)
    /\ life[op].attempts < MaxJobRetries
    /\ Become(op, "Queued", NoWorker, life[op].attempts + 1)

\* A failure that counts and is one too many.
GiveUp(op) ==
    /\ Unfinished(op)
    /\ life[op].attempts = MaxJobRetries
    /\ Become(op, "Completed", NoWorker, life[op].attempts + 1)

\* Back pressure: the owner hands the operation back, uncounted.
HandBack(op) ==
    /\ life[op].stage = "Executing"
    /\ Become(op, "Queued", NoWorker, life[op].attempts)

\* A result arrives, or there are no clients left.
Complete(op) ==
    /\ Unfinished(op)
    /\ Become(op, "Completed", NoWorker, life[op].attempts)

\* The last client is gone.
Remove(op) ==
    /\ Unfinished(op) \/ life[op].stage = "Completed"
    /\ Become(op, "Removed", NoWorker, 0)

Next ==
    \E op \in Operations :
        \/ Create(op) \/ Retry(op) \/ GiveUp(op) \/ HandBack(op)
        \/ Complete(op) \/ Remove(op)
        \/ \E w \in Workers : Assign(op, w)

Spec == Init /\ [][Next]_life
=============================================================================

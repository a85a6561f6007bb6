------------------------------ MODULE JobQueue ------------------------------
(***************************************************************************)
(* What the API and the worker rely on of BullMQ: one queue as a function  *)
(* from job ids to the state Redis keeps for that id.  The library is not  *)
(* part of the repository; the operators below say what its calls do with  *)
(* the options packages/queue/src/index.ts gives every queue (attempts,    *)
(* back-off, removeOnComplete, removeOnFail).                              *)
(*                                                                         *)
(* Order is left out: retries wait for their back-off and several worker   *)
(* slots take jobs at once, so any waiting job may be the next one taken.  *)
(***************************************************************************)
EXTENDS Naturals

CONSTANTS
  Attempts,    \* defaultJobOptions.attempts
  MaxStalled   \* BullMQ's maxStalledCount, 1 unless a Worker overrides it

ASSUME QueueAssumption ==
  /\ Attempts \in Nat \ {0}
  /\ MaxStalled \in Nat

JobPhase == {"absent", "waiting", "active", "completed", "failed"}

(* made: attempts that ended with an error; stalled: recoveries so far.    *)
JobState == [phase : JobPhase, made : Nat, stalled : Nat]

NoJob == [phase |-> "absent", made |-> 0, stalled |-> 0]

(* Queue.add with a jobId: an id that Redis still holds, in whatever phase *)
(* (a retained completed or failed job included), makes the call a no-op.  *)
Add(q, id) ==
  IF q[id].phase = "absent"
  THEN [q EXCEPT ![id] = [NoJob EXCEPT !.phase = "waiting"]]
  ELSE q

Take(q, id) == [q EXCEPT ![id].phase = "active"]

Complete(q, id) == [q EXCEPT ![id].phase = "completed"]

(* Variant of Fail for a queue without the attempts option.                *)
FailNoRetry(q, id) == [q EXCEPT ![id].phase = "failed"]

(* An attempt that threw is retried after its back-off until the attempts  *)
(* are used up; then the job is kept as failed.                            *)
Fail(q, id) ==
  LET made == q[id].made + 1
  IN  [q EXCEPT ![id] = [phase   |-> IF made < Attempts THEN "waiting" ELSE "failed",
                         made    |-> made,
                         stalled |-> q[id].stalled]]

(* The stall checker found an active job whose lock has expired.           *)
Stall(q, id) ==
  [q EXCEPT ![id] = IF q[id].stalled < MaxStalled
                    THEN [phase |-> "waiting", made |-> q[id].made,
                          stalled |-> q[id].stalled + 1]
                    ELSE [phase |-> "failed", made |-> q[id].made,
                          stalled |-> q[id].stalled]]

(* removeOnComplete / removeOnFail: enough later jobs ended, so Redis      *)
(* forgets this one and its id can be added again.                         *)
Retained(q, id) == q[id].phase \in {"completed", "failed"}

Evict(q, id) == [q EXCEPT ![id] = NoJob]

=============================================================================

------------------------------- MODULE Pipeline -------------------------------
(***************************************************************************)
(* pipeline (src/operations.go): a list of operations carried out one      *)
(* after the other, and undone in reverse order when one of them fails.    *)
(*                                                                         *)
(* The operations are the ones operations.go builds.  set, del and setMD   *)
(* are one request to etcd each, without a deadline; one that fails may    *)
(* have had its effect, or have it later.  Operation i changes item i, and *)
(* the i-th rollback changes it back.  get, exists and getMD read.         *)
(***************************************************************************)
EXTENDS Integers, FiniteSets

CONSTANTS
  N,         \* len(commits)
  M,         \* len(rollbacks)
  MaxTries,  \* attempts after which the backoff policy b gives up
  Reading,   \* the commits that read
  MaxLate    \* bound: failed requests not yet carried out

ASSUME PipelineAssumption ==
  /\ N \in Nat /\ M \in Nat /\ MaxTries \in Nat \ {0} /\ MaxLate \in Nat
  /\ Reading \subseteq 1 .. N

VARIABLES
  phase,     \* where pipeline is
  idx,       \* the commit under way, or the one that failed
  undo,      \* the rollback under way
  tries,     \* failed attempts of the operation under way
  done,      \* etcd: the operations whose effect is in place
  stuck,     \* rollbacks that failed
  saw,       \* saw[i]: what the commit i has read
  late,      \* network: failed requests not yet carried out
  revived    \* items a late request has put back (for the properties)

vars == <<phase, idx, undo, tries, done, stuck, saw, late, revived>>

Writing == 1 .. N \ Reading

\* A request that puts item i in place or takes it away.
Request == [item: Writing, put: BOOLEAN]

TypeOK ==
  /\ phase \in {"commit", "rollback", "ok", "error"}
  /\ idx \in 1 .. N + 1
  /\ undo \in 0 .. N
  /\ tries \in 0 .. MaxTries
  /\ done \subseteq Writing
  /\ stuck \subseteq 1 .. N
  /\ saw \in [Reading -> SUBSET Writing]
  /\ late \subseteq Request
  /\ revived \subseteq Writing

Init ==
  /\ phase = "commit"
  /\ idx = 1
  /\ undo = 0
  /\ tries = 0
  /\ done = {}
  /\ stuck = {}
  /\ saw = [i \in Reading |-> {}]
  /\ late = {}
  /\ revived = {}

-----------------------------------------------------------------------------
\* Variant: the policy is reset before every attempt.
TryAgainReset == tries' = 0

\* backoff.Retry tries once more.
TryAgain == tries + 1 < MaxTries /\ tries' = tries + 1

\* backoff.Retry has the policy give up; the next Retry resets it.
GiveUp == tries + 1 = MaxTries /\ tries' = 0

\* What request r does.
Effect(r) == IF r.put THEN done \cup {r.item} ELSE done \ {r.item}

\* A request that failed has had its effect, will have it, or will not.
Perhaps(r) ==
  \/ done' = Effect(r) /\ late' = late
  \/ done' = done /\ late' \in {late, late \cup {r}} /\ Cardinality(late') <= MaxLate

\* The operation idx fails.  A read has no effect.
Tried ==
  IF idx \in Reading THEN UNCHANGED <<done, late>>
  ELSE Perhaps([item |-> idx, put |-> TRUE])

\* The operation idx succeeds.
Set ==
  /\ idx \in Writing
  /\ done' = Effect([item |-> idx, put |-> TRUE])
  /\ UNCHANGED saw

Get ==
  /\ idx \in Reading
  /\ saw' = [saw EXCEPT ![idx] = done]
  /\ UNCHANGED done

\* The commit succeeds; pipeline goes on with the next one.
Commit ==
  /\ phase = "commit" /\ idx <= N
  /\ Set \/ Get
  /\ idx' = idx + 1
  /\ tries' = 0
  /\ UNCHANGED <<phase, undo, stuck, late, revived>>

CommitRetry ==
  /\ phase = "commit" /\ idx <= N
  /\ Tried
  /\ TryAgain
  /\ UNCHANGED <<phase, idx, undo, stuck, saw, revived>>

\* Variant: one rollback too few.
RollbackTooFew == idx - 2

\* The rollbacks run from the commit before the failed one down to the first.
FirstRollback == idx - 1

\* Variant: the loop goes on after a commit that failed.
CommitFailsGoesOn ==
  /\ phase = "commit" /\ idx <= N
  /\ Tried
  /\ GiveUp
  /\ idx' = idx + 1
  /\ UNCHANGED <<phase, undo, stuck, saw, revived>>

CommitFails ==
  /\ phase = "commit" /\ idx <= N
  /\ Tried
  /\ GiveUp
  /\ phase' = "rollback"
  /\ undo' = FirstRollback
  /\ UNCHANGED <<idx, stuck, saw, revived>>

\* All commits are through.
Succeed ==
  /\ phase = "commit" /\ idx = N + 1
  /\ phase' = "ok"
  /\ UNCHANGED <<idx, undo, tries, done, stuck, saw, late, revived>>

\* There is no rollback for this commit.
SkipRollback ==
  /\ phase = "rollback" /\ undo >= 1 /\ undo > M
  /\ undo' = undo - 1
  /\ UNCHANGED <<phase, idx, tries, done, stuck, saw, late, revived>>

\* The commit undo has a rollback to be run; for a read that is noop.
RollingBackNow == phase = "rollback" /\ undo \in 1 .. M

\* Variant: rollbacks run forward.
RollbackForward ==
  /\ RollingBackNow
  /\ done' = done \ {idx - undo}
  /\ undo' = undo - 1
  /\ tries' = 0
  /\ UNCHANGED <<phase, idx, stuck, saw, late, revived>>

Rollback ==
  /\ RollingBackNow
  /\ done' = done \ {undo}
  /\ revived' = revived \ {undo}
  /\ undo' = undo - 1
  /\ tries' = 0
  /\ UNCHANGED <<phase, idx, stuck, saw, late>>

RollbackRetry ==
  /\ RollingBackNow /\ undo \in Writing
  /\ Perhaps([item |-> undo, put |-> FALSE])
  /\ TryAgain
  /\ UNCHANGED <<phase, idx, undo, stuck, saw, revived>>

\* Variant: a failed rollback ends the loop.
RollbackAborts ==
  /\ RollingBackNow /\ undo \in Writing
  /\ Perhaps([item |-> undo, put |-> FALSE])
  /\ GiveUp
  /\ stuck' = stuck \cup {undo}
  /\ undo' = 0
  /\ UNCHANGED <<phase, idx, saw, revived>>

\* The failure is added to the error; the loop goes on.
RollbackFails ==
  /\ RollingBackNow /\ undo \in Writing
  /\ Perhaps([item |-> undo, put |-> FALSE])
  /\ GiveUp
  /\ stuck' = stuck \cup {undo}
  /\ undo' = undo - 1
  /\ UNCHANGED <<phase, idx, saw, revived>>

Report ==
  /\ phase = "rollback" /\ undo = 0
  /\ phase' = "error"
  /\ UNCHANGED <<idx, undo, tries, done, stuck, saw, late, revived>>

\* A request that failed is carried out after all.
LateRequest(r) ==
  /\ done' = Effect(r)
  /\ late' = late \ {r}
  /\ revived' = IF r.put /\ phase # "commit" /\ r.item \notin done
                THEN revived \cup {r.item} ELSE revived
  /\ UNCHANGED <<phase, idx, undo, tries, stuck, saw>>

Returned == phase \in {"ok", "error"}

Step ==
  \/ Commit \/ CommitRetry \/ CommitFails \/ Succeed
  \/ SkipRollback \/ Rollback \/ RollbackRetry \/ RollbackFails \/ Report

Next ==
  \/ Step
  \/ \E r \in late : LateRequest(r)
  \/ Returned /\ UNCHANGED vars

Spec == Init /\ [][Next]_vars

-----------------------------------------------------------------------------
(* Properties *)

\* The effects pipeline can be expected to undo: not those of the failed commit,
\* only those with a rollback that worked, and none that a late request revives.
Undoable == {i \in 1 .. M : i # idx /\ i \notin stuck \cup revived}

\* After an error nothing undoable is left.  After success everything is there,
\* and no late request of a commit that was retried takes it away again.
LeftBehind ==
  /\ phase = "error" => done \cap Undoable = {}
  /\ phase = "ok" => done = Writing

\* Nobody ever sees a later effect without the earlier ones, except effects
\* that pipeline cannot undo: commits run forward and rollbacks backward.
EffectsInOrder ==
  \A i, j \in Writing :
    i < j /\ j \in done \cap Undoable => i \in done

\* A commit that reads has seen what the commits before it wrote and nothing
\* else, however often they were retried and whatever arrives late.
ReadsSeeWrites ==
  \A i \in Reading : i < idx => saw[i] = {j \in Writing : j < i}

\* The steps pipeline takes at most until it returns: the attempts of the commits
\* that are left, and those of the rollbacks.
StepsLeft ==
  CASE phase = "commit" -> (N + 1 - idx) * MaxTries - tries + 1 + N * MaxTries
    [] phase = "rollback" -> undo * MaxTries - tries + 1
    [] OTHER -> 0

\* Each step brings the return nearer, whatever fails, and nothing that arrives
\* late puts it off: commits and rollbacks share one backoff policy, and each of
\* them gets its attempts and no more.
StepsRunDown ==
  [][/\ StepsLeft' \in 0 .. StepsLeft
     /\ Step => StepsLeft' # StepsLeft]_vars

=============================================================================

--------------------------- MODULE Pipeline_proofs ---------------------------
(***************************************************************************)
(* Proofs about Pipeline, for any number of commits, rollbacks and tries.  *)
(***************************************************************************)
EXTENDS Pipeline, TLAPS

Before(i) == {j \in Writing : j < i}

\* While commits run, the effects in place are those of the commits before the
\* current one, and perhaps its own; late requests only repeat them.
Committing ==
  phase = "commit" => /\ stuck = {} /\ revived = {}
                      /\ Before(idx) \subseteq done
                      /\ \A j \in done : j <= idx
                      /\ \A r \in late : r.put /\ r.item <= idx

\* While rollbacks run, the effects below the current rollback are in place, and
\* above it only what cannot be undone; late requests only take away what has
\* been rolled back or is about to be.
RollingBack ==
  phase \in {"rollback", "error"} =>
    /\ idx <= N /\ undo < idx
    /\ Before(undo) \subseteq done
    /\ \A j \in done : j <= undo \/ j \notin Undoable
    /\ \A r \in late : ~r.put => r.item >= undo
    /\ phase = "error" => undo = 0

Finished ==
  phase = "ok" => /\ done = Writing /\ stuck = {} /\ idx = N + 1
                  /\ \A r \in late : r.put

IInv == TypeOK /\ Committing /\ RollingBack /\ Finished /\ ReadsSeeWrites

\* The invariant holds at the start.
LEMMA InvInit == Init => IInv
BY PipelineAssumption
   DEF Init, IInv, TypeOK, Committing, RollingBack, Finished, ReadsSeeWrites, Before, Writing

\* What a request does to the items in place, and what is left of it when it
\* fails.
LEMMA RequestEffect ==
  ASSUME NEW r \in Request, done \subseteq Writing, late \subseteq Request
  PROVE  /\ Effect(r) \subseteq Writing
         /\ r.put => done \subseteq Effect(r) /\ Effect(r) \subseteq done \cup {r.item}
         /\ ~r.put => Effect(r) = done \ {r.item}
         /\ Perhaps(r) => /\ done' = done \/ done' = Effect(r)
                          /\ late' \subseteq late \cup {r}
BY DEF Request, Effect, Perhaps

\* The requests the code sends.
LEMMA SentRequests ==
  ASSUME NEW i \in Writing, NEW b \in BOOLEAN
  PROVE  [item |-> i, put |-> b] \in Request
BY DEF Request

\* The commits are numbers, and so are the items of requests.
LEMMA Items ==
  /\ Writing \subseteq 1 .. N /\ Writing \subseteq Int
  /\ \A i \in 1 .. N : i \in Writing <=> i \notin Reading
  /\ \A r \in Request : r.item \in Int
BY PipelineAssumption DEF Writing, Request

\* Steps from one commit to the next.
LEMMA NextCommit ==
  ASSUME NEW i \in Int
  PROVE  /\ Before(i + 1) \subseteq Before(i) \cup {i}
         /\ Before(i - 1) \subseteq Before(i) \ {i}
         /\ \A j \in Int : /\ j <= i => j <= i + 1
                           /\ j <= i - 1 <=> (j <= i /\ j # i)
                           /\ j >= i => j >= i - 1
                           /\ j < i => j <= i
<1>1. \A j \in Int : /\ j < i + 1 => j < i \/ j = i
                     /\ j < i - 1 => j < i
  OBVIOUS
<1>2. \A j \in Writing : j \in Int
  BY Items
<1>3. Before(i + 1) \subseteq Before(i) \cup {i}
  BY <1>1, <1>2 DEF Before
<1>4. Before(i - 1) \subseteq Before(i)
  BY <1>1, <1>2 DEF Before
<1>5. i \notin Before(i - 1)
  BY DEF Before
<1> QED
  BY <1>3, <1>4, <1>5

\* Steps of the commits keep the invariant.
LEMMA CommitsKeep ==
  ASSUME IInv, Commit \/ CommitRetry \/ CommitFails \/ Succeed PROVE IInv'
<1> USE PipelineAssumption DEF IInv, TypeOK
<1>1. /\ Writing \subseteq 1 .. N /\ Writing \subseteq Int
      /\ \A i \in 1 .. N : i \in Writing <=> i \notin Reading
      /\ \A x \in Request : x.item \in Int
  BY Items
<1>2. CASE Commit
  <2>1. /\ phase = "commit" /\ idx \in 1 .. N /\ idx' = idx + 1 /\ tries' = 0
        /\ UNCHANGED <<phase, undo, stuck, late, revived>>
    BY <1>2 DEF Commit
  <2>2. CASE Set
    <3>1. /\ idx \in Writing /\ idx \notin Reading /\ done' = done \cup {idx} /\ saw' = saw
      BY <2>2, <1>1 DEF Set, Effect
    <3>2. TypeOK'
      BY <2>1, <3>1
    <3>3. Committing'
      BY <1>1, <2>1, <3>1, NextCommit DEF Committing
    <3>4. RollingBack' /\ Finished'
      BY <2>1 DEF RollingBack, Finished
    <3>5. ReadsSeeWrites'
      BY <1>1, <2>1, <3>1 DEF ReadsSeeWrites
    <3> QED
      BY <3>2, <3>3, <3>4, <3>5
  <2>3. CASE Get
    <3>1. /\ idx \in Reading /\ idx \notin Writing /\ done' = done
          /\ saw' = [saw EXCEPT ![idx] = done]
      BY <2>3, <1>1 DEF Get
    <3>2. done = Before(idx)
      <4>1. \A j \in done : j # idx /\ j <= idx
        BY <2>1, <3>1 DEF Committing
      <4>2. \A j \in done : j < idx
        BY <4>1, <1>1
      <4> QED
        BY <2>1, <4>2 DEF Committing, Before
    <3>3. TypeOK'
      BY <2>1, <3>1
    <3>4. Committing'
      BY <1>1, <2>1, <3>1, <3>2, NextCommit DEF Committing, Before
    <3>5. RollingBack' /\ Finished'
      BY <2>1 DEF RollingBack, Finished
    <3>6. ReadsSeeWrites'
      BY <1>1, <2>1, <3>1, <3>2 DEF ReadsSeeWrites, Before
    <3> QED
      BY <3>3, <3>4, <3>5, <3>6
  <2> QED
    BY <1>2, <2>2, <2>3 DEF Commit
<1>3. ASSUME Tried, idx \in 1 .. N, phase = "commit"
      PROVE  /\ done \subseteq done' /\ done' \subseteq Writing
             /\ \A j \in done' : j \in done \/ j = idx
             /\ late' \subseteq Request
             /\ \A x \in late' : x \in late \/ (x.put /\ x.item = idx)
  <2>1. CASE idx \in Reading
    BY <1>3, <2>1 DEF Tried
  <2>2. CASE idx \notin Reading
    <3> DEFINE r == [item |-> idx, put |-> TRUE]
    <3>1. Perhaps(r)
      BY <1>3, <2>2 DEF Tried
    <3>2. r \in Request
      BY <1>1, <1>3, <2>2, SentRequests
    <3>3. r.put /\ r.item = idx
      OBVIOUS
    <3> HIDE DEF r
    <3> QED
      BY <3>1, <3>2, <3>3, RequestEffect
  <2> QED
    BY <2>1, <2>2
<1>4. CASE CommitRetry
  <2>1. /\ phase = "commit" /\ idx \in 1 .. N /\ tries' \in 0 .. MaxTries /\ Tried
        /\ UNCHANGED <<phase, idx, undo, stuck, saw, revived>>
    BY <1>4 DEF CommitRetry, TryAgain
  <2>2. TypeOK'
    BY <1>3, <2>1
  <2>3. Committing'
    <3> idx \in Int /\ idx <= idx
      BY <2>1
    <3>1. \A j \in done' : j <= idx
      BY <1>3, <2>1 DEF Committing
    <3>2. \A x \in late' : x.put /\ x.item <= idx
      BY <1>3, <2>1 DEF Committing
    <3> QED
      BY <1>3, <2>1, <3>1, <3>2 DEF Committing, Before
  <2>4. RollingBack' /\ Finished' /\ ReadsSeeWrites'
    BY <2>1 DEF RollingBack, Finished, ReadsSeeWrites
  <2> QED
    BY <2>2, <2>3, <2>4
<1>5. CASE CommitFails
  <2>1. /\ undo' = idx - 1 /\ phase' = "rollback" /\ tries' = 0 /\ phase = "commit"
        /\ idx \in 1 .. N /\ Tried
        /\ UNCHANGED <<idx, stuck, saw, revived>>
    BY <1>5 DEF CommitFails, FirstRollback, GiveUp
  <2>2. TypeOK'
    BY <1>3, <2>1
  <2>3. Committing' /\ Finished' /\ ReadsSeeWrites'
    BY <2>1 DEF Committing, Finished, ReadsSeeWrites
  <2>4. \A j \in done' : j <= undo' \/ j = idx
    <3>1. \A j \in done' : j \in Int /\ (j <= idx \/ j = idx)
      BY <1>1, <1>3, <2>1 DEF Committing
    <3> QED
      BY <2>1, <3>1, NextCommit
  <2>5. Before(undo') \subseteq done'
    BY <1>3, <2>1, NextCommit DEF Committing
  <2>6. \A x \in late' : x.put
    BY <1>3, <2>1 DEF Committing
  <2>7. RollingBack'
    BY <2>1, <2>4, <2>5, <2>6 DEF RollingBack, Before, Undoable
  <2> QED
    BY <2>2, <2>3, <2>7
<1>6. CASE Succeed
  <2>1. /\ phase = "commit" /\ idx = N + 1 /\ phase' = "ok"
        /\ UNCHANGED <<idx, undo, tries, done, stuck, saw, late, revived>>
    BY <1>6 DEF Succeed
  <2>2. done = Writing
    <3>1. \A j \in Writing : j < N + 1
      BY <1>1
    <3> QED
      BY <2>1, <3>1 DEF Committing, Before
  <2>3. TypeOK' /\ Committing' /\ RollingBack' /\ ReadsSeeWrites'
    BY <2>1 DEF Committing, RollingBack, ReadsSeeWrites
  <2>4. Finished'
    BY <2>1, <2>2 DEF Finished, Committing
  <2> QED
    BY <2>3, <2>4
<1> QED
  BY <1>2, <1>4, <1>5, <1>6

\* Steps of the rollbacks keep the invariant.
LEMMA RollbacksKeep ==
  ASSUME IInv, SkipRollback \/ Rollback \/ RollbackRetry \/ RollbackFails \/ Report
  PROVE  IInv'
<1> USE PipelineAssumption DEF IInv, TypeOK
<1>1. /\ Writing \subseteq 1 .. N /\ Writing \subseteq Int
      /\ \A x \in Request : x.item \in Int
  BY Items
<1>2. ASSUME RollingBackNow, undo \in Writing, Perhaps([item |-> undo, put |-> FALSE])
      PROVE  /\ done' \subseteq done
             /\ \A j \in done : j \in done' \/ j = undo
             /\ late' \subseteq Request
             /\ \A x \in late' : x \in late \/ (~x.put /\ x.item = undo)
  <2> DEFINE r == [item |-> undo, put |-> FALSE]
  <2>1. Perhaps(r)
    BY <1>2
  <2>2. r \in Request
    BY <1>2, SentRequests
  <2>3. ~r.put /\ r.item = undo
    OBVIOUS
  <2> HIDE DEF r
  <2> QED
    BY <2>1, <2>2, <2>3, RequestEffect
<1>3. CASE SkipRollback
  <2>1. /\ phase = "rollback" /\ undo > M /\ undo \in 1 .. N /\ undo' = undo - 1
        /\ UNCHANGED <<phase, idx, tries, done, stuck, saw, late, revived>>
    BY <1>3 DEF SkipRollback
  <2>2. TypeOK' /\ Committing' /\ Finished' /\ ReadsSeeWrites'
    BY <2>1 DEF Committing, Finished, ReadsSeeWrites
  <2>3. Before(undo') \subseteq done'
    BY <2>1, NextCommit DEF RollingBack
  <2>4. \A j \in done' : j <= undo' \/ j \notin Undoable'
    <3>1. undo \notin Undoable
      BY <2>1 DEF Undoable
    <3> QED
      BY <1>1, <2>1, <3>1, NextCommit DEF RollingBack, Undoable
  <2>5. \A x \in late' : ~x.put => x.item >= undo'
    BY <1>1, <2>1, NextCommit DEF RollingBack
  <2>6. RollingBack'
    BY <2>1, <2>3, <2>4, <2>5 DEF RollingBack, Before
  <2> QED
    BY <2>2, <2>6
<1>4. CASE Rollback
  <2>1. /\ phase = "rollback" /\ undo \in 1 .. M /\ undo' = undo - 1 /\ tries' = 0
        /\ done' = done \ {undo} /\ revived' = revived \ {undo}
        /\ UNCHANGED <<phase, idx, stuck, saw, late>>
    BY <1>4 DEF Rollback, RollingBackNow
  <2>2. TypeOK' /\ Committing' /\ Finished' /\ ReadsSeeWrites'
    BY <2>1 DEF Committing, Finished, ReadsSeeWrites
  <2>3. \A j \in done' : j <= undo - 1 \/ j \notin Undoable'
    BY <1>1, <2>1 DEF RollingBack, Undoable
  <2>4. Before(undo') \subseteq done'
    BY <2>1, NextCommit DEF RollingBack
  <2>5. \A x \in late' : ~x.put => x.item >= undo'
    BY <1>1, <2>1, NextCommit DEF RollingBack
  <2>6. RollingBack'
    BY <2>1, <2>3, <2>4, <2>5 DEF RollingBack, Before
  <2> QED
    BY <2>2, <2>6
<1>5. CASE RollbackRetry
  <2>1. /\ RollingBackNow /\ undo \in Writing /\ Perhaps([item |-> undo, put |-> FALSE])
        /\ tries' \in 0 .. MaxTries
        /\ UNCHANGED <<phase, idx, undo, stuck, saw, revived>>
    BY <1>5 DEF RollbackRetry, TryAgain
  <2>2. phase = "rollback" /\ undo \in 1 .. M
    BY <2>1 DEF RollingBackNow
  <2>3. TypeOK'
    BY <1>2, <2>1, <2>2
  <2>4. Committing' /\ Finished' /\ ReadsSeeWrites'
    BY <2>1, <2>2 DEF Committing, Finished, ReadsSeeWrites
  <2>5. Before(undo) \subseteq done'
    <3>1. undo \notin Before(undo)
      BY <2>2 DEF Before
    <3> QED
      BY <1>2, <2>1, <2>2, <3>1 DEF RollingBack, Before
  <2>6. RollingBack'
    BY <1>2, <2>1, <2>2, <2>5 DEF RollingBack, Undoable, Before
  <2> QED
    BY <2>3, <2>4, <2>6
<1>6. CASE RollbackFails
  <2>1. /\ RollingBackNow /\ undo \in Writing /\ Perhaps([item |-> undo, put |-> FALSE])
        /\ tries' = 0 /\ stuck' = stuck \cup {undo} /\ undo' = undo - 1
        /\ UNCHANGED <<phase, idx, saw, revived>>
    BY <1>6 DEF RollbackFails, GiveUp
  <2>2. phase = "rollback" /\ undo \in 1 .. M /\ undo \in Int
    BY <2>1 DEF RollingBackNow
  <2>3. /\ done' \subseteq done
        /\ \A j \in done : j \in done' \/ j = undo
        /\ late' \subseteq Request
        /\ \A x \in late' : x \in late \/ (~x.put /\ x.item = undo)
    BY <1>2, <2>1
  <2>4. undo' \in 0 .. N /\ stuck' \subseteq 1 .. N /\ tries' \in 0 .. MaxTries
    BY <1>1, <2>1
  <2>5. TypeOK'
    BY <2>1, <2>3, <2>4
  <2>6. Committing' /\ Finished' /\ ReadsSeeWrites'
    BY <2>1, <2>2 DEF Committing, Finished, ReadsSeeWrites
  <2>7. Before(undo - 1) \subseteq done'
    <3>1. Before(undo - 1) \subseteq Before(undo) \ {undo}
      BY <2>2, NextCommit
    <3> QED
      BY <2>2, <2>3, <3>1 DEF RollingBack
  <2>8. \A j \in done' : j <= undo - 1 \/ j \notin Undoable'
    BY <1>1, <2>1, <2>2, <2>3 DEF RollingBack, Undoable
  <2>9. \A x \in late' : ~x.put => x.item >= undo - 1
    BY <1>1, <2>2, <2>3 DEF RollingBack
  <2>10. RollingBack'
    BY <2>1, <2>2, <2>7, <2>8, <2>9 DEF RollingBack, Before
  <2> QED
    BY <2>5, <2>6, <2>10
<1>7. CASE Report
  <2>1. /\ phase = "rollback" /\ undo = 0 /\ phase' = "error"
        /\ UNCHANGED <<idx, undo, tries, done, stuck, saw, late, revived>>
    BY <1>7 DEF Report
  <2> QED
    BY <2>1 DEF Committing, RollingBack, Finished, ReadsSeeWrites, Before, Undoable
<1> QED
  BY <1>3, <1>4, <1>5, <1>6, <1>7

\* A late request keeps the invariant: while commits run and after success it
\* repeats what is in place; otherwise what it puts back counts as revived.
LEMMA LateKeeps == ASSUME IInv, NEW r \in late, LateRequest(r) PROVE IInv'
<1> USE PipelineAssumption DEF IInv, TypeOK, Writing
<1>1. /\ r \in Request /\ done' = Effect(r) /\ late' = late \ {r}
      /\ UNCHANGED <<phase, idx, undo, tries, stuck, saw>>
      /\ r.item \in Writing
  BY DEF LateRequest, Request
<1>2. /\ done' \subseteq Writing
      /\ r.put => done \subseteq done' /\ done' \subseteq done \cup {r.item}
      /\ ~r.put => done' = done \ {r.item}
  BY <1>1, RequestEffect
<1>3. /\ revived' \subseteq Writing /\ revived \subseteq revived'
      /\ phase = "commit" => revived' = revived
      /\ phase # "commit" => \A j \in done' : j \in done \/ j \in revived'
  BY <1>1, <1>2 DEF LateRequest
<1>4. TypeOK'
  BY <1>1, <1>2, <1>3
<1>5. Committing'
  BY <1>1, <1>2, <1>3 DEF Committing, Before
<1>6. RollingBack'
  BY <1>1, <1>2, <1>3 DEF RollingBack, Before, Undoable
<1>7. Finished'
  BY <1>1, <1>2 DEF Finished
<1>8. ReadsSeeWrites'
  BY <1>1 DEF ReadsSeeWrites
<1> QED
  BY <1>4, <1>5, <1>6, <1>7, <1>8

\* Every step keeps the invariant.
LEMMA InvStep == IInv /\ [Next]_vars => IInv'
<1>1. ASSUME IInv, UNCHANGED vars PROVE IInv'
  BY <1>1 DEF vars, IInv, TypeOK, Committing, RollingBack, Finished, ReadsSeeWrites, Before, Undoable
<1> QED
  BY <1>1, CommitsKeep, RollbacksKeep, LateKeeps DEF Next, Step

\* The state of a pipeline, what its reads saw and the requests in flight keep
\* their types.
THEOREM PipelineTypeCorrect == Spec => []TypeOK
<1>1. IInv => TypeOK
  BY DEF IInv
<1> QED
  BY InvInit, InvStep, <1>1, PTL DEF Spec

\* For any number of commits and rollbacks: after an error pipeline leaves only
\* what it has no way to undo, and after success everything is in place and
\* stays.
THEOREM LeavesNothingUndoable == Spec => []LeftBehind
<1>1. IInv => LeftBehind
  BY PipelineAssumption DEF IInv, TypeOK, LeftBehind, RollingBack, Finished, Undoable
<1> QED
  BY InvInit, InvStep, <1>1, PTL DEF Spec

\* For any number of commits and rollbacks: no effect that can be undone is ever
\* visible without the effects before it.
THEOREM EffectsStayInOrder == Spec => []EffectsInOrder
<1>1. ASSUME IInv, NEW i \in Writing, NEW j \in Writing, i < j, j \in done \cap Undoable
      PROVE  i \in done
  <2> USE PipelineAssumption DEF TypeOK, Writing
  <2>1. CASE phase = "commit"
    BY <1>1, <2>1 DEF IInv, Committing, Before
  <2>2. CASE phase \in {"rollback", "error"}
    BY <1>1, <2>2 DEF IInv, RollingBack, Before
  <2>3. CASE phase = "ok"
    BY <1>1, <2>3 DEF IInv, Finished
  <2> QED
    BY <1>1, <2>1, <2>2, <2>3 DEF IInv
<1>2. IInv => EffectsInOrder
  BY <1>1 DEF EffectsInOrder
<1> QED
  BY InvInit, InvStep, <1>2, PTL DEF Spec

\* For any number of commits and any choice of the reads among them: a read sees
\* the writes before it and nothing else.
THEOREM ReadsAreInOrder == Spec => []ReadsSeeWrites
<1>1. IInv => ReadsSeeWrites
  BY DEF IInv
<1> QED
  BY InvInit, InvStep, <1>1, PTL DEF Spec

-----------------------------------------------------------------------------
(* pipeline runs down *)

\* Attempts are counted for an operation that can fail, and for no other.
Counted ==
  /\ tries < MaxTries
  /\ phase = "commit" /\ idx = N + 1 => tries = 0
  /\ phase = "rollback" /\ (undo = 0 \/ undo > M) => tries = 0

\* One item less is MaxTries attempts less.
LEMMA Attempts ==
  ASSUME NEW a \in Nat, NEW b \in Nat
  PROVE  /\ a * MaxTries \in Nat
         /\ (a + 1) * MaxTries = a * MaxTries + MaxTries
         /\ a <= b => a * MaxTries <= b * MaxTries
         /\ 0 * MaxTries = 0
<1>1. MaxTries \in Nat
  BY PipelineAssumption
<1>2. a * MaxTries \in Nat /\ (a + 1) * MaxTries = a * MaxTries + MaxTries /\ 0 * MaxTries = 0
  BY <1>1
<1>3. a <= b => a * MaxTries <= b * MaxTries
  BY <1>1
<1> QED
  BY <1>2, <1>3

\* What is left while commits run, and while rollbacks run.
LEMMA Left ==
  ASSUME IInv, Counted
  PROVE  /\ phase = "commit" =>
              /\ N + 1 - idx \in Nat
              /\ StepsLeft = (N + 1 - idx) * MaxTries - tries + 1 + N * MaxTries
         /\ phase = "rollback" =>
              /\ undo \in Nat /\ undo <= N
              /\ StepsLeft = undo * MaxTries - tries + 1
         /\ StepsLeft \in Nat
<1>0. /\ N \in Nat /\ M \in Nat /\ MaxTries \in Nat /\ MaxTries > 0
      /\ idx \in 1 .. N + 1 /\ undo \in 0 .. N /\ tries \in Nat /\ tries < MaxTries
      /\ phase \in {"commit", "rollback", "ok", "error"}
      /\ N * MaxTries \in Nat
  <2>1. N * MaxTries \in Nat
    BY Attempts, PipelineAssumption
  <2> QED
    BY <2>1, PipelineAssumption DEF IInv, TypeOK, Counted
<1>1. CASE phase = "commit"
  <2>1. StepsLeft = (N + 1 - idx) * MaxTries - tries + 1 + N * MaxTries
    BY <1>1 DEF StepsLeft
  <2>2. N + 1 - idx \in Nat
    BY <1>0
  <2>3. (N + 1 - idx) * MaxTries >= tries
    <3>1. CASE idx = N + 1
      BY <1>0, <1>1, <2>2, <3>1, Attempts DEF Counted
    <3>2. CASE idx # N + 1
      <4>1. N - idx \in Nat /\ N + 1 - idx = (N - idx) + 1
        BY <1>0, <3>2
      <4>2. (N - idx) * MaxTries \in Nat
            /\ (N + 1 - idx) * MaxTries = (N - idx) * MaxTries + MaxTries
        BY <4>1, Attempts
      <4> QED
        BY <1>0, <4>2
    <3> QED
      BY <3>1, <3>2
  <2>4. (N + 1 - idx) * MaxTries \in Nat
    BY <2>2, Attempts
  <2> QED
    BY <1>0, <1>1, <2>1, <2>2, <2>3, <2>4
<1>2. CASE phase = "rollback"
  <2>1. StepsLeft = undo * MaxTries - tries + 1
    BY <1>2 DEF StepsLeft
  <2>2. undo * MaxTries >= tries
    <3>1. CASE undo = 0
      BY <1>0, <1>2, <3>1, Attempts DEF Counted
    <3>2. CASE undo # 0
      <4>1. undo - 1 \in Nat /\ undo = (undo - 1) + 1
        BY <1>0, <3>2
      <4>2. (undo - 1) * MaxTries \in Nat
            /\ undo * MaxTries = (undo - 1) * MaxTries + MaxTries
        BY <4>1, Attempts
      <4> QED
        BY <1>0, <4>2
    <3> QED
      BY <3>1, <3>2
  <2>3. undo * MaxTries \in Nat
    BY <1>0, Attempts
  <2> QED
    BY <1>0, <1>2, <2>1, <2>2, <2>3
<1>3. CASE phase \in {"ok", "error"}
  BY <1>3 DEF StepsLeft
<1> QED
  BY <1>0, <1>1, <1>2, <1>3

\* What is left is a number.
LEMMA LeftIsNumber == IInv /\ Counted => StepsLeft \in Nat
BY Left

\* Each step is counted.
LEMMA StepCounts ==
  ASSUME IInv, IInv', Counted, Step
  PROVE  Counted' /\ StepsLeft' < StepsLeft
<1>0. /\ N \in Nat /\ M \in Nat /\ MaxTries \in Nat /\ MaxTries > 0
      /\ idx \in 1 .. N + 1 /\ undo \in 0 .. N /\ tries \in Nat /\ tries < MaxTries
      /\ N * MaxTries \in Nat
  <2>1. N * MaxTries \in Nat
    BY Attempts, PipelineAssumption
  <2> QED
    BY <2>1, PipelineAssumption DEF IInv, TypeOK, Counted
<1>1. CASE Commit
  <2>1. /\ phase = "commit" /\ phase' = "commit" /\ idx <= N /\ idx' = idx + 1 /\ tries' = 0
    BY <1>1 DEF Commit
  <2>2. Counted'
    BY <1>0, <2>1 DEF Counted
  <2>3. N - idx \in Nat /\ N + 1 - idx = (N - idx) + 1 /\ N + 1 - idx' = N - idx
    BY <1>0, <2>1
  <2>4. /\ (N - idx) * MaxTries \in Nat
        /\ (N + 1 - idx) * MaxTries = (N - idx) * MaxTries + MaxTries
    BY <2>3, Attempts
  <2>5. /\ StepsLeft = (N + 1 - idx) * MaxTries - tries + 1 + N * MaxTries
        /\ StepsLeft' = (N - idx) * MaxTries - 0 + 1 + N * MaxTries
    BY <2>1, <2>3 DEF StepsLeft
  <2> QED
    BY <1>0, <2>2, <2>4, <2>5
<1>2. CASE CommitRetry
  <2>1. /\ phase = "commit" /\ phase' = "commit" /\ idx <= N /\ idx' = idx
        /\ tries + 1 < MaxTries /\ tries' = tries + 1
    BY <1>2 DEF CommitRetry, TryAgain
  <2>2. Counted'
    BY <1>0, <2>1 DEF Counted
  <2>3. (N + 1 - idx) * MaxTries \in Nat
    BY <1>0, Attempts
  <2>4. /\ StepsLeft = (N + 1 - idx) * MaxTries - tries + 1 + N * MaxTries
        /\ StepsLeft' = (N + 1 - idx) * MaxTries - (tries + 1) + 1 + N * MaxTries
    BY <2>1 DEF StepsLeft
  <2> QED
    BY <1>0, <2>2, <2>3, <2>4
<1>3. CASE CommitFails
  <2>1. /\ phase = "commit" /\ phase' = "rollback" /\ idx <= N /\ undo' = idx - 1
        /\ tries + 1 = MaxTries /\ tries' = 0
    BY <1>3 DEF CommitFails, GiveUp, FirstRollback
  <2>2. Counted'
    BY <1>0, <2>1 DEF Counted
  <2>3. N - idx \in Nat /\ N + 1 - idx = (N - idx) + 1 /\ idx - 1 \in Nat /\ idx - 1 <= N
    BY <1>0, <2>1
  <2>4. /\ (N - idx) * MaxTries \in Nat
        /\ (N + 1 - idx) * MaxTries = (N - idx) * MaxTries + MaxTries
        /\ (idx - 1) * MaxTries \in Nat /\ (idx - 1) * MaxTries <= N * MaxTries
    BY <1>0, <2>3, Attempts
  <2>5. /\ StepsLeft = (N + 1 - idx) * MaxTries - tries + 1 + N * MaxTries
        /\ StepsLeft' = (idx - 1) * MaxTries - 0 + 1
    BY <2>1 DEF StepsLeft
  <2> QED
    BY <1>0, <2>1, <2>2, <2>4, <2>5
<1>4. CASE Succeed
  <2>1. phase = "commit" /\ phase' = "ok" /\ UNCHANGED <<idx, tries>> /\ idx = N + 1
    BY <1>4 DEF Succeed
  <2>2. Counted' /\ tries = 0 /\ N + 1 - idx = 0
    BY <1>0, <2>1 DEF Counted
  <2>3. /\ StepsLeft = 0 * MaxTries - tries + 1 + N * MaxTries
        /\ StepsLeft' = 0
    BY <2>1, <2>2 DEF StepsLeft
  <2> QED
    BY <1>0, <2>2, <2>3, Attempts
<1>5. CASE SkipRollback \/ Rollback \/ RollbackFails
  <2>1. /\ phase = "rollback" /\ phase' = "rollback" /\ undo >= 1 /\ undo' = undo - 1
        /\ tries' = 0
    BY <1>0, <1>5 DEF SkipRollback, Rollback, RollbackFails, RollingBackNow, GiveUp, Counted
  <2>2. Counted'
    BY <1>0, <2>1 DEF Counted
  <2>3. undo - 1 \in Nat /\ undo = (undo - 1) + 1
    BY <1>0, <2>1
  <2>4. /\ (undo - 1) * MaxTries \in Nat
        /\ undo * MaxTries = (undo - 1) * MaxTries + MaxTries
    BY <2>3, Attempts
  <2>5. /\ StepsLeft = undo * MaxTries - tries + 1
        /\ StepsLeft' = (undo - 1) * MaxTries - 0 + 1
    BY <2>1 DEF StepsLeft
  <2> QED
    BY <1>0, <2>2, <2>4, <2>5
<1>6. CASE RollbackRetry
  <2>1. /\ phase = "rollback" /\ phase' = "rollback" /\ undo \in 1 .. M /\ undo' = undo
        /\ tries + 1 < MaxTries /\ tries' = tries + 1
    BY <1>6 DEF RollbackRetry, RollingBackNow, TryAgain
  <2>2. Counted'
    BY <1>0, <2>1 DEF Counted
  <2>3. undo * MaxTries \in Nat
    BY <1>0, Attempts
  <2>4. /\ StepsLeft = undo * MaxTries - tries + 1
        /\ StepsLeft' = undo * MaxTries - (tries + 1) + 1
    BY <2>1 DEF StepsLeft
  <2> QED
    BY <1>0, <2>2, <2>3, <2>4
<1>7. CASE Report
  <2>1. phase = "rollback" /\ phase' = "error" /\ undo = 0 /\ tries' = tries
    BY <1>7 DEF Report
  <2>2. Counted' /\ tries = 0
    BY <1>0, <2>1 DEF Counted
  <2>3. StepsLeft = 0 * MaxTries - tries + 1 /\ StepsLeft' = 0
    BY <2>1 DEF StepsLeft
  <2> QED
    BY <1>0, <2>2, <2>3, Attempts
<1> QED
  BY <1>1, <1>2, <1>3, <1>4, <1>5, <1>6, <1>7 DEF Step

\* Late requests and pipelines that have returned cost no step.
LEMMA OthersCost ==
  ASSUME Counted, ~Step, [Next]_vars
  PROVE  Counted' /\ StepsLeft' = StepsLeft
BY DEF Next, LateRequest, vars, Counted, StepsLeft

\* What is left after a step is less than what was left before it, and never
\* negative.
LEMMA RunDownStep ==
  IInv /\ Counted /\ [Next]_vars =>
    /\ Counted'
    /\ StepsLeft' \in 0 .. StepsLeft
    /\ Step => StepsLeft' # StepsLeft
<1> SUFFICES ASSUME IInv, Counted, [Next]_vars
             PROVE  /\ Counted'
                    /\ StepsLeft' \in 0 .. StepsLeft
                    /\ Step => StepsLeft' # StepsLeft
  OBVIOUS
<1>1. IInv' /\ StepsLeft \in Nat
  BY InvStep, Left
<1>2. CASE Step
  <2>1. Counted' /\ StepsLeft' < StepsLeft
    BY <1>1, <1>2, StepCounts
  <2>2. (IInv /\ Counted => StepsLeft \in Nat)'
    BY LeftIsNumber, PTL
  <2> QED
    BY <1>1, <2>1, <2>2
<1>3. CASE ~Step
  BY <1>1, <1>3, OthersCost
<1> QED
  BY <1>2, <1>3

\* pipeline comes nearer to its return with each of its steps, whatever fails
\* and whatever arrives late, for any number of operations and attempts.
THEOREM PipelineGetsNearer == Spec => StepsRunDown
<1>1. Init => Counted
  BY PipelineAssumption DEF Init, Counted
<1> QED
  BY InvInit, InvStep, <1>1, RunDownStep, PTL DEF Spec, StepsRunDown

\* There are never more than MaxTries attempts left for each commit and each
\* rollback, and one step to return.
THEOREM PipelineIsShort == Spec => [](StepsLeft <= 2 * (N * MaxTries) + 1)
<1>1. Init => Counted
  BY PipelineAssumption DEF Init, Counted
<1>2. IInv /\ Counted => StepsLeft <= 2 * (N * MaxTries) + 1
  <2> SUFFICES ASSUME IInv, Counted PROVE StepsLeft <= 2 * (N * MaxTries) + 1
    OBVIOUS
  <2>1. /\ N \in Nat /\ MaxTries \in Nat /\ tries \in Nat /\ idx \in 1 .. N + 1
        /\ phase \in {"commit", "rollback", "ok", "error"}
    BY PipelineAssumption DEF IInv, TypeOK
  <2>2. N * MaxTries \in Nat
    BY <2>1, Attempts
  <2>3. CASE phase = "commit"
    <3>1. /\ N + 1 - idx \in Nat /\ N + 1 - idx <= N
          /\ StepsLeft = (N + 1 - idx) * MaxTries - tries + 1 + N * MaxTries
      BY <2>1, <2>3, Left
    <3>2. /\ (N + 1 - idx) * MaxTries \in Nat
          /\ (N + 1 - idx) * MaxTries <= N * MaxTries
      BY <2>1, <3>1, Attempts
    <3> QED
      BY <2>1, <2>2, <3>1, <3>2
  <2>4. CASE phase = "rollback"
    <3>1. /\ undo \in Nat /\ undo <= N /\ StepsLeft = undo * MaxTries - tries + 1
      BY <2>4, Left
    <3>2. undo * MaxTries \in Nat /\ undo * MaxTries <= N * MaxTries
      BY <2>1, <3>1, Attempts
    <3> QED
      BY <2>1, <2>2, <3>1, <3>2
  <2>5. CASE phase \in {"ok", "error"}
    BY <2>2, <2>5 DEF StepsLeft
  <2> QED
    BY <2>1, <2>3, <2>4, <2>5
<1> QED
  BY InvInit, InvStep, <1>1, <1>2, RunDownStep, PTL DEF Spec

=============================================================================

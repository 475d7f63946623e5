------------------------- MODULE LockedStorage_proofs -------------------------
(***************************************************************************)
(* Proofs about LockedStorage: a valid lock keeps what its holder knows    *)
(* true (ViewHolds), for any number of workers, processes and values, any  *)
(* clocks and any timeouts.  What EtcdLock_proofs knows of the lock holds  *)
(* in the system, because each of its steps is a step of EtcdLock or       *)
(* leaves the lock alone.                                                  *)
(***************************************************************************)
EXTENDS LockedStorage, EtcdLock_proofs

SInv == TInv /\ MInv /\ SystemTypeOK /\ ViewHolds

-----------------------------------------------------------------------------
(* The lock in the system *)

\* Every step of the system is a step of the lock or leaves it alone.
LEMMA SystemLockStep == [SystemNext]_systemVars => [Next]_vars
<1> SUFFICES ASSUME [SystemNext]_systemVars PROVE [Next]_vars
  OBVIOUS
<1>1. CASE LockingStep
  BY <1>1 DEF LockingStep, LockReturns, LockCalled, UnlockCalled, Next, Environment, LockStep
<1>2. CASE LateWriteApplied \/ UNCHANGED systemVars
  BY <1>2 DEF LateWriteApplied, systemVars
<1>3. ASSUME NEW w \in Worker, Calls(w) \/ Answered(w) \/ CallFails(w) \/ CallReturns(w)
      PROVE  UNCHANGED vars
  BY <1>3 DEF Calls, Answered, CallFails, CallReturns
<1> QED
  BY <1>1, <1>2, <1>3 DEF SystemNext

\* A step of the lock that is not the return of v's Lock.
NotGained(v) ==
  \/ \E w \in Worker \ {v} : PutLock(w)
  \/ \E w \in Worker :
       \/ LockCall(w) \/ UnlockCall(w) \/ UnlockStep(w)
       \/ (LockStep(w) /\ ~At(w, "put")) \/ PutFails(w)
  \/ Environment

\* A lock becomes valid only when its Lock returns.
LEMMA ValidBefore ==
  ASSUME TInv, NEW v \in Worker, NotGained(v), Valid(v)'
  PROVE  Valid(v)
<1>0. /\ hold \in [Worker -> [age: Age, lost: BOOLEAN] \cup {NoHold}]
      /\ hold'[v] # NoHold
  BY DEF TInv, TypeOK, Valid, Fresh
<1>1. ASSUME hold'[v] = hold[v] PROVE Valid(v)
  BY <1>1 DEF Valid, Fresh
<1>2. ASSUME NEW s \in BOOLEAN, hold'[v] = HoldsAfterPut(s)[v] PROVE Valid(v)
  BY <1>0, <1>1, <1>2 DEF HoldsAfterPut, Valid
<1>3. ASSUME NEW w \in Worker \ {v}, PutLock(w) PROVE Valid(v)
  <2>1. v # w /\ call[w].stale \in BOOLEAN
    BY <1>3 DEF TInv, GoodCalls, Call
  <2>2. hold'[v] = HoldsAfterPut(call[w].stale)[v]
    BY <1>3, <2>1 DEF PutLock
  <2> QED
    BY <1>2, <2>1, <2>2
<1>4. ASSUME NEW m \in late, LatePut(m) PROVE Valid(v)
  BY <1>2, <1>4 DEF LatePut, TInv, TypeOK
<1>5. ASSUME NEW w \in Worker,
             \/ LockCall(w) \/ UnlockStep(w)
             \/ (LockStep(w) /\ ~At(w, "put")) \/ PutFails(w)
      PROVE  hold' = hold
  BY <1>5 DEF LockCall, PutLock, LockStep, LockRetry, Grant, GrantFails, GetLock, LockExists, GetFails,
              Stamp, PutFails, UnlockStep, UnlockRetry, UnlockNothing, UnlockNotOwner,
              UnlockGet, UnlockGetFails, Revoke, RevokeFails
<1>6. ASSUME \/ \E w \in Worker : UnlockCall(w)
             \/ \E t \in Token : Crash(t)
      PROVE  hold'[v] = hold[v]
  BY <1>0, <1>6 DEF UnlockCall, Crash
<1>7. ASSUME \E l \in Lease : LeaseExpires(l) PROVE hold' = hold
  BY <1>7 DEF LeaseExpires
<1>8. CASE Tick
  BY <1>8, TickHolds DEF Valid, Fresh
<1> QED
  BY <1>1, <1>3, <1>4, <1>5, <1>6, <1>7, <1>8 DEF NotGained, Environment

-----------------------------------------------------------------------------
(* The answers of the storage *)

\* What the worker learns from an answer is what the name has after the call.
LEMMA LearnsContent ==
  ASSUME SystemTypeOK, NEW w \in Worker, A!Answer(w)
  PROVE  /\ store' \in [Name -> Content]
         /\ reply' \in [Worker -> Answers]
         /\ Learned(req[w], reply'[w]) \subseteq Content
         /\ store'["name"] \in Learned(req[w], reply'[w])
         /\ ~Writes(w) => store' = store
<1>0. /\ req[w] \in A!Request /\ store \in [Name -> Content] /\ reply \in [Worker -> Answers]
      /\ store["name"] \in Content
  BY DEF SystemTypeOK, A!Answer, A!Pending, Name
<1>1. CASE req[w].op = "write"
  <2>1. /\ store' = [store EXCEPT ![req[w].w.key] = req[w].w.val]
        /\ reply' = [reply EXCEPT ![w] = A!Ok]
    BY <1>1 DEF A!Answer
  <2>2. req[w].w.key = "name" /\ req[w].w.val \in Content
    BY <1>0, <1>1 DEF A!Request, A!Write, Name, Content
  <2>3. Learned(req[w], reply'[w]) = {req[w].w.val}
    BY <1>1 DEF Learned
  <2>4. A!Ok \in Answers
    BY DEF A!Ok, A!Reply, Answers, Content
  <2> QED
    BY <1>0, <1>1, <2>1, <2>2, <2>3, <2>4 DEF Writes, Name
<1>2. CASE req[w].op = "load"
  <2>1. store' = store /\ reply' = [reply EXCEPT ![w] = A!Load(req[w].key)]
    BY <1>2 DEF A!Answer
  <2>2. req[w].key = "name"
    BY <1>0, <1>2 DEF A!Request, Name
  <2>3. /\ A!Load("name") \in Answers
        /\ \/ store["name"] = None /\ A!Load("name").kind = "notexist"
           \/ A!Load("name").kind = "value" /\ A!Load("name").val = store["name"]
    BY <1>0 DEF A!Load, A!NotExist, A!Reply, Answers, Content
  <2>4. Learned(req[w], reply'[w]) = {store["name"]}
    BY <1>0, <1>2, <2>1, <2>2, <2>3 DEF Learned
  <2> QED
    BY <1>0, <1>2, <2>1, <2>2, <2>3, <2>4 DEF Writes
<1>3. CASE req[w].op = "stat"
  <2>1. store' = store /\ reply' = [reply EXCEPT ![w] = A!Stat(req[w].key)]
    BY <1>3 DEF A!Answer
  <2>2. req[w].key = "name"
    BY <1>0, <1>3 DEF A!Request, Name
  <2>3. DOMAIN A!Children("name") = {}
    BY DEF A!Children, NothingBelow, Name
  <2>4. /\ A!Stat("name") \in Answers
        /\ \/ store["name"] = None /\ A!Stat("name").kind = "notexist"
           \/ store["name"] \in Value /\ A!Stat("name").kind = "file"
    BY <1>0, <2>3 DEF A!Stat, A!NotExist, A!Reply, Answers, Content, Length
  <2>5. reply'[w] = A!Stat("name") /\ reply' \in [Worker -> Answers]
    BY <1>0, <2>1, <2>2, <2>4
  <2>6. Learned(req[w], reply'[w]) =
          {c \in Content : /\ A!Stat("name").kind = "value" => c = A!Stat("name").val
                           /\ A!Stat("name").kind = "file" => c # None
                           /\ A!Stat("name").kind = "notexist" => c = None}
    BY <1>3, <2>5 DEF Learned
  <2>7. store["name"] \in Learned(req[w], reply'[w])
    BY <1>0, <2>4, <2>6, ValueAssumption
  <2> QED
    BY <1>0, <1>3, <2>1, <2>5, <2>6, <2>7 DEF Writes
<1> QED
  BY <1>0, <1>1, <1>2, <1>3 DEF A!Request

-----------------------------------------------------------------------------
(* The invariant *)

\* Nobody knows anything in the initial state.
LEMMA SystemInitInv == SystemInit => SInv
<1> SUFFICES ASSUME SystemInit PROVE SInv
  OBVIOUS
<1>1. TInv /\ MInv /\ TypeOK
  BY TypeInit, MutexInit DEF SystemInit, TInv
<1>2. A!NoReply \in Answers
  BY DEF A!NoReply, A!Reply, Answers, Content
<1>3. SystemTypeOK
  BY <1>1, <1>2 DEF SystemInit, SystemTypeOK, A!Init, Content
<1>4. ViewHolds
  BY DEF SystemInit, ViewHolds, A!Init, Content, Name
<1> QED
  BY <1>1, <1>3, <1>4 DEF SInv

\* Steps of the lock keep the views true: only Lock makes a lock valid, and its
\* caller starts from nothing.
LEMMA LockingKeepsViews ==
  ASSUME SInv, LockingStep, TypeOK' PROVE SystemTypeOK' /\ ViewHolds'
<1>0. /\ TInv /\ UNCHANGED <<store, req, reply, lateWrite>>
      /\ store["name"] \in Content /\ view \in [Worker -> SUBSET Content]
  BY DEF SInv, LockingStep, storageVars, SystemTypeOK, Name
<1>1. ASSUME NEW w \in Worker, LockReturns(w) PROVE SystemTypeOK' /\ ViewHolds'
  <2>1. view' = [view EXCEPT ![w] = Content] /\ PutLock(w)
    BY <1>1 DEF LockReturns
  <2>2. \A v \in Worker \ {w} : NotGained(v)
    BY <2>1 DEF NotGained
  <2>3. \A v \in Worker \ {w} : Valid(v)' => Valid(v)
    BY <1>0, <2>2, ValidBefore
  <2> QED
    BY <1>0, <2>1, <2>3 DEF SInv, SystemTypeOK, ViewHolds
<1>2. CASE view' = view /\ \A v \in Worker : NotGained(v)
  <2>1. \A v \in Worker : Valid(v)' => Valid(v)
    BY <1>0, <1>2, ValidBefore
  <2> QED
    BY <1>0, <1>2, <2>1 DEF SInv, SystemTypeOK, ViewHolds
<1>3. \/ \E w \in Worker : LockReturns(w)
      \/ view' = view /\ \A v \in Worker : NotGained(v)
  BY DEF LockingStep, NotGained, LockCalled, UnlockCalled
<1> QED
  BY <1>1, <1>2, <1>3

\* A write of w is no news to a valid holder of another process, because w's own
\* lock would have to be valid, and gives everybody else nothing to rely on.
LEMMA AnswerKeepsViews ==
  ASSUME SInv, NEW w \in Worker, Answered(w)
  PROVE  SystemTypeOK' /\ ViewHolds'
<1>0. /\ SystemTypeOK /\ A!Answer(w) /\ UNCHANGED <<vars, req, lateWrite>>
      /\ view \in [Worker -> SUBSET Content] /\ store \in [Name -> Content]
  BY DEF SInv, Answered, SystemTypeOK, A!Answer
<1>1. /\ store' \in [Name -> Content] /\ store'["name"] \in Content
      /\ reply' \in [Worker -> Answers]
      /\ Learned(req[w], reply'[w]) \subseteq Content
      /\ store'["name"] \in Learned(req[w], reply'[w])
      /\ ~Writes(w) => store' = store
  BY <1>0, LearnsContent DEF Name
<1>2. ViewsAfterWrite(w) \in [Worker -> SUBSET Content]
  BY <1>0 DEF ViewsAfterWrite
<1>3. view' = [(IF Writes(w) THEN ViewsAfterWrite(w) ELSE view) EXCEPT
                 ![w] = Learned(req[w], reply'[w])]
  BY DEF Answered
<1> HIDE DEF Learned
<1>4. view' \in [Worker -> SUBSET Content] /\ view'[w] = Learned(req[w], reply'[w])
  BY <1>0, <1>1, <1>2, <1>3
<1>5. SystemTypeOK'
  <2>1. TypeOK'
    BY <1>0 DEF SystemTypeOK, TypeOK, vars
  <2> QED
    BY <1>0, <1>1, <1>4, <2>1 DEF SystemTypeOK
<1>6. ASSUME NEW v \in Worker, Valid(v)' PROVE store'["name"] \in view'[v]
  <2>1. Valid(v)
    BY <1>0, <1>6 DEF Valid, Fresh, vars
  <2>2. CASE v = w
    BY <1>1, <1>4, <2>2
  <2>3. CASE v # w /\ ~Writes(w)
    BY <1>0, <1>1, <1>3, <2>1, <2>3 DEF SInv, ViewHolds
  <2>4. CASE v # w /\ Writes(w)
    <3>1. ~(Valid(w) /\ TokenOf[v] # TokenOf[w])
      BY <2>1 DEF SInv, MInv, HoldIsBacked, Valid
    <3>2. view'[v] = Content
      BY <1>0, <1>3, <2>4, <3>1 DEF ViewsAfterWrite
    <3> QED
      BY <1>1, <3>2
  <2> QED
    BY <2>2, <2>3, <2>4
<1> QED
  BY <1>5, <1>6 DEF ViewHolds

\* The other steps of the storage take knowledge away or change nothing.
LEMMA CallsKeepViews ==
  ASSUME SInv, NEW w \in Worker, Calls(w) \/ CallFails(w) \/ CallReturns(w)
  PROVE  SystemTypeOK' /\ ViewHolds'
<1>0. /\ UNCHANGED <<vars, store>> /\ SystemTypeOK /\ TypeOK' /\ store["name"] \in Content
      /\ ViewHolds
  BY DEF SInv, SystemTypeOK, Calls, CallFails, CallReturns, A!Invoke, A!Fail, A!Return, vars,
         TypeOK, Name
<1>1. view' = view \/ view' = [view EXCEPT ![w] = Content]
  BY DEF Calls, CallFails, CallReturns
<1>2. ViewHolds'
  BY <1>0, <1>1 DEF SystemTypeOK, ViewHolds, Valid, Fresh, vars
<1>3. A!NoReply \in Answers /\ A!Error \in Answers
  BY DEF A!NoReply, A!Error, A!Reply, Answers, Content
<1>4. CASE Calls(w)
  <2>1. PICK r \in A!Request : A!Invoke(w, r)
    BY <1>4 DEF Calls
  <2>2. req' = [req EXCEPT ![w] = r] /\ UNCHANGED <<reply, lateWrite, view>>
    BY <1>4, <2>1 DEF Calls, A!Invoke
  <2> HIDE DEF A!Request
  <2> QED
    BY <1>0, <1>2, <2>2 DEF SystemTypeOK
<1>5. CASE CallFails(w)
  <2>1. lateWrite' \subseteq A!Write
    <3>1. A!Pending(w) /\ req[w].op = "write" => req[w].w \in A!Write
      BY <1>0 DEF SystemTypeOK, A!Pending, A!Request
    <3> QED
      BY <1>0, <1>5, <3>1 DEF CallFails, A!Fail, SystemTypeOK
  <2> QED
    BY <1>0, <1>1, <1>2, <1>3, <1>5, <2>1 DEF CallFails, A!Fail, SystemTypeOK
<1>6. CASE CallReturns(w)
  BY <1>0, <1>2, <1>3, <1>6 DEF CallReturns, A!Return, SystemTypeOK
<1> QED
  BY <1>4, <1>5, <1>6

\* After a late write nobody relies on anything.
LEMMA LateWriteKeepsViews ==
  ASSUME SInv, LateWriteApplied PROVE SystemTypeOK' /\ ViewHolds'
<1>1. PICK x \in lateWrite : A!TakeEffect(x)
  BY DEF LateWriteApplied
<1>2. x \in A!Write /\ store \in [Name -> Content]
  BY DEF SInv, SystemTypeOK
<1>3. x.key = "name" /\ x.val \in Content
  BY <1>2 DEF A!Write, Name, Content
<1>4. /\ store' \in [Name -> Content] /\ store'["name"] \in Content
      /\ lateWrite' \subseteq lateWrite
  BY <1>1, <1>2, <1>3 DEF A!TakeEffect, Name
<1>5. TypeOK'
  BY DEF SInv, SystemTypeOK, TypeOK, LateWriteApplied, vars
<1> QED
  BY <1>1, <1>4, <1>5 DEF SInv, SystemTypeOK, ViewHolds, LateWriteApplied, A!TakeEffect

\* The invariant is inductive.
LEMMA SystemStep == SInv /\ [SystemNext]_systemVars => SInv'
<1> SUFFICES ASSUME SInv, [SystemNext]_systemVars PROVE SInv'
  OBVIOUS
<1>1. TInv' /\ MInv'
  BY SystemLockStep, TypeStep, MutexStep DEF SInv
<1>2. TypeOK'
  BY <1>1 DEF TInv
<1>3. CASE UNCHANGED systemVars
  BY <1>1, <1>2, <1>3 DEF SInv, SystemTypeOK, ViewHolds, Valid, Fresh, systemVars, storageVars, vars
<1>4. CASE LockingStep
  BY <1>1, <1>2, <1>4, LockingKeepsViews DEF SInv
<1>5. ASSUME NEW w \in Worker, Calls(w) \/ CallFails(w) \/ CallReturns(w) PROVE SInv'
  BY <1>1, <1>5, CallsKeepViews DEF SInv
<1>6. ASSUME NEW w \in Worker, Answered(w) PROVE SInv'
  BY <1>1, <1>6, AnswerKeepsViews DEF SInv
<1>7. CASE LateWriteApplied
  BY <1>1, <1>7, LateWriteKeepsViews DEF SInv
<1> QED
  BY <1>3, <1>4, <1>5, <1>6, <1>7 DEF SystemNext

\* As long as a worker's lock is valid, what it has read or written under the
\* name stays so, unless somebody writes whose lock is no longer valid.  For any
\* number of processes and workers, any values, clocks and timeouts.
THEOREM ViewsHold == SystemSpec => []ViewHolds
<1>1. SInv => ViewHolds
  BY DEF SInv
<1> QED
  BY SystemInitInv, SystemStep, <1>1, PTL DEF SystemSpec

\* The lock, the storage and what the workers know keep their types.
THEOREM SystemTypeCorrect == SystemSpec => []SystemTypeOK
<1>1. SInv => SystemTypeOK
  BY DEF SInv
<1> QED
  BY SystemInitInv, SystemStep, <1>1, PTL DEF SystemSpec

-----------------------------------------------------------------------------
(* The parts *)

\* Every step of the system is a step of the storage or leaves it alone.
LEMMA SystemStorageStep == [SystemNext]_systemVars => [A!Next]_storageVars
<1> SUFFICES ASSUME [SystemNext]_systemVars PROVE [A!Next]_storageVars
  OBVIOUS
<1>1. CASE LockingStep \/ UNCHANGED systemVars
  BY <1>1 DEF LockingStep, systemVars
<1>2. CASE LateWriteApplied
  BY <1>2 DEF LateWriteApplied, A!Next
<1>3. ASSUME NEW w \in Worker, Calls(w)
      PROVE  A!Next
  BY <1>3 DEF Calls, A!Next
<1>4. ASSUME NEW w \in Worker, Answered(w) \/ CallFails(w) \/ CallReturns(w)
      PROVE  A!Next
  BY <1>4 DEF Answered, CallFails, CallReturns, A!Next
<1> QED
  BY <1>1, <1>2, <1>3, <1>4 DEF SystemNext

\* A behaviour of the system is a behaviour of the lock and one of the storage:
\* what is proved of either, by itself, holds when workers use both.
THEOREM SystemIsLockAndStorage == SystemSpec => Spec /\ A!Spec
<1>1. SystemInit => Init /\ A!Init
  BY DEF SystemInit
<1>2. [SystemNext]_systemVars => [Next]_vars /\ [A!Next]_storageVars
  BY SystemLockStep, SystemStorageStep
<1> QED
  BY <1>1, <1>2, PTL DEF SystemSpec, Spec, A!Spec, A!avars, storageVars

\* In the system the lock keeps its promise, whatever its holders do to the
\* storage, and two processes never have valid locks at the same time.
THEOREM SystemKeepsPromise == SystemSpec => KeepsPromise /\ []MutexUnlessLost
BY SystemIsLockAndStorage, LockKeepsPromise, MutualExclusionUnlessLost, PTL

=============================================================================

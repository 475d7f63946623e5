--------------------------- MODULE EtcdLock_proofs ---------------------------
(***************************************************************************)
(* Proofs about EtcdLock: typing, mutual exclusion as far as the code has  *)
(* it (MutexUnlessLost), the record behind every lock (HoldIsBacked), what *)
(* callers are promised (KeepsPromise), freshness on return                *)
(* (YoungOnReturn), the end of retries (CallsRunDown) and of locks whose   *)
(* process is gone (OrphansRunOut), for any number of workers and          *)
(* processes, any skew and any timeouts.                                   *)
(***************************************************************************)
EXTENDS EtcdLock, TLAPS

-----------------------------------------------------------------------------
(* Typing *)

\* The local variables of a call have their initial values except where the
\* code has set them.
Shape(c) ==
  /\ c.pc \in {"get", "stamp", "put", "urevoke"} => c.lease \in Lease
  /\ c.pc \notin {"stamp", "put"} => ~c.stale
  /\ c.pc # "put" => c.stamp = 0

Good(c) == c \in Call /\ Shape(c)

GoodCalls == call \in [Worker -> Call] /\ \A w \in Worker : Shape(call[w])

TInv == TypeOK /\ GoodCalls

\* An idle call is good, and so is a crashed one.
LEMMA GoodIdle == Good(Idle) /\ Good([Idle EXCEPT !.pc = "crashed"])
<1> DEFINE x == [Idle EXCEPT !.pc = "crashed"]
<1>1. Good(Idle)
  BY TimeAssumption DEF Good, Shape, Idle, Call, PC, Age
<1>2. x \in Call
  BY <1>1 DEF Good, Call, PC
<1>3. x.pc = "crashed" /\ x.stale = FALSE /\ x.stamp = 0
  BY DEF Idle
<1> QED
  BY <1>1, <1>2, <1>3 DEF Good, Shape

\* A call that waits for its next attempt is good.
LEMMA GoodRetry ==
  ASSUME NEW c \in Call, NEW p \in {"lockwait", "unlockwait"}, NEW d \in 1 .. MaxInterval
  PROVE  Good([Idle EXCEPT !.pc = p, !.wait = d, !.ctx = c.ctx, !.elapsed = c.elapsed])
<1> DEFINE x == [Idle EXCEPT !.pc = p, !.wait = d, !.ctx = c.ctx, !.elapsed = c.elapsed]
<1>1. x \in Call
  <2>1. Idle \in Call /\ d \in 0 .. MaxInterval /\ p \in PC
    BY GoodIdle, TimeAssumption DEF Good, PC
  <2> QED
    BY <2>1, TimeAssumption DEF Call
<1>2. x.pc = p /\ x.stale = FALSE /\ x.stamp = 0
  BY DEF Idle
<1> QED
  BY <1>1, <1>2 DEF Good, Shape

\* Moving a good call to its next round trip keeps it good.
LEMMA GoodMove ==
  ASSUME NEW c, Good(c), NEW p \in PC,
         \/ c.pc \in {"idle", "lockwait"} /\ p = "grant"
         \/ c.pc \in {"idle", "unlockwait"} /\ p = "uget"
         \/ c.pc = "get" /\ p = "stamp"
         \/ c.pc = "stamp" /\ p = "put"
  PROVE  Good([c EXCEPT !.pc = p]) /\ Good([c EXCEPT !.pc = p, !.ctx = 0])
<1> DEFINE x == [c EXCEPT !.pc = p]
           y == [c EXCEPT !.pc = p, !.ctx = 0]
<1>1. x \in Call /\ y \in Call
  <2>1. 0 \in 0 .. RequestTimeout
    BY TimeAssumption
  <2> QED
    BY <2>1 DEF Good, Call
<1>2. /\ x.pc = p /\ x.stale = c.stale /\ x.stamp = c.stamp /\ x.lease = c.lease
      /\ y.pc = p /\ y.stale = c.stale /\ y.stamp = c.stamp /\ y.lease = c.lease
  BY DEF Good, Call
<1> HIDE DEF x, y
<1>3. Shape(x) /\ Shape(y)
  BY <1>2 DEF Good, Shape
<1> QED
  BY <1>1, <1>3 DEF Good, x, y

\* Recording a lease in a good call keeps it good.
LEMMA GoodLease ==
  ASSUME NEW c, Good(c), NEW l \in Lease, NEW p \in {"get", "urevoke"},
         c.pc \in {"grant", "uget"}
  PROVE  Good([c EXCEPT !.pc = p, !.lease = l])
<1> DEFINE x == [c EXCEPT !.pc = p, !.lease = l]
<1>1. x \in Call
  BY DEF Good, Call, PC
<1>2. x.pc = p /\ x.stale = c.stale /\ x.stamp = c.stamp /\ x.lease = l
  BY DEF Good, Call
<1> QED
  BY <1>1, <1>2 DEF Good, Shape

\* Marking the attempt as overtaken by another Put keeps the call good.
LEMMA GoodStale ==
  ASSUME NEW c, Good(c), c.pc \in {"stamp", "put"}
  PROVE  Good([c EXCEPT !.stale = TRUE])
<1> DEFINE x == [c EXCEPT !.stale = TRUE]
<1>1. x \in Call
  BY DEF Good, Call
<1>2. x.pc = c.pc /\ x.stamp = c.stamp /\ x.lease = c.lease
  BY DEF Good, Call
<1> QED
  BY <1>1, <1>2 DEF Good, Shape

\* Older stays within its cap and is monotone.
LEMMA OlderFacts ==
  /\ \A n \in Nat : \A i \in 0 .. n : Older(i, n) \in 0 .. n /\ i <= Older(i, n)
  /\ \A n, i, j \in Nat : i <= j => Older(i, n) <= Older(j, n)
BY DEF Older

\* Time keeps a good call good, moves no pc and changes stamps at "put" only.
LEMMA GoodOlder ==
  ASSUME NEW c, Good(c)
  PROVE  /\ Good(OlderCall(c))
         /\ OlderCall(c).pc = c.pc /\ OlderCall(c).stale = c.stale
         /\ OlderCall(c).stamp = IF c.pc = "put" THEN Older(c.stamp, AgeCap) ELSE c.stamp
         /\ c.pc = "put" => OlderCall(c).ctx = Older(c.ctx, RequestTimeout)
<1> DEFINE a == IF c.pc \in {"idle", "crashed", "lockwait"}
                THEN c.ctx ELSE Older(c.ctx, RequestTimeout)
           b == IF c.pc \in {"idle", "crashed"} THEN c.elapsed ELSE Older(c.elapsed, MaxElapsed)
           d == IF c.wait > 0 THEN c.wait - 1 ELSE c.wait
           e == IF c.pc = "put" THEN Older(c.stamp, AgeCap) ELSE c.stamp
           x == [c EXCEPT !.ctx = a, !.elapsed = b, !.wait = d, !.stamp = e]
<1>1. a \in 0 .. RequestTimeout /\ b \in 0 .. MaxElapsed
  BY OlderFacts, TimeAssumption DEF Good, Call
<1>2. d \in 0 .. MaxInterval
  BY TimeAssumption DEF Good, Call
<1>3. e \in Age
  BY OlderFacts, TimeAssumption DEF Good, Call, Age
<1>4. OlderCall(c) = x
  BY DEF OlderCall
<1>5. c.pc = "put" => a = Older(c.ctx, RequestTimeout)
  OBVIOUS
<1>6. c.pc # "put" => e = c.stamp
  OBVIOUS
<1>7. c \in Call /\ Shape(c)
  BY DEF Good
<1> HIDE DEF a, b, d, e
<1>8. x \in Call
  BY <1>1, <1>2, <1>3, <1>7 DEF Call
<1>9. x.pc = c.pc /\ x.stale = c.stale /\ x.lease = c.lease /\ x.stamp = e /\ x.ctx = a
  BY <1>7 DEF Call
<1>10. Shape(x)
  BY <1>6, <1>7, <1>9 DEF Shape
<1> QED
  BY <1>4, <1>5, <1>8, <1>9, <1>10 DEF Good, e

\* Setting one call to a good record keeps all of them good.
LEMMA GoodUpdate ==
  ASSUME GoodCalls, NEW w \in Worker, NEW c, Good(c), call' = [call EXCEPT ![w] = c]
  PROVE  GoodCalls'
BY DEF GoodCalls, Good

\* A failed attempt keeps the calls good.
LEMMA GoodFail ==
  ASSUME GoodCalls, NEW w \in Worker, NEW p \in {"lockwait", "unlockwait"}, RetryOrStop(w, p)
  PROVE  GoodCalls'
<1>1. PICK d \in 1 .. MaxInterval : call' = [call EXCEPT ![w] =
          IF call[w].elapsed + d > MaxElapsed
          THEN Idle
          ELSE [Idle EXCEPT !.pc = p, !.wait = d,
                            !.ctx = call[w].ctx, !.elapsed = call[w].elapsed]]
  BY DEF RetryOrStop
<1>2. call[w] \in Call
  BY DEF GoodCalls
<1>3. CASE call[w].elapsed + d > MaxElapsed
  BY <1>1, <1>3, GoodIdle, GoodUpdate
<1>4. CASE ~(call[w].elapsed + d > MaxElapsed)
  BY <1>1, <1>2, <1>4, GoodRetry, GoodUpdate
<1> QED
  BY <1>3, <1>4

\* A Put that reaches etcd keeps the calls good.
LEMMA GoodPut ==
  ASSUME NEW cs \in [Worker -> Call], \A v \in Worker : Shape(cs[v]),
         call' = CallsAfterPut(cs)
  PROVE  GoodCalls'
<1>1. ASSUME NEW v \in Worker PROVE Good(call'[v])
  BY GoodStale DEF CallsAfterPut, Good
<1> QED
  BY <1>1 DEF GoodCalls, CallsAfterPut, Good

\* The record written by a worker about to Put is a lock record.
LEMMA NewLockType ==
  ASSUME GoodCalls, NEW w \in Worker, At(w, "put")
  PROVE  NewLock(w) \in LockRecord /\ Abandoned(w) \in [rec: LockRecord, stale: BOOLEAN]
BY TokenAssumption DEF GoodCalls, At, NewLock, Abandoned, LockRecord, Call, Shape

\* The holds after a Put are holds.
LEMMA HoldsType ==
  ASSUME TypeOK, NEW s \in BOOLEAN
  PROVE  HoldsAfterPut(s) \in [Worker -> [age: Age, lost: BOOLEAN] \cup {NoHold}]
<1>1. ASSUME NEW v \in Worker, hold[v] # NoHold
      PROVE  [hold[v] EXCEPT !.lost = TRUE] \in [age: Age, lost: BOOLEAN]
  BY <1>1 DEF TypeOK
<1> QED
  BY <1>1 DEF TypeOK, HoldsAfterPut

\* The initial state is well typed.
LEMMA TypeInit == Init => TInv
BY GoodIdle DEF Init, TInv, TypeOK, GoodCalls, Good

\* Steps of Lock keep the types.
LEMMA TypeLock ==
  ASSUME TInv, NEW w \in Worker, LockCall(w) \/ LockStep(w)
  PROVE  TInv'
<1>0. TypeOK /\ GoodCalls /\ Good(call[w]) /\ call[w] \in Call
  BY DEF TInv, GoodCalls, Good
<1>1. CASE LockCall(w)
  <2>1. GoodCalls'
    BY <1>0, <1>1, GoodMove, GoodUpdate DEF LockCall, At, Goto, PC
  <2> QED
    BY <1>1, <2>1 DEF TInv, TypeOK, GoodCalls, LockCall
<1>2. CASE LockRetry(w)
  <2> DEFINE c == [call[w] EXCEPT !.pc = "grant", !.ctx = 0]
  <2>2. call' = [call EXCEPT ![w] = c]
    BY <1>0, <1>2 DEF LockRetry, GoodCalls
  <2>3. Good(c)
    BY <1>0, <1>2, GoodMove DEF LockRetry, At, PC
  <2> HIDE DEF c
  <2>1. GoodCalls'
    BY <1>0, <2>2, <2>3, GoodUpdate
  <2> QED
    BY <1>2, <2>1 DEF TInv, TypeOK, GoodCalls, LockRetry
<1>3. CASE Grant(w)
  <2>1. PICK l \in FreshLease :
          /\ leases' = leases \cup {l}
          /\ call' = [call EXCEPT ![w].pc = "get", ![w].lease = l]
    BY <1>3 DEF Grant
  <2>2. l \in Lease
    BY DEF FreshLease
  <2> DEFINE c == [call[w] EXCEPT !.pc = "get", !.lease = l]
  <2>4. call' = [call EXCEPT ![w] = c]
    BY <1>0, <2>1 DEF GoodCalls
  <2>5. Good(c)
    BY <1>0, <1>3, <2>2, GoodLease DEF Grant, At
  <2> HIDE DEF c
  <2>3. GoodCalls'
    BY <1>0, <2>4, <2>5, GoodUpdate
  <2> QED
    BY <1>0, <1>3, <2>1, <2>2, <2>3 DEF TInv, TypeOK, GoodCalls, Grant
<1>4. CASE GrantFails(w) \/ LockExists(w) \/ GetFails(w)
  <2>1. RetryOrStop(w, "lockwait") /\ UNCHANGED <<lockKey, leases, late, hold>>
    BY <1>4 DEF GrantFails, LockExists, GetFails, LockFails
  <2>2. GoodCalls'
    BY <1>0, <2>1, GoodFail
  <2> QED
    BY <2>1, <2>2 DEF TInv, TypeOK, GoodCalls
<1>5. CASE GetLock(w) \/ Stamp(w)
  <2>1. GoodCalls'
    BY <1>0, <1>5, GoodMove, GoodUpdate DEF GetLock, Stamp, At, Goto, PC
  <2> QED
    BY <1>5, <2>1 DEF TInv, TypeOK, GoodCalls, GetLock, Stamp
<1>6. CASE PutLock(w)
  <2> DEFINE cs == [call EXCEPT ![w] = Idle]
  <2>1. cs \in [Worker -> Call] /\ \A v \in Worker : Shape(cs[v])
    BY <1>0, GoodIdle DEF GoodCalls, Good
  <2>2. call' = CallsAfterPut(cs)
    BY <1>6 DEF PutLock
  <2> HIDE DEF cs
  <2>3. GoodCalls'
    BY <2>1, <2>2, GoodPut
  <2>4. lockKey' \in LockRecord
    BY <1>0, <1>6, NewLockType DEF PutLock
  <2>5. hold' \in [Worker -> [age: Age, lost: BOOLEAN] \cup {NoHold}]
    BY <1>0, <1>6, HoldsType DEF PutLock, Call
  <2>6. late' \subseteq [rec: LockRecord, stale: BOOLEAN]
    BY <1>0, <1>6 DEF PutLock, LateAfterPut, TypeOK
  <2> QED
    BY <1>0, <1>6, <2>3, <2>4, <2>5, <2>6 DEF TInv, TypeOK, GoodCalls, PutLock
<1>7. CASE PutFails(w)
  <2>1. GoodCalls'
    BY <1>0, <1>7, GoodFail DEF PutFails, LockFails
  <2>2. late' \subseteq [rec: LockRecord, stale: BOOLEAN]
    BY <1>0, <1>7, NewLockType DEF PutFails, TypeOK
  <2> QED
    BY <1>0, <1>7, <2>1, <2>2 DEF TInv, TypeOK, GoodCalls, PutFails
<1> QED
  BY <1>1, <1>2, <1>3, <1>4, <1>5, <1>6, <1>7 DEF LockStep

\* Steps of Unlock keep the types.
LEMMA TypeUnlock ==
  ASSUME TInv, NEW w \in Worker, UnlockCall(w) \/ UnlockStep(w)
  PROVE  TInv'
<1>0. TypeOK /\ GoodCalls /\ Good(call[w]) /\ call[w] \in Call
  BY DEF TInv, GoodCalls, Good
<1>1. CASE UnlockCall(w)
  <2>1. GoodCalls'
    BY <1>0, <1>1, GoodMove, GoodUpdate DEF UnlockCall, At, Goto, PC
  <2> QED
    BY <1>0, <1>1, <2>1 DEF TInv, TypeOK, GoodCalls, UnlockCall
<1>2. CASE UnlockRetry(w)
  <2>1. GoodCalls'
    BY <1>0, <1>2, GoodMove, GoodUpdate DEF UnlockRetry, At, Goto, PC
  <2> QED
    BY <1>2, <2>1 DEF TInv, TypeOK, GoodCalls, UnlockRetry
<1>3. CASE UnlockNothing(w)
  <2>1. GoodCalls'
    BY <1>0, <1>3, GoodIdle, GoodUpdate DEF UnlockNothing, Return
  <2> QED
    BY <1>3, <2>1 DEF TInv, TypeOK, GoodCalls, UnlockNothing
<1>4. CASE UnlockNotOwner(w) \/ UnlockGetFails(w)
  <2>1. RetryOrStop(w, "unlockwait") /\ UNCHANGED <<lockKey, leases, late, hold>>
    BY <1>4 DEF UnlockNotOwner, UnlockGetFails, UnlockFails
  <2>2. GoodCalls'
    BY <1>0, <2>1, GoodFail
  <2> QED
    BY <2>1, <2>2 DEF TInv, TypeOK, GoodCalls
<1>5. CASE UnlockGet(w)
  <2>1. lockKey.lease \in Lease
    BY <1>0, <1>5 DEF UnlockGet, TypeOK, LockRecord
  <2> DEFINE c == [call[w] EXCEPT !.pc = "urevoke", !.lease = lockKey.lease]
  <2>3. call' = [call EXCEPT ![w] = c]
    BY <1>0, <1>5 DEF UnlockGet, GoodCalls
  <2>4. Good(c)
    BY <1>0, <1>5, <2>1, GoodLease DEF UnlockGet, At
  <2> HIDE DEF c
  <2>2. GoodCalls'
    BY <1>0, <2>3, <2>4, GoodUpdate
  <2> QED
    BY <1>5, <2>2 DEF TInv, TypeOK, GoodCalls, UnlockGet
<1>6. CASE Revoke(w)
  <2>1. GoodCalls'
    BY <1>0, <1>6, GoodIdle, GoodUpdate DEF Revoke, Return
  <2> QED
    BY <1>0, <1>6, <2>1 DEF TInv, TypeOK, GoodCalls, Revoke
<1>7. CASE RevokeFails(w)
  <2>1. GoodCalls'
    BY <1>0, <1>7, GoodFail DEF RevokeFails, UnlockFails
  <2> QED
    BY <1>0, <1>7, <2>1 DEF TInv, TypeOK, GoodCalls, RevokeFails
<1> QED
  BY <1>1, <1>2, <1>3, <1>4, <1>5, <1>6, <1>7 DEF UnlockStep

\* Steps of etcd, the network, crashes and time keep the types.
LEMMA TypeEnv ==
  ASSUME TInv,
         \/ \E m \in late : LatePut(m)
         \/ \E l \in Lease : LeaseExpires(l)
         \/ \E t \in Token : Crash(t)
         \/ Tick
  PROVE  TInv'
<1>0. TypeOK /\ GoodCalls
  BY DEF TInv
<1>1. ASSUME NEW m \in late, LatePut(m) PROVE TInv'
  <2>1. GoodCalls'
    BY <1>0, <1>1, GoodPut DEF LatePut, GoodCalls
  <2>2. m \in [rec: LockRecord, stale: BOOLEAN]
    BY <1>0 DEF TypeOK
  <2>3. hold' \in [Worker -> [age: Age, lost: BOOLEAN] \cup {NoHold}]
    BY <1>0, <1>1, <2>2, HoldsType DEF LatePut
  <2>4. late' \subseteq [rec: LockRecord, stale: BOOLEAN]
    BY <1>0, <1>1 DEF LatePut, LateAfterPut, TypeOK
  <2> QED
    BY <1>0, <1>1, <2>1, <2>2, <2>3, <2>4 DEF TInv, TypeOK, GoodCalls, LatePut
<1>2. ASSUME NEW l \in Lease, LeaseExpires(l) PROVE TInv'
  BY <1>0, <1>2 DEF LeaseExpires, TInv, TypeOK, GoodCalls
<1>3. ASSUME NEW t \in Token, Crash(t) PROVE TInv'
  <2> DEFINE dead == {w \in Worker : TokenOf[w] = t}
             sent == {Abandoned(w) : w \in {v \in dead : At(v, "put")}}
  <2>1. GoodCalls'
    BY <1>0, <1>3, GoodIdle DEF Crash, GoodCalls, Good
  <2>2. sent \subseteq [rec: LockRecord, stale: BOOLEAN]
    BY <1>0, NewLockType
  <2>3. PICK left \in SUBSET sent : late' = late \cup left
    BY <1>3 DEF Crash
  <2>4. late' \subseteq [rec: LockRecord, stale: BOOLEAN]
    BY <1>0, <2>2, <2>3 DEF TypeOK
  <2>5. hold' \in [Worker -> [age: Age, lost: BOOLEAN] \cup {NoHold}]
    BY <1>0, <1>3 DEF Crash, TypeOK
  <2> QED
    BY <1>0, <1>3, <2>1, <2>4, <2>5 DEF TInv, TypeOK, GoodCalls, Crash
<1>4. CASE Tick
  <2>0. \A a \in Age : Older(a, AgeCap) \in Age
    BY OlderFacts, TimeAssumption DEF Age
  <2>1. GoodCalls'
    BY <1>0, <1>4, GoodOlder DEF Tick, GoodCalls, Good
  <2>2. lockKey' \in LockRecord \cup {NoLock}
    BY <1>0, <1>4, <2>0 DEF Tick, TypeOK, LockRecord
  <2>3. late' \subseteq [rec: LockRecord, stale: BOOLEAN]
    <3>1. ASSUME NEW m \in late
          PROVE  [m EXCEPT !.rec.age = Older(@, AgeCap)] \in [rec: LockRecord, stale: BOOLEAN]
      <4>1. m \in [rec: LockRecord, stale: BOOLEAN] /\ m.rec \in LockRecord
        BY <1>0 DEF TypeOK
      <4>2. [m.rec EXCEPT !.age = Older(@, AgeCap)] \in LockRecord
        BY <2>0, <4>1 DEF LockRecord
      <4> QED
        BY <4>1, <4>2
    <3> QED
      BY <1>4, <3>1 DEF Tick
  <2>4. hold' \in [Worker -> [age: Age, lost: BOOLEAN] \cup {NoHold}]
    BY <1>0, <1>4, <2>0 DEF Tick, TypeOK
  <2> QED
    BY <1>0, <1>4, <2>1, <2>2, <2>3, <2>4 DEF TInv, TypeOK, GoodCalls, Tick
<1> QED
  BY <1>1, <1>2, <1>3, <1>4

\* Typing is inductive.
LEMMA TypeStep == TInv /\ [Next]_vars => TInv'
<1> SUFFICES ASSUME TInv, [Next]_vars PROVE TInv'
  OBVIOUS
<1>1. CASE UNCHANGED vars
  BY <1>1 DEF vars, TInv, TypeOK, GoodCalls
<1>2. CASE Next
  BY <1>2, TypeLock, TypeUnlock, TypeEnv DEF Next, Environment
<1> QED
  BY <1>1, <1>2

\* The lock record, the leases, the Puts in flight and the local variables of
\* every call keep their types, for any number of workers and processes.
THEOREM TypeCorrect == Spec => []TypeOK
<1>1. Spec => []TInv
  BY TypeInit, TypeStep, PTL DEF Spec
<1>2. TInv => TypeOK
  BY DEF TInv
<1> QED
  BY <1>1, <1>2, PTL

-----------------------------------------------------------------------------
(* Mutual exclusion *)

\* The record in etcd is one a Lock call with token t may replace.
MayReplace(t) == lockKey # NoLock => lockKey.token = t \/ Expired(t, lockKey)

\* A record of age a is at least as young as every hold.
Youngest(a) == \A v \in Worker : hold[v] # NoHold => a <= hold[v].age

\* As long as nobody has written since its Get, an attempt's okToSet still
\* holds, and so it does for its Put when the client has given up.
CallsGuarded ==
  \A w \in Worker :
    call[w].pc \in {"stamp", "put"} /\ ~call[w].stale =>
      MayReplace(TokenOf[w]) /\ Youngest(call[w].stamp)

LateGuarded ==
  \A m \in late : ~m.stale => MayReplace(m.rec.token) /\ Youngest(m.rec.age)

MInv == HoldIsBacked /\ CallsGuarded /\ LateGuarded

\* okToSet is MayReplace.
LEMMA OkToSetReplaces ==
  ASSUME NEW w \in Worker, okToSet(w) PROVE MayReplace(TokenOf[w])
BY DEF okToSet, MayReplace

\* Nobody holds the lock in the initial state.
LEMMA MutexInit == Init => MInv
BY DEF Init, MInv, HoldIsBacked, CallsGuarded, LateGuarded, Fresh, Idle

\* Steps that write no record, after which the holders are some of the old
\* ones and the Puts to come are ones already sent, keep the invariant.
LEMMA MutexFrame ==
  ASSUME TInv, MInv, lockKey' = lockKey,
         \A v \in Worker : hold'[v] = hold[v] \/ hold'[v] = NoHold,
         \A v \in Worker : call'[v] = call[v] \/ call'[v].pc \notin {"stamp", "put"},
         \A m \in late' : m \in late \/ \E v \in Worker : At(v, "put") /\ m = Abandoned(v)
  PROVE  MInv'
<1>1. HoldIsBacked'
  BY DEF MInv, HoldIsBacked, Fresh
<1>2. CallsGuarded'
  BY DEF MInv, CallsGuarded, MayReplace, Youngest, Expired
<1>3. LateGuarded'
  <2>1. ASSUME NEW m \in late', ~m.stale
        PROVE  MayReplace(m.rec.token) /\ Youngest(m.rec.age)
    <3>1. CASE m \in late
      BY <2>1, <3>1 DEF MInv, LateGuarded
    <3>2. ASSUME NEW v \in Worker, At(v, "put"), m = Abandoned(v)
          PROVE  MayReplace(m.rec.token) /\ Youngest(m.rec.age)
      <4>1. m.stale = call[v].stale /\ m.rec.token = TokenOf[v] /\ m.rec.age = call[v].stamp
        BY <3>2 DEF Abandoned, NewLock
      <4> QED
        BY <2>1, <3>2, <4>1 DEF MInv, CallsGuarded, At
    <3> QED
      BY <3>1, <3>2
  <2> QED
    BY <2>1 DEF LateGuarded, MayReplace, Youngest, Expired
<1> QED
  BY <1>1, <1>2, <1>3 DEF MInv

\* A Put of rec by a writer with token rec.token reaches etcd.  If it is not
\* stale it replaces no record that protects a holder of another process.
LEMMA MutexPut ==
  ASSUME TInv, HoldIsBacked, NEW rec \in LockRecord, NEW s \in BOOLEAN,
         ~s => MayReplace(rec.token) /\ Youngest(rec.age),
         lockKey' = rec,
         NEW W \in SUBSET Worker,
         \A v \in W : TokenOf[v] = rec.token /\ rec.age <= hold'[v].age,
         \A v \in Worker \ W : hold'[v] = HoldsAfterPut(s)[v],
         \A v \in Worker : call'[v].pc \in {"stamp", "put"} => call'[v].stale,
         \A m \in late' : m.stale
  PROVE  MInv'
<1>0. rec # NoLock /\ TypeOK /\ Skew \in [Token -> Int] /\ LockTimeout \in Nat
  BY NoneAssumption, SkewAssumption, TimeAssumption DEF TInv
<1>1. ASSUME NEW v \in Worker \ W, Fresh(v)', ~hold'[v].lost
      PROVE  rec.token = TokenOf[v] /\ rec.age <= hold'[v].age
  <2>1. hold[v] # NoHold /\ hold[v] \in [age: Age, lost: BOOLEAN]
    BY <1>0, <1>1 DEF Fresh, HoldsAfterPut, TypeOK
  <2>2. ~s
    BY <1>1, <2>1 DEF HoldsAfterPut
  <2>3. hold'[v] = hold[v]
    BY <1>1, <2>2 DEF HoldsAfterPut
  <2>4. Fresh(v) /\ ~hold[v].lost
    BY <1>1, <2>3 DEF Fresh
  <2>5. /\ lockKey # NoLock /\ lockKey.token = TokenOf[v] /\ lockKey.age <= hold[v].age
        /\ rec.age <= hold[v].age
        /\ lockKey.token = rec.token \/ Expired(rec.token, lockKey)
    BY <2>1, <2>2, <2>4 DEF HoldIsBacked, MayReplace, Youngest
  <2>6. ~Expired(rec.token, lockKey)
    <3>1. rec.token \in Token /\ TokenOf[v] \in Token
      BY TokenAssumption DEF LockRecord
    <3>2. AgeSeenBy(rec.token, TokenOf[v], hold[v].age) < LockTimeout
      BY <2>4, <3>1 DEF Fresh, YoungAges
    <3>3. lockKey.age \in Int /\ hold[v].age \in Int
      BY <1>0, <2>1, <2>5, TimeAssumption DEF TypeOK, LockRecord, Age
    <3>4. Skew[rec.token] \in Int /\ Skew[TokenOf[v]] \in Int
      BY <3>1, SkewAssumption
    <3> QED
      BY <1>0, <2>5, <3>2, <3>3, <3>4 DEF Expired, AgeSeenBy
  <2> QED
    BY <2>3, <2>5, <2>6
<1>2. HoldIsBacked'
  BY <1>0, <1>1 DEF HoldIsBacked
<1> QED
  BY <1>2 DEF MInv, CallsGuarded, LateGuarded

\* A failed attempt moves one call, to a wait or back to its caller.
LEMMA RetryMoves ==
  ASSUME call \in [Worker -> Call], NEW w \in Worker,
         NEW p \in {"lockwait", "unlockwait"}, RetryOrStop(w, p)
  PROVE  /\ \A v \in Worker \ {w} : call'[v] = call[v]
         /\ call'[w].pc \in {"idle", p}
<1>1. PICK d \in 1 .. MaxInterval : call' = [call EXCEPT ![w] =
          IF call[w].elapsed + d > MaxElapsed
          THEN Idle
          ELSE [Idle EXCEPT !.pc = p, !.wait = d,
                            !.ctx = call[w].ctx, !.elapsed = call[w].elapsed]]
  BY DEF RetryOrStop
<1>2. CASE call[w].elapsed + d > MaxElapsed
  BY <1>1, <1>2 DEF Idle
<1>3. CASE ~(call[w].elapsed + d > MaxElapsed)
  <2>1. call'[w] = [Idle EXCEPT !.pc = p, !.wait = d,
                            !.ctx = call[w].ctx, !.elapsed = call[w].elapsed]
    BY <1>1, <1>3
  <2>2. call'[w].pc = p
    BY <2>1 DEF Idle
  <2> QED
    BY <1>1, <2>2
<1> QED
  BY <1>2, <1>3

\* Steps of Lock keep the invariant.
LEMMA MutexLock ==
  ASSUME TInv, MInv, NEW w \in Worker, LockCall(w) \/ LockStep(w)
  PROVE  MInv'
<1>0. call \in [Worker -> Call] /\ call[w] \in Call /\ Shape(call[w])
  BY DEF TInv, GoodCalls
<1>1. CASE LockCall(w) \/ LockRetry(w) \/ Grant(w)
  <2>1. /\ \A v \in Worker \ {w} : call'[v] = call[v]
        /\ call'[w].pc \in {"grant", "get"}
    BY <1>0, <1>1 DEF LockCall, LockRetry, Grant, Goto, Call
  <2>2. UNCHANGED <<lockKey, late, hold>>
    BY <1>1 DEF LockCall, LockRetry, Grant
  <2> QED
    BY <2>1, <2>2, MutexFrame
<1>2. CASE GrantFails(w) \/ LockExists(w) \/ GetFails(w) \/ PutFails(w)
  <2>1. /\ \A v \in Worker \ {w} : call'[v] = call[v]
        /\ call'[w].pc \in {"idle", "lockwait"}
    BY <1>0, <1>2, RetryMoves DEF GrantFails, LockExists, GetFails, PutFails, LockFails
  <2>2. UNCHANGED <<lockKey, hold>>
    BY <1>2 DEF GrantFails, LockExists, GetFails, PutFails
  <2>3. \A m \in late' : m \in late \/ \E v \in Worker : At(v, "put") /\ m = Abandoned(v)
    BY <1>2 DEF GrantFails, LockExists, GetFails, PutFails
  <2> QED
    BY <2>1, <2>2, <2>3, MutexFrame
<1>3. CASE GetLock(w) \/ Stamp(w)
  <2>1. /\ \A v \in Worker \ {w} : call'[v] = call[v]
        /\ call'[w].stale = call[w].stale /\ call'[w].stamp = 0
    BY <1>0, <1>3 DEF GetLock, Stamp, Goto, At, Call, Shape
  <2>2. UNCHANGED <<lockKey, late, hold>>
    BY <1>3 DEF GetLock, Stamp
  <2>3. ~call[w].stale => MayReplace(TokenOf[w])
    BY <1>3, OkToSetReplaces DEF GetLock, Stamp, At, MInv, CallsGuarded
  <2>4. Youngest(0)
    BY TimeAssumption DEF Youngest, TInv, TypeOK, Age
  <2>5. CallsGuarded'
    BY <2>1, <2>2, <2>3, <2>4 DEF MInv, CallsGuarded, MayReplace, Youngest, Expired
  <2> QED
    BY <2>2, <2>5 DEF MInv, HoldIsBacked, LateGuarded, MayReplace, Youngest, Expired, Fresh
<1>4. CASE PutLock(w)
  <2>1. /\ NewLock(w) \in LockRecord
        /\ NewLock(w).token = TokenOf[w] /\ NewLock(w).age = call[w].stamp
    BY <1>4, NewLockType DEF PutLock, TInv, NewLock
  <2>2. ~call[w].stale => MayReplace(NewLock(w).token) /\ Youngest(NewLock(w).age)
    BY <1>4, <2>1 DEF PutLock, At, MInv, CallsGuarded
  <2>3. hold'[w].age = call[w].stamp /\ call[w].stamp \in Nat
    BY <1>0, <1>4, HoldsType, TimeAssumption DEF PutLock, TInv, Call, Age
  <2>4. \A v \in Worker \ {w} : hold'[v] = HoldsAfterPut(call[w].stale)[v]
    BY <1>4 DEF PutLock
  <2>5. \A v \in Worker : call'[v].pc \in {"stamp", "put"} => call'[v].stale
    <3> DEFINE cs == [call EXCEPT ![w] = Idle]
    <3>1. cs \in [Worker -> Call] /\ call' = CallsAfterPut(cs)
      BY <1>0, <1>4, GoodIdle DEF PutLock, Good
    <3> HIDE DEF cs
    <3> QED
      BY <3>1 DEF CallsAfterPut, Call
  <2>6. \A m \in late' : m.stale
    BY <1>4 DEF PutLock, LateAfterPut, TInv, TypeOK
  <2>7. lockKey' = NewLock(w) /\ call[w].stale \in BOOLEAN /\ HoldIsBacked
    BY <1>0, <1>4 DEF PutLock, Call, MInv
  <2>8. \A v \in {w} : TokenOf[v] = NewLock(w).token /\ NewLock(w).age <= hold'[v].age
    BY <2>1, <2>3
  <2>9. {w} \in SUBSET Worker
    OBVIOUS
  <2> QED
    BY ONLY TInv, <2>1, <2>2, <2>4, <2>5, <2>6, <2>7, <2>8, <2>9, MutexPut
<1> QED
  BY <1>1, <1>2, <1>3, <1>4 DEF LockStep

\* Steps of Unlock write nothing, so they keep the invariant.
LEMMA MutexUnlock ==
  ASSUME TInv, MInv, NEW w \in Worker, UnlockCall(w) \/ UnlockStep(w)
  PROVE  MInv'
<1>0. /\ call \in [Worker -> Call] /\ call[w] \in Call
      /\ hold \in [Worker -> [age: Age, lost: BOOLEAN] \cup {NoHold}]
  BY DEF TInv, GoodCalls, TypeOK
<1>1. UNCHANGED <<lockKey, late>>
  BY DEF UnlockCall, UnlockStep, UnlockRetry, UnlockNothing, UnlockNotOwner, UnlockGet,
         UnlockGetFails, Revoke, RevokeFails
<1>2. \A v \in Worker : hold'[v] = hold[v] \/ hold'[v] = NoHold
  BY <1>0 DEF UnlockCall, UnlockStep, UnlockRetry, UnlockNothing, UnlockNotOwner, UnlockGet,
         UnlockGetFails, Revoke, RevokeFails
<1>3. \A v \in Worker : call'[v] = call[v] \/ call'[v].pc \notin {"stamp", "put"}
  <2>1. CASE UnlockCall(w) \/ UnlockRetry(w) \/ UnlockGet(w)
    BY <1>0, <2>1 DEF UnlockCall, UnlockRetry, UnlockGet, Goto, Call
  <2>2. CASE UnlockNothing(w) \/ Revoke(w)
    BY <1>0, <2>2 DEF UnlockNothing, Revoke, Return, Idle
  <2>3. CASE UnlockNotOwner(w) \/ UnlockGetFails(w) \/ RevokeFails(w)
    BY <1>0, <2>3, RetryMoves DEF UnlockNotOwner, UnlockGetFails, RevokeFails, UnlockFails
  <2> QED
    BY <2>1, <2>2, <2>3 DEF UnlockStep
<1> QED
  BY <1>1, <1>2, <1>3, MutexFrame

\* Late Puts, expiring leases and crashes keep the invariant.
LEMMA MutexEnv ==
  ASSUME TInv, MInv,
         \/ \E m \in late : LatePut(m)
         \/ \E l \in Lease : LeaseExpires(l)
         \/ \E t \in Token : Crash(t)
  PROVE  MInv'
<1>0. TypeOK /\ GoodCalls
  BY DEF TInv
<1>1. ASSUME NEW m \in late, LatePut(m) PROVE MInv'
  <2>1. m.rec \in LockRecord /\ m.stale \in BOOLEAN /\ lockKey' = m.rec /\ HoldIsBacked
    BY <1>0, <1>1 DEF TypeOK, LatePut, MInv
  <2>2. ~m.stale => MayReplace(m.rec.token) /\ Youngest(m.rec.age)
    BY DEF MInv, LateGuarded
  <2>3. \A v \in Worker \ {} : hold'[v] = HoldsAfterPut(m.stale)[v]
    BY <1>1 DEF LatePut
  <2>4. \A v \in Worker : call'[v].pc \in {"stamp", "put"} => call'[v].stale
    BY <1>0, <1>1 DEF LatePut, CallsAfterPut, GoodCalls, Call
  <2>5. \A x \in late' : x.stale
    BY <1>0, <1>1 DEF LatePut, LateAfterPut, TypeOK
  <2>6. {} \in SUBSET Worker /\ \A v \in {} : TokenOf[v] = m.rec.token /\ m.rec.age <= hold'[v].age
    OBVIOUS
  <2> QED
    BY ONLY TInv, <2>1, <2>2, <2>3, <2>4, <2>5, <2>6, MutexPut
<1>2. ASSUME NEW l \in Lease, LeaseExpires(l) PROVE MInv'
  BY <1>2, MutexFrame DEF LeaseExpires
<1>3. ASSUME NEW t \in Token, Crash(t) PROVE MInv'
  <2>1. \A v \in Worker : hold'[v] = hold[v] \/ hold'[v] = NoHold
    BY <1>3 DEF Crash
  <2>2. \A v \in Worker : call'[v] = call[v] \/ call'[v].pc \notin {"stamp", "put"}
    BY <1>3 DEF Crash, Idle
  <2>3. \A m \in late' : m \in late \/ \E v \in Worker : At(v, "put") /\ m = Abandoned(v)
    BY <1>3 DEF Crash
  <2> QED
    BY <1>3, <2>1, <2>2, <2>3, MutexFrame DEF Crash
<1> QED
  BY <1>1, <1>2, <1>3

\* Time keeps every lock in the hands it is in, and what is past its timeout
\* stays so.
LEMMA TickHolds ==
  ASSUME TInv, Tick
  PROVE  \A v \in Worker :
           /\ (hold'[v] = NoHold) = (hold[v] = NoHold)
           /\ hold[v] # NoHold => /\ hold[v].age \in Age
                                  /\ hold'[v].lost = hold[v].lost
                                  /\ hold'[v].age = Older(hold[v].age, AgeCap)
           /\ Fresh(v)' => Fresh(v)
<1>0. /\ TypeOK /\ AgeCap \in Nat /\ LockTimeout \in Nat
      /\ Skew \in [Token -> Int] /\ TokenOf \in [Worker -> Token]
  BY TimeAssumption, SkewAssumption, TokenAssumption DEF TInv
<1>1. \A a \in Age : Older(a, AgeCap) \in Age /\ a <= Older(a, AgeCap) /\ a \in Int
  BY <1>0, OlderFacts DEF Age
<1>2. ASSUME NEW v \in Worker, hold[v] # NoHold
      PROVE  /\ hold'[v] # NoHold /\ hold[v].age \in Age
             /\ hold'[v].lost = hold[v].lost
             /\ hold'[v].age = Older(hold[v].age, AgeCap)
  <2>1. /\ hold[v] \in [age: Age, lost: BOOLEAN]
        /\ hold'[v] = [hold[v] EXCEPT !.age = Older(@, AgeCap)]
    BY <1>0, <1>2 DEF Tick, TypeOK
  <2>2. hold'[v] \in [age: Age, lost: BOOLEAN]
    BY <1>1, <2>1
  <2> QED
    BY <2>1, <2>2, NoneAssumption
<1>3. ASSUME NEW v \in Worker, hold[v] = NoHold PROVE hold'[v] = NoHold
  BY <1>3 DEF Tick
<1>4. ASSUME NEW v \in Worker, Fresh(v)', NEW t \in Token
      PROVE  AgeSeenBy(t, TokenOf[v], hold[v].age) < LockTimeout
  <2>1. hold[v] # NoHold /\ AgeSeenBy(t, TokenOf[v], hold'[v].age) < LockTimeout
    BY <1>0, <1>3, <1>4 DEF Fresh, YoungAges
  <2>2. hold[v].age \in Int /\ hold'[v].age \in Int /\ hold[v].age <= hold'[v].age
    BY <1>1, <1>2, <2>1 DEF Age
  <2>3. Skew[t] \in Int /\ Skew[TokenOf[v]] \in Int
    BY <1>0
  <2> QED
    BY <1>0, <2>1, <2>2, <2>3 DEF AgeSeenBy
<1> QED
  BY <1>0, <1>2, <1>3, <1>4 DEF Fresh, YoungAges

\* Time keeps the invariant: everything ages together, and what is past its
\* timeout stays so.
LEMMA MutexTick == ASSUME TInv, MInv, Tick PROVE MInv'
<1>0. /\ TypeOK /\ GoodCalls /\ AgeCap \in Nat /\ LockTimeout \in Nat
      /\ Skew \in [Token -> Int] /\ TokenOf \in [Worker -> Token]
  BY TimeAssumption, SkewAssumption, TokenAssumption DEF TInv
<1>1. \A a \in Age : Older(a, AgeCap) \in Age /\ a <= Older(a, AgeCap) /\ a \in Int
  BY <1>0, OlderFacts DEF Age
<1>2. \A a, b \in Age : a <= b => Older(a, AgeCap) <= Older(b, AgeCap)
  BY <1>0, OlderFacts DEF Age
<1>3. /\ (lockKey' = NoLock) = (lockKey = NoLock)
      /\ lockKey # NoLock => /\ lockKey.age \in Age /\ lockKey.token \in Token
                             /\ lockKey'.token = lockKey.token
                             /\ lockKey'.age = Older(lockKey.age, AgeCap)
  <2>1. CASE lockKey = NoLock
    BY <2>1 DEF Tick
  <2>2. CASE lockKey # NoLock
    <3>1. lockKey \in LockRecord /\ lockKey' = [lockKey EXCEPT !.age = Older(@, AgeCap)]
      BY <1>0, <2>2 DEF Tick, TypeOK
    <3>2. lockKey' \in LockRecord
      BY <1>1, <3>1 DEF LockRecord
    <3> QED
      BY <2>2, <3>1, <3>2, NoneAssumption DEF LockRecord
  <2> QED
    BY <2>1, <2>2
<1>4. \A v \in Worker :
        /\ (hold'[v] = NoHold) = (hold[v] = NoHold)
        /\ hold[v] # NoHold => /\ hold[v].age \in Age
                               /\ hold'[v].lost = hold[v].lost
                               /\ hold'[v].age = Older(hold[v].age, AgeCap)
  BY TickHolds
<1>5. \A v \in Worker : Fresh(v)' => Fresh(v)
  BY TickHolds
<1>6. \A t \in Token : MayReplace(t) => MayReplace(t)'
  <2> SUFFICES ASSUME NEW t \in Token, lockKey # NoLock, Expired(t, lockKey)
               PROVE  Expired(t, lockKey')
    BY <1>3 DEF MayReplace
  <2>1. lockKey.age \in Int /\ lockKey'.age \in Int /\ lockKey.age <= lockKey'.age
    BY <1>1, <1>3 DEF Age
  <2>2. Skew[t] \in Int /\ Skew[lockKey.token] \in Int
    BY <1>0, <1>3
  <2> QED
    BY <1>0, <1>3, <2>1, <2>2 DEF Expired, AgeSeenBy
<1>7. \A a \in Age : Youngest(a) => Youngest(Older(a, AgeCap))'
  BY <1>2, <1>4 DEF Youngest
<1>8. HoldIsBacked'
  BY <1>2, <1>3, <1>4, <1>5 DEF MInv, HoldIsBacked, Fresh
<1>9. CallsGuarded'
  <2> SUFFICES ASSUME NEW w \in Worker, call'[w].pc \in {"stamp", "put"}, ~call'[w].stale
               PROVE  MayReplace(TokenOf[w])' /\ Youngest(call[w].stamp)'
    BY DEF CallsGuarded
  <2>1. Good(call[w]) /\ call'[w] = OlderCall(call[w])
    BY <1>0 DEF Tick, GoodCalls, Good
  <2>2. /\ call[w].pc \in {"stamp", "put"} /\ ~call[w].stale
        /\ call'[w].stamp = IF call[w].pc = "put" THEN Older(call[w].stamp, AgeCap)
                            ELSE call[w].stamp
    BY <2>1, GoodOlder
  <2>3. MayReplace(TokenOf[w]) /\ Youngest(call[w].stamp) /\ TokenOf[w] \in Token
    BY <1>0, <2>2 DEF MInv, CallsGuarded
  <2>4. call[w].stamp \in Age
    BY <2>1 DEF Good, Call
  <2>5. CASE call[w].pc = "put"
    BY <1>6, <1>7, <2>2, <2>3, <2>4, <2>5
  <2>6. CASE call[w].pc = "stamp"
    <3>1. call'[w].stamp = 0
      BY <2>1, <2>2, <2>6 DEF Good, Shape
    <3>2. \A v \in Worker : hold'[v] # NoHold => 0 <= hold'[v].age
      BY <1>0, <1>1, <1>4 DEF Age
    <3> QED
      BY <1>6, <2>3, <3>1, <3>2 DEF Youngest
  <2> QED
    BY <2>2, <2>5, <2>6
<1>10. LateGuarded'
  <2> SUFFICES ASSUME NEW m \in late, ~[m EXCEPT !.rec.age = Older(@, AgeCap)].stale
               PROVE  LET x == [m EXCEPT !.rec.age = Older(@, AgeCap)]
                      IN  MayReplace(x.rec.token)' /\ Youngest(x.rec.age)'
    BY DEF Tick, LateGuarded
  <2> DEFINE x == [m EXCEPT !.rec.age = Older(@, AgeCap)]
  <2>1. m \in [rec: LockRecord, stale: BOOLEAN] /\ m.rec.token \in Token /\ m.rec.age \in Age
    BY <1>0 DEF TypeOK, LockRecord
  <2>2. x.stale = m.stale /\ x.rec.token = m.rec.token /\ x.rec.age = Older(m.rec.age, AgeCap)
    BY <2>1 DEF LockRecord
  <2>3. MayReplace(m.rec.token) /\ Youngest(m.rec.age)
    BY <2>2 DEF MInv, LateGuarded
  <2> QED
    BY <1>6, <1>7, <2>1, <2>2, <2>3
<1> QED
  BY <1>8, <1>9, <1>10 DEF MInv

\* The invariant is inductive.
LEMMA MutexStep == TInv /\ MInv /\ [Next]_vars => MInv'
<1> SUFFICES ASSUME TInv, MInv, [Next]_vars PROVE MInv'
  OBVIOUS
<1>1. CASE UNCHANGED vars
  BY <1>1, MutexFrame DEF vars
<1>2. CASE Next
  BY <1>2, MutexLock, MutexUnlock, MutexEnv, MutexTick DEF Next, Environment
<1> QED
  BY <1>1, <1>2

\* Two processes have a lock that is not past its timeout on any clock only if
\* the unguarded Put of lock overwrote a record written after its Get.  For any
\* number of workers and processes, any clock skew and any timeouts: retries,
\* crashes, skew and extending the lock never break mutual exclusion.
THEOREM MutualExclusionUnlessLost == Spec => []MutexUnlessLost
<1>1. Spec => [](TInv /\ MInv)
  BY TypeInit, TypeStep, MutexInit, MutexStep, PTL DEF Spec
<1>2. MInv => MutexUnlessLost
  BY DEF MInv, HoldIsBacked, MutexUnlessLost
<1> QED
  BY <1>1, <1>2, PTL

\* A fresh lock that is not lost has its record in etcd, even after a goroutine
\* of the same process has unlocked the key: Unlock revokes a lease and leaves
\* the record.  For any number of goroutines per process.
THEOREM HoldStaysBacked == Spec => []HoldIsBacked
<1>1. Spec => [](TInv /\ MInv)
  BY TypeInit, TypeStep, MutexInit, MutexStep, PTL DEF Spec
<1>2. MInv => HoldIsBacked
  BY DEF MInv
<1> QED
  BY <1>1, <1>2, PTL

-----------------------------------------------------------------------------
(* What the callers see *)

tvars == <<locking, valid, astray>>

\* A lock its worker may rely on is backed by a record.
LEMMA ValidStands == MInv => \A v \in Worker : Stands(v) <=> Valid(v)
BY DEF MInv, HoldIsBacked, Stands, Valid

\* A lock that nobody touches stays as valid as it was.
LEMMA ValidKept ==
  ASSUME NEW v \in Worker, hold'[v] = hold[v] PROVE Valid(v)' <=> Valid(v)
BY DEF Valid, Fresh

\* The age of the lock each worker may rely on.
LEMMA ValidAges ==
  ASSUME MInv PROVE valid = [v \in Worker |-> IF Valid(v) THEN hold[v].age ELSE NoHold]
BY ValidStands DEF valid

LEMMA ValidAgesNext ==
  ASSUME MInv' PROVE valid' = [v \in Worker |-> IF Valid(v)' THEN hold'[v].age ELSE NoHold]
<1>1. \A v \in Worker : Stands(v)' <=> Valid(v)'
  BY DEF MInv, HoldIsBacked, Stands, Valid
<1> QED
  BY <1>1 DEF valid

\* What a worker's lock is to its callers changes only with its hold.
LEMMA ValidSame ==
  ASSUME MInv, MInv', \A v \in Worker : hold'[v] = hold[v] PROVE valid' = valid
<1>1. \A v \in Worker : Valid(v)' <=> Valid(v)
  BY ValidKept
<1> QED
  BY <1>1, ValidAges, ValidAgesNext

\* The holders are the workers with a valid lock.
LEMMA HoldersAreValid ==
  ASSUME TInv, MInv
  PROVE  \A v \in Worker : /\ valid[v] = IF Valid(v) THEN hold[v].age ELSE NoHold
                           /\ v \in Timed!Holders <=> Valid(v)
<1>1. \A v \in Worker : Valid(v) => hold[v].age \in Age
  BY DEF TInv, TypeOK, Valid, Fresh
<1> QED
  BY <1>1, ValidAges, NoneAssumption DEF Timed!Holders

\* A step of a call of Lock that does not return nil: the call begins, goes on or
\* is refused.
LEMMA LockGoesOn ==
  ASSUME TInv, MInv, MInv', NEW w \in Worker, LockCall(w) \/ (LockStep(w) /\ ~PutLock(w))
  PROVE  \/ w \in Worker \ locking /\ Timed!Lock(w)
         \/ w \in locking /\ Timed!Refused(w)
         \/ UNCHANGED tvars
<1>0. call \in [Worker -> Call] /\ call[w] \in Call
  BY DEF TInv, GoodCalls
<1>1. hold' = hold
  BY DEF LockCall, LockStep, LockRetry, Grant, GrantFails, GetLock, LockExists, GetFails,
         Stamp, PutFails
<1>2. valid' = valid
  BY <1>1, ValidSame
<1>3. CASE LockCall(w)
  <2>1. w \notin locking /\ locking' = locking \cup {w}
    BY <1>0, <1>3 DEF LockCall, At, Goto, locking, InLock, Call
  <2>2. astray' = astray
    BY <1>3 DEF LockCall, astray
  <2> QED
    BY <1>2, <2>1, <2>2 DEF Timed!Lock
<1>4. CASE LockRetry(w) \/ Grant(w) \/ GetLock(w) \/ Stamp(w)
  <2>1. /\ \A v \in Worker \ {w} : call'[v] = call[v]
        /\ call[w].pc \in InLock /\ call'[w].pc \in InLock
    BY <1>0, <1>4 DEF LockRetry, Grant, GetLock, Stamp, At, Goto, InLock, Call
  <2>2. astray' = astray
    BY <1>4 DEF LockRetry, Grant, GetLock, Stamp, astray
  <2>3. locking' = locking
    BY <2>1 DEF locking
  <2> QED
    BY <1>2, <2>2, <2>3 DEF tvars
<1>5. CASE GrantFails(w) \/ LockExists(w) \/ GetFails(w) \/ PutFails(w)
  <2>1. /\ \A v \in Worker \ {w} : call'[v] = call[v]
        /\ call'[w].pc \in {"idle", "lockwait"}
    BY <1>0, <1>5, RetryMoves DEF GrantFails, LockExists, GetFails, PutFails, LockFails
  <2>2. call[w].pc \in InLock
    BY <1>5 DEF GrantFails, LockExists, GetFails, PutFails, At, InLock
  <2>3. w \in locking /\ (locking' = locking \/ locking' = locking \ {w})
    BY <2>1, <2>2 DEF locking, InLock
  <2>4. late' = late \/ late' = late \cup {Abandoned(w)}
    BY <1>5 DEF GrantFails, LockExists, GetFails, PutFails
  <2>5. astray' = astray \/ astray' = TRUE
    BY <2>4 DEF astray
  <2> QED
    BY <1>2, <2>3, <2>5 DEF Timed!Refused
<1> QED
  BY <1>3, <1>4, <1>5 DEF LockStep

\* Lock returns nil: either no other process had a valid lock, or the record it
\* overwrites was written after its Get and nobody else's lock is valid any more.
LEMMA LockSucceeds ==
  ASSUME TInv, TInv', MInv, MInv', NEW w \in Worker, PutLock(w)
  PROVE  w \in locking /\ (Timed!Granted(w) \/ Timed!Seized(w))
<1>0. /\ call \in [Worker -> Call] /\ call[w] \in Call
      /\ hold \in [Worker -> [age: Age, lost: BOOLEAN] \cup {NoHold}]
  BY DEF TInv, GoodCalls, TypeOK
<1>1. w \in locking /\ locking' = locking \ {w}
  <2> DEFINE cs == [call EXCEPT ![w] = Idle]
  <2>1. cs \in [Worker -> Call] /\ call' = CallsAfterPut(cs)
    BY <1>0, GoodIdle DEF PutLock, Good
  <2>2. \A v \in Worker : call'[v].pc = cs[v].pc
    <3> HIDE DEF cs
    <3> QED
      BY <2>1 DEF CallsAfterPut, Call
  <2>3. cs[w].pc = "idle" /\ \A v \in Worker \ {w} : cs[v] = call[v]
    BY <1>0 DEF Idle
  <2> HIDE DEF cs
  <2> QED
    BY <2>2, <2>3 DEF PutLock, At, locking, InLock
<1>2. /\ hold'[w] = [age |-> call[w].stamp, lost |-> FALSE]
      /\ \A v \in Worker \ {w} : hold'[v] = HoldsAfterPut(call[w].stale)[v]
  BY <1>0, HoldsType DEF PutLock, TInv, Call
<1>3. astray' = astray
  BY DEF PutLock, LateAfterPut, astray
<1>4. valid'[w] \in Timed!Obtained(w)
  BY ValidAgesNext DEF Valid, Fresh, Timed!Obtained
<1>5. valid' = [v \in Worker |-> IF v = w THEN valid'[w]
                                 ELSE IF Valid(v)' THEN hold'[v].age ELSE NoHold]
  BY ValidAgesNext
<1>6. CASE call[w].stale
  <2>1. ASSUME NEW v \in Worker \ {w} PROVE ~Valid(v)'
    <3>1. hold[v] # NoHold => hold'[v] = [hold[v] EXCEPT !.lost = TRUE]
      BY <1>2, <1>6 DEF HoldsAfterPut
    <3>2. hold[v] # NoHold => hold'[v].lost
      BY <1>0, <3>1
    <3>3. hold[v] = NoHold => hold'[v] = NoHold
      BY <1>2 DEF HoldsAfterPut
    <3> QED
      BY <3>2, <3>3 DEF Valid, Fresh
  <2>2. valid' = [Timed!Nobody EXCEPT ![w] = valid'[w]]
    BY <1>5, <2>1 DEF Timed!Nobody
  <2> QED
    BY <1>1, <1>3, <1>4, <2>2 DEF Timed!Seized
<1>7. CASE ~call[w].stale
  <2>1. \A v \in Worker \ {w} : hold'[v] = hold[v] /\ (Valid(v)' <=> Valid(v))
    BY <1>2, <1>7, ValidKept DEF HoldsAfterPut
  <2>2. valid' = [valid EXCEPT ![w] = valid'[w]]
    BY <1>5, <2>1, ValidAges
  <2>3. ASSUME NEW v \in Timed!Holders PROVE TokenOf[v] = TokenOf[w]
    <3>1. v \in Worker /\ Valid(v)
      BY HoldersAreValid DEF Timed!Holders
    <3>2. CASE v = w
      BY <3>2
    <3>3. CASE v # w
      <4>1. Fresh(v)' /\ ~hold'[v].lost
        BY <2>1, <3>1, <3>3 DEF Valid
      <4>2. lockKey'.token = TokenOf[v]
        BY <3>1, <4>1 DEF MInv, HoldIsBacked
      <4> QED
        BY <4>2 DEF PutLock, NewLock
    <3> QED
      BY <3>2, <3>3
  <2> QED
    BY <1>1, <1>3, <1>4, <2>2, <2>3 DEF Timed!Granted
<1> QED
  BY <1>1, <1>6, <1>7

\* Unlock ends the lock of its caller and of nobody else.
LEMMA UnlockEndsOwn ==
  ASSUME TInv, MInv, MInv', NEW w \in Worker, UnlockCall(w) \/ UnlockStep(w)
  PROVE  \/ w \in Worker \ locking /\ Timed!Unlock(w)
         \/ UNCHANGED tvars
<1>0. /\ call \in [Worker -> Call] /\ call[w] \in Call
      /\ hold \in [Worker -> [age: Age, lost: BOOLEAN] \cup {NoHold}]
  BY DEF TInv, GoodCalls, TypeOK
<1>1. w \notin locking /\ locking' = locking
  <2>1. call[w].pc \notin InLock
    BY DEF UnlockCall, UnlockStep, UnlockRetry, UnlockNothing, UnlockNotOwner, UnlockGet,
           UnlockGetFails, Revoke, RevokeFails, At, InLock
  <2>2. /\ \A v \in Worker \ {w} : call'[v] = call[v]
        /\ call'[w].pc \notin InLock
    <3>1. CASE UnlockCall(w) \/ UnlockRetry(w) \/ UnlockGet(w)
      BY <1>0, <3>1 DEF UnlockCall, UnlockRetry, UnlockGet, Goto, Call, InLock
    <3>2. CASE UnlockNothing(w) \/ Revoke(w)
      BY <1>0, <3>2 DEF UnlockNothing, Revoke, Return, Idle, InLock
    <3>3. CASE UnlockNotOwner(w) \/ UnlockGetFails(w) \/ RevokeFails(w)
      BY <1>0, <3>3, RetryMoves DEF UnlockNotOwner, UnlockGetFails, RevokeFails, UnlockFails, InLock
    <3> QED
      BY <3>1, <3>2, <3>3 DEF UnlockStep
  <2> QED
    BY <2>1, <2>2 DEF locking
<1>2. astray' = astray
  BY DEF UnlockCall, UnlockStep, UnlockRetry, UnlockNothing, UnlockNotOwner, UnlockGet,
         UnlockGetFails, Revoke, RevokeFails, astray
<1>3. CASE UnlockCall(w)
  <2>1. hold'[w] = NoHold /\ \A v \in Worker \ {w} : hold'[v] = hold[v]
    BY <1>0, <1>3 DEF UnlockCall
  <2>2. ~Valid(w)' /\ \A v \in Worker \ {w} : Valid(v)' <=> Valid(v)
    BY <2>1, ValidKept DEF Valid, Fresh
  <2>3. valid' = [valid EXCEPT ![w] = NoHold]
    BY <2>1, <2>2, ValidAges, ValidAgesNext
  <2> QED
    BY <1>1, <1>2, <2>3 DEF Timed!Unlock
<1>4. CASE UnlockStep(w)
  <2>1. hold' = hold
    BY <1>4 DEF UnlockStep, UnlockRetry, UnlockNothing, UnlockNotOwner, UnlockGet,
                UnlockGetFails, Revoke, RevokeFails
  <2> QED
    BY <1>1, <1>2, <2>1, ValidSame DEF tvars
<1> QED
  BY <1>3, <1>4

\* A late Put overwrites what it has not seen or changes nobody's lock.
LEMMA LatePutOverwrites ==
  ASSUME TInv, MInv, MInv', NEW m \in late, LatePut(m) PROVE Timed!Overwritten
<1>0. /\ call \in [Worker -> Call]
      /\ hold \in [Worker -> [age: Age, lost: BOOLEAN] \cup {NoHold}]
  BY DEF TInv, GoodCalls, TypeOK
<1>1. \A v \in Worker : call'[v].pc = call[v].pc
  BY <1>0 DEF LatePut, CallsAfterPut, Call
<1>2. locking' = locking /\ astray /\ astray' \in BOOLEAN
  BY <1>1 DEF locking, astray
<1>3. CASE m.stale
  <2>1. ASSUME NEW v \in Worker PROVE ~Valid(v)'
    <3>1. hold[v] # NoHold => hold'[v] = [hold[v] EXCEPT !.lost = TRUE]
      BY <1>3 DEF LatePut, HoldsAfterPut
    <3>2. hold[v] # NoHold => hold'[v].lost
      BY <1>0, <3>1
    <3>3. hold[v] = NoHold => hold'[v] = NoHold
      BY DEF LatePut, HoldsAfterPut
    <3> QED
      BY <3>2, <3>3 DEF Valid, Fresh
  <2>2. valid' = Timed!Nobody
    BY <2>1, ValidAgesNext DEF Timed!Nobody
  <2> QED
    BY <1>2, <2>2 DEF Timed!Overwritten
<1>4. CASE ~m.stale
  <2>1. \A v \in Worker : hold'[v] = hold[v]
    BY <1>4 DEF LatePut, HoldsAfterPut
  <2> QED
    BY <1>2, <2>1, ValidSame DEF Timed!Overwritten
<1> QED
  BY <1>3, <1>4

\* Time makes every lock older and ends exactly those that are then past their
\* timeout on some clock.
LEMMA TickPasses ==
  ASSUME TInv, MInv, MInv', Tick PROVE Timed!TimePasses
<1>0. /\ call \in [Worker -> Call] /\ \A v \in Worker : Good(call[v])
      /\ hold \in [Worker -> [age: Age, lost: BOOLEAN] \cup {NoHold}]
      /\ TokenOf \in [Worker -> Token] /\ AgeCap \in Nat /\ LockTimeout \in Nat
      /\ Skew \in [Token -> Int]
  BY TokenAssumption, TimeAssumption, SkewAssumption DEF TInv, GoodCalls, TypeOK, Good
<1>1. locking' = locking
  <2>1. \A v \in Worker : call'[v].pc = call[v].pc
    BY <1>0, GoodOlder DEF Tick
  <2> QED
    BY <2>1 DEF locking
<1>2. astray' = astray
  BY DEF Tick, astray
<1>3. ASSUME NEW v \in Worker
      PROVE  valid'[v] = IF valid[v] # NoHold /\ valid[v] + 1 \in YoungAges[TokenOf[v]]
                         THEN valid[v] + 1 ELSE NoHold
  <2>1. CASE Valid(v)
    <3> DEFINE a == hold[v].age
    <3>1. a \in Age /\ a \in YoungAges[TokenOf[v]] /\ valid[v] = a /\ a # NoHold
      BY <1>0, <2>1, HoldersAreValid, NoneAssumption DEF Valid, Fresh
    <3>2. a < AgeCap
      <4>1. AgeSeenBy(TokenOf[v], TokenOf[v], a) < LockTimeout
        BY <1>0, <3>1 DEF YoungAges
      <4>2. AgeCap >= LockTimeout + Skew[TokenOf[v]] - Skew[TokenOf[v]]
        BY <1>0, CapAssumption
      <4>3. a \in Int /\ Skew[TokenOf[v]] \in Int
        BY <1>0, <3>1 DEF Age
      <4> QED
        BY <1>0, <4>1, <4>2, <4>3 DEF AgeSeenBy
    <3>3. hold'[v] # NoHold /\ hold'[v].age = a + 1 /\ ~hold'[v].lost
      BY <2>1, <3>2, TickHolds DEF Older, Valid, Fresh
    <3>4. Valid(v)' <=> a + 1 \in YoungAges[TokenOf[v]]
      BY <3>3 DEF Valid, Fresh
    <3> HIDE DEF a
    <3> QED
      BY <3>1, <3>3, <3>4, ValidAgesNext
  <2>2. CASE ~Valid(v)
    <3>1. ~Valid(v)'
      BY <2>2, TickHolds DEF Valid, Fresh
    <3> QED
      BY <2>2, <3>1, HoldersAreValid, ValidAgesNext
  <2> QED
    BY <2>1, <2>2
<1>4. valid' = [v \in Worker |-> valid'[v]]
  BY DEF valid
<1> QED
  BY <1>1, <1>2, <1>3, <1>4 DEF Timed!TimePasses

\* A crash ends the locks of its process and no others.
LEMMA CrashEndsOwn ==
  ASSUME TInv, MInv, MInv', NEW t \in Token, Crash(t) PROVE Timed!Dies(t)
<1>1. \A v \in Worker :
        IF TokenOf[v] = t THEN call'[v].pc = "crashed" /\ hold'[v] = NoHold
        ELSE call'[v] = call[v] /\ hold'[v] = hold[v]
  BY DEF Crash, Idle
<1>2. locking' = {w \in locking : TokenOf[w] # t}
  BY <1>1 DEF locking, InLock
<1>3. \A v \in Worker : Valid(v)' <=> Valid(v) /\ TokenOf[v] # t
  BY <1>1, ValidKept DEF Valid, Fresh
<1>4. valid' = [w \in Worker |-> IF TokenOf[w] = t THEN NoHold ELSE valid[w]]
  BY <1>1, <1>3, ValidAges, ValidAgesNext
<1>5. \E left : late' = late \cup left
  BY DEF Crash
<1>6. astray' = astray \/ astray' = TRUE
  BY <1>5 DEF astray
<1> QED
  BY <1>2, <1>4, <1>6 DEF Timed!Dies

\* Every step of the lock is a step of TimedLock or changes nothing its callers see.
LEMMA PromiseStep ==
  TInv /\ TInv' /\ MInv /\ MInv' /\ [Next]_vars => [Timed!Next]_tvars
<1> SUFFICES ASSUME TInv, TInv', MInv, MInv', [Next]_vars PROVE [Timed!Next]_tvars
  OBVIOUS
<1>1. CASE UNCHANGED vars
  BY <1>1, ValidSame DEF vars, locking, astray, tvars
<1>2. ASSUME NEW w \in Worker, LockCall(w) \/ LockStep(w)
      PROVE  Timed!Next \/ UNCHANGED tvars
  BY <1>2, LockGoesOn, LockSucceeds DEF Timed!Next
<1>3. ASSUME NEW w \in Worker, UnlockCall(w) \/ UnlockStep(w)
      PROVE  Timed!Next \/ UNCHANGED tvars
  BY <1>3, UnlockEndsOwn DEF Timed!Next
<1>4. ASSUME NEW l \in Lease, LeaseExpires(l) PROVE UNCHANGED tvars
  BY <1>4, ValidSame DEF LeaseExpires, locking, astray, tvars
<1>5. CASE Environment
  BY <1>4, <1>5, LatePutOverwrites, TickPasses, CrashEndsOwn DEF Environment, Timed!Next
<1> QED
  BY <1>1, <1>2, <1>3, <1>5 DEF Next

\* The lock implements TimedLock, for any number of workers and processes, any
\* clocks and any timeouts.
THEOREM LockKeepsPromise == Spec => KeepsPromise
<1>1. Init => Timed!Init
  <2>1. Init => valid = Timed!Nobody
    BY DEF Init, valid, Stands, Timed!Nobody
  <2> QED
    BY <2>1 DEF Init, Timed!Init, locking, astray, InLock, Idle
<1>2. Spec => [](TInv /\ MInv)
  BY TypeInit, TypeStep, MutexInit, MutexStep, PTL DEF Spec
<1>3. TInv /\ TInv' /\ MInv /\ MInv' /\ [Next]_vars => [Timed!Next]_<<locking, valid, astray>>
  BY PromiseStep DEF tvars
<1> QED
  BY <1>1, <1>2, <1>3, PTL DEF Spec, KeepsPromise, Timed!Spec, Timed!lvars

\* Whatever keeps the promise of TimedLock excludes: two processes never have
\* valid locks at the same time.
THEOREM PromiseExcludes == KeepsPromise => []Timed!Exclusive
<1>1. Timed!Init => Timed!Exclusive
  BY DEF Timed!Init, Timed!Exclusive, Timed!Holders, Timed!Nobody
<1>2. Timed!Exclusive /\ [Timed!Next]_<<locking, valid, astray>> => Timed!Exclusive'
  <2> SUFFICES ASSUME Timed!Exclusive, [Timed!Next]_<<locking, valid, astray>>,
                      NEW u \in Timed!Holders', NEW v \in Timed!Holders'
               PROVE  TokenOf[u] = TokenOf[v]
    BY DEF Timed!Exclusive
  <2>1. /\ u \in Worker /\ valid'[u] # NoHold
        /\ v \in Worker /\ valid'[v] # NoHold
    BY DEF Timed!Holders
  <2>2. valid = [w \in Worker |-> valid[w]]
    BY DEF valid
  <2>3. ASSUME \A w \in {u, v} : valid[w] # NoHold PROVE TokenOf[u] = TokenOf[v]
    BY <2>1, <2>3 DEF Timed!Exclusive, Timed!Holders
  <2>4. ASSUME NEW w \in locking, Timed!Granted(w) PROVE TokenOf[u] = TokenOf[v]
    <3>1. \A x \in {u, v} : x = w \/ valid[x] # NoHold
      BY <2>1, <2>2, <2>4 DEF Timed!Granted
    <3>2. \A x \in {u, v} : TokenOf[x] = TokenOf[w]
      BY <2>1, <2>4, <3>1 DEF Timed!Granted, Timed!Holders
    <3> QED
      BY <3>2
  <2>5. ASSUME NEW w \in locking, Timed!Seized(w) PROVE TokenOf[u] = TokenOf[v]
    BY <2>1, <2>5 DEF Timed!Seized, Timed!Nobody
  <2>6. ASSUME NEW w \in Worker \ locking, Timed!Unlock(w) PROVE TokenOf[u] = TokenOf[v]
    BY <2>1, <2>2, <2>3, <2>6 DEF Timed!Unlock
  <2>7. CASE Timed!TimePasses \/ \E t \in Token : Timed!Dies(t)
    BY <2>1, <2>3, <2>7 DEF Timed!TimePasses, Timed!Dies
  <2>8. CASE Timed!Overwritten
    BY <2>1, <2>3, <2>8 DEF Timed!Overwritten, Timed!Nobody
  <2>9. CASE valid' = valid
    BY <2>1, <2>3, <2>9
  <2> QED
    BY <2>4, <2>5, <2>6, <2>7, <2>8, <2>9 DEF Timed!Next, Timed!Lock, Timed!Refused
<1> QED
  BY <1>1, <1>2, PTL DEF KeepsPromise, Timed!Spec, Timed!lvars

-----------------------------------------------------------------------------
(* Mutual exclusion without races *)

\* Only one worker at a time is inside Lock, and no Put outlives the client that
\* sent it.
OneAtATime ==
  /\ late = {}
  /\ \A v, w \in Worker : call[v].pc \in InLock /\ call[w].pc \in InLock => v = w

\* No attempt has been overtaken, and no record overwritten unseen.
NothingLost ==
  /\ \A w \in Worker : ~call[w].stale
  /\ \A w \in Worker : hold[w] # NoHold => ~hold[w].lost

\* If workers lock one at a time, nothing is ever overwritten unseen.
LEMMA NothingGetsLost ==
  TInv /\ TInv' /\ NothingLost /\ OneAtATime /\ OneAtATime' /\ [Next]_vars => NothingLost'
<1> SUFFICES ASSUME TInv, TInv', NothingLost, OneAtATime, OneAtATime', [Next]_vars
             PROVE  NothingLost'
  OBVIOUS
<1>0. /\ call \in [Worker -> Call] /\ \A v \in Worker : Good(call[v])
      /\ hold \in [Worker -> [age: Age, lost: BOOLEAN] \cup {NoHold}]
      /\ \A v \in Worker : Shape(call'[v])
  BY DEF TInv, GoodCalls, TypeOK, Good
<1>1. ASSUME \A v \in Worker : call'[v].stale = call[v].stale \/ call'[v].pc \notin {"stamp", "put"},
             \A v \in Worker : hold'[v] = hold[v] \/ hold'[v] = NoHold
      PROVE  NothingLost'
  BY <1>0, <1>1 DEF NothingLost, Shape
<1>2. ASSUME NEW w \in Worker, PutLock(w) PROVE NothingLost'
  <2>1. \A v \in Worker \ {w} : call[v].pc \notin {"stamp", "put"}
    BY <1>2 DEF OneAtATime, PutLock, At, InLock
  <2>2. \A v \in Worker : call'[v].pc \notin {"stamp", "put"}
    <3> DEFINE cs == [call EXCEPT ![w] = Idle]
    <3>1. \A v \in Worker : cs[v].pc \notin {"stamp", "put"}
      BY <1>0, <2>1 DEF Idle
    <3>2. call' = CallsAfterPut(cs)
      BY <1>2 DEF PutLock
    <3> HIDE DEF cs
    <3> QED
      BY <3>1, <3>2 DEF CallsAfterPut
  <2>3. ~call[w].stale
    BY DEF NothingLost
  <2>4. /\ \A v \in Worker \ {w} : hold'[v] = hold[v]
        /\ hold'[w] = [age |-> call[w].stamp, lost |-> FALSE]
    BY <1>0, <1>2, <2>3 DEF PutLock, HoldsAfterPut
  <2> QED
    BY <1>0, <2>2, <2>4 DEF NothingLost, Shape
<1>3. ASSUME NEW m \in late, LatePut(m) PROVE FALSE
  BY DEF OneAtATime
<1>4. CASE Tick
  <2>1. \A v \in Worker : call'[v].stale = call[v].stale
    BY <1>0, <1>4, GoodOlder DEF Tick
  <2>2. \A v \in Worker : hold'[v] # NoHold => hold[v] # NoHold /\ hold'[v].lost = hold[v].lost
    BY <1>4, TickHolds
  <2> QED
    BY <2>1, <2>2 DEF NothingLost
<1>5. ASSUME NEW w \in Worker,
             \/ LockCall(w) \/ LockRetry(w) \/ Grant(w) \/ GetLock(w) \/ Stamp(w)
             \/ UnlockCall(w) \/ UnlockRetry(w) \/ UnlockGet(w) \/ UnlockNothing(w) \/ Revoke(w)
      PROVE  NothingLost'
  <2>1. \A v \in Worker : call'[v].stale = call[v].stale \/ call'[v].pc \notin {"stamp", "put"}
    BY <1>0, <1>5 DEF LockCall, LockRetry, Grant, GetLock, Stamp, UnlockCall, UnlockRetry,
                      UnlockGet, UnlockNothing, Revoke, Goto, Return, Idle, Call
  <2>2. \A v \in Worker : hold'[v] = hold[v] \/ hold'[v] = NoHold
    BY <1>0, <1>5 DEF LockCall, LockRetry, Grant, GetLock, Stamp, UnlockCall, UnlockRetry,
                      UnlockGet, UnlockNothing, Revoke
  <2> QED
    BY <1>1, <2>1, <2>2
<1>6. ASSUME NEW w \in Worker,
             \/ GrantFails(w) \/ LockExists(w) \/ GetFails(w) \/ PutFails(w)
             \/ UnlockNotOwner(w) \/ UnlockGetFails(w) \/ RevokeFails(w)
      PROVE  NothingLost'
  <2>1. hold' = hold /\ \E p \in {"lockwait", "unlockwait"} : RetryOrStop(w, p)
    BY <1>6 DEF GrantFails, LockExists, GetFails, PutFails, UnlockNotOwner, UnlockGetFails,
                RevokeFails, LockFails, UnlockFails
  <2>2. \A v \in Worker : call'[v] = call[v] \/ call'[v].pc \notin {"stamp", "put"}
    BY <1>0, <2>1, RetryMoves
  <2> QED
    BY <1>1, <2>1, <2>2
<1>7. ASSUME \/ \E l \in Lease : LeaseExpires(l)
             \/ \E t \in Token : Crash(t)
             \/ UNCHANGED vars
      PROVE  NothingLost'
  <2>1. /\ \A v \in Worker : call'[v] = call[v] \/ call'[v].pc = "crashed"
        /\ \A v \in Worker : hold'[v] = hold[v] \/ hold'[v] = NoHold
    BY <1>7 DEF LeaseExpires, Crash, vars, Idle
  <2> QED
    BY <1>1, <2>1
<1> QED
  BY <1>2, <1>3, <1>4, <1>5, <1>6, <1>7 DEF Next, Environment, LockStep, UnlockStep

\* "Safe concurrent access across cluster" (type Lock) is right as long as the
\* calls of Lock do not overlap: the race between two calls, or with a Put that
\* came late, is all that stands between the code and mutual exclusion.
THEOREM MutualExclusionOneAtATime == Spec /\ []OneAtATime => []MutualExclusion
<1>1. Init => NothingLost
  BY DEF Init, NothingLost, Idle
<1>2. Spec => []TInv
  BY TypeInit, TypeStep, PTL DEF Spec
<1>3. NothingLost /\ MutexUnlessLost => MutualExclusion
  BY DEF NothingLost, MutexUnlessLost, MutualExclusion, Fresh
<1> QED
  BY <1>1, <1>2, <1>3, NothingGetsLost, MutualExclusionUnlessLost, PTL DEF Spec

-----------------------------------------------------------------------------
(* Freshness on return *)

\* While the deadline of the attempt has not passed, the stamp is no older than
\* the context it was taken under.
StampWithinContext ==
  \A w \in Worker :
    At(w, "put") /\ Alive(w) => call[w].stamp <= call[w].ctx

\* The bound on the stamp is inductive.
LEMMA StampStep == TInv /\ StampWithinContext /\ [Next]_vars => StampWithinContext'
<1> SUFFICES ASSUME TInv, StampWithinContext, [Next]_vars,
                    NEW w \in Worker, At(w, "put")', Alive(w)'
             PROVE  call'[w].stamp <= call'[w].ctx
  BY DEF StampWithinContext
<1>0. /\ call \in [Worker -> Call] /\ \A v \in Worker : Good(call[v])
      /\ call[w] \in Call /\ Shape(call[w])
  BY DEF TInv, GoodCalls, Good
<1>1. CASE Tick
  <2>1. call'[w] = OlderCall(call[w])
    BY <1>1 DEF Tick
  <2>2. /\ call[w].pc = "put"
        /\ call'[w].stamp = Older(call[w].stamp, AgeCap)
        /\ call'[w].ctx = Older(call[w].ctx, RequestTimeout)
    BY <1>0, <2>1, GoodOlder DEF At
  <2>3. /\ call[w].stamp \in 0 .. AgeCap /\ call[w].ctx \in 0 .. RequestTimeout
        /\ AgeCap \in Nat /\ RequestTimeout \in Nat
    BY <1>0, TimeAssumption DEF Call, Age
  <2>4. call'[w].ctx < RequestTimeout
    BY DEF Alive
  <2>5. call[w].ctx < RequestTimeout /\ call'[w].ctx = call[w].ctx + 1
    BY <2>2, <2>3, <2>4 DEF Older
  <2>6. call[w].stamp <= call[w].ctx
    BY <2>2, <2>5 DEF StampWithinContext, At, Alive
  <2> QED
    BY <2>2, <2>3, <2>5, <2>6 DEF Older
<1>2. CASE Stamp(w)
  <2>1. call'[w].stamp = 0 /\ call'[w].ctx = call[w].ctx
    BY <1>0, <1>2 DEF Stamp, Goto, At, Call, Shape
  <2> QED
    BY <1>0, <2>1, TimeAssumption DEF Call
<1>3. ASSUME call'[w].pc = call[w].pc,
             call'[w].stamp = call[w].stamp, call'[w].ctx = call[w].ctx
      PROVE  call'[w].stamp <= call'[w].ctx
  BY <1>3 DEF StampWithinContext, Alive, At
<1>4. ASSUME NEW v \in Worker, LockCall(v) \/ UnlockCall(v) \/ LockRetry(v) \/ Grant(v)
             \/ GetLock(v) \/ UnlockRetry(v) \/ UnlockGet(v) \/ (Stamp(v) /\ v # w)
             \/ UnlockNothing(v) \/ Revoke(v)
      PROVE  call'[w] = call[w]
  BY <1>0, <1>4 DEF LockCall, UnlockCall, LockRetry, Grant, GetLock, UnlockRetry, UnlockGet,
                    Stamp, Goto, At, Call, UnlockNothing, Revoke, Return, Idle
<1>5. ASSUME NEW v \in Worker, NEW p \in {"lockwait", "unlockwait"}, RetryOrStop(v, p)
      PROVE  call'[w] = call[w]
  BY <1>0, <1>5, RetryMoves DEF At
<1>6. ASSUME NEW v \in Worker, GrantFails(v) \/ LockExists(v) \/ GetFails(v) \/ PutFails(v)
             \/ UnlockNotOwner(v) \/ UnlockGetFails(v) \/ RevokeFails(v)
      PROVE  call'[w] = call[w]
  BY <1>5, <1>6 DEF GrantFails, LockExists, GetFails, PutFails, UnlockNotOwner,
                    UnlockGetFails, RevokeFails, LockFails, UnlockFails
<1>7. ASSUME NEW cs \in [Worker -> Call], call' = CallsAfterPut(cs),
             cs[w] = call[w] \/ cs[w] = Idle
      PROVE  /\ call'[w].pc = call[w].pc
             /\ call'[w].stamp = call[w].stamp /\ call'[w].ctx = call[w].ctx
  BY <1>0, <1>7 DEF CallsAfterPut, Call, At, Idle
<1>8. ASSUME NEW v \in Worker, PutLock(v)
      PROVE  call'[w].stamp <= call'[w].ctx
  <2> DEFINE cs == [call EXCEPT ![v] = Idle]
  <2>1. cs \in [Worker -> Call] /\ (cs[w] = call[w] \/ cs[w] = Idle)
    BY <1>0, GoodIdle DEF Good
  <2>2. call' = CallsAfterPut(cs)
    BY <1>8 DEF PutLock
  <2> HIDE DEF cs
  <2> QED
    BY <1>3, <1>7, <2>1, <2>2
<1>9. ASSUME NEW m \in late, LatePut(m)
      PROVE  call'[w].stamp <= call'[w].ctx
  BY <1>0, <1>3, <1>7, <1>9 DEF LatePut
<1>10. ASSUME NEW t \in Token, Crash(t)
       PROVE  call'[w] = call[w]
  BY <1>10 DEF Crash, At, Idle
<1>11. ASSUME NEW l \in Lease, LeaseExpires(l)
       PROVE  call'[w] = call[w]
  BY <1>11 DEF LeaseExpires
<1>12. CASE UNCHANGED vars
  BY <1>3, <1>12 DEF vars
<1> QED
  BY <1>1, <1>2, <1>3, <1>4, <1>6, <1>8, <1>9, <1>10, <1>11, <1>12
     DEF Next, Environment, LockStep, UnlockStep

\* The stamp a Lock call returns with is younger than RequestTimeout.
LEMMA StampIsYoung ==
  ASSUME TInv, StampWithinContext, NEW w \in Worker, PutLock(w)
  PROVE  call[w].stamp \in Nat /\ call[w].stamp < RequestTimeout
<1>1. call[w].stamp <= call[w].ctx /\ call[w].ctx < RequestTimeout
  BY DEF StampWithinContext, PutLock, Alive
<1>2. call[w].stamp \in Nat /\ call[w].ctx \in Nat
  BY TimeAssumption DEF TInv, GoodCalls, Call, Age
<1> QED
  BY <1>1, <1>2, TimeAssumption

\* A Lock call that returns nil has spent less than RequestTimeout of the lifetime
\* of its lock, for any timeouts.
THEOREM YoungWhenReturned == Spec => YoungOnReturn
<1>1. Init => StampWithinContext
  BY DEF Init, StampWithinContext, At, Idle
<1>2. TInv /\ StampWithinContext /\ [Next]_vars
        => [\A w \in Worker : PutLock(w) => call[w].stamp < RequestTimeout]_vars
  BY StampIsYoung
<1> QED
  BY TypeInit, TypeStep, StampStep, <1>1, <1>2, PTL DEF Spec, YoungOnReturn

\* It is not past its timeout yet, provided the request timeout is no longer than
\* the lock timeout, which the configuration does not check.
THEOREM FreshWhenReturned == RequestTimeout <= LockTimeout => (Spec => FreshOnReturn)
<1> SUFFICES ASSUME RequestTimeout <= LockTimeout PROVE Spec => FreshOnReturn
  OBVIOUS
<1>1. Init => StampWithinContext
  BY DEF Init, StampWithinContext, At, Idle
<1>2. TInv /\ StampWithinContext /\ [Next]_vars
        => [\A w \in Worker : PutLock(w) => call[w].stamp < LockTimeout]_vars
  BY StampIsYoung, TimeAssumption
<1> QED
  BY TypeInit, TypeStep, StampStep, <1>1, <1>2, PTL DEF Spec, FreshOnReturn

-----------------------------------------------------------------------------
(* Calls run down *)

\* A wait ends within the time that is left for retries, and nothing waits but
\* the calls between two attempts.
InTime(c) ==
  /\ c.elapsed + c.wait <= MaxElapsed
  /\ c.pc \notin {"lockwait", "unlockwait"} => c.wait = 0

RInv == TInv /\ \A w \in Worker : InTime(call[w])

\* The call stays where it is.
Stays(c, d) == d.pc = c.pc /\ d.elapsed = c.elapsed /\ d.wait = c.wait

\* The call makes a step: to its caller, within the attempt, or from an attempt
\* that failed to a wait for the next one.
Advances(c, d) ==
  \/ d.pc \in {"idle", "crashed"} /\ d.wait = 0
  \/ /\ d.pc \notin {"idle", "crashed", "lockwait", "unlockwait"}
     /\ AttemptLeft(d.pc) < AttemptLeft(c.pc)
     /\ c.wait = 0 /\ d.wait = 0 /\ d.elapsed = c.elapsed
  \/ /\ c.pc \notin {"lockwait", "unlockwait"} /\ d.pc \in {"lockwait", "unlockwait"}
     /\ d.wait > 0 /\ d.elapsed = c.elapsed /\ d.elapsed + d.wait <= MaxElapsed

\* How many steps of an attempt are left, by where it is.
LEMMA AttemptTable ==
  /\ \A pc \in PC : AttemptLeft(pc) \in 0 .. 5
  /\ \A pc \in PC \ {"idle", "crashed"} : AttemptLeft(pc) > 0
  /\ AttemptLeft("put") = 1 /\ AttemptLeft("urevoke") = 1
  /\ AttemptLeft("stamp") = 2 /\ AttemptLeft("uget") = 2
  /\ AttemptLeft("get") = 3 /\ AttemptLeft("unlockwait") = 3
  /\ AttemptLeft("grant") = 4 /\ AttemptLeft("lockwait") = 5
BY DEF AttemptLeft, PC

\* A call that makes a step comes nearer to its return.
LEMMA AdvanceCounts ==
  ASSUME NEW c \in Call, NEW d \in Call, InTime(c), c.pc \notin {"idle", "crashed"},
         Advances(c, d)
  PROVE  /\ InTime(d)
         /\ StepsLeft(d) \in 0 .. StepsLeft(c) /\ StepsLeft(d) # StepsLeft(c)
<1>0. /\ MaxElapsed \in Nat
      /\ c.elapsed \in 0 .. MaxElapsed /\ d.elapsed \in 0 .. MaxElapsed
      /\ c.wait \in Nat /\ d.wait \in Nat /\ c.pc \in PC /\ d.pc \in PC
  BY TimeAssumption DEF Call
<1>1. /\ AttemptLeft(c.pc) \in 1 .. 5 /\ AttemptLeft(d.pc) \in 0 .. 5
      /\ c.elapsed + c.wait <= MaxElapsed
  BY <1>0, AttemptTable DEF InTime
<1>2. StepsLeft(c) = 6 * (MaxElapsed - c.elapsed - c.wait) + AttemptLeft(c.pc)
  BY DEF StepsLeft
<1>3. CASE d.pc \in {"idle", "crashed"} /\ d.wait = 0
  BY <1>0, <1>1, <1>2, <1>3 DEF StepsLeft, InTime
<1>4. CASE /\ d.pc \notin {"idle", "crashed", "lockwait", "unlockwait"}
           /\ AttemptLeft(d.pc) < AttemptLeft(c.pc)
           /\ c.wait = 0 /\ d.wait = 0 /\ d.elapsed = c.elapsed
  <2>1. StepsLeft(d) = 6 * (MaxElapsed - d.elapsed - d.wait) + AttemptLeft(d.pc)
    BY <1>4 DEF StepsLeft
  <2> QED
    BY <1>0, <1>1, <1>2, <1>4, <2>1 DEF InTime
<1>5. CASE /\ c.pc \notin {"lockwait", "unlockwait"} /\ d.pc \in {"lockwait", "unlockwait"}
           /\ d.wait > 0 /\ d.elapsed = c.elapsed /\ d.elapsed + d.wait <= MaxElapsed
  <2>1. StepsLeft(d) = 6 * (MaxElapsed - d.elapsed - d.wait) + AttemptLeft(d.pc)
    BY <1>5 DEF StepsLeft
  <2>2. c.wait = 0
    BY <1>5 DEF InTime
  <2> QED
    BY <1>0, <1>1, <1>2, <1>5, <2>1, <2>2 DEF InTime
<1> QED
  BY <1>3, <1>4, <1>5 DEF Advances

\* A call that stays where it is comes no nearer and gets no further away.
LEMMA StayCounts ==
  ASSUME NEW c \in Call, NEW d \in Call, InTime(c), Stays(c, d)
  PROVE  InTime(d) /\ StepsLeft(d) \in 0 .. StepsLeft(c)
<1>1. /\ MaxElapsed \in Nat /\ c.elapsed \in 0 .. MaxElapsed
      /\ c.wait \in Nat /\ c.pc \in PC /\ c.elapsed + c.wait <= MaxElapsed
      /\ AttemptLeft(c.pc) \in 0 .. 5
  BY TimeAssumption, AttemptTable DEF Call, InTime
<1>2. InTime(d) /\ StepsLeft(d) = StepsLeft(c)
  BY DEF Stays, InTime, StepsLeft
<1>3. StepsLeft(c) \in Nat
  BY <1>1 DEF StepsLeft
<1> QED
  BY <1>2, <1>3

\* Time uses up waits as fast as the time left for retries, and takes nothing
\* else than that time away.
LEMMA TimeCounts ==
  ASSUME NEW c \in Call, Good(c), InTime(c)
  PROVE  InTime(OlderCall(c)) /\ StepsLeft(OlderCall(c)) \in 0 .. StepsLeft(c)
<1> DEFINE d == OlderCall(c)
           b == IF c.pc \in {"idle", "crashed"} THEN c.elapsed ELSE Older(c.elapsed, MaxElapsed)
           x == IF c.wait > 0 THEN c.wait - 1 ELSE c.wait
<1>1. /\ MaxElapsed \in Nat /\ c.elapsed \in 0 .. MaxElapsed
      /\ c.wait \in Nat /\ c.pc \in PC /\ c.elapsed + c.wait <= MaxElapsed
      /\ AttemptLeft(c.pc) \in 0 .. 5
  BY TimeAssumption, AttemptTable DEF Call, InTime
<1>2. d.pc = c.pc /\ d.elapsed = b /\ d.wait = x
  BY DEF OlderCall, Call
<1>3. /\ b \in Nat /\ x \in Nat /\ b + x <= MaxElapsed /\ b + x >= c.elapsed + c.wait
      /\ c.wait = 0 => x = 0
  BY <1>1 DEF InTime, Older
<1> HIDE DEF d, b, x
<1>4. InTime(d)
  BY <1>2, <1>3 DEF InTime
<1>5. CASE c.pc \in {"idle", "crashed"}
  BY <1>2, <1>4, <1>5 DEF StepsLeft, d
<1>6. CASE c.pc \notin {"idle", "crashed"}
  <2>1. /\ StepsLeft(c) = 6 * (MaxElapsed - c.elapsed - c.wait) + AttemptLeft(c.pc)
        /\ StepsLeft(d) = 6 * (MaxElapsed - b - x) + AttemptLeft(c.pc)
    BY <1>2, <1>6 DEF StepsLeft
  <2> QED
    BY <1>1, <1>3, <1>4, <2>1 DEF d
<1> QED
  BY <1>5, <1>6

\* A failed attempt is followed by a wait that ends in time, or by none.
LEMMA FailureAdvances ==
  ASSUME call \in [Worker -> Call], NEW w \in Worker,
         NEW p \in {"lockwait", "unlockwait"}, RetryOrStop(w, p),
         ~At(w, "lockwait"), ~At(w, "unlockwait")
  PROVE  Advances(call[w], call'[w])
<1>1. PICK d \in 1 .. MaxInterval : call' = [call EXCEPT ![w] =
          IF call[w].elapsed + d > MaxElapsed
          THEN Idle
          ELSE [Idle EXCEPT !.pc = p, !.wait = d,
                            !.ctx = call[w].ctx, !.elapsed = call[w].elapsed]]
  BY DEF RetryOrStop
<1>2. CASE call[w].elapsed + d > MaxElapsed
  <2>1. call'[w] = Idle
    BY <1>1, <1>2
  <2>2. Idle.pc = "idle" /\ Idle.wait = 0
    BY DEF Idle
  <2> QED
    BY <2>1, <2>2 DEF Advances
<1>3. CASE ~(call[w].elapsed + d > MaxElapsed)
  <2>1. call'[w] = [Idle EXCEPT !.pc = p, !.wait = d,
                            !.ctx = call[w].ctx, !.elapsed = call[w].elapsed]
    BY <1>1, <1>3
  <2>2. call'[w].pc = p /\ call'[w].wait = d /\ call'[w].elapsed = call[w].elapsed
    BY <2>1 DEF Idle
  <2>3. call[w].elapsed \in Int /\ d \in Int /\ MaxElapsed \in Int /\ d > 0
    BY TimeAssumption DEF Call
  <2> QED
    BY <1>3, <2>2, <2>3 DEF Advances, At
<1> QED
  BY <1>2, <1>3

\* A step of a call is a step towards its return.
LEMMA StepAdvances ==
  ASSUME RInv, NEW w \in Worker, LockStep(w) \/ UnlockStep(w)
  PROVE  /\ ~At(w, "idle") /\ ~At(w, "crashed")
         /\ Advances(call[w], call'[w])
<1>0. /\ call \in [Worker -> Call] /\ call[w] \in Call /\ InTime(call[w])
      /\ Idle.pc = "idle" /\ Idle.wait = 0
  BY DEF RInv, TInv, GoodCalls, Idle
<1>1. CASE LockRetry(w) \/ Grant(w) \/ GetLock(w) \/ Stamp(w)
  <2>1. /\ call[w].pc \in {"lockwait", "grant", "get", "stamp"} /\ call[w].wait = 0
        /\ \/ call[w].pc = "lockwait" /\ call'[w].pc = "grant"
           \/ call[w].pc = "grant" /\ call'[w].pc = "get"
           \/ call[w].pc = "get" /\ call'[w].pc = "stamp"
           \/ call[w].pc = "stamp" /\ call'[w].pc = "put"
        /\ call'[w].wait = call[w].wait /\ call'[w].elapsed = call[w].elapsed
    BY <1>0, <1>1 DEF LockRetry, Grant, GetLock, Stamp, Goto, At, InTime, Call
  <2> QED
    BY <2>1, AttemptTable DEF Advances, At
<1>2. CASE UnlockRetry(w) \/ UnlockGet(w)
  <2>1. /\ call[w].pc \in {"unlockwait", "uget"} /\ call[w].wait = 0
        /\ \/ call[w].pc = "unlockwait" /\ call'[w].pc = "uget"
           \/ call[w].pc = "uget" /\ call'[w].pc = "urevoke"
        /\ call'[w].wait = call[w].wait /\ call'[w].elapsed = call[w].elapsed
    BY <1>0, <1>2 DEF UnlockRetry, UnlockGet, Goto, At, InTime, Call
  <2> QED
    BY <2>1, AttemptTable DEF Advances, At
<1>3. CASE UnlockNothing(w) \/ Revoke(w)
  <2>1. call'[w] = Idle
    BY <1>0, <1>3 DEF UnlockNothing, Revoke, Return
  <2> QED
    BY <1>0, <1>3, <2>1 DEF UnlockNothing, Revoke, At, Advances
<1>4. CASE PutLock(w)
  <2>1. call'[w] = Idle
    BY <1>0, <1>4 DEF PutLock, CallsAfterPut
  <2> QED
    BY <1>0, <1>4, <2>1 DEF PutLock, At, Advances
<1>5. CASE \/ GrantFails(w) \/ LockExists(w) \/ GetFails(w) \/ PutFails(w)
           \/ UnlockNotOwner(w) \/ UnlockGetFails(w) \/ RevokeFails(w)
  <2>1. /\ RetryOrStop(w, "lockwait") \/ RetryOrStop(w, "unlockwait")
        /\ call[w].pc \in {"grant", "get", "put", "uget", "urevoke"}
    BY <1>5 DEF GrantFails, LockExists, GetFails, PutFails, UnlockNotOwner, UnlockGetFails,
                RevokeFails, LockFails, UnlockFails, At
  <2> QED
    BY <1>0, <2>1, FailureAdvances DEF At
<1> QED
  BY <1>1, <1>2, <1>3, <1>4, <1>5 DEF LockStep, UnlockStep

\* What everybody and everything else does leaves a call where it is, or ends it.
LEMMA OthersLeaveCalls ==
  ASSUME RInv, NEW w \in Worker,
         \/ \E v \in Worker \ {w} : LockCall(v) \/ LockStep(v) \/ UnlockCall(v) \/ UnlockStep(v)
         \/ \E m \in late : LatePut(m)
         \/ \E l \in Lease : LeaseExpires(l)
         \/ \E t \in Token : Crash(t)
         \/ UNCHANGED vars
  PROVE  Stays(call[w], call'[w]) \/ (call'[w].pc = "crashed" /\ call'[w].wait = 0)
<1>0. call \in [Worker -> Call] /\ call[w] \in Call
  BY DEF RInv, TInv, GoodCalls
<1>1. ASSUME call'[w] = call[w] PROVE Stays(call[w], call'[w])
  BY <1>1 DEF Stays
<1>2. ASSUME NEW cs \in [Worker -> Call], call' = CallsAfterPut(cs), cs[w] = call[w]
      PROVE  Stays(call[w], call'[w])
  BY <1>0, <1>2 DEF CallsAfterPut, Call, Stays
<1>3. ASSUME NEW v \in Worker \ {w}, LockCall(v) \/ UnlockCall(v) \/ LockRetry(v) \/ Grant(v)
             \/ GetLock(v) \/ UnlockRetry(v) \/ UnlockGet(v) \/ Stamp(v)
             \/ UnlockNothing(v) \/ Revoke(v)
      PROVE  call'[w] = call[w]
  BY <1>0, <1>3 DEF LockCall, UnlockCall, LockRetry, Grant, GetLock, UnlockRetry, UnlockGet,
                    Stamp, Goto, UnlockNothing, Revoke, Return
<1>4. ASSUME NEW v \in Worker \ {w}, GrantFails(v) \/ LockExists(v) \/ GetFails(v) \/ PutFails(v)
             \/ UnlockNotOwner(v) \/ UnlockGetFails(v) \/ RevokeFails(v)
      PROVE  call'[w] = call[w]
  <2>1. RetryOrStop(v, "lockwait") \/ RetryOrStop(v, "unlockwait")
    BY <1>4 DEF GrantFails, LockExists, GetFails, PutFails, UnlockNotOwner, UnlockGetFails,
                RevokeFails, LockFails, UnlockFails
  <2> QED
    BY <1>0, <2>1, RetryMoves
<1>5. ASSUME NEW v \in Worker \ {w}, PutLock(v)
      PROVE  Stays(call[w], call'[w])
  <2> DEFINE cs == [call EXCEPT ![v] = Idle]
  <2>1. cs \in [Worker -> Call] /\ cs[w] = call[w]
    BY <1>0, GoodIdle DEF Good
  <2>2. call' = CallsAfterPut(cs)
    BY <1>5 DEF PutLock
  <2> HIDE DEF cs
  <2> QED
    BY <1>2, <2>1, <2>2
<1>6. ASSUME NEW m \in late, LatePut(m)
      PROVE  Stays(call[w], call'[w])
  BY <1>0, <1>2, <1>6 DEF LatePut
<1>7. ASSUME NEW l \in Lease, LeaseExpires(l) PROVE call'[w] = call[w]
  BY <1>7 DEF LeaseExpires
<1>8. ASSUME NEW t \in Token, Crash(t)
      PROVE  call'[w] = call[w] \/ (call'[w].pc = "crashed" /\ call'[w].wait = 0)
  BY <1>8 DEF Crash, Idle
<1>9. CASE UNCHANGED vars
  BY <1>1, <1>9 DEF vars
<1> QED
  BY <1>1, <1>3, <1>4, <1>5, <1>6, <1>7, <1>8, <1>9 DEF LockStep, UnlockStep

\* Each step keeps every call in time, and a call under way ends up no further
\* from its return.
LEMMA RunDownStep ==
  ASSUME RInv, [Next]_vars, NEW w \in Worker
  PROVE  /\ InTime(call'[w])
         /\ ~At(w, "idle") =>
              /\ StepsLeft(call'[w]) \in 0 .. StepsLeft(call[w])
              /\ LockStep(w) \/ UnlockStep(w) => StepsLeft(call'[w]) # StepsLeft(call[w])
<1>0. /\ call \in [Worker -> Call] /\ call[w] \in Call /\ Good(call[w]) /\ InTime(call[w])
      /\ call'[w] \in Call
  <2>1. TInv'
    BY TypeStep DEF RInv
  <2> QED
    BY <2>1 DEF RInv, TInv, GoodCalls, Good
<1>1. CASE LockStep(w) \/ UnlockStep(w)
  BY <1>0, <1>1, StepAdvances, AdvanceCounts DEF At
<1>2. CASE ~(LockStep(w) \/ UnlockStep(w)) /\ (LockCall(w) \/ UnlockCall(w))
  <2>1. At(w, "idle") /\ call'[w].elapsed = call[w].elapsed /\ call'[w].wait = call[w].wait
    BY <1>0, <1>2 DEF LockCall, UnlockCall, Goto, Call
  <2> QED
    BY <1>0, <2>1 DEF InTime, At
<1>3. CASE ~(LockStep(w) \/ UnlockStep(w)) /\ Tick
  <2>1. call'[w] = OlderCall(call[w])
    BY <1>3 DEF Tick
  <2> QED
    BY <1>0, <1>3, <2>1, TimeCounts
<1>4. CASE ~(LockStep(w) \/ UnlockStep(w)) /\
           \/ \E v \in Worker \ {w} : LockCall(v) \/ LockStep(v) \/ UnlockCall(v) \/ UnlockStep(v)
           \/ \E m \in late : LatePut(m)
           \/ \E l \in Lease : LeaseExpires(l)
           \/ \E t \in Token : Crash(t)
           \/ UNCHANGED vars
  <2>1. Stays(call[w], call'[w]) \/ (call'[w].pc = "crashed" /\ call'[w].wait = 0)
    BY <1>4, OthersLeaveCalls
  <2>2. CASE Stays(call[w], call'[w])
    BY <1>0, <1>4, <2>2, StayCounts
  <2>3. CASE call'[w].pc = "crashed" /\ call'[w].wait = 0 /\ At(w, "crashed")
    <3>1. StepsLeft(call'[w]) = 0 /\ StepsLeft(call[w]) = 0 /\ InTime(call'[w])
      BY <1>0, <2>3, TimeAssumption DEF StepsLeft, At, InTime, Call
    <3> QED
      BY <1>4, <3>1
  <2>4. CASE call'[w].pc = "crashed" /\ call'[w].wait = 0 /\ At(w, "idle")
    BY <1>0, <2>4, TimeAssumption DEF InTime, Call
  <2>5. CASE call'[w].pc = "crashed" /\ call'[w].wait = 0 /\ ~At(w, "crashed") /\ ~At(w, "idle")
    BY <1>0, <1>4, <2>5, AdvanceCounts DEF Advances, At
  <2> QED
    BY <2>1, <2>2, <2>3, <2>4, <2>5
<1> QED
  BY <1>1, <1>2, <1>3, <1>4 DEF Next, Environment

\* A call of Lock or Unlock comes nearer to its return with each of its steps,
\* and nothing puts it off, for any timeouts and whatever fails: what execute
\* retries ends by MaxElapsedTime.
THEOREM CallsGetNearer == Spec => CallsRunDown
<1>1. Init => RInv
  BY TypeInit, TimeAssumption DEF Init, RInv, InTime, Idle
<1>2. RInv /\ [Next]_vars => RInv'
  BY TypeStep, RunDownStep DEF RInv
<1>3. RInv /\ [Next]_vars =>
        [\A w \in Worker : ~At(w, "idle") =>
           /\ StepsLeft(call'[w]) \in 0 .. StepsLeft(call[w])
           /\ LockStep(w) \/ UnlockStep(w) => StepsLeft(call'[w]) # StepsLeft(call[w])]_vars
  BY RunDownStep
<1> QED
  BY <1>1, <1>2, <1>3, PTL DEF Spec, CallsRunDown

\* No call takes more than 6 * MaxElapsed + 5 steps: that many are left when it
\* begins, at most.
THEOREM CallsAreShort ==
  Spec => [](\A w \in Worker : StepsLeft(call[w]) \in 0 .. 6 * MaxElapsed + 5)
<1>1. Init => RInv
  BY TypeInit, TimeAssumption DEF Init, RInv, InTime, Idle
<1>2. RInv /\ [Next]_vars => RInv'
  BY TypeStep, RunDownStep DEF RInv
<1>3. RInv => \A w \in Worker : StepsLeft(call[w]) \in 0 .. 6 * MaxElapsed + 5
  <2> SUFFICES ASSUME RInv, NEW w \in Worker
               PROVE  StepsLeft(call[w]) \in 0 .. 6 * MaxElapsed + 5
    OBVIOUS
  <2>1. /\ MaxElapsed \in Nat /\ call[w].elapsed \in Nat /\ call[w].wait \in Nat
        /\ call[w].elapsed + call[w].wait <= MaxElapsed
        /\ AttemptLeft(call[w].pc) \in 0 .. 5
    BY TimeAssumption, AttemptTable DEF RInv, TInv, GoodCalls, Call, InTime
  <2> QED
    BY <2>1 DEF StepsLeft
<1> QED
  BY <1>1, <1>2, <1>3, PTL DEF Spec

-----------------------------------------------------------------------------
(* Orphans *)

\* A worker of a process that is gone takes no step.
LEMMA CrashedStandsStill ==
  ASSUME NEW w \in Worker, At(w, "crashed")
  PROVE  ~(LockCall(w) \/ LockStep(w) \/ UnlockCall(w) \/ UnlockStep(w))
BY DEF At, LockCall, LockStep, UnlockCall, UnlockStep, LockRetry, Grant, GrantFails, GetLock,
       LockExists, GetFails, Stamp, PutLock, PutFails, UnlockRetry, UnlockNothing,
       UnlockNotOwner, UnlockGet, UnlockGetFails, Revoke, RevokeFails

\* It stays dead.
LEMMA CrashedStaysCrashed ==
  ASSUME RInv, [Next]_vars, NEW w \in Worker, At(w, "crashed")
  PROVE  At(w, "crashed")'
<1>1. CASE Tick
  <2>1. call'[w] = OlderCall(call[w]) /\ call[w] \in Call
    BY <1>1 DEF Tick, RInv, TInv, GoodCalls
  <2> QED
    BY <2>1 DEF OlderCall, Call, At
<1>2. CASE ~Tick
  <2>1. \/ \E v \in Worker \ {w} : LockCall(v) \/ LockStep(v) \/ UnlockCall(v) \/ UnlockStep(v)
        \/ \E m \in late : LatePut(m)
        \/ \E l \in Lease : LeaseExpires(l)
        \/ \E t \in Token : Crash(t)
        \/ UNCHANGED vars
    BY <1>2, CrashedStandsStill DEF Next, Environment
  <2>2. Stays(call[w], call'[w]) \/ (call'[w].pc = "crashed" /\ call'[w].wait = 0)
    BY <2>1, OthersLeaveCalls
  <2> QED
    BY <2>2 DEF Stays, At
<1> QED
  BY <1>1, <1>2

\* No Put of a process that is gone is sent any more.
LEMMA NothingIsSent ==
  ASSUME RInv, [Next]_vars, NEW t \in Token, Gone(t)
  PROVE  \A m \in late' : m.rec.token # t
<1>0. late \subseteq [rec: LockRecord, stale: BOOLEAN]
  BY DEF RInv, TInv, TypeOK
<1>1. ASSUME NEW puts, puts \subseteq late, late' = LateAfterPut(puts)
      PROVE  \A m \in late' : m.rec.token # t
  BY <1>0, <1>1 DEF LateAfterPut, Gone
<1>2. ASSUME NEW w \in Worker, LockCall(w) \/ LockStep(w) \/ UnlockCall(w) \/ UnlockStep(w)
      PROVE  \A m \in late' : m.rec.token # t
  <2>1. TokenOf[w] # t
    BY <1>2, CrashedStandsStill DEF Gone
  <2>2. CASE PutLock(w)
    BY <1>1, <2>2 DEF PutLock
  <2>3. CASE PutFails(w)
    <3>1. Abandoned(w).rec.token = TokenOf[w]
      BY DEF Abandoned, NewLock
    <3> QED
      BY <2>1, <2>3, <3>1 DEF PutFails, Gone
  <2>4. CASE ~PutLock(w) /\ ~PutFails(w)
    <3>1. late' = late
      BY <1>2, <2>4 DEF LockCall, LockStep, UnlockCall, UnlockStep, LockRetry, Grant, GrantFails,
         GetLock, LockExists, GetFails, Stamp, UnlockRetry, UnlockNothing,
         UnlockNotOwner, UnlockGet, UnlockGetFails, Revoke, RevokeFails
    <3> QED
      BY <3>1 DEF Gone
  <2> QED
    BY <2>2, <2>3, <2>4
<1>3. ASSUME NEW m \in late, LatePut(m) PROVE \A n \in late' : n.rec.token # t
  BY <1>1, <1>3 DEF LatePut
<1>4. ASSUME NEW s \in Token, Crash(s) PROVE \A m \in late' : m.rec.token # t
  <2>1. s # t
    BY <1>4 DEF Crash, Gone
  <2>2. \A m \in late' : m \in late \/ \E w \in Worker : TokenOf[w] = s /\ m = Abandoned(w)
    BY <1>4 DEF Crash
  <2>3. \A w \in Worker : Abandoned(w).rec.token = TokenOf[w]
    BY DEF Abandoned, NewLock
  <2> QED
    BY <2>1, <2>2, <2>3 DEF Gone
<1>5. CASE Tick
  BY <1>0, <1>5 DEF Tick, Gone, LockRecord
<1>6. CASE UNCHANGED late
  BY <1>6 DEF Gone
<1> QED
  BY <1>2, <1>3, <1>4, <1>5, <1>6 DEF Next, Environment, LeaseExpires, vars

\* The record of a process that is gone gets older, and is not written again.
LEMMA RecordOnlyAges ==
  ASSUME RInv, [Next]_vars, NEW t \in Token, Gone(t), lockKey' # NoLock, lockKey'.token = t
  PROVE  /\ lockKey # NoLock
         /\ lockKey' = IF Tick THEN [lockKey EXCEPT !.age = Older(@, AgeCap)] ELSE lockKey
         /\ lockKey.token = t
<1>0. lockKey \in LockRecord \cup {NoLock}
  BY DEF RInv, TInv, TypeOK
<1>1. ASSUME NEW w \in Worker, LockCall(w) \/ LockStep(w) \/ UnlockCall(w) \/ UnlockStep(w)
      PROVE  lockKey' = lockKey
  <2>1. TokenOf[w] # t
    BY <1>1, CrashedStandsStill DEF Gone
  <2>2. ~PutLock(w)
    BY <2>1 DEF PutLock, NewLock
  <2> QED
    BY <1>1, <2>2 DEF LockCall, LockStep, UnlockCall, UnlockStep, LockRetry, Grant, GrantFails,
       GetLock, LockExists, GetFails, Stamp, PutFails, UnlockRetry, UnlockNothing,
       UnlockNotOwner, UnlockGet, UnlockGetFails, Revoke, RevokeFails
<1>2. ASSUME NEW m \in late, LatePut(m) PROVE FALSE
  BY <1>2 DEF LatePut, Gone
<1>3. CASE Tick
  BY <1>0, <1>3 DEF Tick, LockRecord
<1>4. CASE lockKey' = lockKey /\ ~Tick
  BY <1>4
<1> QED
  BY <1>1, <1>2, <1>3, <1>4 DEF Next, Environment, LeaseExpires, Crash, vars

\* A worker that has to wait has to wait for some time.
LEMMA WaitIsPositive ==
  ASSUME lockKey \in LockRecord, NEW w \in Worker
  PROVE  /\ TimeToWait(w) \in Nat
         /\ ~okToSet(w) => /\ TimeToWait(w) = LockTimeout - AgeSeenBy(TokenOf[w], lockKey.token, lockKey.age)
                           /\ TimeToWait(w) > 0
<1>1. /\ lockKey.token \in Token /\ lockKey.age \in Int /\ TokenOf[w] \in Token
      /\ LockTimeout \in Int
      /\ Skew[TokenOf[w]] \in Int /\ Skew[lockKey.token] \in Int
  BY TokenAssumption, SkewAssumption, TimeAssumption DEF LockRecord, Age
<1>2. CASE okToSet(w)
  BY <1>2 DEF TimeToWait
<1>3. CASE ~okToSet(w)
  <2>1. AgeSeenBy(TokenOf[w], lockKey.token, lockKey.age) < LockTimeout
        /\ AgeSeenBy(TokenOf[w], lockKey.token, lockKey.age) \in Int
    BY <1>1, <1>3 DEF okToSet, Expired, AgeSeenBy
  <2>2. TimeToWait(w) = LockTimeout - AgeSeenBy(TokenOf[w], lockKey.token, lockKey.age)
    BY <1>3 DEF TimeToWait
  <2> QED
    BY <1>1, <2>1, <2>2
<1> QED
  BY <1>2, <1>3

\* Nobody waits for a record that has reached AgeCap.
LEMMA OldestExpired ==
  ASSUME lockKey \in LockRecord, lockKey.age = AgeCap, NEW w \in Worker
  PROVE  okToSet(w)
<1>1. /\ lockKey.token \in Token /\ TokenOf[w] \in Token /\ AgeCap \in Int /\ LockTimeout \in Int
      /\ Skew[TokenOf[w]] \in Int /\ Skew[lockKey.token] \in Int
  BY TokenAssumption, SkewAssumption, TimeAssumption DEF LockRecord
<1>2. AgeCap >= LockTimeout + Skew[lockKey.token] - Skew[TokenOf[w]]
  BY <1>1, CapAssumption
<1> QED
  BY <1>1, <1>2 DEF okToSet, Expired, AgeSeenBy

\* One tick of waiting for a record is a tick less to wait.
LEMMA WaitShrinks ==
  ASSUME lockKey \in LockRecord, lockKey' = [lockKey EXCEPT !.age = Older(@, AgeCap)],
         NEW w \in Worker
  PROVE  /\ TimeToWait(w)' \in 0 .. TimeToWait(w)
         /\ TimeToWait(w) > 0 => TimeToWait(w)' # TimeToWait(w)
<1>1. /\ lockKey.token \in Token /\ lockKey.age \in 0 .. AgeCap /\ TokenOf[w] \in Token
      /\ LockTimeout \in Int /\ AgeCap \in Nat
      /\ Skew[TokenOf[w]] \in Int /\ Skew[lockKey.token] \in Int
  BY TokenAssumption, SkewAssumption, TimeAssumption DEF LockRecord, Age
<1>2. /\ lockKey' \in LockRecord /\ lockKey'.token = lockKey.token
      /\ lockKey'.age = Older(lockKey.age, AgeCap) /\ Older(lockKey.age, AgeCap) \in 0 .. AgeCap
  BY <1>1, OlderFacts DEF LockRecord, Age
<1>3. TimeToWait(w) \in Nat
  BY WaitIsPositive
<1>4. CASE okToSet(w)'
  <2>1. TimeToWait(w)' = 0
    BY <1>4 DEF TimeToWait
  <2> QED
    BY <1>3, <2>1
<1>5. CASE ~okToSet(w)'
  <2> DEFINE ahead == Skew[TokenOf[w]] - Skew[lockKey.token]
  <2>1. /\ lockKey' # NoLock /\ lockKey'.token # TokenOf[w]
        /\ Older(lockKey.age, AgeCap) + ahead < LockTimeout
        /\ TimeToWait(w)' = LockTimeout - (Older(lockKey.age, AgeCap) + ahead)
    BY <1>1, <1>2, <1>5 DEF okToSet, Expired, AgeSeenBy, TimeToWait
  <2>2. ~okToSet(w)
    BY <1>1, <1>2, <2>1, NoneAssumption, OlderFacts DEF okToSet, Expired, AgeSeenBy
  <2>3. TimeToWait(w) = LockTimeout - (lockKey.age + ahead)
    BY <1>1, <2>2, WaitIsPositive DEF AgeSeenBy
  <2>4. lockKey.age # AgeCap
    BY <2>2, OldestExpired
  <2>5. Older(lockKey.age, AgeCap) = lockKey.age + 1
    BY <1>1, <2>4 DEF Older
  <2> QED
    BY <1>1, <2>1, <2>3, <2>5
<1> QED
  BY <1>4, <1>5

\* What a process leaves behind in etcd when it dies runs out, for any timeouts and
\* clocks and whatever other processes do in the meantime.
THEOREM OrphansAlwaysRunOut == Spec => OrphansRunOut
<1>1. Init => RInv
  BY TypeInit, TimeAssumption DEF Init, RInv, InTime, Idle
<1>2. RInv /\ [Next]_vars => RInv'
  BY TypeStep, RunDownStep DEF RInv
<1>3. ASSUME RInv, [Next]_vars, NEW t \in Token, Gone(t)
      PROVE  /\ Gone(t)'
             /\ lockKey' # NoLock /\ lockKey'.token = t =>
                  /\ lockKey # NoLock /\ lockKey.token = t
                  /\ \A w \in Worker :
                       /\ TimeToWait(w)' \in 0 .. TimeToWait(w)
                       /\ Tick /\ TimeToWait(w) > 0 => TimeToWait(w)' # TimeToWait(w)
  <2>1. Gone(t)'
    BY <1>3, CrashedStaysCrashed, NothingIsSent DEF Gone
  <2> SUFFICES ASSUME lockKey' # NoLock, lockKey'.token = t, NEW w \in Worker
               PROVE  /\ lockKey # NoLock /\ lockKey.token = t
                      /\ TimeToWait(w)' \in 0 .. TimeToWait(w)
                      /\ Tick /\ TimeToWait(w) > 0 => TimeToWait(w)' # TimeToWait(w)
    BY <2>1, <1>3, RecordOnlyAges
  <2>2. /\ lockKey # NoLock /\ lockKey.token = t
        /\ lockKey' = IF Tick THEN [lockKey EXCEPT !.age = Older(@, AgeCap)] ELSE lockKey
    BY <1>3, RecordOnlyAges
  <2>3. lockKey \in LockRecord
    BY <1>3, <2>2 DEF RInv, TInv, TypeOK
  <2>4. CASE Tick
    BY <2>2, <2>3, <2>4, WaitShrinks
  <2>5. CASE ~Tick
    <3>1. TimeToWait(w)' = TimeToWait(w)
      BY <2>2, <2>5 DEF TimeToWait, okToSet, Expired
    <3>2. TimeToWait(w) \in Nat
      BY <2>3, WaitIsPositive
    <3> QED
      BY <2>2, <2>5, <3>1, <3>2
  <2> QED
    BY <2>4, <2>5, <2>2
<1>4. RInv /\ [Next]_vars =>
        [\A t \in Token : Gone(t) =>
           /\ Gone(t)'
           /\ lockKey' # NoLock /\ lockKey'.token = t =>
                /\ lockKey # NoLock /\ lockKey.token = t
                /\ \A w \in Worker :
                     /\ TimeToWait(w)' \in 0 .. TimeToWait(w)
                     /\ Tick /\ TimeToWait(w) > 0 => TimeToWait(w)' # TimeToWait(w)]_vars
  BY <1>3
<1> QED
  BY <1>1, <1>2, <1>4, PTL DEF Spec, OrphansRunOut

=============================================================================

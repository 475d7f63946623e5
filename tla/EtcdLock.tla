------------------------------- MODULE EtcdLock -------------------------------
(***************************************************************************)
(* The distributed lock on one key: etcdsrv.lock, etcdsrv.Unlock and the   *)
(* retry loop execute wraps around them (src/etcd.go).                     *)
(*                                                                         *)
(* A worker is a goroutine that calls Lock and Unlock.  All the workers of *)
(* one process share its random token and its wall clock.  Each round trip *)
(* to etcd is one action, so other workers, time, crashes and messages     *)
(* that arrive late come between them.  Locks on different keys share no   *)
(* state but the rate limiter, so one key is enough.                       *)
(*                                                                         *)
(* Timestamps are kept as ages: the age of a lock record is the true time  *)
(* since its Obtained field was stamped.  Tick makes everything older.     *)
(***************************************************************************)
EXTENDS Integers, FiniteSets

CONSTANTS
  Worker,          \* goroutines that use the lock
  Token,           \* tokens, one per process (a restarted process has a new one)
  TokenOf,         \* TokenOf[w]: the token of the process w runs in
  Skew,            \* Skew[t]: how far the clock of process t is ahead of true time
  Lease,           \* lease identifiers
  LockTimeout,     \* cfg.LockTimeout
  RequestTimeout,  \* cfg.Connection.RequestTimeout
  MaxElapsed,      \* MaxElapsedTime of the backoff; 0 is noBackoff
  MaxInterval,     \* MaxInterval of the backoff
  AgeCap,          \* bound: ages are counted up to AgeCap
  MaxLate,         \* bound: Puts in flight whose client has given up
  NoLock, NoLease, NoHold

ASSUME TokenAssumption == TokenOf \in [Worker -> Token]
ASSUME SkewAssumption == Skew \in [Token -> Int]
ASSUME TimeAssumption ==
  /\ LockTimeout \in Nat
  /\ RequestTimeout \in Nat
  /\ MaxElapsed \in Nat
  /\ MaxInterval \in Nat \ {0}
  /\ AgeCap \in Nat
  /\ MaxLate \in Nat
\* Counting ages only up to AgeCap is sound: by then every clock sees the
\* record as past the lock timeout.
ASSUME CapAssumption ==
  \A s, t \in Token : AgeCap >= LockTimeout + Skew[s] - Skew[t]

VARIABLES
  lockKey,  \* etcd: the record stored under <prefix>/lock/<key>, or NoLock
  leases,   \* etcd: the live leases
  late,     \* network: Puts not yet applied although their client has given up
  call,     \* call[w]: where w is in Lock or Unlock, and its local variables
  hold      \* hold[w]: what the caller of Lock believes (for the properties)

vars == <<lockKey, leases, late, call, hold>>

-----------------------------------------------------------------------------
Age == 0 .. AgeCap

\* type Lock: Token, Obtained (as an age) and LeaseID.
LockRecord == [token: Token, age: Age, lease: Lease]

PC == {"idle", "crashed",
       "grant", "get", "stamp", "put", "lockwait",  \* inside Lock
       "uget", "urevoke", "unlockwait"}             \* inside Unlock

\* ctx: time since the request context was made; elapsed: time since
\* backoff.Retry was entered; wait: time left to the next attempt; lease: the
\* lease granted, or read by Unlock; stamp: age of the Obtained stamp to be
\* written; stale: the lock key was written after the Get of this attempt.
Call == [pc: PC, ctx: 0 .. RequestTimeout, elapsed: 0 .. MaxElapsed,
         wait: 0 .. MaxInterval, lease: Lease \cup {NoLease}, stamp: Age,
         stale: BOOLEAN]

ASSUME NoneAssumption ==
  /\ NoLock \notin LockRecord
  /\ NoLease \notin Lease
  /\ NoHold \notin [age: Age, lost: BOOLEAN] \cup Age

Idle == [pc |-> "idle", ctx |-> 0, elapsed |-> 0, wait |-> 0,
         lease |-> NoLease, stamp |-> 0, stale |-> FALSE]

InLock == {"grant", "get", "stamp", "put", "lockwait"}
InUnlock == {"uget", "urevoke", "unlockwait"}

TypeOK ==
  /\ lockKey \in LockRecord \cup {NoLock}
  /\ leases \subseteq Lease
  /\ late \subseteq [rec: LockRecord, stale: BOOLEAN]
  /\ call \in [Worker -> Call]
  /\ hold \in [Worker -> [age: Age, lost: BOOLEAN] \cup {NoHold}]

Init ==
  /\ lockKey = NoLock
  /\ leases = {}
  /\ late = {}
  /\ call = [w \in Worker |-> Idle]
  /\ hold = [w \in Worker |-> NoHold]

-----------------------------------------------------------------------------
(* What every attempt is built from. *)

At(w, pc) == call[w].pc = pc

\* The request context has not passed its deadline: an RPC can still succeed.
Alive(w) == call[w].ctx < RequestTimeout

Goto(w, pc) == call' = [call EXCEPT ![w].pc = pc]

\* The call returns to its caller.
Return(w) == call' = [call EXCEPT ![w] = Idle]

\* Variant: MaxElapsedTime = 0 makes the library retry without end.
RetryForever(w, waiting) ==
  \E d \in 1 .. MaxInterval :
    call' = [call EXCEPT ![w] =
      [Idle EXCEPT !.pc = waiting, !.wait = d,
                   !.ctx = call[w].ctx, !.elapsed = call[w].elapsed]]

\* Variant: the wait before the next attempt is not counted.
RetryOrStopUncounted(w, waiting) ==
  \E d \in 1 .. MaxInterval :
    call' = [call EXCEPT ![w] =
      IF call[w].elapsed >= MaxElapsed
      THEN Idle
      ELSE [Idle EXCEPT !.pc = waiting, !.wait = d,
                        !.ctx = call[w].ctx, !.elapsed = call[w].elapsed]]

\* The attempt returned an error: backoff.Retry waits for a random interval
\* and tries again, or gives up and returns the error when that wait would
\* end after MaxElapsedTime.
RetryOrStop(w, waiting) ==
  \E d \in 1 .. MaxInterval :
    call' = [call EXCEPT ![w] =
      IF call[w].elapsed + d > MaxElapsed
      THEN Idle
      ELSE [Idle EXCEPT !.pc = waiting, !.wait = d,
                        !.ctx = call[w].ctx, !.elapsed = call[w].elapsed]]

LockFails(w) == RetryOrStop(w, "lockwait")
UnlockFails(w) == RetryOrStop(w, "unlockwait")

\* How old the clock of process t says a record stamped by process owner is.
AgeSeenBy(t, owner, age) == age + Skew[t] - Skew[owner]

Expired(t, rec) == AgeSeenBy(t, rec.token, rec.age) >= LockTimeout

\* Leases that nothing refers to any more; etcd never reuses an ID, and an ID
\* nobody remembers is as good as new.
FreshLease ==
  {l \in Lease \ leases :
     /\ lockKey # NoLock => lockKey.lease # l
     /\ \A m \in late : m.rec.lease # l
     /\ \A w \in Worker : call[w].lease # l}

\* Variant: the record is written without its LeaseID.
NewLockNoLease(w) == [token |-> TokenOf[w], age |-> call[w].stamp, lease |-> NoLease]

\* Variant: the record that was found is extended, and its token stays.
NewLockKeepsToken(w) ==
  [token |-> IF lockKey = NoLock THEN TokenOf[w] ELSE lockKey.token,
   age |-> call[w].stamp, lease |-> call[w].lease]

\* The record worker w is about to write.
NewLock(w) == [token |-> TokenOf[w], age |-> call[w].stamp, lease |-> call[w].lease]

\* A Put of rec reaches etcd.  It carries no lease option, so the record stays
\* until the next Put.  If the key was written since the writer's Get, the
\* record written in between is lost without its owner being told.
HoldsAfterPut(isStale) ==
  [v \in Worker |-> IF hold[v] # NoHold /\ isStale
                    THEN [hold[v] EXCEPT !.lost = TRUE] ELSE hold[v]]

LateAfterPut(puts) == {[m EXCEPT !.stale = TRUE] : m \in puts}

CallsAfterPut(calls) ==
  [v \in Worker |-> IF calls[v].pc \in {"stamp", "put"}
                    THEN [calls[v] EXCEPT !.stale = TRUE] ELSE calls[v]]

-----------------------------------------------------------------------------
(* Lock *)

\* Lock is called: execute(acquire) starts, the first attempt makes a context.
LockCall(w) ==
  /\ At(w, "idle")
  /\ Goto(w, "grant")
  /\ UNCHANGED <<lockKey, leases, late, hold>>

\* The wait before the next attempt is over; acquire makes a new context.
LockRetry(w) ==
  /\ At(w, "lockwait")
  /\ call[w].wait = 0
  /\ call' = [call EXCEPT ![w].pc = "grant", ![w].ctx = 0]
  /\ UNCHANGED <<lockKey, leases, late, hold>>

\* The rate limiter lets the attempt through and etcd grants a lease.
Grant(w) ==
  /\ At(w, "grant")
  /\ Alive(w)
  /\ \E l \in FreshLease :
       /\ leases' = leases \cup {l}
       /\ call' = [call EXCEPT ![w].pc = "get", ![w].lease = l]
  /\ UNCHANGED <<lockKey, late, hold>>

\* The limiter or the Grant fails.  (A lease granted although the reply was
\* lost is never named again and is left out.)
GrantFails(w) ==
  /\ At(w, "grant")
  /\ LockFails(w)
  /\ UNCHANGED <<lockKey, leases, late, hold>>

\* Variant: the lock counts as orphaned one tick before its timeout.
okToSetEarly(w) ==
  lockKey # NoLock =>
    \/ lockKey.token = TokenOf[w]
    \/ AgeSeenBy(TokenOf[w], lockKey.token, lockKey.age) >= LockTimeout - 1

\* Variant: the check for orphaned locks is missing.
okToSetNeverOrphaned(w) ==
  lockKey # NoLock => lockKey.token = TokenOf[w]

\* No lock, our own lock (which is extended), or an orphaned one.
okToSet(w) ==
  lockKey # NoLock =>
    \/ lockKey.token = TokenOf[w]
    \/ Expired(TokenOf[w], lockKey)

\* The Get finds a record that may be replaced.
GetLock(w) ==
  /\ At(w, "get")
  /\ Alive(w)
  /\ okToSet(w)
  /\ Goto(w, "stamp")
  /\ UNCHANGED <<lockKey, leases, late, hold>>

\* The Get finds the lock taken: LockError, and the lease just granted is left
\* behind until it expires.
LockExists(w) ==
  /\ At(w, "get")
  /\ Alive(w)
  /\ ~okToSet(w)
  /\ LockFails(w)
  /\ UNCHANGED <<lockKey, leases, late, hold>>

GetFails(w) ==
  /\ At(w, "get")
  /\ LockFails(w)
  /\ UNCHANGED <<lockKey, leases, late, hold>>

\* Obtained is taken from the clock and the record is marshalled.
Stamp(w) ==
  /\ At(w, "stamp")
  /\ Goto(w, "put")
  /\ UNCHANGED <<lockKey, leases, late, hold>>

\* Variant: the Put runs without the deadline of the attempt's context.
PutLockNoDeadline(w) ==
  /\ At(w, "put")
  /\ lockKey' = NewLock(w)
  /\ hold' = [HoldsAfterPut(call[w].stale) EXCEPT
                ![w] = [age |-> call[w].stamp, lost |-> FALSE]]
  /\ late' = LateAfterPut(late)
  /\ call' = CallsAfterPut([call EXCEPT ![w] = Idle])
  /\ UNCHANGED leases

\* The Put is applied and acknowledged: Lock returns nil.
PutLock(w) ==
  /\ At(w, "put")
  /\ Alive(w)
  /\ lockKey' = NewLock(w)
  /\ hold' = [HoldsAfterPut(call[w].stale) EXCEPT
                ![w] = [age |-> call[w].stamp, lost |-> FALSE]]
  /\ late' = LateAfterPut(late)
  /\ call' = CallsAfterPut([call EXCEPT ![w] = Idle])
  /\ UNCHANGED leases

\* The Put that w has sent and will not hear about.
Abandoned(w) == [rec |-> NewLock(w), stale |-> call[w].stale]

\* The Put fails: it never reaches etcd, or it is still under way.
PutFails(w) ==
  /\ At(w, "put")
  /\ \/ late' = late
     \/ /\ Cardinality(late) < MaxLate
        /\ late' = late \cup {Abandoned(w)}
  /\ LockFails(w)
  /\ UNCHANGED <<lockKey, leases, hold>>

\* A Put whose client has given up is applied after all.
LatePut(m) ==
  /\ lockKey' = m.rec
  /\ hold' = HoldsAfterPut(m.stale)
  /\ late' = LateAfterPut(late \ {m})
  /\ call' = CallsAfterPut(call)
  /\ UNCHANGED leases

-----------------------------------------------------------------------------
(* Unlock *)

\* Unlock is called: one context for all its attempts.  The caller no longer
\* relies on the lock.
UnlockCall(w) ==
  /\ At(w, "idle")
  /\ Goto(w, "uget")
  /\ hold' = [hold EXCEPT ![w] = NoHold]
  /\ UNCHANGED <<lockKey, leases, late>>

UnlockRetry(w) ==
  /\ At(w, "unlockwait")
  /\ call[w].wait = 0
  /\ Goto(w, "uget")
  /\ UNCHANGED <<lockKey, leases, late, hold>>

\* There is no lock: nothing to do, Unlock returns nil.
UnlockNothing(w) ==
  /\ At(w, "uget")
  /\ Alive(w)
  /\ lockKey = NoLock
  /\ Return(w)
  /\ UNCHANGED <<lockKey, leases, late, hold>>

\* The lock belongs to another client.
UnlockNotOwner(w) ==
  /\ At(w, "uget")
  /\ Alive(w)
  /\ lockKey # NoLock
  /\ lockKey.token # TokenOf[w]
  /\ UnlockFails(w)
  /\ UNCHANGED <<lockKey, leases, late, hold>>

\* The lock is ours; remember the lease it names.
UnlockGet(w) ==
  /\ At(w, "uget")
  /\ Alive(w)
  /\ lockKey # NoLock
  /\ lockKey.token = TokenOf[w]
  /\ call' = [call EXCEPT ![w].pc = "urevoke", ![w].lease = lockKey.lease]
  /\ UNCHANGED <<lockKey, leases, late, hold>>

UnlockGetFails(w) ==
  /\ At(w, "uget")
  /\ UnlockFails(w)
  /\ UNCHANGED <<lockKey, leases, late, hold>>

\* Variant: the record goes with the lease, as the comment in Unlock expects.
RevokeDeletes(w) ==
  /\ At(w, "urevoke")
  /\ Alive(w)
  /\ call[w].lease \in leases
  /\ leases' = leases \ {call[w].lease}
  /\ lockKey' = IF lockKey # NoLock /\ lockKey.lease = call[w].lease THEN NoLock ELSE lockKey
  /\ Return(w)
  /\ UNCHANGED <<late, hold>>

\* The lease is revoked: Unlock returns nil.  No key is attached to the lease.
Revoke(w) ==
  /\ At(w, "urevoke")
  /\ Alive(w)
  /\ call[w].lease \in leases
  /\ leases' = leases \ {call[w].lease}
  /\ Return(w)
  /\ UNCHANGED <<lockKey, late, hold>>

\* The Revoke fails: the lease is not found, the request is lost, or the
\* lease is revoked and the reply is lost.
RevokeFails(w) ==
  /\ At(w, "urevoke")
  /\ leases' \in {leases, leases \ {call[w].lease}}
  /\ UnlockFails(w)
  /\ UNCHANGED <<lockKey, late, hold>>

-----------------------------------------------------------------------------
(* The environment *)

\* etcd drops a lease.  Its time to live runs on etcd's clock; since no key is
\* attached to it the moment matters to nobody but a later Revoke.
LeaseExpires(l) ==
  /\ l \in leases
  /\ leases' = leases \ {l}
  /\ UNCHANGED <<lockKey, late, call, hold>>

\* The process with token t dies.  Its Puts may still be under way.
Crash(t) ==
  LET dead == {w \in Worker : TokenOf[w] = t}
      sent == {Abandoned(w) : w \in {v \in dead : At(v, "put")}}
  IN /\ \E w \in dead : ~At(w, "crashed")
     /\ \E left \in SUBSET sent :
          /\ left # {} => Cardinality(late \cup left) <= MaxLate
          /\ late' = late \cup left
     /\ call' = [w \in Worker |-> IF w \in dead
                                  THEN [Idle EXCEPT !.pc = "crashed"] ELSE call[w]]
     /\ hold' = [w \in Worker |-> IF w \in dead THEN NoHold ELSE hold[w]]
     /\ UNCHANGED <<lockKey, leases>>

Older(n, cap) == IF n < cap THEN n + 1 ELSE n

OlderCall(c) ==
  [c EXCEPT
    !.ctx = IF c.pc \in {"idle", "crashed", "lockwait"} THEN @ ELSE Older(@, RequestTimeout),
    !.elapsed = IF c.pc \in {"idle", "crashed"} THEN @ ELSE Older(@, MaxElapsed),
    !.wait = IF @ > 0 THEN @ - 1 ELSE @,
    !.stamp = IF c.pc = "put" THEN Older(@, AgeCap) ELSE @]

\* One unit of time passes.
Tick ==
  /\ lockKey' = IF lockKey = NoLock THEN NoLock
                ELSE [lockKey EXCEPT !.age = Older(@, AgeCap)]
  /\ late' = {[m EXCEPT !.rec.age = Older(@, AgeCap)] : m \in late}
  /\ call' = [w \in Worker |-> OlderCall(call[w])]
  /\ hold' = [w \in Worker |-> IF hold[w] = NoHold THEN NoHold
                               ELSE [hold[w] EXCEPT !.age = Older(@, AgeCap)]]
  /\ UNCHANGED leases

-----------------------------------------------------------------------------
\* A step of a call to Lock or Unlock under way.
LockStep(w) ==
  \/ LockRetry(w) \/ Grant(w) \/ GrantFails(w)
  \/ GetLock(w) \/ LockExists(w) \/ GetFails(w)
  \/ Stamp(w) \/ PutLock(w) \/ PutFails(w)

UnlockStep(w) ==
  \/ UnlockRetry(w) \/ UnlockNothing(w) \/ UnlockNotOwner(w)
  \/ UnlockGet(w) \/ UnlockGetFails(w) \/ Revoke(w) \/ RevokeFails(w)

\* A step of the network, of etcd, of the processes or of time.
Environment ==
  \/ \E m \in late : LatePut(m)
  \/ \E l \in Lease : LeaseExpires(l)
  \/ \E t \in Token : Crash(t)
  \/ Tick

Next ==
  \/ \E w \in Worker : LockCall(w) \/ LockStep(w) \/ UnlockCall(w) \/ UnlockStep(w)
  \/ Environment

Spec == Init /\ [][Next]_vars

\* Time passes and a call under way goes on: each of its steps is a round trip
\* bounded by a deadline, a timer, or local.
Progress ==
  /\ WF_vars(Tick)
  /\ \A w \in Worker : WF_vars(LockStep(w)) /\ WF_vars(UnlockStep(w))

ProgressSpec == Spec /\ Progress

\* A worker that keeps trying is not unlucky for ever: each round trip that is
\* possible again and again succeeds again and again.  Leases expire.
Reachable ==
  /\ WF_vars(\E l \in Lease : LeaseExpires(l))
  /\ \A w \in Worker :
       /\ SF_vars(Grant(w))
       /\ SF_vars(GetLock(w))
       /\ SF_vars(Stamp(w) /\ Alive(w))
       /\ SF_vars(PutLock(w))

-----------------------------------------------------------------------------
(* Properties *)

\* The ages at which no clock sees a record of process t past its timeout.
YoungAges ==
  [t \in Token |-> {a \in Age : \A s \in Token : AgeSeenBy(s, t, a) < LockTimeout}]

\* The lock worker w believes it has is not past its timeout on any clock.
Fresh(w) == hold[w] # NoHold /\ hold[w].age \in YoungAges[TokenOf[w]]

\* The worker w has a lock it may rely on: fresh, and not overwritten unseen.
Valid(w) == Fresh(w) /\ ~hold[w].lost

\* Mutual exclusion, as the comment of type Lock has it ("Safe concurrent
\* access across cluster"): Lock has returned nil in two processes, and neither
\* lock is past its timeout, never at the same time.
MutualExclusion ==
  \A v, w \in Worker :
    Fresh(v) /\ Fresh(w) => TokenOf[v] = TokenOf[w]

\* The only way lock loses mutual exclusion is the unguarded Put that overwrites
\* a record written after the Get of the same attempt: two processes hold the
\* lock at once only if one of the two records was overwritten like that.
\* Retries, crashes and extending the lock never do it.  A clock that is ahead of
\* the holder's shortens the protection, by as much as it is ahead: a lock counts
\* only while it is not past its timeout on any clock.
MutexUnlessLost ==
  \A v, w \in Worker :
    /\ Fresh(v) /\ ~hold[v].lost
    /\ Fresh(w) /\ ~hold[w].lost
    => TokenOf[v] = TokenOf[w]

\* A lock that is fresh and not lost is backed by the record in etcd, which is of
\* the holder's process and no older than the holder believes: no other process
\* can take the lock, and none of the process's own goroutines, which share its
\* token, takes it away by an Unlock of the same key.
HoldIsBacked ==
  \A w \in Worker :
    Fresh(w) /\ ~hold[w].lost =>
      /\ lockKey # NoLock
      /\ lockKey.token = TokenOf[w]
      /\ lockKey.age <= hold[w].age

\* When Lock returns nil its record is younger than RequestTimeout.  Obtained is
\* stamped before the Put, and nothing but the deadline of the attempt bounds the
\* time between: with RequestTimeout > LockTimeout, which nothing forbids, the lock
\* may be past its timeout by the difference when its caller gets it.
YoungOnReturn ==
  [][\A w \in Worker : PutLock(w) => call[w].stamp < RequestTimeout]_vars

\* When Lock returns nil its record is not past the lock timeout yet: what
\* YoungOnReturn comes to if RequestTimeout <= LockTimeout.
FreshOnReturn ==
  [][\A w \in Worker : PutLock(w) => call[w].stamp < LockTimeout]_vars

\* "Revoke the lease which will automatically delete the key" (Unlock): when
\* Unlock returns nil, no lock of this process is left.
UnlockReleases ==
  [][\A w \in Worker :
       Revoke(w) \/ UnlockNothing(w) =>
         lockKey' = NoLock \/ lockKey'.token # TokenOf[w]]_vars

\* Lock and Unlock return: the retries of execute come to an end.
CallsReturn ==
  \A w \in Worker :
    call[w].pc \in InLock \cup InUnlock ~> call[w].pc \in {"idle", "crashed"}

\* "Automatic cleanup of stale locks": when every other process is gone for
\* good and etcd can be reached, a worker that keeps calling Lock gets it again
\* and again, whatever they left behind.
StaleLockTaken ==
  Reachable => \A w \in Worker :
    /\ <>[](\A v \in Worker : TokenOf[v] # TokenOf[w] => At(v, "crashed"))
    /\ []<>At(w, "get")
    => []<><<PutLock(w)>>_vars

\* The steps the attempt at hand still takes, the wait before it included.
AttemptLeft(pc) ==
  CASE pc \in {"idle", "crashed"} -> 0
    [] pc \in {"put", "urevoke"} -> 1
    [] pc \in {"stamp", "uget"} -> 2
    [] pc \in {"get", "unlockwait"} -> 3
    [] pc = "grant" -> 4
    [] pc = "lockwait" -> 5

\* The steps a call takes at most until it returns: each new attempt costs at
\* least one unit of the time that is left for retries.
StepsLeft(c) ==
  IF c.pc \in {"idle", "crashed"} THEN 0
  ELSE 6 * (MaxElapsed - c.elapsed - c.wait) + AttemptLeft(c.pc)

\* Whatever fails and however often, each step of Lock or Unlock brings the
\* return nearer, and neither time nor anybody else's doing puts it off: execute
\* never retries past MaxElapsedTime, wherever in an attempt that runs out.
CallsRunDown ==
  [][\A w \in Worker : ~At(w, "idle") =>
       /\ StepsLeft(call'[w]) \in 0 .. StepsLeft(call[w])
       /\ LockStep(w) \/ UnlockStep(w) => StepsLeft(call'[w]) # StepsLeft(call[w])]_vars

\* The process with token t is gone, and nothing of it is under way.
Gone(t) ==
  /\ \A w \in Worker : TokenOf[w] = t => At(w, "crashed")
  /\ \A m \in late : m.rec.token # t

\* The time until worker w may replace the record that is in etcd.
TimeToWait(w) ==
  IF okToSet(w) THEN 0
  ELSE LockTimeout - AgeSeenBy(TokenOf[w], lockKey.token, lockKey.age)

\* A lock whose process is gone runs out: no failing attempt of others, no Unlock
\* of theirs and no lease keeps it alive.  For everybody the time to wait
\* only gets shorter, and it gets shorter as time passes, until the record can be
\* replaced; once it is, the process that is gone has no lock any more.
OrphansRunOut ==
  [][\A t \in Token : Gone(t) =>
       /\ Gone(t)'
       /\ lockKey' # NoLock /\ lockKey'.token = t =>
            /\ lockKey # NoLock /\ lockKey.token = t
            /\ \A w \in Worker :
                 /\ TimeToWait(w)' \in 0 .. TimeToWait(w)
                 /\ Tick /\ TimeToWait(w) > 0 => TimeToWait(w)' # TimeToWait(w)]_vars

\* The lock as its callers see it.  A lock they may rely on counts as long as a
\* record of its process is in etcd, for nothing else keeps the others out; its
\* time is up as soon as any clock says so.
Stands(w) == lockKey # NoLock /\ lockKey.token = TokenOf[w] /\ Valid(w)

locking == {w \in Worker : call[w].pc \in InLock}
valid == [w \in Worker |-> IF Stands(w) THEN hold[w].age ELSE NoHold]
astray == late # {}

Timed == INSTANCE TimedLock
  WITH Process <- Token, ProcessOf <- TokenOf, Young <- YoungAges, None <- NoHold

\* Lock and Unlock keep what TimedLock promises.  A lock becomes valid only when
\* the Lock of its own worker returns nil, which no other process survives with a
\* valid lock.  From then on a record keeps the other processes out until the lock
\* is past its timeout on some clock, its process dies, its own worker calls
\* Unlock, or somebody's unguarded Put overwrites a record it has not seen: not
\* the Unlock of another goroutine that shares the token, not the lease, not a
\* failing attempt.
KeepsPromise == Timed!Spec

=============================================================================

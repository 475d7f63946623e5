------------------------------- MODULE TimedLock -------------------------------
(***************************************************************************)
(* What the lock promises its callers: certmagic.Locker's Lock and Unlock  *)
(* for workers that share processes.  A worker whose Lock returns gets a   *)
(* lock only if no other process has one, or loses them theirs in the same *)
(* step.  From then on the lock stands until                               *)
(*   - it is too old for the clock of some process (TimePasses),           *)
(*   - its own worker calls Unlock or its process dies,                    *)
(*   - its own worker's next Lock replaces it,                             *)
(*   - the Put of another Lock overwrites a record it has not seen, in a   *)
(*     Lock that returns nil (Seized) or one that has failed and whose Put *)
(*     is still under way (Overwritten).                                   *)
(* Nothing else ends a lock, the Unlock of another worker included, and    *)
(* no lock gets younger.                                                   *)
(*                                                                         *)
(* EtcdLock, the code, is checked and proved to implement this.            *)
(***************************************************************************)
EXTENDS Integers

CONSTANTS
  Worker,
  Process,
  ProcessOf,  \* ProcessOf[w]: the process w runs in
  Young,      \* Young[p]: the ages at which no clock sees a lock of p timed out
  None        \* no lock

VARIABLES
  locking,    \* the workers inside Lock
  valid,      \* valid[w]: the age of the lock w may rely on, or None
  astray      \* is a Put of a Lock that has failed still under way?

lvars == <<locking, valid, astray>>

Holders == {w \in Worker : valid[w] # None}

\* What Lock may return with: a lock of the process of w that is not too old, or
\* none, when it took too long and has timed out already.
Obtained(w) == Young[ProcessOf[w]] \cup {None}

Nobody == [w \in Worker |-> None]

Init ==
  /\ locking = {}
  /\ valid = Nobody
  /\ astray = FALSE

Lock(w) ==
  /\ locking' = locking \cup {w}
  /\ UNCHANGED <<valid, astray>>

\* Lock returns an error, or an attempt of it fails and it tries again.
Refused(w) ==
  /\ locking' \in {locking, locking \ {w}}
  /\ astray' \in {astray, TRUE}
  /\ UNCHANGED valid

\* Lock returns nil, and no other process has a lock.
Granted(w) ==
  /\ \A v \in Holders : ProcessOf[v] = ProcessOf[w]
  /\ locking' = locking \ {w}
  /\ \E a \in Obtained(w) : valid' = [valid EXCEPT ![w] = a]
  /\ UNCHANGED astray

\* Lock returns nil and has overwritten a record it had not seen: whoever else had
\* a lock has lost it.
Seized(w) ==
  /\ locking' = locking \ {w}
  /\ \E a \in Obtained(w) : valid' = [Nobody EXCEPT ![w] = a]
  /\ UNCHANGED astray

Unlock(w) ==
  /\ valid' = [valid EXCEPT ![w] = None]
  /\ UNCHANGED <<locking, astray>>

\* A record written for a Lock that failed overwrites the one that was there.
Overwritten ==
  /\ astray
  /\ valid' \in {valid, Nobody}
  /\ astray' \in BOOLEAN
  /\ UNCHANGED locking

\* Every lock gets older by one; exactly those that are then too old end.
TimePasses ==
  /\ UNCHANGED <<locking, astray>>
  /\ valid' = [w \in Worker |->
                 IF valid[w] # None /\ valid[w] + 1 \in Young[ProcessOf[w]]
                 THEN valid[w] + 1 ELSE None]

\* The process p dies.  The Put of a Lock it was in may still be under way.
Dies(p) ==
  /\ locking' = {w \in locking : ProcessOf[w] # p}
  /\ valid' = [w \in Worker |-> IF ProcessOf[w] = p THEN None ELSE valid[w]]
  /\ astray' \in {astray, TRUE}

Next ==
  \/ \E w \in locking : Refused(w) \/ Granted(w) \/ Seized(w)
  \/ \E w \in Worker \ locking : Lock(w) \/ Unlock(w)
  \/ TimePasses
  \/ \E p \in Process : Dies(p)
  \/ Overwritten

Spec == Init /\ [][Next]_lvars

\* Two processes never have valid locks at the same time.
Exclusive == \A v, w \in Holders : ProcessOf[v] = ProcessOf[w]

================================================================================

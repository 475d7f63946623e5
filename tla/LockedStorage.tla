----------------------------- MODULE LockedStorage -----------------------------
(***************************************************************************)
(* The lock and the storage together: what a worker that has locked a name *)
(* may conclude from what it reads and writes, and for how long.           *)
(*                                                                         *)
(* EtcdLock is the lock, message by message.  The storage is taken at its  *)
(* word: AtomicStorage, which EtcdStorage implements.  The worker locks    *)
(* the name, calls the storage as often as it likes and unlocks, as        *)
(* certmagic does through the methods of Cluster.  No call of the storage  *)
(* looks at the lock: a write that is under way when its lock is past the  *)
(* timeout, or that is applied after its client gave up, is applied.       *)
(***************************************************************************)
EXTENDS EtcdLock

CONSTANTS
  Value,         \* what can be stored under the name
  None,          \* nothing is
  MaxLateWrite   \* bound: writes in flight whose client has given up

ASSUME ValueAssumption == None \notin Value

VARIABLES
  store, req, reply,  \* the storage, see AtomicStorage
  lateWrite,          \* writes whose client has given up
  view                \* view[w]: what the name can have, for all w knows (for the properties)

storageVars == <<store, req, reply, lateWrite>>
systemVars == <<vars, storageVars, view>>

-----------------------------------------------------------------------------
(* One name and nothing below it: its lock shares nothing with others. *)

Name == {"name"}
Content == Value \cup {None}

NothingBelow == [n \in Name |-> {}]
Length == [v \in Value |-> 1]
NoFiles(f) == 0

A == INSTANCE AtomicStorage WITH
       Client <- Worker, Stored <- Name, late <- lateWrite,
       Below <- NothingBelow, Size <- Length, TotalSize <- NoFiles

Writes(w) == req[w].op = "write"

\* What a worker may conclude from the answer to its request.
Learned(r, answer) ==
  IF r.op = "write" THEN {r.w.val}
  ELSE {c \in Content : /\ answer.kind = "value" => c = answer.val
                        /\ answer.kind = "file" => c # None
                        /\ answer.kind = "notexist" => c = None}

Answers ==
  [kind: {"none", "ok", "value", "file", "notexist", "error"}, val: Content, size: Nat]

SystemTypeOK ==
  /\ TypeOK
  /\ store \in [Name -> Content]
  /\ req \in [Worker -> A!Request \cup {A!NoRequest}]
  /\ reply \in [Worker -> Answers]
  /\ lateWrite \subseteq A!Write
  /\ view \in [Worker -> SUBSET Content]

SystemInit ==
  /\ Init
  /\ A!Init
  /\ view = [w \in Worker |-> Content]

-----------------------------------------------------------------------------
\* w has the lock, as far as it knows, and is not calling Lock or Unlock.
InJob(w) == hold[w] # NoHold /\ At(w, "idle")

NotCalling(w) == req[w] = A!NoRequest

\* What the others know after a write of w took effect: the lock keeps
\* processes apart, not the goroutines of one process.
ViewsAfterWrite(w) ==
  [v \in Worker |-> IF Valid(w) /\ TokenOf[v] # TokenOf[w] THEN view[v] ELSE Content]

\* A step of Lock or Unlock, of their environment, or of time.  A job starts
\* with Lock and ends with Unlock; what was known before is void.
LockCalled(w) == hold[w] = NoHold /\ NotCalling(w) /\ LockCall(w)
LockReturns(w) == PutLock(w) /\ view' = [view EXCEPT ![w] = Content]
UnlockCalled(w) == InJob(w) /\ NotCalling(w) /\ UnlockCall(w)

LockingStep ==
  /\ UNCHANGED storageVars
  /\ \/ \E w \in Worker : LockReturns(w)
     \/ /\ UNCHANGED view
        /\ \/ \E w \in Worker :
                \/ LockCalled(w) \/ UnlockCalled(w) \/ UnlockStep(w)
                \/ (LockStep(w) /\ ~At(w, "put")) \/ PutFails(w)
           \/ Environment

\* Cluster.Load, Exists, Stat, Store or Delete is called.
Calls(w) ==
  /\ InJob(w)
  /\ \E r \in A!Request : A!Invoke(w, r)
  /\ UNCHANGED <<vars, view>>

\* The call of w takes effect.  Its process may have died meanwhile.
Answered(w) ==
  /\ A!Answer(w)
  /\ view' = [(IF Writes(w) THEN ViewsAfterWrite(w) ELSE view) EXCEPT
                ![w] = Learned(req[w], reply'[w])]
  /\ UNCHANGED vars

\* The call fails: w knows nothing, least of all whether its write was applied.
CallFails(w) ==
  /\ A!Fail(w)
  /\ lateWrite' # lateWrite => Cardinality(lateWrite') <= MaxLateWrite
  /\ view' = [view EXCEPT ![w] = Content]
  /\ UNCHANGED vars

CallReturns(w) ==
  /\ A!Return(w)
  /\ UNCHANGED <<vars, view>>

\* A write whose client has given up is applied after all.
LateWriteApplied ==
  /\ \E x \in lateWrite : A!TakeEffect(x)
  /\ view' = [w \in Worker |-> Content]
  /\ UNCHANGED vars

SystemNext ==
  \/ LockingStep
  \/ \E w \in Worker : Calls(w) \/ Answered(w) \/ CallFails(w) \/ CallReturns(w)
  \/ LateWriteApplied

SystemSpec == SystemInit /\ [][SystemNext]_systemVars

-----------------------------------------------------------------------------
(* Properties *)

\* What the lock is for: as long as a worker's lock is valid, what it has read
\* or written stays so, whatever the other processes do, unless a write is
\* applied whose writer has no valid lock any more.
ViewHolds == \A w \in Worker : Valid(w) => store["name"] \in view[w]

=============================================================================

----------------------------- MODULE EtcdStorage -----------------------------
(***************************************************************************)
(* The file operations of etcdsrv (src/etcd.go): Store, Load, Delete and   *)
(* Metadata, which Cluster (src/cluster.go) hands to Caddy as              *)
(* certmagic.Storage.                                                      *)
(*                                                                         *)
(* A value lives under two etcd keys: <prefix>/<key> has the value and     *)
(* <prefix>/md/<key> its metadata.  Writers change both in one             *)
(* transaction; readers look at them in two separate requests.  Each       *)
(* request is one action.  None of these operations retries.  All clients  *)
(* are alike, in one process or in many, and one that crashes is one whose *)
(* call fails and that never calls again.                                  *)
(*                                                                         *)
(* base64 and JSON lose nothing here and are left out, and so is the       *)
(* timestamp in the metadata.                                              *)
(***************************************************************************)
EXTENDS Integers, FiniteSets, Functions

CONSTANTS
  Client,    \* goroutines that use the storage
  Name,      \* paths clients ask about
  Stored,    \* paths clients store values under
  Below,     \* Below[n]: the paths that have n followed by "/" as a prefix
  Value,     \* contents
  Digest,    \* SHA1 digests
  Hash,      \* Hash[v]: sha1.Sum(v)
  Size,      \* Size[v]: len(v)
  None,
  MaxLate    \* bound: transactions in flight whose client has given up

ASSUME NameAssumption ==
  /\ Stored \subseteq Name
  /\ Below \in [Name -> SUBSET Name]
  /\ \A n \in Name : n \notin Below[n]
ASSUME ValueAssumption ==
  /\ Hash \in [Value -> Digest]
  /\ Size \in [Value -> Nat]
  /\ None \notin Value
ASSUME BoundAssumption == MaxLate \in Nat

VARIABLES
  file,  \* etcd: the values, by path
  md,    \* etcd: the metadata, by path
  late,  \* network: transactions not applied yet although the client gave up
  op     \* op[c]: the call client c is in and its local variables

vars == <<file, md, late, op>>

-----------------------------------------------------------------------------
\* type Metadata: Size and Hash.  IsDir is false in whatever is stored.
Meta == [size: Nat, hash: Digest]

ASSUME NoneAssumption == None \notin Meta /\ None \notin Name

\* A write transaction puts both keys; with None it deletes both.
Txn == [key: Stored, val: Value \cup {None}]

PC == {"idle", "storemd", "storetxn", "deletetxn", "loadmd", "loadvalue",
       "metadata", "children", "return"}

Kind == {"none", "ok", "value", "file", "dir", "notexist", "error", "checksum"}

Reply(kind, v, size) == [kind |-> kind, val |-> v, size |-> size]

NoReply == Reply("none", None, 0)
NotExist == Reply("notexist", None, 0)
FailedChecksum == Reply("checksum", None, 0)
Error == Reply("error", None, 0)

\* fn: the kind of operation; md: what Load has read; reply: the result.
Op == [pc: PC, fn: {"none", "write", "load", "stat"}, key: Name \cup {None},
       val: Value \cup {None}, md: Meta \cup {None},
       reply: [kind: Kind, val: Value \cup {None}, size: Nat]]

Idle == [pc |-> "idle", fn |-> "none", key |-> None, val |-> None, md |-> None,
         reply |-> NoReply]

TypeOK ==
  /\ file \in [Name -> Value \cup {None}]
  /\ md \in [Name -> Meta \cup {None}]
  /\ late \subseteq Txn
  /\ op \in [Client -> Op]

Init ==
  /\ file = [n \in Name |-> None]
  /\ md = [n \in Name |-> None]
  /\ late = {}
  /\ op = [c \in Client |-> Idle]

-----------------------------------------------------------------------------
At(c, pc) == op[c].pc = pc

\* Variant: the hash is left out.
NewMetadataNoHash(v) == IF v = None THEN None ELSE [size |-> Size[v], hash |-> None]

\* NewMetadata; there is none for a deleted value.
NewMetadata(v) == IF v = None THEN None ELSE [size |-> Size[v], hash |-> Hash[v]]

Call(c, fn, pc, k, v) ==
  /\ At(c, "idle")
  /\ op' = [op EXCEPT ![c] = [pc |-> pc, fn |-> fn, key |-> k, val |-> v, md |-> None,
                              reply |-> NoReply]]
  /\ UNCHANGED <<file, md, late>>

\* The last request is answered, and the call about to return r.
Finish(c, r) == op' = [op EXCEPT ![c].pc = "return", ![c].reply = r]

\* Variant: the metadata a path already has is kept.
ApplyKeepsMD(k, v) ==
  /\ file' = [file EXCEPT ![k] = v]
  /\ md' = [md EXCEPT ![k] = IF v # None /\ @ # None THEN @ ELSE NewMetadata(v)]

\* etcd applies a transaction: both keys at once.
Apply(k, v) ==
  /\ file' = [file EXCEPT ![k] = v]
  /\ md' = [md EXCEPT ![k] = NewMetadata(v)]

-----------------------------------------------------------------------------
(* Store *)

StoreCall(c) == \E k \in Stored, v \in Value : Call(c, "write", "storemd", k, v)

\* The metadata is looked up, but whatever the answer is, the same transaction
\* is built.  The rate limiter lets the call through.
StoreGet(c) ==
  /\ At(c, "storemd")
  /\ op' = [op EXCEPT ![c].pc = "storetxn"]
  /\ UNCHANGED <<file, md, late>>

StoreTxn(c) ==
  /\ At(c, "storetxn")
  /\ Apply(op[c].key, op[c].val)
  /\ Finish(c, Reply("ok", None, 0))
  /\ UNCHANGED late

-----------------------------------------------------------------------------
(* Delete *)

DeleteCall(c) == \E k \in Stored : Call(c, "write", "deletetxn", k, None)

\* Variant: only the value is deleted.
DeleteTxnKeepsMD(c) ==
  /\ At(c, "deletetxn")
  /\ file' = [file EXCEPT ![op[c].key] = None]
  /\ Finish(c, Reply("ok", None, 0))
  /\ UNCHANGED <<md, late>>

DeleteTxn(c) ==
  /\ At(c, "deletetxn")
  /\ Apply(op[c].key, None)
  /\ Finish(c, Reply("ok", None, 0))
  /\ UNCHANGED late

-----------------------------------------------------------------------------
(* Load *)

LoadCall(c) == \E k \in Name : Call(c, "load", "loadmd", k, None)

\* The first Get: the metadata.
LoadMD(c) ==
  /\ At(c, "loadmd")
  /\ \/ md[op[c].key] = None /\ Finish(c, NotExist)
     \/ /\ md[op[c].key] # None
        /\ op' = [op EXCEPT ![c].pc = "loadvalue", ![c].md = md[op[c].key]]
  /\ UNCHANGED <<file, md, late>>

\* What Load makes of the value v its second Get found.
Loaded(c, v) ==
  IF v = None THEN Error                         \* value not found but metadata exists
  ELSE IF Hash[v] # op[c].md.hash THEN FailedChecksum
  ELSE Reply("value", v, 0)

\* The second Get: the value.
LoadValue(c) ==
  /\ At(c, "loadvalue")
  /\ Finish(c, Loaded(c, file[op[c].key]))
  /\ UNCHANGED <<file, md, late>>

-----------------------------------------------------------------------------
(* Metadata, for Stat and Exists *)

MetadataCall(c) == \E k \in Name : Call(c, "stat", "metadata", k, None)

\* The first Get: the path itself.
MetadataGet(c) ==
  /\ At(c, "metadata")
  /\ LET m == md[op[c].key]
     IN \/ m # None /\ Finish(c, Reply("file", None, m.size))
        \/ m = None /\ op' = [op EXCEPT ![c].pc = "children"]
  /\ UNCHANGED <<file, md, late>>

\* The metadata found below a path: the sizes of the files there.
ChildSizes(n) == [m \in {x \in Below[n] : md[x] # None} |-> md[m].size]

TotalSize(sizes) == SumFunction(sizes)

\* The second Get, with the path and "/" as a prefix: what a directory holds.
MetadataDir(c) ==
  /\ At(c, "children")
  /\ LET sizes == ChildSizes(op[c].key)
     IN Finish(c, IF DOMAIN sizes = {} THEN NotExist
                  ELSE Reply("dir", None, TotalSize(sizes)))
  /\ UNCHANGED <<file, md, late>>

-----------------------------------------------------------------------------
(* Failures and returns *)

\* A request fails, the limiter gives up or the context is past its deadline:
\* the call is about to return an error.  A transaction may be on its way still.
Fails(c) ==
  /\ ~At(c, "idle") /\ ~At(c, "return")
  /\ Finish(c, Error)
  /\ \/ late' = late
     \/ /\ op[c].pc \in {"storetxn", "deletetxn"}
        /\ Cardinality(late) < MaxLate
        /\ late' = late \cup {[key |-> op[c].key, val |-> op[c].val]}
  /\ UNCHANGED <<file, md>>

\* The transaction was applied and its reply is lost.
ReplyLost(c) ==
  /\ At(c, "return")
  /\ op[c].reply.kind = "ok"
  /\ Finish(c, Error)
  /\ UNCHANGED <<file, md, late>>

Return(c) ==
  /\ At(c, "return")
  /\ op' = [op EXCEPT ![c] = Idle]
  /\ UNCHANGED <<file, md, late>>

\* A transaction whose client has given up is applied after all.
LateTxn(t) ==
  /\ Apply(t.key, t.val)
  /\ late' = late \ {t}
  /\ UNCHANGED op

-----------------------------------------------------------------------------
Next ==
  \/ \E c \in Client :
       \/ StoreCall(c) \/ StoreGet(c) \/ StoreTxn(c)
       \/ DeleteCall(c) \/ DeleteTxn(c)
       \/ LoadCall(c) \/ LoadMD(c) \/ LoadValue(c)
       \/ MetadataCall(c) \/ MetadataGet(c) \/ MetadataDir(c)
       \/ Fails(c) \/ ReplyLost(c) \/ Return(c)
  \/ \E t \in late : LateTxn(t)

Spec == Init /\ [][Next]_vars

-----------------------------------------------------------------------------
(* Properties *)

\* "Atomic transactions for data consistency" (NewService): whatever transactions
\* were applied, in whatever order and however late, every value has the metadata
\* that belongs to it and nothing else has any.
Agreement == \A n \in Name : md[n] = NewMetadata(file[n])

\* FailedChecksum and "value not found but metadata exists" are never reported
\* of data at rest: Load reports them only if the metadata it has read was
\* replaced before it read the value.
AlarmOnlyWhenStale ==
  [][\A c \in Client :
       LoadValue(c) /\ op'[c].reply.kind \in {"checksum", "error"} =>
         op[c].md # md[op[c].key]]_vars

\* "data corruption detected" (FailedChecksum.Error): Load reports a checksum
\* failure only if the value in etcd does not match its metadata.
ChecksumMeansCorruption ==
  [][\A c \in Client :
       LoadValue(c) /\ op'[c].reply.kind = "checksum" =>
         md[op[c].key] # NewMetadata(file[op[c].key])]_vars

\* The calls of a client as its callers see them.  Load answers "not there"
\* with its first Get and everything else with its second; so does Metadata,
\* except that a path nothing can be below is known not to exist by the first.
\* Whatever keeps Load from an answer is an error.
Known(c) ==
  IF At(c, "children") /\ Below[op[c].key] = {} THEN NotExist
  ELSE IF op[c].reply.kind = "checksum" THEN Error
  ELSE op[c].reply

Asked(c) ==
  IF At(c, "idle") THEN [op |-> "idle"]
  ELSE IF op[c].fn = "write" THEN [op |-> "write", w |-> [key |-> op[c].key, val |-> op[c].val]]
  ELSE [op |-> op[c].fn, key |-> op[c].key]

asked == [c \in Client |-> Asked(c)]
known == [c \in Client |-> Known(c)]

Abstract == INSTANCE AtomicStorage WITH store <- file, req <- asked, reply <- known

\* CertMagic stores values under paths that are not directories.
FilesAreLeaves == \A n \in Stored : Below[n] = {}

\* Store, Load, Delete and Metadata are atomic (linearizable), failed calls
\* aside, as long as no path is both a file and a directory.
Linearizable == Abstract!Spec

=============================================================================

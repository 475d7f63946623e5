----------------------------- MODULE Directories -----------------------------
(***************************************************************************)
(* Directories: etcd has a flat key space, and List and Metadata           *)
(* (src/etcd.go), getMD (src/operations.go) and Cluster.List               *)
(* (src/cluster.go) make a tree of it.  A directory is not stored: it is   *)
(* whatever is found below its path.                                       *)
(*                                                                         *)
(* A path is the sequence of its segments, without the configured          *)
(* KeyPrefix.  The metadata of k is at md/k and its lock at lock/k, in the *)
(* same key space as the values, so that a client that uses such a name    *)
(* for a value writes over the metadata or the lock of k.  Another storage *)
(* whose KeyPrefix begins with this one shares the key space too.          *)
(*                                                                         *)
(* Each query is one request, so the queries are operators on the state;   *)
(* EtcdStorage has what comes between the two requests of Metadata.        *)
(* Metadata is stamped by the process that stores the value, with its own  *)
(* clock.                                                                  *)
(***************************************************************************)
EXTENDS Integers, Sequences, SequencesExt, FiniteSetsExt, Functions

CONSTANTS
  KeySeq,      \* the paths clients store values under, in the order of their keys
  LockName,    \* the paths clients lock
  Query,       \* the paths clients ask about; <<>> is the whole storage
  Longer,      \* pairs <<s, t>> of segments such that t begins with s
  RootPrefix,  \* KeyPrefix is "/"
  Neighbour,   \* what may follow KeyPrefix in the keys of the other storage
  MaxSize,     \* bound: sizes are 0 .. MaxSize
  MaxTime      \* bound: clocks show 1 .. MaxTime

Key == ToSet(KeySeq)

ASSUME KeyAssumption ==
  /\ KeySeq \in Seq(Seq(STRING)) /\ IsInjective(KeySeq) /\ Query \subseteq Seq(STRING)
  /\ \A k \in Key : k # <<>> /\ (k[1] \in {"md", "lock"} => Tail(k) \in Key)
  /\ LockName \subseteq Key
  /\ RootPrefix \in BOOLEAN /\ (RootPrefix => Neighbour = {})
ASSUME BoundsAssumption == MaxSize \in Nat /\ MaxTime \in Nat \ {0}

VARIABLES
  kv,      \* etcd: what is stored under each key below KeyPrefix
  others   \* etcd: the keys of the other storage, without KeyPrefix

vars == <<kv, others>>

-----------------------------------------------------------------------------
MDKey(k) == <<"md">> \o k

\* Variant: locks are kept where the metadata is.
LockKeyAtMD(k) == <<"md">> \o k

LockKey(k) == <<"lock">> \o k

Stored == Key \cup {MDKey(k) : k \in Key} \cup {LockKey(k) : k \in LockName}

ZeroTime == 0   \* time.Time{}

Content(kind, size, time) == [kind |-> kind, size |-> size, time |-> time]

Nothing == Content("nothing", 0, ZeroTime)
Garbage == Content("garbage", 0, ZeroTime)
LockRecord == Content("lock", 0, ZeroTime)
Value(size) == Content("value", size, ZeroTime)
NewMetadata(size, time) == Content("metadata", size, time)

TypeOK ==
  /\ kv \in [Stored -> {Nothing, Garbage, LockRecord}
                       \cup {Value(size) : size \in 0 .. MaxSize}
                       \cup {NewMetadata(size, time) : size \in 0 .. MaxSize, time \in 1 .. MaxTime}]
  /\ others \subseteq Neighbour

Init ==
  /\ kv = [p \in Stored |-> Nothing]
  /\ others = {}

\* Variant: the metadata is not stamped.
StoreUnstamped(k, size, time) ==
  /\ kv' = [kv EXCEPT ![k] = Value(size), ![MDKey(k)] = NewMetadata(size, ZeroTime)]
  /\ UNCHANGED others

\* The transaction of Store, by a process whose clock shows time.
Store(k, size, time) ==
  /\ kv' = [kv EXCEPT ![k] = Value(size), ![MDKey(k)] = NewMetadata(size, time)]
  /\ UNCHANGED others

\* The transaction of Delete.
Delete(k) ==
  /\ kv' = [kv EXCEPT ![k] = Nothing, ![MDKey(k)] = Nothing]
  /\ UNCHANGED others

\* The Put of lock, unless something is there that is no lock.  Nothing removes
\* the record.
Lock(k) ==
  /\ kv[LockKey(k)] \in {Nothing, LockRecord}
  /\ kv' = [kv EXCEPT ![LockKey(k)] = LockRecord]
  /\ UNCHANGED others

\* Something else makes metadata unreadable.
Spoil(k) ==
  /\ kv[MDKey(k)].kind = "metadata"
  /\ kv' = [kv EXCEPT ![MDKey(k)] = Garbage]
  /\ UNCHANGED others

\* The other storage stores a value of its own, deletes one or locks one.
OthersWrite ==
  /\ others' \in SUBSET Neighbour
  /\ UNCHANGED kv

Next ==
  \/ \E k \in Key, size \in 0 .. MaxSize, time \in 1 .. MaxTime : Store(k, size, time)
  \/ \E k \in Key : Delete(k) \/ Spoil(k)
  \/ \E k \in LockName : Lock(k)
  \/ OthersWrite

Spec == Init /\ [][Next]_vars

-----------------------------------------------------------------------------
(* List *)

Begins(s, t) == s = t \/ <<s, t>> \in Longer

\* The key for p begins with the key for q, as strings.
HasPrefix(p, q) ==
  \/ q = <<>>
  \/ /\ Len(q) <= Len(p)
     /\ \A i \in 1 .. Len(q) - 1 : p[i] = q[i]
     /\ Begins(q[Len(q)], p[Len(q)])

\* The answer to the Get: each key without KeyPrefix, whether its value is empty
\* (so is the base64 of an empty value), and whether what is left of the key
\* starts with a slash.  KeyPrefix "/" takes that slash away with it.  KeyPrefix
\* alone is also the beginning of the keys of the neighbour.
Kvs(q) ==
  {[path |-> p, empty |-> kv[p] = Value(0), slash |-> ~RootPrefix] :
     p \in {x \in Stored : kv[x] # Nothing /\ HasPrefix(x, q)}}
  \cup {[path |-> p, empty |-> FALSE, slash |-> FALSE] :
     p \in {x \in others : q = <<>>}}

\* Variant: keys that only end in the segment md count as metadata.
HasMDAnywhere(x) == \E i \in 1 .. Len(x.path) : x.path[i] = "md"

\* Variant: the slash before the key is gone when it is looked at.
HasMDBelow(x) == \E i \in 2 .. Len(x.path) - 1 : x.path[i] = "md"

\* The key without KeyPrefix contains "/md/".
HasMD(x) == \E i \in 1 .. Len(x.path) - 1 : x.path[i] = "md" /\ (i > 1 \/ x.slash)

FilterRemoveDirectories(x) == ~x.empty

\* Variant: the filter takes whatever is below q.
FilterAnyDepth(x, q) == ~x.empty /\ x.slash /\ IsPrefix(q, x.path)

\* The directory part of the key without KeyPrefix is q and a slash.  Without
\* its leading slash it never is.
FilterExactPrefix(x, q) == ~x.empty /\ x.slash /\ Front(x.path) = q

\* The filter Cluster.List chooses.
Passes(x, q, recursive) ==
  IF recursive THEN FilterRemoveDirectories(x) ELSE FilterExactPrefix(x, q)

List(q, recursive) ==
  {x.path : x \in {y \in Kvs(q) : ~HasMD(y) /\ Passes(y, q, recursive)}}

-----------------------------------------------------------------------------
(* Metadata and getMD *)

NotExist == Content("notexist", 0, ZeroTime)
Error == Content("error", 0, ZeroTime)

\* The record can be decoded as metadata.
unmarshalMDv3(m) == m.kind = "metadata"

\* What is found at the path itself.
Direct(m) == IF unmarshalMDv3(m) THEN Content("file", m.size, m.time) ELSE Error

\* Variant: the prefix of the second query does not end in a slash.
ChildrenNoSlash(q) == {k \in Key : kv[MDKey(k)] # Nothing /\ HasPrefix(k, q)}

\* The second query: the paths that have q and a slash as a prefix.
Children(q) == {k \in Key : kv[MDKey(k)] # Nothing /\ IsStrictPrefix(q, k)}

\* Variant: metadata that cannot be decoded resets the sum.
AddResets(r, m) ==
  IF ~unmarshalMDv3(m) THEN [r EXCEPT !.size = 0]
  ELSE [r EXCEPT !.size = @ + m.size, !.time = IF m.time > @ THEN m.time ELSE @]

\* Variant: the timestamp of the record that comes last.
AddLast(r, m) ==
  IF ~unmarshalMDv3(m) THEN r
  ELSE [r EXCEPT !.size = @ + m.size, !.time = m.time]

\* The body of the loop, in both.
Add(r, m) ==
  IF ~unmarshalMDv3(m) THEN r
  ELSE [r EXCEPT !.size = @ + m.size, !.time = IF m.time > @ THEN m.time ELSE @]

\* The loop, over the answers in the order of their keys.
Aggregate(q, start) ==
  LET total[i \in 0 .. Len(KeySeq)] ==
        IF i = 0 THEN Content("dir", 0, start)
        ELSE IF KeySeq[i] \in Children(q) THEN Add(total[i - 1], kv[MDKey(KeySeq[i])])
        ELSE total[i - 1]
  IN total[Len(KeySeq)]

IsFile(q) == q \in Key /\ kv[MDKey(q)] # Nothing

\* etcdsrv.Metadata, asked by a process whose clock shows now: a directory is as
\* old as the latest of its children, or new when none of them can be decoded.
Metadata(q, now) ==
  IF IsFile(q) THEN Direct(kv[MDKey(q)])
  ELSE IF Children(q) = {} THEN NotExist
  ELSE LET r == Aggregate(q, ZeroTime)
       IN IF r.time = ZeroTime THEN [r EXCEPT !.time = now] ELSE r

\* getMD into an empty Metadata: the loop starts from the current time.
getMD(q, now) ==
  IF IsFile(q) THEN Direct(kv[MDKey(q)])
  ELSE IF Children(q) = {} THEN NotExist
  ELSE Aggregate(q, now)

-----------------------------------------------------------------------------
(* Properties *)

Files == {k \in Key : kv[k].kind = "value"}

\* Nobody uses the name of k's metadata for a value, and k is no such name.
Clear(k) == MDKey(k) \notin Key /\ k[1] # "md"

\* Whatever other names are used, and md/... and lock/... among them: a value whose
\* own name is clear has its metadata and nothing else has any, and locks can be
\* taken wherever no value bears the name of the lock.
KeySpacesApart ==
  /\ \A k \in Key : Clear(k) =>
       /\ k \in Files <=> kv[MDKey(k)] # Nothing
       /\ kv[MDKey(k)] # Nothing =>
            kv[MDKey(k)] = Garbage \/ kv[MDKey(k)].size = kv[k].size
  /\ \A k \in LockName : LockKey(k) \notin Key => kv[LockKey(k)] \in {Nothing, LockRecord}

\* Files that List passes over: empty ones, and those below a directory md.
Hidden(k) == kv[k].size = 0 \/ (\E i \in 1 .. Len(k) - 1 : k[i] = "md")

\* Every stored key at or below a path is listed, and every key directly below
\* it when the listing is not recursive, hidden ones aside.
ListComplete ==
  \A q \in Query : \A k \in Files : ~Hidden(k) =>
    /\ IsPrefix(q, k) => k \in List(q, TRUE)
    /\ Front(k) = q => k \in List(q, FALSE)

\* What is listed of this storage is a value or a lock, is in the directory asked
\* for or in a sibling whose name begins alike, and is directly in it when the
\* listing is not recursive: keys that were deleted never show.  (The keys of
\* another storage are the business of ListStaysInNamespace.)
ListSound ==
  \A q \in Query : \A r \in BOOLEAN : \A p \in List(q, r) \ others :
    /\ p \in Stored /\ kv[p].kind \in {"value", "lock"}
    /\ ~r => Front(p) = q
    /\ q # <<>> => p[1] = q[1] \/ <<q[1], p[1]>> \in Longer

\* "WithPrefix sets the etcd namespace for caddy data" (src/config.go): a listing
\* names nothing of the storage beside this one.
ListStaysInNamespace ==
  \A q \in Query : \A r \in BOOLEAN : List(q, r) \cap others = {}

\* List and Stat agree on what there is, as far as names are clear.  If List finds
\* a file at or below a path, Stat finds the path (or fails on metadata it cannot
\* read); and what Stat finds has a file at or below it, though perhaps one that
\* List hides.
StatMatchesList ==
  \A q \in Query :
    LET found == Metadata(q, 1).kind # "notexist"
    IN /\ (\E p \in List(q, TRUE) \cap Files : IsPrefix(q, p) /\ Clear(p)) => found
       /\ found => \E k \in Key : IsPrefix(q, k) /\ (k \in Files \/ ~Clear(k))

\* The files below a path whose metadata counts.
Counted(q) == {k \in Key : IsStrictPrefix(q, k) /\ kv[MDKey(k)].kind = "metadata"}

\* What the metadata of each path says of its size.
MDSize == [k \in Key |-> kv[MDKey(k)].size]

\* A directory is as large as the files in it, whatever else is found among
\* their metadata, and Metadata and getMD agree on it.
SizesAddUp ==
  \A q \in Query : Metadata(q, 1).kind = "dir" =>
    /\ Metadata(q, 1).size = SumFunctionOnSet(MDSize, Counted(q))
    /\ getMD(q, 1).kind = "dir" /\ getMD(q, 1).size = Metadata(q, 1).size

\* A directory was modified when the latest of the files in it was, whichever
\* key that has and however late the reader's clock is.
ModifiedIsLatest ==
  \A q \in Query, now \in 1 .. MaxTime :
    Metadata(q, now).kind = "dir" /\ Counted(q) # {} =>
      Metadata(q, now).time = Max({kv[MDKey(k)].time : k \in Counted(q)})

\* "Skip metadata entries" (etcdsrv.List): a listing names no metadata, and no
\* value under the name of metadata.  This needs a KeyPrefix other than "/".
SkipsMetadata ==
  \A q \in Query : \A r \in BOOLEAN : \A p \in List(q, r) : p \notin {MDKey(k) : k \in Key}

=============================================================================

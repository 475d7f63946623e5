-------------------------- MODULE Directories_proofs --------------------------
(***************************************************************************)
(* Proofs about Directories, for any paths, whatever names clients use for *)
(* their values: names of metadata and of locks among them.                *)
(***************************************************************************)
EXTENDS Directories, SequenceTheorems, FiniteSums

Contents ==
  {Nothing, Garbage, LockRecord}
  \cup {Value(size) : size \in 0 .. MaxSize}
  \cup {NewMetadata(size, time) : size \in 0 .. MaxSize, time \in 1 .. MaxTime}

\* Metadata, readable or not, is found under names of metadata only.
OnlyMetadata ==
  \A p \in Stored : kv[p].kind \in {"metadata", "garbage"} => \E k \in Key : p = MDKey(k)

IInv == TypeOK /\ KeySpacesApart /\ OnlyMetadata

Segment == STRING \cup {"md", "lock"}

\* Paths of one segment.
LEMMA OneSegment ==
  ASSUME NEW S, NEW s \in S
  PROVE  <<s>> \in Seq(S) /\ Len(<<s>>) = 1 /\ <<s>>[1] = s
OBVIOUS

\* Paths are sequences of segments, and there are finitely many.
LEMMA Paths ==
  /\ Len(KeySeq) \in Nat /\ DOMAIN KeySeq = 1 .. Len(KeySeq)
  /\ \A i \in 1 .. Len(KeySeq) : KeySeq[i] \in Key
  /\ \A k \in Key : \E i \in 1 .. Len(KeySeq) : k = KeySeq[i]
  /\ \A i, j \in 1 .. Len(KeySeq) : KeySeq[i] = KeySeq[j] => i = j
  /\ Key \subseteq Seq(STRING)
  /\ IsFiniteSet(Key)
<1>1. /\ Len(KeySeq) \in Nat /\ DOMAIN KeySeq = 1 .. Len(KeySeq)
      /\ KeySeq \in [1 .. Len(KeySeq) -> Seq(STRING)]
  BY KeyAssumption, LenProperties
<1>2. Key = {KeySeq[i] : i \in 1 .. Len(KeySeq)}
  BY <1>1 DEF Key, ToSet
<1>3. \A i, j \in 1 .. Len(KeySeq) : KeySeq[i] = KeySeq[j] => i = j
  BY <1>1, KeyAssumption DEF IsInjective
<1>4. KeySeq \in Surjection(1 .. Len(KeySeq), Key)
  BY <1>1, <1>2 DEF Surjection
<1>5. IsFiniteSet(Key)
  BY <1>1, <1>4, FS_NatSurjection DEF ExistsSurjection
<1> QED
  BY <1>1, <1>2, <1>3, <1>5

\* Names of metadata and of locks are longer than the path and begin differently.
LEMMA Names ==
  ASSUME NEW k \in Key
  PROVE  /\ MDKey(k)[1] = "md" /\ Len(MDKey(k)) = Len(k) + 1
         /\ LockKey(k)[1] = "lock"
         /\ k \in Seq(Segment) /\ Len(k) \in Nat \ {0}
<1>1. k \in Seq(Segment) /\ k # <<>>
  BY KeyAssumption, Paths, SeqMonotonic DEF Segment
<1>2. Len(k) \in Nat \ {0}
  BY <1>1, EmptySeq
<1>3. ASSUME NEW s \in Segment
      PROVE  (<<s>> \o k)[1] = s /\ Len(<<s>> \o k) = Len(k) + 1
  <2> DEFINE t == <<s>> \o k
  <2>1. <<s>> \in Seq(Segment) /\ Len(<<s>>) = 1 /\ <<s>>[1] = s
    BY OneSegment
  <2>2. /\ Len(t) = Len(<<s>>) + Len(k)
        /\ \A i \in 1 .. Len(<<s>>) + Len(k) : t[i] = IF i <= Len(<<s>>) THEN <<s>>[i] ELSE k[i - Len(<<s>>)]
    BY <1>1, <2>1, ConcatProperties
  <2>3. /\ Len(t) = 1 + Len(k)
        /\ \A i \in 1 .. 1 + Len(k) : i <= 1 => t[i] = <<s>>[i]
    BY <2>1, <2>2
  <2> HIDE DEF t
  <2>4. t[1] = s
    BY <1>2, <2>1, <2>3
  <2>5. Len(t) = Len(k) + 1
    BY <1>2, <2>3
  <2> QED
    BY <2>4, <2>5 DEF t
<1> QED
  BY <1>1, <1>2, <1>3 DEF MDKey, LockKey, Segment

\* Different paths have different metadata.
LEMMA MDKeyInjective == ASSUME NEW j \in Key, NEW k \in Key, MDKey(j) = MDKey(k) PROVE j = k
<1>1. <<"md">> \in Seq(Segment) /\ j \in Seq(Segment) /\ k \in Seq(Segment)
  BY OneSegment, Names DEF Segment
<1> QED
  BY <1>1, ConcatSimplifications DEF MDKey

\* What a step writes is none of the other cells that matter for a clear path.
LEMMA ClearCells ==
  ASSUME NEW k \in Key, Clear(k), NEW j \in Key
  PROVE  /\ k # MDKey(k) /\ MDKey(j) # k /\ j # MDKey(k)
         /\ j # k => MDKey(j) # MDKey(k)
         /\ LockKey(j) # MDKey(k)
BY Names, MDKeyInjective DEF Clear

\* The kinds of what is written.
LEMMA Kinds ==
  /\ Nothing.kind = "nothing" /\ LockRecord.kind = "lock" /\ Garbage.kind = "garbage"
  /\ \A n : Value(n).kind = "value" /\ Value(n).size = n
  /\ \A n, t : NewMetadata(n, t).kind = "metadata" /\ NewMetadata(n, t).size = n
BY DEF Nothing, LockRecord, Garbage, Value, NewMetadata, Content

\* Names, the names of their metadata and those of locks are all names in etcd.
LEMMA Cells ==
  /\ Key \subseteq Stored
  /\ \A k \in Key : MDKey(k) \in Stored
  /\ \A k \in LockName : k \in Key /\ LockKey(k) \in Stored
BY KeyAssumption DEF Stored

\* Nothing is stored at first.
LEMMA InvInit == Init => IInv
<1> SUFFICES ASSUME Init PROVE IInv
  OBVIOUS
<1>1. \A p \in Stored : kv[p] = Nothing
  BY DEF Init
<1>2. TypeOK
  BY DEF Init, TypeOK
<1> QED
  BY <1>1, <1>2, Kinds, Cells DEF IInv, KeySpacesApart, OnlyMetadata, Files

\* Store and Delete write a pair of cells, and keep the invariant if they write
\* a value with its metadata or nothing at all.
LEMMA PairWritten ==
  ASSUME IInv, NEW j \in Key, NEW v \in Contents, NEW m \in Contents,
         kv' = [kv EXCEPT ![j] = v, ![MDKey(j)] = m], others' = others,
         \/ v = Nothing /\ m = Nothing
         \/ v.kind = "value" /\ m.kind = "metadata" /\ m.size = v.size
  PROVE  IInv'
<1>1. j \in Stored /\ MDKey(j) \in Stored /\ kv \in [Stored -> Contents]
  BY Cells DEF IInv, TypeOK, Contents
<1>2. /\ kv' \in [Stored -> Contents]
      /\ kv'[MDKey(j)] = m
      /\ j # MDKey(j) => kv'[j] = v
      /\ \A p \in Stored : p # j /\ p # MDKey(j) => kv'[p] = kv[p]
  BY <1>1
<1>3. TypeOK'
  BY <1>2 DEF IInv, TypeOK, Contents
<1>4. ASSUME NEW k \in Key, Clear(k)
      PROVE  /\ k \in Files' <=> kv'[MDKey(k)] # Nothing
             /\ kv'[MDKey(k)] # Nothing =>
                  kv'[MDKey(k)] = Garbage \/ kv'[MDKey(k)].size = kv'[k].size
  <2>1. CASE j = k
    <3>1. kv'[k] = v /\ kv'[MDKey(k)] = m
      BY <1>2, <1>4, <2>1, ClearCells
    <3> QED
      BY <3>1, Kinds DEF Files
  <2>2. CASE j # k
    <3>1. kv'[k] = kv[k] /\ kv'[MDKey(k)] = kv[MDKey(k)]
      BY <1>2, <1>4, <2>2, ClearCells, Cells
    <3> QED
      BY <1>4, <3>1 DEF Files, IInv, KeySpacesApart
  <2> QED
    BY <2>1, <2>2
<1>5. ASSUME NEW k \in LockName, LockKey(k) \notin Key
      PROVE  kv'[LockKey(k)] \in {Nothing, LockRecord}
  <2>1. LockKey(k) # j /\ LockKey(k) # MDKey(j) /\ LockKey(k) \in Stored
    BY <1>5, Names, Cells
  <2> QED
    BY <1>2, <1>5, <2>1 DEF IInv, KeySpacesApart
<1>6. OnlyMetadata'
  <2>1. ASSUME NEW p \in Stored, kv'[p].kind \in {"metadata", "garbage"}, p # MDKey(j)
        PROVE  \E k \in Key : p = MDKey(k)
    <3>1. p # j
      BY <1>2, <2>1, Kinds
    <3> QED
      BY <1>2, <2>1, <3>1 DEF IInv, OnlyMetadata
  <2> QED
    BY <2>1 DEF OnlyMetadata
<1> QED
  BY <1>3, <1>4, <1>5, <1>6 DEF IInv, KeySpacesApart, Clear

\* Every step keeps the invariant.
LEMMA InvStep == IInv /\ [Next]_vars => IInv'
<1> SUFFICES ASSUME IInv, [Next]_vars PROVE IInv'
  OBVIOUS
<1>0. kv \in [Stored -> Contents]
  BY DEF IInv, TypeOK, Contents
<1>1. ASSUME NEW k \in Key, NEW size \in 0 .. MaxSize, NEW time \in 1 .. MaxTime,
             Store(k, size, time)
      PROVE  IInv'
  <2>1. Value(size) \in Contents /\ NewMetadata(size, time) \in Contents
    BY DEF Contents
  <2>2. /\ Value(size).kind = "value" /\ NewMetadata(size, time).kind = "metadata"
        /\ NewMetadata(size, time).size = Value(size).size
    BY Kinds
  <2>3. /\ kv' = [kv EXCEPT ![k] = Value(size), ![MDKey(k)] = NewMetadata(size, time)]
        /\ others' = others
    BY <1>1 DEF Store
  <2> HIDE <1>1
  <2> QED
    BY <2>1, <2>2, <2>3, PairWritten
<1>2. ASSUME NEW k \in Key, Delete(k) PROVE IInv'
  <2>1. Nothing \in Contents
    BY DEF Contents
  <2>2. kv' = [kv EXCEPT ![k] = Nothing, ![MDKey(k)] = Nothing] /\ others' = others
    BY <1>2 DEF Delete
  <2> QED
    BY <2>1, <2>2, PairWritten
<1>3. ASSUME NEW j \in LockName, Lock(j) PROVE IInv'
  <2>1. /\ j \in Key /\ LockKey(j) \in Stored
        /\ kv' \in [Stored -> Contents]
        /\ kv[LockKey(j)] \in {Nothing, LockRecord}
        /\ kv'[LockKey(j)] = LockRecord
        /\ \A p \in Stored : p # LockKey(j) => kv'[p] = kv[p]
    BY <1>0, <1>3, Cells DEF Lock, Contents
  <2>2. TypeOK'
    BY <1>3, <2>1 DEF Lock, IInv, TypeOK, Contents
  <2>3. ASSUME NEW k \in Key, Clear(k)
        PROVE  /\ k \in Files' <=> kv'[MDKey(k)] # Nothing
               /\ kv'[MDKey(k)] # Nothing =>
                    kv'[MDKey(k)] = Garbage \/ kv'[MDKey(k)].size = kv'[k].size
    <3>1. kv'[MDKey(k)] = kv[MDKey(k)]
      BY <2>1, <2>3, ClearCells, Cells
    <3>2. kv'[k] = kv[k] \/ (k \notin Files /\ k \notin Files')
      BY <2>1, <2>3, Cells, Kinds DEF Files
    <3> QED
      BY <2>3, <3>1, <3>2 DEF Files, IInv, KeySpacesApart
  <2>4. \A k \in LockName : LockKey(k) \notin Key => kv'[LockKey(k)] \in {Nothing, LockRecord}
    BY <2>1, Cells DEF IInv, KeySpacesApart
  <2>5. OnlyMetadata'
    BY <2>1, Kinds DEF IInv, OnlyMetadata
  <2> QED
    BY <2>2, <2>3, <2>4, <2>5 DEF IInv, KeySpacesApart, Clear
<1>4. ASSUME NEW j \in Key, Spoil(j) PROVE IInv'
  <2>1. /\ MDKey(j) \in Stored
        /\ kv' \in [Stored -> Contents]
        /\ kv[MDKey(j)].kind = "metadata" /\ kv[MDKey(j)] # Nothing
        /\ kv'[MDKey(j)] = Garbage /\ Garbage # Nothing
        /\ \A p \in Stored : p # MDKey(j) => kv'[p] = kv[p]
    BY <1>0, <1>4, Cells, Kinds DEF Spoil, Contents
  <2>2. TypeOK'
    BY <1>4, <2>1 DEF Spoil, IInv, TypeOK, Contents
  <2>3. ASSUME NEW k \in Key, Clear(k)
        PROVE  /\ k \in Files' <=> kv'[MDKey(k)] # Nothing
               /\ kv'[MDKey(k)] # Nothing =>
                    kv'[MDKey(k)] = Garbage \/ kv'[MDKey(k)].size = kv'[k].size
    <3>1. kv'[k] = kv[k]
      BY <2>1, <2>3, ClearCells, Cells
    <3>2. j # k => kv'[MDKey(k)] = kv[MDKey(k)]
      BY <2>1, <2>3, ClearCells, Cells
    <3> QED
      BY <2>1, <2>3, <3>1, <3>2 DEF Files, IInv, KeySpacesApart
  <2>4. \A k \in LockName : LockKey(k) \notin Key => kv'[LockKey(k)] \in {Nothing, LockRecord}
    <3>1. \A k \in LockName : LockKey(k) # MDKey(j)
      BY Names, Cells
    <3> QED
      BY <2>1, <3>1, Cells DEF IInv, KeySpacesApart
  <2>5. OnlyMetadata'
    BY <2>1 DEF IInv, OnlyMetadata
  <2> QED
    BY <2>2, <2>3, <2>4, <2>5 DEF IInv, KeySpacesApart, Clear
<1>5. CASE OthersWrite \/ UNCHANGED vars
  BY <1>5 DEF OthersWrite, vars, IInv, TypeOK, KeySpacesApart, OnlyMetadata, Files, Clear
<1> QED
  BY <1>1, <1>2, <1>3, <1>4, <1>5 DEF Next

\* The key space holds what the code writes.
THEOREM DirectoriesTypeCorrect == Spec => []TypeOK
<1>1. IInv => TypeOK
  BY DEF IInv
<1> QED
  BY InvInit, InvStep, <1>1, PTL DEF Spec

\* Whatever names clients use, a value whose own name is clear keeps the metadata
\* that belongs to it, and a lock whose name nobody uses can always be taken.
THEOREM KeySpacesStayApart == Spec => []KeySpacesApart
<1>1. IInv => KeySpacesApart
  BY DEF IInv
<1> QED
  BY InvInit, InvStep, <1>1, PTL DEF Spec

\* What is found at a name that does not contain /md/ is a value or a lock.
LEMMA NoMetadataListed ==
  ASSUME IInv, NEW p \in Stored, kv[p] # Nothing,
         ~\E i \in 1 .. Len(p) - 1 : p[i] = "md"
  PROVE  kv[p].kind \in {"value", "lock"}
<1>1. ASSUME NEW k \in Key, p = MDKey(k) PROVE FALSE
  <2>1. 1 \in 1 .. Len(p) - 1 /\ p[1] = "md"
    BY <1>1, Names
  <2> QED
    BY <2>1
<1>2. kv[p].kind \notin {"metadata", "garbage"}
  BY <1>1 DEF IInv, OnlyMetadata
<1>3. kv[p] \in Contents
  BY DEF IInv, TypeOK, Contents
<1> QED
  BY <1>2, <1>3, Kinds DEF Contents

\* A key that begins with the key of a path is below its first segment, or below
\* one that begins alike.
LEMMA FirstSegment ==
  ASSUME NEW p, NEW q \in Seq(STRING), q # <<>>, HasPrefix(p, q)
  PROVE  p[1] = q[1] \/ <<q[1], p[1]>> \in Longer
<1>1. Len(q) \in Nat \ {0}
  BY EmptySeq
<1>2. CASE Len(q) = 1
  BY <1>2 DEF HasPrefix, Begins
<1>3. CASE Len(q) # 1
  <2>0. \A n \in Nat \ {0} : n # 1 => 1 \in 1 .. n - 1
    OBVIOUS
  <2>1. 1 \in 1 .. Len(q) - 1
    BY <1>1, <1>3, <2>0, Zenon
  <2>2. \A i \in 1 .. Len(q) - 1 : p[i] = q[i]
    BY DEF HasPrefix
  <2> QED
    BY <2>1, <2>2
<1> QED
  BY <1>2, <1>3

\* Unless KeyPrefix is "/", what a listing shows of this storage are values and
\* locks of the directory asked for: never metadata, never what was deleted.
THEOREM ListingsSound == ~RootPrefix => (Spec => []ListSound)
<1> SUFFICES ASSUME ~RootPrefix PROVE Spec => []ListSound
  OBVIOUS
<1>1. ASSUME IInv, NEW q \in Query, NEW r \in BOOLEAN, NEW p \in List(q, r) \ others
      PROVE  /\ p \in Stored /\ kv[p].kind \in {"value", "lock"}
             /\ ~r => Front(p) = q
             /\ q # <<>> => p[1] = q[1] \/ <<q[1], p[1]>> \in Longer
  <2>1. PICK y \in Kvs(q) : ~HasMD(y) /\ Passes(y, q, r) /\ p = y.path
    BY <1>1 DEF List
  <2>2. ~r => y.slash /\ Front(p) = q
    BY <2>1 DEF Passes, FilterExactPrefix
  <2>3. CASE \E x \in Stored : /\ kv[x] # Nothing /\ HasPrefix(x, q)
                               /\ y = [path |-> x, empty |-> kv[x] = Value(0), slash |-> ~RootPrefix]
    <3> PICK x \in Stored : /\ kv[x] # Nothing /\ HasPrefix(x, q)
                            /\ y = [path |-> x, empty |-> kv[x] = Value(0), slash |-> ~RootPrefix]
      BY <2>3
    <3>0. y.path = x /\ y.slash
      OBVIOUS
    <3>1. p \in Stored /\ kv[p] # Nothing /\ HasPrefix(p, q) /\ y.path = p /\ y.slash
      BY <2>1, <3>0
    <3>2. ~\E i \in 1 .. Len(p) - 1 : p[i] = "md"
      BY <2>1, <3>1 DEF HasMD
    <3>3. kv[p].kind \in {"value", "lock"}
      BY <1>1, <3>1, <3>2, NoMetadataListed
    <3>4. q # <<>> => p[1] = q[1] \/ <<q[1], p[1]>> \in Longer
      BY <3>1, FirstSegment, KeyAssumption
    <3> QED
      BY <2>2, <3>1, <3>3, <3>4
  <2>4. CASE \E x \in others : q = <<>> /\ y = [path |-> x, empty |-> FALSE, slash |-> FALSE]
    BY <2>1, <2>2, <2>4
  <2> QED
    BY <2>1, <2>3, <2>4 DEF Kvs
<1>2. IInv => ListSound
  BY <1>1 DEF ListSound
<1> QED
  BY InvInit, InvStep, <1>2, PTL DEF Spec

\* The keys that a search for a path finds: those at or below it, and those
\* directly in it.
LEMMA PrefixFound ==
  ASSUME NEW q \in Query, NEW k \in Key, IsPrefix(q, k) \/ Front(k) = q
  PROVE  HasPrefix(k, q)
<1>1. /\ q \in Seq(STRING) /\ k \in Seq(STRING) /\ Len(k) \in Nat \ {0} /\ Len(q) \in Nat
  BY KeyAssumption, Paths, Names, LenProperties
<1>2. Len(q) <= Len(k) /\ \A i \in 1 .. Len(q) : k[i] = q[i]
  <2>1. CASE IsPrefix(q, k)
    <3>1. Len(q) <= Len(k) /\ SubSeq(q, 1, Len(q)) = SubSeq(k, 1, Len(q))
      BY <2>1 DEF IsPrefix
    <3>2. \A i \in 1 .. Len(q) : q[i] \in STRING /\ k[i] \in STRING
      <4>1. ASSUME NEW i \in 1 .. Len(q) PROVE i \in 1 .. Len(k)
        BY <1>1, <3>1
      <4> QED
        BY <1>1, <4>1, ElementOfSeq
    <3>3. \A i \in 1 .. Len(q) - 1 + 1 : /\ SubSeq(q, 1, Len(q))[i] = q[1 + i - 1]
                                         /\ SubSeq(k, 1, Len(q))[i] = k[1 + i - 1]
      BY <1>1, <3>2, SubSeqProperties
    <3>4. \A n \in Nat : n - 1 + 1 = n /\ 1 + n - 1 = n
      OBVIOUS
    <3>5. ASSUME NEW i \in 1 .. Len(q) PROVE k[i] = q[i]
      <4>1. i \in Nat /\ i \in 1 .. Len(q) - 1 + 1
        BY <1>1, <3>4
      <4>2. SubSeq(q, 1, Len(q))[i] = q[i] /\ SubSeq(k, 1, Len(q))[i] = k[i]
        BY <3>3, <3>4, <4>1, Zenon
      <4> QED
        BY <3>1, <4>2
    <3> QED
      BY <3>1, <3>5
  <2>2. CASE Front(k) = q
    <3> DEFINE n == Len(k) - 1
    <3>1. q = SubSeq(k, 1, n) /\ n \in Nat
      BY <1>1, <2>2 DEF Front
    <3>2. \A i \in 1 .. n : k[i] \in STRING
      BY <1>1, ElementOfSeq
    <3>3. /\ Len(q) = IF 1 <= n THEN n - 1 + 1 ELSE 0
          /\ \A i \in 1 .. n - 1 + 1 : q[i] = k[1 + i - 1]
      BY <3>1, <3>2, SubSeqProperties
    <3> HIDE DEF n
    <3>4. Len(q) = n /\ \A i \in 1 .. n : i \in 1 .. n - 1 + 1 /\ 1 + i - 1 = i
      BY <3>1, <3>3
    <3>5. \A i \in 1 .. n : q[i] = k[i]
      BY <3>3, <3>4
    <3>6. n <= Len(k)
      BY <1>1 DEF n
    <3> QED
      BY <3>4, <3>5, <3>6
  <2> QED
    BY <2>1, <2>2
<1>3. CASE q = <<>>
  BY <1>3 DEF HasPrefix
<1>4. CASE q # <<>>
  <2>1. Len(q) \in 1 .. Len(q) /\ \A i \in 1 .. Len(q) - 1 : i \in 1 .. Len(q)
    BY <1>1, <1>4, EmptySeq
  <2> QED
    BY <1>2, <2>1 DEF HasPrefix, Begins
<1> QED
  BY <1>3, <1>4

\* Unless KeyPrefix is "/", every stored key at or below a path is listed, and
\* every key directly in it when the listing is not recursive, except empty values
\* and what is below a directory md.
THEOREM ListingsComplete == ~RootPrefix => (Spec => []ListComplete)
<1> SUFFICES ASSUME ~RootPrefix PROVE Spec => []ListComplete
  OBVIOUS
<1>1. ASSUME NEW q \in Query, NEW k \in Files, ~Hidden(k)
      PROVE  /\ IsPrefix(q, k) => k \in List(q, TRUE)
             /\ Front(k) = q => k \in List(q, FALSE)
  <2> DEFINE y == [path |-> k, empty |-> kv[k] = Value(0), slash |-> ~RootPrefix]
  <2>1. k \in Key /\ k \in Stored /\ kv[k] # Nothing /\ kv[k] # Value(0)
    BY <1>1, Kinds, Cells DEF Files, Hidden
  <2>2. HasPrefix(k, q) => y \in Kvs(q)
    BY <2>1 DEF Kvs
  <2>3. y.path = k /\ ~y.empty /\ y.slash
    BY <2>1
  <2> HIDE DEF y
  <2>4. ~HasMD(y)
    BY <1>1, <2>3 DEF HasMD, Hidden
  <2>5. IsPrefix(q, k) => k \in List(q, TRUE)
    BY <2>1, <2>2, <2>3, <2>4, PrefixFound DEF List, Passes, FilterRemoveDirectories
  <2>6. Front(k) = q => k \in List(q, FALSE)
    BY <2>1, <2>2, <2>3, <2>4, PrefixFound DEF List, Passes, FilterExactPrefix
  <2> QED
    BY <2>5, <2>6
<1>2. ListComplete
  BY <1>1 DEF ListComplete
<1> QED
  BY <1>2, PTL DEF Spec

-----------------------------------------------------------------------------
(* The loop of Metadata and getMD *)

\* g holds the totals of the loop after each of the first n answers.
Loops(g, n, q, start) ==
  g = [i \in 0 .. n |->
         IF i = 0 THEN Content("dir", 0, start)
         ELSE IF KeySeq[i] \in Children(q) THEN Add(g[i - 1], kv[MDKey(KeySeq[i])])
         ELSE g[i - 1]]

\* Aggregate is the last value of a function that computes the loop, if there is one.
LEMMA AggregateLoops ==
  ASSUME NEW q, NEW start
  PROVE  Aggregate(q, start) =
           (CHOOSE g : Loops(g, Len(KeySeq), q, start))[Len(KeySeq)]
BY Zenon DEF Aggregate, Loops

\* The loop ends, after any number of answers.
LEMMA LoopExists ==
  ASSUME NEW q, NEW start
  PROVE  \A n \in Nat : \E g : Loops(g, n, q, start)
<1> DEFINE Bad == {n \in Nat : ~\E g : Loops(g, n, q, start)}
<1>1. SUFFICES ASSUME Bad # {} PROVE FALSE
  OBVIOUS
<1>2. PICK n \in Bad : \A m \in Bad : n <= m
  <2>1. Bad \subseteq Nat
    OBVIOUS
  <2> HIDE DEF Bad
  <2> QED
    BY <1>1, <2>1, LeastNumber
<1>3. n \in Nat /\ ~\E g : Loops(g, n, q, start)
  BY <1>2
<1>4. CASE n = 0
  <2> DEFINE g == [i \in 0 .. 0 |-> Content("dir", 0, start)]
  <2>1. Loops(g, 0, q, start)
    BY DEF Loops
  <2> QED
    BY <1>3, <1>4, <2>1
<1>5. CASE n # 0
  <2>1. n - 1 \in Nat /\ n - 1 \notin Bad
    BY <1>2, <1>3, <1>5
  <2>2. PICK g : Loops(g, n - 1, q, start)
    BY <2>1
  <2> DEFINE last == IF KeySeq[n] \in Children(q) THEN Add(g[n - 1], kv[MDKey(KeySeq[n])])
                     ELSE g[n - 1]
             h == [i \in 0 .. n |-> IF i = n THEN last ELSE g[i]]
  <2>3. \A i \in 0 .. n - 1 : h[i] = g[i]
    BY <1>3
  <2>4. h[n] = last
    BY <1>3
  <2>5. \A i \in 0 .. n :
          h[i] = IF i = 0 THEN Content("dir", 0, start)
                 ELSE IF KeySeq[i] \in Children(q) THEN Add(h[i - 1], kv[MDKey(KeySeq[i])])
                 ELSE h[i - 1]
    <3> TAKE i \in 0 .. n
    <3>1. CASE i = n
      <4>1. h[i - 1] = g[i - 1]
        BY <1>3, <1>5, <2>3, <3>1
      <4> QED
        BY <1>5, <2>4, <3>1, <4>1
    <3>2. CASE i # n
      <4>1. i \in 0 .. n - 1 /\ (i # 0 => i - 1 \in 0 .. n - 1)
        BY <1>3, <3>2
      <4>2. g[i] = IF i = 0 THEN Content("dir", 0, start)
                   ELSE IF KeySeq[i] \in Children(q) THEN Add(g[i - 1], kv[MDKey(KeySeq[i])])
                   ELSE g[i - 1]
        BY <2>2, <4>1 DEF Loops
      <4> QED
        BY <2>3, <4>1, <4>2
    <3> QED
      BY <3>1, <3>2
  <2>6. Loops(h, n, q, start)
    BY <2>5 DEF Loops
  <2> QED
    BY <1>3, <2>6
<1> QED
  BY <1>4, <1>5

\* The files below q whose metadata counts, among the first i answers.
Seen(i, q) == {k \in Counted(q) : \E j \in 1 .. i : k = KeySeq[j]}

\* r is the total of them.
Tallied(r, i, q, start) ==
  /\ r \in [kind: {"dir"}, size: Nat, time: Nat]
  /\ r.size = SumFunctionOnSet(MDSize, Seen(i, q))
  /\ start <= r.time /\ \A k \in Seen(i, q) : kv[MDKey(k)].time <= r.time
  /\ r.time = start \/ \E k \in Seen(i, q) : r.time = kv[MDKey(k)].time

\* What metadata says of size and time.
LEMMA MDType ==
  ASSUME IInv
  PROVE  /\ MDSize \in [Key -> Nat]
         /\ \A k \in Key : kv[MDKey(k)].kind = "metadata" =>
              kv[MDKey(k)].size \in Nat /\ kv[MDKey(k)].time \in Nat \ {0}
<1>1. ASSUME NEW x \in Contents
      PROVE  x.size \in Nat /\ (x.kind = "metadata" => x.time \in Nat \ {0})
  BY BoundsAssumption DEF Contents, Nothing, Garbage, LockRecord, Value, NewMetadata, Content, ZeroTime
<1>2. \A k \in Key : kv[MDKey(k)] \in Contents
  BY Cells DEF IInv, TypeOK, Contents
<1> QED
  BY <1>1, <1>2 DEF MDSize

\* The loop adds up what it has seen.
LEMMA LoopTallies ==
  ASSUME IInv, NEW q, NEW start \in Nat, NEW g, Loops(g, Len(KeySeq), q, start)
  PROVE  \A i \in 0 .. Len(KeySeq) : Tallied(g[i], i, q, start)
<1> DEFINE N == Len(KeySeq)
           Bad == {i \in 0 .. N : ~Tallied(g[i], i, q, start)}
<1>0. N \in Nat
  BY Paths
<1>1. SUFFICES ASSUME Bad # {} PROVE FALSE
  OBVIOUS
<1>2. PICK i \in Bad : \A j \in Bad : i <= j
  <2>1. Bad \subseteq Nat
    BY <1>0
  <2> HIDE DEF Bad
  <2> QED
    BY <1>1, <2>1, LeastNumber
<1>3. i \in 0 .. N /\ ~Tallied(g[i], i, q, start)
  BY <1>2
<1> HIDE DEF N
<1>4. g[i] = IF i = 0 THEN Content("dir", 0, start)
             ELSE IF KeySeq[i] \in Children(q) THEN Add(g[i - 1], kv[MDKey(KeySeq[i])])
             ELSE g[i - 1]
  BY <1>3 DEF Loops, N
<1>5. CASE i = 0
  <2>1. Seen(i, q) = {}
    BY <1>5 DEF Seen
  <2>2. SumFunctionOnSet(MDSize, {}) = 0
    BY SumUnfold, FS_EmptySet
  <2>3. g[i] = Content("dir", 0, start)
    BY <1>4, <1>5
  <2> QED
    BY <1>3, <2>1, <2>2, <2>3 DEF Tallied, Content
<1>6. CASE i # 0
  <2> DEFINE k == KeySeq[i]
             r == g[i - 1]
             m == kv[MDKey(k)]
  <2>0. i \in 1 .. N /\ i - 1 \in 0 .. N /\ i - 1 \in Nat /\ ~(i <= i - 1)
    BY <1>0, <1>3, <1>6
  <2>1. Tallied(r, i - 1, q, start)
    BY <1>2, <2>0 DEF N
  <2>2. k \in Key
    BY <2>0, Paths DEF N
  <2>3. k \in Counted(q) <=> k \in Children(q) /\ unmarshalMDv3(m)
    BY <2>2, Kinds DEF Counted, Children, unmarshalMDv3
  <2>4. /\ \A j \in 1 .. i : j = i \/ j \in 1 .. i - 1
        /\ \A j \in 1 .. i - 1 : j \in 1 .. i
        /\ i \in 1 .. i
    BY <2>0
  <2>5. CASE k \in Counted(q)
    <3>1. Seen(i, q) = Seen(i - 1, q) \cup {k}
      BY <2>4, <2>5 DEF Seen
    <3>2. k \notin Seen(i - 1, q)
      <4>1. ASSUME NEW j \in 1 .. i - 1, k = KeySeq[j] PROVE FALSE
        <5>1. j \in 1 .. N /\ j # i
          BY <1>0, <2>0
        <5> QED
          BY <2>0, <4>1, <5>1, Paths DEF N
      <4> QED
        BY <4>1 DEF Seen
    <3>3. Seen(i, q) \in SUBSET Key /\ IsFiniteSet(Seen(i, q))
      <4>1. Seen(i, q) \in SUBSET Key
        BY DEF Seen, Counted
      <4> QED
        BY <4>1, Paths, FS_Subset
    <3>4. SumFunctionOnSet(MDSize, Seen(i, q)) = MDSize[k] + SumFunctionOnSet(MDSize, Seen(i - 1, q))
      <4>1. Seen(i, q) \ {k} = Seen(i - 1, q) /\ k \in Seen(i, q)
        BY <3>1, <3>2
      <4>2. SumFunctionOnSet(MDSize, Seen(i, q))
              = MDSize[k] + SumFunctionOnSet(MDSize, Seen(i, q) \ {k})
        BY <3>3, <4>1, MDType, SumRemove
      <4> QED
        BY <4>1, <4>2
    <3>5. g[i] = [r EXCEPT !.size = @ + m.size, !.time = IF m.time > @ THEN m.time ELSE @]
      BY <1>4, <1>6, <2>3, <2>5 DEF Add
    <3>6. m.size \in Nat /\ m.time \in Nat /\ MDSize[k] = m.size
      BY <2>2, <2>3, <2>5, MDType DEF MDSize, unmarshalMDv3
    <3>7. r \in [kind: {"dir"}, size: Nat, time: Nat]
      BY <2>1 DEF Tallied
    <3> HIDE DEF m, r, k
    <3>8. /\ g[i] \in [kind: {"dir"}, size: Nat, time: Nat]
          /\ g[i].size = r.size + m.size
          /\ g[i].time = IF m.time > r.time THEN m.time ELSE r.time
      <4> DEFINE t == IF m.time > r.time THEN m.time ELSE r.time
      <4>1. r.size + m.size \in Nat /\ t \in Nat
        BY <3>6, <3>7
      <4>2. g[i] = [r EXCEPT !.size = r.size + m.size, !.time = t]
        BY <3>5, <3>7
      <4> HIDE DEF t
      <4>3. g[i] = [kind |-> "dir", size |-> r.size + m.size, time |-> t]
        BY <3>7, <4>2
      <4> QED
        BY <4>1, <4>3 DEF t
    <3>9. g[i].size = SumFunctionOnSet(MDSize, Seen(i, q))
      BY <2>1, <3>4, <3>6, <3>7, <3>8 DEF Tallied
    <3>10. start <= g[i].time
      BY <2>1, <3>6, <3>7, <3>8 DEF Tallied
    <3>11. \A x \in Seen(i, q) : kv[MDKey(x)].time <= g[i].time
      <4>1. \A x \in Seen(i - 1, q) : kv[MDKey(x)].time \in Nat /\ kv[MDKey(x)].time <= r.time
        BY <2>1, MDType DEF Tallied, Seen, Counted
      <4> QED
        BY <3>1, <3>6, <3>7, <3>8, <4>1 DEF m
    <3>12. g[i].time = start \/ \E x \in Seen(i, q) : g[i].time = kv[MDKey(x)].time
      BY <2>1, <3>1, <3>8 DEF Tallied, m
    <3> QED
      BY <1>3, <3>8, <3>9, <3>10, <3>11, <3>12 DEF Tallied
  <2>6. CASE k \notin Counted(q)
    <3>1. Seen(i, q) = Seen(i - 1, q)
      BY <2>4, <2>6 DEF Seen
    <3>2. g[i] = r
      BY <1>4, <1>6, <2>3, <2>6 DEF Add
    <3> QED
      BY <1>3, <2>1, <3>1, <3>2 DEF Tallied
  <2> QED
    BY <2>5, <2>6
<1> QED
  BY <1>5, <1>6

\* The loop's result: the sum of the sizes and the latest of the times.
LEMMA AggregateTallies ==
  ASSUME IInv, NEW q, NEW start \in Nat
  PROVE  LET r == Aggregate(q, start)
         IN  /\ r \in [kind: {"dir"}, size: Nat, time: Nat]
             /\ r.size = SumFunctionOnSet(MDSize, Counted(q))
             /\ start <= r.time /\ \A k \in Counted(q) : kv[MDKey(k)].time <= r.time
             /\ r.time = start \/ \E k \in Counted(q) : r.time = kv[MDKey(k)].time
<1> DEFINE N == Len(KeySeq)
           g == CHOOSE h : Loops(h, N, q, start)
<1>1. N \in Nat
  BY Paths
<1>2. Loops(g, N, q, start)
  BY <1>1, LoopExists, Zenon
<1>3. Aggregate(q, start) = g[N]
  BY AggregateLoops, Zenon
<1> HIDE DEF g
<1>4. Tallied(g[N], N, q, start)
  BY <1>1, <1>2, LoopTallies
<1>5. Seen(N, q) = Counted(q)
  BY Paths DEF Seen, Counted
<1> QED
  BY <1>3, <1>4, <1>5 DEF Tallied

\* What is found at a path itself is no directory.
LEMMA DirectKind == \A m : Direct(m).kind \in {"file", "error"}
BY DEF Direct, Content, Error

\* Both queries find a directory where and only where there is something below
\* the path and nothing at it.
LEMMA DirectoryAnswers ==
  ASSUME IInv, NEW q, NEW now \in Nat \ {0}
  PROVE  /\ IsFile(q) =>
              Metadata(q, now).kind \in {"file", "error"} /\ getMD(q, now).kind \in {"file", "error"}
         /\ ~IsFile(q) /\ Children(q) = {} =>
              Metadata(q, now) = NotExist /\ getMD(q, now) = NotExist
         /\ ~IsFile(q) /\ Children(q) # {} =>
              /\ Metadata(q, now).kind = "dir" /\ getMD(q, now) = Aggregate(q, now)
              /\ Metadata(q, now).size = Aggregate(q, ZeroTime).size
              /\ Metadata(q, now).time =
                   IF Aggregate(q, ZeroTime).time = ZeroTime THEN now ELSE Aggregate(q, ZeroTime).time
<1> DEFINE r == Aggregate(q, ZeroTime)
<1>1. r \in [kind: {"dir"}, size: Nat, time: Nat]
  BY AggregateTallies DEF ZeroTime
<1>2. IsFile(q) => Metadata(q, now) = Direct(kv[MDKey(q)]) /\ getMD(q, now) = Direct(kv[MDKey(q)])
  BY DEF Metadata, getMD
<1>3. ~IsFile(q) /\ Children(q) = {} => Metadata(q, now) = NotExist /\ getMD(q, now) = NotExist
  BY DEF Metadata, getMD
<1>4. ~IsFile(q) /\ Children(q) # {} =>
        /\ Metadata(q, now) = IF r.time = ZeroTime THEN [r EXCEPT !.time = now] ELSE r
        /\ getMD(q, now) = Aggregate(q, now)
  BY DEF Metadata, getMD
<1> HIDE DEF r
<1>5. ASSUME NEW x, x = IF r.time = ZeroTime THEN [r EXCEPT !.time = now] ELSE r
      PROVE  /\ x.kind = "dir" /\ x.size = r.size
             /\ x.time = IF r.time = ZeroTime THEN now ELSE r.time
  BY <1>1, <1>5
<1> QED
  BY <1>2, <1>3, <1>4, <1>5, DirectKind DEF r

\* Directories are as large as the files in them: the loop counts each file once,
\* whatever else is found on the way, in both functions.
THEOREM SizesAlwaysAddUp == Spec => []SizesAddUp
<1>1. ASSUME IInv, NEW q \in Query, Metadata(q, 1).kind = "dir"
      PROVE  /\ Metadata(q, 1).size = SumFunctionOnSet(MDSize, Counted(q))
             /\ getMD(q, 1).kind = "dir" /\ getMD(q, 1).size = Metadata(q, 1).size
  <2>1. ~IsFile(q) /\ Children(q) # {}
    BY <1>1, DirectoryAnswers DEF NotExist, Content
  <2>2. /\ Metadata(q, 1).size = Aggregate(q, ZeroTime).size
        /\ getMD(q, 1) = Aggregate(q, 1)
    BY <1>1, <2>1, DirectoryAnswers
  <2>3. /\ Aggregate(q, ZeroTime).size = SumFunctionOnSet(MDSize, Counted(q))
        /\ Aggregate(q, 1).size = SumFunctionOnSet(MDSize, Counted(q))
        /\ Aggregate(q, 1).kind = "dir"
    BY <1>1, AggregateTallies DEF ZeroTime
  <2> QED
    BY <2>2, <2>3
<1>2. IInv => SizesAddUp
  BY <1>1 DEF SizesAddUp
<1> QED
  BY InvInit, InvStep, <1>2, PTL DEF Spec

\* A directory is as old as the latest file in it, whatever the order of the keys
\* and whatever the reader's clock shows.
THEOREM ModifiedIsAlwaysLatest == Spec => []ModifiedIsLatest
<1>1. ASSUME IInv, NEW q \in Query, NEW now \in 1 .. MaxTime,
             Metadata(q, now).kind = "dir", Counted(q) # {}
      PROVE  Metadata(q, now).time = Max({kv[MDKey(k)].time : k \in Counted(q)})
  <2> DEFINE t == Aggregate(q, ZeroTime).time
             times == {kv[MDKey(k)].time : k \in Counted(q)}
  <2>1. now \in Nat \ {0}
    BY BoundsAssumption
  <2>2. ~IsFile(q) /\ Children(q) # {}
    BY <1>1, <2>1, DirectoryAnswers DEF NotExist, Content
  <2>3. Metadata(q, now).time = IF t = ZeroTime THEN now ELSE t
    BY <1>1, <2>1, <2>2, DirectoryAnswers
  <2>4. /\ t \in Nat
        /\ \A k \in Counted(q) : kv[MDKey(k)].time <= t
        /\ t = 0 \/ \E k \in Counted(q) : t = kv[MDKey(k)].time
    BY <1>1, AggregateTallies DEF ZeroTime
  <2>5. \A k \in Counted(q) : kv[MDKey(k)].time \in Nat \ {0}
    BY <1>1, MDType DEF Counted
  <2> HIDE DEF t
  <2>6. t \in times /\ \A u \in times : u \in Nat /\ u <= t
    BY <1>1, <2>4, <2>5
  <2>7. t # 0
    BY <1>1, <2>4, <2>5
  <2> HIDE DEF times
  <2>8. t = Max(times)
    <3>1. \A x, y \in times : (\A u \in times : x >= u) /\ (\A u \in times : y >= u) => x = y
      BY <2>6
    <3>2. \A u \in times : t >= u
      BY <2>4, <2>6
    <3> QED
      BY <2>6, <3>1, <3>2 DEF Max
  <2> QED
    BY <2>3, <2>7, <2>8 DEF times, ZeroTime
<1>2. IInv => ModifiedIsLatest
  BY <1>1 DEF ModifiedIsLatest
<1> QED
  BY InvInit, InvStep, <1>2, PTL DEF Spec

\* List and Stat agree on what there is: what is listed is found, and what is found
\* is a file or has one below it, names of metadata aside.
THEOREM StatAlwaysMatchesList == Spec => []StatMatchesList
<1>1. ASSUME IInv, NEW q \in Query
      PROVE  LET found == Metadata(q, 1).kind # "notexist"
             IN /\ (\E p \in List(q, TRUE) \cap Files : IsPrefix(q, p) /\ Clear(p)) => found
                /\ found => \E k \in Key : IsPrefix(q, k) /\ (k \in Files \/ ~Clear(k))
  <2>1. (Metadata(q, 1).kind # "notexist") <=> IsFile(q) \/ Children(q) # {}
    BY <1>1, DirectoryAnswers DEF NotExist, Content
  <2>2. ASSUME NEW p \in Files, IsPrefix(q, p), Clear(p)
        PROVE  IsFile(q) \/ Children(q) # {}
    <3>1. p \in Key /\ kv[MDKey(p)] # Nothing
      BY <1>1, <2>2 DEF Files, IInv, KeySpacesApart
    <3> QED
      BY <2>2, <3>1 DEF IsFile, Children, IsStrictPrefix
  <2>3. \A k \in Key : kv[MDKey(k)] # Nothing => k \in Files \/ ~Clear(k)
    BY <1>1 DEF IInv, KeySpacesApart
  <2>4. IsFile(q) => \E k \in Key : IsPrefix(q, k) /\ (k \in Files \/ ~Clear(k))
    <3>1. IsFile(q) => q \in Key /\ kv[MDKey(q)] # Nothing /\ IsPrefix(q, q)
      BY Names DEF IsFile, IsPrefix
    <3> QED
      BY <2>3, <3>1
  <2>5. Children(q) # {} => \E k \in Key : IsPrefix(q, k) /\ (k \in Files \/ ~Clear(k))
    BY <2>3 DEF Children, IsStrictPrefix
  <2> QED
    BY <2>1, <2>2, <2>4, <2>5
<1>2. IInv => StatMatchesList
  BY <1>1 DEF StatMatchesList
<1> QED
  BY InvInit, InvStep, <1>2, PTL DEF Spec

\* Unless KeyPrefix is "/", or a neighbour's name reads like one of metadata, the
\* comment of List is right: no listing names metadata.
THEOREM MetadataIsSkipped ==
  ~RootPrefix /\ (\A k \in Key : MDKey(k) \notin Neighbour) => (Spec => []SkipsMetadata)
<1> SUFFICES ASSUME ~RootPrefix, \A k \in Key : MDKey(k) \notin Neighbour
             PROVE  Spec => []SkipsMetadata
  OBVIOUS
<1>1. ASSUME IInv, NEW q \in Query, NEW r \in BOOLEAN, NEW k \in Key, MDKey(k) \in List(q, r)
      PROVE  FALSE
  <2>1. PICK y \in Kvs(q) : ~HasMD(y) /\ MDKey(k) = y.path
    BY <1>1 DEF List
  <2>2. CASE \E x \in others : y = [path |-> x, empty |-> FALSE, slash |-> FALSE]
    BY <1>1, <2>1, <2>2 DEF IInv, TypeOK
  <2>3. CASE \E x \in Stored : y = [path |-> x, empty |-> kv[x] = Value(0), slash |-> ~RootPrefix]
    <3> PICK x \in Stored : y = [path |-> x, empty |-> kv[x] = Value(0), slash |-> ~RootPrefix]
      BY <2>3
    <3>1. y.slash
      OBVIOUS
    <3>2. 1 \in 1 .. Len(y.path) - 1 /\ y.path[1] = "md"
      BY <2>1, Names
    <3> QED
      BY <2>1, <3>1, <3>2 DEF HasMD
  <2> QED
    BY <2>2, <2>3 DEF Kvs
<1>2. IInv => SkipsMetadata
  BY <1>1 DEF SkipsMetadata
<1> QED
  BY InvInit, InvStep, <1>2, PTL DEF Spec

\* With KeyPrefix "/" it is wrong: the metadata of every stored file whose
\* directories are not called md shows when the whole storage is listed.
THEOREM RootListsMetadata ==
  ASSUME RootPrefix, NEW k \in Key, kv[MDKey(k)] # Nothing, kv[MDKey(k)] # Value(0),
         \A i \in 1 .. Len(k) - 1 : k[i] # "md"
  PROVE  MDKey(k) \in List(<<>>, TRUE)
<1> DEFINE y == [path |-> MDKey(k), empty |-> kv[MDKey(k)] = Value(0), slash |-> ~RootPrefix]
<1>1. y \in Kvs(<<>>)
  <2>1. MDKey(k) \in Stored /\ HasPrefix(MDKey(k), <<>>)
    BY DEF Stored, HasPrefix
  <2> QED
    BY <2>1 DEF Kvs
<1>2. ~HasMD(y)
  <2> SUFFICES ASSUME NEW i \in 1 .. Len(MDKey(k)) - 1, MDKey(k)[i] = "md", i > 1
               PROVE  FALSE
    BY DEF HasMD
  <2>1. k \in Seq(STRING)
    BY Paths
  <2>2. Len(MDKey(k)) = Len(k) + 1 /\ Len(k) \in Nat
    BY Names
  <2>3. i - 1 \in 1 .. Len(k) - 1
    BY <2>2
  <2>4. MDKey(k)[i] = k[i - 1]
    BY <2>1, <2>2, <2>3 DEF MDKey
  <2> QED
    BY <2>3, <2>4
<1>3. Passes(y, <<>>, TRUE)
  BY DEF Passes, FilterRemoveDirectories
<1>4. y.path = MDKey(k)
  OBVIOUS
<1> HIDE DEF y
<1>5. y \in {x \in Kvs(<<>>) : ~HasMD(x) /\ Passes(x, <<>>, TRUE)}
  BY <1>1, <1>2, <1>3
<1> QED
  BY <1>4, <1>5 DEF List

\* Keys of another storage whose KeyPrefix begins with this one show only in a
\* recursive listing of everything.
THEOREM OnlyWholeListingsLeak ==
  Neighbour \cap Stored = {} =>
    (Spec => [](\A q \in Query : \A r \in BOOLEAN :
                  q # <<>> \/ ~r => List(q, r) \cap others = {}))
<1> SUFFICES ASSUME Neighbour \cap Stored = {}
             PROVE  Spec => [](\A q \in Query : \A r \in BOOLEAN :
                                 q # <<>> \/ ~r => List(q, r) \cap others = {})
  OBVIOUS
<1>1. ASSUME IInv, NEW q \in Query, NEW r \in BOOLEAN, q # <<>> \/ ~r,
             NEW p \in List(q, r), p \in others
      PROVE  FALSE
  <2>1. PICK y \in Kvs(q) : Passes(y, q, r) /\ p = y.path
    BY <1>1 DEF List
  <2>2. p \notin Stored
    BY <1>1 DEF IInv, TypeOK
  <2>3. q = <<>> /\ ~y.slash
    BY <1>1, <2>1, <2>2 DEF Kvs
  <2> QED
    BY <1>1, <2>1, <2>3 DEF Passes, FilterExactPrefix
<1>2. IInv => \A q \in Query : \A r \in BOOLEAN :
                q # <<>> \/ ~r => List(q, r) \cap others = {}
  BY <1>1
<1> QED
  BY InvInit, InvStep, <1>2, PTL DEF Spec

===============================================================================

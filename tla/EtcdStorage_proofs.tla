-------------------------- MODULE EtcdStorage_proofs --------------------------
(***************************************************************************)
(* Proofs about EtcdStorage: values and metadata agree, Load raises false  *)
(* alarms only when it is overtaken by a write, and the operations         *)
(* implement AtomicStorage, for any clients, paths, values and digests     *)
(* (collisions included).                                                  *)
(***************************************************************************)
EXTENDS EtcdStorage, FiniteSums

-----------------------------------------------------------------------------
(* The inductive invariant *)

ReplySet == [kind: Kind, val: Value \cup {None}, size: Nat]

\* The local variables of a call, by where it is.
Shape(o) ==
  /\ o.pc \in {"storemd", "storetxn"} =>
       o.fn = "write" /\ o.key \in Stored /\ o.val \in Value
  /\ o.pc = "deletetxn" => o.fn = "write" /\ o.key \in Stored /\ o.val = None
  /\ o.pc \in {"loadmd", "loadvalue"} => o.fn = "load" /\ o.key \in Name
  /\ o.pc = "loadvalue" => o.md \in Meta
  /\ o.pc \in {"metadata", "children"} => o.fn = "stat" /\ o.key \in Name
  /\ o.pc # "idle" => o.fn # "none"
  /\ o.pc # "return" => o.reply = NoReply
  /\ o.pc = "return" => o.reply.kind # "none"

GoodOps == op \in [Client -> Op] /\ \A c \in Client : Shape(op[c])

\* Where there is metadata: in finitely many places at any time, however many
\* names there are.
Present == {n \in Name : md[n] # None}

GoodData ==
  /\ file \in [Name -> Value \cup {None}]
  /\ md \in [Name -> Meta \cup {None}]
  /\ late \subseteq Txn
  /\ Agreement
  /\ \A n \in Name \ Stored : file[n] = None
  /\ IsFiniteSet(Present)

IInv == GoodData /\ GoodOps

\* Metadata is metadata, and there is none exactly for what is not there.
LEMMA MetaType ==
  ASSUME NEW v \in Value \cup {None}
  PROVE  /\ NewMetadata(v) \in Meta \cup {None}
         /\ (NewMetadata(v) = None) = (v = None)
         /\ v \in Value => NewMetadata(v).size = Size[v] /\ NewMetadata(v).hash = Hash[v]
BY ValueAssumption, NoneAssumption DEF NewMetadata, Meta

\* Applying a transaction keeps the data good: both keys change together.
LEMMA ApplyGood ==
  ASSUME GoodData, NEW k \in Stored, NEW v \in Value \cup {None}, Apply(k, v),
         late' \subseteq Txn
  PROVE  GoodData'
<1>1. k \in Name
  BY NameAssumption
<1>2. Present' \subseteq Present \cup {k} /\ IsFiniteSet(Present \cup {k})
  BY <1>1, FS_AddElement DEF GoodData, Apply, Present
<1>3. IsFiniteSet(Present')
  BY <1>2, FS_Subset
<1> QED
  BY <1>1, <1>3, MetaType DEF GoodData, Apply, Agreement

\* The call about to return is good.
LEMMA FinishGood ==
  ASSUME GoodOps, NEW c \in Client, op[c].pc # "idle",
         NEW r \in ReplySet, r.kind # "none", Finish(c, r)
  PROVE  GoodOps'
<1> DEFINE o == [op[c] EXCEPT !.pc = "return", !.reply = r]
<1>1. op[c] \in Op /\ Shape(op[c])
  BY DEF GoodOps
<1>2. o \in Op
  BY <1>1 DEF Op, PC, ReplySet
<1>3. o.pc = "return" /\ o.reply = r /\ o.fn = op[c].fn
  BY <1>1 DEF Op
<1>4. Shape(o)
  BY <1>1, <1>3 DEF Shape
<1>5. op' = [op EXCEPT ![c] = o]
  BY DEF Finish, GoodOps
<1> HIDE DEF o
<1> QED
  BY <1>2, <1>4, <1>5 DEF GoodOps

\* The replies without a size of their own.
LEMMA ReplyType ==
  /\ NotExist \in ReplySet /\ Error \in ReplySet /\ FailedChecksum \in ReplySet
  /\ NoReply \in ReplySet
  /\ Reply("ok", None, 0) \in ReplySet
  /\ \A v \in Value : Reply("value", v, 0) \in ReplySet
  /\ \A i \in Nat : Reply("file", None, i) \in ReplySet /\ Reply("dir", None, i) \in ReplySet
  /\ \A k, v, i : Reply(k, v, i).kind = k
  /\ NotExist.kind = "notexist" /\ Error.kind = "error" /\ FailedChecksum.kind = "checksum"
BY DEF NotExist, Error, FailedChecksum, NoReply, Reply, ReplySet, Kind

\* What is found below a path is finite, and its total size is a number.
LEMMA ChildType ==
  ASSUME GoodData, NEW n \in Name
  PROVE  TotalSize(ChildSizes(n)) \in Nat
<1> DEFINE S == {x \in Below[n] : md[x] # None}
<1>1. S \in SUBSET Name /\ S \in SUBSET Present
  BY NameAssumption DEF Present
<1>2. ChildSizes(n) \in [S -> Nat]
  BY <1>1 DEF ChildSizes, GoodData, Meta
<1>3. IsFiniteSet(S)
  BY <1>1, FS_Subset DEF GoodData
<1> HIDE DEF S
<1>4. DOMAIN ChildSizes(n) = S
  BY <1>2
<1>5. SumFunctionOnSet(ChildSizes(n), S) \in Nat
  BY <1>2, <1>3, SumType
<1> QED
  BY <1>4, <1>5 DEF TotalSize, SumFunction

\* What Load answers is a reply.
LEMMA LoadedType ==
  ASSUME NEW c, NEW v \in Value \cup {None}
  PROVE  Loaded(c, v) \in ReplySet /\ Loaded(c, v).kind # "none"
BY ReplyType DEF Loaded

\* Nothing is stored and nobody calls in the initial state.
LEMMA InvInit == Init => IInv
<1>1. Idle \in Op /\ Shape(Idle)
  BY ReplyType DEF Idle, Op, ReplySet, Shape, PC
<1>2. Init => Present = {} /\ IsFiniteSet(Present)
  BY FS_EmptySet DEF Init, Present
<1> QED
  BY <1>1, <1>2 DEF Init, IInv, GoodData, GoodOps, Agreement, NewMetadata

\* A new call is good.
LEMMA CallGood ==
  ASSUME IInv, NEW c \in Client, NEW k \in Name, NEW v \in Value \cup {None},
         \/ Call(c, "write", "storemd", k, v) /\ k \in Stored /\ v \in Value
         \/ Call(c, "write", "deletetxn", k, v) /\ k \in Stored /\ v = None
         \/ Call(c, "load", "loadmd", k, v)
         \/ Call(c, "stat", "metadata", k, v)
  PROVE  IInv'
<1>1. PICK fn \in {"write", "load", "stat"}, pc \in PC :
        /\ Call(c, fn, pc, k, v)
        /\ \/ fn = "write" /\ pc = "storemd" /\ k \in Stored /\ v \in Value
           \/ fn = "write" /\ pc = "deletetxn" /\ k \in Stored /\ v = None
           \/ fn = "load" /\ pc = "loadmd"
           \/ fn = "stat" /\ pc = "metadata"
  BY DEF PC
<1> DEFINE o == [pc |-> pc, fn |-> fn, key |-> k, val |-> v, md |-> None, reply |-> NoReply]
<1>2. o \in Op
  BY ReplyType DEF Op, ReplySet
<1>3. Shape(o)
  BY <1>1 DEF Shape
<1>4. op' = [op EXCEPT ![c] = o] /\ UNCHANGED <<file, md, late>>
  BY <1>1 DEF Call
<1> HIDE DEF o
<1> QED
  BY <1>2, <1>3, <1>4 DEF IInv, GoodOps, GoodData, Agreement, Present

\* Moving on to the next request keeps a call good.
LEMMA MoveGood ==
  ASSUME GoodOps, NEW c \in Client,
         \/ op[c].pc = "storemd" /\ op' = [op EXCEPT ![c].pc = "storetxn"]
         \/ op[c].pc = "metadata" /\ op' = [op EXCEPT ![c].pc = "children"]
         \/ /\ op[c].pc = "loadmd" /\ md[op[c].key] \in Meta
            /\ op' = [op EXCEPT ![c].pc = "loadvalue", ![c].md = md[op[c].key]]
  PROVE  GoodOps'
<1>0. op[c] \in Op /\ Shape(op[c]) /\ op \in [Client -> Op]
  BY DEF GoodOps
<1>1. ASSUME NEW o \in Op, Shape(o), op' = [op EXCEPT ![c] = o] PROVE GoodOps'
  BY <1>1 DEF GoodOps
<1>2. ASSUME NEW p \in {"storetxn", "children"}, op' = [op EXCEPT ![c].pc = p],
             op[c].pc = IF p = "storetxn" THEN "storemd" ELSE "metadata"
      PROVE  GoodOps'
  <2> DEFINE o == [op[c] EXCEPT !.pc = p]
  <2>1. op' = [op EXCEPT ![c] = o] /\ o \in Op
    BY <1>0, <1>2 DEF Op, PC, ReplySet
  <2>2. o.pc = p /\ o.fn = op[c].fn /\ o.key = op[c].key /\ o.val = op[c].val
        /\ o.reply = op[c].reply
    BY <1>0 DEF Op
  <2>3. Shape(o)
    BY <1>0, <1>2, <2>2 DEF Shape
  <2> HIDE DEF o
  <2> QED
    BY <1>1, <2>1, <2>3
<1>3. ASSUME op[c].pc = "loadmd", md[op[c].key] \in Meta,
             op' = [op EXCEPT ![c].pc = "loadvalue", ![c].md = md[op[c].key]]
      PROVE  GoodOps'
  <2> DEFINE o == [op[c] EXCEPT !.pc = "loadvalue", !.md = md[op[c].key]]
  <2>1. op' = [op EXCEPT ![c] = o] /\ o \in Op
    BY <1>0, <1>3 DEF Op, PC, ReplySet
  <2>2. /\ o.pc = "loadvalue" /\ o.fn = op[c].fn /\ o.key = op[c].key
        /\ o.md = md[op[c].key] /\ o.reply = op[c].reply
    BY <1>0 DEF Op
  <2>3. Shape(o)
    BY <1>0, <1>3, <2>2 DEF Shape
  <2> HIDE DEF o
  <2> QED
    BY <1>1, <2>1, <2>3
<1> QED
  BY <1>2, <1>3

\* Every step of every client and of etcd keeps the invariant.
LEMMA InvStep == IInv /\ [Next]_vars => IInv'
<1> SUFFICES ASSUME IInv, [Next]_vars PROVE IInv'
  OBVIOUS
<1>0. GoodData /\ GoodOps
  BY DEF IInv
<1>1. \A c \in Client : op[c] \in Op /\ Shape(op[c])
  BY <1>0 DEF GoodOps
<1>2. ASSUME UNCHANGED <<file, md, late>> PROVE GoodData'
  BY <1>0, <1>2 DEF GoodData, Agreement, Present
<1>3. ASSUME NEW c \in Client, StoreCall(c) \/ DeleteCall(c) \/ LoadCall(c) \/ MetadataCall(c)
      PROVE  IInv'
  <2>1. CASE StoreCall(c)
    BY <2>1, CallGood, NameAssumption DEF StoreCall
  <2>2. CASE DeleteCall(c)
    BY <2>2, CallGood, NameAssumption DEF DeleteCall
  <2>3. CASE LoadCall(c) \/ MetadataCall(c)
    BY <2>3, CallGood DEF LoadCall, MetadataCall
  <2> QED
    BY <1>3, <2>1, <2>2, <2>3
<1>4. ASSUME NEW c \in Client, StoreGet(c) PROVE IInv'
  BY <1>0, <1>2, <1>4, MoveGood DEF StoreGet, At, IInv
<1>5. ASSUME NEW c \in Client, StoreTxn(c) PROVE IInv'
  <2>1. op[c].key \in Stored /\ op[c].val \in Value
    BY <1>1, <1>5 DEF StoreTxn, At, Shape
  <2>2. GoodData'
    BY <1>0, <1>5, <2>1, ApplyGood DEF StoreTxn, GoodData
  <2>3. GoodOps'
    BY <1>0, <1>5, FinishGood, ReplyType DEF StoreTxn, At
  <2> QED
    BY <2>2, <2>3 DEF IInv
<1>6. ASSUME NEW c \in Client, DeleteTxn(c) PROVE IInv'
  <2>1. op[c].key \in Stored
    BY <1>1, <1>6 DEF DeleteTxn, At, Shape
  <2>2. GoodData'
    BY <1>0, <1>6, <2>1, ApplyGood DEF DeleteTxn, GoodData
  <2>3. GoodOps'
    BY <1>0, <1>6, FinishGood, ReplyType DEF DeleteTxn, At
  <2> QED
    BY <2>2, <2>3 DEF IInv
<1>7. ASSUME NEW c \in Client, LoadMD(c) PROVE IInv'
  <2>1. md[op[c].key] # None => md[op[c].key] \in Meta
    BY <1>0, <1>1, <1>7 DEF LoadMD, At, Shape, GoodData
  <2>2. GoodOps'
    <3>1. CASE md[op[c].key] = None
      BY <1>0, <1>7, <3>1, FinishGood, ReplyType DEF LoadMD, At
    <3>2. CASE md[op[c].key] # None
      BY <1>0, <1>7, <2>1, <3>2, MoveGood DEF LoadMD, At
    <3> QED
      BY <3>1, <3>2
  <2> QED
    BY <1>2, <1>7, <2>2 DEF LoadMD, IInv
<1>8. ASSUME NEW c \in Client, LoadValue(c) PROVE IInv'
  <2>1. file[op[c].key] \in Value \cup {None}
    BY <1>0, <1>1, <1>8 DEF LoadValue, At, Shape, GoodData
  <2>2. GoodOps'
    BY <1>0, <1>8, <2>1, FinishGood, LoadedType DEF LoadValue, At
  <2> QED
    BY <1>2, <1>8, <2>2 DEF LoadValue, IInv
<1>9. ASSUME NEW c \in Client, MetadataGet(c) PROVE IInv'
  <2>1. md[op[c].key] # None => md[op[c].key].size \in Nat
    BY <1>0, <1>1, <1>9 DEF MetadataGet, At, Shape, GoodData, Meta
  <2>2. GoodOps'
    <3>1. CASE md[op[c].key] # None
      <4>1. Finish(c, Reply("file", None, md[op[c].key].size)) /\ op[c].pc # "idle"
        BY <1>9, <3>1 DEF MetadataGet, At
      <4>2. Reply("file", None, md[op[c].key].size) \in ReplySet
        BY <2>1, <3>1, ReplyType
      <4>3. Reply("file", None, md[op[c].key].size).kind # "none"
        BY ReplyType
      <4> QED
        BY <1>0, <4>1, <4>2, <4>3, FinishGood
    <3>2. CASE md[op[c].key] = None
      BY <1>0, <1>9, <3>2, MoveGood DEF MetadataGet, At
    <3> QED
      BY <3>1, <3>2
  <2> QED
    BY <1>2, <1>9, <2>2 DEF MetadataGet, IInv
<1>10. ASSUME NEW c \in Client, MetadataDir(c) PROVE IInv'
  <2> DEFINE r == IF DOMAIN ChildSizes(op[c].key) = {} THEN NotExist
                  ELSE Reply("dir", None, TotalSize(ChildSizes(op[c].key)))
  <2>1. TotalSize(ChildSizes(op[c].key)) \in Nat
    BY <1>0, <1>1, <1>10, ChildType DEF MetadataDir, At, Shape
  <2>2. r \in ReplySet /\ r.kind # "none"
    BY <2>1, ReplyType
  <2>3. Finish(c, r) /\ op[c].pc # "idle"
    BY <1>10 DEF MetadataDir, At
  <2> HIDE DEF r
  <2>4. GoodOps'
    BY <1>0, <2>2, <2>3, FinishGood
  <2> QED
    BY <1>2, <1>10, <2>4 DEF MetadataDir, IInv
<1>11. ASSUME NEW c \in Client, Fails(c) PROVE IInv'
  <2>1. GoodOps'
    BY <1>0, <1>11, FinishGood, ReplyType DEF Fails, At
  <2>2. late' \subseteq Txn
    BY <1>0, <1>1, <1>11 DEF Fails, GoodData, Shape, Txn
  <2> QED
    BY <1>0, <1>11, <2>1, <2>2 DEF Fails, IInv, GoodData, Agreement, Present
<1>12. ASSUME NEW c \in Client, ReplyLost(c) PROVE IInv'
  <2>1. GoodOps'
    BY <1>0, <1>12, FinishGood, ReplyType DEF ReplyLost, At
  <2> QED
    BY <1>2, <1>12, <2>1 DEF ReplyLost, IInv
<1>13. ASSUME NEW c \in Client, Return(c) PROVE IInv'
  <2>1. Idle \in Op /\ Shape(Idle)
    BY ReplyType DEF Idle, Op, ReplySet, Shape, PC
  <2>2. GoodOps'
    BY <1>0, <1>13, <2>1 DEF Return, GoodOps
  <2> QED
    BY <1>2, <1>13, <2>2 DEF Return, IInv
<1>14. ASSUME NEW t \in late, LateTxn(t) PROVE IInv'
  <2>1. t.key \in Stored /\ t.val \in Value \cup {None} /\ late' \subseteq Txn
    BY <1>0, <1>14 DEF GoodData, Txn, LateTxn
  <2>2. GoodData'
    BY <1>0, <1>14, <2>1, ApplyGood DEF LateTxn
  <2> QED
    BY <1>0, <1>14, <2>2 DEF LateTxn, IInv, GoodOps
<1>15. CASE UNCHANGED vars
  BY <1>0, <1>2, <1>15 DEF vars, IInv, GoodOps
<1> QED
  BY <1>3, <1>4, <1>5, <1>6, <1>7, <1>8, <1>9, <1>10, <1>11, <1>12, <1>13, <1>14, <1>15 DEF Next

\* Every variable has its type; the size of a directory is a number because
\* finitely many files are in it.
THEOREM StorageTypeCorrect == Spec => []TypeOK
<1>1. IInv => TypeOK
  BY DEF IInv, GoodData, GoodOps, TypeOK
<1> QED
  BY InvInit, InvStep, <1>1, PTL DEF Spec

\* Values and metadata agree in every state, for any clients, paths and values:
\* the two keys of a file change in one transaction only.
THEOREM ValuesMatchMetadata == Spec => []Agreement
<1>1. IInv => Agreement
  BY DEF IInv, GoodData
<1> QED
  BY InvInit, InvStep, <1>1, PTL DEF Spec

\* Load never reports a checksum failure or a missing value of data at rest: the
\* metadata it has read was replaced before it read the value.
THEOREM NoAlarmAtRest == Spec => AlarmOnlyWhenStale
<1>1. ASSUME IInv, NEW c \in Client, LoadValue(c),
             op'[c].reply.kind \in {"checksum", "error"}, op[c].md = md[op[c].key]
      PROVE  FALSE
  <2>1. op[c].key \in Name /\ op[c].md \in Meta /\ op[c] \in Op
    BY <1>1 DEF IInv, GoodOps, LoadValue, At, Shape
  <2> DEFINE v == file[op[c].key]
  <2>2. v \in Value \cup {None} /\ op[c].md = NewMetadata(v)
    BY <1>1, <2>1 DEF IInv, GoodData, Agreement
  <2>3. v # None /\ op[c].md.hash = Hash[v]
    BY <2>1, <2>2, MetaType, NoneAssumption
  <2>4. Loaded(c, v) = Reply("value", v, 0)
    BY <2>3 DEF Loaded
  <2>5. op'[c].reply = Loaded(c, v)
    BY <1>1, <2>1 DEF LoadValue, Finish, IInv, GoodOps, Op
  <2> QED
    BY <1>1, <2>4, <2>5, ReplyType
<1>2. IInv => \A c \in Client :
        LoadValue(c) /\ op'[c].reply.kind \in {"checksum", "error"} => op[c].md # md[op[c].key]
  BY <1>1
<1> QED
  BY InvInit, InvStep, <1>2, PTL DEF Spec, AlarmOnlyWhenStale

\* No write transaction comes while somebody is between the two requests of Load,
\* and none outlives the call that sent it.
Undisturbed ==
  /\ late = {}
  /\ \A c, d \in Client : At(c, "loadvalue") => ~At(d, "storetxn") /\ ~At(d, "deletetxn")

\* What Load has read of the metadata is what etcd has.
ReadsCurrent == \A c \in Client : At(c, "loadvalue") => op[c].md = md[op[c].key]

\* Without disturbance what Load has read stays current.
LEMMA ReadsStayCurrent ==
  IInv /\ ReadsCurrent /\ Undisturbed /\ Undisturbed' /\ [Next]_vars => ReadsCurrent'
<1> SUFFICES ASSUME IInv, ReadsCurrent, Undisturbed, Undisturbed', [Next]_vars,
                    NEW c \in Client, At(c, "loadvalue")'
             PROVE  op'[c].md = md'[op'[c].key]
  BY DEF ReadsCurrent
<1>0. op \in [Client -> Op] /\ op[c] \in Op
  BY DEF IInv, GoodOps
<1>1. CASE LoadMD(c)
  BY <1>0, <1>1 DEF LoadMD, At, Finish, Op
<1>2. ASSUME op'[c] = op[c], md' = md PROVE op'[c].md = md'[op'[c].key]
  BY <1>2 DEF ReadsCurrent, At
<1>3. ASSUME NEW d \in Client, StoreTxn(d) \/ DeleteTxn(d) PROVE FALSE
  <2>1. At(d, "storetxn") \/ At(d, "deletetxn")
    BY <1>3 DEF StoreTxn, DeleteTxn
  <2>2. ~At(c, "loadvalue")
    BY <2>1 DEF Undisturbed
  <2>3. op'[c] = op[c] \/ op'[c].pc = "return"
    BY <1>0, <1>3 DEF StoreTxn, DeleteTxn, Finish, Op
  <2> QED
    BY <2>2, <2>3 DEF At
<1>4. ASSUME NEW t \in late, LateTxn(t) PROVE FALSE
  BY <1>4 DEF Undisturbed
<1>5. ASSUME NEW d \in Client, NEW fn, NEW pc, NEW k, NEW v,
             Call(d, fn, pc, k, v), pc # "loadvalue"
      PROVE  op'[c] = op[c] /\ md' = md
  BY <1>0, <1>5 DEF Call, At
<1>6. ASSUME NEW d \in Client,
             StoreCall(d) \/ DeleteCall(d) \/ LoadCall(d) \/ MetadataCall(d)
      PROVE  op'[c] = op[c] /\ md' = md
  BY <1>5, <1>6 DEF StoreCall, DeleteCall, LoadCall, MetadataCall
<1>7. ASSUME NEW d \in Client,
             \/ StoreGet(d) \/ (LoadMD(d) /\ d # c) \/ LoadValue(d)
             \/ MetadataGet(d) \/ MetadataDir(d)
             \/ Fails(d) \/ ReplyLost(d) \/ Return(d)
      PROVE  op'[c] = op[c] /\ md' = md
  BY <1>0, <1>7 DEF StoreGet, LoadMD, LoadValue, MetadataGet, MetadataDir, Fails, ReplyLost,
                    Return, Finish, At, Op, Idle
<1>8. CASE UNCHANGED vars
  BY <1>2, <1>8 DEF vars
<1> QED
  BY <1>1, <1>2, <1>3, <1>4, <1>6, <1>7, <1>8 DEF Next

\* The comment of FailedChecksum is right for callers who keep writers away while
\* they load: they are never told of a corruption that is none.
THEOREM ChecksumMeansCorruptionUndisturbed ==
  Spec /\ []Undisturbed => ChecksumMeansCorruption
<1>1. Init => ReadsCurrent
  BY DEF Init, ReadsCurrent, At, Idle
<1>2. IInv /\ ReadsCurrent /\
        [\A c \in Client :
           LoadValue(c) /\ op'[c].reply.kind \in {"checksum", "error"} =>
             op[c].md # md[op[c].key]]_vars
        => [\A c \in Client :
              LoadValue(c) /\ op'[c].reply.kind = "checksum" =>
                md[op[c].key] # NewMetadata(file[op[c].key])]_vars
  BY DEF ReadsCurrent, LoadValue
<1>3. Spec => []IInv
  BY InvInit, InvStep, PTL DEF Spec
<1> QED
  BY <1>1, <1>2, <1>3, ReadsStayCurrent, NoAlarmAtRest, PTL
     DEF Spec, AlarmOnlyWhenStale, ChecksumMeansCorruption

-----------------------------------------------------------------------------
(* Refinement *)

\* The replies of the two specifications are the same.
LEMMA SameReplies ==
  /\ Abstract!NoReply = NoReply /\ Abstract!NotExist = NotExist /\ Abstract!Error = Error
  /\ Abstract!Ok = Reply("ok", None, 0)
  /\ \A k, v, i : Abstract!Reply(k, v, i) = Reply(k, v, i)
  /\ NoReply.kind = "none" /\ NoReply # NotExist /\ NoReply # Error
BY DEF Abstract!NoReply, Abstract!NotExist, Abstract!Error, Abstract!Ok, Abstract!Reply,
       NoReply, NotExist, Error, Reply

\* A step of one client changes what that client asked and knows, and no other's.
LEMMA OneClient ==
  ASSUME NEW c \in Client, \A d \in Client \ {c} : op'[d] = op[d]
  PROVE  /\ asked' = [asked EXCEPT ![c] = Asked(c)']
         /\ known' = [known EXCEPT ![c] = Known(c)']
BY DEF asked, known, Asked, Known, At

\* What a call asked and knows, by where it is.
LEMMA CallView ==
  ASSUME GoodOps, NEW c \in Client
  PROVE  /\ asked[c] = Asked(c) /\ known[c] = Known(c)
         /\ (Asked(c) = Abstract!NoRequest) = At(c, "idle")
         /\ op[c].pc \in {"storemd", "storetxn", "deletetxn"} =>
              /\ Asked(c).op = "write"
              /\ Asked(c).w = [key |-> op[c].key, val |-> op[c].val]
         /\ op[c].pc \in {"loadmd", "loadvalue"} => Asked(c).op = "load"
         /\ op[c].pc \in {"metadata", "children"} => Asked(c).op = "stat"
         /\ op[c].pc \in {"loadmd", "loadvalue", "metadata", "children"} =>
              Asked(c).key = op[c].key
         /\ op[c].pc \notin {"return", "children"} => Known(c) = NoReply
         /\ At(c, "children") => Known(c) = IF Below[op[c].key] = {} THEN NotExist ELSE NoReply
         /\ At(c, "return") => /\ Known(c) # NoReply
                               /\ op[c].reply.kind # "checksum" => Known(c) = op[c].reply
<1>1. op[c] \in Op /\ Shape(op[c])
  BY DEF GoodOps
<1>2. asked[c] = Asked(c) /\ known[c] = Known(c)
  BY DEF asked, known
<1>3. (Asked(c) = Abstract!NoRequest) = At(c, "idle")
  <2>1. CASE At(c, "idle")
    BY <2>1 DEF Asked, Abstract!NoRequest
  <2>2. CASE ~At(c, "idle")
    <3>1. op[c].fn \in {"write", "load", "stat"}
      BY <1>1, <2>2 DEF At, Shape, Op
    <3>2. Asked(c).op \in {"write", "load", "stat"}
      BY <2>2, <3>1 DEF Asked
    <3>3. Abstract!NoRequest.op = "idle"
      BY DEF Abstract!NoRequest
    <3> QED
      BY <2>2, <3>2, <3>3 DEF At
  <2> QED
    BY <2>1, <2>2
<1>4. /\ op[c].pc \in {"storemd", "storetxn", "deletetxn"} =>
           /\ Asked(c).op = "write"
           /\ Asked(c).w = [key |-> op[c].key, val |-> op[c].val]
      /\ op[c].pc \in {"loadmd", "loadvalue"} => Asked(c).op = "load"
      /\ op[c].pc \in {"metadata", "children"} => Asked(c).op = "stat"
      /\ op[c].pc \in {"loadmd", "loadvalue", "metadata", "children"} =>
           Asked(c).key = op[c].key
  BY <1>1 DEF Asked, At, Shape
<1>5. op[c].pc \notin {"return", "children"} => Known(c) = NoReply
  BY <1>1, SameReplies DEF Known, At, Shape
<1>6. At(c, "children") => Known(c) = IF Below[op[c].key] = {} THEN NotExist ELSE NoReply
  BY <1>1, SameReplies DEF Known, At, Shape
<1>7. At(c, "return") => /\ Known(c) # NoReply
                         /\ op[c].reply.kind # "checksum" => Known(c) = op[c].reply
  BY <1>1, SameReplies DEF Known, At, Shape
<1> QED
  BY <1>2, <1>3, <1>4, <1>5, <1>6, <1>7

\* What Finish does to the view of a call: the question stays.
LEMMA FinishView ==
  ASSUME GoodOps, NEW c \in Client, op[c].pc # "idle", NEW r, Finish(c, r)
  PROVE  /\ asked' = asked
         /\ known' = [known EXCEPT ![c] = IF r.kind = "checksum" THEN Error ELSE r]
<1>1. op[c] \in Op /\ op \in [Client -> Op]
  BY DEF GoodOps
<1>2. /\ op'[c].pc = "return" /\ op'[c].reply = r /\ op'[c].fn = op[c].fn
      /\ op'[c].key = op[c].key /\ op'[c].val = op[c].val
      /\ \A d \in Client \ {c} : op'[d] = op[d]
  BY <1>1 DEF Finish, Op
<1>3. Asked(c)' = Asked(c) /\ asked[c] = Asked(c)
  BY <1>2 DEF Asked, At, asked
<1>4. Known(c)' = IF r.kind = "checksum" THEN Error ELSE r
  BY <1>2 DEF Known, At
<1>5. asked' = [asked EXCEPT ![c] = Asked(c)'] /\ known' = [known EXCEPT ![c] = Known(c)']
  BY <1>2, OneClient
<1>6. asked' = asked
  BY <1>3, <1>5 DEF asked
<1> QED
  BY <1>4, <1>5, <1>6

\* The initial states correspond.
LEMMA RefineInit == Init => Abstract!Init
BY SameReplies DEF Init, Abstract!Init, asked, known, Asked, Known, At, Idle, Abstract!NoRequest

\* A call that is about to fail fails in the abstract specification.
LEMMA RefineFail ==
  ASSUME GoodOps, NEW c \in Client, op[c].pc # "idle",
         NEW r \in {Error, FailedChecksum}, Finish(c, r), UNCHANGED file,
         \/ late' = late
         \/ /\ op[c].pc \in {"storetxn", "deletetxn"}
            /\ late' = late \cup {[key |-> op[c].key, val |-> op[c].val]}
  PROVE  Abstract!Fail(c)
<1>1. asked' = asked /\ known' = [known EXCEPT ![c] = Error]
  BY FinishView, ReplyType
<1>2. asked[c] # Abstract!NoRequest
  BY CallView DEF At
<1>3. op[c].pc \in {"storetxn", "deletetxn"} =>
        Abstract!Pending(c) /\ asked[c].op = "write"
          /\ asked[c].w = [key |-> op[c].key, val |-> op[c].val]
  BY <1>2, CallView, SameReplies DEF Abstract!Pending
<1> QED
  BY <1>1, <1>2, <1>3, SameReplies DEF Abstract!Fail

\* A new call is an invocation.
LEMMA RefineCall ==
  ASSUME GoodOps, NEW c \in Client, NEW fn \in {"write", "load", "stat"},
         NEW pc \in {"storemd", "deletetxn", "loadmd", "metadata"},
         NEW k \in Name, NEW v \in Value \cup {None}, fn = "write" => k \in Stored,
         Call(c, fn, pc, k, v)
  PROVE  \E r \in Abstract!Request : Abstract!Invoke(c, r)
<1> DEFINE o == [pc |-> pc, fn |-> fn, key |-> k, val |-> v, md |-> None, reply |-> NoReply]
<1>1. op' = [op EXCEPT ![c] = o] /\ At(c, "idle") /\ UNCHANGED <<file, late>>
  BY DEF Call
<1>2. op'[c] = o /\ \A d \in Client \ {c} : op'[d] = op[d]
  BY <1>1 DEF GoodOps
<1>3. Known(c)' = NoReply /\ Known(c) = NoReply /\ known[c] = Known(c)
  <2>1. Known(c) = NoReply /\ known[c] = Known(c)
    BY <1>1, CallView DEF At
  <2>2. op'[c].pc = pc /\ op'[c].reply = NoReply /\ pc # "children"
    BY <1>2
  <2>3. Known(c)' = NoReply
    BY <2>2, SameReplies DEF Known, At
  <2> QED
    BY <2>1, <2>3
<1>4. Asked(c)' \in Abstract!Request
  <2>1. CASE fn = "write"
    BY <1>2, <2>1 DEF Asked, At, Abstract!Request, Abstract!Write
  <2>2. CASE fn \in {"load", "stat"}
    BY <1>2, <2>2 DEF Asked, At, Abstract!Request
  <2> QED
    BY <2>1, <2>2
<1>5. asked[c] = Abstract!NoRequest
  BY <1>1, CallView
<1>6. known' = known
  BY <1>2, <1>3, OneClient DEF known
<1>7. asked' = [asked EXCEPT ![c] = Asked(c)']
  BY <1>2, OneClient
<1> QED
  BY <1>1, <1>4, <1>5, <1>6, <1>7 DEF Abstract!Invoke

\* A step to the next request that answers nothing is invisible.
LEMMA RefineMove ==
  ASSUME GoodOps, NEW c \in Client, \A d \in Client \ {c} : op'[d] = op[d],
         Asked(c)' = Asked(c), Known(c)' = Known(c)
  PROVE  asked' = asked /\ known' = known
BY OneClient DEF asked, known

\* The children the code counts are the ones the abstract specification counts.
LEMMA SameChildren ==
  ASSUME GoodData, NEW n \in Name
  PROVE  Abstract!Children(n) = ChildSizes(n)
<1>1. ASSUME NEW x \in Below[n]
      PROVE  (md[x] # None) = (file[x] # None) /\ (file[x] # None => md[x].size = Size[file[x]])
  <2>1. x \in Name /\ file[x] \in Value \cup {None} /\ md[x] = NewMetadata(file[x])
    BY NameAssumption DEF GoodData, Agreement
  <2> QED
    BY <2>1, MetaType
<1> QED
  BY <1>1 DEF Abstract!Children, ChildSizes

\* The answers of Load and Metadata are the abstract ones.
LEMMA RefineRead ==
  ASSUME IInv, FilesAreLeaves, NEW c \in Client, LoadMD(c) \/ LoadValue(c)
         \/ MetadataGet(c) \/ MetadataDir(c)
  PROVE  \/ Abstract!Answer(c) \/ Abstract!Fail(c) \/ UNCHANGED <<file, asked, known, late>>
<1>0. GoodData /\ GoodOps /\ op[c] \in Op /\ Shape(op[c]) /\ op \in [Client -> Op]
  BY DEF IInv, GoodOps
<1> DEFINE k == op[c].key
<1>1. /\ k \in Name /\ op[c].pc \in {"loadmd", "loadvalue", "metadata", "children"}
      /\ UNCHANGED <<file, late>>
  BY <1>0 DEF LoadMD, LoadValue, MetadataGet, MetadataDir, At, Shape
<1>2. /\ file[k] \in Value \cup {None} /\ md[k] = NewMetadata(file[k])
      /\ (md[k] = None) = (file[k] = None)
  BY <1>0, <1>1, MetaType DEF GoodData, Agreement
<1>3. asked[c].key = k /\ asked[c] # Abstract!NoRequest /\ known[c] = Known(c)
  BY <1>0, <1>1, CallView DEF At
<1>4. CASE LoadMD(c)
  <2>1. asked[c].op = "load" /\ Abstract!Pending(c)
    BY <1>0, <1>3, <1>4, CallView, SameReplies DEF LoadMD, At, Abstract!Pending
  <2>2. CASE md[k] = None
    <3>1. Finish(c, NotExist)
      BY <1>4, <2>2 DEF LoadMD
    <3>2. asked' = asked /\ known' = [known EXCEPT ![c] = NotExist]
      BY <1>0, <1>1, <3>1, FinishView, ReplyType
    <3>3. Abstract!Load(k) = NotExist
      BY <1>2, <2>2, SameReplies DEF Abstract!Load
    <3> QED
      BY <1>1, <1>3, <2>1, <3>2, <3>3 DEF Abstract!Answer
  <2>3. CASE md[k] # None
    <3>1. op' = [op EXCEPT ![c].pc = "loadvalue", ![c].md = md[op[c].key]] /\ At(c, "loadmd")
      BY <1>4, <2>3 DEF LoadMD
    <3>2. /\ op'[c].pc = "loadvalue" /\ op'[c].fn = op[c].fn /\ op'[c].key = op[c].key
          /\ op'[c].val = op[c].val /\ op'[c].reply = op[c].reply
          /\ \A d \in Client \ {c} : op'[d] = op[d]
      BY <1>0, <3>1 DEF Op
    <3>3. Asked(c)' = Asked(c) /\ Known(c)' = Known(c)
      BY <3>1, <3>2 DEF Asked, Known, At
    <3> QED
      BY <1>0, <1>1, <3>2, <3>3, RefineMove
  <2> QED
    BY <2>2, <2>3
<1>5. CASE LoadValue(c)
  <2>1. asked[c].op = "load" /\ Abstract!Pending(c) /\ Finish(c, Loaded(c, file[k]))
    BY <1>0, <1>3, <1>5, CallView, SameReplies DEF LoadValue, At, Abstract!Pending
  <2>2. CASE Loaded(c, file[k]) \in {Error, FailedChecksum}
    BY <1>0, <1>1, <2>1, <2>2, RefineFail
  <2>3. CASE Loaded(c, file[k]) \notin {Error, FailedChecksum}
    <3>1. file[k] # None /\ Loaded(c, file[k]) = Reply("value", file[k], 0)
      BY <2>3 DEF Loaded
    <3>2. Abstract!Load(k) = Loaded(c, file[k])
      BY <3>1, SameReplies DEF Abstract!Load
    <3>3. Loaded(c, file[k]).kind = "value"
      BY <3>1, ReplyType
    <3>4. asked' = asked /\ known' = [known EXCEPT ![c] = Loaded(c, file[k])]
      BY <1>0, <1>1, <2>1, <3>3, FinishView
    <3> QED
      BY <1>1, <1>3, <2>1, <3>2, <3>4 DEF Abstract!Answer
  <2> QED
    BY <2>2, <2>3
<1>6. CASE MetadataGet(c)
  <2>1. asked[c].op = "stat" /\ Abstract!Pending(c) /\ At(c, "metadata")
    BY <1>0, <1>3, <1>6, CallView, SameReplies DEF MetadataGet, At, Abstract!Pending
  <2>2. CASE md[k] # None
    <3> DEFINE r == Reply("file", None, md[k].size)
    <3>1. Finish(c, r) /\ r.kind = "file"
      BY <1>6, <2>2, ReplyType DEF MetadataGet
    <3>2. Abstract!Stat(k) = r
      BY <1>2, <2>2, SameReplies, MetaType DEF Abstract!Stat
    <3> HIDE DEF r
    <3>3. asked' = asked /\ known' = [known EXCEPT ![c] = r]
      BY <1>0, <1>1, <3>1, FinishView
    <3> QED
      BY <1>1, <1>3, <2>1, <3>2, <3>3 DEF Abstract!Answer
  <2>3. CASE md[k] = None
    <3>1. op' = [op EXCEPT ![c].pc = "children"]
      BY <1>6, <2>3 DEF MetadataGet
    <3>2. /\ op'[c].pc = "children" /\ op'[c].fn = op[c].fn /\ op'[c].key = op[c].key
          /\ op'[c].val = op[c].val /\ op'[c].reply = op[c].reply
          /\ \A d \in Client \ {c} : op'[d] = op[d]
      BY <1>0, <3>1 DEF Op
    <3>3. Asked(c)' = Asked(c) /\ Asked(c) = asked[c]
      BY <1>0, <2>1, <3>2, CallView DEF Asked, At
    <3>4. Known(c) = NoReply /\ op[c].reply = NoReply
      BY <1>0, <2>1, CallView DEF At, Shape
    <3>5. CASE Below[k] = {}
      <4>1. Known(c)' = NotExist
        BY <3>2, <3>5 DEF Known, At
      <4>2. asked' = asked /\ known' = [known EXCEPT ![c] = NotExist]
        BY <3>2, <3>3, <4>1, OneClient DEF asked
      <4>3. Abstract!Stat(k) = NotExist
        BY <1>2, <2>3, <3>5, SameReplies DEF Abstract!Stat, Abstract!Children
      <4> QED
        BY <1>1, <1>3, <2>1, <4>2, <4>3 DEF Abstract!Answer
    <3>6. CASE Below[k] # {}
      <4>1. Known(c)' = Known(c)
        BY <3>2, <3>4, <3>6, SameReplies DEF Known, At
      <4> QED
        BY <1>0, <1>1, <3>2, <3>3, <4>1, RefineMove
    <3> QED
      BY <3>5, <3>6
  <2> QED
    BY <2>2, <2>3
<1>7. CASE MetadataDir(c)
  <2> DEFINE r == IF DOMAIN ChildSizes(k) = {} THEN NotExist
                  ELSE Reply("dir", None, TotalSize(ChildSizes(k)))
  <2>1. asked[c].op = "stat" /\ At(c, "children") /\ Finish(c, r)
    BY <1>0, <1>3, <1>7, CallView DEF MetadataDir, At
  <2>2. r.kind # "checksum"
    BY ReplyType
  <2>3. CASE Below[k] = {}
    <3>1. r = NotExist /\ known[c] = NotExist
      BY <1>0, <1>3, <2>1, <2>3, CallView DEF ChildSizes
    <3> HIDE DEF r
    <3>2. asked' = asked /\ known' = [known EXCEPT ![c] = NotExist]
      BY <1>0, <1>1, <2>1, <2>2, <3>1, FinishView
    <3>3. known' = known
      BY <3>1, <3>2 DEF known
    <3> QED
      BY <1>1, <3>2, <3>3
  <2>4. CASE Below[k] # {}
    <3>1. file[k] = None
      BY <1>0, <1>1, <2>4 DEF GoodData, FilesAreLeaves
    <3>2. Abstract!Stat(k) = r
      BY <1>0, <1>1, <3>1, SameChildren, SameReplies DEF Abstract!Stat
    <3> HIDE DEF r
    <3>3. known[c] = NoReply /\ Abstract!Pending(c)
      BY <1>0, <1>3, <2>1, <2>4, CallView, SameReplies DEF Abstract!Pending
    <3>4. asked' = asked /\ known' = [known EXCEPT ![c] = r]
      BY <1>0, <1>1, <2>1, <2>2, FinishView
    <3> QED
      BY <1>1, <1>3, <2>1, <3>2, <3>3, <3>4 DEF Abstract!Answer
  <2> QED
    BY <2>3, <2>4
<1> QED
  BY <1>4, <1>5, <1>6, <1>7

\* A transaction that is applied and acknowledged is the abstract write.
LEMMA RefineWrite ==
  ASSUME IInv, NEW c \in Client, StoreTxn(c) \/ DeleteTxn(c)
  PROVE  Abstract!Answer(c)
<1>0. GoodOps /\ Shape(op[c]) /\ op[c].pc \in {"storetxn", "deletetxn"}
  BY DEF IInv, GoodOps, StoreTxn, DeleteTxn, At
<1>1. /\ file' = [file EXCEPT ![op[c].key] = op[c].val]
      /\ Finish(c, Reply("ok", None, 0)) /\ late' = late
  BY <1>0 DEF StoreTxn, DeleteTxn, Apply, At, Shape
<1>2. asked' = asked /\ known' = [known EXCEPT ![c] = Reply("ok", None, 0)]
  BY <1>0, <1>1, FinishView, ReplyType
<1>3. /\ asked[c].op = "write" /\ asked[c].w = [key |-> op[c].key, val |-> op[c].val]
      /\ Abstract!Pending(c)
  BY <1>0, CallView, SameReplies DEF Abstract!Pending, At
<1>4. asked[c].w.key = op[c].key /\ asked[c].w.val = op[c].val
  BY <1>3
<1> QED
  BY <1>1, <1>2, <1>3, <1>4, SameReplies DEF Abstract!Answer

\* Every step of the code is a step of the abstract specification or invisible.
LEMMA RefineStep ==
  IInv /\ FilesAreLeaves /\ [Next]_vars => [Abstract!Next]_(Abstract!avars)
<1> SUFFICES ASSUME IInv, FilesAreLeaves, [Next]_vars
             PROVE  Abstract!Next \/ UNCHANGED <<file, asked, known, late>>
  BY DEF Abstract!avars
<1>0. GoodData /\ GoodOps /\ \A c \in Client : op[c] \in Op /\ Shape(op[c])
  BY DEF IInv, GoodOps
<1>1. ASSUME NEW c \in Client, StoreCall(c) \/ DeleteCall(c) \/ LoadCall(c) \/ MetadataCall(c)
      PROVE  Abstract!Next
  <2>1. \E r \in Abstract!Request : Abstract!Invoke(c, r)
    <3>1. CASE StoreCall(c)
      BY <1>0, <3>1, RefineCall, NameAssumption DEF StoreCall
    <3>2. CASE DeleteCall(c)
      BY <1>0, <3>2, RefineCall, NameAssumption DEF DeleteCall
    <3>3. CASE LoadCall(c)
      BY <1>0, <3>3, RefineCall DEF LoadCall
    <3>4. CASE MetadataCall(c)
      BY <1>0, <3>4, RefineCall DEF MetadataCall
    <3> QED
      BY <1>1, <3>1, <3>2, <3>3, <3>4
  <2> QED
    BY <2>1 DEF Abstract!Next
<1>2. ASSUME NEW c \in Client, StoreGet(c)
      PROVE  UNCHANGED <<file, asked, known, late>>
  <2>1. op \in [Client -> Op] /\ op[c] \in Op
    BY <1>0 DEF GoodOps
  <2>2. /\ op[c].pc = "storemd" /\ op'[c].pc = "storetxn" /\ op'[c].fn = op[c].fn
        /\ op'[c].key = op[c].key /\ op'[c].val = op[c].val /\ op'[c].reply = op[c].reply
        /\ \A d \in Client \ {c} : op'[d] = op[d]
    BY <1>2, <2>1 DEF StoreGet, At, Op
  <2>3. Asked(c)' = Asked(c) /\ Known(c)' = Known(c)
    BY <2>2 DEF Asked, Known, At
  <2> QED
    BY <1>0, <1>2, <2>2, <2>3, RefineMove DEF StoreGet
<1>3. ASSUME NEW c \in Client, StoreTxn(c) \/ DeleteTxn(c) PROVE Abstract!Next
  BY <1>3, RefineWrite DEF Abstract!Next
<1>4. ASSUME NEW c \in Client, LoadMD(c) \/ LoadValue(c) \/ MetadataGet(c) \/ MetadataDir(c)
      PROVE  Abstract!Next \/ UNCHANGED <<file, asked, known, late>>
  BY <1>4, RefineRead DEF Abstract!Next
<1>5. ASSUME NEW c \in Client, Fails(c) \/ ReplyLost(c) PROVE Abstract!Next
  <2>1. Abstract!Fail(c)
    BY <1>0, <1>5, RefineFail DEF Fails, ReplyLost, At
  <2> QED
    BY <2>1 DEF Abstract!Next
<1>6. ASSUME NEW c \in Client, Return(c) PROVE Abstract!Next
  <2>1. op \in [Client -> Op] /\ op' = [op EXCEPT ![c] = Idle] /\ At(c, "return")
    BY <1>0, <1>6 DEF Return, GoodOps
  <2>2. op'[c] = Idle /\ \A d \in Client \ {c} : op'[d] = op[d]
    BY <2>1
  <2>3. Asked(c)' = Abstract!NoRequest /\ Known(c)' = NoReply
    BY <2>2, SameReplies DEF Asked, Known, At, Idle, Abstract!NoRequest
  <2>4. asked[c] # Abstract!NoRequest /\ known[c] # NoReply
    BY <1>0, <2>1, CallView DEF At
  <2>5. Abstract!Return(c)
    BY <1>6, <2>2, <2>3, <2>4, OneClient, SameReplies DEF Abstract!Return, Return
  <2> QED
    BY <2>5 DEF Abstract!Next
<1>7. ASSUME NEW t \in late, LateTxn(t) PROVE Abstract!Next
  <2>1. asked' = asked /\ known' = known
    BY <1>7 DEF LateTxn, asked, known, Asked, Known, At
  <2>2. Abstract!TakeEffect(t)
    BY <1>7, <2>1 DEF LateTxn, Apply, Abstract!TakeEffect
  <2> QED
    BY <2>2 DEF Abstract!Next
<1>8. CASE UNCHANGED vars
  BY <1>8 DEF vars, asked, known, Asked, Known, At
<1> QED
  BY <1>1, <1>2, <1>3, <1>4, <1>5, <1>6, <1>7, <1>8 DEF Next

\* Store, Load, Delete and Metadata implement AtomicStorage: every call takes
\* effect at one moment, or fails, for any clients, paths, values and digests,
\* provided no path is both a file and a directory.
THEOREM StorageLinearizable == FilesAreLeaves => (Spec => Linearizable)
<1> SUFFICES ASSUME FilesAreLeaves PROVE Spec => Linearizable
  OBVIOUS
<1>1. IInv /\ [Next]_vars => [Abstract!Next]_(Abstract!avars)
  BY RefineStep
<1> QED
  BY InvInit, InvStep, RefineInit, <1>1, PTL DEF Spec, Linearizable, Abstract!Spec

=============================================================================

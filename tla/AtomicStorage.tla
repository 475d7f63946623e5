---------------------------- MODULE AtomicStorage ----------------------------
(***************************************************************************)
(* What the storage promises its callers: certmagic.Storage's Store, Load, *)
(* Delete and Stat on a map from names to values.  Each call takes effect  *)
(* at one moment between its invocation and its return, or fails.  A write *)
(* that failed may still take effect later, once.                          *)
(*                                                                         *)
(* EtcdStorage, the code, is checked and proved to implement this.         *)
(***************************************************************************)
CONSTANTS
  Client, Name, Stored, Value,
  Below,          \* Below[n]: the names in the directory n
  Size,           \* Size[v]: length of a value
  TotalSize(_),   \* sum of a function's values
  None

VARIABLES store, req, reply, late

avars == <<store, req, reply, late>>

Reply(kind, v, size) == [kind |-> kind, val |-> v, size |-> size]

Ok == Reply("ok", None, 0)
NotExist == Reply("notexist", None, 0)
Error == Reply("error", None, 0)
NoReply == Reply("none", None, 0)

\* A write is the name and its new value; None deletes it.
Write == [key: Stored, val: Value \cup {None}]

Request == [op: {"write"}, w: Write] \cup [op: {"load", "stat"}, key: Name]

NoRequest == [op |-> "idle"]

Init ==
  /\ store = [n \in Name |-> None]
  /\ req = [c \in Client |-> NoRequest]
  /\ reply = [c \in Client |-> NoReply]
  /\ late = {}

\* The names below n that exist, with the lengths of their values.
Children(n) == [m \in {x \in Below[n] : store[x] # None} |-> Size[store[m]]]

Stat(n) ==
  IF store[n] # None THEN Reply("file", None, Size[store[n]])
  ELSE IF DOMAIN Children(n) = {} THEN NotExist
  ELSE Reply("dir", None, TotalSize(Children(n)))

Load(n) == IF store[n] = None THEN NotExist ELSE Reply("value", store[n], 0)

Pending(c) == req[c] # NoRequest /\ reply[c] = NoReply

Invoke(c, r) ==
  /\ req[c] = NoRequest
  /\ req' = [req EXCEPT ![c] = r]
  /\ UNCHANGED <<store, reply, late>>

Answer(c) ==
  /\ Pending(c)
  /\ \/ /\ req[c].op = "write"
        /\ store' = [store EXCEPT ![req[c].w.key] = req[c].w.val]
        /\ reply' = [reply EXCEPT ![c] = Ok]
     \/ /\ req[c].op = "load"
        /\ reply' = [reply EXCEPT ![c] = Load(req[c].key)]
        /\ UNCHANGED store
     \/ /\ req[c].op = "stat"
        /\ reply' = [reply EXCEPT ![c] = Stat(req[c].key)]
        /\ UNCHANGED store
  /\ UNCHANGED <<req, late>>

\* The call fails, before or after it took effect.
Fail(c) ==
  /\ req[c] # NoRequest
  /\ reply' = [reply EXCEPT ![c] = Error]
  /\ \/ late' = late
     \/ Pending(c) /\ req[c].op = "write" /\ late' = late \cup {req[c].w}
  /\ UNCHANGED <<store, req>>

\* A write that failed takes effect after all.
TakeEffect(w) ==
  /\ store' = [store EXCEPT ![w.key] = w.val]
  /\ late' = late \ {w}
  /\ UNCHANGED <<req, reply>>

Return(c) ==
  /\ req[c] # NoRequest /\ reply[c] # NoReply
  /\ req' = [req EXCEPT ![c] = NoRequest]
  /\ reply' = [reply EXCEPT ![c] = NoReply]
  /\ UNCHANGED <<store, late>>

Next ==
  \/ \E c \in Client :
       (\E r \in Request : Invoke(c, r)) \/ Answer(c) \/ Fail(c) \/ Return(c)
  \/ \E w \in late : TakeEffect(w)

Spec == Init /\ [][Next]_avars

=============================================================================

---------------------------- MODULE ServingProofs ----------------------------
(***************************************************************************)
(* The client, its servers and the two files they write, proved for any    *)
(* number of requests and servers, any places and any size of the log.     *)
(* Nearly all of it is an order: a request that is still to be read comes  *)
(* after the one that is served, that one after everything on file, and    *)
(* the log's files have their entries in the order of the requests, what   *)
(* was dropped before what is kept.                                        *)
(***************************************************************************)
EXTENDS Serving, FiniteSetTheorems, SequenceTheorems, TLAPS

Request == [id : Nat, kind : Kind]
Line == [ids : SUBSET Nat, clean : BOOLEAN]
Msg == [id : Nat, kind : Kind, res : {"ok", "error", "none", "exit", "torn"}]
Logs == {"record", "unlink", "rename", "append"}
Works == {"tool", "write"} \cup Logs
Serves == Works \cup {"reply"}

IsReply(m) == m.res \in {"ok", "error"}
Replies(s) == {m \in Range(s) : IsReply(m)}
Told == answered \cup Replies(out)
ToldIds == {m.id : m \in Told}

Kept == Ids(cur) \cup Ids(prev)
Logged == Kept \cup dropped \cup unlogged

Before(S, T) == \A x \in S, y \in T : x < y
StdinIds == {r.id : r \in Range(stdin)}

\* A file's lines have the requests in their order.
Rising(file) ==
    \A i \in DOMAIN file :
        /\ file[i].ids # {}
        /\ \A j \in DOMAIN file : i < j => Before(file[i].ids, file[j].ids)

\* No two replies on the pipe answer one request.
Apart(s) ==
    \A i, j \in DOMAIN s : IsReply(s[i]) /\ IsReply(s[j]) /\ s[i].id = s[j].id => i = j

Types ==
    /\ sent \in Nat /\ stdin \in Seq(Request) /\ out \in Seq(Msg) /\ answered \subseteq Msg
    /\ cur \in Seq(Line) /\ prev \in Seq(Line)
    /\ dropped \subseteq Nat /\ unlogged \subseteq Nat
    /\ res \in {"none", "ok", "error"}
    /\ spc \in Serves => req \in Request

\* What is past, what is served, and what is still to be read.
InOrder ==
    /\ \A x \in Logged \cup ToldIds \cup StdinIds : x <= sent
    /\ Before(Logged \cup ToldIds, StdinIds)
    /\ \A i, j \in DOMAIN stdin : i < j => stdin[i].id < stdin[j].id
    /\ spc \in Serves => /\ req.id <= sent
                         /\ Before({req.id}, StdinIds) /\ Before(ToldIds, {req.id})
    /\ spc \in Works => Before(Logged, {req.id})
    /\ spc = "reply" => \A x \in Logged : x <= req.id

\* The two files of the log, around a rotation.
Files ==
    /\ Rising(cur) /\ Before(Ids(prev), Ids(cur)) /\ Before(dropped, Kept)
    /\ spc = "unlink" => Len(cur) >= MaxLines
    /\ spc = "rename" => prev = <<>>
    /\ unended => cur # <<>>

\* What is told is on file, and a full log of newer entries is behind what was dropped.
OnFile ==
    /\ \A m \in Told : m.kind # "list" => m.id \in Logged
    /\ spc = "reply" /\ req.kind # "list" => req.id \in Logged
    /\ \A x \in dropped : Cardinality({k \in Kept : k > x}) >= MaxLines

\* The requests that are answered, or may be, and whose entry has not failed.
Answerable == (ToldIds \cup (IF spc \in Serves THEN {req.id} ELSE {})) \ unlogged

\* A line has one answerable request at most, and none as long as it has no end.
OneEach ==
    /\ \A file \in {cur, prev} : \A i \in DOMAIN file :
         \A x, y \in file[i].ids \cap Answerable : x = y
    /\ unended => cur[Len(cur)].ids \cap Answerable = {}
    /\ \A m, n \in answered : m.id = n.id => m = n
    /\ \A m \in answered, n \in Replies(out) : m.id # n.id
    /\ Apart(out)

ServingInv == Types /\ InOrder /\ Files /\ OnFile /\ OneEach /\ OwnReply

-----------------------------------------------------------------------------
(* Sequences *)

\* What is left of a queue was in it.
LEMMA RangeTail ==
    ASSUME NEW S, NEW s \in Seq(S), s # <<>>
    PROVE  /\ Head(s) \in Range(s) /\ Range(Tail(s)) \subseteq Range(s)
           /\ Tail(s) \in Seq(S) /\ Head(s) \in S
<1>1. /\ Len(s) \in Nat \ {0} /\ DOMAIN s = 1..Len(s) /\ Head(s) = s[1]
  BY EmptySeq, LenProperties
<1>2. /\ Head(s) \in S /\ Tail(s) \in Seq(S) /\ Len(Tail(s)) = Len(s) - 1
      /\ DOMAIN Tail(s) = 1..Len(Tail(s))
      /\ \A i \in 1..Len(Tail(s)) : Tail(s)[i] = s[i + 1]
  BY HeadTailProperties, LenProperties
<1>3. \A i \in DOMAIN Tail(s) : i + 1 \in DOMAIN s
  BY <1>1, <1>2
<1> QED
  BY <1>1, <1>2, <1>3 DEF Range

\* What is put behind a queue is in it, and nothing else is new.
LEMMA RangeAppend ==
    ASSUME NEW S, NEW s \in Seq(S), NEW e \in S
    PROVE  Append(s, e) \in Seq(S) /\ Range(Append(s, e)) = Range(s) \cup {e}
<1> DEFINE t == Append(s, e)
<1>1. /\ t \in Seq(S) /\ Len(t) = Len(s) + 1 /\ t[Len(s) + 1] = e
      /\ \A i \in 1..Len(s) : t[i] = s[i]
  BY AppendProperties
<1>2. Len(s) \in Nat /\ DOMAIN s = 1..Len(s) /\ DOMAIN t = 1..Len(t)
  BY <1>1, LenProperties
<1> HIDE DEF t
<1>3. ASSUME NEW x \in Range(t) PROVE x \in Range(s) \cup {e}
  <2>1. PICK i \in 1..(Len(s) + 1) : t[i] = x
    BY <1>1, <1>2, <1>3 DEF Range
  <2>2. i \in 1..Len(s) \/ i = Len(s) + 1
    BY <1>2
  <2> QED
    BY <1>1, <1>2, <2>1, <2>2 DEF Range
<1>4. ASSUME NEW x \in Range(s) PROVE x \in Range(t)
  <2>1. PICK i \in 1..Len(s) : s[i] = x
    BY <1>2, <1>4 DEF Range
  <2>2. i \in DOMAIN t
    BY <1>1, <1>2
  <2> QED
    BY <1>1, <2>1, <2>2 DEF Range
<1>5. e \in Range(t)
  <2>1. Len(s) + 1 \in DOMAIN t
    BY <1>1, <1>2
  <2> QED
    BY <1>1, <2>1 DEF Range
<1> QED
  BY <1>1, <1>3, <1>4, <1>5 DEF t

\* A reply leaves the pipe, and no other to its request stays.
LEMMA ApartTail ==
    ASSUME NEW s \in Seq(Msg), s # <<>>, Apart(s)
    PROVE  /\ Apart(Tail(s)) /\ Replies(Tail(s)) \subseteq Replies(s)
           /\ IsReply(Head(s)) =>
                Head(s) \in Replies(s) /\ \A m \in Replies(Tail(s)) : m.id # Head(s).id
<1>1. /\ Len(s) \in Nat \ {0} /\ DOMAIN s = 1..Len(s) /\ Head(s) = s[1]
  BY EmptySeq, LenProperties
<1>2. /\ Tail(s) \in Seq(Msg) /\ Len(Tail(s)) = Len(s) - 1
      /\ DOMAIN Tail(s) = 1..Len(Tail(s))
      /\ \A i \in 1..Len(Tail(s)) : Tail(s)[i] = s[i + 1]
  BY HeadTailProperties, LenProperties
<1>3. \A i \in DOMAIN Tail(s) : i + 1 \in DOMAIN s /\ i + 1 # 1 /\ i \in Nat
  BY <1>1, <1>2
<1>4. Apart(Tail(s))
  <2> SUFFICES ASSUME NEW i \in DOMAIN Tail(s), NEW j \in DOMAIN Tail(s),
                      IsReply(Tail(s)[i]), IsReply(Tail(s)[j]), Tail(s)[i].id = Tail(s)[j].id
               PROVE  i = j
    BY DEF Apart
  <2>1. i + 1 = j + 1
    BY <1>2, <1>3 DEF Apart
  <2> QED
    BY <1>3, <2>1
<1>5. Replies(Tail(s)) \subseteq Replies(s)
  BY RangeTail DEF Replies
<1>6. ASSUME IsReply(Head(s)), NEW m \in Replies(Tail(s)) PROVE m.id # Head(s).id
  <2>1. PICK i \in DOMAIN Tail(s) : Tail(s)[i] = m
    BY DEF Replies, Range
  <2>2. s[i + 1] = m /\ i + 1 \in DOMAIN s /\ 1 \in DOMAIN s /\ i + 1 # 1 /\ IsReply(m)
    BY <1>1, <1>2, <1>3, <2>1 DEF Replies
  <2> QED
    BY <1>1, <1>6, <2>2 DEF Apart
<1> QED
  BY <1>4, <1>5, <1>6, RangeTail DEF Replies

\* A message goes onto the pipe: a mark, or a reply to a request that has none.
LEMMA ApartAppend ==
    ASSUME NEW s \in Seq(Msg), NEW m \in Msg, Apart(s),
           IsReply(m) => \A n \in Replies(s) : n.id # m.id
    PROVE  /\ Append(s, m) \in Seq(Msg) /\ Apart(Append(s, m))
           /\ Replies(Append(s, m)) = Replies(s) \cup (IF IsReply(m) THEN {m} ELSE {})
<1> DEFINE t == Append(s, m)
<1>1. /\ t \in Seq(Msg) /\ Len(t) = Len(s) + 1 /\ t[Len(s) + 1] = m
      /\ \A i \in 1..Len(s) : t[i] = s[i]
  BY AppendProperties
<1>2. Len(s) \in Nat /\ DOMAIN s = 1..Len(s) /\ DOMAIN t = 1..Len(t)
  BY <1>1, LenProperties
<1>3. Range(t) = Range(s) \cup {m}
  BY RangeAppend
<1> HIDE DEF t
<1>4. Replies(t) = Replies(s) \cup (IF IsReply(m) THEN {m} ELSE {})
  BY <1>3 DEF Replies
<1>5. ASSUME NEW i \in DOMAIN s, IsReply(m), IsReply(s[i]) PROVE s[i].id # m.id
  <2>1. s[i] \in Replies(s)
    BY <1>5 DEF Replies, Range
  <2> QED
    BY <1>5, <2>1
<1>6. \A i \in DOMAIN t : i \in DOMAIN s \/ i = Len(s) + 1
  BY <1>1, <1>2
<1>7. Apart(t)
  <2> SUFFICES ASSUME NEW i \in DOMAIN t, NEW j \in DOMAIN t,
                      IsReply(t[i]), IsReply(t[j]), t[i].id = t[j].id
               PROVE  i = j
    BY DEF Apart
  <2>1. CASE i \in DOMAIN s /\ j \in DOMAIN s
    BY <1>1, <1>2, <2>1 DEF Apart
  <2>2. CASE i \in DOMAIN s /\ j = Len(s) + 1
    BY <1>1, <1>2, <1>5, <2>2
  <2>3. CASE i = Len(s) + 1 /\ j \in DOMAIN s
    BY <1>1, <1>2, <1>5, <2>3
  <2> QED
    BY <1>6, <2>1, <2>2, <2>3
<1> QED
  BY <1>1, <1>4, <1>7 DEF t

\* A file whose lines have the requests in order has as many requests as lines.
LEMMA RisingCount ==
    ASSUME NEW file \in Seq(Line), Rising(file), NEW n \in Nat, \A x \in Ids(file) : x <= n
    PROVE  IsFiniteSet(Ids(file)) /\ Cardinality(Ids(file)) >= Len(file)
<1> DEFINE D == 1..Len(file)
           f == [i \in D |-> CHOOSE x : x \in file[i].ids]
<1>1. Len(file) \in Nat /\ DOMAIN file = D
  BY LenProperties
<1>2. \A i \in D : file[i].ids \subseteq Nat /\ f[i] \in file[i].ids
  <2> TAKE i \in D
  <2>1. file[i] \in Line /\ file[i].ids # {}
    BY <1>1, ElementOfSeq DEF Rising
  <2> QED
    BY <2>1 DEF Line
<1>3. Ids(file) \in SUBSET Nat /\ \A i \in D : f[i] \in Ids(file)
  BY <1>1, <1>2 DEF Ids
<1>4. IsFiniteSet(Ids(file))
  BY <1>3, FS_BoundedSetOfNaturals
<1>5. f \in Injection(D, Ids(file))
  <2>1. f \in [D -> Ids(file)]
    BY <1>3
  <2>2. \A i, j \in D : i < j => f[i] < f[j]
    BY <1>1, <1>2 DEF Rising, Before
  <2>3. \A i, j \in D : f[i] = f[j] => i = j
    <3> SUFFICES ASSUME NEW i \in D, NEW j \in D, f[i] = f[j] PROVE i = j
      OBVIOUS
    <3> HIDE DEF f
    <3>1. f[i] \in Nat /\ f[j] \in Nat /\ i \in Nat /\ j \in Nat
      BY <1>2
    <3> QED
      BY <2>2, <3>1
  <2> HIDE DEF f
  <2> QED
    BY <2>1, <2>3 DEF Injection, IsInjective
<1>6. Cardinality(D) = Len(file)
  BY <1>1, FS_Interval
<1>7. Cardinality(D) <= Cardinality(Ids(file)) /\ Cardinality(Ids(file)) \in Nat
  BY <1>4, <1>5, FS_Injection, FS_CardinalityType
<1> QED
  BY <1>1, <1>4, <1>6, <1>7

\* Everything that is counted is a number.
LEMMA Numbers ==
    ASSUME Types
    PROVE  /\ Kept \subseteq Nat /\ Logged \subseteq Nat /\ ToldIds \subseteq Nat
           /\ StdinIds \subseteq Nat /\ Told \subseteq Msg
<1>1. \A i \in DOMAIN cur : cur[i] \in Line
  BY ElementOfSeq, LenProperties DEF Types
<1>2. \A i \in DOMAIN prev : prev[i] \in Line
  BY ElementOfSeq, LenProperties DEF Types
<1>3. Kept \subseteq Nat
  BY <1>1, <1>2 DEF Kept, Ids, Line
<1>4. Range(out) \subseteq Msg /\ Range(stdin) \subseteq Request
  BY RangeOfSeq DEF Types
<1>5. Told \subseteq Msg
  BY <1>4 DEF Told, Replies, Types
<1>6. ToldIds \subseteq Nat
  BY <1>5 DEF ToldIds, Msg
<1>7. StdinIds \subseteq Nat
  BY <1>4 DEF StdinIds, Request
<1> QED
  BY <1>3, <1>5, <1>6, <1>7 DEF Logged, Types

\* What is kept is finite, and what is newer than an entry only grows with it.
LEMMA CountGrows ==
    ASSUME NEW S, NEW T \in SUBSET Nat, S \subseteq T, NEW n \in Nat, \A x \in T : x <= n,
           NEW x, NEW k \in Nat, Cardinality({y \in S : y > x}) >= k
    PROVE  Cardinality({y \in T : y > x}) >= k
<1> DEFINE A == {y \in S : y > x}
           B == {y \in T : y > x}
<1>1. B \in SUBSET Nat /\ \A y \in B : y <= n
  OBVIOUS
<1>2. IsFiniteSet(B)
  BY <1>1, FS_BoundedSetOfNaturals
<1>3. A \in SUBSET B
  OBVIOUS
<1>4. /\ Cardinality(A) <= Cardinality(B)
      /\ Cardinality(A) \in Nat /\ Cardinality(B) \in Nat
  BY <1>2, <1>3, FS_Subset, FS_CardinalityType
<1> QED
  BY <1>4

-----------------------------------------------------------------------------
(* Steps that leave the log alone *)

\* Nothing is told, asked or served that was not before.
LEMMA Quieter ==
    ASSUME ServingInv, Types', OwnReply', UNCHANGED <<sent, log>>,
           Told' \subseteq Told, StdinIds' \subseteq StdinIds,
           (\A i, j \in DOMAIN stdin : i < j => stdin[i].id < stdin[j].id)',
           spc' \in {"off", "read"} \/ UNCHANGED <<spc, req>>,
           (\A m, n \in answered : m.id = n.id => m = n)',
           (\A m \in answered, n \in Replies(out) : m.id # n.id)',
           Apart(out)'
    PROVE  ServingInv'
<1>1. UNCHANGED <<cur, prev, unended, unlogged, dropped>> /\ Kept' = Kept /\ Logged' = Logged
  BY DEF log, Kept, Logged
<1>2. ToldIds' \subseteq ToldIds
  BY DEF ToldIds
<1>3. spc' \in Serves => spc' = spc /\ req' = req
  BY DEF Serves, Works, Logs
<1>4. Answerable' \subseteq Answerable
  BY <1>1, <1>2, <1>3 DEF Answerable
<1>5. InOrder'
  <2>1. spc' \in Works \/ spc' = "reply" => spc' = spc /\ req' = req
    BY <1>3 DEF Serves
  <2> QED
    BY <1>1, <1>2, <1>3, <2>1 DEF InOrder, Before, ServingInv
<1>6. Files'
  <2>1. spc' \in {"unlink", "rename"} => spc' = spc
    BY <1>3 DEF Serves, Works, Logs
  <2> QED
    BY <1>1, <2>1 DEF ServingInv, Files
<1>7. OnFile'
  <2>1. spc' = "reply" => spc' = spc /\ req' = req
    BY <1>3 DEF Serves
  <2> QED
    BY <1>1, <2>1 DEF ServingInv, OnFile
<1>8. OneEach'
  BY <1>1, <1>4 DEF ServingInv, OneEach
<1> QED
  BY <1>5, <1>6, <1>7, <1>8 DEF ServingInv

LEMMA ClientStep ==
    ASSUME ServingInv, Timeout \/ Close \/ Closed \/ UNCHANGED vars
    PROVE  ServingInv'
<1>1. /\ UNCHANGED <<sent, log, answered, stdin, out, spc, req, res>>
      /\ got' = got \/ got' = Mark("timeout")
  BY DEF Timeout, Close, Closed, vars, client, pipes, server
<1>2. OwnReply'
  BY <1>1 DEF ServingInv, OwnReply, Mark
<1>3. Types'
  BY <1>1 DEF ServingInv, Types, log
<1>4. Told' = Told /\ StdinIds' = StdinIds
  BY <1>1 DEF Told, StdinIds
<1> QED
  BY <1>1, <1>2, <1>3, <1>4, Quieter DEF ServingInv, InOrder, OneEach

\* A new server has new pipes.
LEMMA OpenStep == ASSUME ServingInv, Open PROVE ServingInv'
<1>1. /\ UNCHANGED <<sent, got, answered, log>> /\ stdin' = <<>> /\ out' = <<>>
      /\ spc' = "read" /\ res' = "none"
  BY DEF Open
<1>2. DOMAIN out' = {} /\ DOMAIN stdin' = {} /\ stdin' \in Seq(Request) /\ out' \in Seq(Msg)
  BY <1>1
<1>3. Replies(out)' = {} /\ StdinIds' = {}
  BY <1>2 DEF Replies, StdinIds, Range
<1>4. Types'
  BY <1>1, <1>2 DEF ServingInv, Types, log, Serves, Works, Logs
<1>5. OwnReply'
  BY <1>1 DEF ServingInv, OwnReply
<1>6. Apart(out)'
  BY <1>2 DEF Apart
<1> QED
  BY <1>1, <1>2, <1>3, <1>4, <1>5, <1>6, Quieter DEF ServingInv, OneEach, Told

\* A line is taken off the pipe: the reply that is waited for, a mark, or a stale reply
\* (mcp_client.py:57-82).
LEMMA TakeStep == ASSUME ServingInv, Take PROVE ServingInv'
<1> DEFINE m == Head(out)
<1>1. /\ out # <<>> /\ out' = Tail(out) /\ out \in Seq(Msg) /\ Apart(out)
      /\ UNCHANGED <<sent, stdin, spc, req, res, log>>
  BY DEF Take, server, ServingInv, Types, OneEach
<1>2. /\ m \in Msg /\ Tail(out) \in Seq(Msg) /\ Apart(out') /\ Replies(out') \subseteq Replies(out)
      /\ IsReply(m) => m \in Replies(out) /\ \A n \in Replies(out') : n.id # m.id
  BY <1>1, RangeTail, ApartTail
<1>3. \/ /\ m.res \in {"exit", "torn"} \/ IsMine(m)
         /\ got' = m
         /\ answered' = IF m.res \in {"ok", "error"} THEN answered \cup {m} ELSE answered
      \/ UNCHANGED <<got, answered>>
  BY DEF Take
<1> HIDE DEF m
<1>4. OwnReply'
  BY <1>1, <1>3 DEF ServingInv, OwnReply, IsMine
<1>5. answered' \subseteq answered \cup {m} /\ (m \in answered' => IsReply(m) \/ m \in answered)
  BY <1>3 DEF IsReply
<1>6. Types'
  BY <1>1, <1>2, <1>5 DEF ServingInv, Types, log
<1>7. /\ \A n \in answered : IsReply(m) => n.id # m.id
  BY <1>2 DEF ServingInv, OneEach
<1>8. /\ \A n, o \in answered' : n.id = o.id => n = o
      /\ \A n \in answered', o \in Replies(out') : n.id # o.id
  BY <1>2, <1>5, <1>7 DEF ServingInv, OneEach
<1>9. Told' \subseteq Told /\ StdinIds' = StdinIds
  BY <1>1, <1>2, <1>5 DEF Told, StdinIds
<1>10. (\A i, j \in DOMAIN stdin : i < j => stdin[i].id < stdin[j].id)'
  BY <1>1 DEF ServingInv, InOrder
<1>11. Apart(out)' /\ (\A x \in answered, y \in Replies(out) : x.id # y.id)'
  BY <1>2, <1>8
<1> QED
  BY <1>1, <1>4, <1>6, <1>8, <1>9, <1>10, <1>11, Quieter

\* A request gets an id above all before it.
LEMMA RpcStep == ASSUME ServingInv, NEW kind \in Kind, Rpc(kind) PROVE ServingInv'
<1>1. /\ sent' = sent + 1 /\ sent \in Nat /\ UNCHANGED <<answered, out, spc, req, res, log>>
      /\ got'.res \in {"none", "broken"}
  BY DEF Rpc, server, Mark, ServingInv, Types
<1> DEFINE r == [id |-> sent + 1, kind |-> kind]
<1>2. r \in Request /\ stdin \in Seq(Request)
  BY <1>1 DEF Request, ServingInv, Types
<1>3. stdin' = stdin \/ stdin' = Append(stdin, r)
  BY DEF Rpc
<1>4. /\ UNCHANGED <<cur, prev, unended, unlogged, dropped>> /\ Kept' = Kept /\ Logged' = Logged
      /\ Told' = Told /\ ToldIds' = ToldIds /\ Answerable' = Answerable
  BY <1>1 DEF log, Kept, Logged, Told, ToldIds, Answerable
<1>5. /\ stdin' \in Seq(Request) /\ StdinIds' \subseteq StdinIds \cup {sent + 1}
  <2>1. CASE stdin' = stdin
    BY <1>2, <2>1 DEF StdinIds
  <2>2. CASE stdin' = Append(stdin, r)
    <3>1. stdin' \in Seq(Request) /\ Range(stdin') = Range(stdin) \cup {r} /\ r.id = sent + 1
      BY <1>2, <2>2, RangeAppend
    <3> HIDE DEF r
    <3> QED
      BY <3>1 DEF StdinIds
  <2> QED
    BY <1>3, <2>1, <2>2
<1>6. \A i, j \in DOMAIN stdin' : i < j => stdin'[i].id < stdin'[j].id
  <2>1. CASE stdin' = stdin
    BY <2>1 DEF ServingInv, InOrder
  <2>2. CASE stdin' = Append(stdin, r)
    <3>1. /\ Len(stdin) \in Nat /\ DOMAIN stdin = 1..Len(stdin)
          /\ DOMAIN stdin' = 1..(Len(stdin) + 1)
          /\ stdin'[Len(stdin) + 1] = r /\ r.id = sent + 1
          /\ \A i \in 1..Len(stdin) : stdin'[i] = stdin[i]
      BY <1>2, <2>2, AppendProperties, LenProperties
    <3> HIDE DEF r
    <3>2. \A i \in 1..Len(stdin) : stdin[i].id \in StdinIds /\ stdin[i].id \in Nat
      BY <3>1, Numbers DEF StdinIds, Range, ServingInv
    <3>3. \A i \in 1..Len(stdin) : stdin[i].id < sent + 1
      BY <1>1, <3>2 DEF ServingInv, InOrder
    <3> TAKE i, j \in DOMAIN stdin'
    <3>4. CASE j \in 1..Len(stdin) /\ i \in 1..Len(stdin)
      BY <3>1, <3>4 DEF ServingInv, InOrder
    <3>5. CASE j = Len(stdin) + 1 /\ i \in 1..Len(stdin)
      BY <3>1, <3>3, <3>5
    <3>6. i < j => i \in 1..Len(stdin) /\ (j \in 1..Len(stdin) \/ j = Len(stdin) + 1)
      BY <3>1
    <3> QED
      BY <3>4, <3>5, <3>6
  <2> QED
    BY <1>3, <2>1, <2>2
<1>7. Types'
  BY <1>1, <1>4, <1>5 DEF ServingInv, Types
<1>8. OwnReply'
  BY <1>1 DEF OwnReply
<1>9. InOrder'
  <2>1. Logged \subseteq Nat /\ ToldIds \subseteq Nat /\ StdinIds \subseteq Nat
    BY Numbers DEF ServingInv
  <2>2. /\ \A x \in Logged' \cup ToldIds' \cup StdinIds' : x <= sent'
        /\ Before(Logged' \cup ToldIds', StdinIds')
    BY <1>1, <1>4, <1>5, <2>1 DEF ServingInv, InOrder, Before
  <2>3. spc' \in Serves => req'.id <= sent' /\ Before({req'.id}, StdinIds') /\ Before(ToldIds', {req'.id})
    <3>1. spc \in Serves => req.id \in Nat
      BY DEF ServingInv, Types, Request
    <3> QED
      BY <1>1, <1>4, <1>5, <3>1 DEF ServingInv, InOrder, Before
  <2>4. /\ spc' \in Works => Before(Logged', {req'.id})
        /\ spc' = "reply" => \A x \in Logged' : x <= req'.id
    BY <1>1, <1>4 DEF ServingInv, InOrder
  <2> QED
    BY <1>6, <2>2, <2>3, <2>4 DEF InOrder
<1>10. Files' /\ OnFile'
  BY <1>1, <1>4 DEF ServingInv, Files, OnFile
<1>11. OneEach'
  BY <1>1, <1>4 DEF ServingInv, OneEach
<1> QED
  BY <1>7, <1>8, <1>9, <1>10, <1>11 DEF ServingInv

-----------------------------------------------------------------------------
(* Steps of the server *)

\* The loop's readline: the request is above all that was read before it.
LEMMA ReadLineStep == ASSUME ServingInv, ReadLine PROVE ServingInv'
<1>1. /\ UNCHANGED <<sent, got, answered, log>> /\ spc = "read"
      /\ stdin \in Seq(Request) /\ out \in Seq(Msg) /\ Apart(out)
  BY DEF ReadLine, client, ServingInv, Types, OneEach
<1>2. CASE /\ stdin = <<>> /\ spc' = "off" /\ out' = Append(out, Mark("exit"))
           /\ UNCHANGED <<stdin, req, res>>
  <2>1. Mark("exit") \in Msg /\ ~IsReply(Mark("exit"))
    BY DEF Mark, Msg, IsReply, Kind
  <2>2. out' \in Seq(Msg) /\ Apart(out') /\ Replies(out') = Replies(out)
    BY <1>1, <1>2, <2>1, ApartAppend
  <2>3. Types'
    BY <1>1, <1>2, <2>2 DEF ServingInv, Types, log, Serves, Works, Logs
  <2>4. OwnReply' /\ Told' = Told /\ StdinIds' = StdinIds
    BY <1>1, <1>2, <2>2 DEF ServingInv, OwnReply, Told, StdinIds
  <2> QED
    BY <1>1, <1>2, <2>2, <2>3, <2>4, Quieter DEF ServingInv, InOrder, OneEach
<1>3. CASE /\ stdin # <<>> /\ stdin' = Tail(stdin) /\ req' = Head(stdin)
           /\ spc' \in {"reply", "tool"} /\ (spc' = "reply" => req'.kind = "list")
           /\ res' \in {"ok", "none"} /\ out' = out
  <2>1. /\ Len(stdin) \in Nat \ {0} /\ DOMAIN stdin = 1..Len(stdin) /\ Head(stdin) = stdin[1]
        /\ stdin' \in Seq(Request) /\ DOMAIN stdin' = 1..(Len(stdin) - 1)
        /\ \A i \in 1..(Len(stdin) - 1) : stdin'[i] = stdin[i + 1]
    BY <1>1, <1>3, EmptySeq, LenProperties, HeadTailProperties
  <2>2. /\ req' \in Range(stdin) /\ Range(stdin') \subseteq Range(stdin) /\ req' \in Request
    BY <1>1, <1>3, RangeTail
  <2>3. req'.id \in StdinIds /\ StdinIds' \subseteq StdinIds /\ req'.id \in Nat
    BY <2>2 DEF StdinIds, Request
  <2>4. \A i, j \in DOMAIN stdin' : i < j => stdin'[i].id < stdin'[j].id
    <3> TAKE i, j \in DOMAIN stdin'
    <3>1. i + 1 \in DOMAIN stdin /\ j + 1 \in DOMAIN stdin /\ (i < j => i + 1 < j + 1)
      BY <2>1
    <3> QED
      BY <2>1, <3>1 DEF ServingInv, InOrder
  <2>5. Before({req'.id}, StdinIds')
    <3>1. \A r \in Range(stdin') : req'.id < r.id
      <4> TAKE r \in Range(stdin')
      <4>1. PICK i \in 1..(Len(stdin) - 1) : stdin'[i] = r
        BY <2>1 DEF Range
      <4>2. i + 1 \in DOMAIN stdin /\ 1 \in DOMAIN stdin /\ 1 < i + 1 /\ stdin[i + 1] = r
        BY <2>1, <4>1
      <4> QED
        BY <1>3, <2>1, <4>2 DEF ServingInv, InOrder
    <3> QED
      BY <3>1 DEF Before, StdinIds
  <2>6. /\ UNCHANGED <<cur, prev, unended, unlogged, dropped>> /\ Kept' = Kept
        /\ Logged' = Logged /\ Told' = Told /\ ToldIds' = ToldIds
    BY <1>1, <1>3 DEF log, Kept, Logged, Told, ToldIds
  <2>7. Before(Logged \cup ToldIds, {req'.id}) /\ req'.id <= sent
    BY <2>3 DEF ServingInv, InOrder, Before
  <2>8. Types'
    BY <1>1, <1>3, <2>1, <2>2, <2>6 DEF ServingInv, Types
  <2>9. InOrder'
    <3>1. Before(Logged, {req'.id}) /\ Before(ToldIds, {req'.id})
      BY <2>7 DEF Before
    <3>2. \A x \in Logged : x <= req'.id
      BY <2>3, <2>7, Numbers DEF ServingInv, Before
    <3>3. /\ \A x \in Logged' \cup ToldIds' \cup StdinIds' : x <= sent'
          /\ Before(Logged' \cup ToldIds', StdinIds')
      BY <1>1, <2>3, <2>6 DEF ServingInv, InOrder, Before
    <3> QED
      BY <1>1, <1>3, <2>4, <2>5, <2>6, <2>7, <3>1, <3>2, <3>3 DEF InOrder
  <2>10. Files'
    BY <1>3, <2>6 DEF ServingInv, Files
  <2>11. OnFile'
    BY <1>3, <2>6 DEF ServingInv, OnFile
  <2>12. OneEach'
    <3>1. Answerable = ToldIds \ unlogged /\ Answerable' \subseteq Answerable \cup {req'.id}
      BY <1>1, <2>6 DEF Answerable, Serves, Works, Logs
    <3>2. \A file \in {cur, prev} : \A i \in DOMAIN file : file[i].ids \subseteq Logged
      BY DEF Logged, Kept, Ids
    <3>3. req'.id \notin Logged
      BY <2>3, <2>7 DEF Before
    <3>4. \A file \in {cur, prev} : \A i \in DOMAIN file :
            file[i].ids \cap Answerable' \subseteq file[i].ids \cap Answerable
      BY <3>1, <3>2, <3>3
    <3>5. unended => Len(cur) \in DOMAIN cur
      <4>1. unended => cur # <<>> /\ cur \in Seq(Line)
        BY DEF ServingInv, Files, Types
      <4> QED
        BY <4>1, EmptySeq, LenProperties
    <3>6. unended' => cur'[Len(cur')].ids \cap Answerable' = {}
      BY <2>6, <3>4, <3>5 DEF ServingInv, OneEach
    <3> QED
      BY <1>1, <1>3, <2>6, <3>4, <3>6 DEF ServingInv, OneEach
  <2>13. OwnReply'
    BY <1>1 DEF ServingInv, OwnReply
  <2> QED
    BY <2>8, <2>9, <2>10, <2>11, <2>12, <2>13 DEF ServingInv
<1> QED
  BY <1>2, <1>3 DEF ReadLine

\* A step of the tool, or of the wrapper up to the log.
LEMMA Moves ==
    ASSUME ServingInv, UNCHANGED <<client, pipes, req, log>>,
           spc \in Works, spc' \in {"write", "record", "append", "unlink"},
           spc' = "unlink" => Len(cur) >= MaxLines, res' \in {"none", "ok", "error"}
    PROVE  ServingInv'
<1>1. UNCHANGED <<sent, got, answered, stdin, out, req, cur, prev, unended, unlogged, dropped>>
  BY DEF client, pipes, log
<1>2. /\ Kept' = Kept /\ Logged' = Logged /\ Told' = Told /\ ToldIds' = ToldIds
      /\ StdinIds' = StdinIds
  BY <1>1 DEF Kept, Logged, Told, ToldIds, StdinIds
<1>3. spc \in Serves /\ spc' \in Serves /\ spc' \in Works /\ spc' # "reply"
  BY DEF Serves, Works, Logs
<1>4. Answerable' = Answerable
  BY <1>1, <1>2, <1>3 DEF Answerable
<1>5. Types' /\ OwnReply'
  BY <1>1, <1>3 DEF ServingInv, Types, OwnReply
<1>6. InOrder'
  BY <1>1, <1>2, <1>3 DEF ServingInv, InOrder
<1>7. Files'
  BY <1>1, <1>2 DEF ServingInv, Files
<1>8. OnFile'
  BY <1>1, <1>2, <1>3 DEF ServingInv, OnFile
<1>9. OneEach'
  BY <1>1, <1>4 DEF ServingInv, OneEach
<1> QED
  BY <1>5, <1>6, <1>7, <1>8, <1>9 DEF ServingInv

LEMMA ToolStep ==
    ASSUME ServingInv, Price \/ SavePlace \/ WriteData PROVE ServingInv'
<1>1. /\ UNCHANGED <<client, pipes, req, log>> /\ spc \in {"tool", "write"}
      /\ spc' \in {"write", "record"} /\ res' \in {"none", "ok", "error"}
  BY DEF Price, SavePlace, WriteData, Wrapped, Result, ServingInv, Types
<1> QED
  BY <1>1, Moves DEF Works, Logs

\* An entry that fails before anything of it is written (calllog.py:81-92).
LEMMA UnloggedStep ==
    ASSUME ServingInv, spc \in {"record", "append"}, spc' = "reply",
           unlogged' = unlogged \cup {req.id},
           UNCHANGED <<sent, got, answered, stdin, out, req, res, cur, prev, unended, dropped>>
    PROVE  ServingInv'
<1>1. Kept' = Kept /\ ToldIds' = ToldIds /\ Told' = Told /\ StdinIds' = StdinIds
  BY DEF Kept, ToldIds, Told, StdinIds
<1>2. /\ spc \in Serves /\ spc' \in Serves /\ req \in Request /\ req.id \in Nat
      /\ spc \in Works /\ spc' \notin Works
  BY DEF Serves, Works, Logs, ServingInv, Types, Request
<1>3. Logged' = Logged \cup {req.id} /\ Answerable' \subseteq Answerable
  BY <1>1, <1>2 DEF Logged, Answerable
<1>4. Types' /\ OwnReply'
  BY <1>2 DEF ServingInv, Types, OwnReply
<1>5. InOrder'
  <2>1. \A x \in Logged : x < req.id
    BY <1>2 DEF ServingInv, InOrder, Before
  <2>2. \A x \in Logged' : x <= req.id
    BY <1>2, <1>3, <2>1, Numbers DEF ServingInv
  <2>3. /\ \A x \in Logged' \cup ToldIds' \cup StdinIds' : x <= sent'
        /\ Before(Logged' \cup ToldIds', StdinIds')
    BY <1>1, <1>2, <1>3 DEF ServingInv, InOrder, Before
  <2> QED
    BY <1>1, <1>2, <2>2, <2>3 DEF ServingInv, InOrder
<1>6. Files'
  BY <1>1 DEF ServingInv, Files
<1>7. OnFile'
  BY <1>1, <1>3 DEF ServingInv, OnFile
<1>8. OneEach'
  BY <1>1, <1>3 DEF ServingInv, OneEach
<1> QED
  BY <1>4, <1>5, <1>6, <1>7, <1>8 DEF ServingInv

\* The wrapper's record begins, or fails as a whole (calllog.py:81-92, tools.py:48-62).
LEMMA RecordStep == ASSUME ServingInv, Record PROVE ServingInv'
<1>1. /\ UNCHANGED <<sent, got, answered, stdin, out, req, res, cur, prev, unended, dropped>>
      /\ spc = "record"
  BY DEF Record, client, pipes
<1>2. CASE spc' \in {"append", "unlink"} /\ (spc' = "unlink" => Len(cur) >= MaxLines)
           /\ UNCHANGED unlogged
  <2>1. UNCHANGED <<client, pipes, req, log>>
    BY <1>2 DEF Record, log
  <2> QED
    BY <1>1, <1>2, <2>1, Moves DEF Works, Logs, ServingInv, Types
<1>3. CASE spc' = "reply" /\ unlogged' = unlogged \cup {req.id}
  BY <1>1, <1>3, UnloggedStep
<1> QED
  BY <1>2, <1>3, <1>1, LenProperties, ServingAssumption DEF Record, ServingInv, Types

\* The first half of a rotation: the log is full, and all of it is newer than what goes
\* (calllog.py:95-110).
LEMMA UnlinkStep == ASSUME ServingInv, Unlink PROVE ServingInv'
<1>1. /\ UNCHANGED <<sent, got, answered, stdin, out, req, res, cur, unended, unlogged>>
      /\ spc = "unlink" /\ spc' = "rename" /\ prev' = <<>> /\ dropped' = dropped \cup Ids(prev)
  BY DEF Unlink, client, pipes
<1>2. Ids(prev') = {} /\ prev' \in Seq(Line) /\ DOMAIN prev' = {}
  BY <1>1 DEF Ids
<1>3. /\ Kept' = Ids(cur) /\ Logged' = Logged /\ Told' = Told /\ ToldIds' = ToldIds
      /\ StdinIds' = StdinIds
  BY <1>1, <1>2 DEF Kept, Logged, Told, ToldIds, StdinIds, Ids
<1>4. /\ Kept \subseteq Nat /\ spc \in Serves /\ spc' \in Serves
      /\ spc \in Works /\ spc' \in Works
  BY <1>1, Numbers DEF ServingInv, Serves, Works, Logs
<1>5. Answerable' = Answerable
  BY <1>1, <1>3, <1>4 DEF Answerable
<1>6. Types' /\ OwnReply'
  BY <1>1, <1>2, <1>4 DEF ServingInv, Types, OwnReply, Kept
<1>7. InOrder'
  BY <1>1, <1>3, <1>4 DEF ServingInv, InOrder
<1>8. Before(dropped', Ids(cur))
  BY <1>1 DEF ServingInv, Files, Before, Kept
<1>9. Files'
  BY <1>1, <1>2, <1>3, <1>8 DEF ServingInv, Files, Before
<1>10. OnFile'
  <2>1. \A x \in Ids(cur) : x <= sent
    BY DEF ServingInv, InOrder, Logged, Kept
  <2>2. Cardinality(Ids(cur)) >= Len(cur) /\ Cardinality(Ids(cur)) \in Nat
    BY <2>1, RisingCount, FS_CardinalityType DEF ServingInv, Files, Types
  <2>3. Len(cur) >= MaxLines /\ Len(cur) \in Nat /\ MaxLines \in Nat
    BY <1>1, LenProperties, ServingAssumption DEF ServingInv, Files, Types
  <2>4. \A x \in dropped' : {k \in Kept' : k > x} = Ids(cur)
    BY <1>3, <1>4, <1>6, <1>8 DEF Before, Kept, Types
  <2>5. Cardinality(Ids(cur)) >= MaxLines
    BY <2>2, <2>3
  <2>6. \A x \in dropped' : Cardinality({k \in Kept' : k > x}) >= MaxLines
    <3> TAKE x \in dropped'
    <3>1. {k \in Kept' : k > x} = Ids(cur)
      BY <2>4
    <3> QED
      BY <2>5, <3>1
  <2> QED
    BY <1>1, <1>3, <2>6 DEF ServingInv, OnFile
<1>11. OneEach'
  BY <1>1, <1>2, <1>5 DEF ServingInv, OneEach
<1> QED
  BY <1>6, <1>7, <1>9, <1>10, <1>11 DEF ServingInv

\* The second half, which may fail.
LEMMA RenameStep == ASSUME ServingInv, Rename PROVE ServingInv'
<1>1. /\ UNCHANGED <<sent, got, answered, stdin, out, req, res, unlogged, dropped>>
      /\ spc = "rename" /\ spc' = "append" /\ prev = <<>> /\ Ids(<<>>) = {}
      /\ <<>> \in Seq(Line)
      /\ \/ prev' = cur /\ cur' = <<>> /\ unended' = FALSE
         \/ UNCHANGED <<cur, prev, unended>>
  BY DEF Rename, client, pipes, ServingInv, Files, Ids
<1>2. /\ Kept' = Kept /\ Logged' = Logged /\ Told' = Told /\ ToldIds' = ToldIds
      /\ StdinIds' = StdinIds
  BY <1>1 DEF Kept, Logged, Told, ToldIds, StdinIds, Ids
<1>3. /\ spc \in Serves /\ spc' \in Serves /\ spc \in Works /\ spc' \in Works
  BY <1>1 DEF Serves, Works, Logs
<1>4. Answerable' = Answerable
  BY <1>1, <1>2, <1>3 DEF Answerable
<1>5. Types' /\ OwnReply'
  BY <1>1, <1>3 DEF ServingInv, Types, OwnReply
<1>6. InOrder'
  BY <1>1, <1>2, <1>3 DEF ServingInv, InOrder
<1>7. Files'
  <2>1. Rising(<<>>) /\ Before(Ids(cur), {})
    BY DEF Rising, Before
  <2>2. Rising(cur') /\ Before(Ids(prev'), Ids(cur')) /\ (unended' => cur' # <<>>)
    BY <1>1, <2>1 DEF ServingInv, Files
  <2> QED
    BY <1>1, <1>2, <2>2 DEF ServingInv, Files
<1>8. OnFile'
  BY <1>1, <1>2 DEF ServingInv, OnFile
<1>9. OneEach'
  BY <1>1, <1>4 DEF ServingInv, OneEach
<1> QED
  BY <1>5, <1>6, <1>7, <1>8, <1>9 DEF ServingInv

\* The file with an entry more: it still has the requests in order, and the line that gets
\* the entry answers for no other.
LEMMA AppendedFile ==
    ASSUME ServingInv, spc = "append", NEW clean \in BOOLEAN
    PROVE  LET file == Appended(clean) IN
           /\ file \in Seq(Line) /\ file # <<>>
           /\ Ids(file) = Ids(cur) \cup {req.id} /\ Rising(file)
           /\ \A i \in DOMAIN file : \A x, y \in file[i].ids \cap Answerable : x = y
           /\ file[Len(file)].ids \cap (ToldIds \ unlogged) = {}
<1> DEFINE file == Appended(clean)
           n == Len(cur)
<1>1. /\ req.id \in Nat /\ n \in Nat /\ DOMAIN cur = 1..n /\ cur \in Seq(Line)
      /\ \A i \in 1..n : cur[i] \in Line
  BY LenProperties, ElementOfSeq DEF ServingInv, Types, Serves, Works, Logs, Request
<1>2. /\ \A i \in 1..n : cur[i].ids \subseteq Ids(cur) /\ cur[i].ids \in SUBSET Nat
      /\ \A x \in Ids(cur) \cup ToldIds : x < req.id
  BY <1>1 DEF ServingInv, InOrder, Before, Serves, Works, Logs, Logged, Kept, Ids, Line
<1>3. req.id \notin ToldIds /\ Answerable = (ToldIds \ unlogged) \cup {req.id}
  <2>1. req.id \notin Logged
    BY <1>1 DEF ServingInv, InOrder, Before, Works, Logs
  <2> QED
    BY <1>1, <1>2, <2>1 DEF Answerable, Logged, Serves, Works, Logs
<1>4. /\ \A i \in 1..n : cur[i].ids # {} /\ \A j \in 1..n : i < j => Before(cur[i].ids, cur[j].ids)
      /\ \A i \in 1..n : \A x, y \in cur[i].ids \cap Answerable : x = y
  BY <1>1 DEF ServingInv, Files, OneEach, Rising
<1>5. CASE ~unended
  <2> DEFINE e == [ids |-> {req.id}, clean |-> clean]
  <2>1. file = Append(cur, e) /\ e \in Line
    BY <1>1, <1>5 DEF Appended, Line
  <2>2. /\ file \in Seq(Line) /\ Len(file) = n + 1 /\ file[n + 1].ids = {req.id}
        /\ \A i \in 1..n : file[i] = cur[i]
        /\ DOMAIN file = 1..(n + 1)
    BY <1>1, <2>1, AppendProperties, LenProperties
  <2> HIDE DEF file, e
  <2>3. \A i \in DOMAIN file : i \in 1..n \/ i = n + 1
    BY <1>1, <2>2
  <2>4. Ids(file) = Ids(cur) \cup {req.id}
    <3>1. \A i \in 1..n : i \in DOMAIN file
      BY <1>1, <2>2
    <3>2. n + 1 \in DOMAIN file
      BY <1>1, <2>2
    <3> HIDE DEF n
    <3> QED
      BY <1>1, <2>2, <2>3, <3>1, <3>2 DEF Ids
  <2>5. Rising(file)
    <3> SUFFICES ASSUME NEW i \in DOMAIN file
                 PROVE  /\ file[i].ids # {}
                        /\ \A j \in DOMAIN file : i < j => Before(file[i].ids, file[j].ids)
      BY DEF Rising
    <3>1. CASE i \in 1..n
      <4>1. Before(file[i].ids, {req.id})
        BY <1>2, <2>2, <3>1 DEF Before
      <4> QED
        BY <1>4, <2>2, <2>3, <3>1, <4>1
    <3>2. CASE i = n + 1
      <4>1. \A j \in DOMAIN file : ~(i < j)
        BY <1>1, <2>2, <3>2
      <4> QED
        BY <2>2, <3>2, <4>1
    <3> QED
      BY <2>3, <3>1, <3>2
  <2>6. \A i \in DOMAIN file : \A x, y \in file[i].ids \cap Answerable : x = y
    BY <1>4, <2>2, <2>3
  <2>7. file # <<>> /\ file[Len(file)].ids \cap (ToldIds \ unlogged) = {}
    BY <1>1, <1>3, <2>2, EmptySeq
  <2> QED
    BY <2>2, <2>4, <2>5, <2>6, <2>7 DEF file
<1>6. CASE unended
  <2>1. n \in 1..n /\ cur[n].ids \cap Answerable = {}
    BY <1>1, <1>6, EmptySeq DEF ServingInv, Files, OneEach
  <2> DEFINE e == [ids |-> cur[n].ids \cup {req.id}, clean |-> FALSE]
  <2>2. file = [cur EXCEPT ![n] = e]
    BY <1>6 DEF Appended
  <2>3. e \in Line
    BY <1>1, <1>2, <2>1 DEF Line
  <2>4. /\ file \in Seq(Line) /\ Len(file) = n /\ DOMAIN file = 1..n /\ file[n] = e
        /\ \A i \in 1..n : i # n => file[i] = cur[i]
    <3> HIDE DEF e, file
    <3>1. /\ file \in Seq(Line) /\ Len(file) = Len(cur)
          /\ \A j \in 1..Len(cur) : file[j] = IF j = n THEN e ELSE cur[j]
      BY <1>1, <2>1, <2>2, <2>3, ExceptSeq
    <3>2. DOMAIN file = 1..Len(file)
      BY <3>1, LenProperties
    <3> QED
      BY <2>1, <3>1, <3>2
  <2>5. e.ids = cur[n].ids \cup {req.id}
    OBVIOUS
  <2> HIDE DEF file, e
  <2>6. Ids(file) = Ids(cur) \cup {req.id}
    <3> HIDE DEF n
    <3> QED
      BY <1>1, <2>1, <2>4, <2>5 DEF Ids
  <2>7. Rising(file)
    <3> SUFFICES ASSUME NEW i \in 1..n
                 PROVE  /\ file[i].ids # {}
                        /\ \A j \in 1..n : i < j => Before(file[i].ids, file[j].ids)
      BY <2>4 DEF Rising
    <3>1. CASE i # n
      <4>1. Before(cur[i].ids, {req.id})
        BY <1>2, <2>4 DEF Before
      <4>2. i < n => Before(cur[i].ids, e.ids)
        BY <1>1, <1>4, <2>1, <2>5, <4>1 DEF Before
      <4> QED
        BY <1>4, <2>4, <3>1, <4>2
    <3>2. CASE i = n
      <4>1. \A j \in 1..n : ~(i < j)
        BY <1>1, <3>2
      <4> QED
        BY <2>4, <2>5, <3>2, <4>1
    <3> QED
      BY <3>1, <3>2
  <2>8. \A i \in DOMAIN file : \A x, y \in file[i].ids \cap Answerable : x = y
    BY <1>3, <1>4, <2>1, <2>4, <2>5
  <2>9. file # <<>> /\ file[Len(file)].ids \cap (ToldIds \ unlogged) = {}
    BY <1>1, <1>3, <2>1, <2>4, <2>5, EmptySeq
  <2> QED
    BY <2>4, <2>6, <2>7, <2>8, <2>9 DEF file
<1> QED
  BY <1>5, <1>6

\* The append, whole, or cut by an error or a death: only a line without its end loses
\* its request.
LEMMA AppendedStep ==
    ASSUME ServingInv, spc = "append", NEW clean \in BOOLEAN, cur' = Appended(clean),
           UNCHANGED <<sent, got, answered, stdin, req, res, prev, dropped>>,
           \/ spc' = "reply" /\ unended' = FALSE /\ unlogged' = unlogged
           \/ spc' = "reply" /\ unended' = TRUE /\ unlogged' = unlogged \cup {req.id}
           \/ spc' = "off" /\ unended' = TRUE /\ unlogged' = unlogged,
           out' \in Seq(Msg), Apart(out'), Replies(out') = Replies(out)
    PROVE  ServingInv'
<1>1. /\ cur' \in Seq(Line) /\ cur' # <<>> /\ Ids(cur') = Ids(cur) \cup {req.id}
      /\ Rising(cur') /\ cur'[Len(cur')].ids \cap (ToldIds \ unlogged) = {}
      /\ \A i \in DOMAIN cur' : \A x, y \in cur'[i].ids \cap Answerable : x = y
  BY AppendedFile
<1>2. /\ spc \in Serves /\ spc \in Works /\ spc' \notin Works
      /\ req \in Request /\ req.id \in Nat
  BY DEF Serves, Works, Logs, ServingInv, Types, Request
<1>3. /\ Kept' = Kept \cup {req.id} /\ Logged' = Logged \cup {req.id}
      /\ Told' = Told /\ ToldIds' = ToldIds /\ StdinIds' = StdinIds
  <2>1. Ids(prev') = Ids(prev)
    OBVIOUS
  <2>2. Kept' = Kept \cup {req.id}
    BY <1>1, <2>1 DEF Kept
  <2> QED
    BY <2>2 DEF Logged, Told, ToldIds, StdinIds
<1>4. Answerable' \subseteq Answerable /\ (unended' => Answerable' \subseteq ToldIds \ unlogged)
  BY <1>2, <1>3 DEF Answerable, Serves, Works, Logs
<1>5. /\ \A x \in Logged : x < req.id
      /\ Kept \subseteq Nat /\ Logged \subseteq Nat /\ sent \in Nat /\ req.id <= sent
  BY <1>2, Numbers DEF ServingInv, InOrder, Before, Types
<1>6. Types' /\ OwnReply'
  BY <1>1, <1>2 DEF ServingInv, Types, OwnReply
<1>7. InOrder'
  <2>1. /\ \A x \in Logged' \cup ToldIds' \cup StdinIds' : x <= sent'
        /\ Before(Logged' \cup ToldIds', StdinIds')
    BY <1>2, <1>3 DEF ServingInv, InOrder, Before
  <2>2. \A x \in Logged' : x <= req'.id
    BY <1>2, <1>3, <1>5
  <2> QED
    BY <1>2, <1>3, <2>1, <2>2 DEF ServingInv, InOrder
<1>8. Files'
  <2>1. Before(Ids(prev'), Ids(cur')) /\ Before(dropped', Kept')
    BY <1>1, <1>3, <1>5 DEF ServingInv, Files, Before, Logged, Kept
  <2> QED
    BY <1>1, <2>1 DEF Files
<1>9. OnFile'
  <2>1. \A x \in Kept' : x <= sent
    BY <1>3, <1>5 DEF ServingInv, InOrder, Logged
  <2>2. /\ Kept' \in SUBSET Nat /\ Kept \subseteq Kept' /\ MaxLines \in Nat
    BY <1>2, <1>3, <1>5, ServingAssumption
  <2>3. \A x \in dropped' : Cardinality({k \in Kept' : k > x}) >= MaxLines
    BY <1>5, <2>1, <2>2, CountGrows DEF ServingInv, OnFile
  <2> QED
    BY <1>3, <2>3 DEF ServingInv, OnFile
<1>10. OneEach'
  <2>1. \A i \in DOMAIN cur' : \A x, y \in cur'[i].ids \cap Answerable' : x = y
    BY <1>1, <1>4
  <2>2. \A i \in DOMAIN prev' : \A x, y \in prev'[i].ids \cap Answerable' : x = y
    BY <1>4 DEF ServingInv, OneEach
  <2>3. unended' => cur'[Len(cur')].ids \cap Answerable' = {}
    BY <1>1, <1>4
  <2> QED
    BY <2>1, <2>2, <2>3 DEF ServingInv, OneEach
<1> QED
  BY <1>6, <1>7, <1>8, <1>9, <1>10 DEF ServingInv

LEMMA AppendEntryStep == ASSUME ServingInv, AppendEntry PROVE ServingInv'
<1>1. /\ UNCHANGED <<sent, got, answered, stdin, out, req, res, prev, dropped>>
      /\ spc = "append" /\ spc' = "reply" /\ out \in Seq(Msg) /\ Apart(out)
  BY DEF AppendEntry, client, pipes, ServingInv, Types, OneEach
<1>2. CASE cur' = Appended(TRUE) /\ unended' = FALSE /\ UNCHANGED unlogged
  BY <1>1, <1>2, AppendedStep
<1>3. CASE unlogged' = unlogged \cup {req.id} /\ UNCHANGED <<cur, unended>>
  BY <1>1, <1>3, UnloggedStep
<1>4. CASE /\ unlogged' = unlogged \cup {req.id} /\ unended' = TRUE
           /\ \E clean \in BOOLEAN : cur' = Appended(clean)
  BY <1>1, <1>4, AppendedStep
<1> QED
  BY <1>2, <1>3, <1>4 DEF AppendEntry

\* A reply to a request that has none, and comes after all those that have.
LEMMA WriteReplyStep == ASSUME ServingInv, WriteReply PROVE ServingInv'
<1> DEFINE m == Reply(req, res)
<1>1. /\ UNCHANGED <<sent, got, answered, stdin, log>>
      /\ spc = "reply" /\ spc' = "read" /\ out' = Append(out, m) /\ res' = "none"
      /\ spc \in Serves /\ spc' \notin Serves /\ spc' \notin Works
  BY DEF WriteReply, client, Serves, Works, Logs
<1>2. /\ m \in Msg /\ m.id = req.id /\ m.kind = req.kind /\ req.id \in Nat
  BY <1>1 DEF Reply, Msg, ServingInv, Types, Request
<1> HIDE DEF m
<1>3. \A x \in ToldIds : x # req.id
  BY <1>1, <1>2 DEF ServingInv, InOrder, Before
<1>4. \A n \in Told : n.id # m.id
  BY <1>2, <1>3 DEF ToldIds
<1>5. /\ out' \in Seq(Msg) /\ Apart(out')
      /\ Replies(out') \subseteq Replies(out) \cup {m}
  <2>1. \A n \in Replies(out) : n.id # m.id
    BY <1>4 DEF Told
  <2> QED
    BY <1>1, <1>2, <2>1, ApartAppend DEF ServingInv, Types, OneEach
<1>6. /\ UNCHANGED <<cur, prev, unended, unlogged, dropped>> /\ Kept' = Kept
      /\ Logged' = Logged /\ StdinIds' = StdinIds
  BY <1>1 DEF log, Kept, Logged, StdinIds
<1>7. Told' \subseteq Told \cup {m} /\ ToldIds' \subseteq ToldIds \cup {req.id}
  <2>1. Told' \subseteq Told \cup {m}
    BY <1>1, <1>5 DEF Told
  <2> QED
    BY <1>2, <2>1 DEF ToldIds
<1>8. Answerable' \subseteq Answerable
  BY <1>1, <1>6, <1>7 DEF Answerable
<1>9. Types' /\ OwnReply'
  BY <1>1, <1>5, <1>6 DEF ServingInv, Types, OwnReply
<1>10. InOrder'
  <2>1. /\ \A x \in Logged' \cup ToldIds' \cup StdinIds' : x <= sent'
        /\ Before(Logged' \cup ToldIds', StdinIds')
    BY <1>1, <1>6, <1>7 DEF ServingInv, InOrder, Before
  <2> QED
    BY <1>1, <2>1 DEF ServingInv, InOrder
<1>11. Files'
  BY <1>1, <1>6 DEF ServingInv, Files
<1>12. OnFile'
  BY <1>1, <1>2, <1>6, <1>7 DEF ServingInv, OnFile
<1>13. OneEach'
  <2>1. \A n \in answered', o \in Replies(out') : n.id # o.id
    BY <1>1, <1>4, <1>5 DEF ServingInv, OneEach, Told
  <2> QED
    BY <1>1, <1>5, <1>6, <1>8, <2>1 DEF ServingInv, OneEach
<1> QED
  BY <1>9, <1>10, <1>11, <1>12, <1>13 DEF ServingInv

\* A death leaves a mark on the pipe, after half a reply or none, and may cut an append.
LEMMA DiesStep == ASSUME ServingInv, Dies PROVE ServingInv'
<1>1. /\ UNCHANGED <<sent, got, answered, stdin, req, res, prev, unlogged, dropped>>
      /\ spc' = "off" /\ out \in Seq(Msg) /\ Apart(out)
      /\ spc' \notin Serves
  BY DEF Dies, client, ServingInv, Types, OneEach, Serves, Works, Logs
<1>2. out' \in Seq(Msg) /\ Apart(out') /\ Replies(out') = Replies(out)
  <2>1. /\ Mark("exit") \in Msg /\ ~IsReply(Mark("exit"))
        /\ Mark("torn") \in Msg /\ ~IsReply(Mark("torn"))
    BY DEF Mark, Msg, IsReply, Kind
  <2> DEFINE once == Append(out, Mark("torn"))
  <2>2. CASE out' = Append(out, Mark("exit"))
    BY <1>1, <2>1, <2>2, ApartAppend
  <2>3. CASE out' = out \o <<Mark("torn"), Mark("exit")>>
    <3>1. once \in Seq(Msg) /\ Apart(once) /\ Replies(once) = Replies(out)
      BY <1>1, <2>1, ApartAppend
    <3>2. out' = Append(once, Mark("exit"))
      BY <1>1, <2>1, <2>3
    <3> HIDE DEF once
    <3> QED
      BY <2>1, <3>1, <3>2, ApartAppend
  <2> QED
    BY <2>2, <2>3 DEF Dies
<1>3. CASE UNCHANGED <<cur, unended>>
  <2>1. UNCHANGED log
    BY <1>1, <1>3 DEF log
  <2>2. Types' /\ OwnReply'
    BY <1>1, <1>2, <1>3 DEF ServingInv, Types, OwnReply
  <2>3. Told' = Told /\ StdinIds' = StdinIds
    BY <1>1, <1>2 DEF Told, StdinIds
  <2> QED
    BY <1>1, <1>2, <2>1, <2>2, <2>3, Quieter DEF ServingInv, InOrder, OneEach
<1>4. CASE spc = "append" /\ unended' = TRUE /\ \E clean \in BOOLEAN : cur' = Appended(clean)
  BY <1>1, <1>2, <1>4, AppendedStep
<1> QED
  BY <1>3, <1>4 DEF Dies

-----------------------------------------------------------------------------
(* The invariant *)

LEMMA InitInv == ASSUME Init PROVE ServingInv
<1>1. /\ DOMAIN stdin = {} /\ DOMAIN out = {} /\ DOMAIN cur = {} /\ DOMAIN prev = {}
      /\ stdin \in Seq(Request) /\ out \in Seq(Msg) /\ cur \in Seq(Line) /\ prev \in Seq(Line)
      /\ sent = 0 /\ answered = {} /\ unlogged = {} /\ dropped = {} /\ unended = FALSE
      /\ res = "none" /\ spc = "off" /\ got = Mark("none")
  BY DEF Init
<1>2. Kept = {} /\ Logged = {} /\ Told = {} /\ ToldIds = {} /\ StdinIds = {}
  BY <1>1 DEF Kept, Logged, Ids, Told, ToldIds, StdinIds, Replies, Range
<1>3. spc \notin Serves /\ spc \notin Works
  BY <1>1 DEF Serves, Works, Logs
<1>4. Types /\ OwnReply
  BY <1>1, <1>3 DEF Types, OwnReply, Mark
<1>5. InOrder
  BY <1>1, <1>2, <1>3 DEF InOrder, Before
<1>6. Files
  BY <1>1, <1>2 DEF Files, Rising, Before, Ids
<1>7. OnFile /\ OneEach
  <2>1. Replies(out) = {} /\ Apart(out)
    BY <1>1 DEF Replies, Range, Apart
  <2> QED
    BY <1>1, <1>2, <2>1 DEF OnFile, OneEach
<1> QED
  BY <1>4, <1>5, <1>6, <1>7 DEF ServingInv

LEMMA NextInv == ASSUME ServingInv, [Next]_vars PROVE ServingInv'
<1>1. CASE Timeout \/ Close \/ Closed \/ UNCHANGED vars
  BY <1>1, ClientStep
<1>2. CASE Open
  BY <1>2, OpenStep
<1>3. CASE \E kind \in Kind : Rpc(kind)
  BY <1>3, RpcStep
<1>4. CASE Take
  BY <1>4, TakeStep
<1>5. CASE ReadLine
  BY <1>5, ReadLineStep
<1>6. CASE Price \/ SavePlace \/ WriteData
  BY <1>6, ToolStep
<1>7. CASE Record
  BY <1>7, RecordStep
<1>8. CASE Unlink
  BY <1>8, UnlinkStep
<1>9. CASE Rename
  BY <1>9, RenameStep
<1>10. CASE AppendEntry
  BY <1>10, AppendEntryStep
<1>11. CASE WriteReply
  BY <1>11, WriteReplyStep
<1>12. CASE Dies
  BY <1>12, DiesStep
<1> QED
  BY <1>1, <1>2, <1>3, <1>4, <1>5, <1>6, <1>7, <1>8, <1>9, <1>10, <1>11, <1>12 DEF Next

LEMMA Invariance == Spec => []ServingInv
<1>1. Init => ServingInv
  BY InitInv
<1>2. ServingInv /\ [Next]_vars => ServingInv'
  BY NextInv
<1> QED
  BY <1>1, <1>2, PTL DEF Spec

\* An rpc never returns the reply to another request (mcp_client.py:76-80), over any
\* number of timeouts, late replies, deaths and servers.
THEOREM RepliesAreOwn == Spec => []OwnReply
<1>1. ServingInv => OwnReply
  BY DEF ServingInv
<1> QED
  BY <1>1, Invariance, PTL

\* A tool's answer is on file before it can be read; or the log could not be written, or a
\* full log of newer entries took its place (calllog.py:3-8, 95-110; tools.py:48-62).
THEOREM AnswersAreOnFile == Spec => []AnsweredIsOnFile
<1>1. ServingInv => AnsweredIsOnFile
  BY DEF ServingInv, OnFile, AnsweredIsOnFile, Told, Logged, Kept
<1> QED
  BY <1>1, Invariance, PTL

\* A line of the log that does not parse holds the whole entry of one answered call at
\* most, however often an append is cut by a death or an error (calllog.py:89-92, 119-121).
THEOREM CutsCostOneAnswer == Spec => []CutCostsOneAnswer
<1>1. ServingInv => CutCostsOneAnswer
  <2> SUFFICES ASSUME ServingInv, NEW file \in {cur, prev}, NEW i \in DOMAIN file
               PROVE  Cardinality({m \in answered : m.id \in file[i].ids \ unlogged}) <= 1
    BY DEF CutCostsOneAnswer
  <2> DEFINE A == {m \in answered : m.id \in file[i].ids \ unlogged}
  <2>1. \A m, n \in A : m = n
    <3> SUFFICES ASSUME NEW m \in A, NEW n \in A PROVE m = n
      OBVIOUS
    <3>1. m.id \in file[i].ids \cap Answerable /\ n.id \in file[i].ids \cap Answerable
      BY DEF Answerable, ToldIds, Told
    <3>2. m.id = n.id
      BY <3>1 DEF ServingInv, OneEach
    <3> QED
      BY <3>2 DEF ServingInv, OneEach
  <2>2. CASE A = {}
    BY <2>2, FS_EmptySet
  <2>3. CASE A # {}
    <3>1. PICK m \in A : A = {m}
      BY <2>1, <2>3
    <3>2. Cardinality({m}) = 1
      BY FS_Singleton
    <3> QED
      BY <3>1, <3>2
  <2> QED
    BY <2>2, <2>3
<1> QED
  BY <1>1, Invariance, PTL

-----------------------------------------------------------------------------
(* The device id *)

\* A process that has an id has the one on file, and creates one only where none is.
SameId ==
    /\ {"places", "id"} \subseteq DOMAIN data
    /\ spc = "write" /\ req.kind = "price" => data.id = None
    /\ did # None /\ data.id # None => did = data.id

LEMMA SameIdStep ==
    ASSUME SameId, [Next]_vars
    PROVE  SameId' /\ (data.id # None => data'.id = data.id)
<1>1. CASE Open \/ ReadLine \/ WriteReply \/ Dies
  <2>1. /\ data' = data /\ did' \in {did, None} /\ spc' # "write"
    BY <1>1 DEF Open, ReadLine, WriteReply, Dies, DataAfterDeath
  <2> QED
    BY <2>1 DEF SameId
<1>2. CASE (\E kind \in Kind : Rpc(kind)) \/ Take \/ Timeout \/ Close \/ Closed \/ UNCHANGED vars
  <2>1. UNCHANGED <<spc, req, did, data>>
    BY <1>2 DEF Rpc, Take, Timeout, Close, Closed, vars, server
  <2> QED
    BY <2>1 DEF SameId
<1>3. CASE Record \/ Unlink \/ Rename \/ AppendEntry
  <2>1. UNCHANGED <<req, did, data>> /\ spc' # "write"
    BY <1>3 DEF Record, Unlink, Rename, AppendEntry
  <2> QED
    BY <2>1 DEF SameId
<1>4. CASE Price
  <2>1. /\ UNCHANGED <<req, data>>
        /\ \/ did' = did /\ spc' # "write"
           \/ did # None /\ did' = did /\ spc' # "write"
           \/ did = None /\ data.id # None /\ did' = data.id /\ spc' # "write"
           \/ did = None /\ data.id = None
    BY <1>4 DEF Price, Wrapped
  <2> QED
    BY <2>1 DEF SameId
<1>5. CASE SavePlace
  <2>1. UNCHANGED <<req, did, data>> /\ req.kind # "price"
    BY <1>5, ServingAssumption DEF SavePlace
  <2> QED
    BY <2>1 DEF SameId
<1>6. CASE WriteData
  <2>1. /\ spc = "write" /\ spc' # "write" /\ UNCHANGED <<req, did>>
        /\ data' = data \/ data' = Content
    BY <1>6 DEF WriteData, Wrapped
  <2>2. CASE data' = data
    BY <2>1, <2>2 DEF SameId
  <2>3. CASE data' = Content /\ req.kind = "price"
    <3>1. data' = [data EXCEPT !.id = did] /\ data.id = None
      BY <2>1, <2>3 DEF Content, SameId
    <3>2. data'.id = did /\ DOMAIN data' = DOMAIN data
      BY <3>1 DEF SameId
    <3> QED
      BY <2>1, <3>1, <3>2 DEF SameId
  <2>4. CASE data' = Content /\ req.kind # "price"
    <3>1. data'.id = data.id /\ DOMAIN data' = DOMAIN data
      BY <2>4 DEF Content, SameId
    <3> QED
      BY <2>1, <3>1 DEF SameId
  <2> QED
    BY <2>1, <2>2, <2>3, <2>4
<1> QED
  BY <1>1, <1>2, <1>3, <1>4, <1>5, <1>6 DEF Next

\* The device id is one and the same once it is on file, through every failed write and
\* every new server (config.py:181-189).
THEOREM IdentityIsOne == Spec => OneIdentity
<1>1. Init => SameId
  BY DEF Init, SameId
<1>2. SameId /\ [Next]_vars => SameId'
  BY SameIdStep
<1>3. SameId /\ [Next]_vars => [data.id # None => data'.id = data.id]_vars
  BY SameIdStep
<1>4. SameId => (did # None /\ data.id # None => did = data.id)
  BY DEF SameId
<1> QED
  BY <1>1, <1>2, <1>3, <1>4, PTL DEF Spec, OneIdentity

=============================================================================

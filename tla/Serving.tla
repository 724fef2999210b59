------------------------------- MODULE Serving -------------------------------
(***************************************************************************)
(* The harness and the servers it spawns, one after the other: class       *)
(* Server of harness/mcp_client.py, the loop of server.py, the wrapper of  *)
(* every tool (mmt/tools.py), and the two files a call writes: the call    *)
(* log (mmt/calllog.py) and data.json (mmt/config.py, mmt/cabs.py).        *)
(*                                                                         *)
(* The server runs one request at a time; its steps are what the death of  *)
(* the process cannot divide.  Request ids go on from one server to the    *)
(* next, so that a log entry names its call, and a file's size is counted  *)
(* in entries.  The reply pipe and the queue its pump fills are one.       *)
(***************************************************************************)
EXTENDS Naturals, FiniteSets, SequencesExt

CONSTANTS Place,     \* the cab places a call may register
          MaxLines,  \* MAX_BYTES
          MaxCall,   \* bound: the requests of all sessions together
          None

ASSUME ServingAssumption ==
    /\ MaxLines \in Nat \ {0} /\ MaxCall \in Nat
    /\ Place \cap {"list", "price"} = {}

VARIABLES cpc, sent, got,      \* the client: where it is, _id, how its last rpc ended
          stdin, closed, out,  \* the requests, whether they have ended, the replies
          spc, req, res, did,  \* the server: where it is, the request, _DID_CACHE
          data,                \* data.json
          cur, prev, unended,  \* calls.jsonl, its .1, whether cur lacks its last newline
          answered, unlogged, dropped  \* history: replies taken, entries that failed, gone

client == <<cpc, sent, got, answered>>
pipes == <<stdin, closed, out>>
server == <<spc, req, res, did>>
log == <<cur, prev, unended, unlogged, dropped>>
vars == <<client, pipes, server, data, log>>

\* initialize and tools/list reach no tool; a price reaches one that sends our device
\* id; a place is registered by one that saves it.
Kind == {"list", "price"} \cup Place

Reply(r, s) == [id |-> r.id, kind |-> r.kind, res |-> s]
Mark(s) == [id |-> 0, kind |-> "list", res |-> s]

Init ==
    /\ cpc = "off" /\ sent = 0 /\ got = Mark("none") /\ answered = {}
    /\ stdin = <<>> /\ closed = TRUE /\ out = <<>>
    /\ spc = "off" /\ req = None /\ res = "none" /\ did = None
    /\ data = [places |-> {}, id |-> None]
    /\ cur = <<>> /\ prev = <<>> /\ unended = FALSE /\ unlogged = {} /\ dropped = {}

-----------------------------------------------------------------------------
(* The client *)

\* Server.__init__
Open ==
    /\ cpc = "off" /\ spc = "off"
    /\ cpc' = "idle" /\ spc' = "read"
    /\ stdin' = <<>> /\ closed' = FALSE /\ out' = <<>>
    /\ req' = None /\ res' = "none" /\ did' = None
    /\ UNCHANGED <<sent, got, answered, data, log>>

\* rpc, up to its loop: the write fails on a server that has gone.
Rpc(kind) ==
    /\ cpc = "idle" /\ sent < MaxCall
    /\ sent' = sent + 1
    /\ IF spc = "off"
       THEN got' = Mark("broken") /\ UNCHANGED <<cpc, stdin>>
       ELSE /\ cpc' = "waiting" /\ got' = Mark("none")
            /\ stdin' = Append(stdin, [id |-> sent + 1, kind |-> kind])
    /\ UNCHANGED <<answered, closed, out, server, data, log>>

\* Mutant: the next reply is taken for the answer.
NextIsMine(m) == TRUE

\* Not a notification or a stale reply.
IsMine(m) == m.id = sent

\* A turn of rpc's loop that gets a line.
Take ==
    /\ cpc = "waiting" /\ out # <<>>
    /\ out' = Tail(out)
    /\ LET m == Head(out) IN
       \/ /\ m.res \in {"exit", "torn"} \/ IsMine(m)
          /\ cpc' = "idle" /\ got' = m
          /\ answered' = IF m.res \in {"ok", "error"} THEN answered \cup {m} ELSE answered
       \/ /\ m.res \notin {"exit", "torn"} /\ ~IsMine(m)
          /\ UNCHANGED <<cpc, got, answered>>
    /\ UNCHANGED <<sent, stdin, closed, server, data, log>>

Timeout ==
    /\ cpc = "waiting"
    /\ cpc' = "idle" /\ got' = Mark("timeout")
    /\ UNCHANGED <<sent, answered, pipes, server, data, log>>

\* close, up to its wait, and from there on.  The kill that ends the wait is one of the
\* deaths below.
Close ==
    /\ cpc = "idle"
    /\ cpc' = "closing" /\ closed' = TRUE
    /\ UNCHANGED <<sent, got, answered, stdin, out, server, data, log>>

Closed ==
    /\ cpc = "closing" /\ spc = "off"
    /\ cpc' = "off"
    /\ UNCHANGED <<sent, got, answered, pipes, server, data, log>>

-----------------------------------------------------------------------------
(* The server *)

\* The loop's readline: a request, or the end of input.
ReadLine ==
    /\ spc = "read"
    /\ \/ /\ stdin # <<>>
          /\ stdin' = Tail(stdin) /\ req' = Head(stdin)
          /\ IF req'.kind = "list" THEN spc' = "reply" /\ res' = "ok"
             ELSE spc' = "tool" /\ res' = "none"
          /\ UNCHANGED out
       \/ /\ stdin = <<>> /\ closed
          /\ spc' = "off" /\ out' = Append(out, Mark("exit"))
          /\ UNCHANGED <<stdin, req, res>>
    /\ UNCHANGED <<client, closed, did, data, log>>

\* The wrapper, once the tool is done: answers and errors alike are recorded.
Wrapped(s) == "record"

\* A tool that prices.  It fails before it sends anything; or it needs identity, which is
\* created if neither the process nor the file has one, and answers or fails later.
Price ==
    /\ spc = "tool" /\ req.kind = "price"
    /\ \/ res' = "error" /\ spc' = Wrapped(res') /\ UNCHANGED did
       \/ /\ res' \in {"ok", "error"}
          /\ did' = CASE did # None -> did
                      [] did = None /\ data.id # None -> data.id
                      [] OTHER -> req.id
          /\ spc' = IF did = None /\ data.id = None THEN "write" ELSE Wrapped(res')
    /\ UNCHANGED <<client, pipes, req, data, log>>

\* save_place, up to its write, unless no place is found to save.
SavePlace ==
    /\ spc = "tool" /\ req.kind \in Place
    /\ \/ spc' = "write" /\ UNCHANGED res
       \/ res' = "error" /\ spc' = Wrapped(res')
    /\ UNCHANGED <<client, pipes, req, did, data, log>>

\* Mutant: a save starts from an empty file.
ContentOfPlace == IF req.kind = "price" THEN [data EXCEPT !.id = did]
                  ELSE [places |-> data.places \cup {req.kind}, id |-> None]

\* What is written: all that was read, with one entry more.
Content == IF req.kind = "price" THEN [data EXCEPT !.id = did]
           ELSE [data EXCEPT !.places = @ \cup {req.kind}]

\* An id that cannot be stored is used all the same; a place is an error.
Result(s) == IF req.kind = "price" THEN res ELSE s

\* _write_data
WriteData ==
    /\ spc = "write"
    /\ \/ data' = Content /\ res' = Result("ok")
       \/ data' = data /\ res' = Result("error")
    /\ spc' = Wrapped(res')
    /\ UNCHANGED <<client, pipes, req, did, log>>

Ids(file) == UNION {file[i].ids : i \in DOMAIN file}

\* calllog.record: whether it rotates first, or fails, which is nobody's concern.
Record ==
    /\ spc = "record"
    /\ \/ /\ spc' = IF Len(cur) < MaxLines THEN "append" ELSE "unlink"
          /\ UNCHANGED unlogged
       \/ spc' = "reply" /\ unlogged' = unlogged \cup {req.id}
    /\ UNCHANGED <<client, pipes, req, res, did, data, cur, prev, unended, dropped>>

Unlink ==
    /\ spc = "unlink"
    /\ prev' = <<>> /\ dropped' = dropped \cup Ids(prev)
    /\ spc' = "rename"
    /\ UNCHANGED <<client, pipes, req, res, did, data, cur, unended, unlogged>>

\* Mutant: the log is cleared before it is moved.
RenameCleared ==
    /\ spc = "rename"
    /\ prev' = <<>> /\ cur' = <<>> /\ unended' = FALSE
    /\ dropped' = dropped \cup Ids(cur)
    /\ spc' = "append"
    /\ UNCHANGED <<client, pipes, req, res, did, data, unlogged>>

\* A rename that fails is passed over.
Rename ==
    /\ spc = "rename"
    /\ \/ prev' = cur /\ cur' = <<>> /\ unended' = FALSE
       \/ UNCHANGED <<cur, prev, unended>>
    /\ spc' = "append"
    /\ UNCHANGED <<client, pipes, req, res, did, data, unlogged, dropped>>

\* The file with a line more; or, if its last line was cut, with that line longer, which
\* is no longer one JSON object.
Appended(clean) ==
    IF unended
    THEN [cur EXCEPT ![Len(cur)] = [ids |-> @.ids \cup {req.id}, clean |-> FALSE]]
    ELSE Append(cur, [ids |-> {req.id}, clean |-> clean])

\* Mutant: the entry goes without its newline.
AppendEntryBare ==
    /\ spc = "append"
    /\ cur' = Appended(TRUE) /\ unended' = TRUE
    /\ spc' = "reply"
    /\ UNCHANGED <<client, pipes, req, res, did, data, prev, unlogged, dropped>>

\* The line is written; or the write raises, before or after a part of it is in the file,
\* and that is passed over: the call is answered all the same.
AppendEntry ==
    /\ spc = "append" /\ spc' = "reply"
    /\ \/ cur' = Appended(TRUE) /\ unended' = FALSE /\ UNCHANGED unlogged
       \/ /\ unlogged' = unlogged \cup {req.id}
          /\ \/ UNCHANGED <<cur, unended>>
             \/ unended' = TRUE /\ \E clean \in BOOLEAN : cur' = Appended(clean)
    /\ UNCHANGED <<client, pipes, req, res, did, data, prev, dropped>>

WriteReply ==
    /\ spc = "reply"
    /\ out' = Append(out, Reply(req, res))
    /\ spc' = "read" /\ req' = None /\ res' = "none"
    /\ UNCHANGED <<client, stdin, closed, did, data, log>>

-----------------------------------------------------------------------------
(* The death of the server: killed by close, or of itself *)

\* A write that is cut leaves the temporary file torn and data.json as it was.
DataAfterDeath == data

Dies ==
    /\ spc # "off" /\ spc' = "off"
    /\ data' = DataAfterDeath
    /\ \/ UNCHANGED <<cur, unended>>
       \/ spc = "append" /\ unended' = TRUE /\ \E clean \in BOOLEAN : cur' = Appended(clean)
    /\ \/ out' = Append(out, Mark("exit"))
       \/ spc = "reply" /\ out' = out \o <<Mark("torn"), Mark("exit")>>
    /\ UNCHANGED <<client, stdin, closed, req, res, did, prev, unlogged, dropped>>

Next == \/ Open \/ (\E kind \in Kind : Rpc(kind)) \/ Take \/ Timeout \/ Close \/ Closed
        \/ ReadLine \/ Price \/ SavePlace \/ WriteData
        \/ Record \/ Unlink \/ Rename \/ AppendEntry \/ WriteReply
        \/ Dies

Spec == Init /\ [][Next]_vars

-----------------------------------------------------------------------------
(* Properties *)

\* An rpc never returns the reply to another request, however many of its predecessors
\* timed out and were answered later (mcp_client.py:76-80).
OwnReply == got.res \in {"ok", "error"} => got.id = sent

\* A tool's answer is on file before it can be read, so it stays traceable when the
\* server is killed right after it; or else its entry could not be written, or a rotation
\* dropped it with a full log of newer entries behind it, also one that was cut between
\* its two steps or whose rename failed (calllog.py:3-8, 29-31, 95-110; tools.py:48-62).
AnsweredIsOnFile ==
    \A m \in answered : m.kind # "list" =>
        \/ m.id \in Ids(cur) \cup Ids(prev) \cup unlogged
        \/ /\ m.id \in dropped
           /\ Cardinality({k \in Ids(cur) \cup Ids(prev) : k > m.id}) >= MaxLines

\* An append that was cut, by a death or by an error in the middle of its write, costs at
\* most one other call its entry: of the calls whose entry was written whole, one at most is
\* on a line that does not parse (calllog.py:89-92, 119-121).
CutCostsOneAnswer ==
    \A file \in {cur, prev} : \A i \in DOMAIN file : ~file[i].clean =>
        Cardinality({m \in answered : m.id \in file[i].ids \ unlogged}) <= 1

\* The device id is one and the same once it is on file: for this process and for all
\* after it (config.py:181-189).
OneIdentity ==
    /\ [][data.id # None => data'.id = data.id]_vars
    /\ [](did # None /\ data.id # None => did = data.id)

=============================================================================

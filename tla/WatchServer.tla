----------------------------- MODULE WatchServer -----------------------------
(***************************************************************************)
(* tools/watch_server.py: the supervisor between an MCP host and a         *)
(* server.py that is restarted when it dies or its source changes.         *)
(*                                                                         *)
(* Two threads share self.child and _pending: the feeder relays the host's *)
(* frames, the main thread watches, stops and starts the child, and        *)
(* flushes what was buffered.  A critical section of _pending_lock is one  *)
(* action; what the code does outside the lock is an action of its own.    *)
(* The child-to-host direction is one pump per child and is left out.      *)
(***************************************************************************)
EXTENDS Naturals, FiniteSets, SequencesExt

CONSTANTS MaxFrames,      \* bound on the frames the host sends
          MaxCrash,       \* bound on the children that die on their own
          MaxEdits,       \* bound on the edits of the watched source
          RapidFailures,  \* RAPID_FAILURES
          None

Frame == 1..MaxFrames
Start == 1..(1 + MaxCrash + MaxEdits)      \* the children, in the order they start

ASSUME WatchAssumption ==
    /\ MaxFrames \in Nat /\ MaxCrash \in Nat /\ MaxEdits \in Nat
    /\ RapidFailures \in Nat \ {0}
    /\ None \notin Nat

VARIABLES child,     \* self.child
          process,   \* what the operating system says of each child
          shut,      \* the children whose stdin stop_child has closed
          inbox,     \* the frames written to each child's stdin, in order
          pending,   \* _pending
          writer,    \* write_client, per thread
          sent,      \* how many frames the feeder has read
          main,      \* where the main thread is
          flush,     \* its local list of buffered frames still to write
          failures,  \* _failures
          young,     \* the last start is no more than RAPID_WINDOW ago
          source, snap, loaded,  \* versions: on disk, in the snapshot, per child
          eof,       \* stdin_eof
          hung_up,   \* the host has closed our stdin
          code,      \* the exit code
          crashes

vars == <<child, process, shut, inbox, pending, writer, sent, main, flush, failures,
          young, source, snap, loaded, eof, hung_up, code, crashes>>
frames == <<inbox, pending, writer, sent, flush>>
children == <<child, process, shut, loaded>>
counts == <<failures, young, crashes>>
versions == <<source, snap>>
ending == <<eof, hung_up, code>>

Thread == {"feeder", "main"}
Free == [pc |-> "free", frame |-> None, to |-> None]
\* main: where the main thread is, where it goes after start_child, and the child it is
\* starting or stopping.
Init ==
    /\ child = None /\ process = [c \in Start |-> "none"] /\ shut = {}
    /\ inbox = [c \in Start |-> <<>>] /\ pending = <<>> /\ flush = <<>>
    /\ writer = [t \in Thread |-> Free] /\ sent = 0
    /\ main = [pc |-> "popen", then |-> "check", new |-> None]
    /\ failures = 0 /\ young = TRUE /\ crashes = 0
    /\ source = 0 /\ snap = 0 /\ loaded = [c \in Start |-> None]
    /\ eof = FALSE /\ hung_up = FALSE /\ code = None

Goes(pc) == main' = [main EXCEPT !.pc = pc]
Dead(c) == process[c] = "dead"

-----------------------------------------------------------------------------
(* write_client, by either thread *)

\* Under the lock: buffer the frame if no child is up, else take the child.
PickChild(t, f) ==
    IF child = None \/ Dead(child)
    THEN pending' = Append(pending, f) /\ UNCHANGED writer
    ELSE /\ writer' = [writer EXCEPT ![t] = [pc |-> "write", frame |-> f, to |-> child]]
         /\ UNCHANGED pending

\* The write, with no lock held: it reaches the child, or breaks on a dead child's pipe,
\* or raises ValueError on a stdin stop_child has closed, which nothing catches: the
\* feeder ends, and its finally reports an end of file.
Write(t) ==
    LET c == writer[t].to f == writer[t].frame
    IN  /\ writer[t].pc = "write"
        /\ \/ /\ c \notin shut /\ ~Dead(c)
              /\ inbox' = [inbox EXCEPT ![c] = Append(@, f)]
              /\ writer' = [writer EXCEPT ![t] = Free]
              /\ UNCHANGED eof
           \/ /\ c \notin shut /\ Dead(c)
              /\ writer' = [writer EXCEPT ![t].pc = "requeue"]
              /\ UNCHANGED <<inbox, eof>>
           \/ /\ c \in shut
              /\ writer' = [writer EXCEPT ![t].pc = "dead"]
              /\ eof' = TRUE
              /\ UNCHANGED inbox
        /\ UNCHANGED <<children, pending, sent, flush, main, counts, versions,
                       hung_up, code>>

Requeue(t) ==
    /\ writer[t].pc = "requeue"
    /\ pending' = Append(pending, writer[t].frame)
    /\ writer' = [writer EXCEPT ![t] = Free]
    /\ UNCHANGED <<children, inbox, sent, flush, main, counts, versions, ending>>

-----------------------------------------------------------------------------
(* The feeder *)

FeederReads ==
    /\ writer["feeder"].pc = "free" /\ ~eof /\ sent < MaxFrames
    /\ sent' = sent + 1
    /\ PickChild("feeder", sent + 1)
    /\ UNCHANGED <<children, inbox, flush, main, counts, versions, ending>>

\* Mutant: the end of the input stops the feeder and nobody else.
FeederEofUnreported ==
    /\ writer["feeder"].pc = "free" /\ ~eof
    /\ hung_up' = TRUE
    /\ writer' = [writer EXCEPT !["feeder"].pc = "dead"]
    /\ UNCHANGED <<children, inbox, pending, sent, flush, main, counts, versions, eof, code>>

FeederEof ==
    /\ writer["feeder"].pc = "free" /\ ~eof
    /\ eof' = TRUE /\ hung_up' = TRUE
    /\ writer' = [writer EXCEPT !["feeder"].pc = "dead"]
    /\ UNCHANGED <<children, inbox, pending, sent, flush, main, counts, versions, code>>

-----------------------------------------------------------------------------
(* start_child *)

Popen ==
    /\ main.pc = "popen"
    /\ LET c == Cardinality({n \in Start : process[n] # "none"}) + 1
       IN  /\ process' = [process EXCEPT ![c] = "up"]
           /\ loaded' = [loaded EXCEPT ![c] = source]
           /\ main' = [main EXCEPT !.pc = "publish", !.new = c]
    /\ young' = TRUE
    /\ UNCHANGED <<child, shut, frames, failures, crashes, versions, ending>>

\* Mutant: the buffered frames are taken without being cleared.
PublishKeepsPending ==
    /\ main.pc = "publish"
    /\ flush' = pending /\ child' = main.new
    /\ main' = [main EXCEPT !.pc = "flush", !.new = None]
    /\ UNCHANGED <<pending, process, shut, loaded, inbox, writer, sent, counts, versions,
                   ending>>

\* Under the lock: take the buffered frames and publish the child.
Publish ==
    /\ main.pc = "publish"
    /\ flush' = pending /\ pending' = <<>> /\ child' = main.new
    /\ main' = [main EXCEPT !.pc = "flush", !.new = None]
    /\ UNCHANGED <<process, shut, loaded, inbox, writer, sent, counts, versions, ending>>

\* After the lock: write them one by one.
FlushNext ==
    /\ main.pc = "flush" /\ writer["main"].pc = "free"
    /\ IF flush = <<>>
       THEN Goes(main.then) /\ UNCHANGED <<flush, pending, writer>>
       ELSE /\ flush' = Tail(flush)
            /\ PickChild("main", Head(flush))
            /\ UNCHANGED main
    /\ UNCHANGED <<children, inbox, sent, counts, versions, ending>>

-----------------------------------------------------------------------------
(* check *)

CheckAlive ==
    /\ main.pc = "check" /\ ~eof
    /\ child # None => ~Dead(child)
    /\ failures' = IF child # None /\ ~young THEN 0 ELSE failures
    /\ Goes("reload")
    /\ UNCHANGED <<children, frames, young, crashes, versions, ending>>

\* The failures once this death is counted.
Count(n) == IF young THEN n + 1 ELSE 1

CheckDead ==
    /\ main.pc = "check" /\ ~eof
    /\ child # None /\ Dead(child)
    /\ failures' = Count(failures)
    /\ IF Count(failures) >= RapidFailures
       THEN Goes("shutdown") /\ code' = 2
       ELSE main' = [main EXCEPT !.pc = "popen", !.then = "reload"] /\ UNCHANGED code
    /\ UNCHANGED <<children, frames, young, crashes, versions, eof, hung_up>>

-----------------------------------------------------------------------------
(* reload_if_source_changed and stop_child *)

\* Mutant: a child that a crash restarted is taken to have loaded the change.
ReloadTrustsRestart ==
    /\ main.pc = "reload"
    /\ IF source = snap \/ main.then = "reload" THEN Goes("check")
       ELSE main' = [main EXCEPT !.pc = "closing", !.then = "check"]
    /\ snap' = source
    /\ UNCHANGED <<children, frames, counts, source, ending>>

Reload ==
    /\ main.pc = "reload"
    /\ IF source = snap THEN Goes("check")
       ELSE main' = [main EXCEPT !.pc = "closing", !.then = "check"]
    /\ snap' = source
    /\ UNCHANGED <<children, frames, counts, source, ending>>

\* self.child = None, without the lock; a child already dead needs no stopping.
Unpublish ==
    /\ main.pc = "closing"
    /\ child' = None
    /\ main' = IF child # None /\ ~Dead(child)
               THEN [main EXCEPT !.pc = "waiting", !.new = child]
               ELSE [main EXCEPT !.pc = "popen"]
    /\ UNCHANGED <<process, shut, loaded, frames, counts, versions, ending>>

CloseStdin ==
    /\ main.pc = "waiting" /\ main.new \notin shut
    /\ shut' = shut \cup {main.new}
    /\ UNCHANGED <<child, process, loaded, frames, main, counts, versions, ending>>

\* It exits on the end of its input, or is terminated, or killed.
Stopped ==
    /\ main.pc = "waiting" /\ main.new \in shut
    /\ process' = [process EXCEPT ![main.new] = "dead"]
    /\ main' = [main EXCEPT !.pc = "popen", !.new = None]
    /\ UNCHANGED <<child, shut, loaded, frames, counts, versions, ending>>

-----------------------------------------------------------------------------
(* The end of the main loop *)

SeesEof ==
    /\ main.pc = "check" /\ eof
    /\ Goes("shutdown") /\ code' = 0
    /\ UNCHANGED <<children, frames, counts, versions, eof, hung_up>>

\* stop_child once more; what the feeder still does no longer matters.
Shutdown ==
    /\ main.pc = "shutdown"
    /\ child' = None
    /\ shut' = IF child = None THEN shut ELSE shut \cup {child}
    /\ process' = [c \in Start |-> IF c = child THEN "dead" ELSE process[c]]
    /\ Goes("exited")
    /\ UNCHANGED <<loaded, frames, counts, versions, ending>>

-----------------------------------------------------------------------------
(* The environment *)

Crash ==
    /\ crashes < MaxCrash
    /\ \E c \in Start : /\ process[c] = "up"
                        /\ process' = [process EXCEPT ![c] = "dead"]
    /\ crashes' = crashes + 1
    /\ UNCHANGED <<child, shut, loaded, frames, main, failures, young, versions,
                   ending>>

Edit ==
    /\ source < MaxEdits
    /\ source' = source + 1
    /\ UNCHANGED <<children, frames, main, counts, snap, ending>>

Ages ==
    /\ young
    /\ young' = FALSE
    /\ UNCHANGED <<children, frames, main, failures, crashes, versions, ending>>

MainWorks == \/ Popen \/ Publish \/ FlushNext \/ CheckAlive \/ CheckDead \/ Reload
             \/ Unpublish \/ CloseStdin \/ Stopped \/ SeesEof \/ Shutdown
             \/ Write("main") \/ Requeue("main")
FeederWorks == Write("feeder") \/ Requeue("feeder")

Running == main.pc # "exited"

Next == \/ Running /\ (MainWorks \/ FeederWorks \/ FeederReads \/ FeederEof)
        \/ Running /\ (Crash \/ Edit \/ Ages)

Spec == Init /\ [][Next]_vars

\* Both threads run; a line that is on stdin is read.  Nobody has to crash, to edit or
\* to hang up, and a child may live for ever.
FairSpec == /\ Spec
            /\ WF_vars(Running /\ MainWorks)
            /\ WF_vars(Running /\ FeederWorks) /\ WF_vars(Running /\ FeederReads)

-----------------------------------------------------------------------------
(* Properties *)

\* Every frame the feeder has read is in one place: buffered, being flushed, in a
\* thread's hands, or with one child.  Neither a child that dies under a write nor the
\* two threads relaying at once lose or repeat one (watch_server.py:135-140, 177-187).
Places(f) ==
    {<<"pending", i>> : i \in {j \in DOMAIN pending : pending[j] = f}}
    \cup {<<"flush", i>> : i \in {j \in DOMAIN flush : flush[j] = f}}
    \cup {<<"writer", t>> : t \in {u \in Thread : writer[u].frame = f}}
    \cup UNION {{<<"inbox", c, i>> : i \in {j \in DOMAIN inbox[c] : inbox[c][j] = f}} : c \in Start}

FramesConserved == \A f \in Frame : Cardinality(Places(f)) = IF f <= sent THEN 1 ELSE 0

\* Once the edits and the crashes stop, a child runs and has the source that is on disk,
\* unless the supervisor has exited: no edit is taken for loaded that fell into a restart,
\* and no dead child is left lying (watch_server.py:191-225).
RunsLatestSource ==
    <>[](~Running \/ (child # None /\ process[child] = "up" /\ loaded[child] = source))

\* When the host hangs up the supervisor exits.
EofExits == hung_up ~> ~Running

=============================================================================

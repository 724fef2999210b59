-------------------------- MODULE WatchServerProofs --------------------------
(***************************************************************************)
(* The supervisor, proved for any number of frames, crashes and edits: a   *)
(* frame the feeder has read is in one place and in one place only.        *)
(*                                                                         *)
(* The places are disjoint (Conserved), and every step of the two threads  *)
(* takes a frame out of one and puts it into another.  That the place it   *)
(* is put into exists, the stdin of a child, takes an account of how often *)
(* a child can be started (Starts): once, and once more for each crash and *)
(* each edit.                                                              *)
(***************************************************************************)
EXTENDS WatchServer, FiniteSetTheorems, SequenceTheorems, TLAPS

\* No frame is twice in s.
Once(s) == \A i, j \in DOMAIN s : s[i] = s[j] => i = j

Started == {c \in Start : process[c] # "none"}
Latest == Cardinality(Started)

\* The child that is being started, or stopped, or that serves.
Current == IF main.pc \in {"publish", "waiting"} THEN main.new ELSE child

Restarting == {"popen", "closing", "waiting"}

Writer == [pc : {"free", "write", "requeue", "dead"}, frame : Frame \cup {None}, to : Start \cup {None}]
Writers == [Thread -> Writer]

Types ==
    /\ pending \in Seq(Frame) /\ flush \in Seq(Frame) /\ inbox \in [Start -> Seq(Frame)]
    /\ writer \in Writers
    /\ sent \in Nat /\ sent <= MaxFrames
    /\ process \in [Start -> {"none", "up", "dead"}]
    /\ main \in [pc : Restarting \cup {"publish", "flush", "check", "reload", "shutdown", "exited"},
                 then : {"check", "reload"}, new : Start \cup {None}]
    /\ child \in Start \cup {None}
    /\ crashes \in Nat /\ crashes <= MaxCrash
    /\ source \in Nat /\ source <= MaxEdits /\ snap \in Nat /\ snap <= source

\* A thread that writes has a frame and a child; one that is free has neither.
Hands ==
    \A t \in Thread :
        /\ writer[t].pc \in {"write", "requeue"} => writer[t].frame # None /\ writer[t].to # None
        /\ writer[t].pc = "free" => writer[t].frame = None

\* The children start one after the other, and each start is paid for by a crash or an edit.
Starts ==
    /\ Started = 1..Latest
    /\ main.pc \in {"publish", "waiting"} => main.new \in Started
    /\ child # None => child \in Started
    /\ Latest <= 1 + crashes + snap
    /\ main.pc \in Restarting => Latest <= crashes + snap
    /\ Current # None /\ process[Current] = "dead" /\ main.pc \notin {"shutdown", "exited"}
         => Latest <= crashes + snap

Flushes == main.pc # "flush" => flush = <<>>

Delivered == UNION {Range(inbox[c]) : c \in Start}

Relayed == Range(pending) \cup Range(flush) \cup Delivered

\* No place holds a frame twice, no two places hold the same one, and together they hold
\* what has been read.
OnceEach == Once(pending) /\ Once(flush) /\ \A c \in Start : Once(inbox[c])
OneChild == \A c, d \in Start : c # d => Range(inbox[c]) \cap Range(inbox[d]) = {}
OneThread == writer["feeder"].frame = writer["main"].frame => writer["main"].frame = None
Apart == /\ Range(pending) \cap Range(flush) = {}
         /\ Delivered \cap (Range(pending) \cup Range(flush)) = {}
InHands == \A t \in Thread : writer[t].frame \notin Relayed
Somewhere == \A f \in Frame : f <= sent <=> f \in Relayed \/ \E t \in Thread : writer[t].frame = f

Conserved == OnceEach /\ OneChild /\ OneThread /\ Apart /\ InHands /\ Somewhere

WatchInv == Types /\ Hands /\ Starts /\ Flushes /\ Conserved

-----------------------------------------------------------------------------
(* Sequences without repetitions *)

\* A frame that is nowhere in a queue may be put behind it without a repetition.
LEMMA OnceAppend ==
    ASSUME NEW S, NEW s \in Seq(S), NEW e \in S, Once(s), e \notin Range(s)
    PROVE  /\ Append(s, e) \in Seq(S) /\ Once(Append(s, e))
           /\ Range(Append(s, e)) = Range(s) \cup {e}
<1> DEFINE t == Append(s, e)
<1>1. /\ t \in Seq(S) /\ Len(t) = Len(s) + 1 /\ t[Len(s) + 1] = e
      /\ \A i \in 1..Len(s) : t[i] = s[i]
  BY AppendProperties
<1>2. Len(s) \in Nat /\ DOMAIN s = 1..Len(s) /\ DOMAIN t = 1..(Len(s) + 1)
  BY <1>1, LenProperties
<1> HIDE DEF t
<1>3. \A i \in DOMAIN t : i \in DOMAIN s \/ i = Len(s) + 1
  BY <1>2
<1>4. \A i \in DOMAIN s : i \in DOMAIN t /\ t[i] = s[i] /\ t[i] \in Range(s) /\ t[i] # e
  BY <1>1, <1>2 DEF Range
<1>5. Len(s) + 1 \in DOMAIN t
  BY <1>2
<1>6. Once(t)
  BY <1>1, <1>3, <1>4 DEF Once
<1>7. Range(t) = Range(s) \cup {e}
  BY <1>1, <1>3, <1>4, <1>5 DEF Range
<1> QED
  BY <1>1, <1>6, <1>7 DEF t

\* A frame taken from a queue of frames that occur once is no longer in it.
LEMMA OnceTail ==
    ASSUME NEW S, NEW s \in Seq(S), s # <<>>, Once(s)
    PROVE  /\ Tail(s) \in Seq(S) /\ Once(Tail(s)) /\ Head(s) \in S
           /\ Head(s) \in Range(s) /\ Range(Tail(s)) = Range(s) \ {Head(s)}
<1> DEFINE t == Tail(s)
<1>1. /\ Len(s) \in Nat \ {0} /\ DOMAIN s = 1..Len(s) /\ Head(s) = s[1] /\ Head(s) \in S
      /\ t \in Seq(S) /\ DOMAIN t = 1..(Len(s) - 1) /\ \A i \in 1..(Len(s) - 1) : t[i] = s[i + 1]
  BY EmptySeq, LenProperties, HeadTailProperties
<1> HIDE DEF t
<1>2. \A i \in DOMAIN t : i + 1 \in DOMAIN s /\ i + 1 # 1 /\ t[i] = s[i + 1]
  BY <1>1
<1>3. \A i \in DOMAIN s : i = 1 \/ (i - 1 \in DOMAIN t /\ t[i - 1] = s[i])
  BY <1>1
<1>4. 1 \in DOMAIN s
  BY <1>1
<1>5. Once(t)
  <2> SUFFICES ASSUME NEW i \in DOMAIN t, NEW j \in DOMAIN t, t[i] = t[j] PROVE i = j
    BY DEF Once
  <2>1. i + 1 = j + 1
    BY <1>2 DEF Once
  <2> QED
    BY <1>1, <2>1
<1>6. ASSUME NEW x \in Range(t) PROVE x \in Range(s) \ {Head(s)}
  <2>1. PICK i \in DOMAIN t : t[i] = x
    BY <1>6 DEF Range
  <2> QED
    BY <1>1, <1>2, <1>4, <2>1 DEF Range, Once
<1>7. ASSUME NEW x \in Range(s), x # Head(s) PROVE x \in Range(t)
  <2>1. PICK i \in DOMAIN s : s[i] = x
    BY <1>7 DEF Range
  <2> QED
    BY <1>1, <1>3, <1>7, <2>1 DEF Range
<1>8. Head(s) \in Range(s)
  BY <1>1, <1>4 DEF Range
<1> QED
  BY <1>1, <1>5, <1>6, <1>7, <1>8 DEF t

\* Whatever is in a buffer is a frame.
LEMMA Frames ==
    ASSUME Types
    PROVE  /\ Range(pending) \subseteq Frame /\ Range(flush) \subseteq Frame
           /\ \A c \in Start : Range(inbox[c]) \subseteq Frame
           /\ Delivered \subseteq Frame /\ None \notin Frame /\ None \notin Start
<1>1. Range(pending) \subseteq Frame /\ Range(flush) \subseteq Frame
  BY RangeOfSeq DEF Types
<1>2. \A c \in Start : Range(inbox[c]) \subseteq Frame
  BY RangeOfSeq DEF Types
<1>3. None \notin Frame /\ None \notin Start
  BY WatchAssumption DEF Frame, Start
<1> QED
  BY <1>1, <1>2, <1>3 DEF Delivered

-----------------------------------------------------------------------------
(* What one thread does with a frame *)

\* What touches no buffer and no hand loses no frame.
LEMMA FramesStay ==
    ASSUME WatchInv, UNCHANGED <<inbox, pending, sent, flush>>,
           \A t \in Thread : writer'[t].frame = writer[t].frame
    PROVE  Conserved'
<1>1. Delivered' = Delivered /\ Relayed' = Relayed
  BY DEF Delivered, Relayed
<1>2. OnceEach' /\ OneChild' /\ Apart'
  BY <1>1 DEF WatchInv, Conserved, OnceEach, OneChild, Apart
<1>3. OneThread' /\ InHands' /\ Somewhere'
  BY <1>1 DEF WatchInv, Conserved, OneThread, InHands, Somewhere, Thread
<1> QED
  BY <1>2, <1>3 DEF Conserved

\* What touches no variable that has frames keeps all that is said of them.
LEMMA FramesUnchanged ==
    ASSUME WatchInv, UNCHANGED frames
    PROVE  Conserved' /\ Hands' /\ UNCHANGED <<inbox, pending, writer, sent, flush>>
<1>1. UNCHANGED <<inbox, pending, writer, sent, flush>>
  BY DEF frames
<1> QED
  BY <1>1, FramesStay DEF WatchInv, Hands

\* Under the lock a frame that is nowhere yet, or taken off the list that is flushed, goes
\* to the buffer or into the hands of the thread (write_client, watch_server.py:168-178).
LEMMA PickConserves ==
    ASSUME WatchInv, NEW t \in Thread, NEW f \in Frame, PickChild(t, f), UNCHANGED inbox,
           writer[t].pc = "free", f \notin Range(pending) \cup Delivered,
           \A u \in Thread : writer[u].frame # f,
           flush' \in Seq(Frame), Once(flush'), Range(flush') = Range(flush) \ {f},
           \A g \in Frame : g <= sent' <=> g <= sent \/ g = f
    PROVE  /\ Conserved' /\ Hands' /\ pending' \in Seq(Frame) /\ writer' \in Writers
<1>1. writer[t].frame = None /\ Delivered' = Delivered /\ None \notin Frame
  BY Frames DEF WatchInv, Hands, Delivered
<1> USE DEF WatchInv, Conserved
<1>2. CASE pending' = Append(pending, f) /\ UNCHANGED writer
  <2>1. pending' \in Seq(Frame) /\ Once(pending') /\ Range(pending') = Range(pending) \cup {f}
    BY <1>2, OnceAppend DEF Types, OnceEach
  <2>2. Relayed' = Relayed \cup {f}
    BY <1>1, <2>1 DEF Relayed
  <2>3. OnceEach'
    BY <2>1 DEF OnceEach
  <2>4. OneChild' /\ OneThread'
    BY <1>2 DEF OneChild, OneThread
  <2>5. Apart'
    BY <1>1, <2>1 DEF Apart
  <2>6. InHands'
    BY <1>2, <2>2 DEF InHands
  <2>7. Somewhere'
    BY <1>2, <2>2 DEF Somewhere
  <2> QED
    BY <1>2, <2>1, <2>3, <2>4, <2>5, <2>6, <2>7 DEF Types, Hands, Writers
<1>3. CASE /\ child # None /\ UNCHANGED pending
           /\ writer' = [writer EXCEPT ![t] = [pc |-> "write", frame |-> f, to |-> child]]
  <2>1. /\ writer' \in Writers
        /\ writer'[t] = [pc |-> "write", frame |-> f, to |-> child]
        /\ \A u \in Thread \ {t} : writer'[u] = writer[u]
    BY <1>3 DEF Types, Writers, Writer
  <2>2. Hands'
    BY <1>1, <1>3, <2>1 DEF Hands
  <2>3. \A u \in Thread : writer'[u].frame = writer[u].frame \/ writer'[u].frame = f
    BY <2>1
  <2>4. Relayed' = (Range(pending) \cup (Range(flush) \ {f}) \cup Delivered) /\ f \notin Relayed'
    BY <1>1, <1>3 DEF Relayed
  <2>5. \A g : g \in Relayed' \/ g = f <=> g \in Relayed \/ g = f
    BY <2>4 DEF Relayed
  <2>6. OnceEach' /\ OneChild' /\ Apart'
    BY <1>1, <1>3 DEF OnceEach, OneChild, Apart
  <2>7. OneThread'
    BY <1>1, <2>1 DEF OneThread, Thread
  <2>8. InHands'
    BY <2>3, <2>4, <2>5 DEF InHands
  <2>9. Somewhere'
    <3>1. \A g \in Frame : (\E u \in Thread : writer'[u].frame = g)
                             <=> (g = f \/ \E u \in Thread : writer[u].frame = g)
      BY <1>1, <2>1
    <3> QED
      BY <2>5, <3>1 DEF Somewhere
  <2> QED
    BY <1>3, <2>1, <2>2, <2>6, <2>7, <2>8, <2>9 DEF Types
<1> QED
  BY <1>2, <1>3 DEF PickChild

\* Outside the lock it goes to the child, or stays in the thread's hands, or goes back to
\* the buffer (watch_server.py:180-187).
LEMMA WriteConserves ==
    ASSUME WatchInv, NEW t \in Thread, Write(t) \/ Requeue(t)
    PROVE  /\ Conserved' /\ Hands' /\ pending' \in Seq(Frame) /\ inbox' \in [Start -> Seq(Frame)]
           /\ writer' \in Writers
           /\ UNCHANGED <<children, sent, flush, main, counts, versions>>
<1> DEFINE f == writer[t].frame
           c == writer[t].to
<1>1. /\ UNCHANGED <<children, sent, flush, main, counts, versions>>
      /\ writer[t].pc \in {"write", "requeue"} /\ f \in Frame /\ c \in Start
      /\ None \notin Frame /\ None \notin Start
  BY Frames DEF Write, Requeue, WatchInv, Types, Hands, Writers, Writer
<1> USE DEF WatchInv, Conserved
<1>2. /\ f \notin Relayed /\ \A u \in Thread \ {t} : writer[u].frame # f
  BY <1>1 DEF InHands, OneThread, Thread
<1>3. CASE /\ \E pc \in {"requeue", "dead"} : writer' = [writer EXCEPT ![t].pc = pc]
           /\ UNCHANGED <<inbox, pending>>
  <2>1. PICK pc \in {"requeue", "dead"} : writer' = [writer EXCEPT ![t].pc = pc]
    BY <1>3
  <2>2. /\ writer'[t] = [writer[t] EXCEPT !.pc = pc] /\ DOMAIN writer' = Thread
        /\ \A u \in Thread \ {t} : writer'[u] = writer[u]
        /\ writer' = [u \in Thread |-> writer'[u]]
    BY <2>1 DEF Types, Writers
  <2>3. /\ writer'[t] \in Writer /\ writer'[t].pc = pc /\ writer'[t].frame = f /\ writer'[t].to = c
    <3>1. writer[t] \in Writer
      BY DEF Types, Writers
    <3> HIDE DEF WatchInv
    <3>2. writer'[t] \in Writer
      BY <2>2, <3>1 DEF Writer
    <3>3. writer'[t].pc = pc /\ writer'[t].frame = f /\ writer'[t].to = c
      BY <2>2, <3>1 DEF Writer
    <3> QED
      BY <3>2, <3>3
  <2>4. writer' \in Writers
    BY <2>2, <2>3 DEF Types, Writers
  <2>5. \A u \in Thread : writer'[u].frame = writer[u].frame
    BY <2>2, <2>3
  <2>6. Hands'
    <3>1. Hands /\ pc # "free"
      BY <2>1
    <3>2. f # None /\ c # None
      BY <1>1
    <3> HIDE DEF WatchInv, f, c
    <3> SUFFICES ASSUME NEW u \in Thread
                 PROVE  /\ writer'[u].pc \in {"write", "requeue"} => writer'[u].frame # None /\ writer'[u].to # None
                        /\ writer'[u].pc = "free" => writer'[u].frame = None
      BY DEF Hands
    <3>3. CASE u = t
      BY <2>3, <3>1, <3>2, <3>3
    <3>4. CASE u # t
      <4>1. writer'[u] = writer[u]
        BY <2>2, <3>4
      <4> QED
        BY <3>1, <4>1 DEF Hands
    <3> QED
      BY <3>3, <3>4
  <2>7. Conserved'
    BY <1>1, <1>3, <2>5, FramesStay
  <2> QED
    BY <1>1, <1>3, <2>4, <2>6, <2>7 DEF Types
<1>4. ASSUME writer' = [writer EXCEPT ![t] = Free], Relayed' = Relayed \cup {f}
      PROVE  writer' \in Writers /\ Hands' /\ OneThread' /\ InHands' /\ Somewhere'
  <2>1. /\ writer' \in Writers /\ \A u \in Thread \ {t} : writer'[u] = writer[u]
        /\ writer'[t] = [pc |-> "free", frame |-> None, to |-> None]
    BY <1>4 DEF Types, Free, Writers, Writer
  <2>2. Hands'
    BY <2>1 DEF Hands
  <2>3. OneThread'
    BY <2>1 DEF OneThread, Thread
  <2>4. None \notin Relayed
    BY Frames DEF Relayed
  <2>5. InHands'
    BY <1>1, <1>2, <1>4, <2>1, <2>4 DEF InHands
  <2>6. \A g \in Frame : (\E u \in Thread : writer[u].frame = g)
                           <=> (g = f \/ \E u \in Thread : writer'[u].frame = g)
    BY <1>1, <2>1
  <2>7. Somewhere'
    BY <1>1, <1>4, <2>6 DEF Somewhere
  <2> QED
    BY <2>1, <2>2, <2>3, <2>5, <2>7
<1>5. CASE pending' = Append(pending, f) /\ writer' = [writer EXCEPT ![t] = Free] /\ UNCHANGED inbox
  <2>1. pending' \in Seq(Frame) /\ Once(pending') /\ Range(pending') = Range(pending) \cup {f}
    BY <1>1, <1>2, <1>5, OnceAppend DEF Types, OnceEach, Relayed
  <2>2. Delivered' = Delivered /\ Relayed' = Relayed \cup {f}
    BY <1>1, <1>5, <2>1 DEF Delivered, Relayed
  <2>3. OnceEach' /\ OneChild'
    BY <1>1, <1>5, <2>1 DEF OnceEach, OneChild
  <2>4. Apart'
    BY <1>1, <1>2, <2>1, <2>2 DEF Apart, Relayed
  <2> QED
    BY <1>1, <1>4, <1>5, <2>1, <2>2, <2>3, <2>4 DEF Types
<1>6. CASE /\ inbox' = [inbox EXCEPT ![c] = Append(@, f)]
           /\ writer' = [writer EXCEPT ![t] = Free] /\ UNCHANGED pending
  <2>1. inbox[c] \in Seq(Frame) /\ Once(inbox[c]) /\ f \notin Range(inbox[c])
    BY <1>1, <1>2 DEF Types, OnceEach, Delivered, Relayed
  <2>2. /\ inbox'[c] \in Seq(Frame) /\ Once(inbox'[c]) /\ Range(inbox'[c]) = Range(inbox[c]) \cup {f}
        /\ \A d \in Start \ {c} : inbox'[d] = inbox[d]
        /\ inbox' \in [Start -> Seq(Frame)]
    BY <1>1, <1>6, <2>1, OnceAppend DEF Types
  <2>3. Delivered' = Delivered \cup {f} /\ \A d \in Start : f \notin Range(inbox[d])
    BY <1>1, <1>2, <2>2 DEF Delivered, Relayed
  <2>4. Relayed' = Relayed \cup {f}
    BY <1>1, <1>6, <2>3 DEF Relayed
  <2>5. OneChild'
    <3> SUFFICES ASSUME NEW d \in Start, NEW e \in Start, d # e
                 PROVE  Range(inbox'[d]) \cap Range(inbox'[e]) = {}
      BY DEF OneChild
    <3>1. Range(inbox[d]) \cap Range(inbox[e]) = {}
      BY DEF OneChild
    <3>2. CASE d = c
      BY <2>2, <2>3, <3>1, <3>2
    <3>3. CASE e = c
      BY <2>2, <2>3, <3>1, <3>3
    <3>4. CASE d # c /\ e # c
      BY <2>2, <3>1, <3>4
    <3> QED
      BY <3>2, <3>3, <3>4
  <2>6. OnceEach'
    BY <1>1, <1>6, <2>2 DEF OnceEach
  <2>7. Apart'
    BY <1>1, <1>2, <1>6, <2>3 DEF Apart, Relayed
  <2> QED
    BY <1>1, <1>4, <1>6, <2>2, <2>4, <2>5, <2>6, <2>7 DEF Types
<1> QED
  BY <1>1, <1>3, <1>5, <1>6 DEF Write, Requeue

-----------------------------------------------------------------------------
(* How often a child is started *)

\* The starts are finitely many, and one of them is the latest.
LEMMA Counted ==
    ASSUME WatchInv
    PROVE  IsFiniteSet(Started) /\ Latest \in Nat /\ Started \subseteq Start
<1>1. IsFiniteSet(Start) /\ Started \subseteq Start
  BY FS_Interval, WatchAssumption DEF Start, Started
<1>2. IsFiniteSet(Started)
  BY <1>1, FS_Subset
<1> QED
  BY <1>1, <1>2, FS_CardinalityType DEF Latest

\* What starts and ends no child keeps their account.
LEMMA StartsStay ==
    ASSUME WatchInv, UNCHANGED <<child, process, main, crashes, snap>>
    PROVE  Starts'
<1>1. Started' = Started /\ Latest' = Latest /\ Current' = Current
  BY DEF Started, Latest, Current
<1> QED
  BY <1>1 DEF WatchInv, Starts

\* The frames apart, what a step of the main thread or of the environment must keep.
LEMMA MainStep ==
    ASSUME WatchInv, UNCHANGED frames,
           process' \in [Start -> {"none", "up", "dead"}],
           main' \in [pc : Restarting \cup {"publish", "flush", "check", "reload", "shutdown", "exited"},
                      then : {"check", "reload"}, new : Start \cup {None}],
           child' \in Start \cup {None}, crashes' \in Nat, crashes' <= MaxCrash,
           source' \in Nat, source' <= MaxEdits, snap' \in Nat, snap' <= source',
           Starts', main.pc = "flush" /\ main'.pc # "flush" => flush = <<>>
    PROVE  WatchInv'
<1>1. Conserved' /\ Hands' /\ UNCHANGED <<inbox, pending, writer, sent, flush>>
  BY FramesUnchanged
<1>2. Types'
  BY <1>1 DEF WatchInv, Types
<1> QED
  BY <1>1, <1>2 DEF WatchInv, Types, Flushes

LEMMA PopenStep ==
    ASSUME WatchInv, Popen PROVE WatchInv'
<1> DEFINE c == Latest + 1
<1> USE DEF WatchInv
<1>1. Latest \in Nat /\ IsFiniteSet(Started) /\ Started \subseteq Start
  BY Counted
<1>2. /\ process' = [process EXCEPT ![c] = "up"]
      /\ main' = [main EXCEPT !.pc = "publish", !.new = c]
      /\ UNCHANGED <<child, frames, crashes, source, snap>> /\ main.pc = "popen"
  BY DEF Popen, Started, Latest, versions
<1>3. c \in Start /\ Latest <= crashes + snap
  BY <1>1, <1>2, WatchAssumption DEF Starts, Types, Start, Restarting
<1>4. process' \in [Start -> {"none", "up", "dead"}] /\ process'[c] = "up"
  BY <1>2, <1>3 DEF Types
<1>5. Started' = 1..(Latest + 1)
  <2>1. Started' = Started \cup {c}
    BY <1>2, <1>3 DEF Started, Types
  <2> QED
    BY <1>1, <2>1 DEF Starts
<1>6. Latest' = Latest + 1
  BY <1>1, <1>5, FS_Interval DEF Latest
<1>7. main'.pc = "publish" /\ main'.new = c
  BY <1>2 DEF Types
<1>8. Started \subseteq Started' /\ c \in Started'
  BY <1>1, <1>5 DEF Starts
<1>9. Starts'
  BY <1>1, <1>2, <1>3, <1>4, <1>5, <1>6, <1>7, <1>8 DEF Starts, Current, Restarting, Types
<1> QED
  BY <1>2, <1>3, <1>4, <1>7, <1>9, MainStep DEF Types

\* Steps that start no child and leave none dead.
LEMMA SameChildren ==
    ASSUME WatchInv, UNCHANGED process
    PROVE  Started' = Started /\ Latest' = Latest /\ Latest \in Nat
BY Counted DEF Started, Latest

LEMMA CheckStep ==
    ASSUME WatchInv, CheckAlive \/ CheckDead \/ SeesEof PROVE WatchInv'
<1> USE DEF WatchInv
<1>1. UNCHANGED <<child, process, frames, crashes, source, snap>> /\ main.pc = "check"
  <2>1. CASE CheckAlive
    BY <2>1 DEF CheckAlive, children, versions
  <2>2. CASE CheckDead
    BY <2>2 DEF CheckDead, children, versions
  <2>3. CASE SeesEof
    BY <2>3 DEF SeesEof, children, counts, versions
  <2> QED
    BY <2>1, <2>2, <2>3
<1>2. Started' = Started /\ Latest' = Latest /\ Latest \in Nat
  BY <1>1, SameChildren
<1>3. \/ main'.pc \in {"reload", "shutdown"}
      \/ main'.pc = "popen" /\ child # None /\ process[child] = "dead"
  BY DEF CheckAlive, CheckDead, SeesEof, Goes, Types, Dead
<1>4. main' \in [pc : Restarting \cup {"publish", "flush", "check", "reload", "shutdown", "exited"},
                 then : {"check", "reload"}, new : Start \cup {None}]
  BY DEF CheckAlive, CheckDead, SeesEof, Goes, Types, Restarting
<1>5. Starts'
  BY <1>1, <1>2, <1>3 DEF Starts, Current, Restarting
<1> QED
  BY <1>1, <1>3, <1>4, <1>5, MainStep DEF Types

LEMMA ReloadStep ==
    ASSUME WatchInv, Reload PROVE WatchInv'
<1> USE DEF WatchInv
<1>1. /\ UNCHANGED <<child, process, frames, crashes, source>> /\ main.pc = "reload"
      /\ snap' = source
  BY DEF Reload, children, counts
<1>2. Started' = Started /\ Latest' = Latest /\ Latest \in Nat
  BY <1>1, SameChildren
<1>3. \/ main'.pc = "check" /\ source = snap
      \/ main'.pc = "closing" /\ source # snap
  BY DEF Reload, Goes, Types
<1>4. main' \in [pc : Restarting \cup {"publish", "flush", "check", "reload", "shutdown", "exited"},
                 then : {"check", "reload"}, new : Start \cup {None}]
  BY DEF Reload, Goes, Types, Restarting
<1>5. Starts'
  <2>1. CASE source = snap
    BY <1>1, <1>2, <1>3, <2>1 DEF Starts, Current, Restarting
  <2>2. CASE source # snap
    <3>1. snap' >= snap + 1
      BY <1>1, <2>2 DEF Types
    <3>2. Latest <= crashes + snap'
      BY <1>1, <1>2, <3>1 DEF Starts, Types
    <3>3. Latest <= 1 + crashes + snap'
      BY <1>1, <1>2, <3>2 DEF Types
    <3> QED
      BY <1>1, <1>2, <1>3, <2>2, <3>2, <3>3 DEF Starts, Restarting
  <2> QED
    BY <2>1, <2>2
<1> QED
  BY <1>1, <1>3, <1>4, <1>5, MainStep DEF Types

LEMMA UnpublishStep ==
    ASSUME WatchInv, Unpublish PROVE WatchInv'
<1> USE DEF WatchInv
<1>1. UNCHANGED <<process, frames, crashes, source, snap>> /\ main.pc = "closing" /\ child' = None
  BY DEF Unpublish, counts, versions
<1>2. Started' = Started /\ Latest' = Latest /\ Latest \in Nat
  BY <1>1, SameChildren
<1>3. \/ main'.pc = "waiting" /\ child # None /\ main'.new = child
      \/ main'.pc = "popen"
  BY DEF Unpublish, Types
<1>4. main' \in [pc : Restarting \cup {"publish", "flush", "check", "reload", "shutdown", "exited"},
                 then : {"check", "reload"}, new : Start \cup {None}]
  BY DEF Unpublish, Types, Restarting
<1>5. Starts'
  BY <1>1, <1>2, <1>3 DEF Starts, Restarting
<1> QED
  BY <1>1, <1>3, <1>4, <1>5, MainStep DEF Types

\* Steps after which a child that had been started is dead.
LEMMA StillStarted ==
    ASSUME WatchInv, NEW c \in Started \cup {None},
           process' = [d \in Start |-> IF d = c THEN "dead" ELSE process[d]]
    PROVE  /\ process' \in [Start -> {"none", "up", "dead"}]
           /\ Started' = Started /\ Latest' = Latest /\ Latest \in Nat
<1>1. process' \in [Start -> {"none", "up", "dead"}]
  BY DEF WatchInv, Types
<1>2. None \notin Start
  BY Frames DEF WatchInv
<1>3. Started' = Started
  BY <1>2 DEF Started
<1> QED
  BY <1>1, <1>3, Counted DEF Latest

LEMMA StoppedStep ==
    ASSUME WatchInv, Stopped PROVE WatchInv'
<1> USE DEF WatchInv
<1>1. UNCHANGED <<child, frames, crashes, source, snap>> /\ main.pc = "waiting" /\ main.new \in Started
  BY DEF Stopped, counts, versions, Starts
<1>2. process' = [d \in Start |-> IF d = main.new THEN "dead" ELSE process[d]]
  BY DEF Stopped, Types
<1>3. /\ process' \in [Start -> {"none", "up", "dead"}]
      /\ Started' = Started /\ Latest' = Latest /\ Latest \in Nat
  BY <1>1, <1>2, StillStarted
<1>4. /\ main'.pc = "popen"
      /\ main' \in [pc : Restarting \cup {"publish", "flush", "check", "reload", "shutdown", "exited"},
                    then : {"check", "reload"}, new : Start \cup {None}]
  BY DEF Stopped, Types, Restarting
<1>5. Starts'
  BY <1>1, <1>3, <1>4 DEF Starts, Restarting
<1> QED
  BY <1>1, <1>3, <1>4, <1>5, MainStep DEF Types

LEMMA ShutdownStep ==
    ASSUME WatchInv, Shutdown PROVE WatchInv'
<1> USE DEF WatchInv
<1>1. /\ UNCHANGED <<frames, crashes, source, snap>> /\ child' = None /\ child \in Started \cup {None}
      /\ main.pc = "shutdown"
  BY DEF Shutdown, counts, versions, Starts
<1>2. process' = [d \in Start |-> IF d = child THEN "dead" ELSE process[d]]
  BY DEF Shutdown
<1>3. /\ process' \in [Start -> {"none", "up", "dead"}]
      /\ Started' = Started /\ Latest' = Latest /\ Latest \in Nat
  BY <1>1, <1>2, StillStarted
<1>4. /\ main'.pc = "exited"
      /\ main' \in [pc : Restarting \cup {"publish", "flush", "check", "reload", "shutdown", "exited"},
                    then : {"check", "reload"}, new : Start \cup {None}]
  BY DEF Shutdown, Goes, Types, Restarting
<1>5. Starts'
  BY <1>1, <1>3, <1>4 DEF Starts, Restarting
<1> QED
  BY <1>1, <1>3, <1>4, <1>5, MainStep DEF Types

LEMMA CrashStep ==
    ASSUME WatchInv, Crash PROVE WatchInv'
<1> USE DEF WatchInv
<1>1. /\ UNCHANGED <<child, frames, main, source, snap>>
      /\ crashes' = crashes + 1 /\ crashes < MaxCrash
  BY DEF Crash, versions
<1>2. PICK c \in Started : process' = [d \in Start |-> IF d = c THEN "dead" ELSE process[d]]
  <2>1. PICK c \in Start : process[c] = "up" /\ process' = [process EXCEPT ![c] = "dead"]
    BY DEF Crash
  <2>2. process' = [d \in Start |-> IF d = c THEN "dead" ELSE process[d]]
    BY <2>1 DEF Types
  <2>3. c \in Started
    BY <2>1 DEF Started
  <2> QED
    BY <2>2, <2>3
<1>3. /\ process' \in [Start -> {"none", "up", "dead"}]
      /\ Started' = Started /\ Latest' = Latest /\ Latest \in Nat
  BY <1>2, StillStarted
<1>4. Latest <= crashes' + snap
  BY <1>1, <1>3 DEF Starts, Types
<1>5. Latest <= 1 + crashes' + snap
  BY <1>1, <1>3, <1>4 DEF Types
<1>6. Starts'
  BY <1>1, <1>3, <1>4, <1>5 DEF Starts, Restarting
<1> QED
  BY <1>1, <1>3, <1>6, MainStep, WatchAssumption DEF Types

LEMMA PublishStep ==
    ASSUME WatchInv, Publish PROVE WatchInv'
<1> USE DEF WatchInv
<1>1. /\ UNCHANGED <<process, inbox, writer, sent, crashes, source, snap>> /\ main.pc = "publish"
      /\ flush' = pending /\ pending' = <<>> /\ child' = main.new
  BY DEF Publish, counts, versions
<1>2. Started' = Started /\ Latest' = Latest /\ Latest \in Nat
  BY <1>1, SameChildren
<1>3. /\ main'.pc = "flush"
      /\ main' \in [pc : Restarting \cup {"publish", "flush", "check", "reload", "shutdown", "exited"},
                    then : {"check", "reload"}, new : Start \cup {None}]
  BY DEF Publish, Types, Restarting
<1>4. Starts'
  BY <1>1, <1>2, <1>3 DEF Starts, Current, Restarting
<1>5. flush = <<>> /\ Range(<<>>) = {} /\ Once(<<>>) /\ <<>> \in Seq(Frame)
  BY <1>1 DEF Flushes, Range, Once
<1>6. Delivered' = Delivered /\ Relayed' = Relayed
  BY <1>1, <1>5 DEF Delivered, Relayed
<1>7. Conserved'
  <2>1. OnceEach' /\ OneChild' /\ OneThread'
    BY <1>1, <1>5 DEF Conserved, OnceEach, OneChild, OneThread
  <2>2. Apart'
    BY <1>1, <1>5, <1>6 DEF Conserved, Apart
  <2>3. InHands' /\ Somewhere'
    BY <1>1, <1>6 DEF Conserved, InHands, Somewhere
  <2> QED
    BY <2>1, <2>2, <2>3 DEF Conserved
<1>8. Types'
  BY <1>1, <1>3, <1>5 DEF Types
<1>9. Hands' /\ Flushes'
  BY <1>1, <1>3 DEF Hands, Flushes
<1> QED
  BY <1>4, <1>7, <1>8, <1>9

LEMMA FlushStep ==
    ASSUME WatchInv, FlushNext PROVE WatchInv'
<1> USE DEF WatchInv
<1>1. /\ UNCHANGED <<child, process, inbox, sent, crashes, source, snap>>
      /\ main.pc = "flush" /\ writer["main"].pc = "free"
  BY DEF FlushNext, children, counts, versions
<1>2. CASE flush = <<>>
  <2>1. Goes(main.then) /\ UNCHANGED frames
    BY <1>1, <1>2 DEF FlushNext, frames
  <2>2. /\ main'.pc \in {"check", "reload"}
        /\ main' \in [pc : Restarting \cup {"publish", "flush", "check", "reload", "shutdown", "exited"},
                      then : {"check", "reload"}, new : Start \cup {None}]
    BY <2>1 DEF Goes, Types, Restarting
  <2>3. Started' = Started /\ Latest' = Latest /\ Latest \in Nat
    BY <1>1, SameChildren
  <2>4. Starts'
    BY <1>1, <2>2, <2>3 DEF Starts, Current, Restarting
  <2> QED
    BY <1>1, <1>2, <2>1, <2>2, <2>4, MainStep DEF Types
<1>3. CASE flush # <<>>
  <2> DEFINE f == Head(flush)
  <2>1. flush' = Tail(flush) /\ PickChild("main", f) /\ UNCHANGED main
    BY <1>3 DEF FlushNext
  <2>2. /\ flush' \in Seq(Frame) /\ Once(flush') /\ f \in Frame
        /\ f \in Range(flush) /\ Range(flush') = Range(flush) \ {f}
    BY <1>3, <2>1, OnceTail DEF Types, Conserved, OnceEach
  <2>3. /\ f \notin Range(pending) \cup Delivered /\ f \in Relayed
        /\ \A u \in Thread : writer[u].frame # f
    BY <2>2 DEF Conserved, Apart, InHands, Relayed
  <2>4. \A g \in Frame : g <= sent' <=> g <= sent \/ g = f
    BY <1>1, <2>2, <2>3 DEF Conserved, Somewhere
  <2> HIDE DEF f
  <2>5. Conserved' /\ Hands' /\ pending' \in Seq(Frame) /\ writer' \in Writers
    BY <1>1, <2>1, <2>2, <2>3, <2>4, PickConserves DEF Thread
  <2>6. Starts'
    BY <1>1, <2>1, StartsStay
  <2>7. Types'
    BY <1>1, <2>1, <2>2, <2>5 DEF Types
  <2> QED
    BY <1>1, <2>1, <2>5, <2>6, <2>7 DEF Flushes
<1> QED
  BY <1>2, <1>3

LEMMA FeederReadsStep ==
    ASSUME WatchInv, FeederReads PROVE WatchInv'
<1> USE DEF WatchInv
<1> DEFINE f == sent + 1
<1>1. /\ UNCHANGED <<child, process, inbox, flush, main, crashes, source, snap>>
      /\ sent' = f /\ sent < MaxFrames /\ PickChild("feeder", f) /\ writer["feeder"].pc = "free"
  BY DEF FeederReads, children, counts, versions
<1>2. f \in Frame /\ ~(f <= sent) /\ f \in Nat /\ f <= MaxFrames
  BY <1>1, WatchAssumption DEF Types, Frame
<1>3. f \notin Relayed /\ \A u \in Thread : writer[u].frame # f
  BY <1>2 DEF Conserved, Somewhere
<1>4. /\ f \notin Range(pending) \cup Delivered /\ flush' \in Seq(Frame) /\ Once(flush')
      /\ Range(flush') = Range(flush) \ {f}
  BY <1>1, <1>3 DEF Conserved, OnceEach, Types, Relayed
<1>5. \A g \in Frame : g <= sent' <=> g <= sent \/ g = f
  BY <1>1, WatchAssumption DEF Types, Frame
<1> HIDE DEF f
<1>6. Conserved' /\ Hands' /\ pending' \in Seq(Frame) /\ writer' \in Writers
  BY <1>1, <1>2, <1>3, <1>4, <1>5, PickConserves DEF Thread
<1>7. Starts'
  BY <1>1, StartsStay
<1>8. Types'
  BY <1>1, <1>2, <1>6 DEF Types
<1> QED
  BY <1>1, <1>6, <1>7, <1>8 DEF Flushes

LEMMA FeederEofStep ==
    ASSUME WatchInv, FeederEof PROVE WatchInv'
<1> USE DEF WatchInv
<1>1. /\ UNCHANGED <<child, process, inbox, pending, sent, flush, main, crashes, source, snap>>
      /\ writer' = [writer EXCEPT !["feeder"].pc = "dead"]
  BY DEF FeederEof, children, counts, versions
<1>2. /\ writer'["feeder"] = [writer["feeder"] EXCEPT !.pc = "dead"] /\ DOMAIN writer' = Thread
      /\ writer'["main"] = writer["main"] /\ writer' = [u \in Thread |-> writer'[u]]
      /\ writer["feeder"] \in Writer /\ writer["main"] \in Writer
  BY <1>1 DEF Types, Writers, Thread
<1>3. /\ writer'["feeder"] \in Writer /\ writer'["feeder"].pc = "dead"
      /\ writer'["feeder"].frame = writer["feeder"].frame
  <2> HIDE DEF WatchInv
  <2> QED
    BY <1>2 DEF Writer
<1>4. writer' \in Writers /\ \A t \in Thread : writer'[t].frame = writer[t].frame
  BY <1>2, <1>3 DEF Writers, Thread
<1>5. Hands'
  BY <1>2, <1>3 DEF Hands, Thread
<1>6. Conserved' /\ Starts'
  BY <1>1, <1>4, FramesStay, StartsStay
<1>7. Types' /\ Flushes'
  BY <1>1, <1>4 DEF Types, Flushes
<1> QED
  BY <1>5, <1>6, <1>7

LEMMA WriteStep ==
    ASSUME WatchInv, NEW t \in Thread, Write(t) \/ Requeue(t) PROVE WatchInv'
<1>1. /\ Conserved' /\ Hands' /\ pending' \in Seq(Frame) /\ inbox' \in [Start -> Seq(Frame)]
      /\ writer' \in Writers
      /\ UNCHANGED <<children, sent, flush, main, counts, versions>>
  BY WriteConserves
<1>2. UNCHANGED <<child, process, sent, flush, main, crashes, source, snap>>
  BY <1>1 DEF children, counts, versions
<1>3. Starts'
  BY <1>2, StartsStay
<1> QED
  BY <1>1, <1>2, <1>3 DEF WatchInv, Types, Flushes

-----------------------------------------------------------------------------

LEMMA WatchInit ==
    ASSUME Init PROVE WatchInv
<1> USE DEF Init
<1>1. Started = {} /\ Latest = 0
  BY FS_EmptySet DEF Started, Latest
<1>2. Starts
  BY <1>1, WatchAssumption DEF Starts, Current, Restarting, Start
<1>3. Range(<<>>) = {} /\ Once(<<>>) /\ <<>> \in Seq(Frame)
  BY DEF Range, Once
<1>4. Delivered = {} /\ Relayed = {}
  BY <1>3 DEF Delivered, Relayed
<1>5. None \notin Frame
  BY WatchAssumption DEF Frame
<1>6. Conserved
  <2>1. OnceEach /\ OneChild /\ OneThread /\ Apart /\ InHands
    BY <1>3, <1>4 DEF OnceEach, OneChild, OneThread, Apart, InHands, Free, Thread
  <2>2. Somewhere
    BY <1>4, <1>5 DEF Somewhere, Free, Frame
  <2> QED
    BY <2>1, <2>2 DEF Conserved
<1>7. Types
  BY <1>3, WatchAssumption DEF Types, Writers, Writer, Free, Restarting
<1>8. Hands /\ Flushes
  BY DEF Hands, Free, Flushes
<1> QED
  BY <1>2, <1>6, <1>7, <1>8 DEF WatchInv

LEMMA WatchNext ==
    ASSUME WatchInv, [Next]_vars PROVE WatchInv'
<1>1. ASSUME CloseStdin \/ Edit \/ Ages PROVE WatchInv'
  <2>1. /\ UNCHANGED <<child, process, frames, main, crashes, snap>>
        /\ source' = source \/ (source' = source + 1 /\ source < MaxEdits)
    BY <1>1 DEF CloseStdin, Edit, Ages, children, counts, versions
  <2>2. Starts'
    BY <2>1, StartsStay
  <2> QED
    BY <2>1, <2>2, MainStep, WatchAssumption DEF WatchInv, Types
<1>2. CASE UNCHANGED vars
  <2>1. UNCHANGED <<child, process, frames, main, crashes, source, snap>>
    BY <1>2 DEF vars, frames
  <2> QED
    BY <2>1, StartsStay, MainStep DEF WatchInv, Types
<1>3. ASSUME MainWorks PROVE WatchInv'
  BY <1>1, <1>3, PopenStep, PublishStep, FlushStep, CheckStep, ReloadStep, UnpublishStep, StoppedStep,
     ShutdownStep, WriteStep DEF MainWorks, Thread
<1>4. ASSUME FeederWorks \/ FeederReads \/ FeederEof PROVE WatchInv'
  BY <1>4, WriteStep, FeederReadsStep, FeederEofStep DEF FeederWorks, Thread
<1> QED
  BY <1>1, <1>2, <1>3, <1>4, CrashStep DEF Next

-----------------------------------------------------------------------------
(* The places counted *)

\* A frame that occurs once has one place.
LEMMA OnceAt ==
    ASSUME NEW s, NEW f, Once(s)
    PROVE  \/ f \notin Range(s) /\ {j \in DOMAIN s : s[j] = f} = {}
           \/ f \in Range(s) /\ \E i \in DOMAIN s : {j \in DOMAIN s : s[j] = f} = {i}
<1>1. CASE f \notin Range(s)
  BY <1>1 DEF Range
<1>2. CASE f \in Range(s)
  <2>1. PICK i \in DOMAIN s : s[i] = f
    BY <1>2 DEF Range
  <2>2. {j \in DOMAIN s : s[j] = f} = {i}
    BY <2>1 DEF Once
  <2> QED
    BY <1>2, <2>2
<1> QED
  BY <1>1, <1>2

\* Places that are disjoint, each with a frame once, count every frame once.
LEMMA InvCounts ==
    ASSUME WatchInv PROVE FramesConserved
<1> SUFFICES ASSUME NEW f \in Frame PROVE Cardinality(Places(f)) = IF f <= sent THEN 1 ELSE 0
  BY DEF FramesConserved
<1> USE DEF WatchInv, Conserved
<1> DEFINE At(s) == {j \in DOMAIN s : s[j] = f}
           InPending == {<<"pending", i>> : i \in At(pending)}
           InFlush == {<<"flush", i>> : i \in At(flush)}
           InWriter == {<<"writer", t>> : t \in {u \in Thread : writer[u].frame = f}}
           InInbox == UNION {{<<"inbox", c, i>> : i \in At(inbox[c])} : c \in Start}
<1>1. Places(f) = InPending \cup InFlush \cup InWriter \cup InInbox
  BY DEF Places
<1>2. \/ f \notin Range(pending) /\ InPending = {}
      \/ f \in Range(pending) /\ \E x : InPending = {x}
  <2>1. \/ f \notin Range(pending) /\ At(pending) = {}
        \/ f \in Range(pending) /\ \E i : At(pending) = {i}
    BY OnceAt DEF OnceEach
  <2> HIDE DEF At
  <2>2. \A i : At(pending) = {i} => InPending = {<<"pending", i>>}
    BY DEF InPending
  <2>3. At(pending) = {} => InPending = {}
    BY DEF InPending
  <2> QED
    BY <2>1, <2>2, <2>3
<1>3. \/ f \notin Range(flush) /\ InFlush = {}
      \/ f \in Range(flush) /\ \E x : InFlush = {x}
  <2>1. \/ f \notin Range(flush) /\ At(flush) = {}
        \/ f \in Range(flush) /\ \E i : At(flush) = {i}
    BY OnceAt DEF OnceEach
  <2> HIDE DEF At
  <2>2. \A i : At(flush) = {i} => InFlush = {<<"flush", i>>}
    BY DEF InFlush
  <2>3. At(flush) = {} => InFlush = {}
    BY DEF InFlush
  <2> QED
    BY <2>1, <2>2, <2>3
<1>4. \/ (\A t \in Thread : writer[t].frame # f) /\ InWriter = {}
      \/ (\E t \in Thread : writer[t].frame = f) /\ \E x : InWriter = {x}
  <2>1. CASE \E t \in Thread : writer[t].frame = f
    <3>1. PICK t \in Thread : writer[t].frame = f
      BY <2>1
    <3>2. \A u \in Thread : writer[u].frame = f => u = t
      BY <3>1, Frames DEF OneThread, Thread
    <3>3. {u \in Thread : writer[u].frame = f} = {t}
      BY <3>1, <3>2
    <3>4. InWriter = {<<"writer", t>>}
      BY <3>3
    <3> QED
      BY <2>1, <3>4
  <2> QED
    BY <2>1
<1>5. \/ f \notin Delivered /\ InInbox = {}
      \/ f \in Delivered /\ \E x : InInbox = {x}
  <2>1. CASE f \notin Delivered
    <3>1. \A c \in Start : At(inbox[c]) = {}
      BY <2>1, OnceAt DEF Delivered, OnceEach
    <3> QED
      BY <2>1, <3>1
  <2>2. CASE f \in Delivered
    <3>1. PICK c \in Start : f \in Range(inbox[c])
      BY <2>2 DEF Delivered
    <3>2. \A d \in Start : d # c => f \notin Range(inbox[d])
      BY <3>1 DEF OneChild
    <3>3. \A d \in Start : d # c => At(inbox[d]) = {}
      BY <3>2, OnceAt DEF OnceEach
    <3>4. PICK i : At(inbox[c]) = {i}
      BY <3>1, OnceAt DEF OnceEach
    <3> HIDE DEF At
    <3>5. InInbox = {<<"inbox", c, i>>}
      BY <3>3, <3>4
    <3> QED
      BY <2>2, <3>5
  <2> QED
    BY <2>1, <2>2
<1> HIDE DEF InPending, InFlush, InWriter, InInbox
<1>6. CASE f <= sent
  <2>1. \E x : Places(f) = {x}
    <3>1. f \in Relayed \/ \E t \in Thread : writer[t].frame = f
      BY <1>6 DEF Somewhere
    <3>2. CASE f \in Range(pending)
      BY <1>1, <1>2, <1>3, <1>4, <1>5, <3>2 DEF Apart, InHands, Relayed
    <3>3. CASE f \in Range(flush)
      BY <1>1, <1>2, <1>3, <1>4, <1>5, <3>3 DEF Apart, InHands, Relayed
    <3>4. CASE f \in Delivered
      BY <1>1, <1>2, <1>3, <1>4, <1>5, <3>4 DEF Apart, InHands, Relayed
    <3>5. CASE \E t \in Thread : writer[t].frame = f
      BY <1>1, <1>2, <1>3, <1>4, <1>5, <3>5 DEF Apart, InHands, Relayed
    <3> QED
      BY <3>1, <3>2, <3>3, <3>4, <3>5 DEF Relayed
  <2> QED
    BY <1>6, <2>1, FS_Singleton
<1>7. CASE ~(f <= sent)
  <2>1. f \notin Relayed /\ \A t \in Thread : writer[t].frame # f
    BY <1>7 DEF Somewhere
  <2>2. Places(f) = {}
    BY <1>1, <1>2, <1>3, <1>4, <1>5, <2>1 DEF Relayed
  <2> QED
    BY <1>7, <2>2, FS_EmptySet
<1> QED
  BY <1>6, <1>7

\* Neither a child that dies under a write, nor a restart, nor the two threads relaying at
\* once lose a frame the feeder has read or put it into two places
\* (watch_server.py:135-140, 168-187).
THEOREM FramesAreConserved == Spec => []FramesConserved
<1>1. Init => WatchInv
  BY WatchInit
<1>2. WatchInv /\ [Next]_vars => WatchInv'
  BY WatchNext
<1>3. WatchInv => FramesConserved
  BY InvCounts
<1> QED
  BY <1>1, <1>2, <1>3, PTL DEF Spec

=============================================================================

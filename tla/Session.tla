------------------------------- MODULE Session -------------------------------
(***************************************************************************)
(* mmt/session.py: the one browser, launched lazily, warmed once, reaped   *)
(* when idle, and shared by every coroutine of a tool call.                *)
(*                                                                         *)
(* A leg is a coroutine that needs the browser: for a page (tier 2, the    *)
(* flight harvest), a request (tier 1), a recovery (close then ensure), or *)
(* mmt_setup_status (warmup on its own).  Everything between two awaits is *)
(* one action.  asyncio.Lock is a FIFO: lockq holds the holder, then the   *)
(* waiters.  A browser is a launch number; `up' is the set of those that   *)
(* answer.  Time is the age of the last touch.                             *)
(***************************************************************************)
EXTENDS Naturals, FiniteSets, SequencesExt

CONSTANTS Leg,          \* coroutines of the tool calls
          Role,         \* what each needs: page, request, recover or status
          Modes,        \* the launch paths this machine has: cdp, playwright
          MaxLaunch,    \* bound on launches
          MaxCrash,     \* bound on browsers that die on their own
          IdleTimeout,  \* idle_timeout_s in ticks
          Slots,        \* the semaphore for tier-1 requests
          None

Reaper == "reaper"
Browser == 1..MaxLaunch

ASSUME SessionAssumption ==
    /\ Reaper \notin Leg
    /\ Role \in [Leg -> {"page", "request", "recover", "status"}]
    /\ Modes \subseteq {"cdp", "playwright"}
    /\ MaxLaunch \in Nat /\ MaxCrash \in Nat
    /\ IdleTimeout \in Nat \ {0} /\ Slots \in Nat \ {0}
    /\ None \notin Nat

\* There is a slot for every leg: one tool call runs at a time, and gather_limited lets
\* it have no more legs at once than the semaphore has slots (fetch.py:461).
ASSUME SlotsAssumption ==
    LET Requests == {l \in Leg : Role[l] = "request"}
    IN  IsFiniteSet(Requests) /\ Cardinality(Requests) <= Slots

VARIABLES lockq,    \* _lock: its holder and its waiters
          pageq,    \* _page_lock: its holder and its waiters
          ctx,      \* _ctx
          browser,  \* _browser, set only on the CDP path
          warm,     \* _warm
          no_cdp,   \* _no_cdp
          reaper,   \* _idle_task
          idle,     \* the age of _last_used, saturating
          leg,      \* the coroutines
          up,       \* the browsers that are running
          cleared,  \* the browser whose cookies were last seen with _abck
          launched, crashes

vars == <<lockq, pageq, ctx, browser, warm, no_cdp, reaper, idle, leg, up,
          cleared, launched, crashes>>
handles == <<ctx, browser, warm, no_cdp>>
world == <<up, cleared, launched, crashes>>

\* Where a coroutine is suspended.  ensure: ensureLock, ensureTear, launch; warmup:
\* warmLock, warmGoto; the fallback off CDP: dropLock, dropTear, dropLaunch; close:
\* closeLock, closeTear; page() and slot(): pageLock, onPage, slotWait, onSlot.
\* why: who called warmup (ensure, forced, status); got: what ensure returned.
Init ==
    /\ lockq = <<>> /\ pageq = <<>>
    /\ ctx = None /\ browser = None /\ warm = FALSE /\ no_cdp = FALSE
    /\ reaper = "none" /\ idle = 0
    /\ leg = [l \in Leg |-> [pc |-> "idle", why |-> "ensure", got |-> None,
                             out |-> "none"]]
    /\ up = {} /\ cleared = None /\ launched = 0 /\ crashes = 0

Holds(p) == lockq # <<>> /\ Head(lockq) = p
Inflight == {l \in Leg : leg[l].pc \in {"onPage", "onSlot"}}
Busy == {l \in Leg : leg[l].pc # "idle"}

\* Mutant: the disconnection is not looked at.
AliveAlways == TRUE

\* _alive: only a CDP handle knows that its browser has gone.
Alive == browser # None => browser \in up

At(l, pc) == leg' = [leg EXCEPT ![l].pc = pc]
Ended(out) == [pc |-> "idle", why |-> "ensure", got |-> None, out |-> out]
Ends(l, out) == leg' = [leg EXCEPT ![l] = Ended(out)]
Warms(l, why) == leg' = [leg EXCEPT ![l].pc = "warmLock", ![l].why = why]

-----------------------------------------------------------------------------
(* Teardown, in two steps: up to its first await, and from there on.       *)

\* Mutant: teardown forgets the warm flag.
TeardownBeginKeepsWarm(q) ==
    /\ no_cdp' = FALSE /\ reaper' = "none"
    /\ lockq' = RemoveFirst(q, Reaper)
    /\ UNCHANGED <<ctx, browser, warm, idle, world, pageq>>

\* Mutant: teardown leaves the reaper of the old browser running.
TeardownBeginKeepsReaper(q) ==
    /\ warm' = FALSE /\ no_cdp' = FALSE
    /\ lockq' = q
    /\ UNCHANGED <<ctx, browser, idle, world, pageq, reaper>>

\* Cancelling the reaper also takes it out of the lock's queue.
TeardownBegin(q) ==
    /\ warm' = FALSE /\ no_cdp' = FALSE /\ reaper' = "none"
    /\ lockq' = RemoveFirst(q, Reaper)
    /\ UNCHANGED <<ctx, browser, idle, world, pageq>>

\* Mutant: the browser process survives the teardown.
TeardownEndLeavesBrowser ==
    /\ ctx' = None /\ browser' = None
    /\ UNCHANGED <<warm, reaper, idle, world, pageq>>

\* On the CDP path sweep_orphans kills whatever holds the profile.
TeardownEnd ==
    /\ ctx' = None /\ browser' = None
    /\ up' = IF browser # None THEN {} ELSE up \ {ctx}
    /\ UNCHANGED <<warm, reaper, idle, cleared, launched, crashes, pageq>>

-----------------------------------------------------------------------------
(* Launch *)

\* _launch, when it succeeds: CDP unless it is latched off or fails, else Playwright.
\* _finish_launch starts the reaper unless one is there.
Launches(mode) ==
    /\ mode \in Modes /\ (mode = "cdp" => ~no_cdp)
    /\ launched < MaxLaunch
    /\ launched' = launched + 1
    /\ ctx' = launched + 1
    /\ browser' = IF mode = "cdp" THEN launched + 1 ELSE browser
    /\ up' = up \cup {launched + 1}
    /\ reaper' = IF reaper = "none" THEN "asleep" ELSE reaper
    /\ idle' = 0
    /\ UNCHANGED <<warm, no_cdp, cleared, crashes, pageq>>

LaunchFails == UNCHANGED <<handles, world, reaper, idle, pageq>>

-----------------------------------------------------------------------------
(* What a leg does with the context ensure returned: q is the lock's queue *)
(* once the leg has released it.                                           *)

Got(l, c, q) ==
    LET op == Role[l]
    IN  /\ lockq' = IF op = "status" /\ ~warm' THEN Append(q, l) ELSE q
        /\ pageq' = IF op = "page" THEN Append(pageq, l) ELSE pageq
        /\ leg' = [leg EXCEPT ![l] =
             CASE op = "page" -> [@ EXCEPT !.pc = "pageLock", !.got = c]
               [] op = "request" /\ c # None -> [@ EXCEPT !.pc = "slotWait", !.got = c]
               [] op = "request" /\ c = None -> Ended("failed")
               [] op = "status" /\ ~warm' -> [@ EXCEPT !.pc = "warmLock", !.why = "status"]
               [] OTHER -> Ended("ok")]

-----------------------------------------------------------------------------
(* ensure *)

\* The lock is held with a context that answers, as far as _alive can tell.
EnsureFast(l, q) ==
    /\ ctx # None /\ Alive
    /\ idle' = 0
    /\ UNCHANGED <<handles, world, reaper>>
    /\ Got(l, ctx, Tail(q))

\* The lock is held with a context whose browser has gone.
EnsureStale(l, q) ==
    /\ ctx # None /\ ~Alive
    /\ TeardownBegin(q)
    /\ At(l, "ensureTear")

\* No context: launch, release, then warm up, behind whoever waits for the lock.
EnsureLaunch(l, q) ==
    /\ ctx = None
    /\ \/ /\ \E mode \in Modes : Launches(mode)
          /\ lockq' = Append(Tail(q), l)
          /\ Warms(l, "ensure")
       \/ /\ LaunchFails
          /\ lockq' = Tail(q)
          /\ Ends(l, "failed")

Ensure(l, q) == EnsureFast(l, q) \/ EnsureStale(l, q) \/ EnsureLaunch(l, q)

EnsureLocked(l) == leg[l].pc = "ensureLock" /\ Holds(l) /\ Ensure(l, lockq)

EnsureTorn(l) ==
    /\ leg[l].pc = "ensureTear"
    /\ TeardownEnd
    /\ At(l, "ensureLock")
    /\ UNCHANGED <<lockq, no_cdp>>

-----------------------------------------------------------------------------
(* warmup *)

WarmLocked(l) ==
    /\ leg[l].pc = "warmLock" /\ Holds(l)
    /\ warm => leg[l].why = "forced"
    /\ \/ ctx # None /\ UNCHANGED <<handles, world, reaper, idle, pageq>>
       \/ ctx = None /\ \E mode \in Modes : Launches(mode)
    /\ At(l, "warmGoto")
    /\ UNCHANGED lockq

\* How warmup ended, seen by its caller.  In ensure, a warmup without _abck drops
\* the CDP browser; warmup's early return carries no had_abck either.
WarmupReturns(l, result) ==
    CASE leg[l].why = "status" ->
           /\ Ends(l, IF result \in {"abck", "no_abck", "skipped"} THEN "ok" ELSE "failed")
           /\ lockq' = Tail(lockq)
           /\ UNCHANGED pageq
      [] leg[l].why = "ensure" /\ browser # None /\ result # "abck" ->
           /\ At(l, "dropLock")
           /\ lockq' = Append(Tail(lockq), l)
           /\ UNCHANGED pageq
      [] OTHER -> Got(l, ctx, Tail(lockq))

WarmSkipped(l) ==
    /\ leg[l].pc = "warmLock" /\ Holds(l)
    /\ warm /\ leg[l].why # "forced"
    /\ UNCHANGED <<handles, world, reaper, idle>>
    /\ WarmupReturns(l, "skipped")

WarmLaunchFails(l) ==
    /\ leg[l].pc = "warmLock" /\ Holds(l)
    /\ ctx = None
    /\ UNCHANGED <<handles, world, reaper, idle>>
    /\ WarmupReturns(l, "raised")

\* Mutant: warmup goes back to the navigation whenever it raises.
WarmedUntilItLoads(l) ==
    /\ leg[l].pc = "warmGoto"
    /\ \/ UNCHANGED vars
       \/ \E result \in {"abck", "no_abck"} :
            /\ ctx \in up
            /\ warm' = TRUE
            /\ cleared' = IF result = "abck" THEN ctx ELSE cleared
            /\ UNCHANGED <<ctx, browser, no_cdp, up, launched, crashes, reaper, idle>>
            /\ WarmupReturns(l, result)

\* The homepage has loaded, with or without _abck, or something raised.
Warmed(l) ==
    /\ leg[l].pc = "warmGoto"
    /\ \E result \in {"abck", "no_abck", "raised"} :
         /\ result # "raised" => ctx \in up
         /\ warm' = (result # "raised" \/ warm)
         /\ cleared' = IF result = "abck" THEN ctx ELSE cleared
         /\ UNCHANGED <<ctx, browser, no_cdp, up, launched, crashes, reaper, idle>>
         /\ WarmupReturns(l, result)

-----------------------------------------------------------------------------
(* ensure's fallback off CDP *)

DropLocked(l) ==
    /\ leg[l].pc = "dropLock" /\ Holds(l)
    /\ TeardownBegin(lockq)
    /\ At(l, "dropTear")

DropTorn(l) ==
    /\ leg[l].pc = "dropTear"
    /\ TeardownEnd
    /\ no_cdp' = TRUE
    /\ At(l, "dropLaunch")
    /\ UNCHANGED lockq

DropLaunch(l) ==
    /\ leg[l].pc = "dropLaunch"
    /\ \/ /\ \E mode \in Modes : Launches(mode)
          /\ lockq' = Append(Tail(lockq), l)
          /\ Warms(l, "forced")
       \/ /\ LaunchFails
          /\ lockq' = Tail(lockq)
          /\ Ends(l, "failed")

-----------------------------------------------------------------------------
(* close, as recover calls it *)

CloseLocked(l) ==
    /\ leg[l].pc = "closeLock" /\ Holds(l)
    /\ TeardownBegin(lockq)
    /\ At(l, "closeTear")

CloseTorn(l) ==
    /\ leg[l].pc = "closeTear"
    /\ TeardownEnd
    /\ lockq' = Append(Tail(lockq), l)
    /\ At(l, "ensureLock")
    /\ UNCHANGED no_cdp

-----------------------------------------------------------------------------
(* page() and slot() *)

PageLocked(l) ==
    /\ leg[l].pc = "pageLock" /\ Head(pageq) = l
    /\ IF leg[l].got \in up
       THEN At(l, "onPage") /\ UNCHANGED pageq
       ELSE Ends(l, "failed") /\ pageq' = Tail(pageq)
    /\ UNCHANGED <<lockq, handles, world, reaper, idle>>

PageDone(l) ==
    /\ leg[l].pc = "onPage"
    /\ \E out \in {"ok", "failed"} : (out = "ok" => leg[l].got \in up) /\ Ends(l, out)
    /\ pageq' = Tail(pageq)
    /\ idle' = 0
    /\ UNCHANGED <<lockq, handles, world, reaper>>

SlotEntered(l) ==
    /\ leg[l].pc = "slotWait"
    /\ Cardinality({m \in Leg : leg[m].pc = "onSlot"}) < Slots
    /\ At(l, "onSlot")
    /\ UNCHANGED <<lockq, pageq, handles, world, reaper, idle>>

SlotDone(l) ==
    /\ leg[l].pc = "onSlot"
    /\ \E out \in {"ok", "failed"} :
         /\ out = "ok" => leg[l].got \in up
         /\ Ends(l, out)
         /\ idle' = IF out = "ok" THEN 0 ELSE idle
    /\ UNCHANGED <<lockq, pageq, handles, world, reaper>>

-----------------------------------------------------------------------------
(* A coroutine starts.  An uncontended lock is taken without a suspension. *)

StartEnsure(l) ==
    IF lockq = <<>> THEN Ensure(l, <<l>>)
    ELSE /\ At(l, "ensureLock")
         /\ lockq' = Append(lockq, l)
         /\ UNCHANGED <<pageq, handles, world, reaper, idle>>

StartWarmup(l) ==
    \/ /\ warm
       /\ Ends(l, "ok")
       /\ UNCHANGED <<lockq, pageq, handles, world, reaper, idle>>
    \/ /\ ~warm /\ ctx = None
       /\ StartEnsure(l)
    \/ /\ ~warm /\ ctx # None
       /\ Warms(l, "status")
       /\ lockq' = Append(lockq, l)
       /\ UNCHANGED <<pageq, handles, world, reaper, idle>>

StartClose(l) ==
    /\ At(l, "closeLock")
    /\ lockq' = Append(lockq, l)
    /\ UNCHANGED <<pageq, handles, world, reaper, idle>>

\* The server handles one tool call at a time: mmt_setup_status is alone.
Start(l) ==
    /\ leg[l].pc = "idle"
    /\ \A m \in Busy : Role[m] # "status" /\ Role[l] # "status"
    /\ CASE Role[l] = "status"  -> StartWarmup(l)
         [] Role[l] = "recover" -> StartClose(l)
         [] OTHER               -> StartEnsure(l)

-----------------------------------------------------------------------------
(* The idle reaper *)

\* Mutant: the reaper looks at the clock only.
ReaperWakesBlind ==
    /\ reaper = "due"
    /\ IF idle > IdleTimeout
       THEN reaper' = "queued" /\ lockq' = Append(lockq, Reaper)
       ELSE reaper' = "asleep" /\ UNCHANGED lockq
    /\ UNCHANGED <<idle, pageq, leg, handles, world>>

\* Its timer has fired.  Without a context it returns and stays in _idle_task.
ReaperWakes ==
    /\ reaper = "due"
    /\ CASE ctx = None -> reaper' = "ended" /\ UNCHANGED <<lockq, idle>>
         [] ctx # None /\ Inflight # {} ->
               reaper' = "asleep" /\ idle' = 0 /\ UNCHANGED lockq
         [] ctx # None /\ Inflight = {} /\ idle > IdleTimeout ->
               reaper' = "queued" /\ lockq' = Append(lockq, Reaper) /\ UNCHANGED idle
         [] OTHER -> reaper' = "asleep" /\ UNCHANGED <<lockq, idle>>
    /\ UNCHANGED <<pageq, leg, handles, world>>

\* It holds the lock and tears down: _teardown cancels _idle_task, which is the task
\* running it, so the first await (the browser's close, already sent) raises
\* CancelledError and nothing after it happens.  The browser may or may not go.
ReaperReaps ==
    /\ Holds(Reaper)
    /\ warm' = FALSE /\ no_cdp' = FALSE /\ reaper' = "none"
    /\ lockq' = Tail(lockq)
    /\ up' \in {up, up \ {ctx}}
    /\ UNCHANGED <<pageq, ctx, browser, idle, leg, cleared, launched, crashes>>

-----------------------------------------------------------------------------
(* The browser and the clock *)

\* Chrome crashes, or the user closes its window.
Crash ==
    /\ crashes < MaxCrash
    /\ \E b \in up : up' = up \ {b}
    /\ crashes' = crashes + 1
    /\ UNCHANGED <<lockq, pageq, handles, reaper, idle, leg, cleared, launched>>

\* A leg suspended in an await of its own, as against one that waits behind the page
\* or the slots of others: such an await has a timeout far below the idle timeout.
Brisk(l) ==
    CASE leg[l].pc \in {"idle", "onPage", "onSlot"} -> FALSE
      [] leg[l].pc = "pageLock" -> Head(pageq) = l
      [] leg[l].pc = "slotWait" -> Cardinality({m \in Leg : leg[m].pc = "onSlot"}) < Slots
      [] OTHER                  -> TRUE

\* A tick is the reaper's period, asyncio.sleep(30).
Tick ==
    /\ reaper # "due"
    /\ idle <= IdleTimeout \/ reaper = "asleep"
    /\ (\E l \in Leg : Brisk(l)) => idle < IdleTimeout
    /\ idle' = IF idle <= IdleTimeout THEN idle + 1 ELSE idle
    /\ reaper' = IF reaper = "asleep" THEN "due" ELSE reaper
    /\ UNCHANGED <<lockq, pageq, handles, leg, world>>

Work(l) == \/ EnsureLocked(l) \/ EnsureTorn(l)
           \/ WarmLocked(l) \/ WarmSkipped(l) \/ WarmLaunchFails(l) \/ Warmed(l)
           \/ DropLocked(l) \/ DropTorn(l) \/ DropLaunch(l)
           \/ CloseLocked(l) \/ CloseTorn(l)
           \/ PageLocked(l) \/ PageDone(l) \/ SlotEntered(l) \/ SlotDone(l)

Next == \/ \E l \in Leg : Start(l) \/ Work(l)
        \/ ReaperWakes \/ ReaperReaps
        \/ Crash
        \/ Tick

Spec == Init /\ [][Next]_vars

\* Every await ends (navigation, request and attach all carry timeouts, a cancelled
\* or failed one raises), and the event loop runs what is ready.  Nothing makes a
\* user call and no browser has to crash.
Fairness == /\ \A l \in Leg : WF_vars(Work(l))
            /\ WF_vars(ReaperWakes) /\ WF_vars(ReaperReaps) /\ WF_vars(Tick)

FairSpec == Spec /\ Fairness

-----------------------------------------------------------------------------
(* Properties *)

\* The warm flag never outlives the context that was warmed, whatever closes it
\* while others wait for the lock; warmup's two early returns rest on it
\* (session.py:355, 362, 453).
WarmMeansContext == warm => ctx # None

\* One browser on the profile.  A second one beside it is the about:blank tab storm
\* (session.py:474-487): nobody launches before the last browser is gone, whichever
\* of ensure, warmup and the fallback launches, and whatever tore the last one down.
OneBrowser == Cardinality(up) <= 1 /\ up \subseteq {ctx}

\* The reaper never outlives its context: whoever tears a browser down, and however
\* the lock's queue stood, no reaper is left to find no context.  One that does ends
\* and stays in _idle_task, so the next browser would never be watched
\* (session.py:452, 506, 513).
ReaperWatchesContext ==
    reaper # "none" => reaper # "ended" /\ ctx # None

\* Idle means idle: the reaper never closes the browser under a leg that holds a page
\* or a slot, or that has just been given the context and is about to (RUNBOOK.md:58).
ReaperSparesWork ==
    [][ReaperReaps => \A l \in Leg : leg[l].pc \notin
                        {"onPage", "onSlot", "pageLock", "slotWait"}]_vars

\* A call is never handed, by ensure's fast path, a context whose browser has gone: a
\* disconnected browser is detected and relaunched rather than failing every later
\* call (docs/DESIGN.md:83-86), and after an idle reap the next call relaunches
\* transparently (docs/DESIGN.md:96).
HandsOutLive ==
    [][\A l \in Leg :
          leg[l].pc \in {"idle", "ensureLock"} /\ leg'[l].pc \in {"pageLock", "slotWait"}
             => ctx \in up]_vars

\* No operation waits for ever: the lock is not reentrant, and ensure, warmup and the
\* fallback take it again and again around each other.
EveryOpReturns == \A l \in Leg : leg[l].pc # "idle" ~> leg[l].pc = "idle"

=============================================================================

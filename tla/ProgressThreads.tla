--------------------------- MODULE ProgressThreads ---------------------------
(***************************************************************************)
(* Progress threads (runtime/ww_progress_threads.c): for each name, a      *)
(* tracker with an event base and, unless it is paused, a thread that runs *)
(* the base's events.  One caller at a time inits, finalizes, pauses and   *)
(* resumes; stopping a thread takes three steps (clear ev_active, break    *)
(* the loop, join), between which the thread goes on.                      *)
(*                                                                         *)
(* The loop is libevent's event_base_loop(EVLOOP_ONCE), which is external: *)
(* entering it clears the break flag, it looks at the flag before it waits *)
(* and after each callback, and it returns once it has run what was ready. *)
(* The timer event that keeps the base busy ends every wait within an      *)
(* hour, so a wait may end at any time.                                    *)
(***************************************************************************)
EXTENDS Integers, FiniteSets

CONSTANTS
  Names,         \* names of progress threads; NULL is the shared one's name
  Threads,       \* threads of the operating system
  NoThread,
  NoName,
  StartMayFail,  \* whether pthread_create may fail on a resume
  MaxHolders,    \* bound on the inits of each name not yet finalized
  MaxEvents      \* bound on the events of each base that have not been run

ASSUME NameAssumption == NoName \notin Names /\ NoThread \notin Threads
ASSUME BoundAssumption ==
  MaxHolders \in [Names -> Nat] /\ MaxEvents \in [Names -> Nat] /\ StartMayFail \in BOOLEAN

VARIABLES
  tracker,  \* the ww_progress_tracker_t of each name
  base,     \* its event base
  thread,   \* what each thread is doing, and the tracker it was given
  caller,   \* the thread that calls the functions below
  holders   \* inits of each name not yet matched by a finalize

vars == <<tracker, base, thread, caller, holders>>

Tracker_t == [exists    : BOOLEAN,   \* on the tracking list; freed otherwise
              refcount  : Nat,
              ev_active : BOOLEAN,
              engine    : Threads \cup {NoThread}]

NoTracker == [exists |-> FALSE, refcount |-> 0, ev_active |-> FALSE, engine |-> NoThread]

EventBase_t == [event_break : BOOLEAN,
                pending     : Nat,   \* events that are ready to run
                active      : Nat]   \* those of them the loop has taken up

NewBase == [event_break |-> FALSE, pending |-> 0, active |-> 0]

\* check: about to read ev_active.  enter, wait, poll, callback: in the loop,
\* at its start, before and in the wait, running an event.  exited: to be joined.
ThreadStates == {"free", "check", "enter", "wait", "poll", "callback", "exited"}

Free == [pc |-> "free", trk |-> NoName]
Idle == [pc |-> "idle", op |-> "none", name |-> NoName]

TypeOK ==
  /\ tracker \in [Names -> Tracker_t]
  /\ base \in [Names -> EventBase_t]
  /\ thread \in [Threads -> [pc : ThreadStates, trk : Names \cup {NoName}]]
  /\ caller \in [pc : {"idle", "break", "join"}, op : {"none", "pause", "finalize"},
                 name : Names \cup {NoName}]
  /\ holders \in [Names -> Nat]

Init == /\ tracker = [n \in Names |-> NoTracker]
        /\ base = [n \in Names |-> NewBase]
        /\ thread = [t \in Threads |-> Free]
        /\ caller = Idle
        /\ holders = [n \in Names |-> 0]
-----------------------------------------------------------------------------
(* The caller.  A call for a name that is not on the list changes nothing. *)

\* start_progress_engine, when the thread can be created.
StartEngine(n, t, trk) ==
  /\ thread[t].pc = "free"
  /\ thread' = [thread EXCEPT ![t] = [pc |-> "check", trk |-> n]]
  /\ tracker' = [tracker EXCEPT ![n] = [trk EXCEPT !.ev_active = TRUE, !.engine = t]]

\* tracker_destructor.
ReleaseTracker(n) == /\ tracker' = [tracker EXCEPT ![n] = NoTracker]
                     /\ base' = [base EXCEPT ![n] = NewBase]

\* Mutation: an init of an existing tracker is not counted.
ThreadInit_Uncounted(n) ==
  /\ caller.pc = "idle" /\ holders[n] < MaxHolders[n]
  /\ \/ tracker[n].exists /\ UNCHANGED <<tracker, thread>>
     \/ /\ ~tracker[n].exists
        /\ \E t \in Threads : StartEngine(n, t, [NoTracker EXCEPT !.exists = TRUE, !.refcount = 1])
  /\ holders' = [holders EXCEPT ![n] = @ + 1]
  /\ UNCHANGED <<base, caller>>

\* ww_progress_thread_init: one more user of a tracker, or a new tracker.  If
\* its thread cannot be created the tracker is released again.
ThreadInit(n) ==
  /\ caller.pc = "idle" /\ holders[n] < MaxHolders[n]
  /\ \/ /\ tracker[n].exists
        /\ tracker' = [tracker EXCEPT ![n].refcount = @ + 1]
        /\ UNCHANGED thread
     \/ /\ ~tracker[n].exists
        /\ \E t \in Threads : StartEngine(n, t, [NoTracker EXCEPT !.exists = TRUE, !.refcount = 1])
  /\ holders' = [holders EXCEPT ![n] = @ + 1]
  /\ UNCHANGED <<base, caller>>

\* Mutation: the thread is told to stop, and not waited for.
StopEngine_Tell(n, trk, op) ==
  /\ tracker' = [tracker EXCEPT ![n] = [trk EXCEPT !.ev_active = FALSE]]
  /\ UNCHANGED caller

\* The first step of stop_progress_engine.
StopEngine(n, trk, op) ==
  /\ tracker' = [tracker EXCEPT ![n] = [trk EXCEPT !.ev_active = FALSE]]
  /\ caller' = [pc |-> "break", op |-> op, name |-> n]

\* ww_progress_thread_finalize, up to the stop.
ThreadFinalize(n) ==
  /\ caller.pc = "idle" /\ tracker[n].exists /\ holders[n] > 0
  /\ LET trk == [tracker[n] EXCEPT !.refcount = @ - 1]
     IN  \/ /\ trk.refcount > 0
            /\ tracker' = [tracker EXCEPT ![n] = trk]
            /\ UNCHANGED <<base, caller>>
         \/ /\ trk.refcount = 0 /\ trk.ev_active
            /\ StopEngine(n, trk, "finalize")
            /\ UNCHANGED base
         \/ /\ trk.refcount = 0 /\ ~trk.ev_active
            /\ ReleaseTracker(n)
            /\ UNCHANGED caller
  /\ holders' = [holders EXCEPT ![n] = @ - 1]
  /\ UNCHANGED thread

\* ww_progress_thread_pause, up to the stop; there is nothing to stop twice.
Pause(n) ==
  /\ caller.pc = "idle" /\ tracker[n].exists /\ tracker[n].ev_active
  /\ StopEngine(n, tracker[n], "pause")
  /\ UNCHANGED <<base, thread, holders>>

\* ww_progress_thread_resume: refused (RESOURCE_BUSY) while ev_active is set.
\* ev_active is set before the thread is created, and stays if it cannot be.
Resume(n) ==
  /\ caller.pc = "idle" /\ tracker[n].exists /\ ~tracker[n].ev_active
  /\ \/ \E t \in Threads : StartEngine(n, t, tracker[n])
     \/ /\ StartMayFail
        /\ tracker' = [tracker EXCEPT ![n].ev_active = TRUE]
        /\ UNCHANGED thread
  /\ UNCHANGED <<base, caller, holders>>

LoopBreak ==
  /\ caller.pc = "break"
  /\ base' = [base EXCEPT ![caller.name].event_break = TRUE]
  /\ caller' = [caller EXCEPT !.pc = "join"]
  /\ UNCHANGED <<tracker, thread, holders>>

\* Mutation: the thread is released without waiting for it to exit.
Join_NoWait ==
  /\ caller.pc = "join"
  /\ IF caller.op = "finalize" THEN ReleaseTracker(caller.name)
     ELSE /\ tracker' = [tracker EXCEPT ![caller.name].engine = NoThread]
          /\ UNCHANGED base
  /\ caller' = Idle
  /\ UNCHANGED <<thread, holders>>

\* ww_thread_join, which waits for the thread to exit, and the rest of the
\* call: finalize releases the tracker.  Joining when no thread was created
\* is undefined; here it returns.
Join ==
  /\ caller.pc = "join"
  /\ LET n == caller.name
         t == tracker[n].engine
     IN  /\ t # NoThread => thread[t].pc = "exited"
         /\ thread' = IF t = NoThread THEN thread ELSE [thread EXCEPT ![t] = Free]
         /\ IF caller.op = "finalize" THEN ReleaseTracker(n)
            ELSE /\ tracker' = [tracker EXCEPT ![n].engine = NoThread]
                 /\ UNCHANGED base
  /\ caller' = Idle
  /\ UNCHANGED holders

\* A user of the base makes an event ready (a timer, a descriptor, a call).
Post(n) ==
  /\ holders[n] > 0
  /\ base[n].pending + base[n].active < MaxEvents[n]
  /\ base' = [base EXCEPT ![n].pending = @ + 1]
  /\ UNCHANGED <<tracker, thread, caller, holders>>
-----------------------------------------------------------------------------
(* progress_engine, and the loop it calls. *)

At(t, pc) == thread[t].pc = pc
Base(t) == base[thread[t].trk]
GoTo(t, pc) == thread' = [thread EXCEPT ![t].pc = pc]
SetBase(t, b) == base' = [base EXCEPT ![thread[t].trk] = b]

\* Mutation: the thread goes by the loop's break flag.
Check_Break(t) ==
  /\ At(t, "check")
  /\ GoTo(t, IF Base(t).event_break THEN "exited" ELSE "enter")
  /\ UNCHANGED base

\* while (trk->ev_active)
Check(t) ==
  /\ At(t, "check")
  /\ GoTo(t, IF tracker[thread[t].trk].ev_active THEN "enter" ELSE "exited")
  /\ UNCHANGED base

EnterLoop(t) ==
  /\ At(t, "enter")
  /\ SetBase(t, [Base(t) EXCEPT !.event_break = FALSE])
  /\ GoTo(t, "wait")

Wait(t) ==
  /\ At(t, "wait")
  /\ GoTo(t, IF Base(t).event_break THEN "check" ELSE "poll")
  /\ UNCHANGED base

\* Mutation: what a break has left in the queue is not looked at again.
Wake_Fresh(t) ==
  /\ At(t, "poll")
  /\ IF Base(t).pending = 0
     THEN GoTo(t, "check") /\ UNCHANGED base
     ELSE /\ GoTo(t, "callback")
          /\ SetBase(t, [Base(t) EXCEPT !.pending = 0, !.active = Base(t).pending - 1])

\* The wait ends; the first of the ready events starts.
Wake(t) ==
  /\ At(t, "poll")
  /\ LET ready == Base(t).pending + Base(t).active
     IN  IF ready = 0
         THEN GoTo(t, "check") /\ UNCHANGED base
         ELSE /\ GoTo(t, "callback")
              /\ SetBase(t, [Base(t) EXCEPT !.pending = 0, !.active = ready - 1])

\* An event's callback returns; the next one starts unless the loop was broken.
CallbackDone(t) ==
  /\ At(t, "callback")
  /\ IF Base(t).event_break \/ Base(t).active = 0
     THEN GoTo(t, "check") /\ UNCHANGED base
     ELSE SetBase(t, [Base(t) EXCEPT !.active = @ - 1]) /\ UNCHANGED thread

Engine(t) ==
  /\ Check(t) \/ EnterLoop(t) \/ Wait(t) \/ Wake(t) \/ CallbackDone(t)
  /\ UNCHANGED <<tracker, caller, holders>>

Next == \/ \E n \in Names : \/ ThreadInit(n) \/ ThreadFinalize(n)
                            \/ Pause(n) \/ Resume(n) \/ Post(n)
        \/ LoopBreak \/ Join
        \/ \E t \in Threads : Engine(t)

Spec == Init /\ [][Next]_vars

\* A stop that has begun runs on, and a thread runs on: it is scheduled, its
\* waits end when the timer does, and callbacks return.
EngineFairness == WF_vars(LoopBreak \/ Join) /\ \A t \in Threads : WF_vars(Engine(t))
FairSpec == Spec /\ EngineFairness
-----------------------------------------------------------------------------
(* Correctness. *)

Live(t) == thread[t].pc \notin {"free", "exited"}
Stopping(n) == caller.pc # "idle" /\ caller.name = n

\* A tracker lives exactly as long as some init of its name has not been
\* finalized, and its count is the number of those, so an event base that was
\* handed out is never freed under a holder (ww_progress_threads.c:161, 221).
\* It outlives the last holder only while its thread is being stopped.
RefcountExact ==
  \A n \in Names :
    /\ tracker[n].refcount = holders[n]
    /\ tracker[n].exists <=> holders[n] > 0 \/ Stopping(n)

\* A live thread reads its tracker and base, so the tracker has not been
\* freed, and no base has two threads, over any sequence of pauses, resumes
\* and finalizes (stop_progress_engine, progress_engine).
NoOrphanThread ==
  \A t \in Threads : Live(t) => /\ tracker[thread[t].trk].exists
                                /\ tracker[thread[t].trk].engine = t

\* Once pause has returned no event of the base runs until a resume
\* (ww_progress_thread_pause).
PausedRunsNothing ==
  \A n \in Names : ~tracker[n].ev_active /\ ~Stopping(n) =>
                     \A t \in Threads : thread[t].trk = n => ~Live(t)

\* A pause or a last finalize returns, although the break may come before the
\* loop is entered and be lost (stop_progress_engine).
StopTerminates == caller.pc # "idle" ~> caller.pc = "idle"

\* The events of a base that has a thread are taken up and run, unless it is
\* stopped; also those that a break left unrun, in the loop's queue, when it
\* came during a callback before them (progress_engine).
EventsProcessed ==
  \A n \in Names :
    /\ base[n].pending > 0 /\ tracker[n].engine # NoThread
         ~> base[n].pending = 0 \/ ~tracker[n].ev_active
    /\ base[n].active > 0 /\ tracker[n].engine # NoThread
         ~> base[n].active = 0 \/ ~tracker[n].ev_active

\* "break the event loop - this will cause the loop to exit upon completion of
\* any current event" (ww_progress_threads.c:118): no other event starts.
BreakStopsEvents ==
  [][\A t \in Threads : caller.pc = "join" /\ thread[t].trk = caller.name /\ ~At(t, "callback")
                          => thread'[t].pc # "callback"]_vars

\* "Restart a previously-paused progress thread", which "will return
\* WW_ERR_NOT_FOUND if the progress thread name does not exist; WW_SUCCESS
\* otherwise" (ww_progress_threads.h:59): whatever has no thread can get one.
StoppedCanResume ==
  \A n \in Names : tracker[n].exists /\ tracker[n].engine = NoThread => ~tracker[n].ev_active
=============================================================================

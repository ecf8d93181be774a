----------------------- MODULE ProgressThreads_proofs -----------------------
(***************************************************************************)
(* Proofs about ProgressThreads for every set of names and of threads.     *)
(* The invariant ties the three actors together: each thread that is not   *)
(* free is the engine of the tracker it was given and of no other, a stop  *)
(* in progress has cleared ev_active of a tracker that is still there, and *)
(* a tracker that is neither active nor being stopped has no engine.       *)
(***************************************************************************)
EXTENDS ProgressThreads, TLAPS

\* Threads and trackers point at each other.
Paired ==
  /\ \A t \in Threads : thread[t].pc # "free" =>
       /\ thread[t].trk \in Names
       /\ tracker[thread[t].trk].exists
       /\ tracker[thread[t].trk].engine = t
  /\ \A n \in Names : tracker[n].engine # NoThread =>
       /\ thread[tracker[n].engine].pc # "free"
       /\ thread[tracker[n].engine].trk = n

\* What the caller is in the middle of.
StopInv ==
  IF caller.pc = "idle" THEN caller.name = NoName
  ELSE /\ caller.name \in Names
       /\ caller.op \in {"pause", "finalize"}
       /\ tracker[caller.name].exists
       /\ ~tracker[caller.name].ev_active
       /\ caller.op = "pause" <=> tracker[caller.name].refcount > 0

PausedHasNoEngine ==
  \A n \in Names : ~tracker[n].ev_active /\ ~Stopping(n) => tracker[n].engine = NoThread

IInv == TypeOK /\ RefcountExact /\ Paired /\ StopInv /\ PausedHasNoEngine

LEMMA InitIInv == Init => IInv
<1> SUFFICES ASSUME Init PROVE IInv
  OBVIOUS
<1>1. TypeOK
  BY DEF Init, TypeOK, Tracker_t, NoTracker, EventBase_t, NewBase, ThreadStates, Free, Idle
<1>2. RefcountExact /\ StopInv /\ PausedHasNoEngine
  BY DEF Init, RefcountExact, StopInv, PausedHasNoEngine, Stopping, NoTracker, Idle
<1>3. Paired
  BY DEF Init, Paired, NoTracker, Free
<1> QED BY <1>1, <1>2, <1>3 DEF IInv

\* Starting a thread for a tracker that has none.
LEMMA StartEnginePaired ==
  ASSUME IInv, NEW n \in Names, NEW t \in Threads, NEW trk \in Tracker_t, trk.exists,
         tracker[n].engine = NoThread, StartEngine(n, t, trk)
  PROVE  /\ tracker' \in [Names -> Tracker_t]
         /\ thread' \in [Threads -> [pc : ThreadStates, trk : Names \cup {NoName}]]
         /\ Paired'
         /\ tracker'[n] = [trk EXCEPT !.ev_active = TRUE, !.engine = t]
         /\ \A m \in Names : m # n => tracker'[m] = tracker[m]
<1> DEFINE started == [trk EXCEPT !.ev_active = TRUE, !.engine = t]
<1>1. /\ thread[t].pc = "free"
      /\ thread' = [thread EXCEPT ![t] = [pc |-> "check", trk |-> n]]
      /\ tracker' = [tracker EXCEPT ![n] = started]
  BY DEF StartEngine
<1>2. started \in Tracker_t /\ started.exists /\ started.engine = t
  BY DEF Tracker_t
<1> HIDE DEF started
<1>3. tracker' \in [Names -> Tracker_t] /\ tracker'[n] = started
  BY <1>1, <1>2 DEF IInv, TypeOK
<1>4. thread' \in [Threads -> [pc : ThreadStates, trk : Names \cup {NoName}]]
  BY <1>1 DEF IInv, TypeOK, ThreadStates
<1>5. \A m \in Names : m # n => tracker'[m] = tracker[m]
  BY <1>1 DEF IInv, TypeOK
<1>6. /\ thread'[t].pc = "check" /\ thread'[t].trk = n
      /\ \A u \in Threads : u # t => thread'[u] = thread[u]
  BY <1>1 DEF IInv, TypeOK
<1>7. \A u \in Threads : u # t /\ thread[u].pc # "free" => thread[u].trk # n
  BY NameAssumption DEF IInv, Paired
<1>8. \A m \in Names : tracker[m].engine \in Threads \cup {NoThread} /\ tracker[m].engine # t
  BY <1>1, NameAssumption DEF IInv, TypeOK, Tracker_t, Paired
<1>9. \A u \in Threads : thread'[u].pc # "free" =>
        /\ thread'[u].trk \in Names
        /\ tracker'[thread'[u].trk].exists
        /\ tracker'[thread'[u].trk].engine = u
  BY <1>2, <1>3, <1>5, <1>6, <1>7 DEF IInv, Paired
<1>10. \A m \in Names : tracker'[m].engine # NoThread =>
         /\ thread'[tracker'[m].engine].pc # "free"
         /\ thread'[tracker'[m].engine].trk = m
  BY <1>2, <1>3, <1>5, <1>6, <1>8 DEF IInv, Paired
<1> QED BY <1>3, <1>4, <1>5, <1>9, <1>10 DEF Paired, started

LEMMA ThreadInitIInv ==
  ASSUME IInv, NEW n \in Names, ThreadInit(n)
  PROVE  IInv'
<1>1. /\ caller.pc = "idle" /\ caller' = caller /\ base' = base
      /\ holders' = [holders EXCEPT ![n] = @ + 1]
      /\ holders' \in [Names -> Nat]
  BY DEF ThreadInit, IInv, TypeOK
<1>2. CASE tracker[n].exists
  <2>1. tracker' = [tracker EXCEPT ![n].refcount = @ + 1] /\ thread' = thread
    BY <1>2 DEF ThreadInit
  <2>2. TypeOK'
    BY <1>1, <2>1 DEF IInv, TypeOK, Tracker_t
  <2>3. RefcountExact'
    BY <1>1, <1>2, <2>1 DEF IInv, TypeOK, Tracker_t, RefcountExact, Stopping
  <2>4. Paired'
    BY <2>1 DEF IInv, TypeOK, Tracker_t, Paired
  <2>5. StopInv' /\ PausedHasNoEngine'
    BY <1>1, <2>1 DEF IInv, TypeOK, Tracker_t, StopInv, PausedHasNoEngine, Stopping
  <2> QED BY <2>2, <2>3, <2>4, <2>5 DEF IInv
<1>3. CASE ~tracker[n].exists
  <2> DEFINE trk == [NoTracker EXCEPT !.exists = TRUE, !.refcount = 1]
  <2>1. PICK t \in Threads : StartEngine(n, t, trk)
    BY <1>3 DEF ThreadInit
  <2>2. trk \in Tracker_t /\ trk.exists /\ trk.refcount = 1
    BY DEF NoTracker, Tracker_t
  <2>3. tracker[n].engine = NoThread
    BY <1>3 DEF IInv, TypeOK, Tracker_t, Paired
  <2> HIDE DEF trk
  <2>4. /\ tracker' \in [Names -> Tracker_t]
        /\ thread' \in [Threads -> [pc : ThreadStates, trk : Names \cup {NoName}]]
        /\ Paired'
        /\ tracker'[n] = [trk EXCEPT !.ev_active = TRUE, !.engine = t]
        /\ \A m \in Names : m # n => tracker'[m] = tracker[m]
    BY <2>1, <2>2, <2>3, StartEnginePaired
  <2>5. tracker'[n].exists /\ tracker'[n].refcount = 1 /\ tracker'[n].ev_active
    BY <2>2, <2>4 DEF Tracker_t
  <2>6. TypeOK'
    BY <1>1, <2>4 DEF IInv, TypeOK
  <2>7. RefcountExact'
    <3>1. holders[n] = 0 /\ holders'[n] = 1 /\ \A m \in Names : m # n => holders'[m] = holders[m]
      BY <1>1, <1>3 DEF IInv, TypeOK, RefcountExact
    <3>2. caller.pc = "idle" /\ caller'.pc = "idle"
      BY <1>1
    <3>3. tracker'[n].refcount = holders'[n] /\ tracker'[n].exists /\ holders'[n] > 0
      BY <2>5, <3>1
    <3>4. \A m \in Names \ {n} : tracker'[m] = tracker[m] /\ holders'[m] = holders[m]
      BY <2>4, <3>1
    <3> QED BY <3>2, <3>3, <3>4 DEF IInv, RefcountExact, Stopping
  <2>8. StopInv' /\ PausedHasNoEngine'
    BY <1>1, <2>4, <2>5 DEF IInv, StopInv, PausedHasNoEngine, Stopping
  <2> QED BY <2>4, <2>6, <2>7, <2>8 DEF IInv
<1> QED BY <1>2, <1>3

\* Beginning to stop a tracker that still has its engine's pairing.
LEMMA StopEngineIInv ==
  ASSUME IInv, NEW n \in Names, NEW c \in Nat, NEW op \in {"pause", "finalize"},
         caller.pc = "idle", tracker[n].exists, op = "pause" <=> c > 0,
         StopEngine(n, [tracker[n] EXCEPT !.refcount = c], op),
         holders' = [holders EXCEPT ![n] = c], base' = base, thread' = thread
  PROVE  IInv'
<1>1. tracker' = [tracker EXCEPT ![n] = [[tracker[n] EXCEPT !.refcount = c] EXCEPT !.ev_active = FALSE]]
  BY DEF StopEngine
<1>2. caller' = [pc |-> "break", op |-> op, name |-> n]
  BY DEF StopEngine
<1>3. /\ tracker'[n] = [exists |-> TRUE, refcount |-> c, ev_active |-> FALSE, engine |-> tracker[n].engine]
      /\ \A m \in Names : m # n => tracker'[m] = tracker[m]
      /\ tracker' \in [Names -> Tracker_t]
  BY <1>1 DEF IInv, TypeOK, Tracker_t
<1>4. TypeOK'
  BY <1>2, <1>3 DEF IInv, TypeOK
<1>5. RefcountExact'
  BY <1>2, <1>3 DEF IInv, TypeOK, RefcountExact, Stopping
<1>6. Paired'
  BY <1>3 DEF IInv, Paired
<1>7. StopInv'
  BY <1>2, <1>3 DEF StopInv
<1>8. PausedHasNoEngine'
  BY <1>2, <1>3 DEF IInv, PausedHasNoEngine, Stopping
<1> QED BY <1>4, <1>5, <1>6, <1>7, <1>8 DEF IInv

\* Freeing a tracker that has no engine, or whose engine has been joined.
LEMMA ReleaseTrackerPaired ==
  ASSUME IInv, NEW n \in Names, ReleaseTracker(n),
         \/ tracker[n].engine = NoThread /\ thread' = thread
         \/ /\ tracker[n].engine # NoThread
            /\ thread' = [thread EXCEPT ![tracker[n].engine] = Free]
  PROVE  /\ tracker' \in [Names -> Tracker_t]
         /\ base' \in [Names -> EventBase_t]
         /\ thread' \in [Threads -> [pc : ThreadStates, trk : Names \cup {NoName}]]
         /\ tracker'[n] = NoTracker
         /\ \A m \in Names : m # n => tracker'[m] = tracker[m]
         /\ Paired'
<1>1. NoTracker \in Tracker_t /\ NoTracker.engine = NoThread /\ NewBase \in EventBase_t
  BY DEF NoTracker, NewBase, Tracker_t, EventBase_t
<1>2. /\ tracker'[n] = NoTracker
      /\ \A m \in Names : m # n => tracker'[m] = tracker[m]
      /\ tracker' \in [Names -> Tracker_t]
      /\ base' \in [Names -> EventBase_t]
  BY <1>1 DEF ReleaseTracker, IInv, TypeOK
<1>3. thread' \in [Threads -> [pc : ThreadStates, trk : Names \cup {NoName}]]
  BY DEF IInv, TypeOK, Free, ThreadStates, Tracker_t
<1>4. \A t \in Threads : thread'[t].pc # "free" =>
        thread'[t] = thread[t] /\ thread[t].pc # "free" /\ thread[t].trk # n
  BY NameAssumption DEF IInv, TypeOK, Free, Tracker_t, Paired
<1>5. \A m \in Names : m # n /\ tracker[m].engine # NoThread =>
        thread'[tracker[m].engine] = thread[tracker[m].engine]
  BY DEF IInv, TypeOK, Tracker_t, Paired
<1>6. \A t \in Threads : thread'[t].pc # "free" =>
        /\ thread'[t].trk \in Names
        /\ tracker'[thread'[t].trk].exists
        /\ tracker'[thread'[t].trk].engine = t
  BY <1>2, <1>4 DEF IInv, Paired
<1>7. \A m \in Names : tracker'[m].engine # NoThread =>
        /\ thread'[tracker'[m].engine].pc # "free"
        /\ thread'[tracker'[m].engine].trk = m
  BY <1>1, <1>2, <1>5 DEF IInv, Paired
<1> QED BY <1>2, <1>3, <1>6, <1>7 DEF Paired

LEMMA ThreadFinalizeIInv ==
  ASSUME IInv, NEW n \in Names, ThreadFinalize(n)
  PROVE  IInv'
<1> DEFINE c == tracker[n].refcount - 1
           trk == [tracker[n] EXCEPT !.refcount = @ - 1]
<1>1. /\ caller.pc = "idle" /\ tracker[n].exists /\ holders[n] > 0
      /\ holders' = [holders EXCEPT ![n] = @ - 1] /\ thread' = thread
  BY DEF ThreadFinalize
<1>2. c \in Nat /\ holders[n] = c + 1 /\ tracker[n] \in Tracker_t
  BY <1>1 DEF IInv, TypeOK, RefcountExact
<1>3. trk = [tracker[n] EXCEPT !.refcount = c] /\ trk.refcount = c
      /\ trk.ev_active = tracker[n].ev_active /\ trk.exists /\ trk.engine = tracker[n].engine
      /\ trk \in Tracker_t
  BY <1>1, <1>2 DEF Tracker_t
<1>4. holders' = [holders EXCEPT ![n] = c] /\ holders' \in [Names -> Nat]
  <2>1. holders[n] - 1 = c
    BY <1>2
  <2> HIDE DEF c, trk
  <2> QED BY <1>1, <1>2, <2>1 DEF IInv, TypeOK
<1>5. \/ trk.refcount > 0 /\ tracker' = [tracker EXCEPT ![n] = trk] /\ UNCHANGED <<base, caller>>
      \/ trk.refcount = 0 /\ trk.ev_active /\ StopEngine(n, trk, "finalize") /\ base' = base
      \/ trk.refcount = 0 /\ ~trk.ev_active /\ ReleaseTracker(n) /\ caller' = caller
  BY DEF ThreadFinalize
<1> HIDE DEF trk, c
<1>6. CASE trk.refcount > 0 /\ tracker' = [tracker EXCEPT ![n] = trk] /\ UNCHANGED <<base, caller>>
  <2>1. /\ tracker'[n] = trk /\ \A m \in Names : m # n => tracker'[m] = tracker[m]
        /\ tracker'[n].exists /\ tracker'[n].engine = tracker[n].engine
    BY <1>3, <1>6 DEF IInv, TypeOK
  <2>2. TypeOK'
    BY <1>1, <1>3, <1>4, <1>6 DEF IInv, TypeOK
  <2>3. RefcountExact'
    <3>1. caller.pc = "idle" /\ caller'.pc = "idle"
      BY <1>1, <1>6
    <3>2. \A m \in Names \ {n} : tracker'[m] = tracker[m] /\ holders'[m] = holders[m]
      BY <1>4, <2>1 DEF IInv, TypeOK
    <3>3. holders'[n] = c
      BY <1>4 DEF IInv, TypeOK
    <3>4. tracker'[n].refcount = holders'[n] /\ tracker'[n].exists /\ holders'[n] > 0
      BY <1>3, <1>6, <2>1, <3>3
    <3> QED BY <3>1, <3>2, <3>4 DEF IInv, RefcountExact, Stopping
  <2>4. Paired'
    BY <1>1, <2>1 DEF IInv, Paired
  <2>5. StopInv'
    BY <1>1, <1>6 DEF IInv, StopInv
  <2>6. PausedHasNoEngine'
    BY <1>1, <1>3, <1>6, <2>1 DEF IInv, PausedHasNoEngine, Stopping
  <2> QED BY <2>2, <2>3, <2>4, <2>5, <2>6 DEF IInv
<1>7. CASE trk.refcount = 0 /\ trk.ev_active /\ StopEngine(n, trk, "finalize") /\ base' = base
  <2>1. c = 0 /\ StopEngine(n, [tracker[n] EXCEPT !.refcount = c], "finalize")
    BY <1>3, <1>7
  <2>2. "finalize" \in {"pause", "finalize"} /\ ("finalize" = "pause" <=> c > 0)
    BY <2>1
  <2> QED BY <1>1, <1>2, <1>4, <1>7, <2>1, <2>2, StopEngineIInv
<1>8. CASE trk.refcount = 0 /\ ~trk.ev_active /\ ReleaseTracker(n) /\ caller' = caller
  <2>1. tracker[n].engine = NoThread
    BY <1>1, <1>3, <1>8 DEF IInv, PausedHasNoEngine, Stopping
  <2>2. /\ tracker' \in [Names -> Tracker_t]
        /\ base' \in [Names -> EventBase_t]
        /\ thread' \in [Threads -> [pc : ThreadStates, trk : Names \cup {NoName}]]
        /\ tracker'[n] = NoTracker
        /\ \A m \in Names : m # n => tracker'[m] = tracker[m]
        /\ Paired'
    BY <1>1, <1>8, <2>1, ReleaseTrackerPaired
  <2>3. TypeOK'
    BY <1>4, <1>8, <2>2 DEF IInv, TypeOK
  <2>4. RefcountExact'
    <3>1. caller.pc = "idle" /\ caller'.pc = "idle"
      BY <1>1, <1>8
    <3>2. \A m \in Names \ {n} : tracker'[m] = tracker[m] /\ holders'[m] = holders[m]
      BY <1>4, <2>2 DEF IInv, TypeOK
    <3>3. holders'[n] = 0
      BY <1>3, <1>4, <1>8 DEF IInv, TypeOK
    <3> QED BY <2>2, <3>1, <3>2, <3>3 DEF IInv, RefcountExact, NoTracker, Stopping
  <2>5. StopInv' /\ PausedHasNoEngine'
    BY <1>1, <1>8, <2>2 DEF IInv, StopInv, PausedHasNoEngine, Stopping, NoTracker
  <2> QED BY <2>2, <2>3, <2>4, <2>5 DEF IInv
<1> QED BY <1>5, <1>6, <1>7, <1>8

LEMMA PauseIInv ==
  ASSUME IInv, NEW n \in Names, Pause(n)
  PROVE  IInv'
<1> DEFINE c == tracker[n].refcount
<1>1. /\ caller.pc = "idle" /\ tracker[n].exists /\ StopEngine(n, tracker[n], "pause")
      /\ UNCHANGED <<base, thread, holders>>
  BY DEF Pause
<1>2. /\ c \in Nat /\ c > 0 /\ holders[n] = c /\ tracker[n] \in Tracker_t
  BY <1>1 DEF IInv, TypeOK, Tracker_t, RefcountExact, Stopping
<1>3. /\ tracker[n] = [tracker[n] EXCEPT !.refcount = c]
      /\ holders' = [holders EXCEPT ![n] = c]
  BY <1>1, <1>2 DEF IInv, TypeOK, Tracker_t
<1> HIDE DEF c
<1> QED BY <1>1, <1>2, <1>3, StopEngineIInv

LEMMA ResumeIInv ==
  ASSUME IInv, NEW n \in Names, Resume(n)
  PROVE  IInv'
<1>1. /\ caller.pc = "idle" /\ tracker[n].exists /\ ~tracker[n].ev_active
      /\ UNCHANGED <<base, caller, holders>>
  BY DEF Resume
<1>2. tracker[n].engine = NoThread /\ tracker[n] \in Tracker_t
  BY <1>1 DEF IInv, TypeOK, PausedHasNoEngine, Stopping
<1>3. ASSUME NEW t \in Threads, StartEngine(n, t, tracker[n]) PROVE IInv'
  <2>1. /\ tracker' \in [Names -> Tracker_t]
        /\ thread' \in [Threads -> [pc : ThreadStates, trk : Names \cup {NoName}]]
        /\ Paired'
        /\ tracker'[n] = [tracker[n] EXCEPT !.ev_active = TRUE, !.engine = t]
        /\ \A m \in Names : m # n => tracker'[m] = tracker[m]
    BY <1>1, <1>2, <1>3, StartEnginePaired
  <2>2. /\ tracker'[n].exists /\ tracker'[n].ev_active
        /\ tracker'[n].refcount = tracker[n].refcount
    BY <1>1, <1>2, <2>1 DEF Tracker_t
  <2>3. TypeOK'
    BY <1>1, <2>1 DEF IInv, TypeOK
  <2>4. RefcountExact'
    BY <1>1, <2>1, <2>2 DEF IInv, RefcountExact, Stopping
  <2>5. StopInv' /\ PausedHasNoEngine'
    BY <1>1, <2>1, <2>2 DEF IInv, StopInv, PausedHasNoEngine, Stopping
  <2> QED BY <2>1, <2>3, <2>4, <2>5 DEF IInv
<1>4. ASSUME tracker' = [tracker EXCEPT ![n].ev_active = TRUE], thread' = thread PROVE IInv'
  <2>1. /\ tracker' \in [Names -> Tracker_t]
        /\ tracker'[n] = [tracker[n] EXCEPT !.ev_active = TRUE]
        /\ \A m \in Names : m # n => tracker'[m] = tracker[m]
    BY <1>4 DEF IInv, TypeOK, Tracker_t
  <2>2. /\ tracker'[n].exists /\ tracker'[n].ev_active
        /\ tracker'[n].refcount = tracker[n].refcount
        /\ tracker'[n].engine = tracker[n].engine
    BY <1>1, <1>2, <2>1 DEF Tracker_t
  <2>3. TypeOK'
    BY <1>1, <1>4, <2>1 DEF IInv, TypeOK
  <2>4. RefcountExact'
    BY <1>1, <2>1, <2>2 DEF IInv, RefcountExact, Stopping
  <2>5. StopInv' /\ PausedHasNoEngine'
    BY <1>1, <2>1, <2>2 DEF IInv, StopInv, PausedHasNoEngine, Stopping
  <2>6. Paired'
    BY <1>4, <2>1, <2>2 DEF IInv, Paired
  <2> QED BY <2>3, <2>4, <2>5, <2>6 DEF IInv
<1> QED BY <1>3, <1>4 DEF Resume

LEMMA LoopBreakIInv ==
  ASSUME IInv, LoopBreak
  PROVE  IInv'
<1>1. /\ caller.pc = "break" /\ caller' = [caller EXCEPT !.pc = "join"]
      /\ base' = [base EXCEPT ![caller.name].event_break = TRUE]
      /\ UNCHANGED <<tracker, thread, holders>>
  BY DEF LoopBreak
<1>2. caller'.pc = "join" /\ caller'.op = caller.op /\ caller'.name = caller.name
  BY <1>1 DEF IInv, TypeOK
<1>3. TypeOK'
  BY <1>1 DEF IInv, TypeOK, EventBase_t
<1>4. RefcountExact' /\ PausedHasNoEngine'
  BY <1>1, <1>2 DEF IInv, RefcountExact, PausedHasNoEngine, Stopping
<1>5. Paired' /\ StopInv'
  BY <1>1, <1>2 DEF IInv, Paired, StopInv
<1> QED BY <1>3, <1>4, <1>5 DEF IInv

LEMMA JoinIInv ==
  ASSUME IInv, Join
  PROVE  IInv'
<1> DEFINE n == caller.name
           t == tracker[n].engine
<1>1. /\ n \in Names /\ tracker[n].exists /\ ~tracker[n].ev_active
      /\ caller.pc = "join" /\ caller.op \in {"pause", "finalize"}
      /\ caller.op = "pause" <=> tracker[n].refcount > 0
  BY DEF IInv, StopInv, Join
<1>2. /\ thread' = IF t = NoThread THEN thread ELSE [thread EXCEPT ![t] = Free]
      /\ IF caller.op = "finalize" THEN ReleaseTracker(n)
         ELSE tracker' = [tracker EXCEPT ![n].engine = NoThread] /\ UNCHANGED base
      /\ caller' = Idle /\ holders' = holders
  BY DEF Join
<1>3. \A m \in Names : ~Stopping(m)'
  BY <1>2 DEF Stopping, Idle
<1>4. \A m \in Names : m # n => ~Stopping(m)
  BY DEF Stopping
<1>5. tracker[n] \in Tracker_t /\ holders[n] = tracker[n].refcount
  BY <1>1 DEF IInv, TypeOK, RefcountExact
<1>6. StopInv' /\ caller' \in [pc : {"idle", "break", "join"}, op : {"none", "pause", "finalize"},
                               name : Names \cup {NoName}]
  BY <1>2 DEF StopInv, Idle
<1> HIDE DEF n
<1>7. CASE caller.op = "finalize"
  <2>1. ReleaseTracker(n) /\ holders[n] = 0
    BY <1>1, <1>2, <1>5, <1>7 DEF IInv, TypeOK
  <2>2. /\ tracker' \in [Names -> Tracker_t]
        /\ base' \in [Names -> EventBase_t]
        /\ thread' \in [Threads -> [pc : ThreadStates, trk : Names \cup {NoName}]]
        /\ tracker'[n] = NoTracker
        /\ \A m \in Names : m # n => tracker'[m] = tracker[m]
        /\ Paired'
    BY <1>1, <1>2, <2>1, ReleaseTrackerPaired
  <2>3. TypeOK'
    BY <1>2, <1>6, <2>2 DEF IInv, TypeOK
  <2>4. RefcountExact'
    <3>1. \A m \in Names \ {n} : tracker'[m] = tracker[m] /\ caller.name # m
      BY <2>2 DEF n
    <3>2. caller'.pc = "idle"
      BY <1>2 DEF Idle
    <3>3. ~tracker'[n].exists /\ tracker'[n].refcount = 0
      BY <2>2 DEF NoTracker
    <3> QED BY <1>2, <2>1, <3>1, <3>2, <3>3 DEF IInv, RefcountExact, Stopping
  <2>5. PausedHasNoEngine'
    BY <1>4, <2>2 DEF IInv, PausedHasNoEngine, NoTracker
  <2> QED BY <1>6, <2>2, <2>3, <2>4, <2>5 DEF IInv
<1>8. CASE caller.op = "pause"
  <2>1. /\ tracker' = [tracker EXCEPT ![n].engine = NoThread] /\ base' = base
        /\ holders[n] > 0
    BY <1>1, <1>2, <1>5, <1>8
  <2>2. /\ tracker' \in [Names -> Tracker_t]
        /\ tracker'[n] = [tracker[n] EXCEPT !.engine = NoThread]
        /\ \A m \in Names : m # n => tracker'[m] = tracker[m]
    BY <1>1, <2>1 DEF IInv, TypeOK, Tracker_t
  <2>3. /\ tracker'[n].exists /\ ~tracker'[n].ev_active /\ tracker'[n].engine = NoThread
        /\ tracker'[n].refcount = tracker[n].refcount
    BY <1>1, <1>5, <2>2 DEF Tracker_t
  <2>4. thread' \in [Threads -> [pc : ThreadStates, trk : Names \cup {NoName}]]
    BY <1>1, <1>2 DEF IInv, TypeOK, Free, ThreadStates, Tracker_t
  <2>5. TypeOK'
    BY <1>2, <1>6, <2>1, <2>2, <2>4 DEF IInv, TypeOK
  <2>6. RefcountExact'
    <3>1. \A m \in Names \ {n} : tracker'[m] = tracker[m] /\ caller.name # m
      BY <2>2 DEF n
    <3>2. caller'.pc = "idle"
      BY <1>2 DEF Idle
    <3>3. tracker'[n].refcount = holders[n] /\ tracker'[n].exists
      BY <1>5, <2>3
    <3> QED BY <1>2, <2>1, <3>1, <3>2, <3>3 DEF IInv, RefcountExact, Stopping
  <2>7. Paired'
    <3>1. \A u \in Threads : thread'[u].pc # "free" =>
            thread'[u] = thread[u] /\ thread[u].pc # "free" /\ thread[u].trk # n
      BY <1>1, <1>2, NameAssumption DEF IInv, TypeOK, Free, Tracker_t, Paired
    <3>2. \A m \in Names : m # n /\ tracker[m].engine # NoThread =>
            thread'[tracker[m].engine] = thread[tracker[m].engine]
      BY <1>1, <1>2 DEF IInv, TypeOK, Tracker_t, Paired
    <3>3. \A u \in Threads : thread'[u].pc # "free" =>
            /\ thread'[u].trk \in Names
            /\ tracker'[thread'[u].trk].exists
            /\ tracker'[thread'[u].trk].engine = u
      BY <2>2, <3>1 DEF IInv, Paired
    <3>4. \A m \in Names : tracker'[m].engine # NoThread =>
            /\ thread'[tracker'[m].engine].pc # "free"
            /\ thread'[tracker'[m].engine].trk = m
      <4> TAKE m \in Names
      <4>1. CASE m = n
        BY <2>3, <4>1
      <4>2. CASE m # n
        <5>1. tracker'[m].engine = tracker[m].engine
          BY <2>2, <4>2
        <5> QED BY <3>2, <4>2, <5>1 DEF IInv, Paired
      <4> QED BY <4>1, <4>2
    <3> QED BY <3>3, <3>4 DEF Paired
  <2>8. PausedHasNoEngine'
    BY <1>4, <2>2, <2>3 DEF IInv, PausedHasNoEngine
  <2> QED BY <1>6, <2>5, <2>6, <2>7, <2>8 DEF IInv
<1> QED BY <1>1, <1>7, <1>8

LEMMA PostIInv ==
  ASSUME IInv, NEW n \in Names, Post(n)
  PROVE  IInv'
<1>1. TypeOK'
  BY DEF IInv, TypeOK, Post, EventBase_t
<1>2. RefcountExact' /\ PausedHasNoEngine'
  BY DEF IInv, RefcountExact, PausedHasNoEngine, Stopping, Post
<1>3. Paired' /\ StopInv'
  BY DEF IInv, Paired, StopInv, Post
<1> QED BY <1>1, <1>2, <1>3 DEF IInv

\* A thread stays with its tracker whatever it does.
LEMMA EngineIInv ==
  ASSUME IInv, NEW t \in Threads, Engine(t)
  PROVE  IInv'
<1>1. UNCHANGED <<tracker, caller, holders>>
  BY DEF Engine
<1>2. thread[t].pc # "free" /\ thread[t].trk \in Names
  BY DEF IInv, Paired, Engine, Check, EnterLoop, Wait, Wake, CallbackDone, At
<1>3. base[thread[t].trk] \in EventBase_t
  BY <1>2 DEF IInv, TypeOK
<1>4. base' \in [Names -> EventBase_t]
  <2>1. CASE UNCHANGED base
    BY <2>1 DEF IInv, TypeOK
  <2>2. CASE EnterLoop(t)
    BY <1>2, <1>3, <2>2 DEF IInv, TypeOK, EnterLoop, SetBase, Base, EventBase_t
  <2>3. CASE Wake(t)
    <3> DEFINE ready == Base(t).pending + Base(t).active
    <3>1. CASE ready = 0
      BY <2>1, <2>3, <3>1 DEF Wake
    <3>2. CASE ready # 0
      <4>1. [Base(t) EXCEPT !.pending = 0, !.active = ready - 1] \in EventBase_t
        <5>1. Base(t) \in EventBase_t /\ ready - 1 \in Nat
          BY <1>3, <3>2 DEF Base, EventBase_t
        <5> HIDE DEF ready
        <5> QED BY <5>1 DEF EventBase_t
      <4>2. SetBase(t, [Base(t) EXCEPT !.pending = 0, !.active = ready - 1])
        BY <2>3, <3>2 DEF Wake
      <4> QED BY <1>2, <4>1, <4>2 DEF IInv, TypeOK, SetBase
    <3> QED BY <3>1, <3>2
  <2>4. CASE CallbackDone(t) /\ ~UNCHANGED base
    <3>1. Base(t).active # 0 /\ SetBase(t, [Base(t) EXCEPT !.active = @ - 1])
      BY <2>4 DEF CallbackDone
    <3>2. [Base(t) EXCEPT !.active = @ - 1] \in EventBase_t
      BY <1>3, <3>1 DEF Base, EventBase_t
    <3> QED BY <1>2, <3>1, <3>2 DEF IInv, TypeOK, SetBase
  <2> QED BY <2>1, <2>2, <2>3, <2>4 DEF Engine, Check, Wait
<1>5. thread' = thread \/ \E pc \in ThreadStates \ {"free"} : GoTo(t, pc)
  BY DEF Engine, Check, EnterLoop, Wait, Wake, CallbackDone, ThreadStates
<1>6. /\ thread' \in [Threads -> [pc : ThreadStates, trk : Names \cup {NoName}]]
      /\ \A u \in Threads : /\ thread'[u].trk = thread[u].trk
                            /\ thread'[u].pc = "free" <=> thread[u].pc = "free"
  BY <1>2, <1>5 DEF IInv, TypeOK, GoTo
<1>7. TypeOK'
  BY <1>1, <1>4, <1>6 DEF IInv, TypeOK
<1>8. Paired'
  BY <1>1, <1>6 DEF IInv, TypeOK, Tracker_t, Paired
<1>9. RefcountExact' /\ StopInv' /\ PausedHasNoEngine'
  BY <1>1 DEF IInv, RefcountExact, StopInv, PausedHasNoEngine, Stopping
<1> QED BY <1>7, <1>8, <1>9 DEF IInv

LEMMA NextIInv == IInv /\ [Next]_vars => IInv'
<1> SUFFICES ASSUME IInv, [Next]_vars PROVE IInv'
  OBVIOUS
<1>1. CASE UNCHANGED vars
  <2>1. TypeOK' /\ Paired'
    BY <1>1 DEF vars, IInv, TypeOK, Paired
  <2>2. RefcountExact' /\ StopInv' /\ PausedHasNoEngine'
    BY <1>1 DEF vars, IInv, RefcountExact, StopInv, PausedHasNoEngine, Stopping
  <2> QED BY <2>1, <2>2 DEF IInv
<1>2. ASSUME NEW n \in Names, ThreadInit(n) PROVE IInv'
  BY <1>2, ThreadInitIInv
<1>3. ASSUME NEW n \in Names, ThreadFinalize(n) PROVE IInv'
  BY <1>3, ThreadFinalizeIInv
<1>4. ASSUME NEW n \in Names, Pause(n) PROVE IInv'
  BY <1>4, PauseIInv
<1>5. ASSUME NEW n \in Names, Resume(n) PROVE IInv'
  BY <1>5, ResumeIInv
<1>6. ASSUME NEW n \in Names, Post(n) PROVE IInv'
  BY <1>6, PostIInv
<1>7. CASE LoopBreak
  BY <1>7, LoopBreakIInv
<1>8. CASE Join
  BY <1>8, JoinIInv
<1>9. ASSUME NEW t \in Threads, Engine(t) PROVE IInv'
  BY <1>9, EngineIInv
<1> QED BY <1>1, <1>2, <1>3, <1>4, <1>5, <1>6, <1>7, <1>8, <1>9 DEF Next

LEMMA Invariance == Spec => []IInv
  BY InitIInv, NextIInv, PTL DEF Spec

THEOREM TypeCorrect == Spec => []TypeOK
<1>1. IInv => TypeOK
  BY DEF IInv
<1> QED BY <1>1, Invariance, PTL

\* An event base lives as long as somebody holds its name.
THEOREM HeldBasesLive == Spec => []RefcountExact
<1>1. IInv => RefcountExact
  BY DEF IInv
<1> QED BY <1>1, Invariance, PTL

\* No thread runs on a freed tracker and no base has two threads.
THEOREM NoThreadIsOrphaned == Spec => []NoOrphanThread
<1>1. IInv => NoOrphanThread
  BY DEF IInv, Paired, NoOrphanThread, Live
<1> QED BY <1>1, Invariance, PTL

\* Nothing runs on a paused base.
THEOREM PausedIsQuiet == Spec => []PausedRunsNothing
<1>1. IInv => PausedRunsNothing
  <2> SUFFICES ASSUME IInv, NEW n \in Names, ~tracker[n].ev_active, ~Stopping(n),
                      NEW t \in Threads, thread[t].trk = n, Live(t)
               PROVE  FALSE
    BY DEF PausedRunsNothing
  <2>1. tracker[n].engine = NoThread
    BY DEF IInv, PausedHasNoEngine
  <2>2. tracker[n].engine = t
    BY DEF IInv, Paired, Live
  <2> QED BY <2>1, <2>2, NameAssumption
<1> QED BY <1>1, Invariance, PTL
=============================================================================

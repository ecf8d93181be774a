----------------------------- MODULE ThreadLock -----------------------------
(* ww_threadlock_t: a mutex, a condition and a flag that the lock is in use. *)
(* A thread that waits on the condition gives the mutex back but stays the   *)
(* user of the lock.  The condition is polled: counters of waiters and of    *)
(* signals, and naps without the mutex.                                      *)
EXTENDS Integers, FiniteSets
CONSTANTS User,         \* the threads
          NoThread,
          MaxSignals    \* bound on the signals that are pending
ASSUME ThreadLockAssumption == NoThread \notin User /\ MaxSignals \in Nat
VARIABLES tl_mutex,     \* who has the mutex
          in_use,
          c_waiting, c_signaled,
          tl_pc, tl_goal,   \* what a thread does, and goes on with after a wait
          tl_timed,         \* whether its wait has a time limit
          tl_owed,          \* those who waited at the last broadcast and still do
          tl_stolen         \* whether another took a signal meant for them
tl_vars == <<tl_mutex, in_use, c_waiting, c_signaled, tl_pc, tl_goal, tl_timed, tl_owed, tl_stolen>>
AtPc(t, pc) == tl_pc' = [tl_pc EXCEPT ![t] = pc]

ThreadLockInit ==
  /\ tl_mutex = NoThread
  /\ in_use \in BOOLEAN     \* a lock made in use is for WW_WAKEUP_THREAD
  /\ c_waiting = 0 /\ c_signaled = 0
  /\ tl_pc = [t \in User |-> "out"]
  /\ tl_goal = [t \in User |-> "out"]
  /\ tl_timed = [t \in User |-> FALSE]
  /\ tl_owed = {} /\ tl_stolen = FALSE

(* pthread_mutex_lock, when the mutex is free. *)
MutexLock(t) == tl_mutex = NoThread /\ tl_mutex' = t
MutexUnlock(t) == tl_mutex = t /\ tl_mutex' = NoThread

(* WW_ACQUIRE_THREAD: lock, and wait for as long as the lock is in use. *)
AcquireLock(t) ==
  /\ tl_pc[t] = "out"
  /\ MutexLock(t)
  /\ AtPc(t, "acquiring")
  /\ UNCHANGED <<in_use, c_waiting, c_signaled, tl_goal, tl_timed, tl_owed, tl_stolen>>
(* Mutation: tested once, and not again after the wait. *)
AcquireTest_Once(t) ==
  /\ tl_pc[t] = "acquiring"
  /\ IF in_use THEN AtPc(t, "waits") /\ UNCHANGED in_use
               ELSE AtPc(t, "inside") /\ in_use' = TRUE
  /\ tl_goal' = [tl_goal EXCEPT ![t] = "inside"]
  /\ UNCHANGED <<tl_mutex, c_waiting, c_signaled, tl_timed, tl_owed, tl_stolen>>
AcquireTest(t) ==
  /\ tl_pc[t] = "acquiring"
  /\ IF in_use THEN AtPc(t, "waits") /\ UNCHANGED in_use
               ELSE AtPc(t, "inside") /\ in_use' = TRUE
  /\ tl_goal' = [tl_goal EXCEPT ![t] = IF in_use THEN "acquiring" ELSE "inside"]
  /\ UNCHANGED <<tl_mutex, c_waiting, c_signaled, tl_timed, tl_owed, tl_stolen>>
(* The user of the lock waits on its condition, with or without a limit. *)
WaitInside(t, timed) ==
  /\ tl_pc[t] = "inside"
  /\ AtPc(t, "waits")
  /\ tl_timed' = [tl_timed EXCEPT ![t] = timed]
  /\ UNCHANGED <<tl_mutex, in_use, c_waiting, c_signaled, tl_goal, tl_owed, tl_stolen>>

(* ww_condition_wait: a signal found pending is left to others, and the      *)
(* thread naps once; otherwise it naps until there is one.                   *)
ConditionWait(t) ==
  /\ tl_pc[t] = "waits" /\ ~tl_timed[t]
  /\ MutexUnlock(t)
  /\ IF c_signaled # 0 THEN AtPc(t, "naps") /\ UNCHANGED c_waiting
                       ELSE AtPc(t, "sleeps") /\ c_waiting' = c_waiting + 1
  /\ UNCHANGED <<in_use, c_signaled, tl_goal, tl_timed, tl_owed, tl_stolen>>
NapEnds(t) ==
  /\ tl_pc[t] = "naps"
  /\ MutexLock(t)
  /\ AtPc(t, tl_goal[t])
  /\ UNCHANGED <<in_use, c_waiting, c_signaled, tl_goal, tl_timed, tl_owed, tl_stolen>>

(* The end of a wait: a signal is consumed, if there is one. *)
EndWait(t, waiting) ==
  /\ c_waiting' = waiting - 1
  /\ c_signaled' = IF c_signaled # 0 THEN c_signaled - 1 ELSE 0
  /\ tl_owed' = tl_owed \ {t}
  /\ tl_stolen' = (tl_stolen \/ (t \notin tl_owed /\ tl_owed # {} /\ c_signaled # 0))
  /\ tl_timed' = [tl_timed EXCEPT ![t] = FALSE]
  /\ AtPc(t, tl_goal[t])
(* A wait with a time limit consumes a signal that is pending when it comes. *)
ConditionTimedWait(t) ==
  /\ tl_pc[t] = "waits" /\ tl_timed[t]
  /\ IF c_signaled # 0
     THEN EndWait(t, c_waiting + 1) /\ UNCHANGED tl_mutex
     ELSE /\ MutexUnlock(t)
          /\ AtPc(t, "sleeps")
          /\ c_waiting' = c_waiting + 1
          /\ UNCHANGED <<c_signaled, tl_timed, tl_owed, tl_stolen>>
  /\ UNCHANGED <<in_use, tl_goal>>
(* With the mutex again: a signal, or the time limit, ends the wait. *)
SleepEnds(t) ==
  /\ tl_pc[t] = "sleeps"
  /\ c_signaled # 0 \/ tl_timed[t]
  /\ MutexLock(t)
  /\ EndWait(t, c_waiting)
  /\ UNCHANGED <<in_use, tl_goal>>

(* Mutation: one signal for all. *)
Broadcast_One ==
  /\ c_signaled' = IF c_waiting = 0 THEN 0 ELSE 1
  /\ tl_owed' = {t \in User : tl_pc[t] = "sleeps"}
  /\ tl_stolen' = FALSE
Broadcast ==
  /\ c_signaled' = c_waiting
  /\ tl_owed' = {t \in User : tl_pc[t] = "sleeps"}
  /\ tl_stolen' = FALSE
(* Under WW_THREAD_SCOPED_LOCK. *)
Signal(t) ==
  /\ tl_pc[t] = "out" /\ tl_mutex = NoThread
  /\ c_waiting # 0 /\ c_signaled < MaxSignals
  /\ c_signaled' = c_signaled + 1
  /\ UNCHANGED <<tl_mutex, in_use, c_waiting, tl_pc, tl_goal, tl_timed, tl_owed, tl_stolen>>
ReleaseThread(t) ==
  /\ tl_pc[t] = "inside"
  /\ in_use' = FALSE
  /\ Broadcast
  /\ MutexUnlock(t)
  /\ AtPc(t, "out")
  /\ tl_goal' = [tl_goal EXCEPT ![t] = "out"]
  /\ UNCHANGED <<c_waiting, tl_timed>>
(* WW_WAKEUP_THREAD takes no mutex; it is for a lock nobody has acquired.    *)
(* Others may come between its two assignments.                              *)
WakeupThread(t) ==
  /\ tl_pc[t] = "out" /\ in_use
  /\ \A u \in User : tl_goal[u] # "inside"
  /\ in_use' = FALSE
  /\ AtPc(t, "waking")
  /\ UNCHANGED <<tl_mutex, c_waiting, c_signaled, tl_goal, tl_timed, tl_owed, tl_stolen>>
WakeupBroadcast(t) ==
  /\ tl_pc[t] = "waking"
  /\ Broadcast
  /\ AtPc(t, "out")
  /\ UNCHANGED <<tl_mutex, in_use, c_waiting, tl_goal, tl_timed>>

ThreadLockNext == \E t \in User :
  \/ AcquireLock(t) \/ AcquireTest(t) \/ ReleaseThread(t) \/ WakeupThread(t)
  \/ WakeupBroadcast(t)
  \/ \E timed \in BOOLEAN : WaitInside(t, timed)
  \/ ConditionWait(t) \/ NapEnds(t) \/ ConditionTimedWait(t) \/ SleepEnds(t) \/ Signal(t)
ThreadLockSpec == ThreadLockInit /\ [][ThreadLockNext]_tl_vars
-----------------------------------------------------------------------------
(* One thread uses the lock, also while it waits on the condition without    *)
(* the mutex (threads.h:85-114).                                             *)
OneUser == \A t, u \in User : tl_goal[t] = "inside" /\ tl_goal[u] = "inside" => t = u

(* Every thread that slept when the lock was released or woken up has a      *)
(* signal waiting for it, unless a wait with a time limit that came later    *)
(* took one; the count of waiters is that of the sleepers                    *)
(* (condition.h:64-90, 99-147).                                              *)
BroadcastReachesSleepers ==
  /\ c_waiting = Cardinality({t \in User : tl_pc[t] = "sleeps"})
  /\ tl_stolen \/ Cardinality(tl_owed) <= c_signaled
=============================================================================

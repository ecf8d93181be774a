--------------------------- MODULE Threads_proofs ---------------------------
(* What threads share.  The atomic operations take effect in one step        *)
(* however an architecture makes them; the spin lock excludes and keeps the  *)
(* sum; one thread uses a thread lock, and who releases it reaches all who   *)
(* sleep on it.  The counts of references, and the order of constructors and *)
(* destructors.  For every set of threads, requests and objects, every width *)
(* of the word and every hierarchy of classes.                               *)
EXTENDS Atomics, SpinLock, ThreadLock, ObjectSystem, FiniteSetTheorems, TLAPS
-----------------------------------------------------------------------------
(* What a thread will do agrees with what its call wants; a reservation that *)
(* is held means that the word is still what was loaded.                     *)
UnderWay == {"start", "loaded", "cmpset", "compared"}
Sets(t) == IF at_call[t].op = "cmpset"
           THEN at_old[t] = at_call[t].old /\ at_new[t] = at_call[t].arg
           ELSE at_new[t] = Wanted(at_call[t], at_old[t])
CallInv ==
  /\ at_call = [t \in Thread |-> at_call[t]]
  /\ DOMAIN at_old = Thread /\ DOMAIN at_new = Thread
  /\ at_pc \in [Thread -> UnderWay \cup {"idle", "done"}]
  /\ \A t \in Thread : at_pc[t] = "idle" => at_call[t] = Quiet
  /\ \A t \in Thread : at_pc[t] \in UnderWay => at_call[t] \in Requests
  /\ \A t \in Thread : at_pc[t] \in {"start", "loaded"} => at_call[t].op # "cmpset"
  /\ \A t \in Thread : at_pc[t] \in {"cmpset", "compared"} => Sets(t)
  /\ \A t \in Thread : at_pc[t] = "done" => at_call[t] \notin Requests
  /\ \A t \in Thread : t \in at_reserved /\ at_pc[t] \in {"loaded", "compared"}
                         => at_old[t] = at_word

LEMMA CallsInitially == AtomicInit => CallInv
  BY DEF AtomicInit, CallInv, UnderWay

LEMMA AnswerIsNoRequest == \A x : [returns |-> x] \notin Requests
  BY AtomicAssumption

LEMMA FinishEnds ==
  ASSUME CallInv, NEW t \in Thread, NEW w, at_pc[t] \in UnderWay, Finish(t, w),
         \A u \in Thread : u \in at_reserved' => u \in at_reserved /\ at_word' = at_word
  PROVE  CallInv'
  BY AnswerIsNoRequest DEF CallInv, UnderWay, Finish, Goto, Sets

LEMMA CallsStep == CallInv /\ [AtomicNext]_at_vars => CallInv'
<1> SUFFICES ASSUME CallInv, [AtomicNext]_at_vars PROVE CallInv'
  OBVIOUS
<1>1. CASE UNCHANGED at_vars
  BY <1>1 DEF at_vars, CallInv, Sets
<1>2. ASSUME NEW t \in Thread, NEW call \in Requests, Start(t, call) PROVE CallInv'
  BY <1>2 DEF Start, Goto, CallInv, UnderWay, Sets
<1>3. ASSUME NEW t \in Thread, Instruction(t) PROVE CallInv'
  BY <1>3, FinishEnds DEF Instruction, StoreWord, UnderWay
<1>4. ASSUME NEW t \in Thread, LoadReserved(t) PROVE CallInv'
  BY <1>4 DEF LoadReserved, Goto, CallInv, UnderWay, Sets
<1>5. ASSUME NEW t \in Thread, StoreConditional(t) PROVE CallInv'
  <2>1. CASE StoreWord(Wanted(at_call[t], at_old[t])) /\ Finish(t, at_old[t])
    BY <1>5, <2>1, FinishEnds DEF StoreConditional, StoreWord, UnderWay
  <2>2. CASE Goto(t, "start") /\ at_reserved' = at_reserved \ {t}
             /\ UNCHANGED <<at_word, at_call, at_old, at_new>>
    BY <1>5, <2>2 DEF StoreConditional, Goto, CallInv, UnderWay, Sets
  <2> QED
    BY <1>5, <2>1, <2>2 DEF StoreConditional
<1>6. ASSUME NEW t \in Thread, ReadForCmpset(t) PROVE CallInv'
  BY <1>6 DEF ReadForCmpset, Goto, CallInv, UnderWay, Sets
<1>7. ASSUME NEW t \in Thread, at_pc[t] = "cmpset", CmpsetFailed(t, at_word) PROVE CallInv'
  <2>1. CASE at_call[t].op = "cmpset"
    BY <1>7, <2>1, FinishEnds DEF CmpsetFailed, UnderWay
  <2>2. CASE at_call[t].op # "cmpset"
    BY <1>7, <2>2 DEF CmpsetFailed, Goto, CallInv, UnderWay, Sets
  <2> QED
    BY <2>1, <2>2
<1>8. ASSUME NEW t \in Thread, CmpsetInstruction(t) PROVE CallInv'
  <2>1. CASE at_word = at_old[t]
    BY <1>8, <2>1, FinishEnds DEF CmpsetInstruction, StoreWord, UnderWay
  <2>2. CASE at_word # at_old[t]
    BY <1>7, <1>8, <2>2 DEF CmpsetInstruction
  <2> QED
    BY <2>1, <2>2
<1>9. ASSUME NEW t \in Thread, CmpsetLoad(t) PROVE CallInv'
  <2>1. CASE at_word = at_old[t]
    BY <1>9, <2>1 DEF CmpsetLoad, Goto, CallInv, UnderWay, Sets
  <2>2. CASE at_word # at_old[t]
    BY <1>7, <1>9, <2>2 DEF CmpsetLoad
  <2> QED
    BY <2>1, <2>2
<1>10. ASSUME NEW t \in Thread, CmpsetStore(t) PROVE CallInv'
  <2>1. CASE StoreWord(at_new[t]) /\ Finish(t, at_old[t])
    BY <1>10, <2>1, FinishEnds DEF CmpsetStore, StoreWord, UnderWay
  <2>2. CASE Goto(t, "cmpset") /\ at_reserved' = at_reserved \ {t}
             /\ UNCHANGED <<at_word, at_call, at_old, at_new>>
    BY <1>10, <2>2 DEF CmpsetStore, Goto, CallInv, UnderWay, Sets
  <2> QED
    BY <1>10, <2>1, <2>2 DEF CmpsetStore
<1>11. ASSUME NEW t \in Thread, Leave(t) PROVE CallInv'
  BY <1>11 DEF Leave, Goto, CallInv, UnderWay, Sets
<1> QED
  BY <1>1, <1>2, <1>3, <1>4, <1>5, <1>6, <1>8, <1>9, <1>10, <1>11 DEF AtomicNext
-----------------------------------------------------------------------------
(* The step that ends a call is the step of AtomicWord that takes effect.    *)
LEMMA EndTakes ==
  ASSUME CallInv, NEW t \in Thread, at_pc[t] \in UnderWay, Finish(t, at_word),
         at_word' = Atomic!Effect(at_call[t], at_word)
  PROVE  Atomic!Next
<1>1. at_call[t] \in Requests /\ at_call[t].op \in {"add", "sub", "swap", "cmpset"}
  BY AtomicAssumption DEF CallInv
<1>2. Returned(at_call[t], at_word) = Atomic!Answer(at_call[t], at_word)
  BY <1>1 DEF Returned, Wanted, Atomic!Answer, Atomic!Effect, Atomic!Modulus
<1> QED
  BY <1>1, <1>2 DEF Finish, Atomic!Next, Atomic!Take

LEMMA WantedIsEffect ==
  ASSUME NEW call \in Requests, NEW w, call.op # "cmpset" \/ w = call.old
  PROVE  Wanted(call, w) = Atomic!Effect(call, w)
<1>1. call.op \in {"add", "sub", "swap", "cmpset"}
  BY AtomicAssumption
<1> QED
  BY <1>1 DEF Wanted, Atomic!Effect, Atomic!Modulus

LEMMA StepTakes ==
  CallInv /\ [AtomicNext]_at_vars => [Atomic!Next]_<<at_word, at_call>>
<1> SUFFICES ASSUME CallInv, [AtomicNext]_at_vars PROVE [Atomic!Next]_<<at_word, at_call>>
  OBVIOUS
<1>1. CASE UNCHANGED <<at_word, at_call>>
  BY <1>1
<1>2. ASSUME NEW t \in Thread, NEW call \in Requests, Start(t, call) PROVE Atomic!Next
  BY <1>2 DEF Start, CallInv, Atomic!Next, Atomic!Call
<1>3. ASSUME NEW t \in Thread, Instruction(t) PROVE Atomic!Next
  <2>1. at_call[t] \in Requests /\ at_call[t].op # "cmpset"
    BY <1>3 DEF Instruction, CallInv, UnderWay
  <2> QED
    BY <1>3, <2>1, WantedIsEffect, EndTakes DEF Instruction, StoreWord, UnderWay
<1>4. ASSUME NEW t \in Thread, StoreConditional(t), ~UNCHANGED <<at_word, at_call>>
      PROVE  Atomic!Next
  <2>1. at_call[t] \in Requests /\ at_call[t].op # "cmpset" /\ at_old[t] = at_word
    BY <1>4 DEF StoreConditional, CallInv, UnderWay
  <2> QED
    BY <1>4, <2>1, WantedIsEffect, EndTakes DEF StoreConditional, StoreWord, UnderWay
<1>5. ASSUME NEW t \in Thread, at_pc[t] \in {"cmpset", "compared"}, at_word = at_old[t],
             StoreWord(at_new[t]), Finish(t, at_word)
      PROVE  Atomic!Next
  <2>1. at_call[t] \in Requests /\ at_new[t] = Wanted(at_call[t], at_word)
        /\ (at_call[t].op # "cmpset" \/ at_word = at_call[t].old)
    BY <1>5 DEF CallInv, UnderWay, Sets, Wanted
  <2> QED
    BY <1>5, <2>1, WantedIsEffect, EndTakes DEF StoreWord, UnderWay
<1>6. ASSUME NEW t \in Thread, at_pc[t] = "cmpset", at_word # at_old[t],
             CmpsetFailed(t, at_word), ~UNCHANGED <<at_word, at_call>>
      PROVE  Atomic!Next
  <2>1. /\ at_call[t].op = "cmpset" /\ at_old[t] = at_call[t].old
        /\ Finish(t, at_word) /\ at_word' = at_word
    BY <1>6 DEF CmpsetFailed, CallInv, UnderWay, Sets
  <2>2. at_word' = Atomic!Effect(at_call[t], at_word)
    BY <1>6, <2>1 DEF Atomic!Effect
  <2> QED
    BY <1>6, <2>1, <2>2, EndTakes DEF UnderWay
<1>7. ASSUME NEW t \in Thread, CmpsetInstruction(t) \/ CmpsetLoad(t),
             ~UNCHANGED <<at_word, at_call>>
      PROVE  Atomic!Next
  BY <1>5, <1>6, <1>7 DEF CmpsetInstruction, CmpsetLoad
<1>8. ASSUME NEW t \in Thread, CmpsetStore(t), ~UNCHANGED <<at_word, at_call>>
      PROVE  Atomic!Next
  <2>1. at_old[t] = at_word
    BY <1>8 DEF CmpsetStore, CallInv
  <2> QED
    BY <1>5, <1>8, <2>1 DEF CmpsetStore
<1>9. ASSUME NEW t \in Thread, Leave(t), ~UNCHANGED <<at_word, at_call>> PROVE Atomic!Next
  <2>1. at_call[t] \notin Requests /\ at_call' = [at_call EXCEPT ![t] = Quiet] /\ at_word' = at_word
    BY <1>9 DEF Leave, CallInv
  <2>2. at_call[t] # Quiet
    BY <1>9, <2>1 DEF CallInv
  <2> QED
    BY <2>1, <2>2 DEF Atomic!Next, Atomic!Return
<1> QED
  BY <1>1, <1>2, <1>3, <1>4, <1>7, <1>8, <1>9
  DEF AtomicNext, at_vars, LoadReserved, ReadForCmpset

(* Whichever of its own instructions an architecture makes an operation of,  *)
(* it takes effect in one step: no update between a load and a store or      *)
(* compare-and-set is lost (atomic_impl.h:40-131).                           *)
THEOREM AtomicsAreAtomic == AtomicSpec => OperationsAtomic
<1>1. AtomicInit => Atomic!Init
  BY DEF AtomicInit, Atomic!Init
<1> QED
  BY <1>1, CallsInitially, CallsStep, StepTakes, PTL DEF AtomicSpec, OperationsAtomic, Atomic!Spec
-----------------------------------------------------------------------------
(* A thread that is past the lock's compare-and-set and not yet at its       *)
(* store is the only one, and while it adds nobody else changes the word.    *)
SpinTypeOK ==
  /\ sl_lock \in {UNLOCKED, LOCKED}
  /\ sl_pc \in [Spinner -> {"idle", "trying", "spinning", "held", "read", "written"}]
  /\ sl_read \in [Spinner -> Int] /\ sl_word \in Int /\ sl_added \in Int
  /\ 0 <= sl_word /\ sl_word < WordLimit
SpinInv == SpinTypeOK /\ LockedSumExact

LEMMA SpinInitially == SpinInit => SpinInv
  BY SpinAssumption DEF SpinInit, SpinInv, SpinTypeOK, LockedSumExact, Held, UNLOCKED, LOCKED

LEMMA SpinStep == SpinInv /\ [SpinNext]_sl_vars => SpinInv'
<1> SUFFICES ASSUME SpinInv, [SpinNext]_sl_vars PROVE SpinInv'
  OBVIOUS
<1> USE DEF SpinInv, SpinTypeOK, LockedSumExact, Held, Goes, UNLOCKED, LOCKED
<1>1. CASE UNCHANGED sl_vars
  BY <1>1 DEF sl_vars
<1>2. ASSUME NEW t \in Spinner, TryLock(t) PROVE SpinInv'
  BY <1>2 DEF TryLock
<1>3. ASSUME NEW t \in Spinner, LockWord(t) PROVE SpinInv'
  BY <1>3 DEF LockWord
<1>4. ASSUME NEW t \in Spinner, LockCmpset(t) PROVE SpinInv'
  BY <1>4 DEF LockCmpset
<1>5. ASSUME NEW t \in Spinner, Spin(t) PROVE SpinInv'
  BY <1>5 DEF Spin
<1>6. ASSUME NEW t \in Spinner, Unlock(t) PROVE SpinInv'
  BY <1>6 DEF Unlock
<1>7. ASSUME NEW t \in Spinner, LockedRead(t) PROVE SpinInv'
  BY <1>7 DEF LockedRead
<1>8. ASSUME NEW t \in Spinner, LockedWrite(t) PROVE SpinInv'
  BY <1>8, SpinAssumption DEF LockedWrite
<1>9. ASSUME NEW t \in Spinner, LockedSubtract(t) PROVE SpinInv'
  BY <1>9, SpinAssumption DEF LockedSubtract
<1> QED
  BY <1>1, <1>2, <1>3, <1>4, <1>5, <1>6, <1>7, <1>8, <1>9 DEF SpinNext, Going

(* No two threads are inside the spin lock, and no addition that sparc makes *)
(* under it is lost (atomic_impl.h:410-436, asm.c:45-72).                    *)
THEOREM SpinLockKeepsSum == SpinSpec => []LockedSumExact
<1>1. SpinInv => LockedSumExact
  BY DEF SpinInv
<1> QED
  BY <1>1, SpinInitially, SpinStep, PTL DEF SpinSpec
-----------------------------------------------------------------------------
(* The flag is set for as long as some thread has the lock; who is inside    *)
(* has it, and so does who waits to be inside again.                         *)
UserPc == {"out", "acquiring", "waits", "inside", "naps", "sleeps", "waking"}
UsersInv ==
  /\ in_use \in BOOLEAN
  /\ tl_pc \in [User -> UserPc]
  /\ tl_goal \in [User -> {"out", "acquiring", "inside"}]
  /\ \A t \in User : tl_goal[t] = "inside" => in_use
  /\ \A t \in User : tl_pc[t] = "inside" => tl_goal[t] = "inside"
  /\ \A t \in User : tl_pc[t] \in {"acquiring", "out", "waking"} => tl_goal[t] # "inside"
  /\ OneUser

LEMMA UsersInitially == ThreadLockInit => UsersInv
  BY DEF ThreadLockInit, UsersInv, UserPc, OneUser

LEMMA UsersStep == UsersInv /\ [ThreadLockNext]_tl_vars => UsersInv'
<1> SUFFICES ASSUME UsersInv, [ThreadLockNext]_tl_vars PROVE UsersInv'
  OBVIOUS
<1> USE DEF UsersInv, UserPc, OneUser, AtPc
<1>1. CASE UNCHANGED tl_vars
  BY <1>1 DEF tl_vars
<1>2. ASSUME NEW t \in User, AcquireLock(t) PROVE UsersInv'
  BY <1>2 DEF AcquireLock
<1>3. ASSUME NEW t \in User, AcquireTest(t) PROVE UsersInv'
  <2>1. CASE in_use
    BY <1>3, <2>1 DEF AcquireTest
  <2>2. CASE ~in_use
    BY <1>3, <2>2 DEF AcquireTest
  <2> QED
    BY <2>1, <2>2
<1>4. ASSUME NEW t \in User, ReleaseThread(t) PROVE UsersInv'
  BY <1>4 DEF ReleaseThread
<1>5. ASSUME NEW t \in User, WakeupThread(t) PROVE UsersInv'
  BY <1>5 DEF WakeupThread
<1>6. ASSUME NEW t \in User, WakeupBroadcast(t) PROVE UsersInv'
  BY <1>6 DEF WakeupBroadcast
<1>7. ASSUME NEW t \in User, NEW timed \in BOOLEAN, WaitInside(t, timed) PROVE UsersInv'
  BY <1>7 DEF WaitInside
<1>8. ASSUME NEW t \in User, ConditionWait(t) PROVE UsersInv'
  BY <1>8 DEF ConditionWait
<1>9. ASSUME NEW t \in User, NapEnds(t) PROVE UsersInv'
  BY <1>9 DEF NapEnds
<1>10. ASSUME NEW t \in User, ConditionTimedWait(t) PROVE UsersInv'
  BY <1>10 DEF ConditionTimedWait, EndWait
<1>11. ASSUME NEW t \in User, SleepEnds(t) PROVE UsersInv'
  BY <1>11 DEF SleepEnds, EndWait
<1>12. ASSUME NEW t \in User, Signal(t) PROVE UsersInv'
  BY <1>12 DEF Signal
<1> QED
  BY <1>1, <1>2, <1>3, <1>4, <1>5, <1>6, <1>7, <1>8, <1>9, <1>10, <1>11, <1>12
  DEF ThreadLockNext

(* Between WW_ACQUIRE_THREAD and WW_RELEASE_THREAD a thread is the only one, *)
(* also while it waits on the condition without the mutex                    *)
(* (threads.h:66-121, condition.h:59-129).                                   *)
THEOREM OneThreadUsesLock == ThreadLockSpec => []OneUser
<1>1. UsersInv => OneUser
  BY DEF UsersInv
<1> QED
  BY <1>1, UsersInitially, UsersStep, PTL DEF ThreadLockSpec
-----------------------------------------------------------------------------
(* Those who sleep are counted, and so are the signals; whoever is owed one  *)
(* sleeps still.                                                             *)
Sleepers == {t \in User : tl_pc[t] = "sleeps"}
SleepersInv ==
  /\ tl_pc \in [User -> UserPc]
  /\ tl_goal \in [User -> {"out", "acquiring", "inside"}]
  /\ IsFiniteSet(Sleepers) /\ c_waiting = Cardinality(Sleepers)
  /\ c_signaled \in Nat
  /\ tl_owed \subseteq Sleepers
  /\ tl_stolen \in BOOLEAN
  /\ tl_stolen \/ Cardinality(tl_owed) <= c_signaled

LEMMA SleepersInitially == ThreadLockInit => SleepersInv
<1> SUFFICES ASSUME ThreadLockInit PROVE SleepersInv
  OBVIOUS
<1>1. Sleepers = {}
  BY DEF ThreadLockInit, Sleepers
<1>2. tl_owed = {} /\ c_waiting = 0 /\ c_signaled = 0 /\ tl_stolen \in BOOLEAN
  BY DEF ThreadLockInit
<1>3. tl_pc \in [User -> UserPc] /\ tl_goal \in [User -> {"out", "acquiring", "inside"}]
  BY DEF ThreadLockInit, UserPc
<1>4. IsFiniteSet({}) /\ Cardinality({}) = 0
  BY FS_EmptySet
<1> QED
  BY <1>1, <1>2, <1>3, <1>4 DEF SleepersInv

(* A thread that goes to sleep, one that wakes, and one that does neither.   *)
LEMMA OneSleepsMore ==
  ASSUME SleepersInv, NEW t \in User, tl_pc[t] # "sleeps", AtPc(t, "sleeps")
  PROVE  IsFiniteSet(Sleepers') /\ Cardinality(Sleepers') = c_waiting + 1
           /\ tl_owed \subseteq Sleepers'
<1>1. Sleepers' = Sleepers \cup {t} /\ t \notin Sleepers
  BY DEF SleepersInv, Sleepers, AtPc
<1> QED
  BY <1>1, FS_AddElement DEF SleepersInv

LEMMA OneSleepsLess ==
  ASSUME SleepersInv, NEW t \in User, tl_pc[t] = "sleeps", NEW pc \in UserPc, pc # "sleeps", AtPc(t, pc)
  PROVE  IsFiniteSet(Sleepers') /\ Cardinality(Sleepers') = c_waiting - 1
           /\ tl_owed \ {t} \subseteq Sleepers'
<1>1. Sleepers' = Sleepers \ {t} /\ t \in Sleepers
  BY DEF SleepersInv, Sleepers, AtPc
<1> QED
  BY <1>1, FS_RemoveElement DEF SleepersInv

LEMMA SameSleepers ==
  ASSUME SleepersInv, NEW t \in User, tl_pc[t] # "sleeps", NEW pc \in UserPc, pc # "sleeps", AtPc(t, pc)
  PROVE  Sleepers' = Sleepers
  BY DEF SleepersInv, Sleepers, AtPc

LEMMA OwedCounted ==
  ASSUME SleepersInv, NEW t \in User
  PROVE  /\ IsFiniteSet(tl_owed) /\ Cardinality(tl_owed) \in Nat
         /\ Cardinality(tl_owed \ {t}) =
              IF t \in tl_owed THEN Cardinality(tl_owed) - 1 ELSE Cardinality(tl_owed)
         /\ (Cardinality(tl_owed) = 0 <=> tl_owed = {})
<1>1. IsFiniteSet(tl_owed)
  BY FS_Subset DEF SleepersInv
<1> QED
  BY <1>1, FS_CardinalityType, FS_RemoveElement, FS_EmptySet

(* A wait that ends takes one signal; if the thread that takes it was owed   *)
(* none, some other may go without.                                          *)
LEMMA EndWaitKeepsOwed ==
  ASSUME SleepersInv, NEW t \in User, NEW w \in Int, EndWait(t, w)
  PROVE  /\ c_signaled' \in Nat /\ tl_stolen' \in BOOLEAN
         /\ tl_stolen' \/ Cardinality(tl_owed') <= c_signaled'
<1>1. CASE t \in tl_owed
  BY <1>1, OwedCounted DEF SleepersInv, EndWait
<1>2. CASE t \notin tl_owed /\ tl_owed = {}
  <2>1. tl_owed' = {} /\ tl_stolen' = tl_stolen
    BY <1>2 DEF SleepersInv, EndWait
  <2>2. Cardinality(tl_owed') = 0
    BY <2>1, FS_EmptySet
  <2>3. c_signaled' \in Nat
    BY DEF SleepersInv, EndWait
  <2> QED
    BY <2>1, <2>2, <2>3 DEF SleepersInv
<1>3. CASE t \notin tl_owed /\ tl_owed # {}
  <2>1. c_signaled' \in Nat /\ tl_stolen' = (tl_stolen \/ c_signaled # 0)
    BY <1>3 DEF SleepersInv, EndWait
  <2>2. c_signaled = 0 => tl_stolen
    BY <1>3, OwedCounted DEF SleepersInv
  <2> QED
    BY <2>1, <2>2 DEF SleepersInv
<1> QED
  BY <1>1, <1>2, <1>3

LEMMA BroadcastKeeps ==
  ASSUME SleepersInv, Broadcast, Sleepers' = Sleepers, UNCHANGED c_waiting
  PROVE  /\ c_signaled' \in Nat /\ tl_stolen' \in BOOLEAN /\ tl_owed' \subseteq Sleepers'
         /\ Cardinality(tl_owed') <= c_signaled'
<1>1. tl_owed' = Sleepers /\ c_signaled' = Cardinality(Sleepers)
  BY DEF SleepersInv, Broadcast, Sleepers
<1>2. Cardinality(Sleepers) \in Nat
  BY FS_CardinalityType DEF SleepersInv
<1>3. tl_stolen' \in BOOLEAN
  BY DEF Broadcast
<1>4. tl_owed' \subseteq Sleepers' /\ Cardinality(tl_owed') <= c_signaled'
  BY <1>1, <1>2
<1> QED
  BY <1>1, <1>2, <1>3, <1>4

LEMMA SleepersStep == SleepersInv /\ [ThreadLockNext]_tl_vars => SleepersInv'
<1> SUFFICES ASSUME SleepersInv, [ThreadLockNext]_tl_vars PROVE SleepersInv'
  OBVIOUS
<1> DEFINE PcOK == tl_pc \in [User -> UserPc] /\ tl_goal \in [User -> {"out", "acquiring", "inside"}]
<1>0. PcOK
  BY DEF SleepersInv
<1>1. CASE UNCHANGED tl_vars
  BY <1>1 DEF tl_vars, SleepersInv, Sleepers
(* A step of a thread that is and stays awake, and tells nobody. *)
<1>2. ASSUME NEW t \in User, NEW pc \in UserPc, tl_pc[t] # "sleeps", pc # "sleeps", AtPc(t, pc), PcOK',
             UNCHANGED <<c_waiting, c_signaled, tl_owed, tl_stolen>>
      PROVE  SleepersInv'
  BY <1>2, SameSleepers DEF SleepersInv
<1>3. ASSUME NEW t \in User, AcquireLock(t) PROVE SleepersInv'
  BY <1>0, <1>2, <1>3 DEF AcquireLock, AtPc, UserPc
<1>4. ASSUME NEW t \in User, AcquireTest(t) PROVE SleepersInv'
  <2>1. CASE in_use
    BY <1>0, <1>2, <1>4, <2>1 DEF AcquireTest, AtPc, UserPc
  <2>2. CASE ~in_use
    BY <1>0, <1>2, <1>4, <2>2 DEF AcquireTest, AtPc, UserPc
  <2> QED
    BY <2>1, <2>2
<1>5. ASSUME NEW t \in User, ReleaseThread(t) PROVE SleepersInv'
  <2>1. Sleepers' = Sleepers
    BY <1>5, SameSleepers DEF ReleaseThread, UserPc
  <2>2. PcOK'
    BY <1>0, <1>5 DEF ReleaseThread, AtPc, UserPc
  <2> QED
    BY <1>5, <2>1, <2>2, BroadcastKeeps DEF ReleaseThread, SleepersInv
<1>6. ASSUME NEW t \in User, WakeupThread(t) PROVE SleepersInv'
  BY <1>0, <1>2, <1>6 DEF WakeupThread, AtPc, UserPc
<1>7. ASSUME NEW t \in User, WakeupBroadcast(t) PROVE SleepersInv'
  <2>1. Sleepers' = Sleepers
    BY <1>7, SameSleepers DEF WakeupBroadcast, UserPc
  <2>2. PcOK'
    BY <1>0, <1>7 DEF WakeupBroadcast, AtPc, UserPc
  <2> QED
    BY <1>7, <2>1, <2>2, BroadcastKeeps DEF WakeupBroadcast, SleepersInv
<1>8. ASSUME NEW t \in User, NEW timed \in BOOLEAN, WaitInside(t, timed) PROVE SleepersInv'
  BY <1>0, <1>2, <1>8 DEF WaitInside, AtPc, UserPc
<1>9. ASSUME NEW t \in User, ConditionWait(t) PROVE SleepersInv'
  <2>1. CASE c_signaled # 0
    BY <1>0, <1>2, <1>9, <2>1 DEF ConditionWait, AtPc, UserPc
  <2>2. CASE c_signaled = 0
    <3>1. PcOK'
      BY <1>0, <1>9, <2>2 DEF ConditionWait, AtPc, UserPc
    <3> QED
      BY <1>9, <2>2, <3>1, OneSleepsMore DEF ConditionWait, SleepersInv
  <2> QED
    BY <2>1, <2>2
<1>10. ASSUME NEW t \in User, NapEnds(t) PROVE SleepersInv'
  BY <1>0, <1>2, <1>10 DEF NapEnds, AtPc, UserPc
<1>11. ASSUME NEW t \in User, ConditionTimedWait(t) PROVE SleepersInv'
  <2>0. c_waiting \in Nat
    BY FS_CardinalityType DEF SleepersInv
  <2>1. CASE c_signaled # 0
    <3>1. EndWait(t, c_waiting + 1) /\ tl_pc[t] = "waits" /\ UNCHANGED tl_goal
      BY <1>11, <2>1 DEF ConditionTimedWait
    <3>2. PcOK'
      BY <1>0, <3>1 DEF EndWait, AtPc, UserPc
    <3>3. Sleepers' = Sleepers /\ c_waiting' = c_waiting
      BY <1>0, <2>0, <3>1, SameSleepers DEF EndWait, UserPc
    <3>4. tl_owed' \subseteq Sleepers'
      BY <3>1, <3>3 DEF EndWait, SleepersInv
    <3> QED
      BY <2>0, <3>1, <3>2, <3>3, <3>4, EndWaitKeepsOwed DEF SleepersInv
  <2>2. CASE c_signaled = 0
    <3>1. PcOK'
      BY <1>0, <1>11, <2>2 DEF ConditionTimedWait, AtPc, UserPc
    <3> QED
      BY <1>11, <2>2, <3>1, OneSleepsMore DEF ConditionTimedWait, SleepersInv
  <2> QED
    BY <2>1, <2>2
<1>12. ASSUME NEW t \in User, SleepEnds(t) PROVE SleepersInv'
  <2>0. c_waiting \in Nat
    BY FS_CardinalityType DEF SleepersInv
  <2>1. EndWait(t, c_waiting) /\ tl_pc[t] = "sleeps" /\ UNCHANGED tl_goal
    BY <1>12 DEF SleepEnds
  <2>2. PcOK'
    BY <1>0, <2>1 DEF EndWait, AtPc, UserPc
  <2>3. IsFiniteSet(Sleepers') /\ Cardinality(Sleepers') = c_waiting' /\ tl_owed' \subseteq Sleepers'
    BY <1>0, <2>1, OneSleepsLess DEF EndWait, UserPc
  <2> QED
    BY <2>0, <2>1, <2>2, <2>3, EndWaitKeepsOwed DEF SleepersInv
<1>13. ASSUME NEW t \in User, Signal(t) PROVE SleepersInv'
  <2>1. Sleepers' = Sleepers /\ PcOK'
    BY <1>0, <1>13 DEF Signal, Sleepers
  <2>2. Cardinality(tl_owed) \in Nat
    BY OwedCounted
  <2> QED
    BY <1>13, <2>1, <2>2 DEF Signal, SleepersInv
<1> QED
  BY <1>1, <1>3, <1>4, <1>5, <1>6, <1>7, <1>8, <1>9, <1>10, <1>11, <1>12, <1>13
  DEF ThreadLockNext

(* Whoever slept when the lock was released or woken up has a signal, unless *)
(* a wait with a limit that came later took it, and the waiters are counted  *)
(* (condition.h:64-90, 99-147).                                              *)
THEOREM BroadcastReachesAll == ThreadLockSpec => []BroadcastReachesSleepers
<1>1. SleepersInv => BroadcastReachesSleepers
  BY DEF SleepersInv, Sleepers, BroadcastReachesSleepers
<1> QED
  BY <1>1, SleepersInitially, SleepersStep, PTL DEF ThreadLockSpec
-----------------------------------------------------------------------------
(* What is above a class is closed: its parent is there, and so is what is   *)
(* above what is there; no class is above itself.                            *)
ClosedAbove(S, c) == \A k \in S \cup {c} : cls_parent[k] \in S \cup {BaseClass}

LEMMA AncestorsLeast ==
  ASSUME NEW c \in Class
  PROVE  /\ Ancestors(c) \in SUBSET Class
         /\ ClosedAbove(Ancestors(c), c)
         /\ \A S \in SUBSET Class : ClosedAbove(S, c) => Ancestors(c) \subseteq S
  BY ObjectAssumption DEF Ancestors, ClosedAbove

LEMMA AncestorsNested ==
  ASSUME NEW c \in Class, NEW a \in Ancestors(c)
  PROVE  a \in Class /\ Ancestors(a) \subseteq Ancestors(c)
<1>1. a \in Class /\ ClosedAbove(Ancestors(c), a) /\ Ancestors(c) \in SUBSET Class
  BY AncestorsLeast DEF ClosedAbove
<1> QED
  BY <1>1, AncestorsLeast

LEMMA AncestorsUp ==
  ASSUME NEW c \in Class
  PROVE  Ancestors(c) = IF cls_parent[c] = BaseClass THEN {} ELSE {cls_parent[c]} \cup Ancestors(cls_parent[c])
<1>1. CASE cls_parent[c] = BaseClass
  <2>1. ClosedAbove({}, c) /\ {} \in SUBSET Class
    BY <1>1 DEF ClosedAbove
  <2> QED
    BY <1>1, <2>1, AncestorsLeast
<1>2. CASE cls_parent[c] # BaseClass
  <2> DEFINE p == cls_parent[c]
             S == {p} \cup Ancestors(p)
  <2>1. p \in Class /\ p \in Ancestors(c)
    BY <1>2, ObjectAssumption, AncestorsLeast DEF ClosedAbove
  <2>2. S \subseteq Ancestors(c)
    BY <2>1, AncestorsNested
  <2>3. ClosedAbove(S, c) /\ S \in SUBSET Class
    BY <2>1, AncestorsLeast DEF ClosedAbove
  <2>4. Ancestors(c) \subseteq S
    BY <2>3, AncestorsLeast
  <2> QED
    BY <1>2, <2>2, <2>4
<1> QED
  BY <1>1, <1>2

LEMMA NotAboveItself ==
  ASSUME NEW c \in Class
  PROVE  c \notin Ancestors(c)
<1> DEFINE S == {k \in Class : k \in Ancestors(k)}
<1>1. S # {} => \E k \in S : cls_parent[k] \notin S
  BY HierarchyAssumption
<1>2. ASSUME NEW k \in S PROVE cls_parent[k] \in S
  <2>1. k \in Class /\ k \in Ancestors(k)
    OBVIOUS
  <2>2. cls_parent[k] # BaseClass /\ cls_parent[k] \in Class
    BY <2>1, AncestorsUp, ObjectAssumption
  <2>3. cls_parent[k] \in Ancestors(k) /\ k \in {cls_parent[k]} \cup Ancestors(cls_parent[k])
    BY <2>1, <2>2, AncestorsUp
  <2>4. CASE k = cls_parent[k]
    BY <2>1, <2>4
  <2>5. CASE k \in Ancestors(cls_parent[k])
    BY <2>2, <2>3, <2>5, AncestorsNested
  <2> QED
    BY <2>3, <2>4, <2>5
<1> QED
  BY <1>1, <1>2
-----------------------------------------------------------------------------
(* The arrays are well defined, because no class is above itself: functions  *)
(* that fill them in for some classes agree, and every class has one.        *)
Above(f, c) == IF cls_parent[c] = BaseClass THEN NoArrays ELSE f[cls_parent[c]]
Fills(f, T) ==
  /\ T \in SUBSET Class /\ f = [c \in T |-> f[c]]
  /\ \A c \in T : cls_parent[c] \in T \cup {BaseClass}
  /\ \A c \in T : f[c] = ArraysBelow(Above(f, c), c)

LEMMA FillsAgree ==
  ASSUME NEW f, NEW T, Fills(f, T), NEW g, NEW U, Fills(g, U)
  PROVE  \A c \in T \cap U : f[c] = g[c]
<1> DEFINE D == {c \in T \cap U : f[c] # g[c]}
<1>1. D \in SUBSET Class
  BY DEF Fills
<1>2. D # {} => \E c \in D : cls_parent[c] \notin D
  BY <1>1, HierarchyAssumption
<1>3. ASSUME NEW c \in D, cls_parent[c] \notin D PROVE FALSE
  <2>1. Above(f, c) = Above(g, c)
    BY <1>3 DEF Above, Fills
  <2> QED
    BY <1>3, <2>1 DEF Fills
<1> QED
  BY <1>2, <1>3

LEMMA EachIsFilled ==
  ASSUME NEW c \in Class
  PROVE  \E T \in SUBSET Class : \E f : Fills(f, T) /\ c \in T
<1> DEFINE Filled(k) == \E T \in SUBSET Class : \E f : Fills(f, T) /\ k \in T
           B == {k \in Class : ~Filled(k)}
<1>1. B # {} => \E k \in B : cls_parent[k] \notin B
  BY HierarchyAssumption
<1>2. ASSUME NEW k \in Class, cls_parent[k] = BaseClass PROVE Filled(k)
  <2> DEFINE f == [x \in {k} |-> ArraysBelow(NoArrays, k)]
  <2>1. Fills(f, {k})
    BY <1>2 DEF Fills, Above
  <2> QED
    BY <2>1
<1>3. ASSUME NEW k \in Class, cls_parent[k] # BaseClass, Filled(cls_parent[k]) PROVE Filled(k)
  <2>0. PICK T \in SUBSET Class : \E f : Fills(f, T) /\ cls_parent[k] \in T
    BY <1>3
  <2>1. PICK f : Fills(f, T) /\ cls_parent[k] \in T
    BY <2>0
  <2>2. CASE k \in T
    BY <2>1, <2>2
  <2>3. CASE k \notin T
    <3> DEFINE U == T \cup {k}
               g == [x \in U |-> IF x = k THEN ArraysBelow(f[cls_parent[k]], k) ELSE f[x]]
    <3>1. \A x \in U : Above(g, x) = Above(f, x)
      BY <2>1, <2>3 DEF Fills, Above
    <3>2. g[k] = ArraysBelow(Above(f, k), k)
      BY <1>3 DEF Above
    <3>3. \A x \in T : g[x] = ArraysBelow(Above(f, x), x)
      BY <2>1, <2>3 DEF Fills
    <3>4. U \in SUBSET Class /\ g = [x \in U |-> g[x]] /\ \A x \in U : cls_parent[x] \in U \cup {BaseClass}
      BY <2>1 DEF Fills
    <3> HIDE DEF g
    <3>5. Fills(g, U)
      BY <3>1, <3>2, <3>3, <3>4 DEF Fills
    <3> QED
      BY <3>4, <3>5
  <2> QED
    BY <2>2, <2>3
<1>4. B = {}
  BY <1>1, <1>2, <1>3, ObjectAssumption
<1> QED
  BY <1>4

LEMMA ArraysDefined ==
  ASSUME NEW c \in Class
  PROVE  ArraysOf[c] = ArraysBelow(Above(ArraysOf, c), c)
<1> DEFINE Fill(k) == CHOOSE f : \E T \in SUBSET Class : Fills(f, T) /\ k \in T
           g == [k \in Class |-> Fill(k)[k]]
<1>1. ASSUME NEW k \in Class PROVE \E T \in SUBSET Class : Fills(Fill(k), T) /\ k \in T
  <2>1. \E f : \E T \in SUBSET Class : Fills(f, T) /\ k \in T
    BY EachIsFilled
  <2> QED
    BY <2>1
<1> HIDE DEF Fill
<1>2. ASSUME NEW k \in Class PROVE g[k] = ArraysBelow(Above(g, k), k)
  <2>1. PICK T \in SUBSET Class : Fills(Fill(k), T) /\ k \in T
    BY <1>1
  <2>2. CASE cls_parent[k] = BaseClass
    BY <2>1, <2>2 DEF Fills, Above
  <2>3. CASE cls_parent[k] # BaseClass
    <3>1. cls_parent[k] \in Class /\ cls_parent[k] \in T
      BY <2>1, <2>3, ObjectAssumption DEF Fills
    <3>2. PICK U \in SUBSET Class : Fills(Fill(cls_parent[k]), U) /\ cls_parent[k] \in U
      BY <1>1, <3>1
    <3>3. Fill(k)[cls_parent[k]] = Fill(cls_parent[k])[cls_parent[k]]
      BY <2>1, <3>1, <3>2, FillsAgree
    <3>4. Above(Fill(k), k) = Above(g, k)
      BY <2>3, <3>1, <3>3 DEF Above
    <3>5. Fill(k)[k] = ArraysBelow(Above(Fill(k), k), k)
      BY <2>1 DEF Fills
    <3> QED
      BY <3>4, <3>5
  <2> QED
    BY <2>2, <2>3
<1> DEFINE Right(f) == f = [k \in Class |-> ArraysBelow(IF cls_parent[k] = BaseClass THEN NoArrays ELSE f[cls_parent[k]], k)]
<1>3. Right(g)
  BY <1>2 DEF Above
<1>4. Right(CHOOSE f : Right(f))
  BY <1>3
<1>5. Right(ArraysOf)
  BY <1>4 DEF ArraysOf
<1> QED
  BY <1>5 DEF Above
-----------------------------------------------------------------------------
(* What the arrays hold, by induction from the top of the hierarchy down.    *)
Lineage(c) == {c} \cup Ancestors(c)
ParentsFirst(s, S) ==
  /\ s \in Seq(Class) /\ {s[k] : k \in DOMAIN s} = S
  /\ \A j, k \in DOMAIN s : j < k => s[j] # s[k] /\ s[k] \notin Ancestors(s[j])
ChildrenFirst(s, S) ==
  /\ s \in Seq(Class) /\ {s[k] : k \in DOMAIN s} = S
  /\ \A j, k \in DOMAIN s : j < k => s[j] # s[k] /\ s[j] \notin Ancestors(s[k])

LEMMA NotBelow ==
  ASSUME NEW c \in Class, NEW a \in Ancestors(c)
  PROVE  a # c /\ c \notin Ancestors(a)
  BY AncestorsNested, NotAboveItself

LEMMA OwnLast ==
  ASSUME NEW c \in Class, NEW S \in SUBSET Ancestors(c), NEW s, ParentsFirst(s, S)
  PROVE  ParentsFirst(s \o <<c>>, S \cup {c})
<1> DEFINE t == s \o <<c>>
<1>1. s \in Seq(Class) /\ Len(s) \in Nat /\ DOMAIN s = 1 .. Len(s)
  BY DEF ParentsFirst
<1>2. t \in Seq(Class) /\ Len(t) = Len(s) + 1 /\ t[Len(s) + 1] = c
        /\ \A k \in 1 .. Len(s) : t[k] = s[k]
  BY <1>1
<1>3. DOMAIN t = 1 .. Len(s) + 1
  BY <1>2
<1> HIDE DEF t
<1>4. {t[k] : k \in DOMAIN t} = S \cup {c}
  BY <1>1, <1>2, <1>3 DEF ParentsFirst
<1>5. ASSUME NEW j \in DOMAIN t, NEW k \in DOMAIN t, j < k
      PROVE  t[j] # t[k] /\ t[k] \notin Ancestors(t[j])
  <2>1. CASE k <= Len(s)
    <3>1. j \in DOMAIN s /\ k \in DOMAIN s /\ t[j] = s[j] /\ t[k] = s[k]
      BY <1>1, <1>2, <1>3, <1>5, <2>1
    <3> QED
      BY <1>5, <3>1 DEF ParentsFirst
  <2>2. CASE k = Len(s) + 1
    <3>1. j \in DOMAIN s /\ t[j] = s[j] /\ t[k] = c
      BY <1>1, <1>2, <1>3, <1>5, <2>2
    <3>2. s[j] \in Ancestors(c)
      BY <3>1 DEF ParentsFirst
    <3> QED
      BY <3>1, <3>2, NotBelow
  <2> QED
    BY <1>1, <1>3, <2>1, <2>2
<1> QED
  BY <1>2, <1>4, <1>5 DEF ParentsFirst, t

LEMMA OwnFirst ==
  ASSUME NEW c \in Class, NEW S \in SUBSET Ancestors(c), NEW s, ChildrenFirst(s, S)
  PROVE  ChildrenFirst(<<c>> \o s, S \cup {c})
<1> DEFINE t == <<c>> \o s
<1>1. s \in Seq(Class) /\ Len(s) \in Nat /\ DOMAIN s = 1 .. Len(s)
  BY DEF ChildrenFirst
<1>2. t \in Seq(Class) /\ Len(t) = Len(s) + 1 /\ t[1] = c
        /\ \A k \in 1 .. Len(s) : t[k + 1] = s[k]
  BY <1>1
<1>3. DOMAIN t = 1 .. Len(s) + 1
  BY <1>2
<1> HIDE DEF t
<1>6. \A k \in DOMAIN t : k # 1 => k - 1 \in DOMAIN s /\ t[k] = s[k - 1]
  <2> SUFFICES ASSUME NEW k \in DOMAIN t, k # 1 PROVE k - 1 \in DOMAIN s /\ t[k] = s[k - 1]
    OBVIOUS
  <2>1. k - 1 \in 1 .. Len(s) /\ k = (k - 1) + 1
    BY <1>1, <1>3
  <2> QED
    BY <1>1, <1>2, <2>1
<1>7. \A k \in DOMAIN s : k + 1 \in DOMAIN t /\ t[k + 1] = s[k]
  BY <1>1, <1>2, <1>3
<1>4. {t[k] : k \in DOMAIN t} = S \cup {c}
  <2>1. 1 \in DOMAIN t
    BY <1>1, <1>3
  <2>2. \A x \in S : \E k \in DOMAIN s : x = s[k]
    BY DEF ChildrenFirst
  <2>3. \A k \in DOMAIN s : s[k] \in S
    BY DEF ChildrenFirst
  <2>4. ASSUME NEW k \in DOMAIN t PROVE t[k] \in S \cup {c}
    BY <1>2, <1>6, <2>3
  <2>5. ASSUME NEW x \in S \cup {c} PROVE \E k \in DOMAIN t : t[k] = x
    BY <1>2, <1>7, <2>1, <2>2
  <2> QED
    BY <2>4, <2>5
<1>5. ASSUME NEW j \in DOMAIN t, NEW k \in DOMAIN t, j < k
      PROVE  t[j] # t[k] /\ t[j] \notin Ancestors(t[k])
  <2>0. k # 1 /\ k - 1 \in DOMAIN s /\ t[k] = s[k - 1]
    BY <1>1, <1>3, <1>5, <1>6
  <2>1. CASE j # 1
    <3>1. j - 1 \in DOMAIN s /\ t[j] = s[j - 1] /\ j - 1 < k - 1
      BY <1>1, <1>3, <1>5, <1>6, <2>1
    <3> QED
      BY <2>0, <3>1 DEF ChildrenFirst
  <2>2. CASE j = 1
    <3>2. s[k - 1] \in Ancestors(c)
      BY <2>0 DEF ChildrenFirst
    <3> QED
      BY <1>2, <2>0, <2>2, <3>2, NotBelow
  <2> QED
    BY <2>1, <2>2
<1> QED
  BY <1>2, <1>4, <1>5 DEF ChildrenFirst, t

LEMMA ArraysFilled ==
  \A c \in Class : /\ ParentsFirst(ArraysOf[c].construct, Constructs \cap Lineage(c))
                   /\ ChildrenFirst(ArraysOf[c].destruct, Destructs \cap Lineage(c))
<1> DEFINE Right(c) == /\ ParentsFirst(ArraysOf[c].construct, Constructs \cap Lineage(c))
                       /\ ChildrenFirst(ArraysOf[c].destruct, Destructs \cap Lineage(c))
           B == {c \in Class : ~Right(c)}
<1>1. B # {} => \E c \in B : cls_parent[c] \notin B
  BY HierarchyAssumption
<1>2. ASSUME NEW c \in Class, cls_parent[c] # BaseClass => Right(cls_parent[c]) PROVE Right(c)
  <2> DEFINE above == Above(ArraysOf, c)
  <2>1. ParentsFirst(above.construct, Constructs \cap Ancestors(c))
          /\ ChildrenFirst(above.destruct, Destructs \cap Ancestors(c))
    <3>1. CASE cls_parent[c] = BaseClass
      BY <3>1, AncestorsUp DEF Above, NoArrays, ParentsFirst, ChildrenFirst
    <3>2. CASE cls_parent[c] # BaseClass
      <4>1. Ancestors(c) = Lineage(cls_parent[c]) /\ above = ArraysOf[cls_parent[c]]
        BY <3>2, AncestorsUp DEF Above, Lineage
      <4> QED
        BY <1>2, <3>2, <4>1
    <3> QED
      BY <3>1, <3>2
  <2>2. ArraysOf[c].construct = above.construct \o Own(c, Constructs)
          /\ ArraysOf[c].destruct = Own(c, Destructs) \o above.destruct
    <3>1. ArraysOf[c] = ArraysBelow(above, c)
      BY ArraysDefined
    <3> HIDE DEF above
    <3> QED
      BY <3>1 DEF ArraysBelow
  <2> HIDE DEF above
  <2>3. ParentsFirst(ArraysOf[c].construct, Constructs \cap Lineage(c))
    <3>1. CASE c \in Constructs
      <4>1. Constructs \cap Lineage(c) = (Constructs \cap Ancestors(c)) \cup {c}
        BY <3>1 DEF Lineage
      <4> QED
        BY <2>1, <2>2, <3>1, <4>1, OwnLast DEF Own
    <3>2. CASE c \notin Constructs
      <4>1. Constructs \cap Lineage(c) = Constructs \cap Ancestors(c)
        BY <3>2 DEF Lineage
      <4>2. above.construct \in Seq(Class) /\ above.construct \o <<>> = above.construct
        BY <2>1 DEF ParentsFirst
      <4> QED
        BY <2>1, <2>2, <3>2, <4>1, <4>2 DEF Own
    <3> QED
      BY <3>1, <3>2
  <2>4. ChildrenFirst(ArraysOf[c].destruct, Destructs \cap Lineage(c))
    <3>1. CASE c \in Destructs
      <4>1. Destructs \cap Lineage(c) = (Destructs \cap Ancestors(c)) \cup {c}
        BY <3>1 DEF Lineage
      <4> QED
        BY <2>1, <2>2, <3>1, <4>1, OwnFirst DEF Own
    <3>2. CASE c \notin Destructs
      <4>1. Destructs \cap Lineage(c) = Destructs \cap Ancestors(c)
        BY <3>2 DEF Lineage
      <4>2. above.destruct \in Seq(Class) /\ <<>> \o above.destruct = above.destruct
        BY <2>1 DEF ChildrenFirst
      <4> QED
        BY <2>1, <2>2, <3>2, <4>1, <4>2 DEF Own
    <3> QED
      BY <3>1, <3>2
  <2> QED
    BY <2>3, <2>4
<1>3. \A c \in Class : cls_parent[c] \in Class \cup {BaseClass}
  BY ObjectAssumption
<1> HIDE DEF Right
<1>4. B = {}
  BY <1>1, <1>2, <1>3
<1>5. \A c \in Class : Right(c)
  BY <1>4
<1> QED
  BY <1>5 DEF Right

ClassInv ==
  /\ cls_construct = [c \in Class |-> cls_construct[c]] /\ cls_destruct = [c \in Class |-> cls_destruct[c]]
  /\ cls_initialized \in [Class -> BOOLEAN]
  /\ \A c \in Class : cls_initialized[c] =>
       cls_construct[c] = ArraysOf[c].construct /\ cls_destruct[c] = ArraysOf[c].destruct

(* A class is initialized once; the arrays of the others stay. *)
LEMMA ClassInitialized ==
  ASSUME ClassInv, NEW c \in Class, ClassInitialize(c)
  PROVE  /\ ClassInv' /\ cls_initialized'[c]
         /\ \A k \in Class : cls_initialized[k] => cls_initialized'[k] /\ cls_construct'[k] = cls_construct[k]
  BY DEF ClassInv, ClassInitialize

LEMMA ClassStep == ClassInv /\ [ObjectNext]_obj_vars => ClassInv'
<1> SUFFICES ASSUME ClassInv, [ObjectNext]_obj_vars PROVE ClassInv'
  OBVIOUS
<1>1. CASE UNCHANGED obj_vars
  BY <1>1 DEF obj_vars, ClassInv
<1>2. ASSUME NEW t \in Thread_, WriteBack(t) PROVE ClassInv'
  BY <1>2 DEF WriteBack, ClassInv
<1>3. ASSUME NEW t \in Thread_, NEW o \in Obj, Retain(t, o) \/ Release(t, o) PROVE ClassInv'
  BY <1>3 DEF Retain, Release, ClassInv
<1>4. ASSUME NEW t \in Thread_, NEW o \in Obj, NEW u \in Thread_, HandOver(t, u, o) PROVE ClassInv'
  BY <1>4 DEF HandOver, ClassInv
<1>5. ASSUME NEW t \in Thread_, NEW o \in Obj, NEW c \in Class, New(t, o, c) PROVE ClassInv'
  BY <1>5, ClassInitialized DEF New
<1> QED
  BY <1>1, <1>2, <1>3, <1>4, <1>5 DEF ObjectNext

LEMMA ClassInvOrders == ClassInv => ArraysInOrder
<1> SUFFICES ASSUME ClassInv, NEW c \in Class, cls_initialized[c]
             PROVE  /\ IsOrder(cls_construct[c], Constructs \cap Lineage(c), LAMBDA a, b : a \in Ancestors(b))
                    /\ IsOrder(cls_destruct[c], Destructs \cap Lineage(c), LAMBDA a, b : b \in Ancestors(a))
  BY DEF ArraysInOrder, Lineage
<1>1. /\ ParentsFirst(cls_construct[c], Constructs \cap Lineage(c))
      /\ ChildrenFirst(cls_destruct[c], Destructs \cap Lineage(c))
  BY ArraysFilled DEF ClassInv
<1> QED
  BY <1>1 DEF ParentsFirst, ChildrenFirst, IsOrder
-----------------------------------------------------------------------------
(* The references to an object that are held, as pairs; one more or less of  *)
(* them is one more or less in the sum.                                      *)
Holdings == [Thread_ -> [Obj -> Nat]]
RefsOf(held, o) == UNION {{t} \X (1 .. held[t][o]) : t \in Thread_}

LEMMA RefsAre ==
  ASSUME NEW held \in Holdings, NEW o \in Obj
  PROVE  \A x : x \in RefsOf(held, o) <=> \E t \in Thread_ : \E k \in 1 .. held[t][o] : x = <<t, k>>
  BY DEF RefsOf

OneMore(held, more, t, o) ==
  /\ held \in Holdings /\ more \in Holdings
  /\ more[t][o] = held[t][o] + 1
  /\ \A u \in Thread_ \ {t} : more[u][o] = held[u][o]
  /\ \A p \in Obj \ {o} : \A u \in Thread_ : more[u][p] = held[u][p]

LEMMA OneMorePair ==
  ASSUME NEW held, NEW more, NEW t \in Thread_, NEW o \in Obj, OneMore(held, more, t, o)
  PROVE  /\ RefsOf(more, o) = RefsOf(held, o) \cup {<<t, more[t][o]>>}
         /\ <<t, more[t][o]>> \notin RefsOf(held, o)
         /\ \A p \in Obj \ {o} : RefsOf(more, p) = RefsOf(held, p)
<1> DEFINE n == held[t][o]
<1>1. held \in Holdings /\ more \in Holdings /\ n \in Nat /\ more[t][o] = n + 1
        /\ (\A u \in Thread_ \ {t} : more[u][o] = held[u][o])
        /\ (\A p \in Obj \ {o} : \A u \in Thread_ : more[u][p] = held[u][p])
  BY DEF OneMore, Holdings
<1>2. RefsOf(more, o) = RefsOf(held, o) \cup {<<t, n + 1>>}
  <2>1. ASSUME NEW x \in RefsOf(more, o) PROVE x \in RefsOf(held, o) \cup {<<t, n + 1>>}
    <3>1. PICK u \in Thread_ : \E k \in 1 .. more[u][o] : x = <<u, k>>
      BY <1>1, RefsAre
    <3>2. PICK k \in 1 .. more[u][o] : x = <<u, k>>
      BY <3>1
    <3>3. CASE u = t /\ k = n + 1
      BY <3>2, <3>3
    <3>4. CASE ~(u = t /\ k = n + 1)
      <4>1. k \in 1 .. held[u][o]
        BY <1>1, <3>4
      <4> QED
        BY <1>1, <3>2, <4>1, RefsAre
    <3> QED
      BY <3>3, <3>4
  <2>2. ASSUME NEW u \in Thread_, NEW k \in 1 .. held[u][o] PROVE k \in 1 .. more[u][o]
    BY <1>1 DEF Holdings
  <2>3. RefsOf(held, o) \subseteq RefsOf(more, o)
    BY <1>1, <2>2, RefsAre
  <2>4. <<t, n + 1>> \in RefsOf(more, o)
    <3>1. n + 1 \in 1 .. more[t][o]
      BY <1>1
    <3> QED
      BY <1>1, <3>1, RefsAre
  <2> QED
    BY <2>1, <2>3, <2>4
<1>3. <<t, n + 1>> \notin RefsOf(held, o)
  <2>1. ~(n + 1 \in 1 .. held[t][o])
    BY <1>1
  <2> QED
    BY <1>1, <2>1, RefsAre
<1>4. \A p \in Obj \ {o} : RefsOf(more, p) = RefsOf(held, p)
  BY <1>1 DEF RefsOf
<1> QED
  BY <1>1, <1>2, <1>3, <1>4

LEMMA OneMoreCounts ==
  ASSUME NEW held, NEW more, NEW t \in Thread_, NEW o \in Obj, OneMore(held, more, t, o)
  PROVE  /\ IsFiniteSet(RefsOf(more, o)) <=> IsFiniteSet(RefsOf(held, o))
         /\ IsFiniteSet(RefsOf(held, o)) =>
              Cardinality(RefsOf(more, o)) = Cardinality(RefsOf(held, o)) + 1
<1> DEFINE S == RefsOf(held, o)
           M == RefsOf(more, o)
           x == <<t, more[t][o]>>
<1>1. M = S \cup {x} /\ x \notin S
  BY OneMorePair
<1> HIDE DEF S, M, x
<1>2. IsFiniteSet(S) => IsFiniteSet(M) /\ Cardinality(M) = Cardinality(S) + 1
  BY <1>1, FS_AddElement
<1>3. IsFiniteSet(M) => IsFiniteSet(S)
  BY <1>1, FS_Subset
<1>4. (IsFiniteSet(M) <=> IsFiniteSet(S)) /\ (IsFiniteSet(S) => Cardinality(M) = Cardinality(S) + 1)
  BY <1>2, <1>3
<1> QED
  BY <1>4 DEF S, M
-----------------------------------------------------------------------------
(* An object no two updates of which overlapped has at most one under way,   *)
(* and what that read is the count: the references held, and the one that is *)
(* being given up.                                                           *)
Total(held, o) == Cardinality(RefsOf(held, o))
Updates == [obj : Obj, by : {1, -1}, read : Int]
CountTypes ==
  /\ obj_class \in [Obj -> Class \cup {BaseClass}]
  /\ obj_count \in [Obj -> Int]
  /\ obj_held \in Holdings
  /\ obj_update \in [Thread_ -> {NoUpdate} \cup Updates]
  /\ obj_ran = [o \in Obj |-> obj_ran[o]]
FinitelyHeld == \A o \in Obj : IsFiniteSet(RefsOf(obj_held, o))
CountOf(o) ==
  /\ obj_class[o] = BaseClass <=> obj_count[o] = 0
  /\ Settled(o) => obj_count[o] = Total(obj_held, o)
PendingOf(t, o) ==
  /\ obj_update[t].read = obj_count[o]
  /\ obj_update[t].by = 1 => obj_count[o] = Total(obj_held, o) /\ Total(obj_held, o) > 0
  /\ obj_update[t].by = -1 => obj_count[o] = Total(obj_held, o) + 1
ConstructedOf(o) == obj_class[o] # BaseClass =>
  obj_ran[o] = cls_construct[obj_class[o]] /\ cls_initialized[obj_class[o]]
ObjInv(o) ==
  /\ CountOf(o) /\ ConstructedOf(o)
  /\ \A t, u \in Thread_ : Updating(t, o) /\ Updating(u, o) => t = u
  /\ \A t \in Thread_ : Updating(t, o) => PendingOf(t, o)
CountInv == CountTypes /\ FinitelyHeld /\ \A o \in Obj \ obj_raced : ObjInv(o)
ClassesKept == \A c \in Class : cls_initialized[c] =>
                                  cls_initialized'[c] /\ cls_construct'[c] = cls_construct[c]

LEMMA TotalNat ==
  ASSUME FinitelyHeld, NEW o \in Obj
  PROVE  Total(obj_held, o) \in Nat
  BY FS_CardinalityType DEF Total, FinitelyHeld

LEMMA CountsInitially == ObjectInit => CountInv
<1> SUFFICES ASSUME ObjectInit PROVE CountInv
  OBVIOUS
<1>1. CountTypes /\ obj_held = [t \in Thread_ |-> [o \in Obj |-> 0]]
  BY DEF ObjectInit, CountTypes, Holdings
<1>2. \A t \in Thread_, o \in Obj : ~Updating(t, o)
  BY DEF ObjectInit, Updating
<1>3. ASSUME NEW o \in Obj PROVE IsFiniteSet(RefsOf(obj_held, o)) /\ ObjInv(o)
  <2>1. RefsOf(obj_held, o) = {}
    BY <1>1 DEF RefsOf
  <2>2. IsFiniteSet({}) /\ Cardinality({}) = 0
    BY FS_EmptySet
  <2>3. obj_class[o] = BaseClass /\ obj_count[o] = 0
    BY DEF ObjectInit
  <2>4. CountOf(o) /\ ConstructedOf(o)
    BY <2>1, <2>2, <2>3 DEF CountOf, ConstructedOf, Total
  <2> QED
    BY <1>2, <2>1, <2>2, <2>4 DEF ObjInv
<1> QED
  BY <1>1, <1>3 DEF CountInv, FinitelyHeld

(* What is held, when it changes by one reference and when it does not. *)
LEMMA TotalMore ==
  ASSUME NEW held, NEW more, NEW t \in Thread_, NEW o \in Obj, OneMore(held, more, t, o),
         \A p \in Obj : IsFiniteSet(RefsOf(held, p)) \/ IsFiniteSet(RefsOf(more, p))
  PROVE  /\ \A p \in Obj : IsFiniteSet(RefsOf(more, p)) /\ IsFiniteSet(RefsOf(held, p))
         /\ Total(more, o) = Total(held, o) + 1
         /\ Total(held, o) \in Nat
         /\ \A p \in Obj \ {o} : RefsOf(more, p) = RefsOf(held, p) /\ Total(more, p) = Total(held, p)
<1>0. \A p \in Obj \ {o} : RefsOf(more, p) = RefsOf(held, p)
  BY DEF OneMore, RefsOf
<1>1. \A p \in Obj : IsFiniteSet(RefsOf(more, p)) /\ IsFiniteSet(RefsOf(held, p))
  <2>1. \A p \in Obj \ {o} : IsFiniteSet(RefsOf(more, p)) <=> IsFiniteSet(RefsOf(held, p))
    BY <1>0, Zenon
  <2>2. IsFiniteSet(RefsOf(more, o)) <=> IsFiniteSet(RefsOf(held, o))
    BY OneMoreCounts
  <2> QED
    BY <2>1, <2>2
<1>2. Total(more, o) = Total(held, o) + 1
  BY <1>1, OneMoreCounts DEF Total
<1>3. Total(held, o) \in Nat
  BY <1>1, FS_CardinalityType DEF Total
<1>4. \A p \in Obj \ {o} : RefsOf(more, p) = RefsOf(held, p) /\ Total(more, p) = Total(held, p)
  BY <1>0, Zenon DEF Total
<1> QED
  BY <1>1, <1>2, <1>3, <1>4

LEMMA HeldIsPositive ==
  ASSUME CountTypes, FinitelyHeld, NEW t \in Thread_, NEW o \in Obj, obj_held[t][o] > 0
  PROVE  Total(obj_held, o) > 0
<1>1. 1 \in 1 .. obj_held[t][o] /\ obj_held \in Holdings
  BY DEF CountTypes, Holdings
<1>2. <<t, 1>> \in RefsOf(obj_held, o)
  BY <1>1, RefsAre
<1>3. Total(obj_held, o) # 0
  BY <1>2, FS_EmptySet DEF FinitelyHeld, Total
<1> QED
  BY <1>3, TotalNat

(* An object that a step leaves alone. *)
LEMMA Untouched ==
  ASSUME NEW p \in Obj, ObjInv(p), CountTypes, ClassesKept,
         obj_count'[p] = obj_count[p], obj_class'[p] = obj_class[p], obj_ran'[p] = obj_ran[p],
         Total(obj_held', p) = Total(obj_held, p),
         \A t \in Thread_ : /\ Updating(t, p)' <=> Updating(t, p)
                            /\ Updating(t, p) => obj_update'[t] = obj_update[t]
  PROVE  ObjInv(p)'
<1>1. CountOf(p)'
  BY DEF ObjInv, CountOf, Settled
<1>2. ConstructedOf(p)'
  <2>1. obj_class[p] # BaseClass => obj_class[p] \in Class
    BY DEF CountTypes
  <2> QED
    BY <2>1 DEF ObjInv, ConstructedOf, ClassesKept
<1>3. ASSUME NEW t \in Thread_, Updating(t, p)' PROVE PendingOf(t, p)'
  BY <1>3 DEF ObjInv, PendingOf
<1> QED
  BY <1>1, <1>2, <1>3 DEF ObjInv

LEMMA Reads ==
  ASSUME CountTypes, NEW t \in Thread_, NEW o \in Obj, NEW inc \in {1, -1}, Read(t, o, inc)
  PROVE  /\ obj_update' \in [Thread_ -> {NoUpdate} \cup Updates]
         /\ Updating(t, o)' /\ obj_update'[t].read = obj_count[o] /\ obj_update'[t].by = inc
         /\ \A v \in Thread_ \ {t} : obj_update'[v] = obj_update[v]
         /\ \A p \in Obj \ {o} : ~Updating(t, p) /\ ~Updating(t, p)'
         /\ o \notin obj_raced /\ obj_raced \subseteq obj_raced'
         /\ o \notin obj_raced' => Settled(o)
<1> DEFINE u == [obj |-> o, by |-> inc, read |-> obj_count[o]]
<1>1. u \in Updates /\ u # NoUpdate /\ u.obj = o /\ u.by = inc /\ u.read = obj_count[o]
  BY DEF Updates, NoUpdate, CountTypes
<1>2. obj_update' = [obj_update EXCEPT ![t] = u] /\ obj_update[t] = NoUpdate
  BY DEF Read
<1> HIDE DEF u
<1>3. obj_update' \in [Thread_ -> {NoUpdate} \cup Updates] /\ obj_update'[t] = u
        /\ \A v \in Thread_ \ {t} : obj_update'[v] = obj_update[v]
  BY <1>1, <1>2 DEF CountTypes
<1>4. o \notin obj_raced /\ obj_raced \subseteq obj_raced' /\ (o \notin obj_raced' => Settled(o))
  BY DEF Read, Settled
<1> QED
  BY <1>1, <1>2, <1>3, <1>4 DEF Updating

(* An update begins of an object nobody else updates: it is the only one.    *)
LEMMA Begins ==
  ASSUME CountInv, NEW t \in Thread_, NEW o \in Obj, NEW inc \in {1, -1}, Read(t, o, inc),
         UNCHANGED <<cls_initialized, cls_construct, obj_class, obj_count, obj_ran>>,
         \A p \in Obj \ {o} : Total(obj_held', p) = Total(obj_held, p),
         inc = 1  => Total(obj_held', o) = Total(obj_held, o) /\ Total(obj_held, o) > 0,
         inc = -1 => Total(obj_held, o) = Total(obj_held', o) + 1
  PROVE  \A p \in Obj \ obj_raced' : ObjInv(p)'
<1>1. CountTypes /\ ClassesKept
  BY DEF CountInv, ClassesKept
<1>2. /\ Updating(t, o)' /\ obj_update'[t].read = obj_count[o] /\ obj_update'[t].by = inc
      /\ \A v \in Thread_ \ {t} : obj_update'[v] = obj_update[v]
      /\ \A p \in Obj \ {o} : ~Updating(t, p) /\ ~Updating(t, p)'
      /\ o \notin obj_raced /\ obj_raced \subseteq obj_raced'
      /\ o \notin obj_raced' => Settled(o)
  BY <1>1, Reads
<1>3. ASSUME NEW p \in Obj \ obj_raced', p # o PROVE ObjInv(p)'
  <2>1. ObjInv(p)
    BY <1>2, <1>3 DEF CountInv
  <2>2. \A v \in Thread_ : (Updating(v, p)' <=> Updating(v, p)) /\ (Updating(v, p) => obj_update'[v] = obj_update[v])
    BY <1>2, <1>3 DEF Updating
  <2> QED
    BY <1>1, <1>3, <2>1, <2>2, Untouched
<1>4. ASSUME o \notin obj_raced' PROVE ObjInv(o)'
  <2>1. ObjInv(o) /\ Settled(o)
    BY <1>2, <1>4 DEF CountInv
  <2>2. obj_count[o] = Total(obj_held, o) /\ (obj_class[o] = BaseClass <=> obj_count[o] = 0) /\ ConstructedOf(o)
    BY <2>1 DEF ObjInv, CountOf
  <2>3. \A v \in Thread_ : Updating(v, o)' => v = t
    BY <1>2, <2>1 DEF Updating, Settled
  <2>4. ~Settled(o)'
    BY <1>2 DEF Settled
  <2>5. CountOf(o)' /\ ConstructedOf(o)'
    BY <2>2, <2>4 DEF CountOf, ConstructedOf
  <2>6. PendingOf(t, o)'
    BY <1>2, <2>2 DEF PendingOf
  <2> QED
    BY <2>3, <2>5, <2>6 DEF ObjInv
<1> QED
  BY <1>3, <1>4

LEMMA RetainCounts ==
  ASSUME CountInv, NEW t \in Thread_, NEW o \in Obj, Retain(t, o)
  PROVE  CountInv'
<1>1. /\ Read(t, o, 1) /\ obj_held[t][o] > 0 /\ 1 \in {1, -1}
      /\ UNCHANGED <<cls_initialized, cls_construct, obj_class, obj_count, obj_ran, obj_held>>
  BY DEF Retain
<1>2. CountTypes /\ FinitelyHeld
  BY DEF CountInv
<1>3. CountTypes' /\ FinitelyHeld'
  BY <1>1, <1>2, Reads DEF CountTypes, FinitelyHeld
<1>4. Total(obj_held, o) > 0
  BY <1>1, <1>2, HeldIsPositive
<1>5. \A p \in Obj \ obj_raced' : ObjInv(p)'
  BY <1>1, <1>4, Begins
<1> QED
  BY <1>3, <1>5 DEF CountInv

LEMMA ReleaseCounts ==
  ASSUME CountInv, NEW t \in Thread_, NEW o \in Obj, Release(t, o)
  PROVE  CountInv'
<1>1. /\ Read(t, o, -1) /\ obj_held[t][o] > 0 /\ -1 \in {1, -1}
      /\ obj_held' = [obj_held EXCEPT ![t][o] = @ - 1]
      /\ UNCHANGED <<cls_initialized, cls_construct, obj_class, obj_count, obj_ran>>
  BY DEF Release
<1>2. CountTypes /\ FinitelyHeld
  BY DEF CountInv
<1>3. OneMore(obj_held', obj_held, t, o)
  BY <1>1, <1>2 DEF OneMore, Holdings, CountTypes
<1>4. /\ \A p \in Obj : IsFiniteSet(RefsOf(obj_held', p))
      /\ \A p \in Obj \ {o} : Total(obj_held', p) = Total(obj_held, p)
      /\ Total(obj_held, o) = Total(obj_held', o) + 1
  BY <1>2, <1>3, TotalMore DEF FinitelyHeld
<1>5. CountTypes' /\ FinitelyHeld'
  <2>1. obj_update' \in [Thread_ -> {NoUpdate} \cup Updates]
    BY <1>1, <1>2, Reads
  <2>2. obj_held' \in Holdings /\ FinitelyHeld'
    BY <1>3, <1>4 DEF OneMore, FinitelyHeld
  <2> QED
    BY <1>1, <1>2, <2>1, <2>2 DEF CountTypes
<1>6. \A p \in Obj \ obj_raced' : ObjInv(p)'
  <2>1. PICK inc \in {1, -1} : inc = -1 /\ inc # 1 /\ Read(t, o, inc)
    BY <1>1
  <2> QED
    BY <1>1, <1>4, <2>1, Begins
<1> QED
  BY <1>5, <1>6 DEF CountInv

LEMMA HandOverCounts ==
  ASSUME CountInv, NEW t \in Thread_, NEW v \in Thread_, NEW o \in Obj, HandOver(t, v, o)
  PROVE  CountInv'
<1>1. /\ t # v /\ obj_held[t][o] > 0
      /\ obj_held' = [obj_held EXCEPT ![t][o] = @ - 1, ![v][o] = @ + 1]
      /\ UNCHANGED <<cls_initialized, cls_construct, obj_class, obj_count, obj_ran, obj_update, obj_raced>>
  BY DEF HandOver
<1>2. CountTypes /\ FinitelyHeld /\ ClassesKept
  BY <1>1 DEF CountInv, ClassesKept
<1> DEFINE between == [obj_held EXCEPT ![t][o] = @ - 1]
<1>3. OneMore(between, obj_held, t, o) /\ OneMore(between, obj_held', v, o)
  <2>1. obj_held \in Holdings /\ between \in Holdings /\ between[v] = obj_held[v]
    BY <1>1, <1>2 DEF Holdings, CountTypes
  <2>2. obj_held' = [between EXCEPT ![v][o] = @ + 1]
    BY <1>1
  <2>3. OneMore(between, obj_held, t, o)
    BY <1>1, <2>1 DEF OneMore, Holdings
  <2> HIDE DEF between
  <2>4. OneMore(between, obj_held', v, o)
    BY <2>1, <2>2 DEF OneMore, Holdings
  <2> QED
    BY <2>3, <2>4
<1> HIDE DEF between
<1>4. /\ \A p \in Obj : IsFiniteSet(RefsOf(between, p))
      /\ \A p \in Obj \ {o} : Total(obj_held, p) = Total(between, p)
      /\ Total(obj_held, o) = Total(between, o) + 1
  BY <1>2, <1>3, TotalMore DEF FinitelyHeld
<1>5. /\ \A p \in Obj : IsFiniteSet(RefsOf(obj_held', p))
      /\ \A p \in Obj \ {o} : Total(obj_held', p) = Total(between, p)
      /\ Total(obj_held', o) = Total(between, o) + 1
  BY <1>3, <1>4, TotalMore
<1>6. \A p \in Obj : Total(obj_held', p) = Total(obj_held, p)
  BY <1>4, <1>5
<1>7. CountTypes' /\ FinitelyHeld'
  BY <1>1, <1>2, <1>3, <1>5 DEF CountTypes, FinitelyHeld, OneMore
<1>8. ASSUME NEW p \in Obj \ obj_raced' PROVE ObjInv(p)'
  <2>1. ObjInv(p) /\ obj_update' = obj_update
    BY <1>1, <1>8 DEF CountInv
  <2>2. \A w \in Thread_ : Updating(w, p)' <=> Updating(w, p)
    BY <2>1 DEF Updating
  <2> QED
    BY <1>1, <1>2, <1>6, <1>8, <2>1, <2>2, Untouched
<1> QED
  BY <1>7, <1>8 DEF CountInv

(* An object that is not there is not held and no update of it is under way. *)
LEMMA NewCounts ==
  ASSUME CountInv, ClassInv, NEW t \in Thread_, NEW o \in Obj, NEW c \in Class, New(t, o, c)
  PROVE  CountInv'
<1>1. /\ obj_class[o] = BaseClass /\ ClassInitialize(c)
      /\ obj_class' = [obj_class EXCEPT ![o] = c] /\ obj_count' = [obj_count EXCEPT ![o] = 1]
      /\ obj_ran' = [obj_ran EXCEPT ![o] = cls_construct'[c]]
      /\ obj_held' = [obj_held EXCEPT ![t][o] = 1] /\ UNCHANGED <<obj_update, obj_raced>>
  BY DEF New
<1>2. CountTypes /\ FinitelyHeld
  BY DEF CountInv
<1>3. /\ c # BaseClass /\ cls_initialized'[c] /\ ClassesKept
  BY <1>1, ClassInitialized, ObjectAssumption DEF ClassesKept
<1>4. CountTypes'
  <2>1. obj_held' \in Holdings
    BY <1>1, <1>2 DEF CountTypes, Holdings
  <2>2. obj_ran' = [p \in Obj |-> obj_ran'[p]]
    BY <1>1, <1>2 DEF CountTypes
  <2>3. obj_class' \in [Obj -> Class \cup {BaseClass}] /\ obj_count' \in [Obj -> Int]
    BY <1>1, <1>2 DEF CountTypes
  <2> QED
    BY <1>1, <1>2, <2>1, <2>2, <2>3 DEF CountTypes
<1>5. /\ \A p \in Obj \ {o} : RefsOf(obj_held', p) = RefsOf(obj_held, p)
      /\ RefsOf(obj_held', o) \subseteq RefsOf(obj_held, o) \cup {<<t, 1>>}
  <2>1. obj_held \in Holdings /\ obj_held' \in Holdings
    BY <1>2, <1>4 DEF CountTypes
  <2>2. /\ \A p \in Obj \ {o} : \A v \in Thread_ : obj_held'[v][p] = obj_held[v][p]
        /\ \A v \in Thread_ \ {t} : obj_held'[v][o] = obj_held[v][o]
        /\ obj_held'[t][o] = 1
    BY <1>1, <2>1 DEF Holdings
  <2>3. ASSUME NEW x \in RefsOf(obj_held', o) PROVE x \in RefsOf(obj_held, o) \cup {<<t, 1>>}
    <3>1. PICK v \in Thread_ : \E k \in 1 .. obj_held'[v][o] : x = <<v, k>>
      BY <2>1, RefsAre
    <3>2. PICK k \in 1 .. obj_held'[v][o] : x = <<v, k>>
      BY <3>1
    <3>3. CASE v = t
      BY <2>2, <3>2, <3>3
    <3>4. CASE v # t
      BY <2>1, <2>2, <3>2, <3>4, RefsAre
    <3> QED
      BY <3>3, <3>4
  <2>4. \A p \in Obj \ {o} : RefsOf(obj_held', p) = RefsOf(obj_held, p)
    BY <2>2 DEF RefsOf
  <2> QED
    BY <2>3, <2>4
<1>6. FinitelyHeld'
  <2>1. IsFiniteSet(RefsOf(obj_held, o) \cup {<<t, 1>>})
    BY <1>2, FS_AddElement DEF FinitelyHeld
  <2>2. IsFiniteSet(RefsOf(obj_held', o))
    BY <1>5, <2>1, FS_Subset
  <2> QED
    BY <1>2, <1>5, <2>2 DEF FinitelyHeld
<1>7. ASSUME NEW p \in Obj \ obj_raced', p # o PROVE ObjInv(p)'
  <2>1. ObjInv(p) /\ obj_update' = obj_update
    BY <1>1, <1>7 DEF CountInv
  <2>2. \A w \in Thread_ : Updating(w, p)' <=> Updating(w, p)
    BY <2>1 DEF Updating
  <2>3. obj_count'[p] = obj_count[p] /\ obj_class'[p] = obj_class[p] /\ obj_ran'[p] = obj_ran[p]
    BY <1>1, <1>2, <1>7 DEF CountTypes
  <2>4. Total(obj_held', p) = Total(obj_held, p)
    BY <1>5, <1>7 DEF Total
  <2> QED
    BY <1>2, <1>3, <1>7, <2>1, <2>2, <2>3, <2>4, Untouched
<1>8. ASSUME o \notin obj_raced' PROVE ObjInv(o)'
  <2>1. ObjInv(o) /\ obj_count[o] = 0 /\ Total(obj_held, o) \in Nat
    BY <1>1, <1>2, <1>8, TotalNat DEF CountInv, ObjInv, CountOf
  <2>2. Settled(o)
    <3> SUFFICES ASSUME NEW w \in Thread_, Updating(w, o) PROVE FALSE
      BY DEF Settled
    <3>1. obj_update[w] \in Updates
      BY <1>2 DEF Updating, CountTypes
    <3>2. PendingOf(w, o) /\ obj_update[w].by \in {1, -1}
      BY <2>1, <3>1 DEF ObjInv, Updates
    <3> QED
      BY <2>1, <3>2 DEF PendingOf
  <2>3. Total(obj_held, o) = 0
    BY <2>1, <2>2 DEF ObjInv, CountOf
  <2>4. obj_held[t][o] = 0
    <3>1. ~(obj_held[t][o] > 0)
      BY <1>2, <2>3, HeldIsPositive
    <3> QED
      BY <1>2, <3>1 DEF CountTypes, Holdings
  <2>5. OneMore(obj_held, obj_held', t, o)
    BY <1>1, <1>2, <2>4 DEF OneMore, Holdings, CountTypes
  <2>6. Total(obj_held', o) = 1
    <3>1. \A p \in Obj : IsFiniteSet(RefsOf(obj_held, p)) \/ IsFiniteSet(RefsOf(obj_held', p))
      BY <1>2 DEF FinitelyHeld
    <3> QED
      BY <2>3, <2>5, <3>1, TotalMore
  <2>7. obj_class'[o] = c /\ obj_count'[o] = 1 /\ obj_ran'[o] = cls_construct'[c]
    BY <1>1, <1>2 DEF CountTypes
  <2>8. \A w \in Thread_ : ~Updating(w, o)'
    BY <1>1, <2>2 DEF Settled, Updating
  <2>9. CountOf(o)' /\ ConstructedOf(o)'
    BY <1>3, <2>6, <2>7 DEF CountOf, ConstructedOf
  <2> QED
    BY <2>8, <2>9 DEF ObjInv
<1> QED
  BY <1>4, <1>6, <1>7, <1>8 DEF CountInv

LEMMA WriteBackCounts ==
  ASSUME CountInv, NEW t \in Thread_, WriteBack(t)
  PROVE  CountInv'
<1>1. CountTypes /\ FinitelyHeld /\ ClassesKept /\ obj_raced' = obj_raced
      /\ obj_update[t] # NoUpdate /\ obj_update' = [obj_update EXCEPT ![t] = NoUpdate]
  BY DEF WriteBack, CountInv, ClassesKept
<1>2. obj_update[t] \in Updates
  BY <1>1 DEF CountTypes
<1>3. PICK o \in Obj, inc \in {1, -1}, n \in Int :
        obj_update[t].obj = o /\ obj_update[t].by = inc /\ obj_update[t].read + inc = n
  BY <1>2 DEF Updates
<1>4. /\ Updating(t, o) /\ Total(obj_held, o) \in Nat
      /\ obj_update' \in [Thread_ -> {NoUpdate} \cup Updates] /\ obj_update'[t] = NoUpdate
      /\ \A v \in Thread_ \ {t} : obj_update'[v] = obj_update[v]
  BY <1>1, <1>3, TotalNat DEF CountTypes, Updating
<1>5. /\ Destroys(inc, n) =>
           /\ obj_ran' = [obj_ran EXCEPT ![o] = @ \o cls_destruct[obj_class[o]]]
           /\ obj_count' = [obj_count EXCEPT ![o] = 0]
           /\ obj_class' = [obj_class EXCEPT ![o] = BaseClass]
      /\ ~Destroys(inc, n) => obj_count' = [obj_count EXCEPT ![o] = n] /\ UNCHANGED <<obj_class, obj_ran>>
      /\ inc = 1  => obj_held' = [obj_held EXCEPT ![t][o] = @ + 1]
      /\ inc = -1 => obj_held' = obj_held
  <2>1. LET u == obj_update[t]
        IN  /\ Destroys(u.by, u.read + u.by) =>
                 /\ obj_ran' = [obj_ran EXCEPT ![u.obj] = @ \o cls_destruct[obj_class[u.obj]]]
                 /\ obj_count' = [obj_count EXCEPT ![u.obj] = 0]
                 /\ obj_class' = [obj_class EXCEPT ![u.obj] = BaseClass]
            /\ ~Destroys(u.by, u.read + u.by) =>
                 obj_count' = [obj_count EXCEPT ![u.obj] = u.read + u.by] /\ UNCHANGED <<obj_class, obj_ran>>
            /\ u.by = 1  => obj_held' = [obj_held EXCEPT ![t][u.obj] = @ + 1]
            /\ u.by # 1 => obj_held' = obj_held
    BY DEF WriteBack
  <2>2. inc = -1 => inc # 1
    OBVIOUS
  <2> QED
    BY <1>3, <2>1, <2>2
<1>6. /\ obj_count' \in [Obj -> Int] /\ obj_class' \in [Obj -> Class \cup {BaseClass}]
      /\ \A p \in Obj \ {o} : /\ obj_count'[p] = obj_count[p] /\ obj_class'[p] = obj_class[p]
                              /\ obj_ran'[p] = obj_ran[p]
      /\ Destroys(inc, n) => obj_count'[o] = 0 /\ obj_class'[o] = BaseClass
      /\ ~Destroys(inc, n) => obj_count'[o] = n /\ obj_class'[o] = obj_class[o] /\ obj_ran'[o] = obj_ran[o]
  <2>1. CASE Destroys(inc, n)
    <3>1. /\ obj_count' \in [Obj -> Int] /\ obj_class' \in [Obj -> Class \cup {BaseClass}]
          /\ obj_count'[o] = 0 /\ obj_class'[o] = BaseClass
          /\ \A p \in Obj \ {o} : obj_count'[p] = obj_count[p] /\ obj_class'[p] = obj_class[p]
      <4>1. /\ obj_count' = [obj_count EXCEPT ![o] = 0]
            /\ obj_class' = [obj_class EXCEPT ![o] = BaseClass]
        BY <1>5, <2>1
      <4>2. /\ obj_count \in [Obj -> Int] /\ obj_class \in [Obj -> Class \cup {BaseClass}]
        BY <1>1 DEF CountTypes
      <4>3. /\ obj_count' \in [Obj -> Int] /\ obj_count'[o] = 0
            /\ \A p \in Obj \ {o} : obj_count'[p] = obj_count[p]
        BY <4>1, <4>2
      <4>4. /\ obj_class' \in [Obj -> Class \cup {BaseClass}] /\ obj_class'[o] = BaseClass
            /\ \A p \in Obj \ {o} : obj_class'[p] = obj_class[p]
        BY <4>1, <4>2
      <4> QED
        BY <4>3, <4>4
    <3>2. \A p \in Obj \ {o} : obj_ran'[p] = obj_ran[p]
      BY <1>1, <1>5, <2>1 DEF CountTypes
    <3> QED
      BY <2>1, <3>1, <3>2
  <2>2. CASE ~Destroys(inc, n)
    BY <1>1, <1>5, <2>2 DEF CountTypes
  <2> QED
    BY <2>1, <2>2
<1>7. obj_ran' = [p \in Obj |-> obj_ran'[p]]
  BY <1>1, <1>5 DEF CountTypes
<1>8. /\ obj_held' \in Holdings /\ FinitelyHeld'
      /\ \A p \in Obj \ {o} : Total(obj_held', p) = Total(obj_held, p)
      /\ inc = 1 => Total(obj_held', o) = Total(obj_held, o) + 1
      /\ inc = -1 => Total(obj_held', o) = Total(obj_held, o)
  <2>1. CASE inc = -1
    BY <1>1, <1>5, <2>1 DEF CountTypes, FinitelyHeld
  <2>2. CASE inc = 1
    <3>1. \A p \in Obj : IsFiniteSet(RefsOf(obj_held, p)) \/ IsFiniteSet(RefsOf(obj_held', p))
      BY <1>1 DEF FinitelyHeld
    <3>2. OneMore(obj_held, obj_held', t, o)
      <4>1. obj_held \in Holdings /\ obj_held' = [obj_held EXCEPT ![t][o] = @ + 1]
        BY <1>1, <1>5, <2>2 DEF CountTypes
      <4> QED
        BY <4>1 DEF OneMore, Holdings
    <3> QED
      BY <2>2, <3>1, <3>2, TotalMore DEF FinitelyHeld, OneMore
  <2> QED
    BY <2>1, <2>2
<1>9. CountTypes'
  BY <1>4, <1>6, <1>7, <1>8 DEF CountTypes
<1>10. ASSUME NEW p \in Obj \ obj_raced', p # o PROVE ObjInv(p)'
  <2>1. ObjInv(p) /\ ~Updating(t, p) /\ ~Updating(t, p)'
    BY <1>1, <1>3, <1>4, <1>10 DEF CountInv, Updating
  <2>2. \A v \in Thread_ : (Updating(v, p)' <=> Updating(v, p)) /\ (Updating(v, p) => obj_update'[v] = obj_update[v])
    BY <1>4, <2>1 DEF Updating
  <2> QED
    BY <1>1, <1>6, <1>8, <1>10, <2>1, <2>2, Untouched
<1>11. ASSUME o \notin obj_raced' PROVE ObjInv(o)'
  <2>1. ObjInv(o)
    BY <1>1, <1>11 DEF CountInv
  <2>2. /\ PendingOf(t, o) /\ ConstructedOf(o) /\ (obj_class[o] = BaseClass <=> obj_count[o] = 0)
        /\ \A v \in Thread_ : Updating(v, o) => v = t
    BY <1>4, <2>1 DEF ObjInv, CountOf
  <2>3. \A v \in Thread_ : ~Updating(v, o)'
    BY <1>4, <2>2 DEF Updating
  <2>4. /\ inc = 1 => obj_count[o] = Total(obj_held, o) /\ n = obj_count[o] + 1 /\ obj_count[o] > 0
        /\ inc = -1 => obj_count[o] = Total(obj_held, o) + 1 /\ n = obj_count[o] - 1
    BY <1>3, <2>2 DEF PendingOf
  <2>5. n = Total(obj_held', o) /\ obj_count[o] # 0 /\ (~Destroys(inc, n) => n # 0)
    BY <1>4, <1>8, <2>4 DEF Destroys
  <2>6. CASE Destroys(inc, n)
    <3>1. Total(obj_held', o) = 0
      BY <2>5, <2>6 DEF Destroys
    <3>2. CountOf(o)' /\ ConstructedOf(o)'
      BY <1>6, <2>6, <3>1 DEF CountOf, ConstructedOf
    <3> QED
      BY <2>3, <3>2 DEF ObjInv
  <2>7. CASE ~Destroys(inc, n)
    <3>1. CountOf(o)'
      BY <1>6, <2>2, <2>5, <2>7 DEF CountOf
    <3>2. ConstructedOf(o)'
      <4>1. obj_class[o] # BaseClass => obj_class[o] \in Class
        BY <1>1 DEF CountTypes
      <4> QED
        BY <1>1, <1>6, <2>2, <2>7, <4>1 DEF ConstructedOf, ClassesKept
    <3> QED
      BY <2>3, <3>1, <3>2 DEF ObjInv
  <2> QED
    BY <2>6, <2>7
<1> QED
  BY <1>8, <1>9, <1>10, <1>11 DEF CountInv

LEMMA CountsStep == ClassInv /\ CountInv /\ [ObjectNext]_obj_vars => CountInv'
<1> SUFFICES ASSUME ClassInv, CountInv, [ObjectNext]_obj_vars PROVE CountInv'
  OBVIOUS
<1>1. CASE UNCHANGED obj_vars
  BY <1>1 DEF obj_vars, CountInv, CountTypes, FinitelyHeld, ObjInv, CountOf, ConstructedOf, Settled,
              PendingOf, Updating
<1> QED
  BY <1>1, RetainCounts, ReleaseCounts, HandOverCounts, NewCounts, WriteBackCounts DEF ObjectNext

LEMMA TotalIsHeldBy == \A o \in Obj : HeldBy(o) = Total(obj_held, o)
  BY DEF HeldBy, References, Total, RefsOf

LEMMA CountsAreHeld ==
  ASSUME CountInv, NEW o \in Obj \ obj_raced
  PROVE  CountExact(o) /\ HeldIsConstructed(o)
<1>1. ObjInv(o) /\ HeldBy(o) = Total(obj_held, o) /\ Total(obj_held, o) \in Nat
  BY TotalIsHeldBy, TotalNat DEF CountInv
<1>2. CountExact(o)
  BY <1>1 DEF CountExact, ObjInv, CountOf
<1>3. Total(obj_held, o) > 0 => obj_count[o] # 0
  <2>1. CASE Settled(o)
    BY <1>1, <2>1 DEF ObjInv, CountOf
  <2>2. CASE ~Settled(o)
    <3>1. PICK t \in Thread_ : Updating(t, o)
      BY <2>2 DEF Settled
    <3>2. obj_update[t] \in Updates
      BY <3>1 DEF Updating, CountInv, CountTypes
    <3>3. PendingOf(t, o) /\ obj_update[t].by \in {1, -1}
      BY <1>1, <3>1, <3>2 DEF ObjInv, Updates
    <3> QED
      BY <1>1, <3>3 DEF PendingOf
  <2> QED
    BY <2>1, <2>2
<1>4. HeldIsConstructed(o)
  BY <1>1, <1>3 DEF HeldIsConstructed, ObjInv, CountOf, ConstructedOf
<1> QED
  BY <1>2, <1>4

LEMMA ClassesInitially == ObjectInit => ClassInv
  BY DEF ObjectInit, ClassInv

(* The arrays of an initialized class hold the constructors of the class and *)
(* of all above it, parents first, and the destructors, children first,      *)
(* whether updates overlap or not (ww_object.c:70-148).                      *)
THEOREM ArraysStayOrdered == ObjectSpec => []ArraysInOrder
  BY ClassesInitially, ClassStep, ClassInvOrders, PTL DEF ObjectSpec

(* Threads update counts whenever they like.  An object no two updates of    *)
(* which have overlapped is counted as often as it is held, and is destroyed *)
(* with the last reference and constructed until then, whatever overlaps on  *)
(* other objects (ww_object.h:269-332, 417-496).                             *)
THEOREM CountsAreReferences == ObjectSpec => []CountIsHeld
<1>1. ClassInv /\ CountInv => CountIsHeld
  BY ClassInvOrders, CountsAreHeld DEF CountIsHeld
<1>2. ObjectInit => ClassInv /\ CountInv
  BY ClassesInitially, CountsInitially
<1>3. (ClassInv /\ CountInv) /\ [ObjectNext]_obj_vars => (ClassInv /\ CountInv)'
  BY ClassStep, CountsStep
<1> QED
  BY <1>1, <1>2, <1>3, PTL DEF ObjectSpec
=============================================================================

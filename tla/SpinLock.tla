------------------------------ MODULE SpinLock ------------------------------
(* ww_atomic_lock_t: a word that compare-and-set takes and a plain store     *)
(* gives back, and the additions that sparc makes under such a lock, where   *)
(* no instruction adds atomically.                                           *)
EXTENDS Integers, FiniteSets
CONSTANTS Spinner,      \* the threads
          WordLimit     \* additions are modulo this: the word's width
ASSUME SpinAssumption == WordLimit \in Nat \ {0}
VARIABLES sl_lock, sl_pc,
          sl_word, sl_read,   \* the word added to, and what each thread read of it
          sl_added            \* what has been added to it, modulo its width
sl_vars == <<sl_lock, sl_pc, sl_word, sl_read, sl_added>>
UNLOCKED == 0
LOCKED == 1
Held(t) == sl_pc[t] \in {"held", "read", "written"}
Goes(t, pc) == sl_pc' = [sl_pc EXCEPT ![t] = pc]

SpinInit ==
  /\ sl_lock = UNLOCKED
  /\ sl_pc = [t \in Spinner |-> "idle"]
  /\ sl_word = 0 /\ sl_added = 0
  /\ sl_read = [t \in Spinner |-> 0]

(* Mutation: it always reports that it has the lock. *)
TryLock_Always(t) ==
  /\ sl_pc[t] = "idle"
  /\ sl_lock' = LOCKED
  /\ Goes(t, "held")
  /\ UNCHANGED <<sl_word, sl_read, sl_added>>
(* It gives up when the lock is taken. *)
TryLock(t) ==
  /\ sl_pc[t] = "idle"
  /\ sl_lock' = LOCKED
  /\ IF sl_lock = UNLOCKED THEN Goes(t, "held") ELSE UNCHANGED sl_pc
  /\ UNCHANGED <<sl_word, sl_read, sl_added>>

LockWord(t) == sl_pc[t] = "idle" /\ Goes(t, "trying") /\ UNCHANGED <<sl_lock, sl_word, sl_read, sl_added>>
(* Between two compare-and-sets the lock is only read. *)
LockCmpset(t) ==
  /\ sl_pc[t] = "trying"
  /\ IF sl_lock = UNLOCKED THEN sl_lock' = LOCKED /\ Goes(t, "held")
                           ELSE UNCHANGED sl_lock /\ Goes(t, "spinning")
  /\ UNCHANGED <<sl_word, sl_read, sl_added>>
Spin(t) ==
  /\ sl_pc[t] = "spinning" /\ sl_lock # LOCKED
  /\ Goes(t, "trying")
  /\ UNCHANGED <<sl_lock, sl_word, sl_read, sl_added>>
(* Mutation: the word is not reset. *)
Unlock_Keeps(t) ==
  /\ sl_pc[t] \in {"held", "written"}
  /\ Goes(t, "idle")
  /\ UNCHANGED <<sl_lock, sl_word, sl_read, sl_added>>
Unlock(t) ==
  /\ sl_pc[t] \in {"held", "written"}
  /\ sl_lock' = UNLOCKED
  /\ Goes(t, "idle")
  /\ UNCHANGED <<sl_word, sl_read, sl_added>>

(* The addition under the lock, a read and a write of the word. *)
LockedRead(t) ==
  /\ sl_pc[t] = "held"
  /\ sl_read' = [sl_read EXCEPT ![t] = sl_word]
  /\ Goes(t, "read")
  /\ UNCHANGED <<sl_lock, sl_word, sl_added>>
LockedWrite(t) ==
  /\ sl_pc[t] = "read"
  /\ sl_word' = (sl_read[t] + 1) % WordLimit
  /\ sl_added' = (sl_added + 1) % WordLimit
  /\ Goes(t, "written")
  /\ UNCHANGED <<sl_lock, sl_read>>
(* Subtraction is the same with the other sign. *)
LockedSubtract(t) ==
  /\ sl_pc[t] = "read"
  /\ sl_word' = (sl_read[t] - 1) % WordLimit
  /\ sl_added' = (sl_added - 1) % WordLimit
  /\ Goes(t, "written")
  /\ UNCHANGED <<sl_lock, sl_read>>

Going(t) == LockCmpset(t) \/ Spin(t) \/ Unlock(t) \/ LockedRead(t) \/ LockedWrite(t) \/ LockedSubtract(t)
SpinNext == \E t \in Spinner : TryLock(t) \/ LockWord(t) \/ Going(t)
(* A thread that holds or asks for the lock is scheduled again. *)
SpinFairness == \A t \in Spinner : WF_sl_vars(Going(t))
SpinSpec == SpinInit /\ [][SpinNext]_sl_vars /\ SpinFairness
-----------------------------------------------------------------------------
(* At most one thread is between lock and unlock, and the lock is taken      *)
(* exactly then, so no addition under it is lost: the word holds the sum     *)
(* (atomic_impl.h:410-436, asm.c:45-72).                                     *)
LockedSumExact ==
  /\ \A t, u \in Spinner : Held(t) /\ Held(u) => t = u
  /\ sl_lock = LOCKED <=> \E t \in Spinner : Held(t)
  /\ sl_word = sl_added
  /\ \A t \in Spinner : sl_pc[t] = "read" => sl_read[t] = sl_word

(* While a thread asks for the lock some thread gets it, again and again;    *)
(* not always the same thread that asks (atomic_impl.h:419-428).             *)
SomeoneGetsLock == (\E t \in Spinner : sl_pc[t] \in {"trying", "spinning"})
                     ~> (\E t \in Spinner : Held(t))
=============================================================================

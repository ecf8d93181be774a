------------------------------ MODULE Atomics -------------------------------
(* The atomic operations on a word, of 32 or of 64 bits, that every          *)
(* architecture's header defines by its instructions or leaves to loops of   *)
(* compare-and-set (atomic_impl.h).  Loads and stores are taken to reach     *)
(* memory in program order; the barriers around them are not modelled.       *)
EXTENDS Integers, FiniteSets
CONSTANTS Thread, WordBits,
          Requests,      \* [op, old, arg]; old matters to cmpset only
          Quiet          \* no call under way
ASSUME AtomicAssumption ==
  /\ WordBits \in Nat /\ Quiet \notin Requests
  /\ Requests \subseteq [op : {"add", "sub", "swap", "cmpset"}, old : Int, arg : Int]
VARIABLES at_method,     \* how the operations of the build's word are made
          at_word, at_reserved,   \* the word; who holds a reservation of it
          at_call, at_pc,         \* each thread's call and where it is
          at_old, at_new          \* what its compare-and-set compares and sets
at_vars == <<at_method, at_word, at_reserved, at_call, at_pc, at_old, at_new>>

(* An operation is one instruction, or a load that reserves the word and a   *)
(* store that fails when the reservation is lost, or a loop around cmpset.   *)
Made(cmpset, swap, math) == [cmpset |-> cmpset, swap |-> swap, add |-> math, sub |-> math]
Amd64         == Made("instruction", "instruction", "instruction")
Ia32          == Made("instruction", "instruction", "instruction")
Ia32Long      == Made("instruction", "loop", "loop")
Ia64          == Made("instruction", "loop", "loop")
Sparcv9       == Made("instruction", "loop", "loop")
Sparcv9Long   == Made("instruction", "loop", "loop")
PowerpcMath   == "reserve"
Powerpc       == Made("reserve", "reserve", PowerpcMath)
PowerpcLong   == Made("reserve", "reserve", "loop")
Arm64         == Made("reserve", "reserve", "reserve")
Arm64Long     == Made("reserve", "reserve", "reserve")
ArmMath       == "reserve"
Arm           == Made("reserve", "loop", ArmMath)
ArmLong       == Made("reserve", "loop", "loop")
ArmKernel     == Made("instruction", "loop", "loop")
Mips          == Made("reserve", "loop", "loop")
MipsLong      == Made("reserve", "loop", "loop")
Osx           == Made("instruction", "loop", "instruction")
GccBuiltin    == Made("instruction", "instruction", "instruction")
SyncBuiltin   == Made("instruction", "loop", "instruction")
Methods == {Amd64, Ia32, Ia32Long, Ia64, Sparcv9, Sparcv9Long, Powerpc, PowerpcLong,
            Arm64, Arm64Long, Arm, ArmLong, ArmKernel, Mips, MipsLong,
            Osx, GccBuiltin, SyncBuiltin}

AtomicInit ==
  /\ at_method \in Methods
  /\ at_word = 0
  /\ at_reserved = {}
  /\ at_call = [t \in Thread |-> Quiet]
  /\ at_pc = [t \in Thread |-> "idle"]
  /\ at_old = [t \in Thread |-> 0]
  /\ at_new = [t \in Thread |-> 0]

(* The value that the call wants in place of the value w. *)
Wanted(call, w) ==
  CASE call.op = "add" -> (w + call.arg) % 2 ^ WordBits
    [] call.op = "sub" -> (w - call.arg) % 2 ^ WordBits
    [] call.op \in {"swap", "cmpset"} -> call.arg
(* What a call that found w returns: the sum, the old value, or whether it set. *)
Returned(call, w) ==
  CASE call.op \in {"add", "sub"} -> Wanted(call, w)
    [] call.op = "swap" -> w
    [] call.op = "cmpset" -> IF w = call.old THEN 1 ELSE 0

Goto(t, pc) == at_pc' = [at_pc EXCEPT ![t] = pc]
Finish(t, w) ==
  /\ Goto(t, "done")
  /\ at_call' = [at_call EXCEPT ![t] = [returns |-> Returned(at_call[t], w)]]
  /\ at_old' = [at_old EXCEPT ![t] = 0]
  /\ at_new' = [at_new EXCEPT ![t] = 0]
(* A store to the word breaks every reservation of it. *)
StoreWord(w) == at_word' = w /\ at_reserved' = {}

Start(t, call) ==
  /\ at_pc[t] = "idle"
  /\ at_call' = [at_call EXCEPT ![t] = call]
  /\ IF call.op = "cmpset"
     THEN /\ Goto(t, "cmpset")
          /\ at_old' = [at_old EXCEPT ![t] = call.old]
          /\ at_new' = [at_new EXCEPT ![t] = call.arg]
     ELSE Goto(t, "start") /\ UNCHANGED <<at_old, at_new>>
  /\ UNCHANGED <<at_method, at_word, at_reserved>>
Leave(t) ==
  /\ at_pc[t] = "done"
  /\ Goto(t, "idle")
  /\ at_call' = [at_call EXCEPT ![t] = Quiet]
  /\ UNCHANGED <<at_method, at_word, at_reserved, at_old, at_new>>

(* A locked add, subtract or exchange. *)
Instruction(t) ==
  /\ at_pc[t] = "start" /\ at_method[at_call[t].op] = "instruction"
  /\ StoreWord(Wanted(at_call[t], at_word))
  /\ Finish(t, at_word)
  /\ UNCHANGED at_method

LoadReserved(t) ==
  /\ at_pc[t] = "start" /\ at_method[at_call[t].op] = "reserve"
  /\ at_reserved' = at_reserved \cup {t}
  /\ at_old' = [at_old EXCEPT ![t] = at_word]
  /\ Goto(t, "loaded")
  /\ UNCHANGED <<at_method, at_word, at_call, at_new>>
(* Mutation: the store succeeds without a reservation. *)
StoreConditional_Unreserved(t) ==
  /\ at_pc[t] = "loaded"
  /\ StoreWord(Wanted(at_call[t], at_old[t])) /\ Finish(t, at_old[t])
  /\ UNCHANGED at_method
(* The store may also fail for no reason of the program's. *)
StoreConditional(t) ==
  /\ at_pc[t] = "loaded"
  /\ \/ t \in at_reserved /\ StoreWord(Wanted(at_call[t], at_old[t])) /\ Finish(t, at_old[t])
     \/ /\ Goto(t, "start")
        /\ at_reserved' = at_reserved \ {t}
        /\ UNCHANGED <<at_word, at_call, at_old, at_new>>
  /\ UNCHANGED at_method

(* The loops of atomic_impl.h: the value is read, and set if still there. *)
ReadForCmpset(t) ==
  /\ at_pc[t] = "start" /\ at_method[at_call[t].op] = "loop"
  /\ at_old' = [at_old EXCEPT ![t] = at_word]
  /\ at_new' = [at_new EXCEPT ![t] = Wanted(at_call[t], at_word)]
  /\ Goto(t, "cmpset")
  /\ UNCHANGED <<at_method, at_word, at_reserved, at_call>>

(* A cmpset that failed ends a call of cmpset and repeats any other's loop. *)
CmpsetFailed(t, w) ==
  /\ IF at_call[t].op = "cmpset" THEN Finish(t, w)
     ELSE Goto(t, "start") /\ UNCHANGED <<at_call, at_old, at_new>>
  /\ UNCHANGED <<at_word, at_reserved>>
CmpsetInstruction(t) ==
  /\ at_pc[t] = "cmpset" /\ at_method.cmpset = "instruction"
  /\ IF at_word = at_old[t]
     THEN StoreWord(at_new[t]) /\ Finish(t, at_word)
     ELSE CmpsetFailed(t, at_word)
  /\ UNCHANGED at_method
CmpsetLoad(t) ==
  /\ at_pc[t] = "cmpset" /\ at_method.cmpset = "reserve"
  /\ IF at_word = at_old[t]
     THEN /\ Goto(t, "compared")
          /\ at_reserved' = at_reserved \cup {t}
          /\ UNCHANGED <<at_word, at_call, at_old, at_new>>
     ELSE CmpsetFailed(t, at_word)
  /\ UNCHANGED at_method
CmpsetStore(t) ==
  /\ at_pc[t] = "compared"
  /\ \/ t \in at_reserved /\ StoreWord(at_new[t]) /\ Finish(t, at_old[t])
     \/ /\ Goto(t, "cmpset")
        /\ at_reserved' = at_reserved \ {t}
        /\ UNCHANGED <<at_word, at_call, at_old, at_new>>
  /\ UNCHANGED at_method

AtomicNext == \E t \in Thread :
  \/ \E call \in Requests : Start(t, call)
  \/ Instruction(t) \/ LoadReserved(t) \/ StoreConditional(t) \/ ReadForCmpset(t)
  \/ CmpsetInstruction(t) \/ CmpsetLoad(t) \/ CmpsetStore(t) \/ Leave(t)
AtomicSpec == AtomicInit /\ [][AtomicNext]_at_vars
-----------------------------------------------------------------------------
(* However the architecture makes them, the operations take effect on the    *)
(* word in one step: no update is lost between a load and a store, and what  *)
(* they return is what they found or made (atomic_impl.h:40-131).            *)
Atomic == INSTANCE AtomicWord WITH Caller <- Thread, Bits <- WordBits,
            Request <- Requests, Idle <- Quiet, word <- at_word, state <- at_call
OperationsAtomic == Atomic!Spec
=============================================================================

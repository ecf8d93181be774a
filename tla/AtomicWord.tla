----------------------------- MODULE AtomicWord -----------------------------
(* What the atomic operations promise: between its call and its return each  *)
(* takes effect on the word in one step.                                     *)
EXTENDS Integers
CONSTANTS Caller, Bits, Request, Idle
VARIABLES word, state     \* [caller -> Idle, a request, or what it returns]

Modulus == 2 ^ Bits
(* The word after the request r found w, and what the request returns.       *)
Effect(r, w) ==
  CASE r.op = "add"    -> (w + r.arg) % Modulus
    [] r.op = "sub"    -> (w - r.arg) % Modulus
    [] r.op = "swap"   -> r.arg
    [] r.op = "cmpset" -> IF w = r.old THEN r.arg ELSE w
Answer(r, w) ==
  CASE r.op \in {"add", "sub"} -> Effect(r, w)
    [] r.op = "swap"           -> w
    [] r.op = "cmpset"         -> IF w = r.old THEN 1 ELSE 0

Init == word = 0 /\ state = [c \in Caller |-> Idle]
Call(c) == /\ state[c] = Idle
           /\ \E r \in Request : state' = [state EXCEPT ![c] = r]
           /\ UNCHANGED word
Take(c) == /\ state[c] \in Request
           /\ word' = Effect(state[c], word)
           /\ state' = [state EXCEPT ![c] = [returns |-> Answer(state[c], word)]]
Return(c) == /\ state[c] \notin Request \cup {Idle}
             /\ state' = [state EXCEPT ![c] = Idle]
             /\ UNCHANGED word
Next == \E c \in Caller : Call(c) \/ Take(c) \/ Return(c)
Spec == Init /\ [][Next]_<<word, state>>
=============================================================================

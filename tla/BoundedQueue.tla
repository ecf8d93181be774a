---------------------------- MODULE BoundedQueue ----------------------------
(* What a ring buffer promises: a queue of at most Bound entries, in which a *)
(* push that finds it full displaces the oldest entry.  `answer` is what the *)
(* last call returned.                                                       *)
EXTENDS Integers, Sequences
CONSTANTS Entry, Nil, Bound
VARIABLES queue, answer

Init == queue = <<>> /\ answer = Nil

Push(x) ==
  IF Len(queue) = Bound
  THEN queue' = Append(Tail(queue), x) /\ answer' = Head(queue)
  ELSE queue' = Append(queue, x) /\ answer' = Nil

Pop ==
  IF queue = <<>>
  THEN answer' = Nil /\ UNCHANGED queue
  ELSE queue' = Tail(queue) /\ answer' = Head(queue)

(* The entry i places after the oldest, or for -1 the newest. *)
Peek(i) ==
  /\ answer' = CASE i = -1 /\ queue # <<>> -> queue[Len(queue)]
                 [] i \in 0 .. Len(queue) - 1 -> queue[i + 1]
                 [] OTHER -> Nil
  /\ UNCHANGED queue

Next == Pop \/ (\E i \in -1 .. Bound : Peek(i)) \/ \E x \in Entry : Push(x)
Spec == Init /\ [][Next]_<<queue, answer>>
=============================================================================

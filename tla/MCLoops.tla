------------------------------- MODULE MCLoops -------------------------------
(* The parts in which something must eventually happen: the event loops of   *)
(* the progress threads and of the hotel, and the loop of a spinning lock.   *)
(* They share nothing: a behaviour is of one subject, and what is fair for   *)
(* the others never becomes possible.                                        *)
EXTENDS ProgressThreads, Hotel, SpinLock
VARIABLE subject
(* Both names have two users; one has two events at once, the other one.     *)
MCHolders == [n \in Names |-> 2]
MCEvents == [n \in Names |-> IF n = "a" THEN 2 ELSE 1]
MCInit ==
  /\ subject \in {"progress", "hotel", "spinlock"}
  /\ Init
  /\ HotelInit /\ (subject # "hotel" => evbase)
  /\ SpinInit
MCNext ==
  /\ UNCHANGED subject
  /\ IF subject = "progress" THEN Next      ELSE UNCHANGED vars
  /\ IF subject = "hotel"    THEN HotelNext ELSE UNCHANGED hotel_vars
  /\ IF subject = "spinlock" THEN SpinNext  ELSE UNCHANGED sl_vars
MCSpec ==
  /\ MCInit
  /\ [][MCNext]_<<subject, vars, hotel_vars, sl_vars>>
  /\ EngineFairness /\ HotelFairness /\ SpinFairness
=============================================================================

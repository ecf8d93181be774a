---------------------------- MODULE Hotel_proofs ----------------------------
(***************************************************************************)
(* Proofs about Hotel for every number of rooms and every set of           *)
(* occupants.  The invariant is that the stack holds exactly the empty     *)
(* rooms, each once; the type of the stack's index needs it, since only a  *)
(* counting argument shows that the stack has a place left for the room of *)
(* whoever leaves (the assertions in both checkouts and the eviction).     *)
(***************************************************************************)
EXTENDS Hotel, FiniteSetTheorems, TLAPS

\* Timers run in occupied rooms only, and none in a hotel without events.
TimerInv == \A r \in Rooms : eviction_timer_event[r] # "idle" => evbase /\ occupant[r] # NULL

\* A destroyed hotel has no timer.
DestroyedIsSilent ==
  destroyed => \A r \in Rooms : eviction_timer_event[r] = "idle"

IInv == HotelTypeOK /\ StackExact /\ TimerInv /\ DestroyedIsSilent

\* Pigeonhole: while someone stays the stack is not full.
LEMMA StackHasPlace ==
  ASSUME HotelTypeOK, StackExact, NEW r \in Rooms, occupant[r] # NULL
  PROVE  last_unoccupied_room + 1 \in Rooms
<1> DEFINE top == last_unoccupied_room
           stack == 0 .. top
           others == Rooms \ {r}
           f == [i \in stack |-> unoccupied_rooms[i]]
<1>1. top \in -1 .. num_rooms - 1 /\ num_rooms \in Nat \ {0}
  BY RoomAssumption DEF HotelTypeOK
<1>2. SUFFICES ASSUME top = num_rooms - 1 PROVE FALSE
  BY <1>1 DEF Rooms
<1>3. IsFiniteSet(stack) /\ Cardinality(stack) = num_rooms
  BY <1>1, <1>2, FS_Interval
<1>4. IsFiniteSet(others) /\ Cardinality(others) = num_rooms - 1
  <2>1. IsFiniteSet(Rooms) /\ Cardinality(Rooms) = num_rooms
    BY <1>1, FS_Interval DEF Rooms
  <2> QED BY <2>1, <1>1, FS_RemoveElement
<1>5. f \in [stack -> others]
  BY <1>1, <1>2 DEF HotelTypeOK, StackExact, Rooms
<1>6. \E x, y \in stack : x # y /\ f[x] = f[y]
  <2> HIDE DEF f, stack, others
  <2> QED BY <1>1, <1>3, <1>4, <1>5, FS_PigeonHole
<1> QED BY <1>6, <1>2, <1>1 DEF StackExact

\* A room that is vacated goes on the stack and nothing else changes.
LEMMA VacateKeepsStack ==
  ASSUME HotelTypeOK, StackExact, NEW r \in Rooms, occupant[r] # NULL, Vacate(r)
  PROVE  /\ StackExact'
         /\ occupant' \in [Rooms -> Occupants \cup {NULL}]
         /\ unoccupied_rooms' \in [Rooms -> Rooms]
         /\ last_unoccupied_room' \in -1 .. num_rooms - 1
         /\ occupant'[r] = NULL
         /\ \A s \in Rooms : s # r => occupant'[s] = occupant[s]
<1> DEFINE top == last_unoccupied_room + 1
<1>1. top \in Rooms
  BY StackHasPlace
<1>2. /\ last_unoccupied_room' = top
      /\ unoccupied_rooms' = [unoccupied_rooms EXCEPT ![top] = r]
      /\ occupant' = [occupant EXCEPT ![r] = NULL]
  BY DEF Vacate
<1>3. /\ occupant' \in [Rooms -> Occupants \cup {NULL}]
      /\ unoccupied_rooms' \in [Rooms -> Rooms]
      /\ last_unoccupied_room' \in -1 .. num_rooms - 1
      /\ occupant'[r] = NULL
      /\ \A s \in Rooms : s # r => occupant'[s] = occupant[s]
  BY <1>1, <1>2, RoomAssumption DEF HotelTypeOK, Rooms
<1>4. /\ unoccupied_rooms'[top] = r
      /\ \A i \in 0 .. last_unoccupied_room : unoccupied_rooms'[i] = unoccupied_rooms[i]
  BY <1>1, <1>2, RoomAssumption DEF HotelTypeOK, Rooms
<1>5. 0 .. last_unoccupied_room' = (0 .. last_unoccupied_room) \cup {top}
  <2>1. last_unoccupied_room \in Int /\ last_unoccupied_room >= -1
    BY RoomAssumption DEF HotelTypeOK
  <2> QED BY <2>1, <1>2
<1>6. \A i \in 0 .. last_unoccupied_room : unoccupied_rooms[i] \in Rooms /\ unoccupied_rooms[i] # r
  BY RoomAssumption DEF HotelTypeOK, StackExact, Rooms
<1>7. \A i, j \in 0 .. last_unoccupied_room' : unoccupied_rooms'[i] = unoccupied_rooms'[j] => i = j
  BY <1>4, <1>5, <1>6 DEF StackExact
<1>8. \A s \in Rooms : occupant'[s] = NULL <=>
                         \E i \in 0 .. last_unoccupied_room' : unoccupied_rooms'[i] = s
  BY <1>3, <1>4, <1>5, <1>6 DEF StackExact
<1> QED BY <1>3, <1>7, <1>8 DEF StackExact

LEMMA InitIInv == HotelInit => IInv
<1> SUFFICES ASSUME HotelInit PROVE IInv
  OBVIOUS
<1>1. HotelTypeOK
  <2>1. last_unoccupied_room \in -1 .. num_rooms - 1
    BY RoomAssumption DEF HotelInit
  <2> QED BY <2>1 DEF HotelInit, HotelTypeOK
<1>2. StackExact
  BY RoomAssumption DEF HotelInit, StackExact, Rooms
<1>3. TimerInv /\ DestroyedIsSilent
  BY DEF HotelInit, TimerInv, DestroyedIsSilent
<1> QED BY <1>1, <1>2, <1>3 DEF IInv

LEMMA CheckinIInv ==
  ASSUME IInv, NEW o \in Occupants, Checkin(o)
  PROVE  IInv'
<1> DEFINE top == last_unoccupied_room
           r == unoccupied_rooms[top]
<1> USE DEF IInv
<1>1. /\ top \in 0 .. num_rooms - 1
      /\ top \in Rooms
      /\ r \in Rooms
      /\ occupant[r] = NULL
  BY RoomAssumption DEF HotelTypeOK, Checkin, Rooms, StackExact
<1>2. /\ occupant' = [occupant EXCEPT ![r] = o]
      /\ eviction_timer_event' = [eviction_timer_event EXCEPT ![r] = IF evbase THEN "pending" ELSE @]
      /\ key' = [key EXCEPT ![o] = r]
      /\ last_unoccupied_room' = top - 1
      /\ ~destroyed
      /\ UNCHANGED <<evbase, unoccupied_rooms, destroyed>>
  BY DEF Checkin
<1> HIDE DEF r
<1>3. HotelTypeOK'
  BY <1>1, <1>2, RoomAssumption DEF HotelTypeOK
<1>4. 0 .. top = (0 .. last_unoccupied_room') \cup {top} /\ top \notin 0 .. last_unoccupied_room'
  BY <1>1, <1>2, RoomAssumption
<1>5. \A i \in 0 .. last_unoccupied_room' : unoccupied_rooms[i] # r
  BY <1>4 DEF StackExact, r
<1>6. StackExact'
  <2>1. \A i, j \in 0 .. last_unoccupied_room' : unoccupied_rooms'[i] = unoccupied_rooms'[j] => i = j
    BY <1>2, <1>4 DEF StackExact
  <2>2. \A s \in Rooms : occupant'[s] = NULL <=> occupant[s] = NULL /\ s # r
    BY <1>1, <1>2, OccupantAssumption DEF HotelTypeOK
  <2>3. \A s \in Rooms : (\E i \in 0 .. last_unoccupied_room' : unoccupied_rooms'[i] = s)
                           <=> (\E i \in 0 .. top : unoccupied_rooms[i] = s) /\ s # r
    BY <1>2, <1>4, <1>5 DEF r
  <2> QED BY <2>1, <2>2, <2>3 DEF StackExact
<1>7. TimerInv'
  BY <1>1, <1>2, OccupantAssumption DEF HotelTypeOK, TimerInv
<1>8. DestroyedIsSilent'
  BY <1>2 DEF DestroyedIsSilent
<1> QED BY <1>3, <1>6, <1>7, <1>8

LEMMA CheckoutIInv ==
  ASSUME IInv, NEW o \in Occupants, Checkout(o)
  PROVE  IInv'
<1> DEFINE r == key[o]
<1> USE DEF IInv
<1>1. r \in Rooms /\ ~destroyed /\ ~destroyed' /\ evbase' = evbase
  BY DEF HotelTypeOK, Checkout
<1>2. key' \in [Occupants -> Rooms \cup {NULL}] /\ destroyed' \in BOOLEAN /\ evbase' \in BOOLEAN
  BY DEF HotelTypeOK, Checkout
<1>3. CASE occupant[r] # NULL
  <2>1. /\ Vacate(r)
        /\ eviction_timer_event' = [eviction_timer_event EXCEPT ![r] = IF evbase THEN "idle" ELSE @]
    BY <1>3 DEF Checkout
  <2> HIDE DEF r
  <2>2. /\ StackExact'
        /\ occupant' \in [Rooms -> Occupants \cup {NULL}]
        /\ unoccupied_rooms' \in [Rooms -> Rooms]
        /\ last_unoccupied_room' \in -1 .. num_rooms - 1
        /\ \A s \in Rooms : s # r => occupant'[s] = occupant[s]
    BY <1>1, <1>3, <2>1, VacateKeepsStack
  <2>3. HotelTypeOK'
    BY <1>1, <1>2, <2>1, <2>2 DEF HotelTypeOK
  <2>4. TimerInv'
    BY <1>1, <2>1, <2>2 DEF HotelTypeOK, TimerInv
  <2> QED BY <1>1, <2>2, <2>3, <2>4 DEF DestroyedIsSilent
<1>4. CASE occupant[r] = NULL
  <2>1. UNCHANGED <<occupant, eviction_timer_event, unoccupied_rooms, last_unoccupied_room>>
    BY <1>4 DEF Checkout
  <2> QED BY <1>1, <1>2, <2>1 DEF HotelTypeOK, StackExact, TimerInv, DestroyedIsSilent
<1> QED BY <1>3, <1>4

LEMMA ExpireIInv ==
  ASSUME IInv, NEW r \in Rooms, Expire(r)
  PROVE  IInv'
<1> USE DEF IInv
<1>1. HotelTypeOK' /\ StackExact'
  BY DEF HotelTypeOK, StackExact, Expire
<1>2. TimerInv' /\ DestroyedIsSilent'
  BY DEF HotelTypeOK, TimerInv, DestroyedIsSilent, Expire
<1> QED BY <1>1, <1>2

LEMMA EvictIInv ==
  ASSUME IInv, NEW r \in Rooms, Evict(r)
  PROVE  IInv'
<1> USE DEF IInv
<1>1. occupant[r] # NULL
  BY DEF TimerInv, Evict
<1>2. /\ Vacate(r)
      /\ eviction_timer_event' = [eviction_timer_event EXCEPT ![r] = "idle"]
      /\ UNCHANGED <<evbase, key, destroyed>>
  BY DEF Evict
<1>3. /\ StackExact'
      /\ occupant' \in [Rooms -> Occupants \cup {NULL}]
      /\ unoccupied_rooms' \in [Rooms -> Rooms]
      /\ last_unoccupied_room' \in -1 .. num_rooms - 1
      /\ \A s \in Rooms : s # r => occupant'[s] = occupant[s]
  BY <1>1, <1>2, VacateKeepsStack
<1>4. HotelTypeOK'
  BY <1>2, <1>3 DEF HotelTypeOK
<1>5. TimerInv' /\ DestroyedIsSilent'
  BY <1>2, <1>3 DEF HotelTypeOK, TimerInv, DestroyedIsSilent
<1> QED BY <1>3, <1>4, <1>5

LEMMA DestroyIInv ==
  ASSUME IInv, Destroy
  PROVE  IInv'
<1> USE DEF IInv
<1>1. HotelTypeOK' /\ StackExact'
  BY DEF HotelTypeOK, StackExact, Destroy
<1>2. \A r \in Rooms : eviction_timer_event'[r] = "idle"
  BY DEF HotelTypeOK, TimerInv, Destroy
<1> QED BY <1>1, <1>2 DEF TimerInv, DestroyedIsSilent, Destroy

LEMMA NextIInv == IInv /\ [HotelNext]_hotel_vars => IInv'
<1> SUFFICES ASSUME IInv, [HotelNext]_hotel_vars PROVE IInv'
  OBVIOUS
<1>1. CASE UNCHANGED hotel_vars
  BY <1>1 DEF IInv, HotelTypeOK, StackExact, TimerInv, DestroyedIsSilent, hotel_vars
<1>2. ASSUME NEW o \in Occupants, Checkin(o) PROVE IInv'
  BY <1>2, CheckinIInv
<1>3. ASSUME NEW o \in Occupants, Checkout(o) PROVE IInv'
  BY <1>3, CheckoutIInv
<1>4. ASSUME NEW r \in Rooms, Expire(r) PROVE IInv'
  BY <1>4, ExpireIInv
<1>5. ASSUME NEW r \in Rooms, Evict(r) PROVE IInv'
  BY <1>5, EvictIInv
<1>6. CASE Destroy
  BY <1>6, DestroyIInv
<1> QED BY <1>1, <1>2, <1>3, <1>4, <1>5, <1>6 DEF HotelNext

LEMMA Invariance == HotelSpec => []IInv
  BY InitIInv, NextIInv, PTL DEF HotelSpec

\* The stack's index stays within the array, so the assertions of both
\* checkouts and the eviction hold (ww_hotel.h:261, 297; ww_hotel.c:34).
THEOREM TypeCorrect == HotelSpec => []HotelTypeOK
<1>1. IInv => HotelTypeOK
  BY DEF IInv
<1> QED BY <1>1, Invariance, PTL

\* The stack holds exactly the empty rooms, each once.
THEOREM StackStaysExact == HotelSpec => []StackExact
<1>1. IInv => StackExact
  BY DEF IInv
<1> QED BY <1>1, Invariance, PTL

\* An expired timer always finds the occupant it was started for, or a later
\* one, never an empty room and never a destroyed hotel.
THEOREM TimersFindOccupants == HotelSpec => []TimerHasOccupant
<1>1. IInv => TimerHasOccupant
  BY DEF IInv, TimerInv, DestroyedIsSilent, TimerHasOccupant
<1> QED BY <1>1, Invariance, PTL

=============================================================================

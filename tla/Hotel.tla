-------------------------------- MODULE Hotel --------------------------------
(***************************************************************************)
(* The hotel (class/ww_hotel.h, class/ww_hotel.c): a fixed number of rooms *)
(* for occupants that check in, check out by room number, or are evicted   *)
(* when their timer expires.  Client and timers share one event loop, so   *)
(* each call and each eviction callback is one action; a timer that has    *)
(* expired may have to wait behind other callbacks for its turn.           *)
(***************************************************************************)
EXTENDS Integers

CONSTANTS
  num_rooms,
  Occupants,  \* what the client may check in
  NULL

Rooms == 0 .. num_rooms - 1

ASSUME RoomAssumption == num_rooms \in Nat \ {0}
ASSUME OccupantAssumption == NULL \notin Occupants

VARIABLES
  evbase,                 \* whether the hotel has an event base; never changes
  occupant,               \* the occupant of each room
  eviction_timer_event,   \* idle; pending; active: expired, callback queued
  unoccupied_rooms,       \* an array of which the part up to
  last_unoccupied_room,   \* this index is a stack of the empty rooms
  key,                    \* the room number the client was last given for each
                          \* occupant, until it has used it to check out
  destroyed

hotel_vars == <<evbase, occupant, eviction_timer_event, unoccupied_rooms,
          last_unoccupied_room, key, destroyed>>

HotelTypeOK ==
  /\ evbase \in BOOLEAN
  /\ occupant \in [Rooms -> Occupants \cup {NULL}]
  /\ eviction_timer_event \in [Rooms -> {"idle", "pending", "active"}]
  /\ unoccupied_rooms \in [Rooms -> Rooms]
  /\ last_unoccupied_room \in -1 .. num_rooms - 1
  /\ key \in [Occupants -> Rooms \cup {NULL}]
  /\ destroyed \in BOOLEAN

\* ww_hotel_init, with an event base or without.
HotelInit == /\ evbase \in BOOLEAN
        /\ occupant = [r \in Rooms |-> NULL]
        /\ eviction_timer_event = [r \in Rooms |-> "idle"]
        /\ unoccupied_rooms = [r \in Rooms |-> r]
        /\ last_unoccupied_room = num_rooms - 1
        /\ key = [o \in Occupants |-> NULL]
        /\ destroyed = FALSE
-----------------------------------------------------------------------------
Staying(o) == \E r \in Rooms : occupant[r] = o

\* Mutation: the timer is not started.
Checkin_Untimed(o) ==
  /\ ~destroyed /\ ~Staying(o)
  /\ last_unoccupied_room >= 0
  /\ LET r == unoccupied_rooms[last_unoccupied_room]
     IN  occupant' = [occupant EXCEPT ![r] = o] /\ key' = [key EXCEPT ![o] = r]
  /\ last_unoccupied_room' = last_unoccupied_room - 1
  /\ UNCHANGED <<evbase, eviction_timer_event, unoccupied_rooms, destroyed>>

\* ww_hotel_checkin, and ww_hotel_checkin_with_res for a client that knows
\* there is room.  In a full hotel the first fails and changes nothing.
Checkin(o) ==
  /\ ~destroyed /\ ~Staying(o)
  /\ last_unoccupied_room >= 0
  /\ LET r == unoccupied_rooms[last_unoccupied_room]
     IN  /\ occupant' = [occupant EXCEPT ![r] = o]
         /\ eviction_timer_event' = [eviction_timer_event EXCEPT ![r] = IF evbase THEN "pending" ELSE @]
         /\ key' = [key EXCEPT ![o] = r]
  /\ last_unoccupied_room' = last_unoccupied_room - 1
  /\ UNCHANGED <<evbase, unoccupied_rooms, destroyed>>

\* Mutation: the room is put where the top of the stack was.
Vacate_Top(r) ==
  /\ occupant' = [occupant EXCEPT ![r] = NULL]
  /\ last_unoccupied_room' = last_unoccupied_room + 1
  /\ unoccupied_rooms' = [unoccupied_rooms EXCEPT ![last_unoccupied_room] = r]

\* What both checkouts and the eviction do with the room.
Vacate(r) ==
  /\ occupant' = [occupant EXCEPT ![r] = NULL]
  /\ last_unoccupied_room' = last_unoccupied_room + 1
  /\ unoccupied_rooms' = [unoccupied_rooms EXCEPT ![last_unoccupied_room + 1] = r]

\* Mutation: the timer runs on.
Checkout_Timed(o) ==
  /\ ~destroyed /\ key[o] # NULL /\ occupant[key[o]] # NULL
  /\ Vacate(key[o])
  /\ key' = [key EXCEPT ![o] = NULL]
  /\ UNCHANGED <<evbase, eviction_timer_event, destroyed>>

\* ww_hotel_checkout and ww_hotel_checkout_and_return_occupant, called with
\* the room number the client was given for o: its occupant leaves, if any.
Checkout(o) ==
  /\ ~destroyed /\ key[o] # NULL
  /\ LET r == key[o]
     IN  IF occupant[r] # NULL
         THEN /\ Vacate(r)
              /\ eviction_timer_event' = [eviction_timer_event EXCEPT ![r] = IF evbase THEN "idle" ELSE @]
         ELSE UNCHANGED <<occupant, eviction_timer_event, unoccupied_rooms, last_unoccupied_room>>
  /\ key' = [key EXCEPT ![o] = NULL]
  /\ UNCHANGED <<evbase, destroyed>>

\* The timer expires and its callback is queued.
Expire(r) ==
  /\ eviction_timer_event[r] = "pending"
  /\ eviction_timer_event' = [eviction_timer_event EXCEPT ![r] = "active"]
  /\ UNCHANGED <<evbase, occupant, unoccupied_rooms, last_unoccupied_room, key, destroyed>>

\* local_eviction_callback.  The client's own callback may check occupants
\* in; the key for the evicted one may still be used, late.
Evict(r) ==
  /\ eviction_timer_event[r] = "active"
  /\ eviction_timer_event' = [eviction_timer_event EXCEPT ![r] = "idle"]
  /\ Vacate(r)
  /\ UNCHANGED <<evbase, key, destroyed>>

\* destructor: the events of occupied rooms are deleted, no others.
Destroy ==
  /\ ~destroyed
  /\ destroyed' = TRUE
  /\ eviction_timer_event' = [r \in Rooms |-> IF evbase /\ occupant[r] # NULL THEN "idle"
                                              ELSE eviction_timer_event[r]]
  /\ UNCHANGED <<evbase, occupant, unoccupied_rooms, last_unoccupied_room, key>>

HotelNext == \/ \E o \in Occupants : Checkin(o) \/ Checkout(o)
        \/ \E r \in Rooms : Expire(r) \/ Evict(r)
        \/ Destroy

HotelSpec == HotelInit /\ [][HotelNext]_hotel_vars

\* The event loop runs: timers expire and queued callbacks get their turn.
HotelFairness == \A r \in Rooms : WF_hotel_vars(Expire(r)) /\ WF_hotel_vars(Evict(r))
HotelFairSpec == HotelSpec /\ HotelFairness
-----------------------------------------------------------------------------
(* Correctness. *)

\* The stack holds each empty room once and no occupied one, whatever the
\* order of checkins, checkouts and evictions, so no room is given twice and
\* none is lost (ww_hotel.h:198, 262; ww_hotel.c:35).
StackExact ==
  /\ \A i, j \in 0 .. last_unoccupied_room : unoccupied_rooms[i] = unoccupied_rooms[j] => i = j
  /\ \A r \in Rooms : occupant[r] = NULL <=> \E i \in 0 .. last_unoccupied_room : unoccupied_rooms[i] = r

\* An expired timer always finds an occupant of a hotel that stands: each stay ends by a checkout or
\* by an eviction, never by both, although the checkout may come while the
\* callback is already queued (ww_hotel_checkout, local_eviction_callback), and
\* the destructor, which deletes the timers of occupied rooms only, leaves none
\* to call back into the freed hotel (ww_hotel.c:109).
TimerHasOccupant ==
  \A r \in Rooms : eviction_timer_event[r] # "idle" => occupant[r] # NULL /\ ~destroyed

\* In a hotel with an event base no stay is forever (ww_hotel_checkin).
StayEnds == \A o \in Occupants : evbase /\ Staying(o) ~> ~Staying(o) \/ destroyed

\* "If an ACK is received late (i.e., after its timer has expired), then
\* checkout will gracefully fail" (ww_hotel.h:37): the key of one occupant
\* never checks out another.
LateCheckoutFails ==
  [][\A o \in Occupants :
       key[o] # NULL /\ key'[o] = NULL => \A r \in Rooms : occupant[r] \notin {NULL, o} => occupant'[r] = occupant[r]]_hotel_vars
=============================================================================

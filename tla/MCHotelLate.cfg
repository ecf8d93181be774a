\* Two rooms: may a late checkout hit another occupant?
SPECIFICATION HotelSpec
CONSTANTS
  num_rooms = 2
  Occupants = {o1, o2}
  NULL = NULL
PROPERTY LateCheckoutFails
SYMMETRY OccupantSymmetry
CHECK_DEADLOCK FALSE

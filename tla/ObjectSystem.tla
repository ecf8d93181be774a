---------------------------- MODULE ObjectSystem ----------------------------
(* ww_object_t: classes that are initialized when the first object of them   *)
(* is made, and objects that their holders retain and release.  The count of *)
(* references is read, added to and written back (ww_obj_update).            *)
EXTENDS Integers, Sequences, FiniteSets
CONSTANTS Class,        \* the classes but ww_object_t
          cls_parent,   \* [Class -> Class or BaseClass]
          Constructs, Destructs,   \* the classes with a constructor, a destructor
          Obj,          \* the objects that can be made
          Thread_, Increment,      \* the threads; how much the table grows by
          MaxHeld,      \* bound: the references one thread holds to an object
          BaseClass     \* ww_object_t, initialized from the start
ASSUME ObjectAssumption ==
  /\ cls_parent \in [Class -> Class \cup {BaseClass}] /\ BaseClass \notin Class
  /\ Constructs \subseteq Class /\ Destructs \subseteq Class
  /\ Increment \in Nat \ {0} /\ MaxHeld \in Nat \ {0}
(* No class is among its own parents. *)
ASSUME HierarchyAssumption == \A S \in SUBSET Class : S # {} => \E c \in S : cls_parent[c] \notin S
VARIABLES cls_initialized, cls_construct, cls_destruct,   \* of every class
          classes, max_classes,   \* the arrays saved for finalize
          obj_class, obj_count,   \* BaseClass and 0 before an object is made
          obj_ran,                \* what its constructors and destructors were
          obj_update,             \* [thread -> the update it is in, if any]
          obj_held,               \* the references each thread holds
          obj_raced               \* history: the objects two updates of which overlapped
obj_vars == <<cls_initialized, cls_construct, cls_destruct, classes, max_classes,
              obj_class, obj_count, obj_ran, obj_update, obj_held, obj_raced>>

NoUpdate == [obj |-> BaseClass, by |-> 0, read |-> 0]
Updating(t, o) == obj_update[t] # NoUpdate /\ obj_update[t].obj = o

ObjectInit ==
  /\ cls_initialized = [c \in Class |-> FALSE]
  /\ cls_construct = [c \in Class |-> <<>>]
  /\ cls_destruct = [c \in Class |-> <<>>]
  /\ classes = <<>>
  /\ max_classes = 0
  /\ obj_class = [o \in Obj |-> BaseClass]
  /\ obj_count = [o \in Obj |-> 0]
  /\ obj_ran = [o \in Obj |-> <<>>]
  /\ obj_update = [t \in Thread_ |-> NoUpdate]
  /\ obj_held = [t \in Thread_ |-> [o \in Obj |-> 0]]
  /\ obj_raced = {}

(* The walk from the class up fills the constructors in from the end of      *)
(* their array and the destructors from the start.                           *)
Own(c, S) == IF c \in S THEN <<c>> ELSE <<>>
NoArrays == [construct |-> <<>>, destruct |-> <<>>]
(* A mutant: the constructors are filled in from the start. *)
ArraysBelow_FromStart(above, c) == [construct |-> Own(c, Constructs) \o above.construct,
                                    destruct  |-> Own(c, Destructs) \o above.destruct]
ArraysBelow(above, c) == [construct |-> above.construct \o Own(c, Constructs),
                          destruct  |-> Own(c, Destructs) \o above.destruct]
ArraysOf[c \in Class] ==
  ArraysBelow(IF cls_parent[c] = BaseClass THEN NoArrays ELSE ArraysOf[cls_parent[c]], c)
ClassInitialize(c) ==
  IF cls_initialized[c]
  THEN UNCHANGED <<cls_initialized, cls_construct, cls_destruct, classes, max_classes>>
  ELSE /\ cls_initialized' = [cls_initialized EXCEPT ![c] = TRUE]
       /\ cls_construct' = [cls_construct EXCEPT ![c] = ArraysOf[c].construct]
       /\ cls_destruct' = [cls_destruct EXCEPT ![c] = ArraysOf[c].destruct]
       /\ classes' = Append(classes, c)
       /\ max_classes' = IF Len(classes) >= max_classes
                         THEN max_classes + Increment ELSE max_classes

(* WW_NEW: the maker holds the first reference. *)
New(t, o, c) ==
  /\ obj_class[o] = BaseClass
  /\ obj_update[t] = NoUpdate
  /\ ClassInitialize(c)
  /\ obj_class' = [obj_class EXCEPT ![o] = c]
  /\ obj_count' = [obj_count EXCEPT ![o] = 1]
  /\ obj_ran' = [obj_ran EXCEPT ![o] = cls_construct'[c]]
  /\ obj_held' = [obj_held EXCEPT ![t][o] = 1]
  /\ UNCHANGED <<obj_update, obj_raced>>

(* The count is read and the increment added, outside of memory.  A bound:   *)
(* what becomes of an object after two updates of it overlapped is not       *)
(* followed, but for the end of those two.                                   *)
Read(t, o, inc) ==
  /\ obj_update[t] = NoUpdate /\ o \notin obj_raced
  /\ obj_update' = [obj_update EXCEPT ![t] = [obj |-> o, by |-> inc, read |-> obj_count[o]]]
  /\ obj_raced' = IF \E u \in Thread_ : Updating(u, o) THEN obj_raced \cup {o} ELSE obj_raced

(* A holder retains the object for itself or hands a reference it has to     *)
(* another thread; it releases what it holds.                                *)
Retain(t, o) ==
  /\ Read(t, o, 1)
  /\ obj_held[t][o] \in 1 .. MaxHeld - 1
  /\ UNCHANGED <<cls_initialized, cls_construct, cls_destruct, classes, max_classes,
                 obj_class, obj_count, obj_ran, obj_held>>
Release(t, o) ==
  /\ Read(t, o, -1)
  /\ obj_held[t][o] > 0
  /\ obj_held' = [obj_held EXCEPT ![t][o] = @ - 1]
  /\ UNCHANGED <<cls_initialized, cls_construct, cls_destruct, classes, max_classes,
                 obj_class, obj_count, obj_ran>>
HandOver(t, u, o) ==
  /\ t # u /\ obj_update[t] = NoUpdate /\ obj_held[t][o] > 0 /\ obj_held[u][o] < MaxHeld
  /\ obj_held' = [obj_held EXCEPT ![t][o] = @ - 1, ![u][o] = @ + 1]
  /\ UNCHANGED <<cls_initialized, cls_construct, cls_destruct, classes, max_classes,
                 obj_class, obj_count, obj_ran, obj_update, obj_raced>>

(* A mutant: a release destroys while another reference is left. *)
Destroys_Early(inc, count) == inc = -1 /\ count <= 1
Destroys(inc, count) == inc = -1 /\ count = 0

(* The sum is written back; a release that brings it to 0 destroys. *)
WriteBack(t) ==
  LET u == obj_update[t]
      o == u.obj
      count == u.read + u.by
  IN /\ u # NoUpdate
     /\ obj_update' = [obj_update EXCEPT ![t] = NoUpdate]
     /\ IF Destroys(u.by, count)
        THEN /\ obj_ran' = [obj_ran EXCEPT ![o] = @ \o cls_destruct[obj_class[o]]]
             /\ obj_count' = [obj_count EXCEPT ![o] = 0]
             /\ obj_class' = [obj_class EXCEPT ![o] = BaseClass]
        ELSE /\ obj_count' = [obj_count EXCEPT ![o] = count]
             /\ UNCHANGED <<obj_class, obj_ran>>
     /\ obj_held' = IF u.by = 1 THEN [obj_held EXCEPT ![t][o] = @ + 1] ELSE obj_held
     /\ UNCHANGED <<cls_initialized, cls_construct, cls_destruct, classes, max_classes, obj_raced>>

ObjectNext == \E t \in Thread_ :
  \/ WriteBack(t)
  \/ \E o \in Obj : \/ Retain(t, o) \/ Release(t, o)
                    \/ \E c \in Class : New(t, o, c)
                    \/ \E u \in Thread_ : HandOver(t, u, o)
ObjectSpec == ObjectInit /\ [][ObjectNext]_obj_vars
-----------------------------------------------------------------------------
References(o) == UNION {{t} \X (1 .. obj_held[t][o]) : t \in Thread_}
HeldBy(o) == Cardinality(References(o))
Settled(o) == \A t \in Thread_ : ~Updating(t, o)
(* What is above a class: in every set that holds its parent and theirs. *)
Ancestors(c) ==
  {a \in Class : \A S \in SUBSET Class :
     (\A k \in S \cup {c} : cls_parent[k] \in S \cup {BaseClass}) => a \in S}
(* The sequence s holds every member of S once, none of them R to an earlier. *)
IsOrder(s, S, R(_, _)) ==
  /\ {s[k] : k \in DOMAIN s} = S
  /\ \A j, k \in DOMAIN s : j < k => s[j] # s[k] /\ ~R(s[k], s[j])

(* The arrays of a class hold the constructors of it and of its parents once *)
(* each, parents first, and their destructors, children first                *)
(* (ww_object.c:70-148).                                                     *)
ArraysInOrder == \A c \in Class : cls_initialized[c] =>
  LET lineage == {c} \cup Ancestors(c)
  IN  /\ IsOrder(cls_construct[c], Constructs \cap lineage, LAMBDA a, b : a \in Ancestors(b))
      /\ IsOrder(cls_destruct[c], Destructs \cap lineage, LAMBDA a, b : b \in Ancestors(a))
(* Between its updates an object's count is the number of references that    *)
(* are held; one that is held has run its constructors and no destructor.    *)
CountExact(o) == Settled(o) => obj_count[o] = HeldBy(o)
HeldIsConstructed(o) == HeldBy(o) > 0 =>
                          obj_class[o] # BaseClass /\ obj_ran[o] = cls_construct[obj_class[o]]

(* Objects are constructed in order, and those no two updates of which       *)
(* overlapped live exactly as long as a thread holds a reference, whatever   *)
(* goes on with the others: retained, handed over and released by several    *)
(* threads, destroyed and made again as another class (ww_object.h:269-332,  *)
(* 417-496).                                                                 *)
CountIsHeld == /\ ArraysInOrder
               /\ \A o \in Obj \ obj_raced : CountExact(o) /\ HeldIsConstructed(o)

(* "Atomically update the object's reference count by some increment"        *)
(* (ww_object.h:483): also when two threads do so at once.                   *)
UpdatesAtomic == \A o \in Obj : CountExact(o)
=============================================================================

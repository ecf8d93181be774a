---------------------------- MODULE Texts_proofs ----------------------------
(* What is proved of the units that keep texts: arrays of strings (argv),    *)
(* environments, files of values, installation directories, checksums of     *)
(* messages and the values of variables.                                     *)
(* Each invariant says of the state what its property says, and of what is   *)
(* still to be read or expanded what it will come to.                        *)
EXTENDS Environ, ConfigFiles, Argv, InstallDirs, Checksums, VarText,
        SequenceTheorems, WellFoundedInduction, TLAPS
-----------------------------------------------------------------------------
LEMMA LeastExists ==
  ASSUME NEW S \in SUBSET Nat, S # {}
  PROVE  \E i \in S : \A j \in S : i <= j
<1>1. PICK i \in S : \A j \in S : <<j, i>> \notin OpToRel(<, Nat)
  BY NatLessThanWellFounded, WFMin
<1>2. \A j \in S : ~(j < i)
  BY <1>1 DEF OpToRel
<1> QED
  BY <1>2
LEMMA FirstIsLeast ==
  ASSUME NEW S \in SUBSET Nat, S # {}
  PROVE  First(S) \in S /\ \A j \in S : First(S) <= j
BY LeastExists DEF First

(* What is expected of a name is in exactly one entry; what is not set is in *)
(* none.                                                                     *)
Settings == EnvText \cup {Undefined}
KeptAs(entries, n, value) ==
  /\ value = Undefined => Named(entries, n) = {}
  /\ value # Undefined => \E i \in DOMAIN entries : /\ Named(entries, n) = {i}
                                                    /\ entries[i] = Entry(n, value)
Keeps(entries, e) == entries \in Seq(Entries) /\ \A n \in EnvNames : KeptAs(entries, n, e[n])

Replaced(entries, i, entry) == [entries EXCEPT ![i] = entry]
LEMMA ReplacedEntry ==
  ASSUME NEW entries \in Seq(Entries), NEW i \in DOMAIN entries, NEW entry \in Entries
  PROVE  /\ Replaced(entries, i, entry) \in Seq(Entries)
         /\ DOMAIN Replaced(entries, i, entry) = DOMAIN entries
         /\ Replaced(entries, i, entry)[i] = entry
         /\ \A j \in DOMAIN entries \ {i} : Replaced(entries, i, entry)[j] = entries[j]
<1>1. i \in 1 .. Len(entries)
  OBVIOUS
<1>2. [entries EXCEPT ![i] = entry] \in Seq(Entries)
  BY <1>1, ExceptSeq
<1> QED
  BY <1>2 DEF Replaced

Extended(entries, entry) == Append(entries, entry)
Extends(entries, entry, longer) ==
  \E last : /\ DOMAIN longer = DOMAIN entries \cup {last}
            /\ last \notin DOMAIN entries
            /\ longer[last] = entry
            /\ \A j \in DOMAIN entries : longer[j] = entries[j]
LEMMA ExtendedEntries ==
  ASSUME NEW entries \in Seq(Entries), NEW entry \in Entries
  PROVE  /\ Extended(entries, entry) \in Seq(Entries)
         /\ Extends(entries, entry, Extended(entries, entry))
<1>1. /\ Append(entries, entry) \in Seq(Entries)
      /\ Len(Append(entries, entry)) = Len(entries) + 1
      /\ \A j \in 1 .. Len(entries) : Append(entries, entry)[j] = entries[j]
      /\ Append(entries, entry)[Len(entries) + 1] = entry
  BY AppendProperties
<1>2. DOMAIN Append(entries, entry) = 1 .. Len(entries) + 1 /\ DOMAIN entries = 1 .. Len(entries)
      /\ Len(entries) \in Nat
  BY <1>1
<1>3. /\ DOMAIN Append(entries, entry) = DOMAIN entries \cup {Len(entries) + 1}
      /\ Len(entries) + 1 \notin DOMAIN entries
      /\ \A j \in DOMAIN entries : Append(entries, entry)[j] = entries[j]
  BY <1>1, <1>2
<1> QED
  BY <1>1, <1>3 DEF Extended, Extends

Found(entry, m) == entry.name = m /\ entry.value # Undefined
LEMMA NamedSame ==
  ASSUME NEW s, NEW t, NEW m, DOMAIN s = DOMAIN t,
         \A j \in DOMAIN s : Found(s[j], m) <=> Found(t[j], m)
  PROVE  Named(s, m) = Named(t, m)
BY DEF Named, Found

LEMMA EntryFields ==
  ASSUME NEW n, NEW v
  PROVE  Entry(n, v).name = n /\ Entry(n, v).value = v
BY DEF Entry

(* What is expected after name n was set to v.                               *)
Follows(e, n, v, overwrite, f) ==
  /\ \A m \in EnvNames \ {n} : f[m] = e[m]
  /\ n \in EnvNames => f[n] = IF overwrite \/ env_is_environ \/ e[n] = Undefined THEN v ELSE e[n]

LEMMA SetInKeeps ==
  ASSUME NEW entries, NEW e \in [EnvNames -> Settings], Keeps(entries, e),
         NEW n \in STRING, NEW v \in EnvText, NEW overwrite \in BOOLEAN, NEW f,
         Follows(e, n, v, overwrite, f)
  PROVE  Keeps(SetIn(entries, n, v, overwrite), f)
<1>6. /\ \A m \in EnvNames \ {n} : f[m] = e[m]
      /\ n \in EnvNames => f[n] = IF overwrite \/ env_is_environ \/ e[n] = Undefined THEN v ELSE e[n]
  BY DEF Follows
<1> DEFINE after == SetIn(entries, n, v, overwrite)
<1>0. entries \in Seq(Entries) /\ v # Undefined /\ \A m \in EnvNames : KeptAs(entries, m, e[m])
  BY EnvironAssumption DEF Keeps
<1> DEFINE entry == Entry(n, v)
<1>4. entry \in Entries /\ Found(entry, n) /\ \A m : m # n => ~Found(entry, m)
  BY <1>0 DEF Entry, Entries, Found
<1>5. entry = Entry(n, v)
  OBVIOUS
<1> HIDE DEF entry
<1>1. CASE Named(entries, n) = {}
  <2>0. after = Extended(entries, entry)
    BY <1>1, <1>5 DEF SetIn, Extended
  <2> HIDE DEF after
  <2>1. after \in Seq(Entries) /\ Extends(entries, entry, after)
    BY <1>0, <1>4, <2>0, ExtendedEntries
  <2>5. PICK last : /\ DOMAIN after = DOMAIN entries \cup {last}
                    /\ last \notin DOMAIN entries
                    /\ after[last] = entry
                    /\ \A j \in DOMAIN entries : after[j] = entries[j]
    BY <2>1 DEF Extends
  <2>2. \A m : m # n => Named(after, m) = Named(entries, m)
    BY <2>5, <1>4 DEF Named, Found
  <2>3. Named(after, n) = {last}
    BY <2>5, <1>4, <1>1 DEF Named, Found
  <2>4. ASSUME NEW m \in EnvNames PROVE KeptAs(after, m, f[m])
    <3>1. CASE m = n
      <4>1. f[n] = v
        BY <3>1, <1>0, <1>1, <1>6 DEF KeptAs
      <4> QED
        BY <4>1, <3>1, <2>5, <2>3, <1>0, <1>5 DEF KeptAs
    <3>2. CASE m # n
      <4>1. f[m] = e[m] /\ KeptAs(entries, m, e[m])
        BY <3>2, <1>0, <1>6
      <4> QED
        BY <4>1, <3>2, <2>5, <2>2 DEF KeptAs
    <3> QED
      BY <3>1, <3>2
  <2> QED
    BY <2>1, <2>4 DEF Keeps, after
<1>2. CASE Named(entries, n) # {} /\ (overwrite \/ env_is_environ)
  <2> DEFINE i == First(Named(entries, n))
  <2>0. after = Replaced(entries, i, entry)
    BY <1>2, <1>5 DEF SetIn, Replaced
  <2>6. i \in Named(entries, n)
    <3>1. Named(entries, n) \subseteq DOMAIN entries /\ DOMAIN entries \subseteq Nat
      BY <1>0 DEF Named
    <3> QED
      BY <1>2, <3>1, FirstIsLeast
  <2> HIDE DEF after, i
  <2>2. i \in DOMAIN entries /\ entries[i].name = n
    BY <2>6 DEF Named
  <2>1. /\ DOMAIN after = DOMAIN entries
        /\ after \in Seq(Entries)
        /\ after[i] = entry
        /\ \A j \in DOMAIN entries \ {i} : after[j] = entries[j]
    BY <1>0, <1>4, <2>0, <2>2, ReplacedEntry
  <2>3. ASSUME NEW m, m # n PROVE Named(after, m) = Named(entries, m)
    <3>1. \A j \in DOMAIN after : Found(after[j], m) <=> Found(entries[j], m)
      BY <2>1, <2>2, <2>3, <1>4 DEF Found
    <3> QED
      BY <3>1, <2>1, NamedSame
  <2>4. Named(after, n) = Named(entries, n)
    <3>1. Found(entries[i], n) /\ Found(after[i], n)
      BY <2>1, <2>6, <1>4 DEF Found, Named
    <3>2. \A j \in DOMAIN after : Found(after[j], n) <=> Found(entries[j], n)
      BY <2>1, <3>1
    <3> QED
      BY <3>2, <2>1, NamedSame
  <2>5. ASSUME NEW m \in EnvNames PROVE KeptAs(after, m, f[m])
    <3>1. CASE m = n
      <4>1. f[n] = v
        BY <3>1, <1>2, <1>6
      <4>2. KeptAs(entries, n, e[n]) /\ i \in Named(entries, n)
        BY <3>1, <1>0, <2>6
      <4>3. Named(entries, n) = {i}
        BY <4>2 DEF KeptAs
      <4> QED
        BY <4>1, <4>3, <3>1, <2>1, <2>2, <2>4, <1>0, <1>5 DEF KeptAs
    <3>2. CASE m # n
      <4>1. f[m] = e[m] /\ KeptAs(entries, m, e[m]) /\ entries[i].name # m
        BY <3>2, <1>0, <1>6, <2>2
      <4>2. ASSUME NEW k \in DOMAIN entries, Named(entries, m) = {k} PROVE after[k] = entries[k]
        BY <4>1, <4>2, <2>1 DEF Named
      <4> QED
        BY <4>1, <4>2, <3>2, <2>1, <2>3 DEF KeptAs
    <3> QED
      BY <3>1, <3>2
  <2> QED
    BY <2>1, <2>5 DEF Keeps, after
<1>3. CASE Named(entries, n) # {} /\ ~(overwrite \/ env_is_environ)
  <2>1. after = entries
    BY <1>3 DEF SetIn
  <2>2. ASSUME NEW m \in EnvNames PROVE f[m] = e[m]
    BY <1>0, <1>3, <1>6 DEF KeptAs
  <2> QED
    BY <1>0, <2>1, <2>2 DEF Keeps
<1> QED
  BY <1>1, <1>2, <1>3
-----------------------------------------------------------------------------
LEMMA CountedUp ==
  ASSUME NEW n \in Nat, NEW S \in SUBSET (0 .. n), 0 \in S,
         \A k \in 1 .. n : k - 1 \in S => k \in S
  PROVE  n \in S
<1> DEFINE bad == {k \in 0 .. n : k \notin S}
<1>1. SUFFICES ASSUME n \notin S PROVE FALSE
  OBVIOUS
<1>2. bad \in SUBSET Nat /\ n \in bad
  BY <1>1
<1>3. PICK k \in bad : \A j \in bad : k <= j
  <2> HIDE DEF bad
  <2> QED
    BY <1>2, LeastExists
<1>4. k \in 0 .. n /\ k \notin S /\ k # 0
  BY <1>3
<1>5. k \in 1 .. n /\ k - 1 \in 0 .. n /\ ~(k <= k - 1)
  BY <1>4
<1>6. k - 1 \in S
  BY <1>3, <1>5
<1> QED
  BY <1>4, <1>5, <1>6

(* A definition by recursion over 0 .. n has a value.                        *)
Iterates(w, base, step, n) ==
  w = [k \in 0 .. n |-> w[k]] /\ w[0] = base /\ \A k \in 1 .. n : w[k] = step[k][w[k - 1]]
LEMMA IteratesExists ==
  ASSUME NEW base, NEW step, NEW n \in Nat
  PROVE  \E w : Iterates(w, base, step, n)
<1> DEFINE S == {m \in 0 .. n : \E w : Iterates(w, base, step, m)}
<1>1. 0 \in S
  <2>1. Iterates([k \in 0 .. 0 |-> base], base, step, 0)
    BY DEF Iterates
  <2> QED
    BY <2>1
<1>2. ASSUME NEW m \in 1 .. n, m - 1 \in S PROVE m \in S
  <2>1. PICK w : Iterates(w, base, step, m - 1)
    BY <1>2
  <2> DEFINE v == [k \in 0 .. m |-> IF k < m THEN w[k] ELSE step[m][w[m - 1]]]
  <2>2. v = [k \in 0 .. m |-> v[k]] /\ v[0] = base
    BY <2>1 DEF Iterates
  <2>3. ASSUME NEW k \in 1 .. m PROVE v[k] = step[k][v[k - 1]]
    <3>1. CASE k < m
      <4>1. k \in 1 .. m - 1 /\ k \in 0 .. m /\ k - 1 \in 0 .. m /\ k - 1 < m
        BY <3>1
      <4>2. v[k] = w[k] /\ v[k - 1] = w[k - 1]
        BY <3>1, <4>1
      <4> HIDE DEF v
      <4> QED
        BY <2>1, <4>1, <4>2 DEF Iterates
    <3>2. CASE k = m
      <4>1. m \in 0 .. m /\ ~(m < m) /\ m - 1 \in 0 .. m /\ m - 1 < m
        OBVIOUS
      <4>2. v[m] = step[m][w[m - 1]] /\ v[m - 1] = w[m - 1]
        BY <4>1
      <4> HIDE DEF v
      <4> QED
        BY <3>2, <4>2
    <3> QED
      BY <3>1, <3>2
  <2>4. Iterates(v, base, step, m)
    <3> HIDE DEF v
    <3> QED
      BY <2>2, <2>3 DEF Iterates
  <2> HIDE DEF v
  <2> QED
    BY <2>4
<1> HIDE DEF S
<1>3. S \in SUBSET (0 .. n)
  BY DEF S
<1>4. n \in S
  BY <1>1, <1>2, <1>3, CountedUp
<1> QED
  BY <1>4 DEF S

(* The same, when the values stay in a set.                                  *)
LEMMA IteratesWithin ==
  ASSUME NEW S, NEW base \in S, NEW n \in Nat, NEW step \in [1 .. n -> [S -> S]]
  PROVE  \E w : Iterates(w, base, step, n) /\ \A k \in 0 .. n : w[k] \in S
<1>1. PICK w : Iterates(w, base, step, n)
  BY IteratesExists
<1> DEFINE R == {k \in 0 .. n : \A j \in 0 .. k : w[j] \in S}
<1>2. 0 \in R
  BY <1>1 DEF Iterates
<1>3. ASSUME NEW k \in 1 .. n, k - 1 \in R PROVE k \in R
  <2>1. k \in 0 .. n /\ k - 1 \in 0 .. k - 1 /\ \A j \in 0 .. k : j \in 0 .. k - 1 \/ j = k
    OBVIOUS
  <2>2. w[k] = step[k][w[k - 1]]
    BY <1>1 DEF Iterates
  <2>3. w[k - 1] \in S
    BY <1>3, <2>1
  <2>4. w[k] \in S
    BY <2>2, <2>3
  <2> QED
    BY <1>3, <2>1, <2>4
<1>4. n \in R
  <2>1. R \in SUBSET (0 .. n)
    OBVIOUS
  <2> HIDE DEF R
  <2> QED
    BY <1>2, <1>3, <2>1, CountedUp
<1> QED
  BY <1>1, <1>4

LEMMA SetInTyped ==
  ASSUME NEW entries \in Seq(Entries), NEW n \in STRING, NEW v \in EnvText, NEW overwrite \in BOOLEAN
  PROVE  SetIn(entries, n, v, overwrite) \in Seq(Entries)
<1> DEFINE entry == Entry(n, v)
           i == First(Named(entries, n))
<1>1. entry \in Entries
  BY DEF Entry, Entries
<1>2. Named(entries, n) # {} => i \in DOMAIN entries
  <2>1. Named(entries, n) \subseteq DOMAIN entries /\ DOMAIN entries \subseteq Nat
    BY DEF Named
  <2> QED
    BY <2>1, FirstIsLeast
<1>3. \/ SetIn(entries, n, v, overwrite) = Extended(entries, entry)
      \/ Named(entries, n) # {} /\ SetIn(entries, n, v, overwrite) = Replaced(entries, i, entry)
      \/ SetIn(entries, n, v, overwrite) = entries
  BY DEF SetIn, Extended, Replaced
<1> HIDE DEF entry, i
<1>4. Extended(entries, entry) \in Seq(Entries)
  BY <1>1, ExtendedEntries
<1>5. Named(entries, n) # {} => Replaced(entries, i, entry) \in Seq(Entries)
  BY <1>1, <1>2, ReplacedEntry
<1> QED
  BY <1>3, <1>4, <1>5

(* A list of entries, set one after the other.                               *)
SetEntries == [name : STRING, value : EnvText]
SetsUpTo(w, entries, list, overwrite) ==
  w = [k \in 0 .. Len(list) |-> IF k = 0 THEN entries
         ELSE SetIn(w[k - 1], list[k].name, list[k].value, overwrite)]
LEMMA SetsExist ==
  ASSUME NEW entries \in Seq(Entries), NEW list \in Seq(SetEntries), NEW overwrite \in BOOLEAN
  PROVE  \E w : SetsUpTo(w, entries, list, overwrite)
<1> DEFINE n == Len(list)
           S == Seq(Entries)
           Step(k, s) == SetIn(s, list[k].name, list[k].value, overwrite)
           step == [k \in 1 .. n |-> [s \in S |-> Step(k, s)]]
<1>1. n \in Nat
  OBVIOUS
<1>2. ASSUME NEW k \in 1 .. n, NEW s \in S PROVE Step(k, s) \in S
  <2>1. list[k] \in SetEntries
    BY ElementOfSeq
  <2>2. list[k].name \in STRING /\ list[k].value \in EnvText
    BY <2>1 DEF SetEntries
  <2> QED
    BY <2>2, SetInTyped
<1> HIDE DEF n, Step, S
<1>3. step \in [1 .. n -> [S -> S]] /\ \A k \in 1 .. n : \A s \in S : step[k][s] = Step(k, s)
  BY <1>2
<1> HIDE DEF step
<1>4. entries \in S
  BY DEF S
<1>5. PICK w : Iterates(w, entries, step, n) /\ \A k \in 0 .. n : w[k] \in S
  BY <1>1, <1>3, <1>4, IteratesWithin
<1>6. ASSUME NEW k \in 0 .. n PROVE w[k] = IF k = 0 THEN entries ELSE Step(k, w[k - 1])
  <2>1. CASE k = 0
    BY <1>5, <2>1 DEF Iterates
  <2>2. CASE k # 0
    <3>1. k \in 1 .. n /\ k - 1 \in 0 .. n
      BY <1>1, <2>2
    <3>2. w[k] = step[k][w[k - 1]]
      BY <1>5, <3>1 DEF Iterates
    <3> QED
      BY <1>3, <1>5, <2>2, <3>1, <3>2
  <2> QED
    BY <2>1, <2>2
<1>7. w = [k \in 0 .. n |-> w[k]]
  BY <1>5 DEF Iterates
<1>8. w = [k \in 0 .. n |-> IF k = 0 THEN entries ELSE Step(k, w[k - 1])]
  BY <1>6, <1>7
<1> QED
  BY <1>8 DEF SetsUpTo, Step, n

LEMMA SetAllIs ==
  ASSUME NEW entries \in Seq(Entries), NEW list \in Seq(SetEntries), NEW overwrite \in BOOLEAN
  PROVE  \E w : SetsUpTo(w, entries, list, overwrite) /\ SetAll(entries, list, overwrite) = w[Len(list)]
<1> DEFINE f == CHOOSE w : w = [k \in 0 .. Len(list) |-> IF k = 0 THEN entries
                                  ELSE SetIn(w[k - 1], list[k].name, list[k].value, overwrite)]
<1>1. SetAll(entries, list, overwrite) = f[Len(list)]
  BY DEF SetAll
<1>2. \E w : SetsUpTo(w, entries, list, overwrite)
  BY SetsExist
<1>3. SetsUpTo(f, entries, list, overwrite)
  BY <1>2 DEF SetsUpTo
<1> HIDE DEF f
<1> QED
  BY <1>1, <1>3

LEMMA SetAllKeeps ==
  ASSUME NEW entries, NEW list \in Seq(SetEntries), NEW overwrite \in BOOLEAN, NEW e,
         \A k \in 0 .. Len(list) : e[k] \in [EnvNames -> Settings],
         Keeps(entries, e[0]),
         \A k \in 1 .. Len(list) : Follows(e[k - 1], list[k].name, list[k].value, overwrite, e[k])
  PROVE  Keeps(SetAll(entries, list, overwrite), e[Len(list)])
<1> DEFINE n == Len(list)
<1>1. entries \in Seq(Entries)
  BY DEF Keeps
<1>2. PICK w : SetsUpTo(w, entries, list, overwrite) /\ SetAll(entries, list, overwrite) = w[Len(list)]
  BY <1>1, SetAllIs
<1>3. n \in Nat /\ \A k \in 1 .. n : list[k].name \in STRING /\ list[k].value \in EnvText
  <2>1. ASSUME NEW k \in 1 .. Len(list) PROVE list[k] \in SetEntries
    BY ElementOfSeq
  <2> QED
    BY <2>1 DEF SetEntries
<1>4. w[0] = entries /\ \A k \in 1 .. n : w[k] = SetIn(w[k - 1], list[k].name, list[k].value, overwrite)
  BY <1>2, <1>3 DEF SetsUpTo
<1> DEFINE S == {k \in 0 .. n : Keeps(w[k], e[k])}
<1>5. 0 \in S
  BY <1>3, <1>4
<1>6. ASSUME NEW k \in 1 .. n, k - 1 \in S PROVE k \in S
  <2>1. k \in 0 .. n /\ k - 1 \in 0 .. n
    BY <1>3
  <2>2. /\ list[k].name \in STRING /\ list[k].value \in EnvText
        /\ e[k - 1] \in [EnvNames -> Settings] /\ Keeps(w[k - 1], e[k - 1])
        /\ Follows(e[k - 1], list[k].name, list[k].value, overwrite, e[k])
    BY <1>3, <1>6, <2>1
  <2>3. Keeps(SetIn(w[k - 1], list[k].name, list[k].value, overwrite), e[k])
    BY <2>2, SetInKeeps
  <2> QED
    BY <1>4, <2>1, <2>3
<1>7. n \in S
  <2>1. S \in SUBSET (0 .. n)
    OBVIOUS
  <2> HIDE DEF S, n
  <2> QED
    BY <1>3, <1>5, <1>6, <2>1, CountedUp
<1> QED
  BY <1>2, <1>7
-----------------------------------------------------------------------------
GivenTo(list, n, k) == {i \in 1 .. k : list[i].name = n}
FirstValue(e, list, n, k) ==
  IF e[n] = Undefined /\ GivenTo(list, n, k) # {} THEN list[First(GivenTo(list, n, k))].value ELSE e[n]
LastValue(e, list, n, k) ==
  IF GivenTo(list, n, k) = {} THEN e[n] ELSE list[Latest(GivenTo(list, n, k))].value

LEMMA SetEntryFields ==
  ASSUME NEW list \in Seq(SetEntries), NEW k \in 1 .. Len(list)
  PROVE  list[k].name \in STRING /\ list[k].value \in EnvText /\ list[k].value # Undefined
<1>1. list[k] \in SetEntries
  BY ElementOfSeq
<1> QED
  BY <1>1, EnvironAssumption DEF SetEntries

LEMMA GivenToGrows ==
  ASSUME NEW list, NEW k \in Nat \ {0}, NEW n
  PROVE  /\ GivenTo(list, n, k) = IF list[k].name = n THEN GivenTo(list, n, k - 1) \cup {k}
                                                      ELSE GivenTo(list, n, k - 1)
         /\ GivenTo(list, n, k - 1) \in SUBSET (1 .. k - 1)
  BY DEF GivenTo

LEMMA FirstStays ==
  ASSUME NEW k \in Nat \ {0}, NEW S \in SUBSET (1 .. k - 1)
  PROVE  /\ S # {} => First(S) \in S /\ First(S \cup {k}) = First(S)
         /\ First({k}) = k
         /\ Latest(S \cup {k}) = k
<1>1. S # {} => First(S) \in S /\ \A j \in S : First(S) <= j
  BY FirstIsLeast
<1>2. First(S \cup {k}) \in S \cup {k} /\ \A j \in S \cup {k} : First(S \cup {k}) <= j
  <2>1. S \cup {k} \in SUBSET Nat /\ S \cup {k} # {}
    OBVIOUS
  <2> QED
    BY <2>1, FirstIsLeast
<1>3. First({k}) = k
  BY DEF First
<1>4. Latest(S \cup {k}) = k
  <2>1. \A j \in S \cup {k} : j <= k
    OBVIOUS
  <2>2. \A i \in S \cup {k} : (\A j \in S \cup {k} : j <= i) => i = k
    OBVIOUS
  <2> QED
    BY <2>1, <2>2 DEF Latest
<1>5. S # {} => First(S \cup {k}) = First(S)
  <2> SUFFICES ASSUME S # {} PROVE First(S \cup {k}) = First(S)
    OBVIOUS
  <2> DEFINE a == First(S)
             b == First(S \cup {k})
  <2>1. a \in S /\ b \in S \cup {k} /\ b <= a /\ \A j \in S : a <= j
    BY <1>1, <1>2
  <2> HIDE DEF a, b
  <2>2. a \in 1 .. k - 1 /\ b # k
    BY <2>1
  <2>3. a <= b /\ b \in 1 .. k - 1
    BY <2>1, <2>2
  <2>4. a = b
    BY <2>1, <2>2, <2>3
  <2> QED
    BY <2>4 DEF a, b
<1> QED
  BY <1>1, <1>3, <1>4, <1>5

(* With what is there kept, the first value of a name counts; with what is   *)
(* there overwritten, the last one does.                                     *)
LEMMA FirstFollows ==
  ASSUME ~env_is_environ, NEW list \in Seq(SetEntries), NEW k \in 1 .. Len(list),
         NEW e \in [EnvNames -> Settings], NEW before, NEW after,
         \A n \in EnvNames : before[n] = FirstValue(e, list, n, k - 1),
         \A n \in EnvNames : after[n] = FirstValue(e, list, n, k)
  PROVE  Follows(before, list[k].name, list[k].value, FALSE, after)
<1>0. k \in Nat \ {0}
  OBVIOUS
<1>1. ASSUME NEW n \in EnvNames, n # list[k].name PROVE after[n] = before[n]
  <2>1. GivenTo(list, n, k) = GivenTo(list, n, k - 1)
    BY <1>0, <1>1, GivenToGrows
  <2>2. FirstValue(e, list, n, k) = FirstValue(e, list, n, k - 1)
    BY <2>1 DEF FirstValue
  <2> QED
    BY <2>2
<1>2. ASSUME NEW n \in EnvNames, n = list[k].name
      PROVE  after[n] = IF before[n] = Undefined THEN list[k].value ELSE before[n]
  <2> DEFINE S == GivenTo(list, n, k - 1)
  <2>1. S \in SUBSET (1 .. k - 1) /\ GivenTo(list, n, k) = S \cup {k}
    BY <1>0, <1>2, GivenToGrows
  <2>2. before[n] = IF e[n] = Undefined /\ S # {} THEN list[First(S)].value ELSE e[n]
    BY DEF FirstValue
  <2>3. after[n] = IF e[n] = Undefined THEN list[First(S \cup {k})].value ELSE e[n]
    BY <2>1 DEF FirstValue
  <2> HIDE DEF S
  <2>4. CASE S = {}
    <3>1. S \cup {k} = {k}
      BY <2>4
    <3>2. First(S \cup {k}) = k
      BY <1>0, <2>1, <3>1, FirstStays
    <3> QED
      BY <2>2, <2>3, <2>4, <3>2
  <2>5. CASE S # {}
    <3>1. First(S) \in S /\ First(S \cup {k}) = First(S)
      BY <1>0, <2>1, <2>5, FirstStays
    <3>4. First(S) \in 1 .. k - 1
      BY <2>1, <3>1
    <3>2. First(S) \in 1 .. Len(list)
      BY <3>4
    <3>3. list[First(S)].value # Undefined
      BY <3>2, SetEntryFields
    <3> QED
      BY <2>2, <2>3, <2>5, <3>1, <3>3
  <2> QED
    BY <2>4, <2>5
<1> QED
  BY <1>1, <1>2 DEF Follows

LEMMA LastFollows ==
  ASSUME NEW list \in Seq(SetEntries), NEW k \in 1 .. Len(list),
         NEW e \in [EnvNames -> Settings], NEW before, NEW after,
         \A n \in EnvNames : before[n] = LastValue(e, list, n, k - 1),
         \A n \in EnvNames : after[n] = LastValue(e, list, n, k)
  PROVE  Follows(before, list[k].name, list[k].value, TRUE, after)
<1>0. k \in Nat \ {0}
  OBVIOUS
<1>1. ASSUME NEW n \in EnvNames, n # list[k].name PROVE after[n] = before[n]
  BY <1>0, <1>1, GivenToGrows DEF LastValue
<1>2. ASSUME NEW n \in EnvNames, n = list[k].name PROVE after[n] = list[k].value
  <2> DEFINE S == GivenTo(list, n, k - 1)
  <2>1. S \in SUBSET (1 .. k - 1) /\ GivenTo(list, n, k) = S \cup {k}
    BY <1>0, <1>2, GivenToGrows
  <2>2. after[n] = list[Latest(S \cup {k})].value
    BY <2>1 DEF LastValue
  <2> HIDE DEF S
  <2> QED
    BY <1>0, <2>1, <2>2, FirstStays
<1> QED
  BY <1>1, <1>2 DEF Follows

LEMMA LatestIsIn ==
  ASSUME NEW k \in Nat, NEW S \in SUBSET (1 .. k), S # {}
  PROVE  Latest(S) \in S
<1>1. \E i \in S : \A j \in S : j <= i
  <2> DEFINE R == {m \in 0 .. k : k - m \in S}
  <2>1. R \in SUBSET Nat /\ R # {}
    <3>1. PICK j \in S : TRUE
      OBVIOUS
    <3>2. j \in 1 .. k
      OBVIOUS
    <3>3. k - j \in 0 .. k /\ k - (k - j) = j
      BY <3>2
    <3> QED
      BY <3>3
  <2>2. PICK m \in R : \A r \in R : m <= r
    <3> HIDE DEF R
    <3> QED
      BY <2>1, LeastExists
  <2>3. k - m \in S /\ m \in 0 .. k
    BY <2>2
  <2>4. ASSUME NEW j \in S PROVE j <= k - m
    <3>1. j \in 1 .. k
      OBVIOUS
    <3>2. k - j \in 0 .. k /\ k - (k - j) = j
      BY <3>1
    <3>3. m <= k - j
      BY <2>2, <3>2
    <3> QED
      BY <2>3, <3>1, <3>3
  <2> QED
    BY <2>3, <2>4
<1> QED
  BY <1>1 DEF Latest

LEMMA ValuesTyped ==
  ASSUME NEW list \in Seq(SetEntries), NEW k \in 0 .. Len(list),
         NEW e \in [EnvNames -> Settings], NEW n \in EnvNames
  PROVE  FirstValue(e, list, n, k) \in Settings /\ LastValue(e, list, n, k) \in Settings
<1> DEFINE S == GivenTo(list, n, k)
<1>1. S \in SUBSET (1 .. k) /\ 1 .. k \subseteq 1 .. Len(list)
  BY DEF GivenTo
<1>2. S # {} => First(S) \in S /\ Latest(S) \in S
  <2> HIDE DEF S
  <2>1. S \in SUBSET Nat
    BY <1>1
  <2>2. S # {} => First(S) \in S
    BY <2>1, FirstIsLeast
  <2>3. S # {} => Latest(S) \in S
    <3>1. k \in Nat
      OBVIOUS
    <3> QED
      BY <1>1, <3>1, LatestIsIn
  <2> QED
    BY <2>2, <2>3
<1>3. \A i \in S : list[i].value \in EnvText
  <2> HIDE DEF S
  <2> QED
    BY <1>1, SetEntryFields
<1>4. e[n] \in Settings
  OBVIOUS
<1> QED
  BY <1>2, <1>3, <1>4 DEF FirstValue, LastValue, Settings

LEMMA SetAllFirst ==
  ASSUME ~env_is_environ, NEW entries, NEW list \in Seq(SetEntries), NEW e \in [EnvNames -> Settings],
         Keeps(entries, e), NEW f, \A n \in EnvNames : f[n] = FirstValue(e, list, n, Len(list))
  PROVE  Keeps(SetAll(entries, list, FALSE), f)
<1> DEFINE E == [k \in 0 .. Len(list) |-> [n \in EnvNames |-> FirstValue(e, list, n, k)]]
<1>1. \A k \in 0 .. Len(list) : \A n \in EnvNames : E[k][n] = FirstValue(e, list, n, k)
  OBVIOUS
<1>2. \A k \in 0 .. Len(list) : E[k] \in [EnvNames -> Settings]
  BY ValuesTyped
<1> HIDE DEF E
<1>3. ASSUME NEW k \in 1 .. Len(list)
      PROVE  Follows(E[k - 1], list[k].name, list[k].value, FALSE, E[k])
  <2>1. k \in 0 .. Len(list) /\ k - 1 \in 0 .. Len(list)
    OBVIOUS
  <2>2. \A n \in EnvNames : E[k - 1][n] = FirstValue(e, list, n, k - 1)
    BY <1>1, <2>1
  <2>3. \A n \in EnvNames : E[k][n] = FirstValue(e, list, n, k)
    BY <1>1, <2>1
  <2> QED
    BY <2>2, <2>3, FirstFollows
<1>4. Keeps(entries, E[0])
  <2>1. ASSUME NEW n \in EnvNames PROVE E[0][n] = e[n]
    <3>1. GivenTo(list, n, 0) = {}
      BY DEF GivenTo
    <3> QED
      BY <1>1, <3>1 DEF FirstValue
  <2> QED
    BY <2>1 DEF Keeps
<1>5. Keeps(SetAll(entries, list, FALSE), E[Len(list)])
  BY <1>2, <1>3, <1>4, SetAllKeeps
<1>6. \A n \in EnvNames : E[Len(list)][n] = f[n]
  BY <1>1
<1> QED
  BY <1>5, <1>6 DEF Keeps

LEMMA SetAllLast ==
  ASSUME NEW entries, NEW list \in Seq(SetEntries), NEW e \in [EnvNames -> Settings],
         Keeps(entries, e), NEW f, \A n \in EnvNames : f[n] = LastValue(e, list, n, Len(list))
  PROVE  Keeps(SetAll(entries, list, TRUE), f)
<1> DEFINE E == [k \in 0 .. Len(list) |-> [n \in EnvNames |-> LastValue(e, list, n, k)]]
<1>1. \A k \in 0 .. Len(list) : \A n \in EnvNames : E[k][n] = LastValue(e, list, n, k)
  OBVIOUS
<1>2. \A k \in 0 .. Len(list) : E[k] \in [EnvNames -> Settings]
  BY ValuesTyped
<1> HIDE DEF E
<1>3. ASSUME NEW k \in 1 .. Len(list)
      PROVE  Follows(E[k - 1], list[k].name, list[k].value, TRUE, E[k])
  <2>1. k \in 0 .. Len(list) /\ k - 1 \in 0 .. Len(list)
    OBVIOUS
  <2>2. \A n \in EnvNames : E[k - 1][n] = LastValue(e, list, n, k - 1)
    BY <1>1, <2>1
  <2>3. \A n \in EnvNames : E[k][n] = LastValue(e, list, n, k)
    BY <1>1, <2>1
  <2> QED
    BY <2>2, <2>3, LastFollows
<1>4. Keeps(entries, E[0])
  <2>1. ASSUME NEW n \in EnvNames PROVE E[0][n] = e[n]
    <3>1. GivenTo(list, n, 0) = {}
      BY DEF GivenTo
    <3> QED
      BY <1>1, <3>1 DEF LastValue
  <2> QED
    BY <2>1 DEF Keeps
<1>5. Keeps(SetAll(entries, list, TRUE), E[Len(list)])
  BY <1>2, <1>3, <1>4, SetAllKeeps
<1>6. \A n \in EnvNames : E[Len(list)][n] = f[n]
  BY <1>1
<1> QED
  BY <1>5, <1>6 DEF Keeps
-----------------------------------------------------------------------------
(* What each name has is what is documented but for the open names.          *)
Agrees(f, e, open) == \A n \in EnvNames : n \notin open => f[n] = e[n]
EnvironInv ==
  /\ env_is_environ \in BOOLEAN
  /\ env_expected \in [EnvNames -> Settings]
  /\ \E f \in [EnvNames -> Settings] : Keeps(env, f) /\ Agrees(f, env_expected, env_open)

LEMMA EnvironInit == EnvInit => EnvironInv
<1> SUFFICES ASSUME EnvInit PROVE EnvironInv
  OBVIOUS
<1>1. env_is_environ \in BOOLEAN /\ env_expected \in [EnvNames -> Settings]
  BY DEF EnvInit, Settings
<1>2. env \in Seq(Entries) /\ \A i \in DOMAIN env : env[i].value = Undefined
  <2>1. CASE env = <<>>
    BY <2>1
  <2>2. ASSUME NEW n \in EnvNames, env = <<Bare(n)>> PROVE env \in Seq(Entries) /\ \A i \in DOMAIN env : env[i].value = Undefined
    <3>1. Bare(n) \in Entries /\ Bare(n).value = Undefined
      BY EnvironAssumption DEF Bare, Entries
    <3>2. env \in Seq(Entries) /\ DOMAIN env = {1} /\ env[1] = Bare(n)
      BY <2>2, <3>1
    <3> QED
      BY <3>1, <3>2
  <2> QED
    BY <2>1, <2>2 DEF EnvInit
<1>3. ASSUME NEW n \in EnvNames PROVE KeptAs(env, n, env_expected[n])
  BY <1>2 DEF EnvInit, KeptAs, Named
<1>4. Keeps(env, env_expected) /\ Agrees(env_expected, env_expected, env_open)
  BY <1>2, <1>3 DEF Keeps, Agrees
<1> QED
  BY <1>1, <1>4 DEF EnvironInv

Without(entries, i) == RemoveAt(entries, i)
LEMMA WithoutEntry ==
  ASSUME NEW entries \in Seq(Entries), NEW i \in DOMAIN entries
  PROVE  /\ Without(entries, i) \in Seq(Entries)
         /\ DOMAIN Without(entries, i) = 1 .. Len(entries) - 1
         /\ \A j \in 1 .. Len(entries) - 1 :
              Without(entries, i)[j] = IF j < i THEN entries[j] ELSE entries[j + 1]
<1> DEFINE n == Len(entries)
           low == SubSeq(entries, 1, i - 1)
           high == SubSeq(entries, i + 1, n)
<1>1. n \in Nat /\ i \in 1 .. n
  OBVIOUS
<1>2. low \in Seq(Entries) /\ Len(low) = i - 1 /\ \A j \in 1 .. i - 1 : low[j] = entries[j]
  BY <1>1
<1>3. high \in Seq(Entries) /\ Len(high) = n - i /\ \A j \in 1 .. n - i : high[j] = entries[i + j]
  BY <1>1
<1>4. Without(entries, i) = low \o high
  BY DEF Without, RemoveAt
<1> HIDE DEF n, low, high
<1>5. /\ low \o high \in Seq(Entries) /\ Len(low \o high) = n - 1
      /\ \A j \in 1 .. n - 1 : (low \o high)[j] = IF j <= i - 1 THEN low[j] ELSE high[j - (i - 1)]
  <2>1. /\ low \o high \in Seq(Entries) /\ Len(low \o high) = Len(low) + Len(high)
        /\ \A j \in 1 .. Len(low) + Len(high) :
             (low \o high)[j] = IF j <= Len(low) THEN low[j] ELSE high[j - Len(low)]
    BY <1>2, <1>3, ConcatProperties
  <2>2. Len(low) + Len(high) = n - 1
    BY <1>1, <1>2, <1>3
  <2> QED
    BY <1>2, <2>1, <2>2
<1>6. ASSUME NEW j \in 1 .. n - 1
      PROVE  (low \o high)[j] = IF j < i THEN entries[j] ELSE entries[j + 1]
  <2>1. CASE j < i
    BY <1>1, <1>2, <1>5, <2>1
  <2>2. CASE ~(j < i)
    <3>1. j - (i - 1) \in 1 .. n - i /\ i + (j - (i - 1)) = j + 1 /\ ~(j <= i - 1)
      BY <1>1, <2>2
    <3> QED
      BY <1>3, <1>5, <2>2, <3>1
  <2> QED
    BY <2>1, <2>2
<1>7. DOMAIN (low \o high) = 1 .. n - 1
  BY <1>5
<1> QED
  BY <1>4, <1>5, <1>6, <1>7 DEF n

LEMMA WithoutKeeps ==
  ASSUME NEW entries, NEW e \in [EnvNames -> Settings], Keeps(entries, e),
         NEW n \in EnvNames, NEW i, Named(entries, n) = {i}
  PROVE  Keeps(Without(entries, i), [e EXCEPT ![n] = Undefined])
<1> DEFINE less == Without(entries, i)
           Old(j) == IF j < i THEN j ELSE j + 1
           f == [e EXCEPT ![n] = Undefined]
<1>1. entries \in Seq(Entries) /\ \A m \in EnvNames : KeptAs(entries, m, e[m])
  BY DEF Keeps
<1>2. i \in DOMAIN entries /\ DOMAIN entries = 1 .. Len(entries) /\ Len(entries) \in Nat
  BY <1>1 DEF Named
<1>3. less \in Seq(Entries) /\ DOMAIN less = 1 .. Len(entries) - 1
      /\ \A j \in DOMAIN less : less[j] = entries[Old(j)]
  BY <1>1, <1>2, WithoutEntry
<1>4. \A j \in DOMAIN less : Old(j) \in DOMAIN entries \ {i}
  BY <1>2, <1>3
<1>5. \A k \in DOMAIN entries \ {i} : \E j \in DOMAIN less : Old(j) = k
  <2> SUFFICES ASSUME NEW k \in DOMAIN entries \ {i} PROVE \E j \in DOMAIN less : Old(j) = k
    OBVIOUS
  <2>1. CASE k < i
    <3>1. k \in DOMAIN less /\ Old(k) = k
      BY <1>2, <1>3, <2>1
    <3> QED
      BY <3>1
  <2>2. CASE ~(k < i)
    <3>1. k - 1 \in DOMAIN less /\ Old(k - 1) = k
      BY <1>2, <1>3, <2>2
    <3> QED
      BY <3>1
  <2> QED
    BY <2>1, <2>2
<1>6. \A j, k \in DOMAIN less : Old(j) = Old(k) => j = k
  BY <1>2, <1>3
<1>7. f = [m \in EnvNames |-> IF m = n THEN Undefined ELSE e[m]]
  OBVIOUS
<1> HIDE DEF less, Old, f
<1>8. ASSUME NEW m, NEW j \in DOMAIN less
      PROVE  j \in Named(less, m) <=> Old(j) \in Named(entries, m)
  BY <1>3, <1>4 DEF Named
<1>9. ASSUME NEW m \in EnvNames PROVE KeptAs(less, m, f[m])
  <2>1. CASE m = n
    <3>1. \A j \in DOMAIN less : j \notin Named(less, m)
      BY <1>4, <1>8, <2>1
    <3>2. Named(less, m) \subseteq DOMAIN less
      BY DEF Named
    <3> QED
      BY <1>7, <2>1, <3>1, <3>2 DEF KeptAs
  <2>2. CASE m # n
    <3>1. f[m] = e[m] /\ KeptAs(entries, m, e[m]) /\ Named(less, m) \subseteq DOMAIN less
      BY <1>1, <1>7, <2>2 DEF Named
    <3>2. CASE e[m] = Undefined
      <4>1. Named(entries, m) = {}
        BY <3>1, <3>2 DEF KeptAs
      <4>2. Named(less, m) = {}
        BY <1>8, <3>1, <4>1
      <4> QED
        BY <3>1, <3>2, <4>2 DEF KeptAs
    <3>3. CASE e[m] # Undefined
      <4>1. PICK k \in DOMAIN entries : Named(entries, m) = {k} /\ entries[k] = Entry(m, e[m])
        BY <3>1, <3>3 DEF KeptAs
      <4>2. k # i
        BY <2>2, <4>1 DEF Named
      <4>3. PICK j \in DOMAIN less : Old(j) = k
        BY <1>5, <4>2
      <4>4. Named(less, m) = {j}
        BY <1>6, <1>8, <3>1, <4>1, <4>3
      <4>5. less[j] = Entry(m, e[m])
        BY <1>3, <4>1, <4>3
      <4> QED
        BY <3>1, <3>3, <4>4, <4>5 DEF KeptAs
    <3> QED
      BY <3>2, <3>3
  <2> QED
    BY <2>1, <2>2
<1> QED
  BY <1>3, <1>9 DEF Keeps, less, f

(* What is read of a list, up to what the process does not know.             *)
LEMMA ResolvedTyped ==
  ASSUME NEW list \in EnvLists
  PROVE  /\ Resolved(ReadPart(list)) \in Seq(SetEntries)
         /\ Meant(ReadPart(list)) \in Seq(SetEntries)
<1> DEFINE Tokens == [name : EnvNames, value : Settings]
           ends == {i \in DOMAIN list : Unknown(list[i])}
           read == ReadPart(list)
<1>1. list \in Seq(Tokens)
  BY EnvironAssumption DEF Settings
<1>2. read \in Seq(Tokens) /\ \A i \in DOMAIN read : ~Unknown(read[i])
  <2>1. CASE ends = {}
    <3>1. read = list
      BY <2>1 DEF ReadPart
    <3> QED
      BY <1>1, <2>1, <3>1
  <2>2. CASE ends # {}
    <3> DEFINE end == First(ends)
    <3>1. read = SubSeq(list, 1, end - 1)
      BY <2>2 DEF ReadPart
    <3>2. ends \in SUBSET Nat /\ ends \subseteq 1 .. Len(list)
      BY <1>1
    <3>3. end \in ends /\ \A j \in ends : end <= j
      <4> HIDE DEF ends
      <4> QED
        BY <2>2, <3>2, FirstIsLeast
    <3>4. end \in 1 .. Len(list) /\ Len(list) \in Nat
      BY <1>1, <3>2, <3>3
    <3> HIDE DEF end, Tokens
    <3>5. SubSeq(list, 1, end - 1) \in Seq(Tokens) /\ Len(SubSeq(list, 1, end - 1)) = end - 1
          /\ \A i \in 1 .. end - 1 : SubSeq(list, 1, end - 1)[i] = list[i]
      BY <1>1, <3>4
    <3>6. ASSUME NEW i \in 1 .. end - 1 PROVE ~Unknown(list[i])
      <4>1. i \in DOMAIN list /\ ~(end <= i)
        BY <1>1, <3>4
      <4> QED
        BY <3>3, <4>1
    <3>7. DOMAIN read = 1 .. end - 1
      BY <3>1, <3>5
    <3> QED
      BY <3>1, <3>5, <3>6, <3>7
  <2> QED
    BY <2>1, <2>2
<1>3. ASSUME NEW i \in DOMAIN read
      PROVE  Valued(read[i]) \in SetEntries /\ Passed(read[i]) \in SetEntries
  <2> DEFINE token == read[i]
  <2>1. token \in Tokens /\ ~Unknown(token)
    <3> HIDE DEF read, Tokens
    <3>1. i \in 1 .. Len(read)
      BY <1>2
    <3> QED
      BY <1>2, <3>1, ElementOfSeq
  <2> HIDE DEF token
  <2>2. Valued(token) \in SetEntries
    <3>1. CASE token.value # Undefined
      BY <2>1, <3>1, EnvironAssumption DEF SetEntries, Settings, Valued
    <3>2. CASE token.value = Undefined
      <4>1. /\ token.name \in EnvNames /\ token.name \in STRING
            /\ ProcessEnv[token.name] \in EnvText
        BY <2>1, <3>2, EnvironAssumption DEF Unknown
      <4> QED
        BY <3>2, <4>1 DEF SetEntries, Valued, Entry
    <3> QED
      BY <3>1, <3>2
  <2>3. CASE Misnamed(token)
    <3> DEFINE v == ProcessEnv[token.name]
    <3>1. v \in EnvText /\ Len(v) > 1
      BY <2>1, <2>3, EnvironAssumption DEF Unknown, Misnamed
    <3>2. Head(v) \in STRING /\ Tail(v) \in EnvText
      <4> HIDE DEF v
      <4>1. v \in Seq(STRING) /\ Len(<<>>) = 0
        BY <3>1 DEF EnvText
      <4>2. v \in Seq(STRING) /\ v # <<>>
        BY <3>1, <4>1
      <4> QED
        BY <4>2, HeadTailProperties DEF EnvText
    <3> QED
      BY <2>2, <2>3, <3>2 DEF Passed, Entry, SetEntries, token
  <2> QED
    BY <2>2, <2>3 DEF Passed, token
<1> HIDE DEF read, Tokens
<1> QED
  BY <1>2, <1>3 DEF Resolved, Meant, read

(* For a name that no misnamed token touches, what is sent is what is meant. *)
LEMMA SentAsMeant ==
  ASSUME NEW list \in EnvLists, NEW n \in EnvNames, NEW e, NEW f,
         \A i \in DOMAIN ReadPart(list) :
           Misnamed(ReadPart(list)[i]) => n \notin {ReadPart(list)[i].name, Passed(ReadPart(list)[i]).name},
         Given(Meant(ReadPart(list)), n) = {} => f[n] = e[n]
  PROVE  LastValue(f, Resolved(ReadPart(list)), n, Len(Resolved(ReadPart(list)))) =
         LastValue(e, Meant(ReadPart(list)), n, Len(Meant(ReadPart(list))))
<1> DEFINE read == ReadPart(list)
           sent == Resolved(read)
           meant == Meant(read)
<1>1. sent \in Seq(SetEntries) /\ meant \in Seq(SetEntries)
  BY ResolvedTyped
<1>2. /\ DOMAIN sent = DOMAIN read /\ DOMAIN meant = DOMAIN read
      /\ \A i \in DOMAIN read : sent[i] = Passed(read[i]) /\ meant[i] = Valued(read[i])
  BY DEF Resolved, Meant
<1>3. \A token : Valued(token).name = token.name
  BY DEF Valued, Entry
<1>4. \A token : ~Misnamed(token) => Passed(token) = Valued(token)
  BY DEF Passed
<1>5. \A i \in DOMAIN read : Misnamed(read[i]) => n # read[i].name /\ n # Passed(read[i]).name
  OBVIOUS
<1> HIDE DEF read, sent, meant
<1>6. \A i \in DOMAIN read : sent[i].name = n \/ meant[i].name = n => sent[i] = meant[i]
  BY <1>2, <1>3, <1>4, <1>5
<1>7. GivenTo(sent, n, Len(sent)) = GivenTo(meant, n, Len(meant))
  <2>1. 1 .. Len(sent) = DOMAIN read /\ 1 .. Len(meant) = DOMAIN read
    BY <1>1, <1>2
  <2> QED
    BY <1>6, <2>1 DEF GivenTo
<1> DEFINE S == GivenTo(meant, n, Len(meant))
<1>8. S = Given(meant, n)
  BY <1>1 DEF GivenTo, Given
<1>9. S = {} => f[n] = e[n]
  BY <1>8 DEF meant, read
<1>10. S # {} => Latest(S) \in S
  <2>1. S \in SUBSET (1 .. Len(meant)) /\ Len(meant) \in Nat
    BY <1>1 DEF GivenTo
  <2> HIDE DEF S
  <2> QED
    BY <2>1, LatestIsIn
<1>11. S # {} => sent[Latest(S)] = meant[Latest(S)]
  <2>1. \A i \in S : i \in DOMAIN read /\ meant[i].name = n
    BY <1>1, <1>2 DEF GivenTo
  <2> HIDE DEF S
  <2> QED
    BY <1>6, <1>10, <2>1
<1>12. LastValue(f, sent, n, Len(sent)) = LastValue(e, meant, n, Len(meant))
  BY <1>7, <1>9, <1>11 DEF LastValue
<1> QED
  BY <1>12 DEF sent, meant, read

LEMMA EnvironStep == EnvironInv /\ [EnvironNext]_env_vars => EnvironInv'
<1> SUFFICES ASSUME EnvironInv, [EnvironNext]_env_vars PROVE EnvironInv'
  OBVIOUS
<1>0. PICK g \in [EnvNames -> Settings] : Keeps(env, g) /\ Agrees(g, env_expected, env_open)
  BY DEF EnvironInv
<1>1. /\ env_expected \in [EnvNames -> Settings] /\ Keeps(env, g) /\ env \in Seq(Entries)
      /\ \A n \in EnvNames : n \notin env_open => g[n] = env_expected[n]
  BY <1>0 DEF EnvironInv, Keeps, Agrees
<1>2. CASE UNCHANGED env_vars
  BY <1>2 DEF EnvironInv, env_vars, Keeps, KeptAs, Named, Agrees
<1>3. ASSUME NEW f \in [EnvNames -> Settings], NEW e \in [EnvNames -> Settings], Keeps(env', f),
             env_expected' = e, \A n \in EnvNames : n \notin env_open' => f[n] = e[n],
             UNCHANGED env_is_environ
      PROVE  EnvironInv'
  <2>1. Keeps(env', f) /\ Agrees(f, env_expected', env_open')
    BY <1>3 DEF Agrees
  <2> QED
    BY <1>3, <2>1 DEF EnvironInv, Keeps, KeptAs, Named, Agrees
<1>4. ASSUME NEW n \in EnvNames, UnsetEnv(n) PROVE EnvironInv'
  <2> DEFINE f == [g EXCEPT ![n] = Undefined]
             e == [env_expected EXCEPT ![n] = Undefined]
  <2>1. /\ f \in [EnvNames -> Settings] /\ e \in [EnvNames -> Settings]
        /\ env_expected' = e /\ env_open' = env_open \ {n} /\ UNCHANGED env_is_environ
    BY <1>1, <1>4 DEF UnsetEnv, Settings
  <2>2. \A m \in EnvNames : m \notin env_open' => f[m] = e[m]
    BY <1>1, <2>1
  <2>3. Keeps(env', f)
    <3>1. CASE Named(env, n) = {}
      <4>1. env' = env
        BY <1>4, <3>1 DEF UnsetEnv
      <4>2. KeptAs(env, n, Undefined)
        BY <3>1 DEF KeptAs
      <4> QED
        BY <1>1, <4>1, <4>2 DEF Keeps
    <3>2. CASE Named(env, n) # {}
      <4>1. PICK i : Named(env, n) = {i}
        BY <1>1, <3>2 DEF Keeps, KeptAs
      <4>2. First(Named(env, n)) = i
        <5>1. i \in Nat
          BY <1>1, <4>1 DEF Named
        <5> QED
          BY <4>1, <5>1 DEF First
      <4>3. env' = Without(env, i)
        BY <1>4, <3>2, <4>2 DEF UnsetEnv, Without
      <4> QED
        BY <1>1, <4>1, <4>3, WithoutKeeps
    <3> QED
      BY <3>1, <3>2
  <2> QED
    BY <1>3, <2>1, <2>2, <2>3
<1>5. ASSUME NEW n \in EnvNames, NEW v \in EnvValues, NEW overwrite \in BOOLEAN, SetEnv(n, v, overwrite)
      PROVE  EnvironInv'
  <2> DEFINE f == [g EXCEPT ![n] = IF overwrite \/ env_is_environ \/ g[n] = Undefined THEN v ELSE @]
             e == [env_expected EXCEPT ![n] = IF Refused(n, overwrite) THEN @ ELSE v]
  <2>1. n \in STRING /\ v \in EnvText
    BY EnvironAssumption
  <2>2. /\ f \in [EnvNames -> Settings] /\ e \in [EnvNames -> Settings]
        /\ env_expected' = e /\ UNCHANGED env_is_environ /\ env' = SetIn(env, n, v, overwrite)
    BY <1>1, <1>5, <2>1 DEF SetEnv, Settings
  <2>3. Follows(g, n, v, overwrite, f)
    BY <1>1 DEF Follows
  <2>4. ASSUME NEW m \in EnvNames, m \notin env_open' PROVE f[m] = e[m]
    <3>1. /\ f[m] = IF m = n THEN (IF overwrite \/ env_is_environ \/ g[n] = Undefined THEN v ELSE g[n]) ELSE g[m]
          /\ e[m] = IF m = n THEN (IF Refused(n, overwrite) THEN env_expected[n] ELSE v) ELSE env_expected[m]
      BY <1>1
    <3>2. env_open' = IF overwrite THEN env_open \ {n}
                      ELSE env_open \cup {k \in {n} : env_is_environ /\ Refused(k, overwrite)}
      BY <1>5 DEF SetEnv
    <3> HIDE DEF f, e
    <3>3. CASE m # n
      <4>1. m \notin env_open
        BY <2>4, <3>2, <3>3
      <4> QED
        BY <1>1, <3>1, <3>3, <4>1
    <3>4. CASE m = n /\ overwrite
      BY <3>1, <3>4 DEF Refused
    <3>5. CASE m = n /\ ~overwrite
      <4>1. m \notin env_open /\ ~(env_is_environ /\ Refused(n, overwrite))
        BY <2>4, <3>2, <3>5
      <4>2. g[n] = env_expected[n]
        BY <1>1, <3>5, <4>1
      <4> QED
        BY <3>1, <3>5, <4>1, <4>2 DEF Refused
    <3> QED
      BY <3>3, <3>4, <3>5
  <2> HIDE DEF f, e
  <2>5. Keeps(env', f)
    BY <1>1, <2>1, <2>2, <2>3, SetInKeeps
  <2> QED
    BY <1>3, <2>2, <2>4, <2>5
<1>6. ASSUME NEW minor \in Minors, Merge(minor) PROVE EnvironInv'
  <2> DEFINE list == Filled(minor)
             f == [n \in EnvNames |-> FirstValue(g, list, n, Len(list))]
             e == [n \in EnvNames |-> FirstValue(env_expected, list, n, Len(list))]
  <2>1. list \in Seq(SetEntries)
    <3>1. minor \in Seq(Entries)
      BY EnvironAssumption
    <3>2. ASSUME NEW i \in DOMAIN minor
          PROVE  (IF minor[i].value = Undefined THEN Entry(minor[i].name, <<>>) ELSE minor[i]) \in SetEntries
      <4>1. minor[i] \in Entries
        BY <3>1
      <4>2. <<>> \in EnvText
        BY DEF EnvText
      <4> QED
        BY <4>1, <4>2 DEF Entries, SetEntries, Entry
    <3> QED
      BY <3>1, <3>2 DEF Filled
  <2>2. \A n : GivenTo(list, n, Len(list)) = Given(list, n)
    <3> HIDE DEF list
    <3> QED
      BY <2>1 DEF GivenTo, Given
  <2>3. /\ ~env_is_environ /\ env' = SetAll(env, list, FALSE) /\ UNCHANGED env_is_environ
        /\ env_expected' = e /\ env_open' = env_open
    <3>1. env_expected' = [n \in EnvNames |->
           IF env_expected[n] = Undefined /\ Given(list, n) # {} THEN list[First(Given(list, n))].value
                                                                 ELSE env_expected[n]]
      BY <1>6 DEF Merge
    <3> QED
      BY <1>6, <2>2, <3>1 DEF Merge, FirstValue
  <2>4. f \in [EnvNames -> Settings] /\ e \in [EnvNames -> Settings]
    <3> HIDE DEF list
    <3>1. Len(list) \in 0 .. Len(list)
      BY <2>1
    <3>2. \A n \in EnvNames : FirstValue(g, list, n, Len(list)) \in Settings
      BY <1>1, <2>1, <3>1, ValuesTyped
    <3>3. \A n \in EnvNames : FirstValue(env_expected, list, n, Len(list)) \in Settings
      BY <1>1, <2>1, <3>1, ValuesTyped
    <3> QED
      BY <3>2, <3>3
  <2>5. \A n \in EnvNames : f[n] = FirstValue(g, list, n, Len(list))
    OBVIOUS
  <2>6. \A n \in EnvNames : n \notin env_open' => f[n] = e[n]
    <3> HIDE DEF list
    <3> QED
      BY <1>1, <2>3 DEF FirstValue
  <2> HIDE DEF list, f, e
  <2>7. Keeps(env', f)
    BY <1>1, <2>1, <2>3, <2>5, SetAllFirst
  <2> QED
    BY <1>3, <2>3, <2>4, <2>6, <2>7
<1>7. ASSUME NEW list \in EnvLists, ProcessEnvList(list) PROVE EnvironInv'
  <2> DEFINE read == ReadPart(list)
             sent == Resolved(read)
             meant == Meant(read)
             f == [n \in EnvNames |-> LastValue(g, sent, n, Len(sent))]
             e == [n \in EnvNames |-> LastValue(env_expected, meant, n, Len(meant))]
  <2>1. sent \in Seq(SetEntries) /\ meant \in Seq(SetEntries)
    BY ResolvedTyped
  <2>2. \A n : GivenTo(meant, n, Len(meant)) = Given(meant, n)
    <3> HIDE DEF meant
    <3> QED
      BY <2>1 DEF GivenTo, Given
  <2>3. /\ env' = SetAll(env, sent, TRUE) /\ UNCHANGED env_is_environ
        /\ env_expected' = e
    <3>1. env_expected' = [n \in EnvNames |->
           IF Given(meant, n) = {} THEN env_expected[n] ELSE meant[Latest(Given(meant, n))].value]
      BY <1>7 DEF ProcessEnvList
    <3> QED
      BY <1>7, <2>2, <3>1 DEF ProcessEnvList, LastValue
  <2>4. f \in [EnvNames -> Settings] /\ e \in [EnvNames -> Settings]
    <3> HIDE DEF sent, meant
    <3>1. Len(sent) \in 0 .. Len(sent) /\ Len(meant) \in 0 .. Len(meant)
      BY <2>1
    <3>2. \A n \in EnvNames : LastValue(g, sent, n, Len(sent)) \in Settings
      BY <1>1, <2>1, <3>1, ValuesTyped
    <3>3. \A n \in EnvNames : LastValue(env_expected, meant, n, Len(meant)) \in Settings
      BY <1>1, <2>1, <3>1, ValuesTyped
    <3> QED
      BY <3>2, <3>3
  <2>5. \A n \in EnvNames : f[n] = LastValue(g, sent, n, Len(sent))
    OBVIOUS
  <2>6. ASSUME NEW n \in EnvNames, n \notin env_open' PROVE f[n] = e[n]
    <3>1. env_open' = {m \in EnvNames :
             \/ m \in env_open /\ Given(meant, m) = {}
             \/ \E i \in DOMAIN read : Misnamed(read[i]) /\ m \in {read[i].name, Passed(read[i]).name}}
      BY <1>7 DEF ProcessEnvList
    <3>2. /\ \A i \in DOMAIN read : Misnamed(read[i]) => n \notin {read[i].name, Passed(read[i]).name}
          /\ Given(meant, n) = {} => n \notin env_open
      BY <2>6, <3>1
    <3>3. Given(meant, n) = {} => g[n] = env_expected[n]
      BY <1>1, <3>2
    <3>4. LastValue(g, sent, n, Len(sent)) = LastValue(env_expected, meant, n, Len(meant))
      BY <3>2, <3>3, SentAsMeant
    <3> QED
      BY <3>4
  <2> HIDE DEF sent, f, e, meant, read
  <2>7. Keeps(SetAll(env, sent, TRUE), f)
    <3>1. g \in [EnvNames -> Settings] /\ Keeps(env, g) /\ sent \in Seq(SetEntries)
      BY <1>1, <2>1
    <3> QED
      BY <2>5, <3>1, SetAllLast, Zenon
  <2>8. Keeps(env', f)
    BY <2>3, <2>7
  <2> QED
    BY <1>3, <2>3, <2>4, <2>6, <2>8
<1> QED
  BY <1>2, <1>4, <1>5, <1>6, <1>7 DEF EnvironNext

(* In an array that is set, unset and merged, and filled from a list, in any *)
(* order, each name is at most once, with the value that counts but where    *)
(* the code is documented to do something else                               *)
(* (ww_environ.c:40-205, mca_base_var.c:318-388).                            *)
THEOREM EnvironStaysMap == EnvironSpec => []EnvironIsMap
<1>1. EnvironInv => EnvironIsMap
  <2> SUFFICES ASSUME EnvironInv, NEW n \in EnvNames
               PROVE  /\ \A i, j \in Named(env, n) : i = j
                      /\ n \notin env_open => AsDocumented(n)
    BY DEF EnvironIsMap
  <2>1. PICK f \in [EnvNames -> Settings] : Keeps(env, f) /\ Agrees(f, env_expected, env_open)
    BY DEF EnvironInv
  <2>2. KeptAs(env, n, f[n])
    BY <2>1 DEF Keeps
  <2>3. n \notin env_open => f[n] = env_expected[n]
    BY <2>1 DEF Agrees
  <2>4. CASE f[n] = Undefined
    <3>1. Named(env, n) = {}
      BY <2>2, <2>4 DEF KeptAs
    <3> QED
      BY <2>3, <2>4, <3>1 DEF AsDocumented
  <2>5. CASE f[n] # Undefined
    <3>1. PICK i \in DOMAIN env : Named(env, n) = {i} /\ env[i] = Entry(n, f[n])
      BY <2>2, <2>5 DEF KeptAs
    <3>2. {env[j].value : j \in Named(env, n)} = {f[n]}
      BY <3>1 DEF Entry
    <3> QED
      BY <2>3, <2>5, <3>1, <3>2 DEF AsDocumented
  <2> QED
    BY <2>4, <2>5
<1> QED
  BY <1>1, EnvironInit, EnvironStep, PTL DEF EnvironSpec
-----------------------------------------------------------------------------
(* Parts of sequences.                                                       *)
LEMMA OneElement ==
  ASSUME NEW S, NEW e \in S
  PROVE  <<e>> \in Seq(S) /\ Len(<<e>>) = 1 /\ <<e>>[1] = e /\ <<>> \in Seq(S)
OBVIOUS

LEMMA FrontTyped ==
  ASSUME NEW S, NEW s \in Seq(S), NEW m \in Nat, m <= Len(s)
  PROVE  /\ SubSeq(s, 1, m) \in Seq(S) /\ Len(SubSeq(s, 1, m)) = m
         /\ \A i \in 1 .. m : SubSeq(s, 1, m)[i] = s[i]
<1>1. Len(s) \in Nat
  OBVIOUS
<1> QED
  BY <1>1

LEMMA BackTyped ==
  ASSUME NEW S, NEW s \in Seq(S), NEW m \in Nat \ {0}
  PROVE  /\ SubSeq(s, m, Len(s)) \in Seq(S)
         /\ Len(SubSeq(s, m, Len(s))) = IF m <= Len(s) THEN Len(s) - m + 1 ELSE 0
         /\ \A i \in 1 .. Len(s) - m + 1 : SubSeq(s, m, Len(s))[i] = s[m + i - 1]
<1>1. Len(s) \in Nat /\ \A i \in m .. Len(s) : s[i] \in S
  OBVIOUS
<1> QED
  BY <1>1, SubSeqProperties

LEMMA AppendTyped ==
  ASSUME NEW S, NEW s \in Seq(S), NEW e \in S
  PROVE  /\ Append(s, e) \in Seq(S) /\ Len(Append(s, e)) = Len(s) + 1
         /\ \A i \in 1 .. Len(s) : Append(s, e)[i] = s[i]
         /\ Append(s, e)[Len(s) + 1] = e
BY AppendProperties

(* s with the first k of source behind it.                                   *)
Prefixed(s, source, k) == s \o SubSeq(source, 1, k)
LEMMA TakenIs ==
  ASSUME NEW S, NEW s \in Seq(S), NEW source \in Seq(S)
  PROVE  /\ \A k \in 0 .. Len(source) : /\ Prefixed(s, source, k) \in Seq(S)
                                        /\ Len(Prefixed(s, source, k)) = Len(s) + k
         /\ Prefixed(s, source, 0) = s /\ Prefixed(s, source, Len(source)) = s \o source
<1>1. Len(source) \in Nat
  OBVIOUS
<1>2. ASSUME NEW k \in 0 .. Len(source)
      PROVE  Prefixed(s, source, k) \in Seq(S) /\ Len(Prefixed(s, source, k)) = Len(s) + k
  <2>1. k \in Nat /\ k <= Len(source)
    BY <1>1
  <2>2. SubSeq(source, 1, k) \in Seq(S) /\ Len(SubSeq(source, 1, k)) = k
    BY <2>1, FrontTyped
  <2> QED
    BY <2>2, ConcatProperties DEF Prefixed
<1>3. Prefixed(s, source, 0) = s
  <2>1. SubSeq(source, 1, 0) = <<>>
    BY SubSeqEmpty
  <2> QED
    BY <2>1, ConcatEmptySeq DEF Prefixed
<1>4. SubSeq(source, 1, Len(source)) = source
  BY SubSeqFull
<1> QED
  BY <1>2, <1>3, <1>4 DEF Prefixed

Last1(s, e) == Append(s, e)
LEMMA TakenNext ==
  ASSUME NEW S, NEW s \in Seq(S), NEW source \in Seq(S), NEW k \in 1 .. Len(source)
  PROVE  /\ source[k] \in S
         /\ Prefixed(s, source, k) = Last1(Prefixed(s, source, k - 1), source[k])
<1> DEFINE front == SubSeq(source, 1, k - 1)
           e == source[k]
<1>1. Len(source) \in Nat /\ k - 1 \in Nat /\ k - 1 <= Len(source)
  OBVIOUS
<1>2. e \in S
  BY ElementOfSeq
<1>3. front \in Seq(S)
  BY <1>1, FrontTyped
<1>4. SubSeq(source, 1, k) = front \o <<e>>
  <2>1. 1 \in 1 .. Len(source) /\ k \in 1 .. Len(source)
    OBVIOUS
  <2> QED
    BY <2>1, SubSeqRecursiveSecond
<1> HIDE DEF front, e
<1>5. <<e>> \in Seq(S) /\ s \o front \in Seq(S)
  BY <1>2, <1>3, OneElement, ConcatProperties
<1>6. s \o (front \o <<e>>) = (s \o front) \o <<e>>
  BY <1>3, <1>5, ConcatAssociative
<1>7. Append(s \o front, e) = (s \o front) \o <<e>>
  BY <1>2, <1>5, AppendIsConcat
<1> QED
  BY <1>2, <1>4, <1>6, <1>7 DEF Prefixed, Last1, front, e
-----------------------------------------------------------------------------
(* The cells of an array that holds s.                                       *)
Ended(s) == [i \in 1 .. Len(s) + 1 |-> IF i <= Len(s) THEN s[i] ELSE EndMark]
Ends(cells, s) == cells = Ended(s) \/ (cells = <<>> /\ s = <<>>)

LEMMA EndedCells ==
  ASSUME NEW s \in Seq(Args), NEW cells, cells = [i \in 1 .. Len(s) + 1 |-> cells[i]],
         \A i \in 1 .. Len(s) : cells[i] = s[i], cells[Len(s) + 1] = EndMark
  PROVE  cells = Ended(s)
<1>1. Len(s) \in Nat
  OBVIOUS
<1>2. ASSUME NEW i \in 1 .. Len(s) + 1 PROVE cells[i] = IF i <= Len(s) THEN s[i] ELSE EndMark
  <2>1. CASE i <= Len(s)
    <3>1. i \in 1 .. Len(s)
      BY <1>1, <2>1
    <3> QED
      BY <2>1, <3>1
  <2>2. CASE ~(i <= Len(s))
    <3>1. i = Len(s) + 1
      BY <1>1, <2>2
    <3> QED
      BY <2>2, <3>1
  <2> QED
    BY <2>1, <2>2
<1>3. cells = [i \in 1 .. Len(s) + 1 |-> IF i <= Len(s) THEN s[i] ELSE EndMark]
  BY <1>2
<1> QED
  BY <1>3 DEF Ended

LEMMA EndedIs ==
  ASSUME NEW s \in Seq(Args)
  PROVE  /\ Ended(s) \in Seq(Args \cup {EndMark}) /\ Len(Ended(s)) = Len(s) + 1
         /\ DOMAIN Ended(s) = 1 .. Len(s) + 1 /\ Ended(s) # <<>>
         /\ \A i \in 1 .. Len(s) : Ended(s)[i] = s[i] /\ s[i] \in Args /\ s[i] # EndMark
         /\ Ended(s)[Len(s) + 1] = EndMark
<1>1. Len(s) \in Nat /\ \A i \in 1 .. Len(s) : s[i] \in Args /\ s[i] # EndMark
  BY ArgvAssumption
<1>2. \A i \in 1 .. Len(s) + 1 : (IF i <= Len(s) THEN s[i] ELSE EndMark) \in Args \cup {EndMark}
  BY <1>1
<1> DEFINE n == Len(s) + 1
           e(i) == IF i <= Len(s) THEN s[i] ELSE EndMark
<1>3. n \in Nat /\ \A i \in 1 .. n : e(i) \in Args \cup {EndMark}
  BY <1>1, <1>2
<1> HIDE DEF n, e
<1>4. [i \in 1 .. n |-> e(i)] \in Seq(Args \cup {EndMark}) /\ Len([i \in 1 .. n |-> e(i)]) = n
  BY <1>3
<1>5. Ended(s) = [i \in 1 .. n |-> e(i)]
  BY DEF Ended, n, e
<1>6. Ended(s) \in Seq(Args \cup {EndMark}) /\ Len(Ended(s)) = n
  BY <1>4, <1>5
<1>7. DOMAIN Ended(s) = 1 .. n /\ Ended(s) # <<>>
  BY <1>3, <1>6 DEF n
<1>8. \A i \in 1 .. Len(s) : Ended(s)[i] = s[i]
  BY <1>1 DEF Ended
<1>9. Ended(s)[Len(s) + 1] = EndMark
  BY <1>1 DEF Ended
<1> QED
  BY <1>1, <1>6, <1>7, <1>8, <1>9 DEF n

LEMMA CountIs ==
  ASSUME NEW s \in Seq(Args), Ends(argv, s)
  PROVE  Count = Len(s) /\ Strings = s
<1>1. CASE argv = <<>> /\ s = <<>>
  <2>1. Count = 0 /\ Len(s) = 0
    BY <1>1 DEF Count
  <2>2. SubSeq(argv, 1, 0) = <<>>
    BY SubSeqEmpty
  <2> QED
    BY <1>1, <2>1, <2>2 DEF Strings
<1>2. CASE argv = Ended(s)
  <2>1. /\ argv # <<>> /\ DOMAIN argv = 1 .. Len(s) + 1 /\ Len(s) \in Nat
        /\ \A i \in 1 .. Len(s) : argv[i] = s[i] /\ argv[i] # EndMark
        /\ argv[Len(s) + 1] = EndMark /\ argv \in Seq(Args \cup {EndMark}) /\ Len(argv) = Len(s) + 1
    BY <1>2, EndedIs
  <2>2. \A i \in DOMAIN argv : argv[i] = EndMark => i = Len(s) + 1
    BY <2>1
  <2>3. \A j \in 1 .. (Len(s) + 1) - 1 : argv[j] # EndMark
    BY <2>1
  <2>4. Len(s) + 1 \in DOMAIN argv
    BY <2>1
  <2>5. Count = (Len(s) + 1) - 1
    BY <2>1, <2>2, <2>3, <2>4 DEF Count
  <2>6. Count = Len(s)
    BY <2>1, <2>5
  <2>7. /\ SubSeq(argv, 1, Len(s)) \in Seq(Args \cup {EndMark}) /\ Len(SubSeq(argv, 1, Len(s))) = Len(s)
        /\ \A i \in 1 .. Len(s) : SubSeq(argv, 1, Len(s))[i] = argv[i]
    BY <2>1, FrontTyped
  <2>8. s \in Seq(Args \cup {EndMark})
    OBVIOUS
  <2>9. SubSeq(argv, 1, Len(s)) = s
    BY <2>1, <2>7, <2>8, SeqEqual
  <2> QED
    BY <2>6, <2>9 DEF Strings
<1> QED
  BY <1>1, <1>2 DEF Ends

LEMMA AppendedIs ==
  ASSUME NEW s \in Seq(Args), NEW cells, Ends(cells, s), NEW arg \in Args
  PROVE  Appended(cells, Len(s), arg) = Ended(Last1(s, arg)) /\ Last1(s, arg) \in Seq(Args)
<1> DEFINE n == Len(s)
           new == Appended(cells, n, arg)
           t == Append(s, arg)
<1>1. n \in Nat /\ t \in Seq(Args) /\ Len(t) = n + 1 /\ t[n + 1] = arg /\ \A i \in 1 .. n : t[i] = s[i]
  BY AppendTyped
<1>2. \A i \in 1 .. n : i \in DOMAIN cells /\ cells[i] = s[i]
  <2>1. CASE cells = Ended(s)
    BY <1>1, <2>1, EndedIs
  <2>2. CASE cells = <<>> /\ s = <<>>
    BY <2>2
  <2> QED
    BY <2>1, <2>2 DEF Ends
<1>3. new = [i \in 1 .. n + 2 |-> IF i = n + 2 THEN EndMark ELSE IF i = n + 1 THEN arg
                                  ELSE IF i \in DOMAIN cells THEN cells[i] ELSE Unset_]
  BY <1>1 DEF Appended, Realloc
<1> HIDE DEF n, t, new
<1>4. new = [i \in 1 .. Len(t) + 1 |-> new[i]]
  BY <1>1, <1>3
<1>5. ASSUME NEW i \in 1 .. Len(t) PROVE new[i] = t[i]
  <2>1. i \in 1 .. n + 2 /\ i # n + 2 /\ i \in 1 .. n + 1 /\ n + 1 = Len(t)
    BY <1>1
  <2>2. CASE i = n + 1
    BY <1>1, <1>3, <2>1, <2>2
  <2>3. CASE i # n + 1
    <3>1. i \in 1 .. n
      BY <1>1, <2>1, <2>3
    <3>2. new[i] = cells[i]
      BY <1>2, <1>3, <2>1, <2>3, <3>1
    <3> QED
      BY <1>1, <1>2, <3>1, <3>2
  <2> QED
    BY <2>2, <2>3
<1>6. new[Len(t) + 1] = EndMark
  BY <1>1, <1>3
<1>7. new = Ended(t)
  BY <1>1, <1>4, <1>5, <1>6, EndedCells
<1> QED
  BY <1>1, <1>7 DEF new, t, n, Last1

AppendsUp(f, cells, count, source) ==
  f = [k \in 0 .. Len(source) |-> IF k = 0 THEN cells ELSE Appended(f[k - 1], count + k - 1, source[k])]
LEMMA AppendAllIs ==
  ASSUME NEW s \in Seq(Args), NEW source \in Seq(Args)
  PROVE  AppendAll(Ended(s), Len(s), source) = Ended(s \o source) /\ s \o source \in Seq(Args)
<1> DEFINE n == Len(source)
           w == [k \in 0 .. n |-> Ended(Prefixed(s, source, k))]
           f == CHOOSE after : after = [k \in 0 .. Len(source) |->
                  IF k = 0 THEN Ended(s) ELSE Appended(after[k - 1], Len(s) + k - 1, source[k])]
<1>1. AppendAll(Ended(s), Len(s), source) = f[n]
  BY DEF AppendAll
<1>2. (\E v : AppendsUp(v, Ended(s), Len(s), source)) => AppendsUp(f, Ended(s), Len(s), source)
  BY DEF AppendsUp
<1>3. n \in Nat /\ \A k \in 0 .. n : w[k] = Ended(Prefixed(s, source, k))
  OBVIOUS
<1>9. w = [k \in 0 .. n |-> w[k]]
  OBVIOUS
<1> HIDE DEF f, w
<1>4. ASSUME NEW k \in 1 .. n PROVE Appended(Ended(Prefixed(s, source, k - 1)), Len(s) + k - 1, source[k]) = Ended(Prefixed(s, source, k))
  <2> DEFINE t == Prefixed(s, source, k - 1)
  <2>1. k - 1 \in 0 .. Len(source)
    BY <1>3
  <2>2. t \in Seq(Args) /\ Len(t) = Len(s) + (k - 1)
    BY <2>1, TakenIs
  <2>7. k \in 1 .. Len(source)
    OBVIOUS
  <2>3. source[k] \in Args /\ Prefixed(s, source, k) = Last1(t, source[k])
    BY <2>7, TakenNext
  <2> HIDE DEF t
  <2>4. Ends(Ended(t), t)
    BY DEF Ends
  <2>5. Appended(Ended(t), Len(t), source[k]) = Ended(Last1(t, source[k]))
    BY <2>2, <2>3, <2>4, AppendedIs
  <2>6. Len(t) = Len(s) + k - 1
    BY <2>2, <1>3
  <2> QED
    BY <2>3, <2>5, <2>6 DEF t
<1>5. ASSUME NEW k \in 0 .. n
      PROVE  w[k] = IF k = 0 THEN Ended(s) ELSE Appended(w[k - 1], Len(s) + k - 1, source[k])
  <2>1. CASE k = 0
    BY <1>3, <2>1, TakenIs
  <2>2. CASE k # 0
    <3>1. k \in 1 .. n /\ k - 1 \in 0 .. n
      BY <1>3, <2>2
    <3> QED
      BY <1>3, <1>4, <2>2, <3>1
  <2> QED
    BY <2>1, <2>2
<1>6. AppendsUp(f, Ended(s), Len(s), source)
  <2>1. w = [k \in 0 .. n |-> IF k = 0 THEN Ended(s) ELSE Appended(w[k - 1], Len(s) + k - 1, source[k])]
    BY <1>5, <1>9
  <2>2. AppendsUp(w, Ended(s), Len(s), source)
    BY <2>1 DEF AppendsUp
  <2> QED
    BY <1>2, <2>2
<1>7. f = [k \in 0 .. n |-> IF k = 0 THEN Ended(s) ELSE Appended(f[k - 1], Len(s) + k - 1, source[k])]
  BY <1>6 DEF AppendsUp
<1>8. f[n] = w[n]
  <2> DEFINE R == {k \in 0 .. n : f[k] = w[k]}
  <2>1. 0 \in R
    BY <1>3, <1>5, <1>7
  <2>2. ASSUME NEW k \in 1 .. n, k - 1 \in R PROVE k \in R
    <3>1. k \in 0 .. n /\ k # 0 /\ f[k - 1] = w[k - 1]
      BY <2>2
    <3> QED
      BY <1>5, <1>7, <3>1
  <2>3. R \in SUBSET (0 .. n)
    OBVIOUS
  <2>4. n \in R
    <3> HIDE DEF R, n
    <3> QED
      BY <1>3, <2>1, <2>2, <2>3, CountedUp
  <2> QED
    BY <2>4
<1>10. n \in 0 .. n /\ Prefixed(s, source, n) = s \o source
  BY <1>3, TakenIs
<1>11. s \o source \in Seq(Args)
  BY ConcatProperties
<1> QED
  BY <1>1, <1>3, <1>8, <1>10, <1>11
-----------------------------------------------------------------------------
ArgvInv ==
  /\ av_expected \in Seq(Args) /\ Ends(argv, av_expected)
  /\ argc \in Int /\ argc <= Len(av_expected)

LEMMA ConcatTyped ==
  ASSUME NEW S, NEW s \in Seq(S), NEW t \in Seq(S)
  PROVE  /\ s \o t \in Seq(S) /\ Len(s \o t) = Len(s) + Len(t)
         /\ \A i \in 1 .. Len(s) : (s \o t)[i] = s[i]
         /\ \A i \in Len(s) + 1 .. Len(s) + Len(t) : (s \o t)[i] = t[i - Len(s)]
<1>1. /\ s \o t \in Seq(S) /\ Len(s \o t) = Len(s) + Len(t)
      /\ \A i \in 1 .. Len(s) + Len(t) : (s \o t)[i] = IF i <= Len(s) THEN s[i] ELSE t[i - Len(s)]
  BY ConcatProperties
<1>2. Len(s) \in Nat /\ Len(t) \in Nat
  OBVIOUS
<1>3. \A i \in 1 .. Len(s) : i \in 1 .. Len(s) + Len(t) /\ i <= Len(s)
  BY <1>2
<1>4. \A i \in Len(s) + 1 .. Len(s) + Len(t) : i \in 1 .. Len(s) + Len(t) /\ ~(i <= Len(s))
  BY <1>2
<1> QED
  BY <1>1, <1>3, <1>4

(* Deleting from s what is at start, and inserting source there.             *)
CellsDeleted(s, start, num, suffix) ==
  [i \in 1 .. start + suffix + 1 |->
     IF i <= start THEN Ended(s)[i] ELSE IF i = start + suffix + 1 THEN EndMark ELSE Ended(s)[i + num]]
Rest(s, start, num) == IF Len(s) - (start + num) < 0 THEN 0 ELSE Len(s) - (start + num)
Deleted(s, start, num) == SubSeq(s, 1, start) \o SubSeq(s, start + num + 1, Len(s))

LEMMA DeletedElements ==
  ASSUME NEW s \in Seq(Args), NEW start \in Nat, start <= Len(s), NEW num \in Nat \ {0}, NEW suffix \in Nat,
         suffix = Rest(s, start, num)
  PROVE  /\ Deleted(s, start, num) \in Seq(Args) /\ Len(Deleted(s, start, num)) = start + suffix
         /\ \A i \in 1 .. start : Deleted(s, start, num)[i] = s[i]
         /\ \A i \in start + 1 .. start + suffix : Deleted(s, start, num)[i] = s[i + num]
<1> DEFINE n == Len(s)
           low == SubSeq(s, 1, start)
           high == SubSeq(s, start + num + 1, Len(s))
           t == Deleted(s, start, num)
<1>1. n \in Nat
  OBVIOUS
<1>2. low \in Seq(Args) /\ Len(low) = start /\ \A i \in 1 .. start : low[i] = s[i]
  BY FrontTyped
<1>3. /\ high \in Seq(Args)
      /\ Len(high) = IF start + num + 1 <= n THEN n - (start + num + 1) + 1 ELSE 0
      /\ \A i \in 1 .. n - (start + num + 1) + 1 : high[i] = s[start + num + 1 + i - 1]
  <2>1. start + num + 1 \in Nat \ {0}
    OBVIOUS
  <2> QED
    BY <2>1, BackTyped
<1>4. t = low \o high
  BY DEF Deleted
<1>9. start <= n /\ suffix = IF n - (start + num) < 0 THEN 0 ELSE n - (start + num)
  BY DEF Rest
<1> HIDE DEF low, high, t, n
<1>5. Len(high) = suffix
  BY <1>1, <1>3, <1>9
<1>6. /\ t \in Seq(Args) /\ Len(t) = start + suffix
      /\ \A i \in 1 .. start : t[i] = low[i]
      /\ \A i \in start + 1 .. start + suffix : t[i] = high[i - start]
  <2>1. /\ low \o high \in Seq(Args) /\ Len(low \o high) = Len(low) + Len(high)
        /\ \A i \in 1 .. Len(low) : (low \o high)[i] = low[i]
        /\ \A i \in Len(low) + 1 .. Len(low) + Len(high) : (low \o high)[i] = high[i - Len(low)]
    BY <1>2, <1>3, ConcatTyped
  <2>2. Len(low) = start /\ Len(high) = suffix
    BY <1>2, <1>5
  <2> QED
    BY <1>4, <2>1, <2>2
<1>7. ASSUME NEW i \in start + 1 .. start + suffix PROVE t[i] = s[i + num]
  <2>1. i - start \in 1 .. n - (start + num + 1) + 1 /\ start + num + 1 + (i - start) - 1 = i + num
    BY <1>1, <1>9
  <2> QED
    BY <1>3, <1>6, <2>1
<1>8. ASSUME NEW i \in 1 .. start PROVE t[i] = s[i]
  BY <1>2, <1>6
<1> QED
  BY <1>6, <1>7, <1>8 DEF t

LEMMA DeletedCells ==
  ASSUME NEW s \in Seq(Args), NEW start \in Nat, start <= Len(s), NEW num \in Nat \ {0}, NEW suffix \in Nat,
         suffix = Rest(s, start, num)
  PROVE  CellsDeleted(s, start, num, suffix) = Ended(Deleted(s, start, num))
<1> DEFINE n == Len(s)
           t == Deleted(s, start, num)
           cells == CellsDeleted(s, start, num, suffix)
<1>1. n \in Nat /\ \A i \in 1 .. n : Ended(s)[i] = s[i]
  BY EndedIs
<1>2. /\ t \in Seq(Args) /\ Len(t) = start + suffix
      /\ \A i \in 1 .. start : t[i] = s[i]
      /\ \A i \in start + 1 .. start + suffix : t[i] = s[i + num]
  BY DeletedElements
<1>3. /\ \A i \in 1 .. start + suffix + 1 :
           cells[i] = IF i <= start THEN Ended(s)[i] ELSE IF i = start + suffix + 1 THEN EndMark ELSE Ended(s)[i + num]
      /\ cells = [i \in 1 .. start + suffix + 1 |-> cells[i]]
  BY DEF CellsDeleted
<1>4. start <= n /\ suffix = IF n - (start + num) < 0 THEN 0 ELSE n - (start + num)
  BY DEF Rest
<1> HIDE DEF n, t, cells
<1>7. ASSUME NEW i \in 1 .. Len(t) PROVE cells[i] = t[i]
  <2>0. i \in 1 .. start + suffix + 1 /\ i # start + suffix + 1
    BY <1>2
  <2>1. CASE i <= start
    <3>1. i \in 1 .. start /\ i \in 1 .. n
      BY <1>1, <1>2, <1>4, <2>1
    <3>2. cells[i] = Ended(s)[i]
      BY <1>3, <2>0, <2>1
    <3> QED
      BY <1>1, <1>2, <3>1, <3>2
  <2>2. CASE ~(i <= start)
    <3>1. i \in start + 1 .. start + suffix /\ i + num \in 1 .. n
      BY <1>1, <1>2, <1>4, <2>2
    <3>2. cells[i] = Ended(s)[i + num]
      BY <1>3, <2>0, <2>2
    <3> QED
      BY <1>1, <1>2, <3>1, <3>2
  <2> QED
    BY <2>1, <2>2
<1>8. cells = [i \in 1 .. Len(t) + 1 |-> cells[i]] /\ cells[Len(t) + 1] = EndMark
  <2>1. Len(t) + 1 \in 1 .. start + suffix + 1 /\ ~(Len(t) + 1 <= start) /\ Len(t) + 1 = start + suffix + 1
    BY <1>2
  <2> QED
    BY <1>3, <2>1
<1>9. cells = Ended(t)
  BY <1>2, <1>7, <1>8, EndedCells
<1> QED
  BY <1>9 DEF cells, t

CellsInserted(s, start, source) ==
  [i \in 1 .. Len(s) + Len(source) + 1 |->
     IF i <= start THEN Ended(s)[i]
     ELSE IF i <= start + Len(source) THEN source[i - start] ELSE Ended(s)[i - Len(source)]]
Inserted(s, start, source) == SubSeq(s, 1, start) \o source \o SubSeq(s, start + 1, Len(s))

LEMMA InsertedElements ==
  ASSUME NEW s \in Seq(Args), NEW source \in Seq(Args), NEW start \in Nat, start <= Len(s)
  PROVE  /\ Inserted(s, start, source) \in Seq(Args) /\ Len(Inserted(s, start, source)) = Len(s) + Len(source)
         /\ \A i \in 1 .. start : Inserted(s, start, source)[i] = s[i]
         /\ \A i \in start + 1 .. start + Len(source) : Inserted(s, start, source)[i] = source[i - start]
         /\ \A i \in start + Len(source) + 1 .. Len(s) + Len(source) :
              Inserted(s, start, source)[i] = s[i - Len(source)]
<1> DEFINE n == Len(s)
           m == Len(source)
           low == SubSeq(s, 1, start)
           mid == low \o source
           high == SubSeq(s, start + 1, Len(s))
           t == Inserted(s, start, source)
<1>1. n \in Nat /\ m \in Nat
  OBVIOUS
<1>2. low \in Seq(Args) /\ Len(low) = start /\ \A i \in 1 .. start : low[i] = s[i]
  BY FrontTyped
<1>3. /\ high \in Seq(Args)
      /\ Len(high) = IF start + 1 <= n THEN n - (start + 1) + 1 ELSE 0
      /\ \A i \in 1 .. n - (start + 1) + 1 : high[i] = s[start + 1 + i - 1]
  <2>1. start + 1 \in Nat \ {0}
    OBVIOUS
  <2> QED
    BY <2>1, BackTyped
<1>4. t = mid \o high
  BY DEF Inserted
<1>5. start <= n
  OBVIOUS
<1> HIDE DEF low
<1>6. /\ mid \in Seq(Args) /\ Len(mid) = start + m
      /\ \A i \in 1 .. start : mid[i] = low[i]
      /\ \A i \in start + 1 .. start + m : mid[i] = source[i - start]
  BY <1>2, ConcatTyped
<1> HIDE DEF mid, high, t, n, m
<1>7. Len(high) = n - start
  BY <1>1, <1>3, <1>5
<1>8. /\ t \in Seq(Args) /\ Len(t) = (start + m) + (n - start)
      /\ \A i \in 1 .. start + m : t[i] = mid[i]
      /\ \A i \in (start + m) + 1 .. (start + m) + (n - start) : t[i] = high[i - (start + m)]
  <2>1. /\ mid \o high \in Seq(Args) /\ Len(mid \o high) = Len(mid) + Len(high)
        /\ \A i \in 1 .. Len(mid) : (mid \o high)[i] = mid[i]
        /\ \A i \in Len(mid) + 1 .. Len(mid) + Len(high) : (mid \o high)[i] = high[i - Len(mid)]
    BY <1>3, <1>6, ConcatTyped
  <2>2. Len(mid) = start + m /\ Len(high) = n - start
    BY <1>6, <1>7
  <2> QED
    BY <1>4, <2>1, <2>2
<1>9. Len(t) = n + m
  BY <1>1, <1>8
<1>10. ASSUME NEW i \in 1 .. start PROVE t[i] = s[i]
  <2>1. i \in 1 .. start + m
    BY <1>1
  <2> QED
    BY <1>2, <1>6, <1>8, <2>1
<1>11. ASSUME NEW i \in start + 1 .. start + m PROVE t[i] = source[i - start]
  <2>1. i \in 1 .. start + m
    BY <1>1
  <2> QED
    BY <1>6, <1>8, <2>1
<1>12. ASSUME NEW i \in start + m + 1 .. n + m PROVE t[i] = s[i - m]
  <2>1. /\ i \in (start + m) + 1 .. (start + m) + (n - start)
        /\ i - (start + m) \in 1 .. n - (start + 1) + 1
        /\ start + 1 + (i - (start + m)) - 1 = i - m
    BY <1>1, <1>5
  <2> QED
    BY <1>3, <1>8, <2>1
<1> QED
  BY <1>8, <1>9, <1>10, <1>11, <1>12 DEF t, n, m

LEMMA InsertedCells ==
  ASSUME NEW s \in Seq(Args), NEW source \in Seq(Args), NEW start \in Nat, start <= Len(s)
  PROVE  CellsInserted(s, start, source) = Ended(Inserted(s, start, source))
<1> DEFINE n == Len(s)
           m == Len(source)
           t == Inserted(s, start, source)
           cells == CellsInserted(s, start, source)
<1>1. n \in Nat /\ m \in Nat /\ (\A i \in 1 .. n : Ended(s)[i] = s[i]) /\ Ended(s)[n + 1] = EndMark
  BY EndedIs
<1>2. /\ t \in Seq(Args) /\ Len(t) = n + m
      /\ \A i \in 1 .. start : t[i] = s[i]
      /\ \A i \in start + 1 .. start + m : t[i] = source[i - start]
      /\ \A i \in start + m + 1 .. n + m : t[i] = s[i - m]
  BY InsertedElements
<1>3. /\ \A i \in 1 .. n + m + 1 :
           cells[i] = IF i <= start THEN Ended(s)[i] ELSE IF i <= start + m THEN source[i - start] ELSE Ended(s)[i - m]
      /\ cells = [i \in 1 .. n + m + 1 |-> cells[i]]
  BY DEF CellsInserted
<1>4. start <= n
  OBVIOUS
<1> HIDE DEF n, m, t, cells
<1>9. ASSUME NEW i \in 1 .. Len(t) PROVE cells[i] = t[i]
  <2>0. i \in 1 .. n + m + 1
    BY <1>1, <1>2
  <2>1. CASE i <= start
    <3>1. i \in 1 .. start /\ i \in 1 .. n
      BY <1>1, <1>2, <1>4, <2>1
    <3>2. cells[i] = Ended(s)[i]
      BY <1>3, <2>0, <2>1
    <3> QED
      BY <1>1, <1>2, <3>1, <3>2
  <2>2. CASE start < i /\ i <= start + m
    <3>1. i \in start + 1 .. start + m /\ ~(i <= start)
      BY <1>1, <1>2, <2>2
    <3>2. cells[i] = source[i - start]
      BY <1>3, <2>0, <2>2, <3>1
    <3> QED
      BY <1>2, <3>1, <3>2
  <2>3. CASE start + m < i
    <3>1. /\ i \in start + m + 1 .. n + m /\ i - m \in 1 .. n
          /\ ~(i <= start) /\ ~(i <= start + m)
      BY <1>1, <1>2, <2>3
    <3>2. cells[i] = Ended(s)[i - m]
      BY <1>3, <2>0, <3>1
    <3> QED
      BY <1>1, <1>2, <3>1, <3>2
  <2> QED
    BY <1>1, <1>2, <2>1, <2>2, <2>3
<1>10. cells = [i \in 1 .. Len(t) + 1 |-> cells[i]] /\ cells[Len(t) + 1] = EndMark
  <2>1. /\ n + m + 1 \in 1 .. n + m + 1 /\ n + m + 1 - m = n + 1
        /\ ~(n + m + 1 <= start) /\ ~(n + m + 1 <= start + m) /\ Len(t) = n + m
    BY <1>1, <1>2, <1>4
  <2>2. cells[n + m + 1] = Ended(s)[n + m + 1 - m]
    <3> DEFINE k == n + m + 1
    <3>1. k \in 1 .. n + m + 1 /\ ~(k <= start) /\ ~(k <= start + m)
      BY <2>1
    <3> HIDE DEF k
    <3>2. cells[k] = Ended(s)[k - m]
      BY <1>3, <3>1
    <3> QED
      BY <1>1, <3>2 DEF k
  <2> QED
    BY <1>1, <1>3, <2>1, <2>2
<1>11. cells = Ended(t)
  BY <1>2, <1>9, <1>10, EndedCells
<1> QED
  BY <1>11 DEF cells, t
-----------------------------------------------------------------------------
LEMMA AppendKeeps == ASSUME ArgvInv, NEW arg \in Args, AppendArg(arg) PROVE ArgvInv'
<1>1. av_expected \in Seq(Args) /\ Ends(argv, av_expected)
  BY DEF ArgvInv
<1>2. Count = Len(av_expected) /\ Len(av_expected) \in Nat
  BY <1>1, CountIs
<1>3. /\ argv' = Appended(argv, Count, arg) /\ argc' = Count + 1
      /\ av_expected' = Last1(av_expected, arg)
  BY DEF AppendArg, Last1
<1>4. argv' = Ended(av_expected') /\ av_expected' \in Seq(Args)
  BY <1>1, <1>2, <1>3, AppendedIs
<1>5. Len(av_expected') = Len(av_expected) + 1
  BY <1>1, <1>3, AppendTyped DEF Last1
<1> QED
  BY <1>2, <1>3, <1>4, <1>5 DEF ArgvInv, Ends

LEMMA AppendUniqueKeeps == ASSUME ArgvInv, NEW arg \in Args, AppendUnique(arg) PROVE ArgvInv'
<1>1. /\ av_expected \in Seq(Args) /\ Ends(argv, av_expected)
      /\ argc \in Int /\ argc <= Len(av_expected)
  BY DEF ArgvInv
<1>2. Count = Len(av_expected) /\ Len(av_expected) \in Nat /\ Strings = av_expected
  BY <1>1, CountIs
<1>3. CASE Contains(av_expected, arg)
  <2>1. argv' = argv /\ argc' = argc + 0 /\ av_expected' = av_expected
    BY <1>2, <1>3 DEF AppendUnique, Recounted
  <2> QED
    BY <1>1, <1>2, <2>1 DEF ArgvInv, Ends
<1>4. CASE ~Contains(av_expected, arg)
  <2>1. /\ argv' = Appended(argv, Count, arg) /\ argc' = argc + 1
        /\ av_expected' = Last1(av_expected, arg)
    BY <1>2, <1>4 DEF AppendUnique, Recounted, Last1
  <2>2. argv' = Ended(av_expected') /\ av_expected' \in Seq(Args)
    BY <1>1, <1>2, <2>1, AppendedIs
  <2>3. Len(av_expected') = Len(av_expected) + 1
    BY <1>1, <2>1, AppendTyped DEF Last1
  <2> QED
    BY <1>1, <1>2, <2>1, <2>2, <2>3 DEF ArgvInv, Ends
<1> QED
  BY <1>3, <1>4

LEMMA PrependKeeps == ASSUME ArgvInv, NEW arg \in Args, PrependArg(arg) PROVE ArgvInv'
<1> DEFINE s == av_expected
           n == Len(s)
           one == <<arg>>
<1>1. s \in Seq(Args) /\ Ends(argv, s) /\ argc \in Int /\ argc <= n
  BY DEF ArgvInv
<1>2. Count = n /\ n \in Nat
  BY <1>1, CountIs
<1>3. one \in Seq(Args) /\ Len(one) = 1 /\ one[1] = arg
  BY OneElement
<1>4. /\ argv' = [i \in 1 .. n + 2 |-> IF i = 1 THEN arg ELSE IF i = n + 2 THEN EndMark ELSE argv[i - 1]]
      /\ argc' = argc + 1 /\ av_expected' = one \o s
  BY <1>2 DEF PrependArg, Recounted
<1>5. /\ \A i \in 1 .. n : argv[i] = Ended(s)[i]
      /\ Ended(s)[n + 1] = EndMark
  <2>1. CASE argv = Ended(s)
    BY <1>1, <2>1, EndedIs
  <2>2. CASE argv = <<>> /\ s = <<>>
    BY <1>1, <2>2, EndedIs
  <2> QED
    BY <1>1, <2>1, <2>2 DEF Ends
<1>6. CellsInserted(s, 0, one) =
        [i \in 1 .. n + 1 + 1 |-> IF i <= 0 THEN Ended(s)[i] ELSE IF i <= 0 + 1 THEN one[i - 0] ELSE Ended(s)[i - 1]]
  BY <1>3 DEF CellsInserted
<1> HIDE DEF n, one, s
<1>7. ASSUME NEW i \in 1 .. n + 2
      PROVE  (IF i = 1 THEN arg ELSE IF i = n + 2 THEN EndMark ELSE argv[i - 1]) =
             (IF i <= 0 THEN Ended(s)[i] ELSE IF i <= 0 + 1 THEN one[i - 0] ELSE Ended(s)[i - 1])
  <2>1. CASE i = 1
    BY <1>3, <2>1
  <2>2. CASE i = n + 2
    <3>1. i # 1 /\ ~(i <= 0) /\ ~(i <= 0 + 1) /\ i - 1 = n + 1
      BY <1>2, <2>2
    <3> QED
      BY <1>5, <2>2, <3>1
  <2>3. CASE i # 1 /\ i # n + 2
    <3>1. ~(i <= 0) /\ ~(i <= 0 + 1) /\ i - 1 \in 1 .. n
      BY <1>2, <2>3
    <3> QED
      BY <1>5, <2>3, <3>1
  <2> QED
    BY <2>1, <2>2, <2>3
<1>8. argv' = CellsInserted(s, 0, one)
  <2>1. n + 1 + 1 = n + 2
    BY <1>2
  <2> QED
    BY <1>4, <1>6, <1>7, <2>1
<1>9. Inserted(s, 0, one) = one \o s
  <2>1. SubSeq(s, 1, 0) = <<>>
    BY SubSeqEmpty
  <2>2. SubSeq(s, 0 + 1, Len(s)) = s
    BY <1>1, SubSeqFull
  <2>3. <<>> \o one = one
    BY <1>3, ConcatEmptySeq
  <2> QED
    BY <2>1, <2>2, <2>3 DEF Inserted
<1>10. argv' = Ended(av_expected')
  <2>1. 0 \in Nat /\ 0 <= Len(s)
    BY <1>2 DEF n
  <2>2. CellsInserted(s, 0, one) = Ended(Inserted(s, 0, one))
    BY <1>1, <1>3, <2>1, InsertedCells
  <2> QED
    BY <1>4, <1>8, <1>9, <2>2
<1>11. av_expected' \in Seq(Args) /\ Len(av_expected') = 1 + n
  <2>1. one \o s \in Seq(Args) /\ Len(one \o s) = Len(one) + Len(s)
    BY <1>1, <1>3, ConcatTyped
  <2> QED
    BY <1>3, <1>4, <2>1 DEF n
<1>12. argc' \in Int /\ argc' <= Len(av_expected')
  BY <1>1, <1>2, <1>4, <1>11
<1> QED
  BY <1>1, <1>4, <1>10, <1>11, <1>12 DEF ArgvInv, Ends

LEMMA DeleteKeeps ==
  ASSUME ArgvInv, NEW start \in Nat, NEW num \in Nat \ {0}, DeleteArgs(start, num)
  PROVE  ArgvInv'
<1> DEFINE s == av_expected
           n == Len(s)
           suffix == Rest(s, start, num)
<1>1. s \in Seq(Args) /\ Ends(argv, s) /\ argc \in Int /\ argc <= n
  BY DEF ArgvInv
<1>2. Count = n /\ n \in Nat
  BY <1>1, CountIs
<1>3. Suffix(start, num) = suffix
  BY <1>2 DEF Suffix, Rest
<1>4. argv = Ended(s)
  BY <1>1 DEF Ends, DeleteArgs
<1>5. start <= n /\ argc' = argc - num
      /\ av_expected' = Deleted(s, start, num)
  BY <1>2 DEF DeleteArgs, Deleted
<1>6. argv' = CellsDeleted(s, start, num, suffix)
  BY <1>3, <1>4 DEF DeleteArgs, CellsDeleted
<1>7. suffix = (IF n - (start + num) < 0 THEN 0 ELSE n - (start + num)) /\ suffix \in Nat
  BY <1>2 DEF Rest
<1>8. argv' = Ended(av_expected') /\ av_expected' \in Seq(Args) /\ Len(av_expected') = start + suffix
  <2>1. start <= Len(s)
    BY <1>5
  <2> HIDE DEF suffix, n, s
  <2>2. suffix = Rest(s, start, num)
    BY DEF suffix
  <2>3. CellsDeleted(s, start, num, suffix) = Ended(Deleted(s, start, num))
    BY <1>1, <1>7, <2>1, <2>2, DeletedCells
  <2>4. Deleted(s, start, num) \in Seq(Args) /\ Len(Deleted(s, start, num)) = start + suffix
    BY <1>1, <1>7, <2>1, <2>2, DeletedElements
  <2> QED
    BY <1>5, <1>6, <2>3, <2>4
<1> HIDE DEF n, suffix
<1>9. argc' \in Int /\ argc' <= Len(av_expected')
  BY <1>1, <1>2, <1>5, <1>7, <1>8
<1> QED
  BY <1>8, <1>9 DEF ArgvInv, Ends

LEMMA InsertKeeps ==
  ASSUME ArgvInv, NEW start \in Nat, NEW source \in Seq(Args), InsertArgs(start, source)
  PROVE  ArgvInv'
<1> DEFINE s == av_expected
           n == Len(s)
           m == Len(source)
           before == IF start > n THEN n ELSE start
<1>1. s \in Seq(Args) /\ Ends(argv, s) /\ argc \in Int /\ argc <= n
  BY DEF ArgvInv
<1>2. Count = n /\ n \in Nat /\ m \in Nat
  BY <1>1, CountIs
<1>3. argv = Ended(s)
  BY <1>1 DEF Ends, InsertArgs
<1>4. argc' = argc + m /\ av_expected' = Inserted(s, before, source)
  BY DEF InsertArgs, Recounted, Inserted
<1>5. before \in Nat /\ before <= n
  BY <1>2
<1>6. av_expected' \in Seq(Args) /\ Len(av_expected') = n + m
  BY <1>1, <1>4, <1>5, InsertedElements
<1>7. argv' = Ended(av_expected')
  <2>1. CASE start > n
    <3>1. argv' = AppendAll(Ended(s), n, source)
      BY <1>2, <1>3, <2>1 DEF InsertArgs
    <3>2. argv' = Ended(s \o source)
      BY <1>1, <3>1, AppendAllIs
    <3>3. SubSeq(s, 1, n) = s
      BY <1>1, SubSeqFull
    <3>4. SubSeq(s, n + 1, n) = <<>>
      BY <1>2, SubSeqEmpty
    <3>5. s \o source \in Seq(Args)
      BY <1>1, ConcatProperties
    <3>6. (s \o source) \o <<>> = s \o source
      BY <3>5, ConcatEmptySeq
    <3>7. Inserted(s, n, source) = s \o source
      BY <3>3, <3>4, <3>6 DEF Inserted
    <3> QED
      BY <1>4, <2>1, <3>2, <3>7
  <2>2. CASE ~(start > n)
    <3>1. argv' = CellsInserted(s, start, source)
      BY <1>2, <1>3, <2>2 DEF InsertArgs, CellsInserted
    <3>2. start <= Len(s) /\ before = start
      BY <1>2, <2>2
    <3>3. CellsInserted(s, start, source) = Ended(Inserted(s, start, source))
      BY <1>1, <3>2, InsertedCells
    <3> QED
      BY <1>4, <3>1, <3>2, <3>3
  <2> QED
    BY <2>1, <2>2
<1> HIDE DEF n, m
<1>8. argc' \in Int /\ argc' <= Len(av_expected')
  BY <1>1, <1>2, <1>4, <1>6
<1> QED
  BY <1>1, <1>4, <1>6, <1>7, <1>8 DEF ArgvInv, Ends

LEMMA InsertElementKeeps ==
  ASSUME ArgvInv, NEW location \in Nat, NEW arg \in Args, InsertElement(location, arg)
  PROVE  ArgvInv'
<1> DEFINE s == av_expected
           n == Len(s)
           one == <<arg>>
           before == IF location > n THEN n ELSE location
<1>1. s \in Seq(Args) /\ Ends(argv, s) /\ argc \in Int /\ argc <= n
  BY DEF ArgvInv
<1>2. Count = n /\ n \in Nat
  BY <1>1, CountIs
<1>3. argv = Ended(s)
  BY <1>1 DEF Ends, InsertElement
<1>4. one \in Seq(Args) /\ Len(one) = 1 /\ one[1] = arg
  BY OneElement
<1>5. before \in Nat /\ before <= n
  BY <1>2
<1>6. argc' = argc + 1 /\ av_expected' = InsertAt(s, before + 1, arg)
  BY DEF InsertElement, Recounted
<1>7. InsertAt(s, before + 1, arg) = Inserted(s, before, one)
  <2> DEFINE i == before + 1
  <2> HIDE DEF before, n, s
  <2>1. i - 1 = before
    BY <1>5
  <2> HIDE DEF i
  <2>2. InsertAt(s, i, arg) = SubSeq(s, 1, i - 1) \o one \o SubSeq(s, i, Len(s))
    BY DEF InsertAt
  <2>3. InsertAt(s, i, arg) = SubSeq(s, 1, before) \o one \o SubSeq(s, i, Len(s))
    BY <2>1, <2>2
  <2>4. Inserted(s, before, one) = SubSeq(s, 1, before) \o one \o SubSeq(s, i, Len(s))
    BY DEF Inserted, i
  <2>5. InsertAt(s, i, arg) = Inserted(s, before, one)
    BY <2>3, <2>4
  <2> QED
    BY <2>5 DEF i
<1>8. av_expected' \in Seq(Args) /\ Len(av_expected') = n + 1
  <2> HIDE DEF one, before, s
  <2>1. before \in Nat /\ before <= Len(s)
    BY <1>5
  <2>2. Inserted(s, before, one) \in Seq(Args) /\ Len(Inserted(s, before, one)) = Len(s) + Len(one)
    BY <1>1, <1>4, <2>1, InsertedElements
  <2> QED
    BY <1>4, <1>6, <1>7, <2>2
<1>9. argv' = Ended(av_expected')
  <2>1. CASE location > n
    <3>1. argv' = Appended(argv, n, arg)
      BY <1>2, <2>1 DEF InsertElement
    <3>2. argv' = Ended(Last1(s, arg))
      BY <1>1, <3>1, AppendedIs
    <3>3. SubSeq(s, 1, n) = s
      BY <1>1, SubSeqFull
    <3>4. SubSeq(s, n + 1, n) = <<>>
      BY <1>2, SubSeqEmpty
    <3>5. s \o one \in Seq(Args)
      BY <1>1, <1>4, ConcatProperties
    <3>6. (s \o one) \o <<>> = s \o one
      BY <3>5, ConcatEmptySeq
    <3>7. Inserted(s, n, one) = s \o one
      BY <3>3, <3>4, <3>6 DEF Inserted
    <3>8. Last1(s, arg) = s \o one
      BY <1>1, AppendIsConcat DEF Last1
    <3> QED
      BY <1>6, <1>7, <2>1, <3>2, <3>7, <3>8
  <2>2. CASE ~(location > n)
    <3>1. location <= n /\ before = location
      BY <1>2, <2>2
    <3>2. argv' = [i \in 1 .. n + 2 |-> IF i <= location THEN Ended(s)[i]
                                         ELSE IF i = location + 1 THEN arg ELSE Ended(s)[i - 1]]
      BY <1>2, <1>3, <2>2 DEF InsertElement
    <3>3. CellsInserted(s, location, one) =
            [i \in 1 .. n + 1 + 1 |-> IF i <= location THEN Ended(s)[i]
                                       ELSE IF i <= location + 1 THEN one[i - location] ELSE Ended(s)[i - 1]]
      BY <1>4 DEF CellsInserted
    <3> HIDE DEF n, one, s, before
    <3>4. ASSUME NEW i \in 1 .. n + 2
          PROVE  (IF i <= location THEN Ended(s)[i] ELSE IF i = location + 1 THEN arg ELSE Ended(s)[i - 1]) =
                 (IF i <= location THEN Ended(s)[i]
                  ELSE IF i <= location + 1 THEN one[i - location] ELSE Ended(s)[i - 1])
      <4>1. CASE i = location + 1
        <5>1. i - location = 1 /\ i <= location + 1 /\ ~(i <= location)
          BY <4>1
        <5> QED
          BY <1>4, <4>1, <5>1
      <4>2. CASE i # location + 1
        <5>1. i <= location <=> i <= location + 1
          BY <4>2
        <5> QED
          BY <4>2, <5>1
      <4> QED
        BY <4>1, <4>2
    <3>5. argv' = CellsInserted(s, location, one)
      <4>1. n + 1 + 1 = n + 2
        BY <1>2
      <4> QED
        BY <3>2, <3>3, <3>4, <4>1
    <3>6. location <= Len(s)
      BY <3>1 DEF n
    <3>7. CellsInserted(s, location, one) = Ended(Inserted(s, location, one))
      BY <1>1, <1>4, <3>6, InsertedCells
    <3> QED
      BY <1>6, <1>7, <3>1, <3>5, <3>7
  <2> QED
    BY <2>1, <2>2
<1> HIDE DEF n
<1>10. argc' \in Int /\ argc' <= Len(av_expected')
  BY <1>1, <1>2, <1>6, <1>8
<1> QED
  BY <1>1, <1>6, <1>8, <1>9, <1>10 DEF ArgvInv, Ends

LEMMA ArgvStep == ArgvInv /\ [ArgvNext]_av_vars => ArgvInv'
<1> SUFFICES ASSUME ArgvInv, [ArgvNext]_av_vars PROVE ArgvInv'
  OBVIOUS
<1>1. CASE UNCHANGED av_vars
  BY <1>1 DEF ArgvInv, Ends, av_vars
<1>2. CASE FreeArgv
  <2>1. Len(<<>>) = 0
    OBVIOUS
  <2> QED
    BY <1>2, <2>1 DEF ArgvInv, Ends, FreeArgv
<1>3. ASSUME NEW arg \in Args, AppendArg(arg) PROVE ArgvInv'
  BY <1>3, AppendKeeps
<1>4. ASSUME NEW arg \in Args, PrependArg(arg) PROVE ArgvInv'
  BY <1>4, PrependKeeps
<1>5. ASSUME NEW arg \in Args, AppendUnique(arg) PROVE ArgvInv'
  BY <1>5, AppendUniqueKeeps
<1>6. ASSUME NEW arg \in Args, NEW at \in 0 .. MaxArgs, InsertElement(at, arg) PROVE ArgvInv'
  <2>1. at \in Nat
    BY ArgvAssumption
  <2> QED
    BY <1>6, <2>1, InsertElementKeeps
<1>7. ASSUME NEW start \in 0 .. MaxArgs, NEW num \in 1 .. 2, DeleteArgs(start, num) PROVE ArgvInv'
  <2>1. start \in Nat /\ num \in Nat \ {0}
    BY ArgvAssumption
  <2> QED
    BY <1>7, <2>1, DeleteKeeps
<1>8. ASSUME NEW start \in 0 .. MaxArgs, NEW source \in TupleOf(Args, 2), InsertArgs(start, source) PROVE ArgvInv'
  <2>1. start \in Nat
    BY ArgvAssumption
  <2>2. source \in Seq(Args)
    <3>1. source \in [1 .. 2 -> Args] /\ 2 \in Nat
      BY DEF TupleOf
    <3> QED
      BY <3>1, SeqDef
  <2> QED
    BY <1>8, <2>1, <2>2, InsertKeeps
<1> QED
  BY <1>1, <1>2, <1>3, <1>4, <1>5, <1>6, <1>7, <1>8 DEF ArgvNext
-----------------------------------------------------------------------------
(* Splitting, one character after the other.                                 *)
Chars  == STRING
Plain  == STRING \ {Delimiter}
ArgTexts  == Seq(Chars)
Splits == [args : Seq(ArgTexts), piece : ArgTexts]

LEMMA CharFacts ==
  /\ Delimiter \in Chars /\ Args \subseteq Seq(Plain) /\ Args \subseteq ArgTexts
  /\ \A c \in Plain : c \in Chars /\ c # Delimiter
  /\ <<Delimiter>> \in ArgTexts /\ <<>> \in ArgTexts
<1>1. \A c \in Plain : c \in Chars /\ c # Delimiter
  BY DEF Plain, Chars
<1>2. Delimiter \in Chars /\ Args \subseteq Seq(Plain)
  BY ArgvAssumption DEF Plain, Chars
<1>3. ASSUME NEW a \in Args PROVE a \in ArgTexts
  <2>1. a \in Seq(Plain)
    BY <1>2
  <2>2. \A i \in 1 .. Len(a) : a[i] \in Chars
    <3>1. \A i \in 1 .. Len(a) : a[i] \in Plain
      BY <2>1, ElementOfSeq
    <3> QED
      BY <1>1, <3>1
  <2> QED
    BY <2>1, <2>2, SeqMonotonic DEF ArgTexts
<1>4. <<Delimiter>> \in ArgTexts /\ <<>> \in ArgTexts
  BY <1>2, OneElement DEF ArgTexts
<1> QED
  BY <1>1, <1>2, <1>3, <1>4

LEMMA SplitIs ==
  ASSUME NEW args \in Seq(ArgTexts), NEW piece \in ArgTexts
  PROVE  Split(args, piece) \in Splits /\ Split(args, piece).args = args /\ Split(args, piece).piece = piece
BY DEF Split, Splits

LEMMA SplitFields ==
  ASSUME NEW s \in Splits
  PROVE  s.args \in Seq(ArgTexts) /\ s.piece \in ArgTexts
BY DEF Splits

LEMMA SplitCharIs ==
  ASSUME NEW args \in Seq(ArgTexts), NEW piece \in ArgTexts, NEW c \in Chars, NEW ie \in BOOLEAN
  PROVE  /\ SplitChar(Split(args, piece), c, ie) =
              IF c # Delimiter THEN Split(args, Last1(piece, c))
              ELSE IF piece = <<>> /\ ~ie THEN Split(args, <<>>)
              ELSE Split(Last1(args, piece), <<>>)
         /\ SplitChar(Split(args, piece), c, ie) \in Splits
<1>1. Split(args, piece).args = args /\ Split(args, piece).piece = piece
  BY SplitIs
<1>2. Last1(piece, c) \in ArgTexts
  BY AppendTyped DEF Last1, ArgTexts
<1>3. Last1(args, piece) \in Seq(ArgTexts)
  BY AppendTyped DEF Last1
<1>4. <<>> \in ArgTexts
  BY CharFacts
<1>5. /\ Split(args, Last1(piece, c)) \in Splits /\ Split(args, <<>>) \in Splits
      /\ Split(Last1(args, piece), <<>>) \in Splits
  BY <1>2, <1>3, <1>4, SplitIs
<1>6. SplitChar(Split(args, piece), c, ie) =
              IF c # Delimiter THEN Split(args, Last1(piece, c))
              ELSE IF piece = <<>> /\ ~ie THEN Split(args, <<>>)
              ELSE Split(Last1(args, piece), <<>>)
  BY <1>1 DEF SplitChar, Last1
<1> QED
  BY <1>5, <1>6

LEMMA SplitCharTyped ==
  ASSUME NEW s \in Splits, NEW c \in Chars, NEW ie \in BOOLEAN
  PROVE  SplitChar(s, c, ie) \in Splits
<1>1. s.args \in Seq(ArgTexts) /\ s.piece \in ArgTexts
  BY SplitFields
<1>2. s = Split(s.args, s.piece)
  BY DEF Splits, Split
<1>3. SplitChar(Split(s.args, s.piece), c, ie) \in Splits
  BY <1>1, SplitCharIs
<1> QED
  BY <1>2, <1>3

SplitsUp(f, text, ie) ==
  f = [k \in 0 .. Len(text) |-> IF k = 0 THEN Split(<<>>, <<>>) ELSE SplitChar(f[k - 1], text[k], ie)]
AllSplits(text, ie) == CHOOSE f : SplitsUp(f, text, ie)
SplitOf(text, ie) == AllSplits(text, ie)[Len(text)]

LEMMA SplitsExist ==
  ASSUME NEW text \in ArgTexts, NEW ie \in BOOLEAN
  PROVE  /\ AllSplits(text, ie)[0] = Split(<<>>, <<>>)
         /\ \A k \in 1 .. Len(text) : AllSplits(text, ie)[k] = SplitChar(AllSplits(text, ie)[k - 1], text[k], ie)
         /\ \A k \in 0 .. Len(text) : AllSplits(text, ie)[k] \in Splits
<1> DEFINE n == Len(text)
           base == Split(<<>>, <<>>)
           step == [k \in 1 .. n |-> [s \in Splits |-> SplitChar(s, text[k], ie)]]
           f == AllSplits(text, ie)
<1>1. n \in Nat /\ \A k \in 1 .. n : text[k] \in Chars
  <2>1. text \in Seq(Chars)
    BY DEF ArgTexts
  <2>2. \A k \in 1 .. Len(text) : text[k] \in Chars
    BY <2>1, ElementOfSeq
  <2> QED
    BY <2>1, <2>2
<1>2. base \in Splits
  <2>1. <<>> \in ArgTexts /\ <<>> \in Seq(ArgTexts)
    BY CharFacts
  <2> QED
    BY <2>1, SplitIs
<1>3. \A k \in 1 .. n : \A s \in Splits : SplitChar(s, text[k], ie) \in Splits
  BY <1>1, SplitCharTyped
<1>4. step \in [1 .. n -> [Splits -> Splits]] /\ \A k \in 1 .. n : \A s \in Splits : step[k][s] = SplitChar(s, text[k], ie)
  BY <1>3
<1> HIDE DEF n, base, step, f
<1>5. PICK w : Iterates(w, base, step, n) /\ \A k \in 0 .. n : w[k] \in Splits
  BY <1>1, <1>2, <1>4, IteratesWithin
<1>6. ASSUME NEW k \in 0 .. n PROVE w[k] = IF k = 0 THEN base ELSE SplitChar(w[k - 1], text[k], ie)
  <2>1. CASE k = 0
    BY <1>5, <2>1 DEF Iterates
  <2>2. CASE k # 0
    <3>1. k \in 1 .. n /\ k - 1 \in 0 .. n
      BY <1>1, <2>2
    <3>2. w[k] = step[k][w[k - 1]]
      BY <1>5, <3>1 DEF Iterates
    <3> QED
      BY <1>4, <1>5, <2>2, <3>1, <3>2
  <2> QED
    BY <2>1, <2>2
<1>7. w = [k \in 0 .. n |-> w[k]]
  BY <1>5 DEF Iterates
<1>8. SplitsUp(w, text, ie)
  <2>1. w = [k \in 0 .. n |-> IF k = 0 THEN base ELSE SplitChar(w[k - 1], text[k], ie)]
    BY <1>6, <1>7
  <2> QED
    BY <2>1 DEF SplitsUp, n, base
<1>9. SplitsUp(f, text, ie)
  BY <1>8 DEF AllSplits, f
<1>10. f = [k \in 0 .. n |-> IF k = 0 THEN base ELSE SplitChar(f[k - 1], text[k], ie)]
  BY <1>9 DEF SplitsUp, n, base
<1>11. \A k \in 0 .. n : f[k] = IF k = 0 THEN base ELSE SplitChar(f[k - 1], text[k], ie)
  BY <1>10
<1>12. f[0] = base
  BY <1>1, <1>11
<1>13. \A k \in 1 .. n : f[k] = SplitChar(f[k - 1], text[k], ie)
  <2>1. \A k \in 1 .. n : k \in 0 .. n /\ k # 0
    BY <1>1
  <2> QED
    BY <1>11, <2>1
<1>14. \A k \in 0 .. n : f[k] \in Splits
  <2> DEFINE R == {k \in 0 .. n : \A j \in 0 .. k : f[j] \in Splits}
  <2>1. 0 \in R
    BY <1>1, <1>2, <1>12
  <2>2. ASSUME NEW k \in 1 .. n, k - 1 \in R PROVE k \in R
    <3>1. k \in 0 .. n /\ k - 1 \in 0 .. k - 1 /\ \A j \in 0 .. k : j \in 0 .. k - 1 \/ j = k
      BY <1>1
    <3>2. f[k - 1] \in Splits
      BY <2>2, <3>1
    <3>3. f[k] \in Splits
      BY <1>3, <1>13, <3>2
    <3> QED
      BY <2>2, <3>1, <3>3
  <2>3. R \in SUBSET (0 .. n)
    OBVIOUS
  <2>4. n \in R
    <3> HIDE DEF R
    <3> QED
      BY <1>1, <2>1, <2>2, <2>3, CountedUp
  <2> QED
    BY <2>4
<1> QED
  BY <1>12, <1>13, <1>14 DEF f, n, base

LEMMA SplitNext ==
  ASSUME NEW text \in ArgTexts, NEW c \in Chars, NEW ie \in BOOLEAN
  PROVE  /\ SplitOf(text, ie) \in Splits /\ SplitOf(<<>>, ie) = Split(<<>>, <<>>)
         /\ Last1(text, c) \in ArgTexts
         /\ SplitOf(Last1(text, c), ie) = SplitChar(SplitOf(text, ie), c, ie)
<1> DEFINE n == Len(text)
           t == Last1(text, c)
           f == AllSplits(text, ie)
           g == AllSplits(t, ie)
<1>1. text \in Seq(Chars) /\ n \in Nat
  BY DEF ArgTexts
<1>2. t \in Seq(Chars) /\ Len(t) = n + 1 /\ (\A i \in 1 .. n : t[i] = text[i]) /\ t[n + 1] = c
  BY <1>1, AppendTyped DEF Last1
<1>3. t \in ArgTexts
  BY <1>2 DEF ArgTexts
<1>4. /\ f[0] = Split(<<>>, <<>>) /\ \A k \in 1 .. n : f[k] = SplitChar(f[k - 1], text[k], ie)
      /\ \A k \in 0 .. n : f[k] \in Splits
  BY SplitsExist
<1>5. g[0] = Split(<<>>, <<>>) /\ \A k \in 1 .. n + 1 : g[k] = SplitChar(g[k - 1], t[k], ie)
  <2>1. g[0] = Split(<<>>, <<>>) /\ \A k \in 1 .. Len(t) : g[k] = SplitChar(g[k - 1], t[k], ie)
    <3> HIDE DEF t
    <3> QED
      BY <1>3, SplitsExist
  <2> QED
    BY <1>2, <2>1
<1>6. SplitOf(<<>>, ie) = Split(<<>>, <<>>)
  <2>1. <<>> \in ArgTexts /\ Len(<<>>) = 0
    BY CharFacts
  <2> QED
    BY <2>1, SplitsExist DEF SplitOf
<1> HIDE DEF n, t, f, g
<1>7. g[n] = f[n]
  <2> DEFINE R == {k \in 0 .. n : g[k] = f[k]}
  <2>1. 0 \in R
    BY <1>1, <1>4, <1>5
  <2>2. ASSUME NEW k \in 1 .. n, k - 1 \in R PROVE k \in R
    <3>1. k \in 0 .. n /\ k \in 1 .. n + 1 /\ g[k - 1] = f[k - 1]
      BY <1>1, <2>2
    <3> QED
      BY <1>2, <1>4, <1>5, <3>1
  <2>3. R \in SUBSET (0 .. n)
    OBVIOUS
  <2>4. n \in R
    <3> HIDE DEF R
    <3> QED
      BY <1>1, <2>1, <2>2, <2>3, CountedUp
  <2> QED
    BY <2>4
<1>8. SplitOf(text, ie) = f[n] /\ SplitOf(t, ie) = g[n + 1]
  BY <1>2 DEF SplitOf, f, g, n
<1>9. f[n] \in Splits
  BY <1>1, <1>4
<1>10. g[n + 1] = SplitChar(g[n], c, ie)
  <2> DEFINE k == n + 1
  <2>1. k \in 1 .. n + 1 /\ k - 1 = n /\ t[k] = c
    BY <1>1, <1>2
  <2> HIDE DEF k
  <2>2. g[k] = SplitChar(g[k - 1], t[k], ie)
    BY <1>5, <2>1
  <2>3. g[k] = SplitChar(g[n], c, ie)
    BY <2>1, <2>2
  <2> QED
    BY <2>3 DEF k
<1> QED
  BY <1>3, <1>6, <1>7, <1>8, <1>9, <1>10 DEF t

(* A string without the delimiter becomes part of the piece.                 *)
LEMMA SplitArg ==
  ASSUME NEW text \in ArgTexts, NEW arg \in Seq(Plain), NEW ie \in BOOLEAN,
         NEW args \in Seq(ArgTexts), SplitOf(text, ie) = Split(args, <<>>)
  PROVE  arg \in ArgTexts /\ text \o arg \in ArgTexts /\ SplitOf(text \o arg, ie) = Split(args, arg)
<1> DEFINE n == Len(arg)
           R == {k \in 0 .. n : SplitOf(Prefixed(text, arg, k), ie) = Split(args, Prefixed(<<>>, arg, k))}
<1>1. arg \in Seq(Chars) /\ arg \in ArgTexts /\ n \in Nat /\ \A k \in 1 .. n : arg[k] \in Plain
  <2>1. \A i \in 1 .. Len(arg) : arg[i] \in Plain
    BY ElementOfSeq
  <2>2. \A i \in 1 .. Len(arg) : arg[i] \in Chars
    BY <2>1, CharFacts
  <2>3. arg \in Seq(Chars)
    BY <2>2, SeqMonotonic
  <2> QED
    BY <2>1, <2>3 DEF ArgTexts
<1>2. text \in Seq(Chars) /\ <<>> \in Seq(Chars)
  BY DEF ArgTexts
<1>3. /\ Prefixed(text, arg, 0) = text /\ Prefixed(text, arg, n) = text \o arg
      /\ Prefixed(<<>>, arg, 0) = <<>> /\ Prefixed(<<>>, arg, n) = <<>> \o arg
  BY <1>1, <1>2, TakenIs
<1>4. <<>> \o arg = arg
  BY <1>1, ConcatEmptySeq
<1>5. text \o arg \in ArgTexts
  BY <1>1, <1>2, ConcatProperties DEF ArgTexts
<1>6. 0 \in R
  BY <1>1, <1>3
<1>7. ASSUME NEW k \in 1 .. n, k - 1 \in R PROVE k \in R
  <2> DEFINE a == Prefixed(text, arg, k - 1)
             b == Prefixed(<<>>, arg, k - 1)
             c == arg[k]
  <2>1. k - 1 \in 0 .. Len(arg) /\ k \in 1 .. Len(arg) /\ k \in 0 .. n
    BY <1>1
  <2>2. a \in ArgTexts /\ b \in ArgTexts
    BY <1>1, <1>2, <2>1, TakenIs DEF ArgTexts
  <2>3. Prefixed(text, arg, k) = Last1(a, c) /\ Prefixed(<<>>, arg, k) = Last1(b, c)
    BY <1>1, <1>2, <2>1, TakenNext
  <2>4. c \in Chars /\ c # Delimiter
    BY <1>1, CharFacts
  <2>5. SplitOf(a, ie) = Split(args, b)
    BY <1>7
  <2> HIDE DEF a, b, c, R
  <2>6. SplitOf(Last1(a, c), ie) = SplitChar(Split(args, b), c, ie)
    BY <2>2, <2>4, <2>5, SplitNext
  <2>7. SplitChar(Split(args, b), c, ie) = Split(args, Last1(b, c))
    BY <2>2, <2>4, SplitCharIs
  <2>8. SplitOf(Prefixed(text, arg, k), ie) = Split(args, Prefixed(<<>>, arg, k))
    BY <2>3, <2>6, <2>7
  <2> QED
    BY <2>1, <2>8 DEF R
<1>8. R \in SUBSET (0 .. n)
  OBVIOUS
<1>9. n \in R
  <2> HIDE DEF R, n
  <2> QED
    BY <1>1, <1>6, <1>7, <1>8, CountedUp
<1> QED
  BY <1>1, <1>3, <1>4, <1>5, <1>9

Keep(kept, arg, ie) == IF arg = <<>> /\ ~ie THEN kept ELSE Last1(kept, arg)
LEMMA SplitArgEnded ==
  ASSUME NEW text \in ArgTexts, NEW arg \in Args, NEW ie \in BOOLEAN,
         NEW args \in Seq(ArgTexts), SplitOf(text, ie) = Split(args, <<>>)
  PROVE  /\ text \o arg \in ArgTexts /\ text \o arg \o <<Delimiter>> \in ArgTexts
         /\ SplitOf(text \o arg, ie) = Split(args, arg)
         /\ SplitOf(text \o arg \o <<Delimiter>>, ie) = Split(Keep(args, arg, ie), <<>>)
         /\ Keep(args, arg, ie) \in Seq(ArgTexts)
<1>1. arg \in Seq(Plain) /\ arg \in ArgTexts /\ Delimiter \in Chars
  BY CharFacts
<1>2. text \o arg \in ArgTexts /\ SplitOf(text \o arg, ie) = Split(args, arg)
  BY <1>1, SplitArg
<1> DEFINE t == text \o arg
<1> HIDE DEF t
<1>3. t \o <<Delimiter>> = Last1(t, Delimiter)
  <2>1. t \in Seq(Chars)
    BY <1>2 DEF t, ArgTexts
  <2> QED
    BY <1>1, <2>1, AppendIsConcat DEF Last1
<1>4. Last1(t, Delimiter) \in ArgTexts /\ SplitOf(Last1(t, Delimiter), ie) = SplitChar(SplitOf(t, ie), Delimiter, ie)
  BY <1>1, <1>2, SplitNext DEF t
<1>5. SplitChar(Split(args, arg), Delimiter, ie) = Split(Keep(args, arg, ie), <<>>)
  BY <1>1, SplitCharIs DEF Keep
<1>6. Keep(args, arg, ie) \in Seq(ArgTexts)
  BY <1>1, AppendTyped DEF Keep, Last1
<1> QED
  BY <1>2, <1>3, <1>4, <1>5, <1>6 DEF t
-----------------------------------------------------------------------------
(* Joining, one string after the other, and splitting what was joined.       *)
JoinsUp(f, range) ==
  f = [k \in 0 .. Len(range) |-> IF k = 0 THEN <<>> ELSE f[k - 1] \o range[k] \o <<Delimiter>>]
AllJoins(range) == CHOOSE f : JoinsUp(f, range)
Piece(arg) == arg \o <<Delimiter>>
LEMMA JoinsExist ==
  ASSUME NEW range \in Seq(Args)
  PROVE  /\ AllJoins(range)[0] = <<>>
         /\ \A k \in 1 .. Len(range) : AllJoins(range)[k] = AllJoins(range)[k - 1] \o range[k] \o <<Delimiter>>
<1> DEFINE n == Len(range)
           step == [k \in 1 .. n |-> [s \in ArgTexts |-> s \o range[k] \o <<Delimiter>>]]
           f == AllJoins(range)
<1>1. n \in Nat /\ \A k \in 1 .. n : range[k] \in ArgTexts
  <2>1. \A k \in 1 .. Len(range) : range[k] \in Args
    BY ElementOfSeq
  <2> QED
    BY <2>1, CharFacts
<1>2. <<>> \in ArgTexts /\ <<Delimiter>> \in ArgTexts
  BY CharFacts
<1>3. \A k \in 1 .. n : \A s \in ArgTexts : s \o range[k] \o <<Delimiter>> \in ArgTexts
  BY <1>1, <1>2, ConcatProperties DEF ArgTexts
<1>4. /\ step \in [1 .. n -> [ArgTexts -> ArgTexts]]
      /\ \A k \in 1 .. n : \A s \in ArgTexts : step[k][s] = s \o range[k] \o <<Delimiter>>
  BY <1>3
<1> HIDE DEF n, step, f
<1>5. PICK w : Iterates(w, <<>>, step, n) /\ \A k \in 0 .. n : w[k] \in ArgTexts
  BY <1>1, <1>2, <1>4, IteratesWithin
<1>6. ASSUME NEW k \in 0 .. n PROVE w[k] = IF k = 0 THEN <<>> ELSE w[k - 1] \o range[k] \o <<Delimiter>>
  <2>1. CASE k = 0
    BY <1>5, <2>1 DEF Iterates
  <2>2. CASE k # 0
    <3>1. k \in 1 .. n /\ k - 1 \in 0 .. n
      BY <1>1, <2>2
    <3>2. w[k] = step[k][w[k - 1]]
      BY <1>5, <3>1 DEF Iterates
    <3> QED
      BY <1>4, <1>5, <2>2, <3>1, <3>2
  <2> QED
    BY <2>1, <2>2
<1>7. w = [k \in 0 .. n |-> w[k]]
  BY <1>5 DEF Iterates
<1>8. JoinsUp(w, range)
  <2>1. w = [k \in 0 .. n |-> IF k = 0 THEN <<>> ELSE w[k - 1] \o range[k] \o <<Delimiter>>]
    BY <1>6, <1>7
  <2> QED
    BY <2>1 DEF JoinsUp, n
<1>9. JoinsUp(f, range)
  BY <1>8 DEF AllJoins, f
<1>10. f = [k \in 0 .. n |-> IF k = 0 THEN <<>> ELSE f[k - 1] \o range[k] \o <<Delimiter>>]
  BY <1>9 DEF JoinsUp, n
<1>11. \A k \in 0 .. n : f[k] = IF k = 0 THEN <<>> ELSE f[k - 1] \o range[k] \o <<Delimiter>>
  BY <1>10
<1>12. f[0] = <<>>
  BY <1>1, <1>11
<1>13. \A k \in 1 .. n : f[k] = f[k - 1] \o range[k] \o <<Delimiter>>
  <2>1. \A k \in 1 .. n : k \in 0 .. n /\ k # 0
    BY <1>1
  <2> QED
    BY <1>11, <2>1
<1> QED
  BY <1>12, <1>13 DEF f, n

KeepsEach(g, range, ie) ==
  /\ g[0] = <<>>
  /\ \A k \in 1 .. Len(range) : g[k] = Keep(g[k - 1], range[k], ie)

LEMMA JoinSplits ==
  ASSUME NEW range \in Seq(Args), NEW ie \in BOOLEAN, NEW g, KeepsEach(g, range, ie), NEW i \in 0 .. Len(range)
  PROVE  /\ AllJoins(range)[i] \in ArgTexts /\ g[i] \in Seq(ArgTexts)
         /\ SplitOf(AllJoins(range)[i], ie) = Split(g[i], <<>>)
<1> DEFINE n == Len(range)
           f == AllJoins(range)
           Good(k) == f[k] \in ArgTexts /\ g[k] \in Seq(ArgTexts) /\ SplitOf(f[k], ie) = Split(g[k], <<>>)
           R == {k \in 0 .. n : \A j \in 0 .. k : Good(j)}
<1>1. n \in Nat /\ \A k \in 1 .. n : range[k] \in Args
  <2>1. \A k \in 1 .. Len(range) : range[k] \in Args
    BY ElementOfSeq
  <2> QED
    BY <2>1
<1>2. f[0] = <<>> /\ \A k \in 1 .. n : f[k] = f[k - 1] \o range[k] \o <<Delimiter>>
  BY JoinsExist
<1>3. g[0] = <<>> /\ \A k \in 1 .. n : g[k] = Keep(g[k - 1], range[k], ie)
  BY DEF KeepsEach
<1> HIDE DEF f
<1>4. Good(0)
  <2>1. <<>> \in ArgTexts /\ <<>> \in Seq(ArgTexts) /\ Delimiter \in Chars
    BY CharFacts
  <2>2. SplitOf(<<>>, ie) = Split(<<>>, <<>>)
    BY <2>1, SplitNext
  <2> QED
    BY <1>2, <1>3, <2>1, <2>2
<1>5. ASSUME NEW k \in 1 .. n, Good(k - 1) PROVE Good(k)
  <2> DEFINE t == f[k - 1]
             a == g[k - 1]
             e == range[k]
  <2>1. t \in ArgTexts /\ a \in Seq(ArgTexts) /\ SplitOf(t, ie) = Split(a, <<>>) /\ e \in Args
    BY <1>1, <1>5
  <2>2. f[k] = t \o e \o <<Delimiter>> /\ g[k] = Keep(a, e, ie)
    BY <1>2, <1>3
  <2> HIDE DEF t, a, e
  <2>3. t \o e \o <<Delimiter>> \in ArgTexts /\ Keep(a, e, ie) \in Seq(ArgTexts)
    BY <2>1, SplitArgEnded
  <2>4. SplitOf(t \o e \o <<Delimiter>>, ie) = Split(Keep(a, e, ie), <<>>)
    BY <2>1, SplitArgEnded
  <2> QED
    BY <2>2, <2>3, <2>4
<1> HIDE DEF Good
<1>6. 0 \in R
  <2>1. \A j \in 0 .. 0 : j = 0
    OBVIOUS
  <2> QED
    BY <1>1, <1>4, <2>1
<1>7. ASSUME NEW k \in 1 .. n, k - 1 \in R PROVE k \in R
  <2>1. k \in 0 .. n /\ k - 1 \in 0 .. k - 1 /\ \A j \in 0 .. k : j \in 0 .. k - 1 \/ j = k
    BY <1>1
  <2>2. Good(k - 1)
    BY <1>7, <2>1
  <2>3. Good(k)
    BY <1>5, <2>2
  <2> QED
    BY <1>7, <2>1, <2>3
<1>8. R \in SUBSET (0 .. n)
  OBVIOUS
<1>9. n \in R
  <2> HIDE DEF R, n
  <2> QED
    BY <1>1, <1>6, <1>7, <1>8, CountedUp
<1>10. Good(i)
  BY <1>9
<1> QED
  BY <1>10 DEF Good, f

LEMMA LastIsTaken ==
  ASSUME NEW S, NEW t \in Seq(S), NEW e \in S
  PROVE  SubSeq(t \o <<e>>, 1, Len(t \o <<e>>) - 1) = t
<1>1. /\ Append(t, e) \in Seq(S) /\ Len(Append(t, e)) = Len(t) + 1
      /\ \A i \in 1 .. Len(t) : Append(t, e)[i] = t[i]
  BY AppendTyped
<1>2. Append(t, e) = t \o <<e>>
  BY AppendIsConcat
<1> DEFINE u == t \o <<e>>
<1>3. u \in Seq(S) /\ Len(u) = Len(t) + 1 /\ \A i \in 1 .. Len(t) : u[i] = t[i]
  BY <1>1, <1>2
<1> HIDE DEF u
<1>4. Len(t) \in Nat /\ Len(u) - 1 = Len(t)
  BY <1>3
<1>5. /\ SubSeq(u, 1, Len(t)) \in Seq(S) /\ Len(SubSeq(u, 1, Len(t))) = Len(t)
      /\ \A i \in 1 .. Len(t) : SubSeq(u, 1, Len(t))[i] = u[i]
  BY <1>3, <1>4, FrontTyped
<1>6. SubSeq(u, 1, Len(t)) = t
  BY <1>3, <1>5, SeqEqual
<1> QED
  BY <1>4, <1>6 DEF u

(* What is joined from strings of which there is one, split again.           *)
Joined_(range) == SubSeq(AllJoins(range)[Len(range)], 1, Len(AllJoins(range)[Len(range)]) - 1)
LEMMA JoinedSplits ==
  ASSUME NEW range \in Seq(Args), Len(range) > 0, NEW ie \in BOOLEAN, NEW g, KeepsEach(g, range, ie)
  PROVE  Pieces(Joined_(range), ie) = IF range[Len(range)] = <<>> THEN g[Len(range) - 1] ELSE g[Len(range)]
<1> DEFINE n == Len(range)
           t == AllJoins(range)[n - 1]
           a == g[n - 1]
           e == range[n]
           u == t \o e
<1>1. n \in Nat /\ n \in 1 .. n /\ n - 1 \in 0 .. n
  OBVIOUS
<1>2. e \in Args
  BY <1>1, ElementOfSeq
<1>3. AllJoins(range)[n] = t \o e \o <<Delimiter>>
  BY <1>1, JoinsExist
<1>4. t \in ArgTexts /\ a \in Seq(ArgTexts) /\ SplitOf(t, ie) = Split(a, <<>>)
  BY <1>1, JoinSplits
<1>5. g[n] = Keep(a, e, ie)
  BY <1>1 DEF KeepsEach
<1> HIDE DEF t, a, e
<1>6. u \in ArgTexts /\ SplitOf(u, ie) = Split(a, e)
  BY <1>2, <1>4, SplitArgEnded
<1> HIDE DEF u
<1>7. Joined_(range) = u
  <2>1. u \in Seq(Chars) /\ Delimiter \in Chars
    BY <1>6, CharFacts DEF ArgTexts
  <2>2. AllJoins(range)[n] = u \o <<Delimiter>>
    BY <1>3 DEF u
  <2> HIDE DEF n
  <2>3. SubSeq(u \o <<Delimiter>>, 1, Len(u \o <<Delimiter>>) - 1) = u
    BY <2>1, LastIsTaken
  <2> QED
    BY <2>2, <2>3 DEF Joined_, n
<1>8. Split(a, e).args = a /\ Split(a, e).piece = e
  BY <1>2, <1>4, CharFacts, SplitIs
<1>9. Pieces(u, ie) = IF SplitOf(u, ie).piece = <<>> THEN SplitOf(u, ie).args
                      ELSE Append(SplitOf(u, ie).args, SplitOf(u, ie).piece)
  BY DEF Pieces, SplitOf, AllSplits, SplitsUp
<1>10. Pieces(u, ie) = IF e = <<>> THEN a ELSE Last1(a, e)
  BY <1>6, <1>8, <1>9 DEF Last1
<1>11. e # <<>> => g[n] = Last1(a, e)
  BY <1>5 DEF Keep
<1> QED
  BY <1>7, <1>10, <1>11 DEF a, e

KeepsUp(f, range) ==
  f = [k \in 0 .. Len(range) |->
         IF k = 0 THEN <<>> ELSE IF range[k] = <<>> THEN f[k - 1] ELSE Append(f[k - 1], range[k])]
LEMMA NonEmptyKeeps ==
  ASSUME NEW range \in Seq(Args)
  PROVE  \E g : KeepsEach(g, range, FALSE) /\ g[Len(range)] = NonEmpty(range)
<1> DEFINE n == Len(range)
           S == Seq(ArgTexts)
           Step(s, e) == IF e = <<>> THEN s ELSE Append(s, e)
           step == [k \in 1 .. n |-> [s \in S |-> Step(s, range[k])]]
           f == CHOOSE w : KeepsUp(w, range)
<1>1. n \in Nat /\ \A k \in 1 .. n : range[k] \in ArgTexts
  <2>1. \A k \in 1 .. Len(range) : range[k] \in Args
    BY ElementOfSeq
  <2> QED
    BY <2>1, CharFacts
<1>2. <<>> \in S
  OBVIOUS
<1>3. \A e \in ArgTexts : \A s \in S : Step(s, e) \in S
  BY AppendTyped
<1> HIDE DEF Step, S
<1>4. step \in [1 .. n -> [S -> S]] /\ \A k \in 1 .. n : \A s \in S : step[k][s] = Step(s, range[k])
  BY <1>1, <1>3
<1> HIDE DEF n, step, f
<1>5. PICK w : Iterates(w, <<>>, step, n) /\ \A k \in 0 .. n : w[k] \in S
  BY <1>1, <1>2, <1>4, IteratesWithin
<1>6. ASSUME NEW k \in 0 .. n PROVE w[k] = IF k = 0 THEN <<>> ELSE Step(w[k - 1], range[k])
  <2>1. CASE k = 0
    BY <1>5, <2>1 DEF Iterates
  <2>2. CASE k # 0
    <3>1. k \in 1 .. n /\ k - 1 \in 0 .. n
      BY <1>1, <2>2
    <3>2. w[k] = step[k][w[k - 1]]
      BY <1>5, <3>1 DEF Iterates
    <3> QED
      BY <1>4, <1>5, <2>2, <3>1, <3>2
  <2> QED
    BY <2>1, <2>2
<1>7. w = [k \in 0 .. n |-> w[k]]
  BY <1>5 DEF Iterates
<1>8. KeepsUp(w, range)
  <2>1. w = [k \in 0 .. n |-> IF k = 0 THEN <<>> ELSE Step(w[k - 1], range[k])]
    BY <1>6, <1>7
  <2> QED
    BY <2>1 DEF KeepsUp, n, Step
<1>9. KeepsUp(f, range)
  BY <1>8 DEF f
<1>10. f = [k \in 0 .. n |-> IF k = 0 THEN <<>> ELSE Step(f[k - 1], range[k])]
  BY <1>9 DEF KeepsUp, n, Step
<1>11. \A k \in 0 .. n : f[k] = IF k = 0 THEN <<>> ELSE Step(f[k - 1], range[k])
  BY <1>10
<1>12. f[0] = <<>>
  <2>1. 0 \in 0 .. n
    BY <1>1
  <2>2. f[0] = IF 0 = 0 THEN <<>> ELSE Step(f[0 - 1], range[0])
    BY <1>11, <2>1, Zenon
  <2> QED
    BY <2>2
<1>13. ASSUME NEW k \in 1 .. n PROVE f[k] = Keep(f[k - 1], range[k], FALSE)
  <2>1. k \in 0 .. n /\ k # 0
    BY <1>1
  <2>2. f[k] = Step(f[k - 1], range[k])
    BY <1>11, <2>1
  <2> QED
    BY <2>2 DEF Step, Keep, Last1
<1>14. KeepsEach(f, range, FALSE)
  BY <1>12, <1>13 DEF KeepsEach, n
<1>15. NonEmpty(range) = f[n]
  BY DEF NonEmpty, f, KeepsUp, n
<1> QED
  BY <1>14, <1>15 DEF n

LEMMA AllKept ==
  ASSUME NEW range \in Seq(Args)
  PROVE  \E g : /\ KeepsEach(g, range, TRUE)
                /\ \A k \in 0 .. Len(range) : g[k] = SubSeq(range, 1, k)
<1> DEFINE n == Len(range)
           g == [k \in 0 .. n |-> Prefixed(<<>>, range, k)]
<1>1. n \in Nat /\ \A k \in 0 .. n : g[k] = Prefixed(<<>>, range, k)
  OBVIOUS
<1> HIDE DEF g
<1>2. <<>> \in Seq(Args)
  OBVIOUS
<1>3. g[0] = <<>>
  <2>1. 0 \in 0 .. n
    BY <1>1
  <2>2. Prefixed(<<>>, range, 0) = <<>>
    BY <1>2, TakenIs
  <2> QED
    BY <1>1, <2>1, <2>2
<1>4. ASSUME NEW k \in 1 .. n PROVE g[k] = Keep(g[k - 1], range[k], TRUE)
  <2>1. k \in 0 .. n /\ k - 1 \in 0 .. n /\ k \in 1 .. Len(range)
    BY <1>1
  <2>2. Prefixed(<<>>, range, k) = Last1(Prefixed(<<>>, range, k - 1), range[k])
    BY <1>2, <2>1, TakenNext
  <2> QED
    BY <1>1, <2>1, <2>2 DEF Keep
<1>5. ASSUME NEW k \in 0 .. n PROVE g[k] = SubSeq(range, 1, k)
  <2>1. k \in Nat /\ k <= Len(range)
    BY <1>1
  <2>2. SubSeq(range, 1, k) \in Seq(Args)
    BY <2>1, FrontTyped
  <2>3. <<>> \o SubSeq(range, 1, k) = SubSeq(range, 1, k)
    BY <2>2, ConcatEmptySeq
  <2> QED
    BY <1>1, <2>3 DEF Prefixed
<1>6. KeepsEach(g, range, TRUE)
  BY <1>3, <1>4 DEF KeepsEach
<1> QED
  BY <1>5, <1>6

LEMMA CopyIs ==
  ASSUME NEW s \in Seq(Args)
  PROVE  AppendAll(<<EndMark>>, 0, s) = Ended(s)
<1>1. <<>> \in Seq(Args) /\ Len(<<>>) = 0
  OBVIOUS
<1>2. Ended(<<>>) = <<EndMark>>
  <2>1. Ended(<<>>) \in Seq(Args \cup {EndMark}) /\ Len(Ended(<<>>)) = 1 /\ Ended(<<>>)[1] = EndMark
    <3>1. /\ Ended(<<>>) \in Seq(Args \cup {EndMark}) /\ Len(Ended(<<>>)) = Len(<<>>) + 1
          /\ Ended(<<>>)[Len(<<>>) + 1] = EndMark
      BY <1>1, EndedIs
    <3>2. Len(<<>>) + 1 = 1
      BY <1>1
    <3> QED
      BY <3>1, <3>2
  <2>2. <<EndMark>> \in Seq(Args \cup {EndMark}) /\ Len(<<EndMark>>) = 1 /\ <<EndMark>>[1] = EndMark
    <3>1. EndMark \in Args \cup {EndMark}
      OBVIOUS
    <3> QED
      BY <3>1, OneElement
  <2>3. \A i \in 1 .. 1 : i = 1
    OBVIOUS
  <2> HIDE DEF EndMark
  <2> QED
    BY <2>1, <2>2, <2>3, SeqEqual
<1>3. AppendAll(Ended(<<>>), Len(<<>>), s) = Ended(<<>> \o s)
  BY <1>1, AppendAllIs
<1>4. <<>> \o s = s
  BY ConcatEmptySeq
<1> QED
  BY <1>1, <1>2, <1>3, <1>4

LEMMA ArgvIsExact == ArgvInv => ArgvExact
<1> SUFFICES ASSUME ArgvInv PROVE ArgvExact
  OBVIOUS
<1> DEFINE s == av_expected
<1>1. s \in Seq(Args) /\ Ends(argv, s) /\ argc \in Int /\ argc <= Len(s)
  BY DEF ArgvInv
<1>2. Count = Len(s) /\ Strings = s /\ Len(s) \in Nat
  BY <1>1, CountIs
<1>3. ASSUME argv # <<>> PROVE Len(argv) = Count + 1 /\ CopyOf = argv
  <2>1. argv = Ended(s)
    BY <1>1, <1>3 DEF Ends
  <2>2. Len(argv) = Len(s) + 1
    BY <1>1, <2>1, EndedIs
  <2>3. CopyOf = Ended(s)
    BY <1>1, <1>2, CopyIs DEF CopyOf
  <2> QED
    BY <1>2, <2>1, <2>2, <2>3
<1>4. ASSUME NEW start \in 0 .. Count - 1, NEW end \in start + 1 .. Count
      PROVE  LET range == SubSeq(av_expected, start + 1, end)
             IN  /\ Pieces(JoinRange(start, end), FALSE) = NonEmpty(range)
                 /\ Last(range) # <<>> => Pieces(JoinRange(start, end), TRUE) = range
  <2> DEFINE range == SubSeq(s, start + 1, end)
             n == Len(range)
             joined == JoinRange(start, end)
  <2>1. range \in Seq(Args) /\ n = end - start /\ n \in Nat /\ n > 0
    <3>1. /\ start + 1 \in 1 .. Len(s) /\ end \in 1 .. Len(s) /\ start + 1 <= end + 1
          /\ start + 1 \in Int /\ end \in Int /\ start \in Int
      BY <1>2
    <3>2. \A i \in start + 1 .. end : s[i] \in Args
      <4>1. \A i \in start + 1 .. end : i \in 1 .. Len(s)
        BY <1>2, <3>1
      <4> QED
        BY <1>1, <4>1, ElementOfSeq
    <3>3. range \in Seq(Args) /\ n = (IF start + 1 <= end THEN end - (start + 1) + 1 ELSE 0)
      BY <1>1, <3>1, <3>2, SubSeqProperties
    <3> HIDE DEF n
    <3> QED
      BY <3>1, <3>3
  <2>2. joined = Joined_(range)
    BY <1>2 DEF JoinRange, Joined_, AllJoins, JoinsUp
  <2> HIDE DEF range, joined
  <2>3. Pieces(joined, FALSE) = NonEmpty(range)
    <3>1. PICK g : KeepsEach(g, range, FALSE) /\ g[n] = NonEmpty(range)
      BY <2>1, NonEmptyKeeps
    <3>2. Pieces(Joined_(range), FALSE) = IF range[n] = <<>> THEN g[n - 1] ELSE g[n]
      BY <2>1, <3>1, JoinedSplits
    <3>3. range[n] = <<>> => g[n] = g[n - 1]
      <4>1. n \in 1 .. n
        BY <2>1
      <4>2. g[n] = Keep(g[n - 1], range[n], FALSE)
        BY <3>1, <4>1 DEF KeepsEach
      <4> QED
        BY <4>2 DEF Keep
    <3> QED
      BY <2>2, <3>1, <3>2, <3>3
  <2>4. Last(range) # <<>> => Pieces(joined, TRUE) = range
    <3>1. PICK g : KeepsEach(g, range, TRUE) /\ \A k \in 0 .. n : g[k] = SubSeq(range, 1, k)
      BY <2>1, AllKept
    <3>2. Pieces(Joined_(range), TRUE) = IF range[n] = <<>> THEN g[n - 1] ELSE g[n]
      BY <2>1, <3>1, JoinedSplits
    <3>3. n \in 0 .. n
      BY <2>1
    <3>4. g[n] = range
      <4>1. SubSeq(range, 1, n) = range
        BY <2>1, SubSeqFull
      <4> QED
        BY <3>1, <3>3, <4>1
    <3>5. Last(range) = range[n]
      BY DEF Last
    <3> QED
      BY <2>2, <3>2, <3>4, <3>5
  <2> QED
    BY <2>3, <2>4 DEF range, joined
<1> QED
  BY <1>1, <1>2, <1>3, <1>4 DEF ArgvExact

(* Whatever is appended, prepended, inserted, deleted and freed, the array   *)
(* holds the strings it should, ended, beside a count that never runs ahead  *)
(* of it, and any range of them, joined and split again, comes back          *)
(* (argv.c:40-588).                                                          *)
THEOREM StringsStayExact == ArgvSpec => []ArgvExact
<1>1. ArgvInit => ArgvInv
  <2>1. Len(<<>>) = 0
    OBVIOUS
  <2> QED
    BY <2>1 DEF ArgvInit, ArgvInv, Ends
<1>2. ArgvInv /\ [ArgvNext]_av_vars => ArgvInv'
  BY ArgvStep
<1>3. ArgvInv => ArgvExact
  BY ArgvIsExact
<1> QED
  BY <1>1, <1>2, <1>3, PTL DEF ArgvSpec
-----------------------------------------------------------------------------
Pairs == STRING \X STRING
Kept == [var : STRING, value : STRING \cup Seq(Pairs), file : STRING, line : Nat]
(* What a list has of a name.                                                *)
Nowhere == [there |-> "no", value |-> "", file |-> ""]
Said(value, file) == [there |-> "yes", value |-> value, file |-> file]
Says(list, n, c) == IF c.there = "yes" THEN HasOnce(list, n, c.value, {c.file}) ELSE HasNone(list, n)

LEMMA OnceIsSaid ==
  ASSUME NEW list, NEW n, NEW value, NEW file, HasOnce(list, n, value, {file})
  PROVE  Says(list, n, Said(value, file))
<1>1. /\ Said(value, file).there = "yes" /\ Said(value, file).value = value
      /\ Said(value, file).file = file
  BY DEF Said
<1> QED
  BY <1>1 DEF Says

Longer(list, fv) == Append(list, fv)
LEMMA LongerList ==
  ASSUME NEW list \in Seq(Kept), NEW fv \in Kept
  PROVE  /\ Longer(list, fv) \in Seq(Kept)
         /\ Extends(list, fv, Longer(list, fv))
<1>1. /\ Append(list, fv) \in Seq(Kept)
      /\ Len(Append(list, fv)) = Len(list) + 1
      /\ \A j \in 1 .. Len(list) : Append(list, fv)[j] = list[j]
      /\ Append(list, fv)[Len(list) + 1] = fv
  BY AppendProperties
<1>2. DOMAIN Append(list, fv) = 1 .. Len(list) + 1 /\ DOMAIN list = 1 .. Len(list)
      /\ Len(list) \in Nat
  BY <1>1
<1>3. /\ DOMAIN Append(list, fv) = DOMAIN list \cup {Len(list) + 1}
      /\ Len(list) + 1 \notin DOMAIN list
      /\ \A j \in DOMAIN list : Append(list, fv)[j] = list[j]
  BY <1>1, <1>2
<1> QED
  BY <1>1, <1>3 DEF Longer, Extends

Changed(list, fv) == [i \in DOMAIN list |-> IF list[i].var = fv.var THEN fv ELSE list[i]]
LEMMA ChangedList ==
  ASSUME NEW list \in Seq(Kept), NEW fv \in Kept
  PROVE  /\ Changed(list, fv) \in Seq(Kept)
         /\ DOMAIN Changed(list, fv) = DOMAIN list
         /\ \A i \in DOMAIN list : Changed(list, fv)[i] = IF list[i].var = fv.var THEN fv ELSE list[i]
<1> DEFINE n == Len(list)
           e(i) == IF list[i].var = fv.var THEN fv ELSE list[i]
<1>1. n \in Nat /\ DOMAIN list = 1 .. n
  OBVIOUS
<1>2. \A i \in 1 .. n : list[i] \in Kept
  BY ElementOfSeq
<1>3. \A i \in 1 .. n : e(i) \in Kept
  BY <1>2
<1>4. Changed(list, fv) = [i \in 1 .. n |-> e(i)]
  BY <1>1 DEF Changed
<1> HIDE DEF n, e
<1>5. [i \in 1 .. n |-> e(i)] \in Seq(Kept)
  BY <1>1, <1>3
<1>6. DOMAIN Changed(list, fv) = 1 .. n /\ \A i \in 1 .. n : Changed(list, fv)[i] = e(i)
  BY <1>4
<1> QED
  BY <1>1, <1>4, <1>5, <1>6 DEF e

LEMMA SaveValueCases ==
  ASSUME NEW list \in Seq(Kept), NEW fv \in Kept
  PROVE  \/ HasNone(list, fv.var) /\ SaveValue(list, fv) = Longer(list, fv)
         \/ ~HasNone(list, fv.var) /\ SaveValue(list, fv) = Changed(list, fv)
  BY DEF SaveValue, HasNone, Longer, Changed

LEMMA SaveValueTyped ==
  ASSUME NEW list \in Seq(Kept), NEW fv \in Kept
  PROVE  SaveValue(list, fv) \in Seq(Kept)
<1>1. Longer(list, fv) \in Seq(Kept)
  BY LongerList
<1>2. Changed(list, fv) \in Seq(Kept)
  BY ChangedList
<1>3. SaveValue(list, fv) = Longer(list, fv) \/ SaveValue(list, fv) = Changed(list, fv)
  BY SaveValueCases
<1> QED
  BY <1>1, <1>2, <1>3

(* A saved value takes the place of the one there was; others stay.          *)
LEMMA SaveValueSays ==
  ASSUME NEW list \in Seq(Kept), NEW fv \in Kept, NEW c, Says(list, fv.var, c)
  PROVE  Says(SaveValue(list, fv), fv.var, Said(fv.value, fv.file))
<1> DEFINE after == SaveValue(list, fv)
<1>1. CASE HasNone(list, fv.var)
  <2>1. after = Longer(list, fv)
    BY <1>1, SaveValueCases
  <2> HIDE DEF after
  <2>2. Extends(list, fv, after)
    BY <2>1, LongerList
  <2>3. PICK last : /\ DOMAIN after = DOMAIN list \cup {last}
                    /\ last \notin DOMAIN list
                    /\ after[last] = fv
                    /\ \A j \in DOMAIN list : after[j] = list[j]
    BY <2>2 DEF Extends
  <2>4. {j \in DOMAIN after : after[j].var = fv.var} = {last}
    BY <1>1, <2>3 DEF HasNone
  <2>5. HasOnce(after, fv.var, fv.value, {fv.file})
    BY <2>3, <2>4 DEF HasOnce
  <2> QED
    BY <2>5, OnceIsSaid DEF after
<1>2. CASE ~HasNone(list, fv.var)
  <2>1. after = Changed(list, fv)
    BY <1>2, SaveValueCases
  <2> HIDE DEF after
  <2>2. DOMAIN after = DOMAIN list
        /\ \A i \in DOMAIN list : after[i] = IF list[i].var = fv.var THEN fv ELSE list[i]
    BY <2>1, ChangedList
  <2>3. PICK i \in DOMAIN list : {j \in DOMAIN list : list[j].var = fv.var} = {i}
    BY <1>2 DEF Says, HasOnce
  <2>4. {j \in DOMAIN after : after[j].var = fv.var} = {i} /\ after[i] = fv
    BY <2>2, <2>3
  <2>5. HasOnce(after, fv.var, fv.value, {fv.file})
    BY <2>2, <2>4 DEF HasOnce
  <2> QED
    BY <2>5, OnceIsSaid DEF after
<1> QED
  BY <1>1, <1>2

LEMMA SaveValueKeeps ==
  ASSUME NEW list \in Seq(Kept), NEW fv \in Kept, NEW n, n # fv.var, NEW c, Says(list, n, c)
  PROVE  Says(SaveValue(list, fv), n, c)
<1> DEFINE after == SaveValue(list, fv)
<1>0. DOMAIN list \subseteq DOMAIN after
      /\ \A i \in DOMAIN list : list[i].var = n => after[i] = list[i]
  <2>1. CASE HasNone(list, fv.var)
    <3>1. after = Longer(list, fv)
      BY <2>1, SaveValueCases
    <3> HIDE DEF after
    <3>2. Extends(list, fv, after)
      BY <3>1, LongerList
    <3> QED
      BY <3>2 DEF Extends
  <2>2. CASE ~HasNone(list, fv.var)
    <3>1. after = Changed(list, fv)
      BY <2>2, SaveValueCases
    <3> HIDE DEF after
    <3> QED
      BY <3>1, ChangedList
  <2> QED
    BY <2>1, <2>2
<1>1. \A j \in DOMAIN after : after[j].var = n => j \in DOMAIN list /\ list[j].var = n
  <2>1. CASE HasNone(list, fv.var)
    <3>1. after = Longer(list, fv)
      BY <2>1, SaveValueCases
    <3> HIDE DEF after
    <3>2. Extends(list, fv, after)
      BY <3>1, LongerList
    <3> QED
      BY <3>2 DEF Extends
  <2>2. CASE ~HasNone(list, fv.var)
    <3>1. after = Changed(list, fv)
      BY <2>2, SaveValueCases
    <3> HIDE DEF after
    <3> QED
      BY <3>1, ChangedList
  <2> QED
    BY <2>1, <2>2
<1> HIDE DEF after
<1>2. HasNone(list, n) => HasNone(after, n)
  BY <1>1 DEF HasNone
<1>3. ASSUME NEW value, NEW files, HasOnce(list, n, value, files) PROVE HasOnce(after, n, value, files)
  <2>1. PICK i \in DOMAIN list : /\ {j \in DOMAIN list : list[j].var = n} = {i}
                                 /\ list[i].value = value /\ list[i].file \in files
    BY <1>3 DEF HasOnce
  <2>2. i \in DOMAIN after /\ after[i] = list[i]
    BY <1>0, <2>1
  <2>3. {j \in DOMAIN after : after[j].var = n} = {i}
    BY <1>1, <2>1, <2>2
  <2> QED
    BY <2>1, <2>2, <2>3 DEF HasOnce
<1> QED
  BY <1>2, <1>3 DEF Says, after
-----------------------------------------------------------------------------
ParserState == [list : Seq(Kept), lineno : Nat, env : Seq(Pairs)]
WithPair(pairs, item) == Append(pairs, <<item.name, item.value>>)

LEMMA PairTyped ==
  ASSUME NEW pairs \in Seq(Pairs), NEW item \in FileItems
  PROVE  WithPair(pairs, item) \in Seq(Pairs)
<1>1. <<item.name, item.value>> \in Pairs
  BY DEF Pairs, FileItems
<1> HIDE DEF Pairs
<1> QED
  BY <1>1 DEF WithPair

LEMMA ItemsTyped ==
  ASSUME NEW path
  PROVE  /\ Items(path) \in Seq(FileItems) /\ Len(Items(path)) \in Nat
         /\ \A k \in 1 .. Len(Items(path)) : Items(path)[k] \in FileItems
<1>1. Items(path) \in Seq(FileItems)
  BY FilesAssumption DEF Items
<1> QED
  BY <1>1, ElementOfSeq

LEMMA SavedTyped ==
  ASSUME NEW item \in FileItems, NEW path \in STRING, NEW line \in Nat
  PROVE  /\ Saved(item, path, line) \in Kept /\ Saved(item, path, line).var = item.name
         /\ Saved(item, path, line).value = item.value /\ Saved(item, path, line).file = path
  BY DEF Saved, Kept, FileItems

LEMMA ParseItemDoes ==
  ASSUME NEW p \in ParserState, NEW item \in FileItems, NEW path \in STRING
  PROVE  /\ ParseItem(p, item, path) \in ParserState
         /\ item.form \in {"word", "mca"} =>
              \E line \in Nat : ParseItem(p, item, path).list = SaveValue(p.list, Saved(item, path, line))
         /\ item.form \notin {"word", "mca"} => ParseItem(p, item, path).list = p.list
         /\ ParseItem(p, item, path).env = IF item.form = "x" THEN WithPair(p.env, item) ELSE p.env
<1>1. /\ p.list \in Seq(Kept) /\ p.lineno \in Nat /\ p.env \in Seq(Pairs)
      /\ p = [list |-> p.list, lineno |-> p.lineno, env |-> p.env]
      /\ item.line \in Nat /\ item.form \in {"word", "mca", "x", "error"}
  BY DEF ParserState, FileItems
<1>2. ASSUME NEW line \in Nat PROVE SaveValue(p.list, Saved(item, path, line)) \in Seq(Kept)
  BY <1>1, SavedTyped, SaveValueTyped
<1>3. WithPair(p.env, item) \in Seq(Pairs)
  BY <1>1, PairTyped
<1> DEFINE q == ParseItem(p, item, path)
<1>4. CASE item.form = "word"
  <2>1. q = [list |-> SaveValue(p.list, Saved(item, path, item.line)), lineno |-> item.line, env |-> p.env]
    BY <1>1, <1>4 DEF ParseItem
  <2> HIDE DEF q
  <2>2. /\ q.list = SaveValue(p.list, Saved(item, path, item.line)) /\ q.env = p.env
        /\ item.line \in Nat
    BY <1>1, <2>1
  <2>3. q \in ParserState
    BY <1>1, <1>2, <2>1 DEF ParserState
  <2> QED
    BY <1>4, <2>2, <2>3 DEF q
<1>5. CASE item.form = "mca"
  <2>1. q = [list |-> SaveValue(p.list, Saved(item, path, p.lineno)), lineno |-> p.lineno, env |-> p.env]
    BY <1>1, <1>5 DEF ParseItem
  <2> HIDE DEF q
  <2> QED
    BY <1>1, <1>2, <1>5, <2>1 DEF q, ParserState
<1>6. CASE item.form = "x"
  <2>1. q = [list |-> p.list, lineno |-> p.lineno, env |-> WithPair(p.env, item)]
    BY <1>1, <1>6 DEF ParseItem, WithPair
  <2> HIDE DEF q
  <2> QED
    BY <1>1, <1>3, <1>6, <2>1 DEF q, ParserState
<1>7. CASE item.form = "error"
  <2>1. q = p
    BY <1>7 DEF ParseItem
  <2> QED
    BY <1>7, <2>1
<1> QED
  BY <1>1, <1>4, <1>5, <1>6, <1>7

(* The items of a file, one after the other.                                 *)
ParsesUpTo(w, p, path) ==
  w = [k \in 0 .. Len(Items(path)) |-> IF k = 0 THEN p ELSE ParseItem(w[k - 1], Items(path)[k], path)]
LEMMA KeyvalParseIs ==
  ASSUME NEW p \in ParserState, NEW path \in STRING
  PROVE  \E w : /\ KeyvalParse(p, path) = w[Len(Items(path))]
                /\ w[0] = p /\ \A k \in 0 .. Len(Items(path)) : w[k] \in ParserState
                /\ \A k \in 1 .. Len(Items(path)) : w[k] = ParseItem(w[k - 1], Items(path)[k], path)
<1> DEFINE n == Len(Items(path))
           S == ParserState
           Step(k, s) == ParseItem(s, Items(path)[k], path)
           step == [k \in 1 .. n |-> [s \in S |-> Step(k, s)]]
           f == CHOOSE w : w = [k \in 0 .. Len(Items(path)) |->
                                  IF k = 0 THEN p ELSE ParseItem(w[k - 1], Items(path)[k], path)]
<1>1. n \in Nat /\ \A k \in 1 .. n : Items(path)[k] \in FileItems
  <2> HIDE DEF step, f
  <2> QED
    BY ItemsTyped
<1>2. ASSUME NEW k \in 1 .. n, NEW s \in S PROVE Step(k, s) \in S
  BY <1>1, ParseItemDoes
<1>3. KeyvalParse(p, path) = f[n]
  BY DEF KeyvalParse
<1>4. (\E w : ParsesUpTo(w, p, path)) => ParsesUpTo(f, p, path)
  BY DEF ParsesUpTo
<1> HIDE DEF n, Step, S, f
<1>5. step \in [1 .. n -> [S -> S]] /\ \A k \in 1 .. n : \A s \in S : step[k][s] = Step(k, s)
  BY <1>2
<1> HIDE DEF step
<1>6. p \in S
  BY DEF S
<1>7. PICK w : Iterates(w, p, step, n) /\ \A k \in 0 .. n : w[k] \in S
  BY <1>1, <1>5, <1>6, IteratesWithin
<1>8. ASSUME NEW k \in 0 .. n PROVE w[k] = IF k = 0 THEN p ELSE Step(k, w[k - 1])
  <2>1. CASE k = 0
    BY <1>7, <2>1 DEF Iterates
  <2>2. CASE k # 0
    <3>1. k \in 1 .. n /\ k - 1 \in 0 .. n
      BY <1>1, <2>2
    <3>2. w[k] = step[k][w[k - 1]]
      BY <1>7, <3>1 DEF Iterates
    <3> QED
      BY <1>5, <1>7, <2>2, <3>1, <3>2
  <2> QED
    BY <2>1, <2>2
<1>9. w = [k \in 0 .. n |-> w[k]]
  BY <1>7 DEF Iterates
<1>10. w = [k \in 0 .. n |-> IF k = 0 THEN p ELSE Step(k, w[k - 1])]
  BY <1>8, <1>9
<1>11. ParsesUpTo(f, p, path)
  <2>1. ParsesUpTo(w, p, path)
    BY <1>10 DEF ParsesUpTo, Step, n
  <2> QED
    BY <1>4, <2>1
<1>14. f = [k \in 0 .. n |-> IF k = 0 THEN p ELSE Step(k, f[k - 1])]
  BY <1>11 DEF ParsesUpTo, n, Step
<1>12. f[0] = p /\ \A k \in 1 .. n : f[k] = Step(k, f[k - 1])
  <2>1. 0 \in 0 .. n /\ \A k \in 1 .. n : k \in 0 .. n /\ k # 0
    BY <1>1
  <2> QED
    BY <1>14, <2>1
<1>13. ASSUME NEW m \in 0 .. n PROVE f[m] \in S
  <2> DEFINE R == {k \in 0 .. m : f[k] \in S}
  <2>1. 0 \in R
    BY <1>1, <1>6, <1>12
  <2>2. ASSUME NEW k \in 1 .. m, k - 1 \in R PROVE k \in R
    <3>1. k \in 1 .. n /\ k \in 0 .. m
      BY <1>1
    <3> QED
      BY <1>2, <1>12, <2>2, <3>1
  <2>3. R \in SUBSET (0 .. m) /\ m \in Nat
    BY <1>1
  <2>4. m \in R
    <3> HIDE DEF R
    <3> QED
      BY <2>1, <2>2, <2>3, CountedUp
  <2> QED
    BY <2>4
<1> QED
  BY <1>3, <1>12, <1>13 DEF n, Step, S

(* After a file, the list has what the file says last of a name, or what it  *)
(* had of it.                                                                *)
GivenUpTo(path, n, k) == {i \in 1 .. k : /\ Items(path)[i].name = n
                                        /\ Items(path)[i].form \in {"word", "mca"}}
Told(path, c, n, k) ==
  IF GivenUpTo(path, n, k) = {} THEN c
  ELSE Said(Items(path)[Highest(GivenUpTo(path, n, k))].value, path)

LEMMA HighestIs ==
  ASSUME NEW k \in Nat \ {0}, NEW S \in SUBSET (1 .. k - 1)
  PROVE  Highest(S \cup {k}) = k /\ Lowest(S \cup {k}) \in S \cup {k}
<1>1. \A j \in S \cup {k} : j <= k
  OBVIOUS
<1>2. \A i \in S \cup {k} : (\A j \in S \cup {k} : j <= i) => i = k
  OBVIOUS
<1>3. \E i \in S \cup {k} : \A j \in S \cup {k} : i <= j
  <2>1. S \cup {k} \in SUBSET Nat /\ S \cup {k} # {}
    OBVIOUS
  <2> QED
    BY <2>1, LeastExists
<1> QED
  BY <1>1, <1>2, <1>3 DEF Highest, Lowest

LEMMA GivenUpToGrows ==
  ASSUME NEW path, NEW k \in Nat \ {0}, NEW n
  PROVE  /\ GivenUpTo(path, n, k) =
              IF Items(path)[k].name = n /\ Items(path)[k].form \in {"word", "mca"}
              THEN GivenUpTo(path, n, k - 1) \cup {k} ELSE GivenUpTo(path, n, k - 1)
         /\ GivenUpTo(path, n, k - 1) \in SUBSET (1 .. k - 1)
  BY DEF GivenUpTo

LEMMA FileTells ==
  ASSUME NEW p \in ParserState, NEW path \in STRING, NEW c,
         \A n \in STRING : Says(p.list, n, c[n])
  PROVE  \A n \in STRING : Says(KeyvalParse(p, path).list, n, Told(path, c[n], n, Len(Items(path))))
<1> DEFINE N == Len(Items(path))
<1>1. PICK w : /\ KeyvalParse(p, path) = w[Len(Items(path))]
               /\ w[0] = p /\ \A k \in 0 .. Len(Items(path)) : w[k] \in ParserState
               /\ \A k \in 1 .. Len(Items(path)) : w[k] = ParseItem(w[k - 1], Items(path)[k], path)
  BY KeyvalParseIs
<1>2. N \in Nat /\ \A k \in 1 .. N : Items(path)[k] \in FileItems
  BY ItemsTyped
<1> DEFINE Good(k) == \A n \in STRING : Says(w[k].list, n, Told(path, c[n], n, k))
           S == {k \in 0 .. N : Good(k)}
<1>3. 0 \in S
  <2>1. ASSUME NEW n \in STRING PROVE Says(w[0].list, n, Told(path, c[n], n, 0))
    <3>1. GivenUpTo(path, n, 0) = {}
      BY DEF GivenUpTo
    <3> QED
      BY <1>1, <3>1 DEF Told
  <2> QED
    BY <1>2, <2>1
<1>4. ASSUME NEW k \in 1 .. N, k - 1 \in S PROVE k \in S
  <2> DEFINE item == Items(path)[k]
  <2>1. k \in 0 .. N /\ k - 1 \in 0 .. N /\ k \in Nat \ {0}
    BY <1>2
  <2>2. Good(k - 1)
    BY <1>4
  <2>3. item \in FileItems /\ w[k - 1] \in ParserState /\ w[k] = ParseItem(w[k - 1], item, path)
    BY <1>1, <1>2, <2>1
  <2>6. item = Items(path)[k]
    OBVIOUS
  <2> HIDE DEF item
  <2>4. w[k - 1].list \in Seq(Kept)
    BY <2>3 DEF ParserState
  <2>7. /\ item.form \in {"word", "mca"} =>
             \E line \in Nat : w[k].list = SaveValue(w[k - 1].list, Saved(item, path, line))
        /\ item.form \notin {"word", "mca"} => w[k].list = w[k - 1].list
    BY <2>3, ParseItemDoes
  <2>5. ASSUME NEW n \in STRING PROVE Says(w[k].list, n, Told(path, c[n], n, k))
    <3>1. Says(w[k - 1].list, n, Told(path, c[n], n, k - 1))
      BY <2>2
    <3>2. CASE item.form \in {"word", "mca"}
      <4>1. PICK line \in Nat : w[k].list = SaveValue(w[k - 1].list, Saved(item, path, line))
        BY <2>7, <3>2
      <4> DEFINE fv == Saved(item, path, line)
      <4>2. fv \in Kept /\ fv.var = item.name /\ fv.value = item.value /\ fv.file = path
        BY <2>3, SavedTyped
      <4> HIDE DEF fv
      <4>3. CASE n = item.name
        <5> DEFINE G == GivenUpTo(path, n, k - 1)
        <5>1. GivenUpTo(path, n, k) = G \cup {k} /\ G \in SUBSET (1 .. k - 1)
          BY <2>1, <2>6, <3>2, <4>3, GivenUpToGrows
        <5>2. Highest(GivenUpTo(path, n, k)) = k
          BY <2>1, <5>1, HighestIs
        <5>3. Told(path, c[n], n, k) = Said(fv.value, fv.file)
          BY <2>6, <4>2, <5>1, <5>2 DEF Told
        <5>4. Says(SaveValue(w[k - 1].list, fv), fv.var, Said(fv.value, fv.file))
          BY <2>4, <3>1, <4>2, <4>3, SaveValueSays
        <5> QED
          BY <4>1, <4>2, <4>3, <5>3, <5>4 DEF fv
      <4>4. CASE n # item.name
        <5>1. GivenUpTo(path, n, k) = GivenUpTo(path, n, k - 1)
          BY <2>1, <2>6, <4>4, GivenUpToGrows
        <5>2. Told(path, c[n], n, k) = Told(path, c[n], n, k - 1)
          BY <5>1 DEF Told
        <5>3. Says(SaveValue(w[k - 1].list, fv), n, Told(path, c[n], n, k - 1))
          BY <2>4, <3>1, <4>2, <4>4, SaveValueKeeps
        <5> QED
          BY <4>1, <5>2, <5>3 DEF fv
      <4> QED
        BY <4>3, <4>4
    <3>3. CASE item.form \notin {"word", "mca"}
      <4>1. w[k].list = w[k - 1].list
        BY <2>7, <3>3
      <4>2. GivenUpTo(path, n, k) = GivenUpTo(path, n, k - 1)
        BY <2>1, <2>6, <3>3, GivenUpToGrows
      <4> QED
        BY <3>1, <4>1, <4>2 DEF Told
    <3> QED
      BY <3>2, <3>3
  <2> QED
    BY <2>1, <2>5
<1>5. N \in S
  <2>1. S \in SUBSET (0 .. N)
    OBVIOUS
  <2> HIDE DEF S, N
  <2> QED
    BY <1>2, <1>3, <1>4, <2>1, CountedUp
<1> QED
  BY <1>1, <1>5
-----------------------------------------------------------------------------
PairsAfter(pairs, item) == IF item.form = "x" THEN WithPair(pairs, item) ELSE pairs
FilePairs(w, path) ==
  w = [k \in 0 .. Len(Items(path)) |-> IF k = 0 THEN <<>> ELSE PairsAfter(w[k - 1], Items(path)[k])]

LEMMA SetByFileIs ==
  ASSUME NEW path
  PROVE  \E w : /\ SetByFile(path) = w[Len(Items(path))] /\ w[0] = <<>>
                /\ \A k \in 0 .. Len(Items(path)) : w[k] \in Seq(Pairs)
                /\ \A k \in 1 .. Len(Items(path)) : w[k] = PairsAfter(w[k - 1], Items(path)[k])
<1> DEFINE n == Len(Items(path))
           S == Seq(Pairs)
           Step(k, s) == PairsAfter(s, Items(path)[k])
           step == [k \in 1 .. n |-> [s \in S |-> Step(k, s)]]
           f == CHOOSE pairs : pairs = [k \in 0 .. Len(Items(path)) |->
                  IF k = 0 THEN <<>>
                  ELSE IF Items(path)[k].form = "x"
                       THEN Append(pairs[k - 1], <<Items(path)[k].name, Items(path)[k].value>>)
                       ELSE pairs[k - 1]]
<1>1. n \in Nat /\ \A k \in 1 .. n : Items(path)[k] \in FileItems
  <2> HIDE DEF step, f
  <2> QED
    BY ItemsTyped
<1>2. ASSUME NEW k \in 1 .. n, NEW s \in S PROVE Step(k, s) \in S
  BY <1>1, PairTyped DEF PairsAfter
<1>3. SetByFile(path) = f[n]
  BY DEF SetByFile
<1>4. (\E w : FilePairs(w, path)) => FilePairs(f, path)
  BY DEF FilePairs, PairsAfter, WithPair
<1> HIDE DEF f
<1>6. <<>> \in S
  OBVIOUS
<1> HIDE DEF n, Step, S
<1>5. step \in [1 .. n -> [S -> S]] /\ \A k \in 1 .. n : \A s \in S : step[k][s] = Step(k, s)
  BY <1>2
<1> HIDE DEF step
<1>7. PICK w : Iterates(w, <<>>, step, n) /\ \A k \in 0 .. n : w[k] \in S
  BY <1>1, <1>5, <1>6, IteratesWithin
<1>8. ASSUME NEW k \in 0 .. n PROVE w[k] = IF k = 0 THEN <<>> ELSE Step(k, w[k - 1])
  <2>1. CASE k = 0
    BY <1>7, <2>1 DEF Iterates
  <2>2. CASE k # 0
    <3>1. k \in 1 .. n /\ k - 1 \in 0 .. n
      BY <1>1, <2>2
    <3>2. w[k] = step[k][w[k - 1]]
      BY <1>7, <3>1 DEF Iterates
    <3> QED
      BY <1>5, <1>7, <2>2, <3>1, <3>2
  <2> QED
    BY <2>1, <2>2
<1>9. w = [k \in 0 .. n |-> w[k]]
  BY <1>7 DEF Iterates
<1>10. w = [k \in 0 .. n |-> IF k = 0 THEN <<>> ELSE Step(k, w[k - 1])]
  BY <1>8, <1>9
<1>11. FilePairs(f, path)
  <2>1. FilePairs(w, path)
    BY <1>10 DEF FilePairs, Step, n
  <2> QED
    BY <1>4, <2>1
<1>14. f = [k \in 0 .. n |-> IF k = 0 THEN <<>> ELSE Step(k, f[k - 1])]
  BY <1>11 DEF FilePairs, n, Step
<1>12. f[0] = <<>> /\ \A k \in 1 .. n : f[k] = Step(k, f[k - 1])
  <2>1. 0 \in 0 .. n /\ \A k \in 1 .. n : k \in 0 .. n /\ k # 0
    BY <1>1
  <2> QED
    BY <1>14, <2>1
<1>13. ASSUME NEW m \in 0 .. n PROVE f[m] \in S
  <2> DEFINE R == {k \in 0 .. m : f[k] \in S}
  <2>1. 0 \in R
    BY <1>1, <1>6, <1>12
  <2>2. ASSUME NEW k \in 1 .. m, k - 1 \in R PROVE k \in R
    <3>1. k \in 1 .. n /\ k \in 0 .. m
      BY <1>1
    <3> QED
      BY <1>2, <1>12, <2>2, <3>1
  <2>3. R \in SUBSET (0 .. m) /\ m \in Nat
    BY <1>1
  <2>4. m \in R
    <3> HIDE DEF R
    <3> QED
      BY <2>1, <2>2, <2>3, CountedUp
  <2> QED
    BY <2>4
<1> QED
  BY <1>3, <1>12, <1>13 DEF n, Step, S

Joint(s, t) == s \o t
LEMMA JointPairs ==
  ASSUME NEW s \in Seq(Pairs), NEW t \in Seq(Pairs)
  PROVE  /\ Joint(s, t) \in Seq(Pairs) /\ Joint(s, <<>>) = s
         /\ \A item \in FileItems : Joint(s, WithPair(t, item)) = WithPair(Joint(s, t), item)
<1>1. s \o t \in Seq(Pairs) /\ s \o <<>> = s
  <2> HIDE DEF Pairs
  <2> QED
    BY ConcatProperties, ConcatEmptySeq
<1>2. ASSUME NEW item \in FileItems PROVE s \o Append(t, <<item.name, item.value>>) = Append(s \o t, <<item.name, item.value>>)
  <2> DEFINE e == <<item.name, item.value>>
  <2>1. e \in Pairs
    BY DEF Pairs, FileItems
  <2> HIDE DEF e, Pairs
  <2>2. <<e>> \in Seq(Pairs) /\ s \o t \in Seq(Pairs)
    BY <1>1, <2>1
  <2>3. Append(t, e) = t \o <<e>>
    BY <2>1, AppendIsConcat
  <2>4. Append(s \o t, e) = (s \o t) \o <<e>>
    BY <2>1, <2>2, AppendIsConcat
  <2>5. (s \o t) \o <<e>> = s \o (t \o <<e>>)
    BY <2>2, ConcatAssociative
  <2>6. s \o Append(t, e) = Append(s \o t, e)
    BY <2>3, <2>4, <2>5
  <2> QED
    BY <2>2 DEF e
<1> QED
  BY <1>1, <1>2 DEF Joint, WithPair

LEMMA FileSets ==
  ASSUME NEW p \in ParserState, NEW path \in STRING
  PROVE  KeyvalParse(p, path).env = Joint(p.env, SetByFile(path)) /\ SetByFile(path) \in Seq(Pairs)
<1> DEFINE N == Len(Items(path))
<1>1. PICK w : /\ KeyvalParse(p, path) = w[Len(Items(path))]
               /\ w[0] = p /\ \A k \in 0 .. Len(Items(path)) : w[k] \in ParserState
               /\ \A k \in 1 .. Len(Items(path)) : w[k] = ParseItem(w[k - 1], Items(path)[k], path)
  BY KeyvalParseIs
<1>2. PICK g : /\ SetByFile(path) = g[Len(Items(path))] /\ g[0] = <<>>
               /\ \A k \in 0 .. Len(Items(path)) : g[k] \in Seq(Pairs)
               /\ \A k \in 1 .. Len(Items(path)) : g[k] = PairsAfter(g[k - 1], Items(path)[k])
  BY SetByFileIs
<1>3. N \in Nat /\ \A k \in 1 .. N : Items(path)[k] \in FileItems
  BY ItemsTyped
<1>4. p.env \in Seq(Pairs)
  BY DEF ParserState
<1> DEFINE S == {k \in 0 .. N : w[k].env = Joint(p.env, g[k])}
<1>5. 0 \in S
  <2>1. Joint(p.env, <<>>) = p.env
    BY <1>2, <1>3, <1>4, JointPairs
  <2> QED
    BY <1>1, <1>2, <1>3, <2>1
<1>6. ASSUME NEW k \in 1 .. N, k - 1 \in S PROVE k \in S
  <2>1. k \in 0 .. N /\ k - 1 \in 0 .. N
    <3> HIDE DEF S, N
    <3> QED
      BY <1>3
  <2>2. /\ Items(path)[k] \in FileItems /\ w[k - 1] \in ParserState
        /\ w[k] = ParseItem(w[k - 1], Items(path)[k], path)
        /\ g[k] = PairsAfter(g[k - 1], Items(path)[k]) /\ g[k - 1] \in Seq(Pairs)
        /\ w[k - 1].env = Joint(p.env, g[k - 1])
    BY <1>1, <1>2, <1>3, <1>6, <2>1
  <2>3. w[k].env = PairsAfter(w[k - 1].env, Items(path)[k])
    BY <2>2, ParseItemDoes DEF PairsAfter
  <2>4. w[k].env = Joint(p.env, g[k])
    BY <1>4, <2>2, <2>3, JointPairs DEF PairsAfter
  <2> QED
    BY <2>1, <2>4
<1>7. N \in S
  <2>1. S \in SUBSET (0 .. N)
    OBVIOUS
  <2> HIDE DEF S, N
  <2> QED
    BY <1>3, <1>5, <1>6, <2>1, CountedUp
<1> QED
  BY <1>1, <1>2, <1>3, <1>7
-----------------------------------------------------------------------------
ListPairs(w, paths) ==
  w = [k \in 0 .. Len(paths) |->
         IF k = 0 THEN <<>> ELSE w[k - 1] \o SetByFile(paths[Len(paths) - k + 1])]
PairsOf(paths) == CHOOSE w : ListPairs(w, paths)

LEMMA SetByFilesIs ==
  ASSUME NEW paths \in Seq(STRING)
  PROVE  /\ SetByFiles(paths) = PairsOf(paths)[Len(paths)] /\ PairsOf(paths)[0] = <<>>
         /\ \A k \in 0 .. Len(paths) : PairsOf(paths)[k] \in Seq(Pairs)
         /\ \A k \in 1 .. Len(paths) :
              PairsOf(paths)[k] = Joint(PairsOf(paths)[k - 1], SetByFile(paths[Len(paths) - k + 1]))
<1> DEFINE n == Len(paths)
           S == Seq(Pairs)
           Step(k, s) == Joint(s, SetByFile(paths[n - k + 1]))
           step == [k \in 1 .. n |-> [s \in S |-> Step(k, s)]]
           f == CHOOSE pairs : pairs = [k \in 0 .. Len(paths) |->
                  IF k = 0 THEN <<>> ELSE pairs[k - 1] \o SetByFile(paths[Len(paths) - k + 1])]
<1>1. n \in Nat
  OBVIOUS
<1>2. ASSUME NEW k \in 1 .. n, NEW s \in S PROVE Step(k, s) \in S
  <2>1. SetByFile(paths[n - k + 1]) \in Seq(Pairs)
    <3> HIDE DEF n
    <3>1. PICK w : /\ SetByFile(paths[n - k + 1]) = w[Len(Items(paths[n - k + 1]))]
                   /\ \A j \in 0 .. Len(Items(paths[n - k + 1])) : w[j] \in Seq(Pairs)
      BY SetByFileIs
    <3>2. Len(Items(paths[n - k + 1])) \in 0 .. Len(Items(paths[n - k + 1]))
      BY ItemsTyped
    <3> QED
      BY <3>1, <3>2
  <2> QED
    BY <2>1, JointPairs
<1>3. SetByFiles(paths) = f[n]
  BY DEF SetByFiles
<1>15. f = PairsOf(paths)
  BY DEF PairsOf, ListPairs
<1>4. (\E w : ListPairs(w, paths)) => ListPairs(f, paths)
  BY DEF ListPairs
<1> HIDE DEF f
<1>6. <<>> \in S
  OBVIOUS
<1> HIDE DEF n, Step, S
<1>5. step \in [1 .. n -> [S -> S]] /\ \A k \in 1 .. n : \A s \in S : step[k][s] = Step(k, s)
  BY <1>2
<1> HIDE DEF step
<1>7. PICK w : Iterates(w, <<>>, step, n) /\ \A k \in 0 .. n : w[k] \in S
  BY <1>1, <1>5, <1>6, IteratesWithin
<1>8. ASSUME NEW k \in 0 .. n PROVE w[k] = IF k = 0 THEN <<>> ELSE Step(k, w[k - 1])
  <2>1. CASE k = 0
    BY <1>7, <2>1 DEF Iterates
  <2>2. CASE k # 0
    <3>1. k \in 1 .. n /\ k - 1 \in 0 .. n
      BY <1>1, <2>2
    <3>2. w[k] = step[k][w[k - 1]]
      BY <1>7, <3>1 DEF Iterates
    <3> QED
      BY <1>5, <1>7, <2>2, <3>1, <3>2
  <2> QED
    BY <2>1, <2>2
<1>9. w = [k \in 0 .. n |-> w[k]]
  BY <1>7 DEF Iterates
<1>10. w = [k \in 0 .. n |-> IF k = 0 THEN <<>> ELSE Step(k, w[k - 1])]
  BY <1>8, <1>9
<1>11. ListPairs(f, paths)
  <2>1. ListPairs(w, paths)
    BY <1>10 DEF ListPairs, Step, Joint, n
  <2> QED
    BY <1>4, <2>1
<1>14. f = [k \in 0 .. n |-> IF k = 0 THEN <<>> ELSE Step(k, f[k - 1])]
  BY <1>11 DEF ListPairs, n, Joint, Step
<1>12. f[0] = <<>> /\ \A k \in 1 .. n : f[k] = Step(k, f[k - 1])
  <2>1. 0 \in 0 .. n /\ \A k \in 1 .. n : k \in 0 .. n /\ k # 0
    BY <1>1
  <2> QED
    BY <1>14, <2>1
<1>13. ASSUME NEW m \in 0 .. n PROVE f[m] \in S
  <2> DEFINE R == {k \in 0 .. m : f[k] \in S}
  <2>1. 0 \in R
    BY <1>1, <1>6, <1>12
  <2>2. ASSUME NEW k \in 1 .. m, k - 1 \in R PROVE k \in R
    <3>1. k \in 1 .. n /\ k \in 0 .. m
      BY <1>1
    <3> QED
      BY <1>2, <1>12, <2>2, <3>1
  <2>3. R \in SUBSET (0 .. m) /\ m \in Nat
    BY <1>1
  <2>4. m \in R
    <3> HIDE DEF R
    <3> QED
      BY <2>1, <2>2, <2>3, CountedUp
  <2> QED
    BY <2>4
<1> QED
  BY <1>3, <1>12, <1>13, <1>15 DEF n, Step, S

(* What a list has of a name when the files after the first t are read.      *)
GivingFrom(paths, t, n) == {i \in t + 1 .. Len(paths) : GivenBy(paths[i], n) # {}}
SaidBy(path, n) == Said(Items(path)[Highest(GivenBy(path, n))].value, path)
SaidFrom(paths, t, n) ==
  IF GivingFrom(paths, t, n) = {} THEN Nowhere ELSE SaidBy(paths[Lowest(GivingFrom(paths, t, n))], n)
ListRead(list, paths, t) == \A n \in STRING : Says(list, n, SaidFrom(paths, t, n))

LEMMA LowestIs ==
  ASSUME NEW t \in Nat, NEW S \in SUBSET Nat, \A j \in S : t < j
  PROVE  Lowest(S \cup {t}) = t
<1>1. \A j \in S \cup {t} : t <= j
  OBVIOUS
<1>2. \A i \in S \cup {t} : (\A j \in S \cup {t} : i <= j) => i = t
  OBVIOUS
<1> QED
  BY <1>1, <1>2 DEF Lowest

LEMMA OneMoreFile ==
  ASSUME NEW paths \in Seq(STRING), NEW t \in 1 .. Len(paths), NEW n
  PROVE  SaidFrom(paths, t - 1, n) =
           Told(paths[t], SaidFrom(paths, t, n), n, Len(Items(paths[t])))
<1> DEFINE path == paths[t]
           later == GivingFrom(paths, t, n)
<1>1. GivenUpTo(path, n, Len(Items(path))) = GivenBy(path, n)
  <2>1. DOMAIN Items(path) = 1 .. Len(Items(path))
    <3>1. Items(path) \in Seq(FileItems)
      BY ItemsTyped
    <3> HIDE DEF path
    <3> QED
      BY <3>1
  <2> QED
    BY <2>1 DEF GivenUpTo, GivenBy
<1>2. t \in Nat /\ later \in SUBSET Nat /\ \A j \in later : t < j
  BY DEF GivingFrom
<1>3. GivingFrom(paths, t - 1, n) = IF GivenBy(path, n) # {} THEN later \cup {t} ELSE later
  <2>1. \A i : i \in t - 1 + 1 .. Len(paths) <=> i \in t + 1 .. Len(paths) \/ i = t
    OBVIOUS
  <2> QED
    BY <2>1 DEF GivingFrom
<1>4. Lowest(later \cup {t}) = t
  <2> HIDE DEF later
  <2> QED
    BY <1>2, LowestIs
<1> HIDE DEF later
<1>5. CASE GivenBy(path, n) = {}
  BY <1>1, <1>3, <1>5 DEF SaidFrom, Told, later
<1>6. CASE GivenBy(path, n) # {}
  BY <1>1, <1>3, <1>4, <1>6 DEF SaidFrom, Told, SaidBy
<1> QED
  BY <1>5, <1>6

LEMMA FileIsRead ==
  ASSUME NEW paths \in Seq(STRING), NEW t \in 1 .. Len(paths), NEW p \in ParserState,
         ListRead(p.list, paths, t)
  PROVE  ListRead(KeyvalParse(p, paths[t]).list, paths, t - 1)
<1> DEFINE c == [n \in STRING |-> SaidFrom(paths, t, n)]
<1>1. \A n \in STRING : Says(p.list, n, c[n])
  BY DEF ListRead
<1>2. \A n \in STRING : c[n] = SaidFrom(paths, t, n)
  OBVIOUS
<1>3. paths[t] \in STRING
  BY ElementOfSeq
<1> HIDE DEF c
<1>4. \A n \in STRING : Says(KeyvalParse(p, paths[t]).list, n, Told(paths[t], c[n], n, Len(Items(paths[t]))))
  BY <1>1, <1>3, FileTells
<1> QED
  BY <1>2, <1>4, OneMoreFile DEF ListRead

LEMMA NothingRead ==
  ASSUME NEW paths \in Seq(STRING)
  PROVE  ListRead(<<>>, paths, Len(paths))
<1>1. \A n : GivingFrom(paths, Len(paths), n) = {}
  BY DEF GivingFrom
<1>2. \A n : HasNone(<<>>, n)
  BY DEF HasNone
<1>3. Nowhere.there # "yes"
  BY DEF Nowhere
<1> QED
  BY <1>1, <1>2, <1>3 DEF ListRead, SaidFrom, Says

(* A list when all its files are read.                                       *)
ListDone(list, paths) ==
  \A n \in STRING :
    IF n = EnvList /\ SetByFiles(paths) # <<>> THEN HasOnce(list, n, SetByFiles(paths), {paths[1]})
    ELSE AsFirstSaid(list, paths, n)

LEMMA AllSaid ==
  ASSUME NEW list, NEW paths \in Seq(STRING), NEW n, Says(list, n, SaidFrom(paths, 0, n))
  PROVE  AsFirstSaid(list, paths, n)
<1>1. GivingFrom(paths, 0, n) = Giving(paths, n)
  BY DEF GivingFrom, Giving
<1>2. CASE Giving(paths, n) = {}
  BY <1>1, <1>2 DEF SaidFrom, Says, AsFirstSaid, Nowhere
<1>3. CASE Giving(paths, n) # {}
  BY <1>1, <1>3 DEF SaidFrom, SaidBy, Said, Says, AsFirstSaid
<1> QED
  BY <1>2, <1>3

StoreFor(list, path, set, line) ==
  IF set = <<>> THEN list
  ELSE SaveValue(list, [var |-> EnvList, value |-> set, file |-> path, line |-> line])
LEMMA StoredTyped ==
  ASSUME NEW set \in Seq(Pairs), NEW path \in STRING, NEW line \in Nat, NEW name \in STRING
  PROVE  [var |-> name, value |-> set, file |-> path, line |-> line] \in Kept
<1> HIDE DEF Pairs
<1> QED
  BY DEF Kept

LEMMA EnvListIsName == EnvList \in STRING
BY FilesAssumption

LEMMA StoredList ==
  ASSUME NEW list \in Seq(Kept), NEW paths \in Seq(STRING), paths # <<>>, ListRead(list, paths, 0),
         NEW line \in Nat
  PROVE  /\ StoreFor(list, Head(paths), SetByFiles(paths), line) \in Seq(Kept)
         /\ ListDone(StoreFor(list, Head(paths), SetByFiles(paths), line), paths)
<1> DEFINE set == SetByFiles(paths)
           path == Head(paths)
           fv == [var |-> EnvList, value |-> set, file |-> path, line |-> line]
           after == StoreFor(list, path, set, line)
<1>0. EnvList \in STRING
  BY EnvListIsName
<1>1. set \in Seq(Pairs)
  BY SetByFilesIs
<1>2. path = paths[1] /\ path \in STRING
  BY HeadTailProperties
<1>3. CASE set = <<>>
  <2>1. after = list
    BY <1>3 DEF StoreFor
  <2>2. \A n \in STRING : AsFirstSaid(list, paths, n)
    BY AllSaid DEF ListRead
  <2> QED
    BY <1>3, <2>1, <2>2 DEF ListDone
<1>4. CASE set # <<>>
  <2> HIDE DEF set, path
  <2>1. /\ fv \in Kept /\ fv.var = EnvList /\ fv.value = set /\ fv.file = path
    BY <1>0, <1>1, <1>2, StoredTyped
  <2>2. after = SaveValue(list, fv)
    BY <1>4 DEF StoreFor
  <2> HIDE DEF fv, after
  <2>3. after \in Seq(Kept)
    BY <2>1, <2>2, SaveValueTyped
  <2>4. HasOnce(after, EnvList, set, {path})
    <3>1. Says(list, EnvList, SaidFrom(paths, 0, EnvList))
      BY <1>0 DEF ListRead
    <3>2. Says(after, EnvList, Said(set, path))
      BY <2>1, <2>2, <3>1, SaveValueSays
    <3>3. Said(set, path).there = "yes" /\ Said(set, path).value = set /\ Said(set, path).file = path
      BY DEF Said
    <3> QED
      BY <3>2, <3>3 DEF Says
  <2>5. ASSUME NEW n \in STRING, n # EnvList PROVE AsFirstSaid(after, paths, n)
    <3>1. Says(list, n, SaidFrom(paths, 0, n))
      BY DEF ListRead
    <3>2. Says(after, n, SaidFrom(paths, 0, n))
      BY <2>1, <2>2, <2>5, <3>1, SaveValueKeeps
    <3> QED
      BY <3>2, AllSaid
  <2>6. ListDone(after, paths)
    BY <1>2, <1>4, <2>4, <2>5 DEF ListDone, set
  <2> QED
    BY <2>3, <2>6 DEF after, path, set
<1> QED
  BY <1>3, <1>4
-----------------------------------------------------------------------------
LEMMA PathsTyped ==
  ASSUME cf_config \in FileConfigs, NEW stage \in Stages
  PROVE  PathsFor(stage) \in Seq(STRING)
<1>1. /\ cf_config.files \in Seq(STRING) /\ cf_config.prefix \in Seq(STRING)
      /\ cf_config.envprefix \in Seq(STRING)
  BY FilesAssumption
<1>2. ASSUME NEW prefix \in Seq(STRING), NEW files \in Seq(STRING)
      PROVE  FixupFiles(prefix, files) \in Seq(STRING)
  <2>1. CASE \A i \in DOMAIN prefix : prefix[i] \in DOMAIN PathOf
    <3> DEFINE found == [i \in DOMAIN prefix |-> PathOf[prefix[i]]]
    <3>1. \A i \in DOMAIN prefix : PathOf[prefix[i]] \in STRING
      BY <2>1, FilesAssumption
    <3>2. found \in Seq(STRING)
      BY <3>1
    <3>3. FixupFiles(prefix, files) = found \o files
      BY <2>1 DEF FixupFiles
    <3> HIDE DEF found
    <3> QED
      BY <3>2, <3>3, ConcatProperties
  <2>2. CASE ~(\A i \in DOMAIN prefix : prefix[i] \in DOMAIN PathOf)
    BY <2>2 DEF FixupFiles
  <2> QED
    BY <2>1, <2>2
<1>3. EnvarFiles \in Seq(STRING)
  <2>1. Joined \in STRING
    BY FilesAssumption
  <2>2. <<Joined>> \in Seq(STRING)
    BY <2>1, OneElement
  <2> QED
    BY <1>1, <2>2 DEF EnvarFiles
<1>4. <<OverrideFile>> \in Seq(STRING) /\ <<>> \in Seq(STRING)
  <2>1. OverrideFile \in STRING
    BY FilesAssumption
  <2> QED
    BY <2>1, OneElement
<1>5. PathsFor("params") \in Seq(STRING)
  BY <1>1, <1>2 DEF PathsFor
<1>6. PathsFor("envars") \in Seq(STRING)
  BY <1>1, <1>2, <1>3 DEF PathsFor
<1>7. PathsFor("overrides") \in Seq(STRING)
  BY <1>4 DEF PathsFor
<1> QED
  BY <1>5, <1>6, <1>7 DEF Stages

LEMMA PathsStay ==
  ASSUME cf_config' = cf_config
  PROVE  \A stage : PathsFor(stage)' = PathsFor(stage)
BY DEF PathsFor, EnvarFiles

(* The files of a list that are still to be read are its first ones.         *)
Behind(stage) ==
  IF stage = "envars" THEN {"params"} ELSE IF stage = "overrides" THEN {"params", "envars"}
  ELSE IF stage = "done" THEN Stages ELSE {}
Reading(list, paths, todo, set) ==
  /\ todo \in Seq(STRING) /\ Len(todo) <= Len(paths)
  /\ \A i \in 1 .. Len(todo) : todo[i] = paths[i]
  /\ ListRead(list, paths, Len(todo))
  /\ set = PairsOf(paths)[Len(paths) - Len(todo)]
FilesTyped ==
  /\ cf_config \in FileConfigs
  /\ cf_stage \in Stages \cup {"closed", "done"}
  /\ cf_list \in [Stages -> Seq(Kept)]
  /\ cf_lineno \in Nat /\ env_str \in Seq(Pairs)
FilesInv ==
  /\ FilesTyped
  /\ cf_stage \notin Stages => cf_todo = <<>> /\ env_str = <<>>
  /\ cf_stage \in Stages =>
       /\ cf_config.files # <<"none">>
       /\ Reading(cf_list[cf_stage], PathsFor(cf_stage), cf_todo, env_str)
  /\ cf_config.files # <<"none">> =>
       \A stage \in Behind(cf_stage) : ListDone(cf_list[stage], PathsFor(stage))
  /\ \A stage \in Stages \ (Behind(cf_stage) \cup {cf_stage}) : cf_list[stage] = <<>>

LEMMA ReadingBegins ==
  ASSUME NEW paths \in Seq(STRING)
  PROVE  Reading(<<>>, paths, paths, <<>>)
<1>1. Len(paths) - Len(paths) = 0 /\ Len(paths) <= Len(paths)
  OBVIOUS
<1>2. PairsOf(paths)[0] = <<>>
  BY SetByFilesIs
<1> QED
  BY <1>1, <1>2, NothingRead DEF Reading

LEMMA ReadingGoesOn ==
  ASSUME NEW list \in Seq(Kept), NEW paths \in Seq(STRING), NEW todo, NEW set \in Seq(Pairs),
         NEW line \in Nat, Reading(list, paths, todo, set), todo # <<>>
  PROVE  LET p == KeyvalParse([list |-> list, lineno |-> line, env |-> set], Last(todo))
         IN  p \in ParserState /\ Reading(p.list, paths, Front(todo), p.env)
<1> DEFINE t == Len(todo)
           before == [list |-> list, lineno |-> line, env |-> set]
           p == KeyvalParse(before, Last(todo))
           path == paths[t]
           front == Front(todo)
<1>1. todo \in Seq(STRING) /\ t \in 1 .. Len(paths) /\ t \in Nat /\ Len(paths) \in Nat
  BY DEF Reading
<1>2. Last(todo) = path
  BY <1>1 DEF Reading, Last
<1>3. /\ before \in ParserState /\ before.list = list /\ before.env = set
  <2> HIDE DEF Pairs
  <2> QED
    BY DEF ParserState
<1>4. path \in STRING
  BY <1>1, ElementOfSeq
<1>5. front \in Seq(STRING) /\ Len(front) = t - 1 /\ \A i \in 1 .. t - 1 : front[i] = todo[i]
  <2>1. front = SubSeq(todo, 1, t - 1)
    BY DEF Front
  <2>2. t - 1 \in Nat /\ t - 1 < Len(todo)
    BY <1>1
  <2> HIDE DEF t, front
  <2> QED
    BY <1>1, <2>1, <2>2, FrontTyped
<1>11. p = KeyvalParse(before, path)
  BY <1>2
<1> HIDE DEF before, path, front, p
<1>6. p \in ParserState
  <2>1. PICK w : /\ KeyvalParse(before, path) = w[Len(Items(path))]
                 /\ \A k \in 0 .. Len(Items(path)) : w[k] \in ParserState
    BY <1>3, <1>4, KeyvalParseIs
  <2>2. Len(Items(path)) \in 0 .. Len(Items(path))
    BY ItemsTyped
  <2> QED
    BY <1>11, <2>1, <2>2
<1>7. ListRead(p.list, paths, t - 1)
  BY <1>1, <1>3, <1>11, FileIsRead DEF Reading, path
<1>8. p.env = PairsOf(paths)[Len(paths) - (t - 1)]
  <2> DEFINE k == Len(paths) - (t - 1)
  <2>1. k \in 1 .. Len(paths) /\ k - 1 = Len(paths) - t /\ Len(paths) - k + 1 = t
    BY <1>1
  <2>2. PairsOf(paths)[k] = Joint(PairsOf(paths)[k - 1], SetByFile(paths[Len(paths) - k + 1]))
    <3> HIDE DEF k
    <3> QED
      BY <2>1, SetByFilesIs
  <2>3. set = PairsOf(paths)[k - 1]
    BY <2>1 DEF Reading
  <2>4. p.env = Joint(set, SetByFile(path))
    BY <1>3, <1>4, <1>11, FileSets
  <2> HIDE DEF k
  <2>5. p.env = PairsOf(paths)[k]
    BY <2>1, <2>2, <2>3, <2>4 DEF path
  <2> QED
    BY <2>5 DEF k
<1>9. t - 1 <= Len(paths) /\ \A i \in 1 .. t - 1 : front[i] = paths[i]
  <2>1. \A i \in 1 .. t - 1 : i \in 1 .. t
    BY <1>1
  <2> QED
    BY <1>1, <1>5, <2>1 DEF Reading
<1>10. Reading(p.list, paths, front, p.env)
  BY <1>5, <1>7, <1>8, <1>9 DEF Reading
<1> QED
  BY <1>6, <1>10 DEF p, front, before

LEMMA ReadingEnds ==
  ASSUME NEW list \in Seq(Kept), NEW paths \in Seq(STRING), NEW set, NEW line \in Nat,
         Reading(list, paths, <<>>, set)
  PROVE  /\ paths = <<>> => ListDone(list, paths) /\ set = <<>>
         /\ paths # <<>> => /\ StoreFor(list, Head(paths), set, line) \in Seq(Kept)
                            /\ ListDone(StoreFor(list, Head(paths), set, line), paths)
<1>1. Len(<<>>) = 0 /\ Len(paths) \in Nat
  OBVIOUS
<1>2. ListRead(list, paths, 0) /\ set = PairsOf(paths)[Len(paths) - 0]
  BY <1>1 DEF Reading
<1>3. set = SetByFiles(paths)
  BY <1>1, <1>2, SetByFilesIs
<1>4. paths = <<>> => set = <<>> /\ ListDone(list, paths)
  <2> SUFFICES ASSUME paths = <<>> PROVE set = <<>> /\ ListDone(list, paths)
    OBVIOUS
  <2>1. set = PairsOf(paths)[0]
    BY <1>1, <1>2
  <2>2. set = <<>>
    BY <2>1, SetByFilesIs
  <2>3. \A n \in STRING : AsFirstSaid(list, paths, n)
    BY <1>2, AllSaid DEF ListRead
  <2> QED
    BY <1>3, <2>2, <2>3 DEF ListDone
<1> QED
  BY <1>2, <1>3, <1>4, StoredList
-----------------------------------------------------------------------------
LEMMA FilesBegin == FilesInit => FilesInv
<1> SUFFICES ASSUME FilesInit PROVE FilesInv
  OBVIOUS
<1>1. <<>> \in Seq(Kept) /\ <<>> \in Seq(Pairs) /\ 0 \in Nat
  <2> HIDE DEF Pairs, Kept
  <2> QED
    OBVIOUS
<1>2. FilesTyped
  BY <1>1 DEF FilesInit, FilesTyped
<1>3. cf_stage \notin Stages /\ Behind(cf_stage) = {} /\ cf_todo = <<>> /\ env_str = <<>>
      /\ \A stage \in Stages : cf_list[stage] = <<>>
  BY DEF FilesInit, Stages, Behind
<1> QED
  BY <1>2, <1>3 DEF FilesInv

LEMMA FilesStep == FilesInv /\ [FilesNext]_cf_vars => FilesInv'
<1> SUFFICES ASSUME FilesInv, [FilesNext]_cf_vars PROVE FilesInv'
  OBVIOUS
<1>1. FilesTyped /\ \A stage \in Stages : PathsFor(stage) \in Seq(STRING)
  BY PathsTyped DEF FilesInv, FilesTyped
<1>2. CASE UNCHANGED cf_vars
  <2>1. \A stage : PathsFor(stage)' = PathsFor(stage)
    BY <1>2, PathsStay DEF cf_vars
  <2>2. FilesTyped'
    BY <1>1, <1>2 DEF FilesTyped, cf_vars
  <2> QED
    BY <1>2, <2>1, <2>2 DEF FilesInv, cf_vars
<1>3. CASE CacheFiles
  <2>1. /\ cf_stage = "closed" /\ UNCHANGED <<cf_config, cf_list, cf_lineno, env_str>>
        /\ \A stage : PathsFor(stage)' = PathsFor(stage)
    BY <1>3, PathsStay DEF CacheFiles
  <2>2. env_str = <<>> /\ Behind("closed") = {} /\ \A stage \in Stages : cf_list[stage] = <<>>
    BY <2>1 DEF FilesInv, Stages, Behind
  <2>3. CASE cf_config.files = <<"none">>
    <3>1. cf_stage' = "done" /\ cf_todo' = <<>>
      BY <1>3, <2>3 DEF CacheFiles
    <3>2. FilesTyped'
      BY <1>1, <2>1, <3>1 DEF FilesTyped
    <3> QED
      BY <2>1, <2>2, <2>3, <3>1, <3>2 DEF FilesInv, Stages
  <2>4. CASE cf_config.files # <<"none">>
    <3>1. cf_stage' = "params" /\ cf_todo' = PathsFor("params") /\ "params" \in Stages
      BY <1>3, <2>4 DEF CacheFiles, Stages
    <3>2. FilesTyped'
      BY <1>1, <2>1, <3>1 DEF FilesTyped
    <3>3. Reading(<<>>, PathsFor("params"), PathsFor("params"), <<>>)
      BY <1>1, <3>1, ReadingBegins
    <3>4. Reading(cf_list'["params"], PathsFor("params")', cf_todo', env_str')
      BY <2>1, <2>2, <3>1, <3>3
    <3>5. Behind(cf_stage') = {}
      BY <3>1 DEF Behind
    <3> QED
      BY <2>1, <2>2, <2>4, <3>1, <3>2, <3>4, <3>5 DEF FilesInv
  <2> QED
    BY <2>3, <2>4
<1>4. CASE ReadFile
  <2> DEFINE p == KeyvalParse([list |-> cf_list[cf_stage], lineno |-> cf_lineno, env |-> env_str], Last(cf_todo))
  <2>1. /\ cf_todo # <<>> /\ cf_stage \in Stages
        /\ cf_list' = [cf_list EXCEPT ![cf_stage] = p.list]
        /\ cf_lineno' = p.lineno /\ env_str' = p.env /\ cf_todo' = Front(cf_todo)
        /\ UNCHANGED <<cf_config, cf_stage>>
    BY <1>4 DEF ReadFile, FilesInv
  <2>2. /\ cf_config.files # <<"none">>
        /\ Reading(cf_list[cf_stage], PathsFor(cf_stage), cf_todo, env_str)
    BY <2>1 DEF FilesInv
  <2>3. cf_list[cf_stage] \in Seq(Kept) /\ env_str \in Seq(Pairs) /\ cf_lineno \in Nat
    BY <1>1, <2>1 DEF FilesTyped
  <2>4. p \in ParserState /\ Reading(p.list, PathsFor(cf_stage), Front(cf_todo), p.env)
    BY <1>1, <2>1, <2>2, <2>3, ReadingGoesOn
  <2> HIDE DEF p
  <2>5. p.list \in Seq(Kept) /\ p.lineno \in Nat /\ p.env \in Seq(Pairs)
    BY <2>4 DEF ParserState
  <2>6. \A stage : PathsFor(stage)' = PathsFor(stage)
    BY <2>1, PathsStay
  <2>7. /\ cf_list' \in [Stages -> Seq(Kept)] /\ cf_list'[cf_stage] = p.list
        /\ \A stage \in Stages \ {cf_stage} : cf_list'[stage] = cf_list[stage]
    BY <1>1, <2>1, <2>5 DEF FilesTyped
  <2>8. FilesTyped'
    BY <1>1, <2>1, <2>5, <2>7 DEF FilesTyped
  <2>9. Reading(cf_list'[cf_stage'], PathsFor(cf_stage'), cf_todo', env_str')
    BY <2>1, <2>4, <2>7
  <2>10. Behind(cf_stage) \subseteq Stages \ {cf_stage}
    BY <2>1 DEF Behind, Stages
  <2>11. cf_config.files # <<"none">> =>
           \A stage \in Behind(cf_stage) : ListDone(cf_list'[stage], PathsFor(stage))
    BY <2>7, <2>10 DEF FilesInv
  <2>12. \A stage \in Stages \ (Behind(cf_stage) \cup {cf_stage}) : cf_list'[stage] = <<>>
    BY <2>7 DEF FilesInv
  <2> QED
    BY <2>1, <2>2, <2>6, <2>8, <2>9, <2>11, <2>12 DEF FilesInv
<1>5. CASE EndList
  <2> DEFINE next == StageAfter(cf_stage)
  <2>1. /\ cf_stage \in Stages /\ cf_todo = <<>> /\ cf_stage' = next
        /\ UNCHANGED <<cf_config, cf_lineno>>
    BY <1>5 DEF EndList
  <2>2. /\ cf_config.files # <<"none">>
        /\ Reading(cf_list[cf_stage], PathsFor(cf_stage), <<>>, env_str)
    BY <2>1 DEF FilesInv
  <2>3. /\ Behind(next) = Behind(cf_stage) \cup {cf_stage} /\ next \in Stages \cup {"done"}
        /\ Behind(cf_stage) \subseteq Stages \ {cf_stage} /\ next # cf_stage /\ next \notin Behind(next)
    BY <2>1 DEF Behind, Stages, StageAfter
  <2> HIDE DEF next
  <2>4. \A stage : PathsFor(stage)' = PathsFor(stage)
    BY <2>1, PathsStay
  <2>5. cf_list[cf_stage] \in Seq(Kept) /\ PathsFor(cf_stage) \in Seq(STRING) /\ cf_lineno \in Nat
    BY <1>1, <2>1 DEF FilesTyped
  <2>6. /\ cf_list' \in [Stages -> Seq(Kept)] /\ env_str' = <<>>
        /\ ListDone(cf_list'[cf_stage], PathsFor(cf_stage))
        /\ \A stage \in Stages \ {cf_stage} : cf_list'[stage] = cf_list[stage]
    <3>1. CASE PathsFor(cf_stage) = <<>>
      <4>1. env_str = <<>> /\ ListDone(cf_list[cf_stage], PathsFor(cf_stage))
        BY <2>2, <2>5, <3>1, ReadingEnds
      <4> QED
        BY <1>1, <1>5, <3>1, <4>1 DEF EndList, FilesTyped
    <3>2. CASE PathsFor(cf_stage) # <<>>
      <4> DEFINE after == StoreFor(cf_list[cf_stage], Head(PathsFor(cf_stage)), env_str, cf_lineno)
      <4>1. after \in Seq(Kept) /\ ListDone(after, PathsFor(cf_stage))
        BY <2>2, <2>5, <3>2, ReadingEnds
      <4>2. cf_list' = [cf_list EXCEPT ![cf_stage] = after] /\ env_str' = <<>>
        BY <1>5, <3>2 DEF EndList, EnvStore, StoreFor
      <4> HIDE DEF after
      <4>3. cf_list' \in [Stages -> Seq(Kept)] /\ cf_list'[cf_stage] = after
            /\ \A stage \in Stages \ {cf_stage} : cf_list'[stage] = cf_list[stage]
        BY <1>1, <2>1, <4>1, <4>2 DEF FilesTyped
      <4> QED
        BY <4>1, <4>2, <4>3
    <3> QED
      BY <3>1, <3>2
  <2>7. <<>> \in Seq(Pairs)
    <3> HIDE DEF Pairs
    <3> QED
      OBVIOUS
  <2>8. FilesTyped'
    BY <1>1, <2>1, <2>3, <2>6, <2>7 DEF FilesTyped
  <2>9. \A stage \in Behind(next) : ListDone(cf_list'[stage], PathsFor(stage))
    BY <2>2, <2>3, <2>6 DEF FilesInv
  <2>10. \A stage \in Stages \ Behind(next) : cf_list'[stage] = <<>>
    BY <2>3, <2>6 DEF FilesInv
  <2>11. next \in Stages => Reading(cf_list'[next], PathsFor(next), cf_todo', env_str')
    <3> SUFFICES ASSUME next \in Stages PROVE Reading(cf_list'[next], PathsFor(next), cf_todo', env_str')
      OBVIOUS
    <3>1. cf_todo' = PathsFor(next)
      <4>1. next # "done"
        BY DEF Stages
      <4> QED
        BY <1>5, <2>1, <2>4, <4>1 DEF EndList
    <3>2. cf_list'[next] = <<>>
      BY <2>3, <2>10
    <3>3. Reading(<<>>, PathsFor(next), PathsFor(next), <<>>)
      BY <1>1, ReadingBegins
    <3> QED
      BY <2>6, <3>1, <3>2, <3>3
  <2>12. next \notin Stages => cf_todo' = <<>> /\ env_str' = <<>>
    BY <1>5, <2>1, <2>3, <2>6 DEF EndList
  <2> QED
    BY <2>1, <2>2, <2>4, <2>8, <2>9, <2>10, <2>11, <2>12 DEF FilesInv
<1>6. CASE DropFiles
  <2>1. /\ cf_stage = "done" /\ cf_stage' = "closed" /\ cf_list' = [s \in Stages |-> <<>>]
        /\ UNCHANGED <<cf_config, cf_todo, cf_lineno, env_str>>
    BY <1>6 DEF DropFiles
  <2>2. "done" \notin Stages /\ "closed" \notin Stages /\ Behind("closed") = {}
    BY DEF Stages, Behind
  <2>3. <<>> \in Seq(Kept)
    <3> HIDE DEF Kept
    <3> QED
      OBVIOUS
  <2>4. FilesTyped'
    BY <1>1, <2>1, <2>3 DEF FilesTyped
  <2> QED
    BY <2>1, <2>2, <2>4 DEF FilesInv
<1> QED
  BY <1>2, <1>3, <1>4, <1>5, <1>6 DEF FilesNext

(* When the files are read, each list has of every name what the first file  *)
(* that gives it says last, and what -x sets in its files; whatever files    *)
(* there are and however often they are read (mca_base_var.c:413-560,        *)
(* 1245-1268, mca_base_parse_paramfile.c:54-97).                             *)
THEOREM FirstFileAlwaysWins == FilesSpec => []FirstFileWins
<1>1. FilesInv => FirstFileWins
  <2> SUFFICES ASSUME FilesInv, cf_stage = "done", cf_config.files # <<"none">>,
                      NEW stage \in Stages, NEW n \in ItemNames \cup {EnvList}
               PROVE  IF n = EnvList /\ SetByFiles(PathsFor(stage)) # <<>>
                      THEN HasOnce(cf_list[stage], n, SetByFiles(PathsFor(stage)), {PathsFor(stage)[1]})
                      ELSE AsFirstSaid(cf_list[stage], PathsFor(stage), n)
    BY DEF FirstFileWins
  <2>1. n \in STRING
    <3>1. CASE n = EnvList
      BY <3>1, EnvListIsName
    <3>2. ASSUME NEW path \in DOMAIN FileOf, NEW i \in DOMAIN FileOf[path], n = FileOf[path][i].name
          PROVE  n \in STRING
      <4>1. FileOf[path] \in Seq(FileItems)
        BY FilesAssumption
      <4>2. i \in 1 .. Len(FileOf[path])
        <5> HIDE DEF FileItems
        <5> QED
          BY <4>1
      <4>3. FileOf[path][i] \in FileItems
        BY <4>1, <4>2, ElementOfSeq
      <4> QED
        BY <3>2, <4>3 DEF FileItems
    <3> QED
      BY <3>1, <3>2 DEF ItemNames
  <2>2. ListDone(cf_list[stage], PathsFor(stage))
    BY DEF FilesInv, Behind
  <2> QED
    BY <2>1, <2>2 DEF ListDone
<1> QED
  BY <1>1, FilesBegin, FilesStep, PTL DEF FilesSpec
-----------------------------------------------------------------------------
(* What a text stands for, token by token.                                   *)
Token == STRING
Ref(j) == Reference[Directories[j]]
References == {Ref(j) : j \in 1 .. Len(Directories)}
PlainToken == Token \ References

LEMMA DirectoryFacts ==
  /\ Len(Directories) \in Nat \ {0} /\ Field = {Directories[j] : j \in 1 .. Len(Directories)}
  /\ \A j \in 1 .. Len(Directories) : Directories[j] \in Field /\ Ref(j) \in Token
  /\ \A j, k \in 1 .. Len(Directories) : Directories[j] = Directories[k] => j = k
  /\ \A j, k \in 1 .. Len(Directories) : Ref(j) = Ref(k) => j = k
<1>1. Directories \in Seq(STRING) /\ Directories # <<>> /\ DOMAIN Directories = 1 .. Len(Directories)
  BY InstallAssumption
<1>2. Len(Directories) \in Nat \ {0}
  BY <1>1
<1>3. Field = {Directories[j] : j \in 1 .. Len(Directories)}
  BY <1>1 DEF Field, ToSet
<1>4. \A j \in 1 .. Len(Directories) : Directories[j] \in Field
  BY <1>3
<1>5. \A j \in 1 .. Len(Directories) : Ref(j) \in Token
  BY <1>4, InstallAssumption DEF Ref, Token
<1>6. \A j, k \in 1 .. Len(Directories) : Directories[j] = Directories[k] => j = k
  BY <1>1, InstallAssumption DEF IsInjective
<1>7. DOMAIN Reference = Field /\ \A f, g \in DOMAIN Reference : Reference[f] = Reference[g] => f = g
  BY InstallAssumption DEF IsInjective
<1>8. \A j, k \in 1 .. Len(Directories) : Ref(j) = Ref(k) => j = k
  BY <1>4, <1>6, <1>7 DEF Ref
<1> QED
  BY <1>2, <1>3, <1>4, <1>5, <1>6, <1>8

LEMMA MeaningIs ==
  ASSUME NEW Out, NEW known \in Seq(Seq(Out)), Len(known) <= Len(Directories), NEW token
  PROVE  /\ \A j \in 1 .. Len(known) : token = Ref(j) => Meaning(token, known) = known[j]
         /\ (\A j \in 1 .. Len(known) : token # Ref(j)) => Meaning(token, known) = <<token>>
<1>1. Len(known) \in Nat /\ Len(Directories) \in Nat
  BY DirectoryFacts
<1>2. ASSUME NEW j \in 1 .. Len(known), token = Ref(j) PROVE Meaning(token, known) = known[j]
  <2>1. j \in RefersToAny(token, Len(known))
    BY <1>2 DEF RefersToAny, Ref
  <2>2. \A k \in RefersToAny(token, Len(known)) : k = j
    <3>1. ASSUME NEW k \in RefersToAny(token, Len(known)) PROVE k = j
      <4>1. k \in 1 .. Len(known) /\ Ref(k) = Ref(j)
        BY <1>2 DEF RefersToAny, Ref
      <4>2. k \in 1 .. Len(Directories) /\ j \in 1 .. Len(Directories)
        BY <1>1, <4>1
      <4> QED
        BY <4>1, <4>2, DirectoryFacts
    <3> QED
      BY <3>1
  <2>3. RefersToAny(token, Len(known)) # {} /\ (CHOOSE k \in RefersToAny(token, Len(known)) : TRUE) = j
    BY <2>1, <2>2
  <2> QED
    BY <2>3 DEF Meaning
<1>3. ASSUME \A j \in 1 .. Len(known) : token # Ref(j) PROVE Meaning(token, known) = <<token>>
  <2>1. RefersToAny(token, Len(known)) = {}
    BY <1>3 DEF RefersToAny, Ref
  <2> QED
    BY <2>1 DEF Meaning
<1> QED
  BY <1>2, <1>3

MeansUp(f, text, known) ==
  f = [k \in 0 .. Len(text) |-> IF k = 0 THEN <<>> ELSE f[k - 1] \o Meaning(text[k], known)]
AllMeans(text, known) == CHOOSE f : MeansUp(f, text, known)

LEMMA MeansExist ==
  ASSUME NEW text, Len(text) \in Nat, NEW known, NEW Out,
         \A k \in 1 .. Len(text) : Meaning(text[k], known) \in Seq(Out)
  PROVE  /\ AllMeans(text, known)[0] = <<>>
         /\ \A k \in 1 .. Len(text) : AllMeans(text, known)[k] = AllMeans(text, known)[k - 1] \o Meaning(text[k], known)
         /\ MeaningOf(text, known) = AllMeans(text, known)[Len(text)]
         /\ \A k \in 0 .. Len(text) : AllMeans(text, known)[k] \in Seq(Out)
<1> DEFINE n == Len(text)
           S == Seq(Out)
           m(k) == Meaning(text[k], known)
           step == [k \in 1 .. n |-> [s \in S |-> s \o m(k)]]
           f == AllMeans(text, known)
<1>1. n \in Nat /\ \A k \in 1 .. n : m(k) \in S
  OBVIOUS
<1>2. <<>> \in S
  OBVIOUS
<1>3. \A k \in 1 .. n : \A s \in S : s \o m(k) \in S
  BY <1>1, ConcatProperties
<1> HIDE DEF S, m
<1>4. step \in [1 .. n -> [S -> S]] /\ \A k \in 1 .. n : \A s \in S : step[k][s] = s \o m(k)
  BY <1>3
<1> HIDE DEF n, step, f
<1>5. PICK w : Iterates(w, <<>>, step, n) /\ \A k \in 0 .. n : w[k] \in S
  BY <1>1, <1>2, <1>4, IteratesWithin
<1>6. ASSUME NEW k \in 0 .. n PROVE w[k] = IF k = 0 THEN <<>> ELSE w[k - 1] \o m(k)
  <2>1. CASE k = 0
    BY <1>5, <2>1 DEF Iterates
  <2>2. CASE k # 0
    <3>1. k \in 1 .. n /\ k - 1 \in 0 .. n
      BY <1>1, <2>2
    <3>2. w[k] = step[k][w[k - 1]]
      BY <1>5, <3>1 DEF Iterates
    <3> QED
      BY <1>4, <1>5, <2>2, <3>1, <3>2
  <2> QED
    BY <2>1, <2>2
<1>7. w = [k \in 0 .. n |-> w[k]]
  BY <1>5 DEF Iterates
<1>8. MeansUp(w, text, known)
  <2>1. w = [k \in 0 .. n |-> IF k = 0 THEN <<>> ELSE w[k - 1] \o m(k)]
    BY <1>6, <1>7
  <2> QED
    BY <2>1 DEF MeansUp, n, m
<1>9. MeansUp(f, text, known)
  BY <1>8 DEF AllMeans, f
<1>10. f = [k \in 0 .. n |-> IF k = 0 THEN <<>> ELSE f[k - 1] \o m(k)]
  BY <1>9 DEF MeansUp, n, m
<1>11. \A k \in 0 .. n : f[k] = IF k = 0 THEN <<>> ELSE f[k - 1] \o m(k)
  BY <1>10
<1>12. f[0] = <<>>
  <2>1. 0 \in 0 .. n
    BY <1>1
  <2>2. f[0] = IF 0 = 0 THEN <<>> ELSE f[0 - 1] \o m(0)
    BY <1>11, <2>1, Zenon
  <2> QED
    BY <2>2
<1>13. \A k \in 1 .. n : f[k] = f[k - 1] \o m(k)
  <2>1. \A k \in 1 .. n : k \in 0 .. n /\ k # 0
    BY <1>1
  <2> QED
    BY <1>11, <2>1
<1>14. \A k \in 0 .. n : f[k] \in S
  <2> DEFINE R == {k \in 0 .. n : \A j \in 0 .. k : f[j] \in S}
  <2>1. 0 \in R
    <3>1. \A j \in 0 .. 0 : j = 0
      OBVIOUS
    <3> QED
      BY <1>1, <1>2, <1>12, <3>1
  <2>2. ASSUME NEW k \in 1 .. n, k - 1 \in R PROVE k \in R
    <3>1. k \in 0 .. n /\ k - 1 \in 0 .. k - 1 /\ \A j \in 0 .. k : j \in 0 .. k - 1 \/ j = k
      BY <1>1
    <3>2. f[k - 1] \in S
      BY <2>2, <3>1
    <3>3. f[k] \in S
      BY <1>3, <1>13, <3>2
    <3> QED
      BY <2>2, <3>1, <3>3
  <2>3. R \in SUBSET (0 .. n)
    OBVIOUS
  <2>4. n \in R
    <3> HIDE DEF R
    <3> QED
      BY <1>1, <2>1, <2>2, <2>3, CountedUp
  <2> QED
    BY <2>4
<1>15. MeaningOf(text, known) = f[n]
  BY DEF MeaningOf, AllMeans, MeansUp, f, n
<1> QED
  BY <1>12, <1>13, <1>14, <1>15 DEF f, n, S, m

Means(known, Out) == \A c \in Token : Meaning(c, known) \in Seq(Out)
LEMMA MeaningFront ==
  ASSUME NEW known, NEW Out, Means(known, Out), NEW text \in Seq(Token), NEW c \in Token
  PROVE  /\ MeaningOf(<<>>, known) = <<>> /\ MeaningOf(text, known) \in Seq(Out)
         /\ MeaningOf(Last1(text, c), known) = MeaningOf(text, known) \o Meaning(c, known)
<1> DEFINE n == Len(text)
           t == Last1(text, c)
           f == AllMeans(text, known)
           g == AllMeans(t, known)
<1>1. n \in Nat /\ \A k \in 1 .. n : text[k] \in Token
  BY ElementOfSeq
<1>2. t \in Seq(Token) /\ Len(t) = n + 1 /\ (\A i \in 1 .. n : t[i] = text[i]) /\ t[n + 1] = c
  BY AppendTyped DEF Last1
<1> HIDE DEF t
<1>3. \A k \in 1 .. Len(t) : t[k] \in Token
  BY <1>2, ElementOfSeq
<1>4. /\ f[0] = <<>> /\ \A k \in 1 .. n : f[k] = f[k - 1] \o Meaning(text[k], known)
      /\ MeaningOf(text, known) = f[n] /\ \A k \in 0 .. n : f[k] \in Seq(Out)
  <2>1. \A k \in 1 .. Len(text) : Meaning(text[k], known) \in Seq(Out)
    BY <1>1 DEF Means
  <2> QED
    BY <1>1, <2>1, MeansExist
<1>5. /\ g[0] = <<>> /\ \A k \in 1 .. n + 1 : g[k] = g[k - 1] \o Meaning(t[k], known)
      /\ MeaningOf(t, known) = g[n + 1]
  <2>1. \A k \in 1 .. Len(t) : Meaning(t[k], known) \in Seq(Out)
    BY <1>3 DEF Means
  <2>2. Len(t) \in Nat
    BY <1>1, <1>2
  <2>3. /\ g[0] = <<>> /\ \A k \in 1 .. Len(t) : g[k] = g[k - 1] \o Meaning(t[k], known)
        /\ MeaningOf(t, known) = g[Len(t)]
    BY <2>1, <2>2, MeansExist
  <2> HIDE DEF g, n
  <2> QED
    BY <1>2, <2>3
<1>6. MeaningOf(<<>>, known) = <<>>
  <2> DEFINE z == <<>>
  <2>1. Len(z) = 0 /\ Len(z) \in Nat /\ \A k \in 1 .. Len(z) : Meaning(z[k], known) \in Seq(Out)
    OBVIOUS
  <2> HIDE DEF z
  <2>2. AllMeans(z, known)[0] = <<>> /\ MeaningOf(z, known) = AllMeans(z, known)[Len(z)]
    BY <2>1, MeansExist
  <2>3. MeaningOf(z, known) = <<>>
    BY <2>1, <2>2
  <2> QED
    BY <2>3 DEF z
<1> HIDE DEF n, f, g
<1>7. g[n] = f[n]
  <2> DEFINE R == {k \in 0 .. n : g[k] = f[k]}
  <2>1. 0 \in R
    BY <1>1, <1>4, <1>5
  <2>2. ASSUME NEW k \in 1 .. n, k - 1 \in R PROVE k \in R
    <3>1. k \in 0 .. n /\ k \in 1 .. n + 1 /\ g[k - 1] = f[k - 1]
      BY <1>1, <2>2
    <3> QED
      BY <1>2, <1>4, <1>5, <3>1
  <2>3. R \in SUBSET (0 .. n)
    OBVIOUS
  <2>4. n \in R
    <3> HIDE DEF R
    <3> QED
      BY <1>1, <2>1, <2>2, <2>3, CountedUp
  <2> QED
    BY <2>4
<1>8. g[n + 1] = g[n] \o Meaning(c, known)
  <2> DEFINE k == n + 1
  <2>1. k \in 1 .. n + 1 /\ k - 1 = n /\ t[k] = c
    BY <1>1, <1>2
  <2> HIDE DEF k
  <2>2. g[k] = g[k - 1] \o Meaning(t[k], known)
    BY <1>5, <2>1
  <2>3. g[k] = g[n] \o Meaning(c, known)
    BY <2>1, <2>2
  <2> QED
    BY <2>3 DEF k
<1>9. f[n] \in Seq(Out)
  <2>1. n \in 0 .. n
    BY <1>1
  <2> QED
    BY <1>4, <2>1
<1> QED
  BY <1>4, <1>5, <1>6, <1>7, <1>8, <1>9 DEF t

LEMMA MeaningConcat ==
  ASSUME NEW known, NEW Out, Means(known, Out), NEW a \in Seq(Token), NEW b \in Seq(Token)
  PROVE  MeaningOf(a \o b, known) = MeaningOf(a, known) \o MeaningOf(b, known)
<1> DEFINE n == Len(b)
           A(k) == Prefixed(a, b, k)
           B(k) == Prefixed(<<>>, b, k)
           R == {k \in 0 .. n : MeaningOf(A(k), known) = MeaningOf(a, known) \o MeaningOf(B(k), known)}
<1>1. n \in Nat /\ <<>> \in Seq(Token) /\ \A k \in 1 .. n : b[k] \in Token
  BY ElementOfSeq
<1>2. MeaningOf(a, known) \in Seq(Out)
  <2>1. PICK c : c \in Token
    <3>1. 1 \in 1 .. Len(Directories)
      BY DirectoryFacts
    <3> QED
      BY <3>1, DirectoryFacts
  <2> QED
    BY <2>1, MeaningFront
<1>3. MeaningOf(<<>>, known) = <<>>
  <2>1. PICK c : c \in Token
    <3>1. 1 \in 1 .. Len(Directories)
      BY DirectoryFacts
    <3> QED
      BY <3>1, DirectoryFacts
  <2> QED
    BY <2>1, MeaningFront
<1>4. A(0) = a /\ A(n) = a \o b /\ B(0) = <<>> /\ B(n) = <<>> \o b
  BY <1>1, TakenIs
<1>5. <<>> \o b = b
  BY ConcatEmptySeq
<1>6. \A k \in 0 .. n : A(k) \in Seq(Token) /\ B(k) \in Seq(Token)
  BY <1>1, TakenIs
<1>7. \A k \in 1 .. n : A(k) = Last1(A(k - 1), b[k]) /\ B(k) = Last1(B(k - 1), b[k])
  BY <1>1, TakenNext
<1> HIDE DEF A, B
<1>8. 0 \in R
  <2>1. MeaningOf(a, known) \o <<>> = MeaningOf(a, known)
    BY <1>2, ConcatEmptySeq
  <2>2. MeaningOf(B(0), known) = <<>> /\ MeaningOf(A(0), known) = MeaningOf(a, known)
    BY <1>3, <1>4
  <2>3. MeaningOf(A(0), known) = MeaningOf(a, known) \o MeaningOf(B(0), known)
    BY <2>1, <2>2
  <2>4. 0 \in 0 .. n
    BY <1>1
  <2> QED
    BY <2>3, <2>4
<1>9. ASSUME NEW k \in 1 .. n, k - 1 \in R PROVE k \in R
  <2> DEFINE x == A(k - 1)
             y == B(k - 1)
             c == b[k]
  <2>1. k \in 0 .. n /\ k - 1 \in 0 .. n
    BY <1>1
  <2>2. x \in Seq(Token) /\ y \in Seq(Token) /\ c \in Token
    BY <1>1, <1>6, <2>1
  <2>3. A(k) = Last1(x, c) /\ B(k) = Last1(y, c)
    BY <1>7
  <2>4. MeaningOf(x, known) = MeaningOf(a, known) \o MeaningOf(y, known)
    BY <1>9
  <2> HIDE DEF x, y, c, R
  <2>5. MeaningOf(A(k), known) = MeaningOf(x, known) \o Meaning(c, known)
    BY <2>2, <2>3, MeaningFront
  <2>6. MeaningOf(B(k), known) = MeaningOf(y, known) \o Meaning(c, known)
    BY <2>2, <2>3, MeaningFront
  <2>7. MeaningOf(y, known) \in Seq(Out) /\ Meaning(c, known) \in Seq(Out)
    BY <2>2, MeaningFront DEF Means
  <2>8. (MeaningOf(a, known) \o MeaningOf(y, known)) \o Meaning(c, known) =
          MeaningOf(a, known) \o (MeaningOf(y, known) \o Meaning(c, known))
    BY <1>2, <2>7, ConcatAssociative
  <2>9. MeaningOf(A(k), known) = MeaningOf(a, known) \o MeaningOf(B(k), known)
    BY <2>4, <2>5, <2>6, <2>8
  <2> QED
    BY <2>1, <2>9 DEF R
<1>10. R \in SUBSET (0 .. n)
  OBVIOUS
<1>11. n \in R
  <2> HIDE DEF R, n
  <2> QED
    BY <1>1, <1>8, <1>9, <1>10, CountedUp
<1> QED
  BY <1>4, <1>5, <1>11

(* A text without references stands for itself.                              *)
LEMMA MeaningPlain ==
  ASSUME NEW known, NEW Out, Means(known, Out), NEW Plain_, Plain_ \subseteq Token,
         \A c \in Plain_ : Meaning(c, known) = <<c>>, NEW text \in Seq(Plain_)
  PROVE  MeaningOf(text, known) = text
<1> DEFINE n == Len(text)
           B(k) == Prefixed(<<>>, text, k)
           R == {k \in 0 .. n : MeaningOf(B(k), known) = B(k)}
<1>1. n \in Nat /\ <<>> \in Seq(Plain_) /\ \A k \in 1 .. n : text[k] \in Plain_
  BY ElementOfSeq
<1>2. MeaningOf(<<>>, known) = <<>>
  <2>1. PICK c : c \in Token
    <3>1. 1 \in 1 .. Len(Directories)
      BY DirectoryFacts
    <3> QED
      BY <3>1, DirectoryFacts
  <2>2. <<>> \in Seq(Token)
    OBVIOUS
  <2> QED
    BY <2>1, <2>2, MeaningFront
<1>3. B(0) = <<>> /\ B(n) = <<>> \o text
  BY <1>1, TakenIs
<1>4. <<>> \o text = text
  BY ConcatEmptySeq
<1>5. \A k \in 0 .. n : B(k) \in Seq(Plain_)
  BY <1>1, TakenIs
<1>6. \A k \in 1 .. n : B(k) = Last1(B(k - 1), text[k])
  BY <1>1, TakenNext
<1> HIDE DEF B
<1>7. 0 \in R
  BY <1>1, <1>2, <1>3
<1>8. ASSUME NEW k \in 1 .. n, k - 1 \in R PROVE k \in R
  <2> DEFINE y == B(k - 1)
             c == text[k]
  <2>1. k \in 0 .. n /\ k - 1 \in 0 .. n
    BY <1>1
  <2>2. y \in Seq(Plain_) /\ c \in Plain_ /\ c \in Token
    BY <1>1, <1>5, <2>1
  <2>3. y \in Seq(Token)
    <3>1. \A i \in 1 .. Len(y) : y[i] \in Token
      <4>1. \A i \in 1 .. Len(y) : y[i] \in Plain_
        BY <2>2, ElementOfSeq
      <4> QED
        BY <4>1
    <3> HIDE DEF y
    <3> QED
      BY <2>2, <3>1, SeqMonotonic
  <2>4. B(k) = Last1(y, c) /\ MeaningOf(y, known) = y
    BY <1>6, <1>8
  <2> HIDE DEF y, c, R
  <2>5. MeaningOf(B(k), known) = y \o Meaning(c, known)
    BY <2>2, <2>3, <2>4, MeaningFront
  <2>6. y \o <<c>> = Last1(y, c)
    BY <2>2, AppendIsConcat DEF Last1
  <2>7. MeaningOf(B(k), known) = B(k)
    BY <2>2, <2>4, <2>5, <2>6
  <2> QED
    BY <2>1, <2>7 DEF R
<1>9. R \in SUBSET (0 .. n)
  OBVIOUS
<1>10. n \in R
  <2> HIDE DEF R, n
  <2> QED
    BY <1>1, <1>7, <1>8, <1>9, CountedUp
<1> QED
  BY <1>3, <1>4, <1>10

LEMMA MeaningAgrees ==
  ASSUME NEW text, Len(text) \in Nat, NEW known, NEW more, NEW Out,
         \A k \in 1 .. Len(text) : Meaning(text[k], known) \in Seq(Out) /\ Meaning(text[k], more) = Meaning(text[k], known)
  PROVE  MeaningOf(text, more) = MeaningOf(text, known) /\ MeaningOf(text, known) \in Seq(Out)
<1> DEFINE n == Len(text)
           f == AllMeans(text, known)
           g == AllMeans(text, more)
           R == {k \in 0 .. n : g[k] = f[k]}
<1>1. n \in Nat
  OBVIOUS
<1>2. /\ f[0] = <<>> /\ \A k \in 1 .. n : f[k] = f[k - 1] \o Meaning(text[k], known)
      /\ MeaningOf(text, known) = f[n] /\ \A k \in 0 .. n : f[k] \in Seq(Out)
  BY MeansExist
<1>3. /\ g[0] = <<>> /\ \A k \in 1 .. n : g[k] = g[k - 1] \o Meaning(text[k], more)
      /\ MeaningOf(text, more) = g[n]
  <2>1. \A k \in 1 .. Len(text) : Meaning(text[k], more) \in Seq(Out)
    OBVIOUS
  <2> QED
    BY <2>1, MeansExist
<1>4. \A k \in 1 .. n : Meaning(text[k], more) = Meaning(text[k], known)
  OBVIOUS
<1> HIDE DEF n, f, g
<1>5. 0 \in R
  BY <1>1, <1>2, <1>3
<1>6. ASSUME NEW k \in 1 .. n, k - 1 \in R PROVE k \in R
  <2>1. k \in 0 .. n /\ g[k - 1] = f[k - 1]
    BY <1>1, <1>6
  <2> QED
    BY <1>2, <1>3, <1>4, <2>1
<1>7. R \in SUBSET (0 .. n)
  OBVIOUS
<1>8. n \in R
  <2> HIDE DEF R
  <2> QED
    BY <1>1, <1>5, <1>6, <1>7, CountedUp
<1>9. n \in 0 .. n
  BY <1>1
<1> QED
  BY <1>2, <1>3, <1>8, <1>9
-----------------------------------------------------------------------------
(* What the directories stand for, one after the other.                      *)
SetBy(e, f) == IF e[f] # <<>> THEN e[f] ELSE Configured[f]
KnownUp(w, e) ==
  w = [k \in 0 .. Len(Directories) |->
         IF k = 0 THEN <<>> ELSE Append(w[k - 1], MeaningOf(SetBy(e, Directories[k]), w[k - 1]))]
AllKnown(e) == CHOOSE w : KnownUp(w, e)
MeaningBy(e) == AllKnown(e)[Len(Directories)]

LEMMA StandsForIs == StandsFor = MeaningBy(id_env) /\ \A f : Set(f) = SetBy(id_env, f)
BY DEF StandsFor, MeaningBy, AllKnown, KnownUp, Set, SetBy, EnvGives

LEMMA SetTyped ==
  ASSUME NEW e \in Environments, NEW f \in Field
  PROVE  SetBy(e, f) \in Seq(Token) /\ Len(SetBy(e, f)) \in Nat
         /\ \A k \in 1 .. Len(SetBy(e, f)) : SetBy(e, f)[k] \in Token
<1>1. SetBy(e, f) \in Seq(Token)
  BY InstallAssumption DEF SetBy, Token
<1> DEFINE s == SetBy(e, f)
<1> HIDE DEF s
<1>2. s \in Seq(Token)
  BY <1>1 DEF s
<1>3. Len(s) \in Nat /\ \A k \in 1 .. Len(s) : s[k] \in Token
  BY <1>2, ElementOfSeq
<1> QED
  BY <1>1, <1>3 DEF s

LEMMA MeaningTyped ==
  ASSUME NEW known \in Seq(Seq(Token))
  PROVE  Means(known, Token)
<1>1. ASSUME NEW c \in Token PROVE Meaning(c, known) \in Seq(Token)
  <2> DEFINE referred == RefersToAny(c, Len(known))
             j == CHOOSE k \in referred : TRUE
  <2>1. CASE referred = {}
    <3>1. Meaning(c, known) = <<c>>
      BY <2>1 DEF Meaning
    <3> QED
      BY <3>1, OneElement
  <2>2. CASE referred # {}
    <3>1. j \in referred
      BY <2>2
    <3>2. j \in 1 .. Len(known)
      BY <3>1 DEF RefersToAny
    <3>3. Meaning(c, known) = known[j]
      BY <2>2 DEF Meaning
    <3> HIDE DEF j
    <3>4. known[j] \in Seq(Token)
      BY <3>2, ElementOfSeq
    <3> QED
      BY <3>3, <3>4
  <2> QED
    BY <2>1, <2>2
<1> QED
  BY <1>1 DEF Means

LEMMA MeaningOfTyped ==
  ASSUME NEW known \in Seq(Seq(Token)), NEW text \in Seq(Token)
  PROVE  MeaningOf(text, known) \in Seq(Token)
<1>1. PICK c : c \in Token
  <2>1. 1 \in 1 .. Len(Directories)
    BY DirectoryFacts
  <2> QED
    BY <2>1, DirectoryFacts
<1>2. Means(known, Token)
  BY MeaningTyped
<1> QED
  BY <1>1, <1>2, MeaningFront

LEMMA KnownExist ==
  ASSUME NEW e \in Environments
  PROVE  /\ AllKnown(e)[0] = <<>>
         /\ \A k \in 1 .. Len(Directories) :
              AllKnown(e)[k] = Last1(AllKnown(e)[k - 1], MeaningOf(SetBy(e, Directories[k]), AllKnown(e)[k - 1]))
         /\ \A k \in 0 .. Len(Directories) : AllKnown(e)[k] \in Seq(Seq(Token)) /\ Len(AllKnown(e)[k]) = k
<1> DEFINE n == Len(Directories)
           S == Seq(Seq(Token))
           Step(k, s) == Append(s, MeaningOf(SetBy(e, Directories[k]), s))
           step == [k \in 1 .. n |-> [s \in S |-> Step(k, s)]]
           f == AllKnown(e)
<1>1. n \in Nat
  BY DirectoryFacts
<1>2. <<>> \in S /\ Len(<<>>) = 0
  OBVIOUS
<1>3. ASSUME NEW k \in 1 .. n, NEW s \in S PROVE Step(k, s) \in S /\ Len(Step(k, s)) = Len(s) + 1
  <2>1. SetBy(e, Directories[k]) \in Seq(Token)
    <3>1. Directories[k] \in Field
      BY DirectoryFacts
    <3> QED
      BY <3>1, SetTyped
  <2>2. MeaningOf(SetBy(e, Directories[k]), s) \in Seq(Token)
    BY <2>1, MeaningOfTyped
  <2> QED
    BY <2>2, AppendTyped
<1> HIDE DEF S, Step
<1>4. step \in [1 .. n -> [S -> S]] /\ \A k \in 1 .. n : \A s \in S : step[k][s] = Step(k, s)
  BY <1>3
<1> HIDE DEF n, step, f
<1>5. PICK w : Iterates(w, <<>>, step, n) /\ \A k \in 0 .. n : w[k] \in S
  BY <1>1, <1>2, <1>4, IteratesWithin
<1>6. ASSUME NEW k \in 0 .. n PROVE w[k] = IF k = 0 THEN <<>> ELSE Step(k, w[k - 1])
  <2>1. CASE k = 0
    BY <1>5, <2>1 DEF Iterates
  <2>2. CASE k # 0
    <3>1. k \in 1 .. n /\ k - 1 \in 0 .. n
      BY <1>1, <2>2
    <3>2. w[k] = step[k][w[k - 1]]
      BY <1>5, <3>1 DEF Iterates
    <3> QED
      BY <1>4, <1>5, <2>2, <3>1, <3>2
  <2> QED
    BY <2>1, <2>2
<1>7. w = [k \in 0 .. n |-> w[k]]
  BY <1>5 DEF Iterates
<1>8. KnownUp(w, e)
  <2>1. w = [k \in 0 .. n |-> IF k = 0 THEN <<>> ELSE Step(k, w[k - 1])]
    BY <1>6, <1>7
  <2> QED
    BY <2>1 DEF KnownUp, n, Step
<1>9. KnownUp(f, e)
  BY <1>8 DEF AllKnown, f
<1>10. f = [k \in 0 .. n |-> IF k = 0 THEN <<>> ELSE Step(k, f[k - 1])]
  BY <1>9 DEF KnownUp, n, Step
<1>11. \A k \in 0 .. n : f[k] = IF k = 0 THEN <<>> ELSE Step(k, f[k - 1])
  BY <1>10
<1>12. f[0] = <<>>
  <2>1. 0 \in 0 .. n
    BY <1>1
  <2>2. f[0] = IF 0 = 0 THEN <<>> ELSE Step(0, f[0 - 1])
    BY <1>11, <2>1, Zenon
  <2> QED
    BY <2>2
<1>13. \A k \in 1 .. n : f[k] = Step(k, f[k - 1])
  <2>1. \A k \in 1 .. n : k \in 0 .. n /\ k # 0
    BY <1>1
  <2> QED
    BY <1>11, <2>1
<1>14. \A k \in 0 .. n : f[k] \in S /\ Len(f[k]) = k
  <2> DEFINE R == {k \in 0 .. n : \A j \in 0 .. k : f[j] \in S /\ Len(f[j]) = j}
  <2>1. 0 \in R
    <3>1. \A j \in 0 .. 0 : j = 0
      OBVIOUS
    <3> QED
      BY <1>1, <1>2, <1>12, <3>1
  <2>2. ASSUME NEW k \in 1 .. n, k - 1 \in R PROVE k \in R
    <3>1. k \in 0 .. n /\ k - 1 \in 0 .. k - 1 /\ \A j \in 0 .. k : j \in 0 .. k - 1 \/ j = k
      BY <1>1
    <3>2. f[k - 1] \in S /\ Len(f[k - 1]) = k - 1
      BY <2>2, <3>1
    <3>3. f[k] \in S /\ Len(f[k]) = Len(f[k - 1]) + 1
      BY <1>3, <1>13, <3>2
    <3>4. Len(f[k]) = k
      BY <3>2, <3>3
    <3> QED
      BY <2>2, <3>1, <3>3, <3>4
  <2>3. R \in SUBSET (0 .. n)
    OBVIOUS
  <2>4. n \in R
    <3> HIDE DEF R
    <3> QED
      BY <1>1, <2>1, <2>2, <2>3, CountedUp
  <2> QED
    BY <2>4
<1> QED
  BY <1>12, <1>13, <1>14 DEF f, n, S, Step, Last1

LEMMA KnownStays ==
  ASSUME NEW e \in Environments, NEW k \in 0 .. Len(Directories), NEW j \in 1 .. k
  PROVE  AllKnown(e)[k][j] = AllKnown(e)[j][j]
<1> DEFINE n == Len(Directories)
           w == AllKnown(e)
           R == {m \in 0 .. n : \A i \in 1 .. m : w[m][i] = w[i][i]}
<1>1. n \in Nat
  BY DirectoryFacts
<1>2. \A m \in 1 .. n : w[m] = Last1(w[m - 1], MeaningOf(SetBy(e, Directories[m]), w[m - 1]))
  BY KnownExist
<1>3. \A m \in 0 .. n : w[m] \in Seq(Seq(Token)) /\ Len(w[m]) = m
  BY KnownExist
<1>4. \A m \in 1 .. n : MeaningOf(SetBy(e, Directories[m]), w[m - 1]) \in Seq(Token)
  <2>1. ASSUME NEW m \in 1 .. n PROVE MeaningOf(SetBy(e, Directories[m]), w[m - 1]) \in Seq(Token)
    <3>1. Directories[m] \in Field /\ m - 1 \in 0 .. n
      BY <1>1, DirectoryFacts
    <3>2. SetBy(e, Directories[m]) \in Seq(Token)
      BY <3>1, SetTyped
    <3>3. w[m - 1] \in Seq(Seq(Token))
      BY <1>3, <3>1
    <3> HIDE DEF w
    <3> QED
      BY <3>2, <3>3, MeaningOfTyped
  <2> QED
    BY <2>1
<1> HIDE DEF w, n
<1>5. 0 \in R
  BY <1>1
<1>6. ASSUME NEW m \in 1 .. n, m - 1 \in R PROVE m \in R
  <2> DEFINE s == w[m - 1]
             x == MeaningOf(SetBy(e, Directories[m]), w[m - 1])
  <2>1. m - 1 \in 0 .. n /\ m \in 0 .. n
    BY <1>1
  <2>2. s \in Seq(Seq(Token)) /\ Len(s) = m - 1 /\ x \in Seq(Token) /\ w[m] = Last1(s, x)
    BY <1>2, <1>3, <1>4, <2>1
  <2>3. \A i \in 1 .. m - 1 : s[i] = w[i][i]
    BY <1>6
  <2> HIDE DEF s, x, R
  <2>4. \A i \in 1 .. Len(s) : w[m][i] = s[i]
    BY <2>2, AppendTyped DEF Last1
  <2>5. ASSUME NEW i \in 1 .. m PROVE w[m][i] = w[i][i]
    <3>1. CASE i = m
      BY <3>1
    <3>2. CASE i # m
      <4>1. i \in 1 .. m - 1 /\ i \in 1 .. Len(s)
        BY <2>2, <3>2
      <4> QED
        BY <2>3, <2>4, <4>1
    <3> QED
      BY <3>1, <3>2
  <2> QED
    BY <2>1, <2>5 DEF R
<1>7. ASSUME NEW m \in 0 .. n PROVE m \in R
  <2>1. m \in Nat
    BY <1>1
  <2> DEFINE Q == R \cap (0 .. m)
  <2>2. 0 \in Q /\ Q \in SUBSET (0 .. m)
    BY <1>5, <2>1
  <2>3. ASSUME NEW i \in 1 .. m, i - 1 \in Q PROVE i \in Q
    <3>1. i \in 1 .. n /\ i - 1 \in R /\ i \in 0 .. m
      BY <1>1, <2>3
    <3>2. i \in R
      BY <1>6, <3>1
    <3> QED
      BY <3>1, <3>2
  <2>4. m \in Q
    <3> HIDE DEF Q
    <3> QED
      BY <2>1, <2>2, <2>3, CountedUp
  <2> QED
    BY <2>4
<1>8. k \in 0 .. n
  BY DEF n
<1>9. k \in R
  BY <1>7, <1>8
<1> QED
  BY <1>9 DEF w
-----------------------------------------------------------------------------
(* The tokens that do not refer to directory i or a later one.               *)
Low(i) == Token \ {Ref(j) : j \in i .. Len(Directories)}
BackwardBy(e) == \A k \in 1 .. Len(Directories) : SetBy(e, Directories[k]) \in Seq(Low(k))

LEMMA LowTokens ==
  /\ PlainToken = Low(1) /\ Low(Len(Directories) + 1) = Token
  /\ \A i \in 1 .. Len(Directories) + 1 : PlainToken \subseteq Low(i) /\ Low(i) \subseteq Token
  /\ \A i \in 1 .. Len(Directories) : \A c \in Low(i + 1) : c \in Low(i) \/ c = Ref(i)
<1> DEFINE n == Len(Directories)
<1>1. n \in Nat \ {0}
  BY DirectoryFacts
<1>2. PlainToken = Low(1)
  BY DEF PlainToken, Low, References
<1>3. \A i \in 1 .. n + 1 : i .. n \subseteq 1 .. n
  BY <1>1
<1>4. \A i \in 1 .. n + 1 : PlainToken \subseteq Low(i) /\ Low(i) \subseteq Token
  BY <1>3 DEF PlainToken, Low, References
<1>5. n + 1 .. n = {}
  BY <1>1
<1>6. Low(n + 1) = Token
  BY <1>5 DEF Low
<1>7. ASSUME NEW i \in 1 .. n, NEW c \in Low(i + 1) PROVE c \in Low(i) \/ c = Ref(i)
  <2>1. \A j \in i .. n : j = i \/ j \in i + 1 .. n
    BY <1>1
  <2> QED
    BY <2>1 DEF Low
<1> QED
  BY <1>2, <1>4, <1>6, <1>7

LEMMA BackwardIs ==
  ASSUME id_env \in Environments, Backward
  PROVE  BackwardBy(id_env)
<1> SUFFICES ASSUME NEW k \in 1 .. Len(Directories)
             PROVE  SetBy(id_env, Directories[k]) \in Seq(Low(k))
  BY DEF BackwardBy
<1> DEFINE n == Len(Directories)
           s == SetBy(id_env, Directories[k])
<1>1. n \in Nat \ {0} /\ DOMAIN Directories = 1 .. n
  BY DirectoryFacts, InstallAssumption
<1>2. s \in Seq(Token) /\ Len(s) \in Nat /\ \A p \in 1 .. Len(s) : s[p] \in Token
  BY DirectoryFacts, SetTyped
<1>3. Set(Directories[k]) = s
  BY StandsForIs
<1>4. RefersTo(Directories[k]) \subseteq {Directories[j] : j \in 1 .. k - 1}
  BY <1>1 DEF Backward
<1> HIDE DEF s
<1>5. ASSUME NEW p \in 1 .. Len(s), NEW j \in k .. n, s[p] = Ref(j) PROVE FALSE
  <2>1. j \in 1 .. n
    BY <1>1
  <2>2. Directories[j] \in Field
    BY <2>1, DirectoryFacts
  <2>3. Contains(Set(Directories[k]), Reference[Directories[j]])
    BY <1>3, <1>5 DEF Contains, Ref
  <2>4. Directories[j] \in RefersTo(Directories[k])
    BY <2>2, <2>3 DEF RefersTo
  <2>5. PICK m \in 1 .. k - 1 : Directories[j] = Directories[m]
    BY <1>4, <2>4
  <2>6. m \in 1 .. n /\ m # j
    BY <1>1, <2>5
  <2> QED
    BY <2>1, <2>5, <2>6, DirectoryFacts
<1>6. \A p \in 1 .. Len(s) : s[p] \in Low(k)
  BY <1>2, <1>5 DEF Low
<1>7. s \in Seq(Low(k))
  BY <1>2, <1>6, SeqMonotonic
<1> QED
  BY <1>7 DEF s

LEMMA MeaningLow ==
  ASSUME NEW known \in Seq(Seq(PlainToken)), Len(known) <= Len(Directories),
         NEW i \in 1 .. Len(known) + 1, NEW c \in Low(i)
  PROVE  /\ Meaning(c, known) \in Seq(PlainToken)
         /\ \/ \E j \in 1 .. i - 1 : c = Ref(j) /\ Meaning(c, known) = known[j]
            \/ c \in PlainToken /\ Meaning(c, known) = <<c>>
<1>1. Len(known) \in Nat /\ Len(Directories) \in Nat /\ i \in 1 .. Len(Directories) + 1
  BY DirectoryFacts
<1>2. /\ \A j \in 1 .. Len(known) : c = Ref(j) => Meaning(c, known) = known[j]
      /\ (\A j \in 1 .. Len(known) : c # Ref(j)) => Meaning(c, known) = <<c>>
  BY MeaningIs
<1>3. \A j \in i .. Len(Directories) : c # Ref(j)
  BY DEF Low
<1>4. c \in Token
  BY DEF Low
<1>5. CASE \E j \in 1 .. i - 1 : c = Ref(j)
  <2>1. PICK j \in 1 .. i - 1 : c = Ref(j)
    BY <1>5
  <2>2. j \in 1 .. Len(known)
    BY <1>1, <2>1
  <2>3. Meaning(c, known) = known[j]
    BY <1>2, <2>1, <2>2
  <2>4. known[j] \in Seq(PlainToken)
    BY <2>2, ElementOfSeq
  <2> QED
    BY <2>1, <2>3, <2>4
<1>6. CASE ~\E j \in 1 .. i - 1 : c = Ref(j)
  <2>1. \A j \in 1 .. Len(Directories) : j \in 1 .. i - 1 \/ j \in i .. Len(Directories)
    BY <1>1
  <2>2. \A j \in 1 .. Len(Directories) : c # Ref(j)
    BY <1>3, <1>6, <2>1
  <2>3. c \in PlainToken
    BY <1>4, <2>2 DEF PlainToken, References
  <2>4. \A j \in 1 .. Len(known) : j \in 1 .. Len(Directories)
    BY <1>1
  <2>5. Meaning(c, known) = <<c>>
    BY <1>2, <2>2, <2>4
  <2>6. <<c>> \in Seq(PlainToken)
    BY <2>3, OneElement
  <2> QED
    BY <2>3, <2>5, <2>6
<1> QED
  BY <1>5, <1>6

Resolves(M, e) ==
  /\ M \in Seq(Seq(PlainToken)) /\ Len(M) = Len(Directories)
  /\ \A k \in 1 .. Len(Directories) : MeaningOf(SetBy(e, Directories[k]), M) = M[k]

LEMMA BackwardResolves ==
  ASSUME NEW e \in Environments, BackwardBy(e)
  PROVE  Resolves(MeaningBy(e), e)
<1> DEFINE n == Len(Directories)
           w == AllKnown(e)
           text(k) == SetBy(e, Directories[k])
           Plains == {k \in 0 .. n : w[k] \in Seq(Seq(PlainToken))}
           M == w[n]
<1>1. n \in Nat \ {0}
  BY DirectoryFacts
<1>2. /\ w[0] = <<>>
      /\ \A k \in 1 .. n : w[k] = Last1(w[k - 1], MeaningOf(text(k), w[k - 1]))
      /\ \A k \in 0 .. n : w[k] \in Seq(Seq(Token)) /\ Len(w[k]) = k
  BY KnownExist
<1>3. \A k \in 0 .. n : \A j \in 1 .. k : w[k][j] = w[j][j]
  BY KnownStays
<1>4. \A k \in 1 .. n : text(k) \in Seq(Low(k))
  BY DEF BackwardBy
<1>5. ASSUME NEW k \in 1 .. n
      PROVE  Len(text(k)) \in Nat /\ \A p \in 1 .. Len(text(k)) : text(k)[p] \in Low(k)
  <2> DEFINE s == text(k)
  <2>1. s \in Seq(Low(k))
    BY <1>4
  <2> HIDE DEF s
  <2>2. Len(s) \in Nat /\ \A p \in 1 .. Len(s) : s[p] \in Low(k)
    BY <2>1, ElementOfSeq
  <2> QED
    BY <2>2 DEF s
<1> HIDE DEF w, text
<1>6. ASSUME NEW k \in 1 .. n, w[k - 1] \in Seq(Seq(PlainToken))
      PROVE  MeaningOf(text(k), w[k - 1]) \in Seq(PlainToken)
  <2> DEFINE s == text(k)
             known == w[k - 1]
  <2>1. k - 1 \in 0 .. n
    BY <1>1
  <2>2. known \in Seq(Seq(PlainToken)) /\ Len(known) = k - 1 /\ Len(known) <= Len(Directories) /\ k \in 1 .. Len(known) + 1
    BY <1>1, <1>2, <1>6, <2>1
  <2>3. Len(s) \in Nat /\ \A p \in 1 .. Len(s) : s[p] \in Low(k)
    BY <1>5
  <2> HIDE DEF s, known
  <2>4. \A p \in 1 .. Len(s) : Meaning(s[p], known) \in Seq(PlainToken)
    BY <2>2, <2>3, MeaningLow
  <2>5. MeaningOf(s, known) \in Seq(PlainToken)
    BY <2>3, <2>4, MeaningAgrees
  <2> QED
    BY <2>5 DEF s, known
<1>7. 0 \in Plains
  BY <1>1, <1>2
<1>8. ASSUME NEW k \in 1 .. n, k - 1 \in Plains PROVE k \in Plains
  <2>1. k \in 0 .. n /\ w[k - 1] \in Seq(Seq(PlainToken))
    BY <1>1, <1>8
  <2>2. MeaningOf(text(k), w[k - 1]) \in Seq(PlainToken)
    BY <1>6, <2>1
  <2>3. Last1(w[k - 1], MeaningOf(text(k), w[k - 1])) \in Seq(Seq(PlainToken))
    BY <2>1, <2>2, AppendTyped DEF Last1
  <2> QED
    BY <1>2, <2>1, <2>3
<1>9. ASSUME NEW m \in 0 .. n PROVE m \in Plains
  <2>1. m \in Nat
    BY <1>1
  <2> DEFINE Q == Plains \cap (0 .. m)
  <2>2. 0 \in Q /\ Q \in SUBSET (0 .. m)
    BY <1>7, <2>1
  <2> HIDE DEF Plains
  <2>3. ASSUME NEW i \in 1 .. m, i - 1 \in Q PROVE i \in Q
    <3>1. i \in 1 .. n /\ i - 1 \in Plains /\ i \in 0 .. m
      BY <1>1, <2>3
    <3>2. i \in Plains
      BY <1>8, <3>1
    <3> QED
      BY <3>1, <3>2
  <2>4. m \in Q
    <3> HIDE DEF Q
    <3> QED
      BY <2>1, <2>2, <2>3, CountedUp
  <2> QED
    BY <2>4
<1>10. \A m \in 0 .. n : w[m] \in Seq(Seq(PlainToken))
  BY <1>9
<1>11. n \in 0 .. n
  BY <1>1
<1>12. M \in Seq(Seq(PlainToken)) /\ Len(M) = n
  BY <1>2, <1>10, <1>11
<1>13. \A j \in 1 .. n : M[j] = w[j][j]
  BY <1>3, <1>11
<1> HIDE DEF M
<1>14. ASSUME NEW k \in 1 .. n PROVE MeaningOf(text(k), M) = M[k]
  <2> DEFINE s == text(k)
             known == w[k - 1]
  <2>1. k - 1 \in 0 .. n /\ k \in 0 .. n
    BY <1>1
  <2>2. known \in Seq(Seq(PlainToken)) /\ Len(known) = k - 1 /\ Len(known) <= Len(Directories) /\ k \in 1 .. Len(known) + 1
    <3>1. known \in Seq(Seq(PlainToken)) /\ Len(known) = k - 1
      BY <1>2, <1>10, <2>1
    <3> HIDE DEF known
    <3> QED
      BY <1>1, <3>1
  <2>3. Len(s) \in Nat /\ \A p \in 1 .. Len(s) : s[p] \in Low(k)
    BY <1>5
  <2>4. \A j \in 1 .. k - 1 : known[j] = M[j]
    <3>1. ASSUME NEW j \in 1 .. k - 1 PROVE known[j] = M[j]
      <4>1. j \in 1 .. n
        BY <1>1
      <4> QED
        BY <1>3, <1>13, <2>1, <4>1
    <3> QED
      BY <3>1
  <2>5. Len(M) <= Len(Directories) /\ k \in 1 .. Len(M) + 1
    BY <1>1, <1>12
  <2>6. MeaningOf(s, known) \in Seq(PlainToken) /\ w[k] = Last1(known, MeaningOf(s, known))
    BY <1>2, <1>6, <2>2
  <2> HIDE DEF s, known
  <2>7. ASSUME NEW p \in 1 .. Len(s)
        PROVE  Meaning(s[p], known) \in Seq(PlainToken) /\ Meaning(s[p], M) = Meaning(s[p], known)
    <3> DEFINE c == s[p]
    <3>1. c \in Low(k)
      BY <2>3
    <3> HIDE DEF c
    <3>2. /\ Meaning(c, known) \in Seq(PlainToken)
          /\ \/ \E j \in 1 .. k - 1 : c = Ref(j) /\ Meaning(c, known) = known[j]
             \/ c \in PlainToken /\ Meaning(c, known) = <<c>>
      BY <2>2, <3>1, MeaningLow
    <3>3. \A j \in 1 .. k - 1 : c = Ref(j) => Meaning(c, M) = M[j]
      <4>1. \A j \in 1 .. Len(M) : c = Ref(j) => Meaning(c, M) = M[j]
        BY <1>12, <2>5, MeaningIs
      <4>2. \A j \in 1 .. k - 1 : j \in 1 .. Len(M)
        BY <1>1, <1>12
      <4> QED
        BY <4>1, <4>2
    <3>4. c \in PlainToken => Meaning(c, M) = <<c>>
      <4>1. (\A j \in 1 .. Len(M) : c # Ref(j)) => Meaning(c, M) = <<c>>
        BY <1>12, <2>5, MeaningIs
      <4>2. c \in PlainToken => \A j \in 1 .. Len(M) : c # Ref(j)
        BY <1>12 DEF PlainToken, References
      <4> QED
        BY <4>1, <4>2
    <3>5. Meaning(c, M) = Meaning(c, known)
      BY <2>4, <3>2, <3>3, <3>4
    <3> QED
      BY <3>2, <3>5 DEF c
  <2>8. MeaningOf(s, M) = MeaningOf(s, known)
    BY <2>3, <2>7, MeaningAgrees
  <2>9. w[k][k] = MeaningOf(s, known)
    <3>1. Last1(known, MeaningOf(s, known))[Len(known) + 1] = MeaningOf(s, known)
      BY <2>2, <2>6, AppendTyped DEF Last1
    <3>2. Len(known) + 1 = k
      BY <1>1, <2>2
    <3> QED
      BY <2>6, <3>1, <3>2
  <2> QED
    BY <1>13, <2>8, <2>9 DEF s
<1> QED
  BY <1>12, <1>14 DEF Resolves, MeaningBy, M, w, text
-----------------------------------------------------------------------------
DestdirOf(d) ==
  [unset |-> <<>>, empty |-> <<"/">>, absolute |-> <<"destdir">>, relative |-> <<"/", "destdir">>][d]
LEMMA DestdirIs == Destdir = DestdirOf(id_destdir)
BY DEF Destdir, DestdirOf

Offsets == {"unset", "absolute"}
LEMMA OffsetIs ==
  ASSUME id_phase = "setup", id_destdir \in Offsets, NEW S, NEW m \in Seq(S)
  PROVE  FromOffset(DestdirOf(id_destdir) \o m) = m
<1>1. CASE id_destdir = "unset"
  <2>1. DestdirOf(id_destdir) = <<>>
    BY <1>1 DEF DestdirOf
  <2>2. <<>> \o m = m
    BY ConcatEmptySeq
  <2> QED
    BY <1>1, <2>1, <2>2 DEF FromOffset
<1>2. CASE id_destdir = "absolute"
  <2> DEFINE T == S \cup {"destdir"}
             e == "destdir"
             u == <<e>> \o m
  <2>1. DestdirOf(id_destdir) = <<e>>
    BY <1>2 DEF DestdirOf
  <2>2. e \in T
    OBVIOUS
  <2>3. m \in Seq(T)
    OBVIOUS
  <2> HIDE DEF T, e
  <2>4. <<e>> \in Seq(T) /\ Len(<<e>>) = 1 /\ <<e>>[1] = e
    BY <2>2, OneElement
  <2>5. /\ u \in Seq(T) /\ Len(u) = 1 + Len(m) /\ (\A i \in 1 .. 1 : u[i] = <<e>>[i])
        /\ \A i \in 1 + 1 .. 1 + Len(m) : u[i] = m[i - 1]
    <3>1. /\ u \in Seq(T) /\ Len(u) = Len(<<e>>) + Len(m) /\ (\A i \in 1 .. Len(<<e>>) : u[i] = <<e>>[i])
          /\ \A i \in Len(<<e>>) + 1 .. Len(<<e>>) + Len(m) : u[i] = m[i - Len(<<e>>)]
      BY <2>3, <2>4, ConcatTyped
    <3> HIDE DEF u
    <3> QED
      BY <2>4, <3>1
  <2>6. Len(m) \in Nat
    BY <2>3
  <2> HIDE DEF u
  <2>7. u # <<>> /\ Head(u) = u[1] /\ Tail(u) \in Seq(T) /\ Len(Tail(u)) = Len(u) - 1
        /\ \A i \in 1 .. Len(Tail(u)) : Tail(u)[i] = u[i + 1]
    <3>1. u # <<>>
      BY <2>5, <2>6
    <3> QED
      BY <2>5, <3>1, HeadTailProperties
  <2>8. u[1] = e
    <3>1. 1 \in 1 .. 1
      OBVIOUS
    <3> QED
      BY <2>4, <2>5, <3>1
  <2>9. Tail(u) = m
    <3>1. Len(Tail(u)) = Len(m)
      BY <2>5, <2>6, <2>7
    <3>2. ASSUME NEW i \in 1 .. Len(m) PROVE Tail(u)[i] = m[i]
      <4>1. i + 1 \in 1 + 1 .. 1 + Len(m) /\ i + 1 - 1 = i /\ i \in 1 .. Len(Tail(u))
        BY <2>6, <3>1
      <4>2. Tail(u)[i] = u[i + 1]
        BY <2>7, <4>1
      <4>3. u[i + 1] = m[i + 1 - 1]
        BY <2>5, <4>1
      <4> QED
        BY <4>1, <4>2, <4>3
    <3> QED
      BY <2>3, <2>7, <3>1, <3>2, SeqEqual
  <2>10. ~(id_destdir \in {"unset", "empty"})
    BY <1>2
  <2>11. FromOffset(u) = m
    BY <2>7, <2>8, <2>9, <2>10 DEF FromOffset, e
  <2> QED
    BY <2>1, <2>11 DEF u
<1> QED
  BY <1>1, <1>2 DEF Offsets

(* The directories before the i-th hold what they stand for, the others what *)
(* was set; and the text that is expanded stands for the i-th.               *)
Held(dirs, d, M, e, i) ==
  \A j \in 1 .. Len(Directories) :
    dirs[Directories[j]] = IF j < i THEN DestdirOf(d) \o M[j] ELSE SetBy(e, Directories[j])
GoodText(t, i, M) == t \in Seq(Low(i)) /\ MeaningOf(t, M) = M[i]

LEMMA PartsOf ==
  ASSUME NEW S, NEW s \in Seq(S), NEW p \in 1 .. Len(s)
  PROVE  /\ SubSeq(s, 1, p - 1) \in Seq(S) /\ SubSeq(s, p + 1, Len(s)) \in Seq(S) /\ s[p] \in S
         /\ s = (SubSeq(s, 1, p - 1) \o <<s[p]>>) \o SubSeq(s, p + 1, Len(s))
<1> DEFINE a == SubSeq(s, 1, p - 1)
           b == SubSeq(s, p + 1, Len(s))
           f == SubSeq(s, 1, p)
           n == Len(s)
<1>1. n \in Nat /\ p - 1 \in Nat /\ p - 1 <= Len(s) /\ p \in Nat /\ p <= Len(s) /\ p + 1 \in Nat \ {0}
  OBVIOUS
<1>2. a \in Seq(S)
  BY <1>1, FrontTyped
<1>3. /\ b \in Seq(S) /\ Len(b) = IF p + 1 <= Len(s) THEN Len(s) - (p + 1) + 1 ELSE 0
      /\ \A i \in 1 .. Len(s) - (p + 1) + 1 : b[i] = s[p + 1 + i - 1]
  BY <1>1, BackTyped
<1>4. s[p] \in S
  BY ElementOfSeq
<1>5. f = a \o <<s[p]>>
  <2>1. 1 \in 1 .. Len(s) /\ p \in 1 .. Len(s)
    OBVIOUS
  <2> QED
    BY <2>1, SubSeqRecursiveSecond
<1>6. f \in Seq(S) /\ Len(f) = p /\ \A i \in 1 .. p : f[i] = s[i]
  BY <1>1, FrontTyped
<1> HIDE DEF a, b, f
<1>7. /\ f \o b \in Seq(S) /\ Len(f \o b) = Len(f) + Len(b)
      /\ \A i \in 1 .. Len(f) : (f \o b)[i] = f[i]
      /\ \A i \in Len(f) + 1 .. Len(f) + Len(b) : (f \o b)[i] = b[i - Len(f)]
  BY <1>3, <1>6, ConcatTyped
<1> DEFINE u == f \o b
<1>10. u \in Seq(S)
  BY <1>7
<1> HIDE DEF u, n
<1>8. Len(u) = Len(s)
  BY <1>1, <1>3, <1>6, <1>7 DEF u, n
<1>9. ASSUME NEW i \in 1 .. Len(s) PROVE u[i] = s[i]
  <2>1. CASE i <= p
    <3>1. i \in 1 .. p /\ i \in 1 .. Len(f)
      BY <1>1, <1>6, <2>1
    <3> QED
      BY <1>6, <1>7, <3>1 DEF u
  <2>2. CASE ~(i <= p)
    <3>1. /\ i \in Len(f) + 1 .. Len(f) + Len(b) /\ i - Len(f) \in 1 .. Len(s) - (p + 1) + 1
          /\ p + 1 + (i - Len(f)) - 1 = i
      BY <1>1, <1>3, <1>6, <2>2 DEF n
    <3>2. u[i] = b[i - Len(f)]
      BY <1>7, <3>1 DEF u
    <3>3. b[i - Len(f)] = s[p + 1 + (i - Len(f)) - 1]
      BY <1>3, <3>1
    <3> QED
      BY <3>1, <3>2, <3>3
  <2> QED
    BY <2>1, <2>2
<1>11. u = s
  BY <1>8, <1>9, <1>10, SeqEqual
<1> QED
  BY <1>2, <1>3, <1>4, <1>5, <1>11 DEF a, b, u

LEMMA WiderSeq ==
  ASSUME NEW S, NEW T, S \subseteq T, NEW s \in Seq(S)
  PROVE  s \in Seq(T)
<1>1. \A i \in 1 .. Len(s) : s[i] \in T
  <2>1. \A i \in 1 .. Len(s) : s[i] \in S
    BY ElementOfSeq
  <2> QED
    BY <2>1
<1> QED
  BY <1>1, SeqMonotonic

LEMMA ResolvedMeans ==
  ASSUME NEW M, NEW e, Resolves(M, e)
  PROVE  /\ Means(M, PlainToken)
         /\ \A j \in 1 .. Len(Directories) : Meaning(Ref(j), M) = M[j] /\ M[j] \in Seq(PlainToken)
         /\ \A text \in Seq(PlainToken) : MeaningOf(text, M) = text
<1> DEFINE n == Len(Directories)
<1>1. M \in Seq(Seq(PlainToken)) /\ Len(M) = n /\ n \in Nat /\ Len(M) <= Len(Directories)
  BY DirectoryFacts DEF Resolves
<1>2. ASSUME NEW c \in Token PROVE Meaning(c, M) \in Seq(PlainToken)
  <2>1. c \in Low(n + 1) /\ n + 1 \in 1 .. Len(M) + 1
    BY <1>1, LowTokens
  <2> QED
    BY <1>1, <2>1, MeaningLow
<1>3. Means(M, PlainToken)
  BY <1>2 DEF Means
<1>4. ASSUME NEW j \in 1 .. n PROVE Meaning(Ref(j), M) = M[j] /\ M[j] \in Seq(PlainToken)
  <2>1. j \in 1 .. Len(M)
    BY <1>1
  <2>2. \A k \in 1 .. Len(M) : Ref(j) = Ref(k) => Meaning(Ref(j), M) = M[k]
    BY <1>1, MeaningIs
  <2> QED
    BY <1>1, <2>1, <2>2, ElementOfSeq
<1>5. ASSUME NEW c \in PlainToken PROVE Meaning(c, M) = <<c>>
  <2>1. (\A j \in 1 .. Len(M) : c # Ref(j)) => Meaning(c, M) = <<c>>
    BY <1>1, MeaningIs
  <2>2. \A j \in 1 .. Len(M) : c # Ref(j)
    BY <1>1 DEF PlainToken, References
  <2> QED
    BY <2>1, <2>2
<1>6. ASSUME NEW text \in Seq(PlainToken) PROVE MeaningOf(text, M) = text
  <2>1. PlainToken \subseteq Token
    BY DEF PlainToken
  <2> QED
    BY <1>3, <1>5, <2>1, MeaningPlain
<1> QED
  BY <1>3, <1>4, <1>6

LEMMA ExpandStringKeeps ==
  ASSUME id_phase = "setup", id_destdir \in Offsets, NEW M, NEW e, Resolves(M, e),
         NEW i \in 1 .. Len(Directories), Held(ww_install_dirs, id_destdir, M, e, i),
         NEW k \in 1 .. Len(Directories), NEW t, GoodText(t, i, M)
  PROVE  GoodText(ExpandString(t, Directories[k]), i, M)
<1> DEFINE r == Ref(k)
<1>1. t \in Seq(Low(i)) /\ MeaningOf(t, M) = M[i] /\ Len(t) \in Nat /\ DOMAIN t = 1 .. Len(t)
  BY DEF GoodText
<1>2. Len(Directories) \in Nat /\ i \in 1 .. Len(Directories) + 1
  BY DirectoryFacts
<1>3. CASE ~Contains(t, Reference[Directories[k]])
  BY <1>3 DEF ExpandString
<1>4. CASE Contains(t, Reference[Directories[k]])
  <2> DEFINE P == {q \in 1 .. Len(t) : t[q] = r}
             p == Position(t, r)
             a == SubSeq(t, 1, p - 1)
             b == SubSeq(t, p + 1, Len(t))
             m == M[k]
  <2>1. PICK q \in P : \A j \in P : q <= j
    <3>1. P # {} /\ P \in SUBSET Nat
      BY <1>1, <1>4 DEF Contains, Ref
    <3> HIDE DEF P
    <3>2. PICK x : x \in P
      BY <3>1
    <3> QED
      BY <3>1, <3>2, LeastExists
  <2>2. \A j \in 1 .. q - 1 : t[j] # r
    <3>1. q \in 1 .. Len(t)
      BY <2>1
    <3>2. ASSUME NEW j \in 1 .. q - 1, t[j] = r PROVE FALSE
      <4>1. j \in P /\ ~(q <= j)
        BY <1>1, <3>1, <3>2
      <4> QED
        BY <2>1, <4>1
    <3> QED
      BY <3>2
  <2>3. p \in DOMAIN t /\ t[p] = r
    <3>1. q \in DOMAIN t /\ t[q] = r
      BY <1>1, <2>1
    <3> HIDE DEF P
    <3> QED
      BY <2>2, <3>1 DEF Position
  <2>4. p \in 1 .. Len(t)
    BY <1>1, <2>3
  <2> HIDE DEF p
  <2>5. /\ a \in Seq(Low(i)) /\ b \in Seq(Low(i)) /\ r \in Low(i) /\ t = (a \o <<r>>) \o b
    <3>1. a \in Seq(Low(i)) /\ b \in Seq(Low(i)) /\ t[p] \in Low(i) /\ t = (a \o <<t[p]>>) \o b
      BY <1>1, <2>4, PartsOf
    <3> HIDE DEF a, b, r
    <3> QED
      BY <2>3, <3>1
  <2>6. k < i
    <3>1. ~(k \in i .. Len(Directories))
      BY <2>5 DEF Low
    <3> QED
      BY <1>2, <3>1
  <2>7. m \in Seq(PlainToken) /\ Meaning(r, M) = m
    BY ResolvedMeans
  <2>8. ww_install_dirs[Directories[k]] = DestdirOf(id_destdir) \o m
    BY <2>6 DEF Held
  <2>9. FromOffset(ww_install_dirs[Directories[k]]) = m
    BY <2>7, <2>8, OffsetIs
  <2>10. ExpandString(t, Directories[k]) = (a \o m) \o b
    BY <1>4, <2>9 DEF ExpandString, p, Ref
  <2>11. PlainToken \subseteq Low(i) /\ Low(i) \subseteq Token
    BY <1>2, LowTokens
  <2> HIDE DEF a, b, m, r
  <2>12. m \in Seq(Low(i))
    BY <2>7, <2>11, WiderSeq
  <2>13. (a \o m) \o b \in Seq(Low(i))
    BY <2>5, <2>12, ConcatProperties
  <2>14. a \in Seq(Token) /\ b \in Seq(Token) /\ m \in Seq(Token) /\ r \in Token
    BY <2>5, <2>11, <2>12, WiderSeq
  <2>15. Means(M, PlainToken) /\ MeaningOf(m, M) = m
    BY <2>7, ResolvedMeans
  <2>16. <<r>> \in Seq(Token) /\ a \o <<r>> \in Seq(Token) /\ a \o m \in Seq(Token)
    BY <2>14, OneElement, ConcatProperties
  <2>17. MeaningOf(<<r>>, M) = m
    <3>1. <<>> \in Seq(Token)
      OBVIOUS
    <3>2. MeaningOf(Last1(<<>>, r), M) = MeaningOf(<<>>, M) \o Meaning(r, M) /\ MeaningOf(<<>>, M) = <<>>
      BY <2>14, <2>15, <3>1, MeaningFront
    <3>3. <<>> \o m = m
      BY <2>7, ConcatEmptySeq
    <3>4. Last1(<<>>, r) = <<r>>
      BY DEF Last1
    <3> QED
      BY <2>7, <3>2, <3>3, <3>4
  <2>18. MeaningOf((a \o m) \o b, M) = (MeaningOf(a, M) \o m) \o MeaningOf(b, M)
    <3>1. MeaningOf((a \o m) \o b, M) = MeaningOf(a \o m, M) \o MeaningOf(b, M)
      BY <2>14, <2>15, <2>16, MeaningConcat
    <3>2. MeaningOf(a \o m, M) = MeaningOf(a, M) \o MeaningOf(m, M)
      BY <2>14, <2>15, MeaningConcat
    <3> QED
      BY <2>15, <3>1, <3>2
  <2>19. MeaningOf((a \o <<r>>) \o b, M) = (MeaningOf(a, M) \o m) \o MeaningOf(b, M)
    <3>1. MeaningOf((a \o <<r>>) \o b, M) = MeaningOf(a \o <<r>>, M) \o MeaningOf(b, M)
      BY <2>14, <2>15, <2>16, MeaningConcat
    <3>2. MeaningOf(a \o <<r>>, M) = MeaningOf(a, M) \o MeaningOf(<<r>>, M)
      BY <2>14, <2>15, <2>16, MeaningConcat
    <3> QED
      BY <2>17, <3>1, <3>2
  <2>20. MeaningOf((a \o m) \o b, M) = M[i]
    BY <1>1, <2>5, <2>18, <2>19
  <2> QED
    BY <2>10, <2>13, <2>20 DEF GoodText
<1> QED
  BY <1>3, <1>4

ExpandsUp(f, text) ==
  f = [k \in 0 .. Len(Directories) |-> IF k = 0 THEN text ELSE ExpandString(f[k - 1], Directories[k])]
LEMMA ExpandedKeeps ==
  ASSUME id_phase = "setup", id_destdir \in Offsets, NEW M, NEW e, Resolves(M, e),
         NEW i \in 1 .. Len(Directories), Held(ww_install_dirs, id_destdir, M, e, i),
         NEW t, GoodText(t, i, M)
  PROVE  GoodText(Expanded(t), i, M)
<1> DEFINE n == Len(Directories)
           S == {x \in Seq(Low(i)) : GoodText(x, i, M)}
           step == [k \in 1 .. n |-> [x \in S |-> ExpandString(x, Directories[k])]]
           f == CHOOSE w : ExpandsUp(w, t)
<1>1. n \in Nat /\ t \in S
  BY DirectoryFacts DEF GoodText
<1>2. ASSUME NEW k \in 1 .. n, NEW x \in S PROVE ExpandString(x, Directories[k]) \in S
  <2>1. GoodText(x, i, M)
    OBVIOUS
  <2>2. GoodText(ExpandString(x, Directories[k]), i, M)
    BY <2>1, ExpandStringKeeps
  <2> QED
    BY <2>2 DEF GoodText
<1>3. \A x \in S : GoodText(x, i, M)
  OBVIOUS
<1> HIDE DEF S
<1>4. step \in [1 .. n -> [S -> S]] /\ \A k \in 1 .. n : \A x \in S : step[k][x] = ExpandString(x, Directories[k])
  BY <1>2
<1> HIDE DEF n, step, f
<1>5. PICK w : Iterates(w, t, step, n) /\ \A k \in 0 .. n : w[k] \in S
  BY <1>1, <1>4, IteratesWithin
<1>6. ASSUME NEW k \in 0 .. n PROVE w[k] = IF k = 0 THEN t ELSE ExpandString(w[k - 1], Directories[k])
  <2>1. CASE k = 0
    BY <1>5, <2>1 DEF Iterates
  <2>2. CASE k # 0
    <3>1. k \in 1 .. n /\ k - 1 \in 0 .. n
      BY <1>1, <2>2
    <3>2. w[k] = step[k][w[k - 1]]
      BY <1>5, <3>1 DEF Iterates
    <3> QED
      BY <1>4, <1>5, <2>2, <3>1, <3>2
  <2> QED
    BY <2>1, <2>2
<1>7. w = [k \in 0 .. n |-> w[k]]
  BY <1>5 DEF Iterates
<1>8. ExpandsUp(w, t)
  <2>1. w = [k \in 0 .. n |-> IF k = 0 THEN t ELSE ExpandString(w[k - 1], Directories[k])]
    BY <1>6, <1>7
  <2> QED
    BY <2>1 DEF ExpandsUp, n
<1>9. ExpandsUp(f, t)
  BY <1>8 DEF f
<1>10. f = [k \in 0 .. n |-> IF k = 0 THEN t ELSE ExpandString(f[k - 1], Directories[k])]
  BY <1>9 DEF ExpandsUp, n
<1>11. \A k \in 0 .. n : f[k] = IF k = 0 THEN t ELSE ExpandString(f[k - 1], Directories[k])
  BY <1>10
<1>12. f[0] = t
  <2>1. 0 \in 0 .. n
    BY <1>1
  <2>2. f[0] = IF 0 = 0 THEN t ELSE ExpandString(f[0 - 1], Directories[0])
    BY <1>11, <2>1, Zenon
  <2> QED
    BY <2>2
<1>13. f[n] \in S
  <2> DEFINE R == {k \in 0 .. n : f[k] \in S}
  <2>1. 0 \in R
    BY <1>1, <1>12
  <2>2. ASSUME NEW k \in 1 .. n, k - 1 \in R PROVE k \in R
    <3>1. k \in 0 .. n /\ k # 0 /\ f[k - 1] \in S
      BY <1>1, <2>2
    <3>2. f[k] = ExpandString(f[k - 1], Directories[k])
      BY <1>11, <3>1
    <3> QED
      BY <1>2, <3>1, <3>2
  <2>3. R \in SUBSET (0 .. n)
    OBVIOUS
  <2>4. n \in R
    <3> HIDE DEF R
    <3> QED
      BY <1>1, <2>1, <2>2, <2>3, CountedUp
  <2> QED
    BY <2>4
<1>14. Expanded(t) = f[n]
  BY DEF Expanded, f, ExpandsUp, n
<1> QED
  BY <1>3, <1>13, <1>14

LEMMA TextResolved ==
  ASSUME NEW M, NEW e, Resolves(M, e), NEW i \in 1 .. Len(Directories), NEW t, GoodText(t, i, M),
         ~HasReference(t)
  PROVE  t = M[i]
<1>1. t \in Seq(Low(i)) /\ MeaningOf(t, M) = M[i] /\ Len(t) \in Nat /\ \A p \in 1 .. Len(t) : t[p] \in Low(i)
  <2>1. t \in Seq(Low(i)) /\ MeaningOf(t, M) = M[i]
    BY DEF GoodText
  <2> QED
    BY <2>1, ElementOfSeq
<1>2. i \in 1 .. Len(Directories) + 1
  BY DirectoryFacts
<1>3. \A j \in 1 .. Len(Directories) : \A p \in 1 .. Len(t) : t[p] # Ref(j)
  <2>1. \A j \in 1 .. Len(Directories) : Directories[j] \in Field
    BY DirectoryFacts
  <2>2. \A f \in Field : ~Contains(t, Reference[f])
    BY DEF HasReference
  <2> QED
    BY <2>1, <2>2 DEF Contains, Ref
<1>4. \A p \in 1 .. Len(t) : t[p] \in PlainToken
  <2>1. \A p \in 1 .. Len(t) : t[p] \in Token
    BY <1>1, <1>2, LowTokens
  <2> QED
    BY <1>3, <2>1 DEF PlainToken, References
<1>5. t \in Seq(PlainToken)
  BY <1>1, <1>4, SeqMonotonic
<1>6. MeaningOf(t, M) = t
  BY <1>5, ResolvedMeans
<1> QED
  BY <1>1, <1>6
-----------------------------------------------------------------------------
InstallInv ==
  /\ id_env \in Environments /\ id_phase \in {"closed", "setup", "open", "input"}
  /\ ww_install_dirs = [f \in Field |-> ww_install_dirs[f]]
  /\ BackwardBy(id_env) /\ id_destdir \in Offsets =>
       /\ id_phase = "setup" =>
            /\ id_field \in 1 .. Len(Directories)
            /\ Held(ww_install_dirs, id_destdir, MeaningBy(id_env), id_env, id_field)
            /\ GoodText(id_text, id_field, MeaningBy(id_env))
       /\ id_phase \in {"open", "input"} =>
            Held(ww_install_dirs, id_destdir, MeaningBy(id_env), id_env, Len(Directories) + 1)

(* The text of a directory that is still as it was set.                      *)
LEMMA SetText ==
  ASSUME NEW e \in Environments, BackwardBy(e), NEW dirs, NEW d, NEW i \in 1 .. Len(Directories),
         Held(dirs, d, MeaningBy(e), e, i)
  PROVE  GoodText(dirs[Directories[i]], i, MeaningBy(e))
<1> DEFINE M == MeaningBy(e)
<1>1. Resolves(M, e)
  BY BackwardResolves
<1>2. ~(i < i)
  OBVIOUS
<1>3. dirs[Directories[i]] = SetBy(e, Directories[i])
  BY <1>2 DEF Held
<1>4. SetBy(e, Directories[i]) \in Seq(Low(i))
  BY DEF BackwardBy
<1>5. MeaningOf(SetBy(e, Directories[i]), M) = M[i]
  BY <1>1 DEF Resolves
<1> QED
  BY <1>3, <1>4, <1>5 DEF GoodText

LEMMA OpenKeeps == ASSUME InstallInv, InstallOpen PROVE InstallInv'
<1> DEFINE n == Len(Directories)
           M == MeaningBy(id_env)
<1>1. n \in Nat \ {0} /\ \A j \in 1 .. n : Directories[j] \in Field
  BY DirectoryFacts
<1>2. /\ id_env \in Environments /\ id_env' = id_env /\ id_destdir' = id_destdir
      /\ id_phase' = "setup" /\ id_field' = 1 /\ id_text' = ww_install_dirs'[Directories[1]]
  BY DEF InstallInv, InstallOpen
<1>3. ww_install_dirs' = [f \in Field |-> SetBy(id_env, f)]
  BY DEF InstallOpen, SetBy, EnvGives
<1>4. \A f \in Field : ww_install_dirs'[f] = SetBy(id_env, f)
  BY <1>3
<1>5. ww_install_dirs' = [f \in Field |-> ww_install_dirs'[f]]
  BY <1>3
<1>6. Held(ww_install_dirs', id_destdir, M, id_env, 1)
  <2>1. \A j \in 1 .. n : ~(j < 1)
    BY <1>1
  <2> QED
    BY <1>1, <1>4, <2>1 DEF Held
<1>7. ASSUME BackwardBy(id_env) PROVE GoodText(id_text', 1, M)
  <2>1. 1 \in 1 .. Len(Directories)
    BY <1>1
  <2> QED
    BY <1>2, <1>6, <1>7, <2>1, SetText
<1>8. 1 \in 1 .. n /\ id_phase' \notin {"open", "input"}
  BY <1>1, <1>2
<1> HIDE DEF M
<1>9. M = MeaningBy(id_env')
  BY <1>2 DEF M
<1> QED
  BY <1>2, <1>5, <1>6, <1>7, <1>8, <1>9 DEF InstallInv

LEMMA PassKeeps == ASSUME InstallInv, ExpandPass PROVE InstallInv'
<1> DEFINE M == MeaningBy(id_env)
<1>1. /\ id_text' = Expanded(id_text) /\ ww_install_dirs' = ww_install_dirs /\ id_env' = id_env
      /\ id_destdir' = id_destdir /\ id_phase' = id_phase /\ id_field' = id_field
  BY DEF ExpandPass
<1>2. ASSUME BackwardBy(id_env), id_destdir \in Offsets, id_phase = "setup"
      PROVE  GoodText(id_text', id_field, M)
  <2>1. /\ id_field \in 1 .. Len(Directories) /\ id_env \in Environments
        /\ Held(ww_install_dirs, id_destdir, M, id_env, id_field) /\ GoodText(id_text, id_field, M)
    BY <1>2 DEF InstallInv
  <2>2. Resolves(M, id_env)
    BY <1>2, <2>1, BackwardResolves
  <2> HIDE DEF M
  <2> QED
    BY <1>1, <1>2, <2>1, <2>2, ExpandedKeeps
<1> QED
  BY <1>1, <1>2 DEF InstallInv

LEMMA DoneKeeps == ASSUME InstallInv, ExpandDone PROVE InstallInv'
<1> DEFINE n == Len(Directories)
           M == MeaningBy(id_env)
           i == id_field
           new == DestdirOf(id_destdir) \o id_text
           dirs == ww_install_dirs'
<1>1. n \in Nat \ {0} /\ \A j \in 1 .. n : Directories[j] \in Field
  BY DirectoryFacts
<1>2. /\ id_env \in Environments /\ id_env' = id_env /\ id_destdir' = id_destdir
      /\ id_phase = "setup" /\ ~HasReference(id_text)
      /\ ww_install_dirs = [f \in Field |-> ww_install_dirs[f]]
  BY DEF InstallInv, ExpandDone
<1>3. dirs = [ww_install_dirs EXCEPT ![Directories[i]] = new]
  BY DestdirIs DEF ExpandDone
<1>4. dirs = [f \in Field |-> dirs[f]]
  BY <1>2, <1>3
<1>5. ASSUME i \in 1 .. n PROVE \A j \in 1 .. n : dirs[Directories[j]] = IF j = i THEN new ELSE ww_install_dirs[Directories[j]]
  <2>1. \A j \in 1 .. n : Directories[j] = Directories[i] => j = i
    BY <1>5, DirectoryFacts
  <2>2. \A f \in Field : dirs[f] = IF f = Directories[i] THEN new ELSE ww_install_dirs[f]
    BY <1>2, <1>3
  <2> HIDE DEF dirs, new
  <2> QED
    BY <1>1, <2>1, <2>2
<1>6. ASSUME BackwardBy(id_env), id_destdir \in Offsets
      PROVE  i \in 1 .. n /\ Held(dirs, id_destdir, M, id_env, i + 1)
  <2>1. /\ i \in 1 .. n /\ Held(ww_install_dirs, id_destdir, M, id_env, i) /\ GoodText(id_text, i, M)
    BY <1>2, <1>6 DEF InstallInv
  <2>2. Resolves(M, id_env)
    BY <1>2, <1>6, BackwardResolves
  <2> HIDE DEF M, dirs
  <2>3. id_text = M[i]
    BY <1>2, <2>1, <2>2, TextResolved
  <2>4. new = DestdirOf(id_destdir) \o M[i]
    BY <2>3
  <2>5. \A j \in 1 .. n : dirs[Directories[j]] = IF j = i THEN new ELSE ww_install_dirs[Directories[j]]
    BY <1>5, <2>1
  <2> HIDE DEF new
  <2>6. ASSUME NEW j \in 1 .. n
        PROVE  dirs[Directories[j]] = IF j < i + 1 THEN DestdirOf(id_destdir) \o M[j] ELSE SetBy(id_env, Directories[j])
    <3>1. ww_install_dirs[Directories[j]] = IF j < i THEN DestdirOf(id_destdir) \o M[j] ELSE SetBy(id_env, Directories[j])
      BY <2>1 DEF Held
    <3>2. CASE j = i
      <4>1. j < i + 1
        BY <2>1, <3>2
      <4> QED
        BY <2>4, <2>5, <3>2, <4>1
    <3>3. CASE j # i
      <4>1. j < i + 1 <=> j < i
        BY <2>1, <3>3
      <4> QED
        BY <2>5, <3>1, <3>3, <4>1
    <3> QED
      BY <3>2, <3>3
  <2>7. Held(dirs, id_destdir, M, id_env, i + 1)
    BY <2>6 DEF Held
  <2> QED
    BY <2>1, <2>7
<1>7. CASE i = n
  <2>1. id_phase' = "open"
    BY <1>7 DEF ExpandDone
  <2> HIDE DEF dirs, M
  <2>2. dirs = ww_install_dirs' /\ M = MeaningBy(id_env')
    BY <1>2 DEF dirs, M
  <2>3. BackwardBy(id_env) /\ id_destdir \in Offsets => Held(dirs, id_destdir, M, id_env, n + 1)
    BY <1>6, <1>7
  <2> QED
    BY <1>2, <1>4, <2>1, <2>2, <2>3 DEF InstallInv
<1>8. CASE i # n
  <2>1. id_phase' = "setup" /\ id_field' = i + 1 /\ id_text' = dirs[Directories[i + 1]]
    BY <1>8 DEF ExpandDone
  <2> HIDE DEF dirs, M
  <2>2. dirs = ww_install_dirs' /\ M = MeaningBy(id_env')
    BY <1>2 DEF dirs, M
  <2>3. ASSUME BackwardBy(id_env), id_destdir \in Offsets
        PROVE  i + 1 \in 1 .. n /\ Held(dirs, id_destdir, M, id_env, i + 1) /\ GoodText(id_text', i + 1, M)
    <3>1. i \in 1 .. n /\ Held(dirs, id_destdir, M, id_env, i + 1)
      BY <1>6, <2>3
    <3>2. i + 1 \in 1 .. Len(Directories)
      BY <1>1, <1>8, <3>1
    <3>3. GoodText(dirs[Directories[i + 1]], i + 1, M)
      BY <1>2, <2>3, <3>1, <3>2, SetText DEF M
    <3> QED
      BY <2>1, <3>1, <3>2, <3>3
  <2> QED
    BY <1>2, <1>4, <2>1, <2>2, <2>3 DEF InstallInv
<1> QED
  BY <1>7, <1>8

LEMMA InstallStep == InstallInv /\ [InstallNext]_id_vars => InstallInv'
<1> SUFFICES ASSUME InstallInv, [InstallNext]_id_vars PROVE InstallInv'
  OBVIOUS
<1>1. CASE UNCHANGED id_vars
  BY <1>1 DEF InstallInv, id_vars
<1>2. CASE InstallOpen
  BY <1>2, OpenKeeps
<1>3. CASE ExpandInput
  BY <1>3 DEF InstallInv, ExpandInput
<1>4. CASE ExpandPass
  BY <1>4, PassKeeps
<1>5. CASE ExpandDone
  BY <1>5, DoneKeeps
<1>6. CASE InputDone
  BY <1>6 DEF InstallInv, InputDone
<1>7. CASE InstallClose
  BY <1>7 DEF InstallInv, InstallClose, NoDirs
<1> QED
  BY <1>1, <1>2, <1>3, <1>4, <1>5, <1>6, <1>7 DEF InstallNext

(* Whatever the environment gives and however often a text is expanded,      *)
(* directories that refer to earlier ones only hold what they stand for,     *)
(* with an absolute $WW_DESTDIR once and in front of each                    *)
(* (installdirs_base_expand.c:58-157, installdirs_base_components.c:28-110). *)
THEOREM DirectoriesStayResolved == InstallSpec => []DirectoriesResolved
<1>1. InstallInit => InstallInv
  <2>1. "closed" \notin {"open", "input"} /\ "closed" # "setup"
    OBVIOUS
  <2> QED
    BY <2>1 DEF InstallInit, InstallInv, NoDirs
<1>2. InstallInv /\ [InstallNext]_id_vars => InstallInv'
  BY InstallStep
<1>3. InstallInv => DirectoriesResolved
  <2> SUFFICES ASSUME InstallInv, id_phase \in {"open", "input"}, Backward, id_destdir \in {"unset", "absolute"},
                      NEW i \in DOMAIN Directories
               PROVE  ww_install_dirs[Directories[i]] = Destdir \o StandsFor[i]
    BY DEF DirectoriesResolved
  <2>1. BackwardBy(id_env) /\ id_destdir \in Offsets
    BY BackwardIs DEF InstallInv, Offsets
  <2>2. Held(ww_install_dirs, id_destdir, MeaningBy(id_env), id_env, Len(Directories) + 1)
    BY <2>1 DEF InstallInv
  <2>3. i \in 1 .. Len(Directories) /\ i < Len(Directories) + 1
    BY DirectoryFacts, InstallAssumption
  <2>4. ww_install_dirs[Directories[i]] = DestdirOf(id_destdir) \o MeaningBy(id_env)[i]
    BY <2>2, <2>3 DEF Held
  <2> QED
    BY <2>4, DestdirIs, StandsForIs
<1> QED
  BY <1>1, <1>2, <1>3, PTL DEF InstallSpec
-----------------------------------------------------------------------------
(* A definition by recursion has its values, and they are in S.              *)
Runs(w, S, base, step, n) ==
  /\ w = [k \in 0 .. n |-> w[k]]
  /\ w[0] = base /\ \A k \in 1 .. n : w[k] = step[k][w[k - 1]]
  /\ \A k \in 0 .. n : w[k] \in S
LEMMA RecursionWithin ==
  ASSUME NEW S, NEW base \in S, NEW n \in Nat, NEW step \in [1 .. n -> [S -> S]]
  PROVE  \E w : Runs(w, S, base, step, n)
<1>1. PICK w : Iterates(w, base, step, n) /\ \A k \in 0 .. n : w[k] \in S
  BY IteratesWithin
<1> QED
  BY <1>1 DEF Iterates, Runs
LEMMA StaysWithin ==
  ASSUME NEW S, NEW n \in Nat, NEW w, w[0] \in S,
         \A k \in 1 .. n : w[k - 1] \in S => w[k] \in S
  PROVE  \A k \in 0 .. n : w[k] \in S
<1> SUFFICES ASSUME NEW j \in 0 .. n PROVE w[j] \in S
  OBVIOUS
<1> DEFINE R == {k \in 0 .. j : w[k] \in S}
<1>1. R \in SUBSET (0 .. j) /\ 0 \in R
  OBVIOUS
<1>2. \A k \in 1 .. j : k - 1 \in R => k \in R
  OBVIOUS
<1> HIDE DEF R
<1>3. j \in R
  BY <1>1, <1>2, CountedUp
<1> QED
  BY <1>3 DEF R
(* Division, and a remainder that is taken twice.                            *)
LEMMA Division ==
  ASSUME NEW m \in Nat \ {0}, NEW x \in Int
  PROVE  (x % m) \in 0 .. m - 1 /\ \E q \in Int : x = (m * q) + (x % m)
<1>1. (x % m) \in 0 .. m - 1 /\ x = (m * (x \div m)) + (x % m) /\ x \div m \in Int
  OBVIOUS
<1> QED
  BY <1>1
LEMMA Remainder ==
  ASSUME NEW m \in Nat \ {0}, NEW x \in Int, NEW q \in Int, NEW r \in 0 .. m - 1, x = (m * q) + r
  PROVE  x % m = r
OBVIOUS
LEMMA RemainderTwice ==
  ASSUME NEW m \in Nat \ {0}, NEW x \in Int, NEW y \in Int
  PROVE (x + (y % m)) % m = (x + y) % m
<1> DEFINE r == y % m
           z == x + r
           s == z % m
<1>1. PICK q \in Int : r \in 0 .. m - 1 /\ y = (m * q) + r
  BY Division
<1> HIDE DEF r
<1>2. z \in Int
  BY <1>1
<1>3. PICK p \in Int : s \in 0 .. m - 1 /\ z = (m * p) + s
  <2> HIDE DEF z
  <2> QED
    BY <1>2, Division
<1>4. x + y = (m * (p + q)) + s /\ p + q \in Int /\ x + y \in Int
  <2>1. m * (p + q) = (m * p) + (m * q) /\ m * p \in Int /\ m * q \in Int
    OBVIOUS
  <2>2. x + r = (m * p) + s
    BY <1>3
  <2> HIDE DEF s
  <2> QED
    BY <1>1, <1>3, <2>1, <2>2
<1> HIDE DEF s
<1>5. (x + y) % m = s
  BY <1>3, <1>4, Remainder
<1> QED
  BY <1>5 DEF s, z, r
-----------------------------------------------------------------------------
PowersUp(w, base, n) == w = [k \in 0 .. n |-> IF k = 0 THEN 1 ELSE base * w[k - 1]]
LEMMA PowersAre ==
  ASSUME NEW base \in Nat \ {0}, NEW n \in Nat
  PROVE  \E w : /\ PowersUp(w, base, n) /\ Power(base, n) = w[n]
                /\ w[0] = 1 /\ \A k \in 1 .. n : w[k] = base * w[k - 1]
                /\ \A k \in 0 .. n : w[k] \in Nat \ {0}
<1> DEFINE S == Nat \ {0}
           step == [k \in 1 .. n |-> [s \in S |-> base * s]]
           f == CHOOSE w : w = [k \in 0 .. n |-> IF k = 0 THEN 1 ELSE base * w[k - 1]]
<1>1. 1 \in S /\ step \in [1 .. n -> [S -> S]]
  OBVIOUS
<1>2. \A k \in 1 .. n : \A s \in S : step[k][s] = base * s
  OBVIOUS
<1>3. Power(base, n) = f[n]
  BY DEF Power
<1>4. (\E w : PowersUp(w, base, n)) => PowersUp(f, base, n)
  BY DEF PowersUp
<1> HIDE DEF S, step, f
<1>5. PICK w : /\ w = [k \in 0 .. n |-> w[k]]
               /\ w[0] = 1 /\ \A k \in 1 .. n : w[k] = step[k][w[k - 1]]
               /\ \A k \in 0 .. n : w[k] \in S
  BY <1>1, RecursionWithin DEF Runs
<1>6. ASSUME NEW k \in 0 .. n PROVE w[k] = IF k = 0 THEN 1 ELSE base * w[k - 1]
  <2>1. k # 0 => k \in 1 .. n /\ k - 1 \in 0 .. n
    OBVIOUS
  <2> QED
    BY <1>2, <1>5, <2>1
<1>7. PowersUp(w, base, n)
  BY <1>5, <1>6 DEF PowersUp
<1>8. PowersUp(f, base, n)
  BY <1>4, <1>7
<1>9. f[0] = 1 /\ \A k \in 1 .. n : f[k] = base * f[k - 1]
  <2>1. f = [k \in 0 .. n |-> IF k = 0 THEN 1 ELSE base * f[k - 1]]
    BY <1>8 DEF PowersUp
  <2>2. 0 \in 0 .. n /\ \A k \in 1 .. n : k \in 0 .. n /\ k # 0
    OBVIOUS
  <2> QED
    BY <2>1, <2>2
<1>10. \A k \in 0 .. n : f[k] \in S
  <2>1. f[0] \in S /\ \A k \in 1 .. n : f[k - 1] \in S => f[k] \in S
    BY <1>9 DEF S
  <2> QED
    BY <2>1, StaysWithin
<1> QED
  BY <1>3, <1>8, <1>9, <1>10 DEF S
LEMMA PowerIsPositive ==
  ASSUME NEW base \in Nat \ {0}, NEW n \in Nat
  PROVE  Power(base, n) \in Nat \ {0}
BY PowersAre
LEMMA Sizes == Byte \in Nat \ {0} /\ WordSize \in Nat \ {0}
<1>1. Byte \in Nat \ {0}
  BY ChecksumAssumption, PowerIsPositive DEF Byte
<1> QED
  BY <1>1, ChecksumAssumption, PowerIsPositive DEF WordSize
-----------------------------------------------------------------------------
(* The value of a word is an integer, and that of an empty one is 0.         *)
Words == [1 .. WordBytes -> Int]
ValuesUp(w, word) ==
  w = [k \in 0 .. WordBytes |-> IF k = 0 THEN 0 ELSE word[WordBytes - k + 1] + Byte * w[k - 1]]
LEMMA ValueIs ==
  ASSUME NEW word \in Words
  PROVE  \E w : /\ ValuesUp(w, word) /\ Value(word) = w[WordBytes]
                /\ w[0] = 0
                /\ \A k \in 1 .. WordBytes : w[k] = word[WordBytes - k + 1] + Byte * w[k - 1]
                /\ \A k \in 0 .. WordBytes : w[k] \in Int
<1> DEFINE n == WordBytes
           step == [k \in 1 .. n |-> [s \in Int |-> word[n - k + 1] + Byte * s]]
           f == CHOOSE w : w = [k \in 0 .. WordBytes |->
                  IF k = 0 THEN 0 ELSE word[WordBytes - k + 1] + Byte * w[k - 1]]
<1>1. n \in Nat /\ Byte \in Nat
  BY ChecksumAssumption, Sizes
<1>2. \A k \in 1 .. n : n - k + 1 \in 1 .. n /\ word[n - k + 1] \in Int
  BY <1>1 DEF Words
<1>3. step \in [1 .. n -> [Int -> Int]] /\ \A k \in 1 .. n : \A s \in Int : step[k][s] = word[n - k + 1] + Byte * s
  <2>1. \A k \in 1 .. n : \A s \in Int : word[n - k + 1] + Byte * s \in Int
    BY <1>1, <1>2
  <2> QED
    BY <2>1
<1>4. Value(word) = f[n]
  BY DEF Value
<1>5. (\E w : ValuesUp(w, word)) => ValuesUp(f, word)
  BY DEF ValuesUp
<1> HIDE DEF step, f
<1>6. PICK w : /\ w = [k \in 0 .. n |-> w[k]]
               /\ w[0] = 0 /\ \A k \in 1 .. n : w[k] = step[k][w[k - 1]]
               /\ \A k \in 0 .. n : w[k] \in Int
  <2> DEFINE zero == 0
  <2>1. zero \in Int
    OBVIOUS
  <2> HIDE DEF n, zero
  <2>2. \E w : Runs(w, Int, zero, step, n)
    BY <1>1, <1>3, <2>1, RecursionWithin
  <2> QED
    BY <2>2 DEF zero, Runs
<1>7. ASSUME NEW k \in 0 .. n PROVE w[k] = IF k = 0 THEN 0 ELSE word[n - k + 1] + Byte * w[k - 1]
  <2>1. k # 0 => k \in 1 .. n /\ k - 1 \in 0 .. n
    BY <1>1
  <2> QED
    BY <1>3, <1>6, <2>1
<1>8. ValuesUp(f, word)
  <2>1. w = [k \in 0 .. n |-> IF k = 0 THEN 0 ELSE word[n - k + 1] + Byte * w[k - 1]]
    BY <1>6, <1>7
  <2>2. ValuesUp(w, word)
    BY <2>1 DEF ValuesUp
  <2> QED
    BY <1>5, <2>2
<1>9. f[0] = 0 /\ \A k \in 1 .. n : f[k] = word[n - k + 1] + Byte * f[k - 1]
  <2>1. f = [k \in 0 .. n |-> IF k = 0 THEN 0 ELSE word[n - k + 1] + Byte * f[k - 1]]
    BY <1>8 DEF ValuesUp
  <2>2. 0 \in 0 .. n /\ \A k \in 1 .. n : k \in 0 .. n /\ k # 0
    BY <1>1
  <2> QED
    BY <2>1, <2>2
<1>10. \A k \in 0 .. n : f[k] \in Int
  <2>1. f[0] \in Int /\ \A k \in 1 .. n : f[k - 1] \in Int => f[k] \in Int
    BY <1>1, <1>2, <1>9
  <2> HIDE DEF n
  <2> QED
    BY <1>1, <2>1, StaysWithin
<1> QED
  BY <1>4, <1>8, <1>9, <1>10
LEMMA ValueIsInt ==
  ASSUME NEW word \in Words PROVE Value(word) \in Int
BY ValueIs, ChecksumAssumption
LEMMA ZeroHasNoValue == ZeroWord \in Words /\ Value(ZeroWord) = 0
<1>1. ZeroWord \in Words
  BY DEF ZeroWord, Words
<1>2. PICK w : /\ Value(ZeroWord) = w[WordBytes] /\ w[0] = 0
               /\ \A k \in 1 .. WordBytes : w[k] = ZeroWord[WordBytes - k + 1] + Byte * w[k - 1]
  BY <1>1, ValueIs
<1>3. \A k \in 1 .. WordBytes : w[k - 1] \in {0} => w[k] \in {0}
  <2>1. \A k \in 1 .. WordBytes : WordBytes - k + 1 \in 1 .. WordBytes
    BY ChecksumAssumption
  <2>2. \A k \in 1 .. WordBytes : ZeroWord[WordBytes - k + 1] = 0
    BY <2>1 DEF ZeroWord
  <2> QED
    BY <1>2, <2>2, Sizes
<1>4. \A k \in 0 .. WordBytes : w[k] \in {0}
  <2> DEFINE S == {0}
             n == WordBytes
  <2>1. n \in Nat /\ w[0] \in S /\ \A k \in 1 .. n : w[k - 1] \in S => w[k] \in S
    BY <1>2, <1>3, ChecksumAssumption
  <2> HIDE DEF S, n
  <2>2. \A k \in 0 .. n : w[k] \in S
    BY <2>1, StaysWithin
  <2> QED
    BY <2>2 DEF S, n
<1> QED
  BY <1>1, <1>2, <1>4, ChecksumAssumption
-----------------------------------------------------------------------------
(* The words of a message, of which the first n bytes are there, and their   *)
(* sums.                                                                     *)
Message == Seq(0 .. Byte - 1)
WordOf(m, n, k) ==
  [i \in 1 .. WordBytes |-> IF (k - 1) * WordBytes + i <= n THEN m[(k - 1) * WordBytes + i] ELSE 0]
LEMMA WordTyped ==
  ASSUME NEW m \in Message, NEW n \in 0 .. Len(m), NEW k \in Nat \ {0}
  PROVE  WordOf(m, n, k) \in Words
<1>1. ASSUME NEW i \in 1 .. WordBytes, (k - 1) * WordBytes + i <= n
      PROVE  m[(k - 1) * WordBytes + i] \in Int
  <2> DEFINE j == (k - 1) * WordBytes + i
  <2>1. (k - 1) * WordBytes \in Nat
    BY ChecksumAssumption
  <2>2. j \in 1 .. Len(m)
    BY <1>1, <2>1, ChecksumAssumption
  <2> HIDE DEF j
  <2>3. m[j] \in 0 .. Byte - 1
    BY <2>2, ElementOfSeq DEF Message
  <2>4. m[j] \in Int
    BY <2>3, Sizes
  <2> QED
    BY <2>4 DEF j
<1> QED
  BY <1>1 DEF WordOf, Words
LEMMA WordComplete ==
  ASSUME NEW m \in Message, NEW n \in 0 .. Len(m), NEW k \in Nat \ {0}, k * WordBytes <= n
  PROVE  WordOf(m, n, k) = WordOf(m, Len(m), k)
<1>1. ASSUME NEW i \in 1 .. WordBytes
      PROVE  (k - 1) * WordBytes + i <= n /\ (k - 1) * WordBytes + i <= Len(m)
  <2>1. (k - 1) * WordBytes = k * WordBytes - WordBytes
    BY ChecksumAssumption
  <2>2. k * WordBytes \in Nat /\ Len(m) \in Nat
    BY ChecksumAssumption
  <2> HIDE DEF Message
  <2> QED
    BY <2>1, <2>2, ChecksumAssumption
<1> QED
  BY <1>1 DEF WordOf
LEMMA WordEmpty ==
  ASSUME NEW m \in Message, NEW n \in 0 .. Len(m), NEW q \in Nat, n = q * WordBytes
  PROVE  WordOf(m, n, q + 1) = ZeroWord
<1>1. ASSUME NEW i \in 1 .. WordBytes PROVE ~((q + 1 - 1) * WordBytes + i <= n)
  <2>1. (q + 1 - 1) * WordBytes = q * WordBytes /\ q * WordBytes \in Nat
    BY ChecksumAssumption
  <2> QED
    BY <2>1, ChecksumAssumption
<1> QED
  BY <1>1 DEF WordOf, ZeroWord

SumsUp(w, m) ==
  w = [k \in 0 .. Len(m) |-> IF k = 0 THEN 0 ELSE w[k - 1] + Value(WordOf(m, Len(m), k))]
Sums(m) == CHOOSE w : SumsUp(w, m)
LEMMA SumsAre ==
  ASSUME NEW m \in Message
  PROVE  /\ Sums(m)[0] = 0
         /\ \A k \in 1 .. Len(m) : Sums(m)[k] = Sums(m)[k - 1] + Value(WordOf(m, Len(m), k))
         /\ \A k \in 0 .. Len(m) : Sums(m)[k] \in Int
<1> DEFINE n == Len(m)
           V(k) == Value(WordOf(m, Len(m), k))
           step == [k \in 1 .. n |-> [s \in Int |-> s + V(k)]]
           f == Sums(m)
<1>1. n \in Nat /\ n \in 0 .. Len(m)
  BY DEF Message
<1>2. \A k \in 1 .. n : V(k) \in Int
  BY <1>1, WordTyped, ValueIsInt
<1> HIDE DEF V
<1>3. step \in [1 .. n -> [Int -> Int]] /\ \A k \in 1 .. n : \A s \in Int : step[k][s] = s + V(k)
  BY <1>2
<1> HIDE DEF step
<1>4. PICK w : /\ w = [k \in 0 .. n |-> w[k]]
               /\ w[0] = 0 /\ \A k \in 1 .. n : w[k] = step[k][w[k - 1]]
               /\ \A k \in 0 .. n : w[k] \in Int
  <2> DEFINE zero == 0
  <2>1. zero \in Int
    OBVIOUS
  <2> HIDE DEF n, zero
  <2>2. \E w : Runs(w, Int, zero, step, n)
    BY <1>1, <1>3, <2>1, RecursionWithin
  <2> QED
    BY <2>2 DEF zero, Runs
<1>5. ASSUME NEW k \in 0 .. n PROVE w[k] = IF k = 0 THEN 0 ELSE w[k - 1] + V(k)
  <2>1. k # 0 => k \in 1 .. n /\ k - 1 \in 0 .. n
    BY <1>1
  <2> HIDE DEF n
  <2> QED
    BY <1>3, <1>4, <2>1
<1>6. SumsUp(w, m)
  BY <1>4, <1>5 DEF SumsUp, V
<1>7. f = [k \in 0 .. n |-> IF k = 0 THEN 0 ELSE f[k - 1] + V(k)]
  BY <1>6 DEF SumsUp, Sums, V
<1> HIDE DEF n, f
<1>8. f[0] = 0 /\ \A k \in 1 .. n : f[k] = f[k - 1] + V(k)
  <2>1. 0 \in 0 .. n /\ \A k \in 1 .. n : k \in 0 .. n /\ k # 0
    BY <1>1
  <2> QED
    BY <1>7, <2>1
<1>9. \A k \in 0 .. n : f[k] \in Int
  <2>1. f[0] \in Int /\ \A k \in 1 .. n : f[k - 1] \in Int => f[k] \in Int
    BY <1>2, <1>8
  <2> QED
    BY <1>1, <2>1, StaysWithin
<1> QED
  BY <1>8, <1>9 DEF f, n, V
-----------------------------------------------------------------------------
LEMMA PartOf ==
  ASSUME NEW m \in Message, NEW n \in Nat, NEW l \in Nat, n + l <= Len(m)
  PROVE  /\ SubSeq(m, n + 1, n + l) \in Message /\ Len(SubSeq(m, n + 1, n + l)) = l
         /\ DOMAIN SubSeq(m, n + 1, n + l) = 1 .. l
         /\ \A i \in 1 .. l : SubSeq(m, n + 1, n + l)[i] = m[n + i]
<1>1. \A i \in n + 1 .. n + l : m[i] \in 0 .. Byte - 1
  <2>1. \A i \in n + 1 .. n + l : i \in 1 .. Len(m)
    BY DEF Message
  <2> QED
    BY <2>1, ElementOfSeq DEF Message
<1> DEFINE a == n + 1
           b == n + l
           part == SubSeq(m, a, b)
           S == 0 .. Byte - 1
<1>2. a \in Int /\ b \in Int /\ \A i \in a .. b : m[i] \in S
  BY <1>1
<1>3. b - a + 1 = l /\ (IF a <= b THEN b - a + 1 ELSE 0) = l /\ \A i \in 1 .. l : a + i - 1 = n + i
  OBVIOUS
<1> HIDE DEF a, b, S
<1>4. /\ part \in Seq(S) /\ Len(part) = IF a <= b THEN b - a + 1 ELSE 0
      /\ \A i \in 1 .. b - a + 1 : part[i] = m[a + i - 1]
  BY <1>2, SubSeqProperties
<1> HIDE DEF part
<1>5. DOMAIN part = 1 .. Len(part)
  BY <1>4
<1>6. Len(part) = l /\ \A i \in 1 .. l : part[i] = m[n + i]
  BY <1>3, <1>4
<1> QED
  BY <1>4, <1>5, <1>6 DEF part, a, b, S, Message
(* A word that grows within itself.                                          *)
LEMMA OverlayIs ==
  ASSUME NEW m \in Message, NEW n \in 0 .. Len(m), NEW q \in Nat, NEW l \in Nat,
         q * WordBytes <= n, n + l <= Len(m), n + l <= (q + 1) * WordBytes
  PROVE  Overlay(WordOf(m, n, q + 1), n - q * WordBytes, SubSeq(m, n + 1, n + l)) = WordOf(m, n + l, q + 1)
<1> DEFINE bytes == SubSeq(m, n + 1, n + l)
           from == q * WordBytes
           r == n - from
<1>1. /\ WordBytes \in Nat \ {0} /\ from \in Nat /\ (q + 1) * WordBytes = from + WordBytes
      /\ (q + 1 - 1) * WordBytes = from /\ r \in Nat
  BY ChecksumAssumption
<1>7. from \in Nat /\ r \in Nat /\ n \in Nat /\ n + (0 - r) = from
  BY <1>1
<1>2. DOMAIN bytes = 1 .. l /\ \A j \in 1 .. l : bytes[j] = m[n + j]
  BY PartOf
<1> HIDE DEF bytes, from
<1>3. ASSUME NEW i \in 1 .. WordBytes
      PROVE  (IF i - r \in DOMAIN bytes THEN bytes[i - r] ELSE IF from + i <= n THEN m[from + i] ELSE 0)
             = IF from + i <= n + l THEN m[from + i] ELSE 0
  <2>1. CASE i - r \in 1 .. l
    <3>2. n + (i - r) = from + i /\ from + i <= n + l
      BY <1>7, <2>1
    <3>1. bytes[i - r] = m[n + (i - r)] /\ n + (i - r) = from + i /\ from + i <= n + l
      BY <1>2, <2>1, <3>2
    <3> QED
      BY <1>2, <2>1, <3>1
  <2>2. CASE i - r \notin 1 .. l
    <3>1. (from + i <= n) = (from + i <= n + l)
      BY <1>1, <2>2
    <3> QED
      BY <1>2, <2>2, <3>1
  <2> QED
    BY <2>1, <2>2
<1>4. Overlay(WordOf(m, n, q + 1), r, bytes)
        = [i \in 1 .. WordBytes |-> IF i - r \in DOMAIN bytes THEN bytes[i - r]
                                    ELSE IF from + i <= n THEN m[from + i] ELSE 0]
  BY <1>1 DEF Overlay, WordOf
<1>5. WordOf(m, n + l, q + 1) = [i \in 1 .. WordBytes |-> IF from + i <= n + l THEN m[from + i] ELSE 0]
  BY <1>1 DEF WordOf
<1>6. Overlay(WordOf(m, n, q + 1), r, bytes) = WordOf(m, n + l, q + 1)
  BY <1>3, <1>4, <1>5
<1> QED
  BY <1>6 DEF bytes, from

SumState == [sum : Int, word : Words, length : Nat, rest : Message]
(* s has taken the first n bytes, which end in or at word q + 1, together    *)
(* with what summed up to c before.                                          *)
Amount(m, n, q) == Sums(m)[q] + Value(WordOf(m, n, q + 1))
Agree(a, b) == a % WordSize = b % WordSize
Stands(s, m, n, q, c) ==
  /\ s \in SumState
  /\ s.word = WordOf(m, n, q + 1) /\ s.length = n - q * WordBytes
  /\ Agree(c + s.sum, Amount(m, n, q))
LEMMA StandsIf ==
  ASSUME NEW s \in SumState, NEW m, NEW n, NEW q, NEW c,
         s.word = WordOf(m, n, q + 1), s.length = n - q * WordBytes, Agree(c + s.sum, Amount(m, n, q))
  PROVE  Stands(s, m, n, q, c)
BY DEF Stands
LEMMA AgreeMore ==
  ASSUME NEW a \in Int, NEW b \in Int, NEW c \in Int, NEW d \in Int, Agree(c + a, b)
  PROVE  Agree(c + ((a + d) % WordSize), b + d) /\ (a + d) % WordSize \in Int
<1> DEFINE M == WordSize
<1>0. M \in Nat \ {0}
  BY Sizes
<1> HIDE DEF M
<1>1. (c + ((a + d) % M)) % M = (c + (a + d)) % M
  <2> DEFINE y == a + d
  <2>1. y \in Int
    OBVIOUS
  <2> HIDE DEF y
  <2>2. (c + (y % M)) % M = (c + y) % M
    BY <1>0, <2>1, RemainderTwice
  <2> QED
    BY <2>2 DEF y
<1>2. (d + ((c + a) % M)) % M = (d + (c + a)) % M
  <2> DEFINE y == c + a
  <2>1. y \in Int
    OBVIOUS
  <2> HIDE DEF y
  <2>2. (d + (y % M)) % M = (d + y) % M
    BY <1>0, <2>1, RemainderTwice
  <2> QED
    BY <2>2 DEF y
<1>3. (d + (b % M)) % M = (d + b) % M
  BY <1>0, RemainderTwice
<1>5. c + (a + d) = d + (c + a) /\ b + d = d + b
  OBVIOUS
<1>4. (a + d) % M \in Int
  BY <1>0
<1> QED
  BY <1>1, <1>2, <1>3, <1>4, <1>5 DEF Agree, M
LEMMA AmountIsInt ==
  ASSUME NEW m \in Message, NEW n \in 0 .. Len(m), NEW q \in Nat, q * WordBytes <= n
  PROVE  Sums(m)[q] \in Int /\ Value(WordOf(m, n, q + 1)) \in Int
<1>1. q <= q * WordBytes /\ q * WordBytes \in Nat
  BY ChecksumAssumption
<1>2. q \in 0 .. Len(m)
  BY <1>1 DEF Message
<1> QED
  BY <1>2, SumsAre, WordTyped, ValueIsInt
LEMMA GrownWordStands ==
  ASSUME NEW m \in Message, NEW n \in 0 .. Len(m), NEW q \in Nat, NEW l \in Nat, NEW c \in Int,
         q * WordBytes <= n, n + l <= Len(m), n + l <= (q + 1) * WordBytes,
         NEW s, Stands(s, m, n, q, c)
  PROVE  /\ Stands(GrownWord(s, SubSeq(m, n + 1, n + l)), m, n + l, q, c)
         /\ GrownWord(s, SubSeq(m, n + 1, n + l)).rest = s.rest
<1> DEFINE bytes == SubSeq(m, n + 1, n + l)
           word == Overlay(s.word, s.length, bytes)
           t == GrownWord(s, bytes)
           d == Value(word) - Value(s.word)
<1>1. word = WordOf(m, n + l, q + 1)
  BY OverlayIs DEF Stands
<1>2. n + l \in 0 .. Len(m) /\ q * WordBytes <= n + l /\ q * WordBytes \in Nat
  BY ChecksumAssumption DEF Message
<1>3. Sums(m)[q] \in Int /\ Value(word) \in Int /\ Value(s.word) \in Int /\ word \in Words
  BY <1>1, <1>2, AmountIsInt, WordTyped DEF Stands
<1>4. Len(bytes) = l
  BY SubSeqProperties DEF Message
<1>5. s \in SumState /\ s.sum \in Int /\ s.length \in Nat
  BY DEF Stands, SumState
<1>6. t = [s EXCEPT !.sum = (s.sum + Value(word) - Value(s.word)) % WordSize, !.word = word,
                    !.length = s.length + Len(bytes)]
  BY DEF GrownWord
<1> HIDE DEF bytes, word, t
<1>7. /\ t.sum = (s.sum + Value(word) - Value(s.word)) % WordSize
      /\ t.word = word /\ t.length = s.length + Len(bytes) /\ t.rest = s.rest
  BY <1>5, <1>6 DEF SumState
<1>8. s.sum + Value(word) - Value(s.word) = s.sum + d
  BY <1>3, <1>5
<1>9. Agree(c + ((s.sum + d) % WordSize), Amount(m, n, q) + d) /\ (s.sum + d) % WordSize \in Int
  <2>1. d \in Int /\ Amount(m, n, q) \in Int /\ Agree(c + s.sum, Amount(m, n, q))
    BY <1>3 DEF Stands, Amount
  <2> HIDE DEF d
  <2> QED
    BY <1>5, <2>1, AgreeMore
<1>10. Amount(m, n, q) + d = Amount(m, n + l, q)
  BY <1>1, <1>3 DEF Amount, Stands
<1>11. t \in SumState
  <2>1. (s.sum + Value(word) - Value(s.word)) % WordSize \in Int
    BY <1>8, <1>9
  <2>2. s.length + Len(bytes) \in Nat
    BY <1>4, <1>5
  <2> QED
    BY <1>3, <1>5, <1>6, <2>1, <2>2 DEF SumState
<1>12. t.length = n + l - q * WordBytes
  BY <1>2, <1>4, <1>7 DEF Stands
<1> HIDE DEF d
<1>13. t.sum = (s.sum + d) % WordSize
  BY <1>7, <1>8
<1>14. Agree(c + t.sum, Amount(m, n + l, q))
  BY <1>9, <1>10, <1>13
<1>15. Stands(t, m, n + l, q, c)
  <2> DEFINE k == n + l
  <2>1. t.word = WordOf(m, k, q + 1)
    BY <1>1, <1>7
  <2>3. t.length = k - q * WordBytes
    BY <1>12, <1>2, ChecksumAssumption
  <2>4. Agree(c + t.sum, Amount(m, k, q))
    BY <1>14
  <2> HIDE DEF k
  <2>2. Stands(t, m, k, q, c)
    BY <1>11, <2>1, <2>3, <2>4, StandsIf
  <2> QED
    BY <2>2 DEF k
<1> QED
  BY <1>7, <1>15 DEF t, bytes
-----------------------------------------------------------------------------
(* Whole words.                                                              *)
LEMMA PartOfPart ==
  ASSUME NEW m \in Message, NEW n \in Nat, NEW l \in Nat, n + l <= Len(m),
         NEW a \in Nat, NEW k \in Nat, a + k <= l
  PROVE  SubSeq(SubSeq(m, n + 1, n + l), a + 1, a + k) = SubSeq(m, n + a + 1, n + a + k)
<1> DEFINE bytes == SubSeq(m, n + 1, n + l)
           left == SubSeq(bytes, a + 1, a + k)
           right == SubSeq(m, n + a + 1, n + a + k)
           b == n + a
<1>0. Len(m) \in Nat
  BY DEF Message
<1>1. bytes \in Message /\ Len(bytes) = l /\ \A i \in 1 .. l : bytes[i] = m[n + i]
  BY PartOf
<1> HIDE DEF bytes
<1>2. left \in Message /\ Len(left) = k /\ \A i \in 1 .. k : left[i] = bytes[a + i]
  BY <1>1, PartOf
<1>3. right \in Message /\ Len(right) = k /\ \A i \in 1 .. k : right[i] = m[b + i]
  <2>1. b \in Nat /\ b + k <= Len(m)
    BY <1>0
  <2> HIDE DEF b
  <2>2. LET part == SubSeq(m, b + 1, b + k)
        IN  part \in Message /\ Len(part) = k /\ \A i \in 1 .. k : part[i] = m[b + i]
    BY <2>1, PartOf
  <2>3. right = SubSeq(m, b + 1, b + k)
    BY DEF b
  <2> QED
    BY <2>2, <2>3
<1>4. \A i \in 1 .. k : a + i \in 1 .. l /\ n + (a + i) = b + i
  OBVIOUS
<1> HIDE DEF left, right, b
<1>5. \A i \in 1 .. k : left[i] = right[i]
  BY <1>1, <1>2, <1>3, <1>4
<1>6. left = right
  BY <1>2, <1>3, <1>5, SeqEqual DEF Message
<1> QED
  BY <1>6 DEF left, right, bytes
LEMMA WordAt ==
  ASSUME NEW m \in Message, NEW from \in Nat, NEW n \in Nat, from + n <= Len(m)
  PROVE  SubSeq(m, from + 1, from + n) = [i \in 1 .. n |-> m[from + i]]
<1> DEFINE word == SubSeq(m, from + 1, from + n)
<1>1. word \in Message /\ Len(word) = n /\ \A i \in 1 .. n : word[i] = m[from + i]
  BY PartOf
<1> HIDE DEF word
<1>2. word = [i \in 1 .. n |-> word[i]]
  BY <1>1 DEF Message
<1> QED
  BY <1>1, <1>2 DEF word
LEMMA WordRead ==
  ASSUME NEW m \in Message, NEW q \in Nat, (q + 1) * WordBytes <= Len(m)
  PROVE  SubSeq(m, q * WordBytes + 1, q * WordBytes + WordBytes) = WordOf(m, Len(m), q + 1)
<1> DEFINE from == q * WordBytes
           n == WordBytes
<1>1. from \in Nat /\ n \in Nat
  BY ChecksumAssumption
<1>2. (q + 1) * WordBytes = from + n /\ (q + 1 - 1) * WordBytes = from
  BY <1>1
<1> HIDE DEF from, n
<1>3. from + n <= Len(m)
  BY <1>2
<1>4. SubSeq(m, from + 1, from + n) = [i \in 1 .. n |-> m[from + i]]
  BY <1>1, <1>3, WordAt
<1>5. \A i \in 1 .. n : from + i <= Len(m)
  BY <1>1, <1>3 DEF Message
<1>6. WordOf(m, Len(m), q + 1) = [i \in 1 .. n |-> IF from + i <= Len(m) THEN m[from + i] ELSE 0]
  BY <1>2 DEF WordOf, n
<1> QED
  BY <1>4, <1>5, <1>6 DEF from, n

(* A sum that is taken up where another one stood.                           *)
WordIn(bytes, fill, k) == SubSeq(bytes, fill + (k - 1) * WordBytes + 1, fill + k * WordBytes)
TotalsUp(f, start, bytes, fill, words) ==
  f = [k \in 0 .. words |->
         IF k = 0 THEN start
         ELSE f[k - 1] + Value(WordIn(bytes, fill, k))]
Totals(start, bytes, fill, words, V) ==
  /\ \E f : TotalsUp(f, start, bytes, fill, words)
  /\ \A f : TotalsUp(f, start, bytes, fill, words) =>
              /\ f[0] = start /\ \A k \in 1 .. words : f[k] = f[k - 1] + V[k]
              /\ \A k \in 0 .. words : f[k] \in Int
LEMMA TotalsAre ==
  ASSUME NEW start \in Int, NEW bytes, NEW fill, NEW words \in Nat, NEW V,
         \A k \in 1 .. words : /\ V[k] \in Int
                               /\ Value(WordIn(bytes, fill, k)) = V[k]
  PROVE  Totals(start, bytes, fill, words, V)
<1> DEFINE step == [k \in 1 .. words |-> [s \in Int |-> s + V[k]]]
           At(k) == Value(WordIn(bytes, fill, k))
<1>0. \A k \in 1 .. words : V[k] \in Int /\ At(k) = V[k]
  OBVIOUS
<1>1. step \in [1 .. words -> [Int -> Int]] /\ \A k \in 1 .. words : \A s \in Int : step[k][s] = s + V[k]
  BY <1>0
<1> HIDE DEF step, At
<1>2. PICK w : Runs(w, Int, start, step, words)
  BY <1>1, RecursionWithin
<1>3. ASSUME NEW k \in 0 .. words PROVE w[k] = IF k = 0 THEN start ELSE w[k - 1] + At(k)
  <2>1. k # 0 => k \in 1 .. words /\ k - 1 \in 0 .. words
    OBVIOUS
  <2>2. w[0] = start /\ (k # 0 => w[k] = step[k][w[k - 1]] /\ w[k - 1] \in Int)
    BY <1>2, <2>1 DEF Runs
  <2> QED
    BY <1>0, <1>1, <2>1, <2>2
<1>4. w = [k \in 0 .. words |-> IF k = 0 THEN start ELSE w[k - 1] + At(k)]
  <2>1. w = [k \in 0 .. words |-> w[k]]
    BY <1>2 DEF Runs
  <2> QED
    BY <1>3, <2>1
<1>5. TotalsUp(w, start, bytes, fill, words)
  BY <1>4 DEF TotalsUp, At
<1>6. ASSUME NEW f, TotalsUp(f, start, bytes, fill, words)
      PROVE  /\ f[0] = start /\ \A k \in 1 .. words : f[k] = f[k - 1] + V[k]
             /\ \A k \in 0 .. words : f[k] \in Int
  <2>1. f = [k \in 0 .. words |-> IF k = 0 THEN start ELSE f[k - 1] + At(k)]
    BY <1>6 DEF TotalsUp, At
  <2>2. 0 \in 0 .. words /\ \A k \in 1 .. words : k \in 0 .. words /\ k # 0
    OBVIOUS
  <2>3. f[0] = start /\ \A k \in 1 .. words : f[k] = f[k - 1] + V[k]
    BY <1>0, <2>1, <2>2
  <2>4. f[0] \in Int /\ \A k \in 1 .. words : f[k - 1] \in Int => f[k] \in Int
    BY <1>0, <2>3
  <2>5. \A k \in 0 .. words : f[k] \in Int
    BY <2>4, StaysWithin
  <2> QED
    BY <2>3, <2>5
<1> QED
  BY <1>5, <1>6 DEF Totals
Adds(m, start, bytes, fill, first, words) ==
  /\ \E f : TotalsUp(f, start, bytes, fill, words)
  /\ \A f : TotalsUp(f, start, bytes, fill, words) =>
              f[words] = start + (Sums(m)[first + words] - Sums(m)[first])
LEMMA WordsAdded ==
  ASSUME NEW m \in Message, NEW start \in Int, NEW bytes, NEW fill, NEW first \in Nat, NEW words \in Nat,
         first + words <= Len(m),
         \A k \in 1 .. words :
           WordIn(bytes, fill, k) = WordOf(m, Len(m), first + k)
  PROVE  Adds(m, start, bytes, fill, first, words)
<1> DEFINE V == [k \in 1 .. words |-> Value(WordOf(m, Len(m), first + k))]
<1>0. Len(m) \in Nat /\ Len(m) \in 0 .. Len(m)
  BY DEF Message
<1>1. \A k \in 1 .. words : /\ first + k \in 1 .. Len(m) /\ first + k \in Nat \ {0}
                            /\ first + (k - 1) = first + k - 1
  BY <1>0
<1>2. \A k \in 1 .. words : V[k] \in Int /\ V[k] = Value(WordOf(m, Len(m), first + k))
  BY <1>0, <1>1, WordTyped, ValueIsInt
<1>3. \A k \in 1 .. words : /\ V[k] \in Int
                            /\ Value(WordIn(bytes, fill, k)) = V[k]
  BY <1>2
<1> HIDE DEF V
<1>4. /\ \E f : TotalsUp(f, start, bytes, fill, words)
      /\ \A f : TotalsUp(f, start, bytes, fill, words) =>
                   /\ f[0] = start /\ \A k \in 1 .. words : f[k] = f[k - 1] + V[k]
                   /\ \A k \in 0 .. words : f[k] \in Int
  <2>1. Totals(start, bytes, fill, words, V)
    BY <1>3, TotalsAre
  <2> QED
    BY <2>1 DEF Totals
<1>5. ASSUME NEW f, TotalsUp(f, start, bytes, fill, words)
      PROVE  f[words] = start + (Sums(m)[first + words] - Sums(m)[first])
  <2>1. f[0] = start /\ (\A k \in 1 .. words : f[k] = f[k - 1] + V[k]) /\ \A k \in 0 .. words : f[k] \in Int
    BY <1>4, <1>5
  <2> DEFINE S == Sums(m)
             R == {k \in 0 .. words : f[k] = start + (S[first + k] - S[first])}
  <2>2. \A k \in 0 .. words : first + k \in 0 .. Len(m) /\ S[first + k] \in Int
    <3>1. \A k \in 0 .. words : first + k \in 0 .. Len(m)
      BY <1>0
    <3> QED
      BY <3>1, SumsAre
  <2>3. \A k \in 1 .. words : S[first + k] = S[first + (k - 1)] + V[k]
    <3>1. ASSUME NEW k \in 1 .. words PROVE S[first + k] = S[first + (k - 1)] + V[k]
      <4>1. S[first + k] = S[first + k - 1] + Value(WordOf(m, Len(m), first + k))
        BY <1>1, SumsAre
      <4> QED
        BY <1>1, <1>2, <4>1
    <3> QED
      BY <3>1
  <2> HIDE DEF S
  <2>4. first + 0 = first /\ 0 \in 0 .. words /\ words \in 0 .. words
    OBVIOUS
  <2>5. 0 \in R /\ R \in SUBSET (0 .. words)
    <3>1. S[first] \in Int
      BY <2>2, <2>4
    <3>2. f[0] = start + (S[first + 0] - S[first])
      BY <2>1, <2>4, <3>1
    <3> QED
      BY <2>4, <3>2
  <2>6. ASSUME NEW k \in 1 .. words, k - 1 \in R PROVE k \in R
    <3>1. k \in 0 .. words /\ k - 1 \in 0 .. words
      OBVIOUS
    <3>2. f[k - 1] = start + (S[first + (k - 1)] - S[first])
      BY <2>6
    <3>3. S[first] \in Int /\ S[first + (k - 1)] \in Int /\ V[k] \in Int
      BY <1>2, <2>2, <2>4, <3>1
    <3>4. f[k] = f[k - 1] + V[k] /\ S[first + k] = S[first + (k - 1)] + V[k]
      BY <2>1, <2>3
    <3>5. f[k] = start + (S[first + k] - S[first])
      BY <3>2, <3>3, <3>4
    <3> QED
      BY <3>1, <3>5
  <2> HIDE DEF R
  <2>7. words \in R
    BY <2>5, <2>6, CountedUp
  <2> QED
    BY <2>7 DEF R, S
<1> QED
  BY <1>4, <1>5 DEF Adds

(* n bytes end in word q + 1.                                                *)
Within(n, q) == q * WordBytes <= n /\ n < (q + 1) * WordBytes
Fill(length) == IF length = 0 THEN 0 ELSE WordBytes - length
LEMMA FilledUp ==
  ASSUME NEW n \in Nat, NEW q \in Nat, NEW l \in Nat, Within(n, q),
         NEW length, length = n - q * WordBytes, length = 0 \/ WordBytes - length <= l
  PROVE  /\ length \in Nat /\ Fill(length) \in 0 .. l /\ n + Fill(length) <= (q + 1) * WordBytes
         /\ IF length = 0 THEN n = q * WordBytes ELSE n + Fill(length) = (q + 1) * WordBytes
<1> DEFINE from == q * WordBytes
<1>1. from \in Nat /\ WordBytes \in Nat \ {0}
  BY ChecksumAssumption
<1>2. (q + 1) * WordBytes = from + WordBytes
  BY <1>1
<1>3. from <= n /\ n < from + WordBytes
  BY <1>2 DEF Within
<1> HIDE DEF from
<1>4. length = n - from
  BY DEF from
<1>5. length \in Nat /\ length < WordBytes
  BY <1>1, <1>3, <1>4
<1> QED
  BY <1>1, <1>2, <1>3, <1>4, <1>5 DEF Fill, from
LEMMA WordsOf ==
  ASSUME NEW n \in Nat, NEW first \in Nat, NEW l \in Nat, n = first * WordBytes
  PROVE  LET words == l \div WordBytes
         IN  /\ words \in Nat /\ n + words * WordBytes = (first + words) * WordBytes
             /\ words * WordBytes <= l /\ n + l < (first + words + 1) * WordBytes
<1> DEFINE words == l \div WordBytes
           r == l % WordBytes
<1>0. WordBytes \in Nat \ {0}
  BY ChecksumAssumption
<1>1. words \in Nat /\ r \in 0 .. WordBytes - 1 /\ l = WordBytes * words + r
  BY <1>0
<1> HIDE DEF words, r
<1>2. /\ words * WordBytes = WordBytes * words /\ words * WordBytes \in Nat
      /\ (first + words) * WordBytes = first * WordBytes + words * WordBytes
      /\ (first + words + 1) * WordBytes = first * WordBytes + words * WordBytes + WordBytes
  BY <1>0, <1>1
<1>3. words * WordBytes <= l /\ n + l < n + words * WordBytes + WordBytes
  BY <1>0, <1>1, <1>2
<1> QED
  BY <1>1, <1>2, <1>3 DEF words
LEMMA WordInIs ==
  ASSUME NEW m \in Message, NEW n \in Nat, NEW l \in Nat, n + l <= Len(m), NEW fill \in Nat, NEW first \in Nat,
         n + fill = first * WordBytes, NEW k \in Nat \ {0}, fill + k * WordBytes <= l
  PROVE  WordIn(SubSeq(m, n + 1, n + l), fill, k) = WordOf(m, Len(m), first + k)
<1> DEFINE before == (k - 1) * WordBytes
           a == fill + before
           w == WordBytes
           q == first + k - 1
<1>0. Len(m) \in Nat /\ w \in Nat /\ before \in Nat /\ q \in Nat /\ first * w \in Nat
  BY ChecksumAssumption DEF Message
<1>1. k * WordBytes = before + w /\ q * WordBytes = first * w + before /\ (q + 1) * WordBytes = first * w + before + w
  BY ChecksumAssumption
<1>8. q + 1 = first + k
  OBVIOUS
<1> HIDE DEF before, q, w
<1>2. a \in Nat /\ a + w <= l /\ n + a = q * WordBytes /\ (q + 1) * WordBytes <= Len(m)
  BY <1>0, <1>1 DEF w
<1>3. WordIn(SubSeq(m, n + 1, n + l), fill, k) = SubSeq(SubSeq(m, n + 1, n + l), a + 1, a + w)
  <2>1. fill + k * WordBytes = a + w
    BY <1>0, <1>1
  <2> QED
    BY <2>1 DEF WordIn, before
<1> HIDE DEF a
<1>4. SubSeq(SubSeq(m, n + 1, n + l), a + 1, a + w) = SubSeq(m, n + a + 1, n + a + w)
  BY <1>0, <1>2, PartOfPart
<1>5. SubSeq(m, q * WordBytes + 1, q * WordBytes + WordBytes) = WordOf(m, Len(m), q + 1)
  BY <1>0, <1>2, WordRead
<1> QED
  BY <1>2, <1>3, <1>4, <1>5, <1>8 DEF w
(* Where the begun word is filled up, the sums are those of whole words.     *)
LEMMA FilledAgrees ==
  ASSUME NEW m \in Message, NEW n \in 0 .. Len(m), NEW q \in Nat, NEW l \in Nat, NEW c \in Int,
         Within(n, q), n + l <= Len(m), NEW s, Stands(s, m, n, q, c),
         s.length = 0 \/ WordBytes - s.length <= l
  PROVE  LET fill == Fill(s.length)
             begun == GrownWord(s, SubSeq(SubSeq(m, n + 1, n + l), 1, fill))
         IN  /\ fill \in 0 .. l /\ begun.sum \in Int
             /\ \E first \in Nat : n + fill = first * WordBytes /\ Agree(c + begun.sum, Sums(m)[first])
<1> DEFINE fill == Fill(s.length)
           bytes == SubSeq(m, n + 1, n + l)
           begun == GrownWord(s, SubSeq(bytes, 1, fill))
           from == q * WordBytes
           next == (q + 1) * WordBytes
           k == n + fill
<1>0. n \in Nat /\ s.length = n - q * WordBytes /\ Len(m) \in Nat /\ Len(m) \in 0 .. Len(m)
  BY DEF Stands, Message
<1>1. /\ s.length \in Nat /\ fill \in 0 .. l /\ n + fill <= (q + 1) * WordBytes
      /\ IF s.length = 0 THEN n = q * WordBytes ELSE n + fill = (q + 1) * WordBytes
  BY <1>0, FilledUp
<1>9. s.length = 0 => fill = 0
  BY DEF Fill
<1>2. from <= n /\ from \in Nat /\ next \in Nat
  BY ChecksumAssumption DEF Within
<1> HIDE DEF fill
<1>3. SubSeq(bytes, 1, fill) = SubSeq(m, n + 1, n + fill)
  <2> DEFINE zero == 0
  <2>1. zero \in Nat /\ zero + fill <= l /\ fill \in Nat
    BY <1>1
  <2>3. zero + 1 = 1 /\ zero + fill = fill /\ n + zero + 1 = n + 1 /\ n + zero + fill = n + fill
    BY <1>0, <1>1
  <2> HIDE DEF zero
  <2>2. SubSeq(bytes, zero + 1, zero + fill) = SubSeq(m, n + zero + 1, n + zero + fill)
    BY <1>0, <2>1, PartOfPart
  <2> QED
    BY <2>2, <2>3
<1>4. Stands(begun, m, n + fill, q, c)
  <2>1. fill \in Nat /\ n + fill <= Len(m) /\ q * WordBytes <= n
    BY <1>0, <1>1, <1>2
  <2>2. Stands(GrownWord(s, SubSeq(m, n + 1, n + fill)), m, n + fill, q, c)
    BY <1>1, <2>1, GrownWordStands
  <2> QED
    BY <1>3, <2>2
<1> HIDE DEF begun
<1>5. begun.sum \in Int /\ Agree(c + begun.sum, Amount(m, n + fill, q))
  BY <1>4 DEF Stands, SumState
<1>6. CASE s.length = 0
  <2>1. n = q * WordBytes /\ n + fill = n
    BY <1>0, <1>1, <1>6, <1>9
  <2>2. WordOf(m, n, q + 1) = ZeroWord
    BY <2>1, WordEmpty
  <2>3. Sums(m)[q] \in Int
    BY <1>2, AmountIsInt
  <2>4. Amount(m, n + fill, q) = Sums(m)[q]
    BY <2>1, <2>2, <2>3, ZeroHasNoValue DEF Amount
  <2> QED
    BY <1>1, <1>5, <2>1, <2>4 DEF fill, begun, bytes
<1>7. CASE s.length # 0
  <2>1. k = next
    BY <1>1, <1>7
  <2>2. k \in 0 .. Len(m) /\ next <= Len(m)
    BY <1>0, <1>1, <2>1
  <2>3. q + 1 \in 1 .. Len(m) /\ q = q + 1 - 1
    <3>1. q + 1 <= next
      BY ChecksumAssumption
    <3> QED
      BY <1>0, <1>2, <2>2, <3>1
  <2>4. WordOf(m, k, q + 1) = WordOf(m, Len(m), q + 1)
    BY <2>1, <2>2, WordComplete
  <2>5. Sums(m)[q + 1] = Sums(m)[q] + Value(WordOf(m, Len(m), q + 1))
    BY <2>3, SumsAre
  <2>6. Amount(m, n + fill, q) = Sums(m)[q + 1]
    BY <2>4, <2>5 DEF Amount
  <2> QED
    BY <1>1, <1>5, <2>1, <2>6 DEF fill, begun, bytes
<1> QED
  BY <1>6, <1>7
(* t has taken the whole words of the first n bytes, or all of them.         *)
LeftAt(t, m, n, p, h, c) ==
  /\ Within(n, p) /\ p * WordBytes <= h /\ h <= n
  /\ Stands(t, m, h, p, c) /\ t.rest = SubSeq(m, h + 1, n)
LeavesRest(t, m, n, c) == \E p \in Nat, h \in Nat : LeftAt(t, m, n, p, h, c)
Added(T, fill, words, bytes) ==
  [sum |-> T[words] % WordSize, word |-> ZeroWord, length |-> 0,
   rest |-> SubSeq(bytes, fill + words * WordBytes + 1, Len(bytes))]
LEMMA AddWordsIs ==
  ASSUME NEW s, NEW bytes
  PROVE  LET fill  == Fill(s.length)
             begun == GrownWord(s, SubSeq(bytes, 1, fill))
             words == (Len(bytes) - fill) \div WordBytes
         IN  (\E f : TotalsUp(f, begun.sum, bytes, fill, words)) =>
               \E T : TotalsUp(T, begun.sum, bytes, fill, words) /\ AddWords(s, bytes) = Added(T, fill, words, bytes)
<1> DEFINE fill  == Fill(s.length)
           begun == GrownWord(s, SubSeq(bytes, 1, fill))
           words == (Len(bytes) - fill) \div WordBytes
           T == CHOOSE f : f = [k \in 0 .. words |->
                  IF k = 0 THEN begun.sum
                  ELSE f[k - 1] + Value(SubSeq(bytes, fill + (k - 1) * WordBytes + 1, fill + k * WordBytes))]
<1>1. AddWords(s, bytes) = Added(T, fill, words, bytes)
  BY DEF AddWords, Added, Fill
<1>2. (\E f : TotalsUp(f, begun.sum, bytes, fill, words)) => TotalsUp(T, begun.sum, bytes, fill, words)
  BY DEF TotalsUp, WordIn
<1> HIDE DEF T
<1> QED
  BY <1>1, <1>2
LEMMA AddWordsStands ==
  ASSUME NEW m \in Message, NEW n \in 0 .. Len(m), NEW q \in Nat, NEW l \in Nat, NEW c \in Int,
         Within(n, q), n + l <= Len(m), NEW s, Stands(s, m, n, q, c),
         s.length = 0 \/ WordBytes - s.length <= l
  PROVE  LeavesRest(AddWords(s, SubSeq(m, n + 1, n + l)), m, n + l, c)
<1> DEFINE fill == Fill(s.length)
           bytes == SubSeq(m, n + 1, n + l)
           begun == GrownWord(s, SubSeq(bytes, 1, fill))
           words == (l - fill) \div WordBytes
           t == AddWords(s, bytes)
<1>0. n \in Nat /\ Len(m) \in Nat /\ Len(bytes) = l
  <2>1. Len(bytes) = l
    BY PartOf
  <2> QED
    BY <2>1 DEF Message
<1>1. /\ fill \in 0 .. l /\ begun.sum \in Int
      /\ \E first \in Nat : n + fill = first * WordBytes /\ Agree(c + begun.sum, Sums(m)[first])
  BY FilledAgrees
<1>2. PICK first \in Nat : n + fill = first * WordBytes /\ Agree(c + begun.sum, Sums(m)[first])
  BY <1>1
<1> DEFINE p == first + words
           h == p * WordBytes
           a == fill + words * WordBytes
<1>3. (\E f : TotalsUp(f, begun.sum, bytes, fill, words)) =>
        \E T : TotalsUp(T, begun.sum, bytes, fill, words) /\ t = Added(T, fill, words, bytes)
  BY <1>0, AddWordsIs
<1> HIDE DEF fill, begun, t
<1>4. /\ words \in Nat /\ n + fill + words * WordBytes = p * WordBytes
      /\ words * WordBytes <= l - fill /\ n + fill + (l - fill) < (p + 1) * WordBytes
  <2> DEFINE k == n + fill
             r == l - fill
  <2>1. k \in Nat /\ r \in Nat /\ k = first * WordBytes
    BY <1>0, <1>1, <1>2
  <2>2. words = r \div WordBytes
    OBVIOUS
  <2> HIDE DEF k, r, words
  <2>3. LET w == r \div WordBytes
        IN  /\ w \in Nat /\ k + w * WordBytes = (first + w) * WordBytes
            /\ w * WordBytes <= r /\ k + r < (first + w + 1) * WordBytes
    BY <2>1, WordsOf
  <2> QED
    BY <2>2, <2>3 DEF k, r
<1> HIDE DEF words
<1>5. words * WordBytes \in Nat /\ a \in 0 .. l /\ n + a = h /\ h \in Nat /\ h <= n + l
  <2> DEFINE x == words * WordBytes
  <2>1. x \in Nat
    BY <1>4, ChecksumAssumption
  <2>2. n + fill + x = h /\ x <= l - fill /\ a = fill + x
    BY <1>4
  <2> HIDE DEF x, h, a
  <2>3. a \in 0 .. l /\ n + a = h /\ h \in Nat /\ h <= n + l
    BY <1>0, <1>1, <2>1, <2>2
  <2> QED
    BY <2>1, <2>3 DEF x
<1>6. p \in Nat /\ p <= h /\ p \in 0 .. Len(m)
  <2>1. p \in Nat
    BY <1>4
  <2>2. p <= h
    <3> HIDE DEF p
    <3> QED
      BY <2>1, ChecksumAssumption
  <2> QED
    BY <1>0, <1>5, <2>1, <2>2
<1>7. Within(n + l, p)
  <2>1. n + fill + (l - fill) = n + l
    BY <1>0, <1>1
  <2> QED
    BY <1>4, <1>5, <2>1 DEF Within
<1>8. ASSUME NEW k \in 1 .. words PROVE WordIn(bytes, fill, k) = WordOf(m, Len(m), first + k)
  <2>1. k \in Nat \ {0} /\ fill \in Nat
    BY <1>1
  <2>2. k * WordBytes <= words * WordBytes
    BY <1>4, ChecksumAssumption
  <2>3. k * WordBytes \in Nat
    BY <2>1, ChecksumAssumption
  <2>4. fill + k * WordBytes <= l
    <3> DEFINE x == words * WordBytes
               y == k * WordBytes
    <3>1. y <= x /\ x <= l - fill /\ x \in Nat /\ y \in Nat /\ fill \in Nat /\ l \in Nat
      BY <1>4, <1>5, <2>1, <2>2, <2>3
    <3> HIDE DEF x, y
    <3>2. fill + y <= l
      BY <3>1
    <3> QED
      BY <3>2 DEF y
  <2> QED
    BY <1>0, <1>2, <2>1, <2>4, WordInIs
<1> DEFINE start == begun.sum
<1>9. PICK T : t = Added(T, fill, words, bytes) /\ T[words] = start + (Sums(m)[p] - Sums(m)[first])
  <2>1. start \in Int /\ first + words <= Len(m)
    BY <1>1, <1>6
  <2> HIDE DEF start, bytes
  <2>2. Adds(m, start, bytes, fill, first, words)
    BY <1>4, <1>8, <2>1, WordsAdded
  <2> QED
    BY <1>3, <2>2 DEF start, Adds
<1>10. t.sum = T[words] % WordSize /\ t.word = ZeroWord /\ t.length = 0 /\ t.rest = SubSeq(bytes, a + 1, l)
  BY <1>0, <1>9 DEF Added
<1>11. t.rest = SubSeq(m, h + 1, n + l) /\ t.rest \in Message
  <2> DEFINE k == l - a
  <2>1. a \in Nat /\ k \in Nat /\ a + k = l /\ n + a + k = n + l /\ h + k = n + l
    BY <1>0, <1>5
  <2> HIDE DEF a, k, h
  <2>2. SubSeq(bytes, a + 1, a + k) = SubSeq(m, n + a + 1, n + a + k)
    BY <1>0, <2>1, PartOfPart
  <2>3. h + k <= Len(m) /\ h \in Nat
    BY <1>5, <2>1
  <2>4. SubSeq(m, h + 1, h + k) \in Message
    BY <2>1, <2>3, PartOf
  <2> QED
    BY <1>5, <1>10, <2>1, <2>2, <2>4
<1>12. Agree(c + t.sum, Sums(m)[p]) /\ t.sum \in Int
  <2> DEFINE b == Sums(m)[first]
             d == Sums(m)[p] - b
  <2>1. Sums(m)[p] \in Int
    BY <1>6, SumsAre
  <2>2. b \in Int
    <3>1. first \in 0 .. Len(m)
      BY <1>4, <1>6
    <3> QED
      BY <3>1, SumsAre
  <2>3. d \in Int /\ b + d = Sums(m)[p]
    BY <2>1, <2>2
  <2>4. t.sum = (start + d) % WordSize /\ Agree(c + start, b) /\ start \in Int
    BY <1>1, <1>2, <1>9, <1>10
  <2> HIDE DEF b, d, start
  <2>5. Agree(c + ((start + d) % WordSize), b + d) /\ (start + d) % WordSize \in Int
    BY <2>2, <2>3, <2>4, AgreeMore
  <2> QED
    BY <2>3, <2>4, <2>5
<1>13. Stands(t, m, h, p, c)
  <2>1. WordOf(m, h, p + 1) = ZeroWord
    <3>1. h \in 0 .. Len(m) /\ h = p * WordBytes
      BY <1>0, <1>5
    <3> HIDE DEF h, p
    <3> QED
      BY <1>6, <3>1, WordEmpty
  <2>2. Amount(m, h, p) = Sums(m)[p]
    <3>1. Sums(m)[p] \in Int
      BY <1>6, SumsAre
    <3> QED
      BY <2>1, <3>1, ZeroHasNoValue DEF Amount
  <2>3. t \in SumState
    BY <1>9, <1>10, <1>11, <1>12, ZeroHasNoValue DEF SumState, Added
  <2>4. t.length = h - p * WordBytes
    BY <1>5, <1>10
  <2> QED
    BY <1>10, <1>12, <2>1, <2>2, <2>3, <2>4 DEF Stands
<1>14. LeftAt(t, m, n + l, p, h, c)
  BY <1>5, <1>7, <1>11, <1>13 DEF LeftAt
<1> QED
  BY <1>5, <1>6, <1>14 DEF LeavesRest, t
-----------------------------------------------------------------------------
(* The parts of a piece.                                                     *)
NothingLeft(s) == [s EXCEPT !.rest = <<>>]
LEMMA PartsJoined ==
  ASSUME NEW m \in Message, NEW h \in Nat, NEW n \in Nat, NEW l \in Nat, h <= n, n + l <= Len(m)
  PROVE  SubSeq(m, h + 1, n) \o SubSeq(m, n + 1, n + l) = SubSeq(m, h + 1, n + l)
<1> DEFINE a == h + 1
           z == n + l
           S == 0 .. Byte - 1
<1>1. m \in Seq(S) /\ a \in 1 .. Len(m) + 1 /\ n \in a - 1 .. Len(m) /\ z \in n .. Len(m)
  BY DEF Message
<1> HIDE DEF a, z, S
<1>2. SubSeq(m, a, n) \o SubSeq(m, n + 1, z) = SubSeq(m, a, z)
  BY <1>1, ConcatAdjacentSubSeq
<1> QED
  BY <1>2 DEF a, z
LEMMA NothingStands ==
  ASSUME NEW s, NEW m, NEW n, NEW q, NEW c, Stands(s, m, n, q, c)
  PROVE  Stands(NothingLeft(s), m, n, q, c) /\ NothingLeft(s).rest = <<>>
<1>1. s \in SumState
  BY DEF Stands
<1>2. <<>> \in Message
  BY DEF Message
<1>3. /\ NothingLeft(s) \in SumState /\ NothingLeft(s).rest = <<>>
      /\ NothingLeft(s).word = s.word /\ NothingLeft(s).length = s.length /\ NothingLeft(s).sum = s.sum
  BY <1>1, <1>2 DEF NothingLeft, SumState
<1> QED
  BY <1>3 DEF Stands
LEMMA CopyStands ==
  ASSUME NEW m \in Message, NEW n \in 0 .. Len(m), NEW q \in Nat, NEW l \in Nat, NEW c \in Int,
         Within(n, q), n + l <= Len(m), NEW s, Stands(s, m, n, q, c), s.rest = <<>>
  PROVE  LeavesRest(Copy(s, SubSeq(m, n + 1, n + l)), m, n + l, c)
<1> DEFINE bytes == SubSeq(m, n + 1, n + l)
           from == q * WordBytes
           h == n + l
<1>0. n \in Nat /\ Len(m) \in Nat /\ Len(bytes) = l
  <2>1. Len(bytes) = l
    BY PartOf
  <2> QED
    BY <2>1 DEF Message
<1>1. s.length = n - from /\ from \in Nat /\ from <= n /\ (q + 1) * WordBytes = from + WordBytes /\ WordBytes \in Nat \ {0}
  BY ChecksumAssumption DEF Stands, Within
<1>2. CASE s.length # 0 /\ l < WordBytes - s.length
  <2>1. Copy(s, bytes) = GrownWord(s, bytes)
    BY <1>0, <1>2 DEF Copy
  <2>2. n + l < (q + 1) * WordBytes /\ from <= n + l
    <3> HIDE DEF from
    <3> QED
      BY <1>0, <1>1, <1>2
  <2>3. Stands(GrownWord(s, bytes), m, n + l, q, c) /\ GrownWord(s, bytes).rest = s.rest
    <3>1. q * WordBytes <= n
      BY <1>1
    <3>2. n + l <= (q + 1) * WordBytes
      <4> DEFINE next == (q + 1) * WordBytes
      <4>1. next \in Nat /\ n + l < next
        BY <1>1, <2>2
      <4> HIDE DEF next
      <4>2. n + l <= next
        BY <1>0, <4>1
      <4> QED
        BY <4>2 DEF next
    <3>3. Stands(GrownWord(s, SubSeq(m, n + 1, n + l)), m, n + l, q, c)
      BY <3>1, <3>2, GrownWordStands
    <3>4. GrownWord(s, bytes).rest = s.rest
      <4>1. s \in SumState
        BY DEF Stands
      <4> HIDE DEF bytes
      <4> QED
        BY <4>1 DEF GrownWord, SumState
    <3> QED
      BY <3>3, <3>4
  <2>4. h \in Nat /\ SubSeq(m, h + 1, h) = <<>>
    BY <1>0, SubSeqEmpty DEF Message
  <2>5. Within(h, q) /\ q * WordBytes <= h /\ h <= h
    BY <1>0, <2>2 DEF Within
  <2> DEFINE t == Copy(s, bytes)
  <2>6. Stands(t, m, h, q, c) /\ t.rest = SubSeq(m, h + 1, h)
    BY <2>1, <2>3, <2>4
  <2> HIDE DEF t, h
  <2>7. LeftAt(t, m, h, q, h, c)
    BY <2>5, <2>6 DEF LeftAt
  <2> QED
    BY <2>4, <2>7 DEF LeavesRest, t, h
<1>3. CASE ~(s.length # 0 /\ l < WordBytes - s.length)
  <2>1. Copy(s, bytes) = AddWords(s, bytes)
    BY <1>0, <1>3 DEF Copy
  <2>2. s.length = 0 \/ WordBytes - s.length <= l
    <3> HIDE DEF from
    <3> QED
      BY <1>0, <1>1, <1>3
  <2> QED
    BY <2>1, <2>2, AddWordsStands
<1> QED
  BY <1>2, <1>3
Whole(t, m, n, c) == \E p \in Nat : Within(n, p) /\ Stands(t, m, n, p, c)
LEMMA LeftOverStands ==
  ASSUME NEW m \in Message, NEW n \in 0 .. Len(m), NEW c \in Int, NEW t, LeavesRest(t, m, n, c)
  PROVE  Whole(LeftOver(t), m, n, c)
<1>1. PICK p \in Nat, h \in Nat : LeftAt(t, m, n, p, h, c)
  BY DEF LeavesRest
<1> DEFINE l == n - h
           s == NothingLeft(t)
<1>2. Within(n, p) /\ p * WordBytes <= h /\ h <= n /\ Stands(t, m, h, p, c) /\ t.rest = SubSeq(m, h + 1, n)
  BY <1>1 DEF LeftAt
<1>3. l \in Nat /\ h + l = n /\ h + l <= Len(m) /\ h \in 0 .. Len(m)
  BY <1>2 DEF Message
<1>4. Stands(s, m, h, p, c)
  BY <1>2, NothingStands
<1>5. LeftOver(t) = GrownWord(s, SubSeq(m, h + 1, h + l))
  BY <1>2, <1>3 DEF LeftOver, NothingLeft
<1> HIDE DEF s, l
<1>6. h + l <= (p + 1) * WordBytes
  BY <1>2, <1>3, ChecksumAssumption DEF Within
<1>7. Stands(GrownWord(s, SubSeq(m, h + 1, h + l)), m, h + l, p, c)
  BY <1>2, <1>3, <1>4, <1>6, GrownWordStands
<1> QED
  BY <1>2, <1>3, <1>5, <1>7 DEF Whole
LEMMA CsumPartialStands ==
  ASSUME NEW m \in Message, NEW n \in 0 .. Len(m), NEW q \in Nat, NEW l \in Nat, NEW c \in Int,
         Within(n, q), n + l <= Len(m), NEW s, Stands(s, m, n, q, c), s.rest = <<>>
  PROVE  Whole(CsumPartial(s, SubSeq(m, n + 1, n + l)), m, n + l, c)
<1> DEFINE k == n + l
           t == Copy(s, SubSeq(m, n + 1, n + l))
<1>1. k \in 0 .. Len(m)
  BY DEF Message
<1>2. LeavesRest(t, m, k, c)
  BY CopyStands
<1>3. CsumPartial(s, SubSeq(m, n + 1, n + l)) = LeftOver(t)
  BY DEF CsumPartial
<1> HIDE DEF k, t
<1>4. Whole(LeftOver(t), m, k, c)
  BY <1>1, <1>2, LeftOverStands
<1> QED
  BY <1>3, <1>4 DEF k
LEMMA CsumCopiedStands ==
  ASSUME NEW m \in Message, NEW n \in 0 .. Len(m), NEW q \in Nat, NEW l \in Nat, NEW c \in Int,
         Within(n, q), n + l <= Len(m), NEW s, Stands(s, m, n, q, c), s.rest = <<>>, NEW k \in 0 .. l
  PROVE  Whole(CsumCopied(s, SubSeq(m, n + 1, n + k), SubSeq(m, n + k + 1, n + l)), m, n + l, c)
<1> DEFINE b == n + k
           e == n + l
           d == l - k
           t == Copy(s, SubSeq(m, n + 1, n + k))
           more == SubSeq(m, n + k + 1, n + l)
           u == Copy(NothingLeft(t), t.rest \o more)
<1>1. b \in 0 .. Len(m) /\ e \in 0 .. Len(m) /\ d \in Nat /\ b + d = e /\ Len(m) \in Nat /\ k \in Nat
  BY DEF Message
<1>2. LeavesRest(t, m, b, c)
  <2>1. n + k <= Len(m)
    BY <1>1
  <2>2. LeavesRest(Copy(s, SubSeq(m, n + 1, n + k)), m, n + k, c)
    BY <1>1, <2>1, CopyStands
  <2> QED
    BY <2>2
<1>3. CsumCopied(s, SubSeq(m, n + 1, n + k), more) = IF more = <<>> THEN LeftOver(t) ELSE LeftOver(u)
  BY DEF CsumCopied, NothingLeft
<1>4. more = SubSeq(m, b + 1, b + d)
  BY <1>1
<1> HIDE DEF b, d, e, t, more
<1>5. CASE more = <<>>
  <2>1. d = 0
    <3>1. b + d <= Len(m) /\ b \in Nat
      BY <1>1
    <3>2. Len(more) = d
      BY <1>1, <1>4, <3>1, PartOf
    <3> QED
      BY <1>5, <3>2
  <2>2. e = b
    BY <1>1, <2>1
  <2>3. Whole(LeftOver(t), m, b, c)
    BY <1>1, <1>2, LeftOverStands
  <2> QED
    BY <1>3, <1>5, <2>2, <2>3 DEF e, more
<1>6. CASE more # <<>>
  <2>1. PICK p \in Nat, h \in Nat : LeftAt(t, m, b, p, h, c)
    BY <1>2 DEF LeavesRest
  <2>2. Within(b, p) /\ p * WordBytes <= h /\ h <= b /\ Stands(t, m, h, p, c) /\ t.rest = SubSeq(m, h + 1, b)
    BY <2>1 DEF LeftAt
  <2> DEFINE x == e - h
             v == NothingLeft(t)
             both == t.rest \o more
  <2>3. x \in Nat /\ h + x = e /\ h + x <= Len(m) /\ h \in 0 .. Len(m) /\ b \in Nat
    BY <1>1, <2>2
  <2>4. both = SubSeq(m, h + 1, h + x)
    <3>1. b + d <= Len(m)
      BY <1>1
    <3>3. h \in Nat /\ h <= b /\ b \in Nat /\ d \in Nat
      BY <1>1, <2>2, <2>3
    <3>2. SubSeq(m, h + 1, b) \o SubSeq(m, b + 1, b + d) = SubSeq(m, h + 1, b + d)
      BY <3>1, <3>3, PartsJoined
    <3> QED
      BY <1>1, <1>4, <2>2, <2>3, <3>2
  <2>5. Within(h, p)
    BY <1>1, <2>2, <2>3, ChecksumAssumption DEF Within
  <2>6. Stands(v, m, h, p, c) /\ v.rest = <<>>
    BY <2>2, NothingStands
  <2>7. u = Copy(v, both)
    OBVIOUS
  <2> HIDE DEF x, v, both, u
  <2>8. LeavesRest(Copy(v, SubSeq(m, h + 1, h + x)), m, h + x, c)
    BY <2>3, <2>5, <2>6, CopyStands
  <2>9. Whole(LeftOver(u), m, e, c)
    BY <1>1, <2>3, <2>4, <2>7, <2>8, LeftOverStands
  <2> QED
    BY <1>3, <1>6, <2>9 DEF e, more
<1> QED
  BY <1>5, <1>6
-----------------------------------------------------------------------------
(* What the sums come to.                                                    *)
LEMMA Quotient ==
  ASSUME NEW m \in Nat \ {0}, NEW x \in Int, NEW q \in Int, NEW r \in 0 .. m - 1, x = (m * q) + r
  PROVE  x \div m = q
OBVIOUS
LEMMA WordsBegun ==
  ASSUME NEW n \in Nat, NEW q \in Nat, Within(n, q)
  PROVE  (n + WordBytes - 1) \div WordBytes = IF n = q * WordBytes THEN q ELSE q + 1
<1> DEFINE from == q * WordBytes
           w == WordBytes
           x == n + WordBytes - 1
           next == q + 1
<1>1. /\ from \in Nat /\ w \in Nat \ {0} /\ from = w * q /\ w * next = from + w /\ x \in Int
      /\ from <= n /\ n < from + w /\ x = n + w - 1 /\ q \in Int /\ next \in Int
  BY ChecksumAssumption DEF Within
<1> HIDE DEF from, w, x, next
<1>2. CASE n = from
  <2> DEFINE r == w - 1
  <2>1. r \in 0 .. w - 1 /\ x = (w * q) + r
    BY <1>1, <1>2
  <2> HIDE DEF r
  <2>2. x \div w = q
    BY <1>1, <2>1, Quotient
  <2> QED
    BY <1>2, <2>2 DEF x, w, from
<1>3. CASE n # from
  <2> DEFINE r == n - from - 1
  <2>1. r \in 0 .. w - 1 /\ x = (w * next) + r
    BY <1>1, <1>3
  <2> HIDE DEF r
  <2>2. x \div w = next
    BY <1>1, <2>1, Quotient
  <2> QED
    BY <1>3, <2>2 DEF x, w, from, next
<1> QED
  BY <1>2, <1>3
ReadIsWithin == ck_message \in Message /\ ck_read \in 0 .. Len(ck_message)
WordsSummedUp(f, words) == f = [k \in 0 .. words |-> IF k = 0 THEN 0 ELSE f[k - 1] + Value(Padded(k))]
LEMMA SumOfWordsIs ==
  ASSUME ReadIsWithin, NEW q \in Nat, Within(ck_read, q)
  PROVE  SumOfWords = Amount(ck_message, ck_read, q) % WordSize
<1> DEFINE m == ck_message
           n == ck_read
           words == (ck_read + WordBytes - 1) \div WordBytes
           V == [k \in 1 .. words |-> Value(WordOf(m, n, k))]
           f == CHOOSE f : f = [k \in 0 .. words |-> IF k = 0 THEN 0 ELSE f[k - 1] + Value(Padded(k))]
           step == [k \in 1 .. words |-> [s \in Int |-> s + V[k]]]
           from == q * WordBytes
<1>0. m \in Message /\ n \in 0 .. Len(m) /\ n \in Nat /\ Len(m) \in Nat
  BY DEF ReadIsWithin, Message
<1>1. words = IF n = q * WordBytes THEN q ELSE q + 1
  BY <1>0, WordsBegun
<1>2. from \in Nat /\ from <= n /\ q <= from
  BY ChecksumAssumption DEF Within
<1>3. q \in 0 .. Len(m)
  BY <1>0, <1>2
<1>4. SumOfWords = f[words] % WordSize
  BY DEF SumOfWords
<1>5. (\E w : WordsSummedUp(w, words)) => WordsSummedUp(f, words)
  BY DEF WordsSummedUp
<1> HIDE DEF words, f
<1>6. words \in Nat
  BY <1>1
<1>7. \A k \in 1 .. words : k \in Nat \ {0} /\ V[k] = Value(Padded(k)) /\ V[k] \in Int
  <2>1. ASSUME NEW k \in 1 .. words PROVE k \in Nat \ {0} /\ V[k] = Value(Padded(k)) /\ V[k] \in Int
    <3>1. k \in Nat \ {0}
      BY <1>6
    <3>2. WordOf(m, n, k) = Padded(k)
      BY DEF WordOf, Padded
    <3> QED
      BY <1>0, <3>1, <3>2, WordTyped, ValueIsInt
  <2> QED
    BY <2>1
<1>8. \A k \in 1 .. words : k <= q => V[k] = Value(WordOf(m, Len(m), k))
  <2>1. ASSUME NEW k \in 1 .. words, k <= q PROVE V[k] = Value(WordOf(m, Len(m), k))
    <3>1. k \in Nat \ {0}
      BY <1>7
    <3>2. k * WordBytes <= q * WordBytes
      BY <2>1, <3>1, ChecksumAssumption
    <3>3. k * WordBytes \in Nat
      BY <3>1, ChecksumAssumption
    <3>4. k * WordBytes <= n
      <4> DEFINE y == k * WordBytes
      <4>1. y <= from /\ y \in Nat
        BY <3>2, <3>3
      <4> HIDE DEF y, from
      <4>2. y <= n
        BY <1>0, <1>2, <4>1
      <4> QED
        BY <4>2 DEF y
    <3> QED
      BY <1>0, <3>1, <3>4, WordComplete
  <2> QED
    BY <2>1
<1> HIDE DEF V, from
<1>9. step \in [1 .. words -> [Int -> Int]] /\ \A k \in 1 .. words : \A s \in Int : step[k][s] = s + V[k]
  BY <1>7
<1> HIDE DEF step
<1>10. WordsSummedUp(f, words)
  <2> DEFINE zero == 0
  <2>1. zero \in Int
    OBVIOUS
  <2> HIDE DEF zero
  <2>2. PICK w : Runs(w, Int, zero, step, words)
    BY <1>6, <1>9, <2>1, RecursionWithin
  <2>3. ASSUME NEW k \in 0 .. words PROVE w[k] = IF k = 0 THEN 0 ELSE w[k - 1] + Value(Padded(k))
    <3>1. k # 0 => k \in 1 .. words /\ k - 1 \in 0 .. words
      BY <1>6
    <3>2. w[0] = 0 /\ (k # 0 => w[k] = step[k][w[k - 1]] /\ w[k - 1] \in Int)
      BY <2>2, <3>1 DEF Runs, zero
    <3> QED
      BY <1>7, <1>9, <3>1, <3>2
  <2>4. w = [k \in 0 .. words |-> w[k]]
    BY <2>2 DEF Runs
  <2>5. WordsSummedUp(w, words)
    BY <2>3, <2>4 DEF WordsSummedUp
  <2> QED
    BY <1>5, <2>5
<1>11. f[0] = 0 /\ \A k \in 1 .. words : f[k] = f[k - 1] + V[k]
  <2>1. f = [k \in 0 .. words |-> IF k = 0 THEN 0 ELSE f[k - 1] + Value(Padded(k))]
    BY <1>10 DEF WordsSummedUp
  <2>2. 0 \in 0 .. words /\ \A k \in 1 .. words : k \in 0 .. words /\ k # 0
    BY <1>6
  <2> QED
    BY <1>7, <2>1, <2>2
<1>12. q <= words
  BY <1>1
<1>13. f[q] = Sums(m)[q]
  <2> DEFINE R == {k \in 0 .. q : f[k] = Sums(m)[k]}
  <2>1. 0 \in R /\ R \in SUBSET (0 .. q)
    BY <1>0, <1>11, SumsAre
  <2>2. ASSUME NEW k \in 1 .. q, k - 1 \in R PROVE k \in R
    <3>1. k \in 1 .. words /\ k <= q /\ k \in 1 .. Len(m) /\ k \in 0 .. q
      BY <1>0, <1>3, <1>6, <1>12
    <3>2. f[k - 1] = Sums(m)[k - 1]
      BY <2>2
    <3>3. Sums(m)[k] = Sums(m)[k - 1] + Value(WordOf(m, Len(m), k))
      BY <1>0, <3>1, SumsAre
    <3>4. f[k] = f[k - 1] + Value(WordOf(m, Len(m), k))
      BY <1>8, <1>11, <3>1
    <3> QED
      BY <3>1, <3>2, <3>3, <3>4
  <2> HIDE DEF R
  <2>3. q \in R
    BY <2>1, <2>2, CountedUp
  <2> QED
    BY <2>3 DEF R
<1>14. CASE n = q * WordBytes
  <2>1. WordOf(m, n, q + 1) = ZeroWord
    BY <1>0, <1>14, WordEmpty
  <2>2. Sums(m)[q] \in Int
    BY <1>0, <1>3, SumsAre
  <2>3. Amount(m, n, q) = Sums(m)[q]
    BY <2>1, <2>2, ZeroHasNoValue DEF Amount
  <2> QED
    BY <1>1, <1>4, <1>13, <1>14, <2>3
<1>15. CASE n # q * WordBytes
  <2> DEFINE k == q + 1
  <2>1. words = k /\ k \in 1 .. words /\ k - 1 = q
    BY <1>1, <1>15
  <2> HIDE DEF k
  <2>2. f[k] = f[q] + V[k]
    BY <1>11, <2>1
  <2>3. V[k] = Value(WordOf(m, n, k))
    BY <2>1 DEF V
  <2> QED
    BY <1>4, <1>13, <2>1, <2>2, <2>3 DEF Amount, k
<1> QED
  BY <1>14, <1>15
-----------------------------------------------------------------------------
(* The CRC of a byte: eight shifts at once, and one after the other.         *)
Register == SUBSET CrcBit
LEMMA RegistersStay ==
  /\ \A a \in Register, b \in Register : Xor(a, b) \in Register
  /\ \A a \in Register, n \in Nat : Shifted(a, n) \in Register
  /\ \A a \in Register : Shift1(a) \in Register
<1>1. \A a \in Register, b \in Register : Xor(a, b) \in Register
  BY DEF Register, Xor
<1>2. \A a \in Register, n \in Nat : Shifted(a, n) \in Register
  BY DEF Register, Shifted
<1>3. \A a \in Register : Shift1(a) \in Register
  <2>1. 1 \in Nat /\ CRC_POLYNOMIAL \in Register
    BY ChecksumAssumption DEF Register
  <2> QED
    BY <1>1, <1>2, <2>1 DEF Shift1
<1> QED
  BY <1>1, <1>2, <1>3
Lift(bits) == {b + CrcBits - ByteBits : b \in bits}
LEMMA LiftIs ==
  ASSUME NEW bits \in SUBSET ByteBit
  PROVE  Lift(bits) \in Register /\ \A b \in CrcBit : b \in Lift(bits) <=> b - (CrcBits - ByteBits) \in bits
<1>1. \A b \in ByteBit : b + CrcBits - ByteBits \in CrcBit /\ b + CrcBits - ByteBits - (CrcBits - ByteBits) = b
  BY ChecksumAssumption DEF ByteBit, CrcBit
<1>2. \A b \in CrcBit : b - (CrcBits - ByteBits) + CrcBits - ByteBits = b
  BY ChecksumAssumption DEF ByteBit, CrcBit
<1>3. Lift(bits) \in Register
  BY <1>1 DEF Lift, Register
<1>4. ASSUME NEW b \in CrcBit PROVE b \in Lift(bits) <=> b - (CrcBits - ByteBits) \in bits
  <2>1. ASSUME b \in Lift(bits) PROVE b - (CrcBits - ByteBits) \in bits
    <3>1. PICK a \in bits : b = a + CrcBits - ByteBits
      BY <2>1 DEF Lift
    <3>2. a \in Int /\ CrcBits \in Int /\ ByteBits \in Int
      BY ChecksumAssumption DEF ByteBit
    <3>3. b - (CrcBits - ByteBits) = a
      BY <3>1, <3>2
    <3> QED
      BY <3>3
  <2>2. ASSUME b - (CrcBits - ByteBits) \in bits PROVE b \in Lift(bits)
    BY <1>2, <2>2 DEF Lift
  <2> QED
    BY <2>1, <2>2
<1> QED
  BY <1>3, <1>4
TableUp(t, i) == t = [j \in 0 .. ByteBits |-> IF j = 0 THEN Lift(i) ELSE Shift1(t[j - 1])]
TableRun(t, i) ==
  /\ CrcTable[i] = t[ByteBits] /\ t[0] = Lift(i)
  /\ \A k \in 1 .. ByteBits : t[k] = Shift1(t[k - 1])
  /\ \A k \in 0 .. ByteBits : t[k] \in Register
LEMMA TableIs ==
  ASSUME NEW i \in SUBSET ByteBit
  PROVE  \E t : TableRun(t, i)
<1> DEFINE n == ByteBits
           base == Lift(i)
           step == [k \in 1 .. n |-> [s \in Register |-> Shift1(s)]]
           f == CHOOSE after : after = [j \in 0 .. ByteBits |->
                  IF j = 0 THEN {b + CrcBits - ByteBits : b \in i} ELSE Shift1(after[j - 1])]
<1>1. n \in Nat /\ base \in Register
  BY ChecksumAssumption, LiftIs
<1>2. step \in [1 .. n -> [Register -> Register]] /\ \A k \in 1 .. n : \A s \in Register : step[k][s] = Shift1(s)
  BY RegistersStay
<1>3. CrcTable[i] = f[n]
  BY DEF CrcTable
<1>4. (\E t : TableUp(t, i)) => TableUp(f, i)
  BY DEF TableUp, Lift
<1> HIDE DEF step, f, base, n
<1>5. PICK w : Runs(w, Register, base, step, n)
  BY <1>1, <1>2, RecursionWithin
<1>6. ASSUME NEW k \in 0 .. n PROVE w[k] = IF k = 0 THEN base ELSE Shift1(w[k - 1])
  <2>1. k # 0 => k \in 1 .. n /\ k - 1 \in 0 .. n
    BY <1>1
  <2>2. w[0] = base /\ (k # 0 => w[k] = step[k][w[k - 1]] /\ w[k - 1] \in Register)
    BY <1>5, <2>1 DEF Runs
  <2> QED
    BY <1>2, <2>1, <2>2
<1>7. TableUp(w, i)
  <2>1. w = [k \in 0 .. n |-> w[k]]
    BY <1>5 DEF Runs
  <2> QED
    BY <1>6, <2>1 DEF TableUp, base, n
<1>8. f = [k \in 0 .. n |-> IF k = 0 THEN base ELSE Shift1(f[k - 1])]
  BY <1>4, <1>7 DEF TableUp, base, n
<1>9. f[0] = base /\ \A k \in 1 .. n : f[k] = Shift1(f[k - 1])
  <2>1. 0 \in 0 .. n /\ \A k \in 1 .. n : k \in 0 .. n /\ k # 0
    BY <1>1
  <2> QED
    BY <1>8, <2>1
<1>10. \A k \in 0 .. n : f[k] \in Register
  <2>1. f[0] \in Register /\ \A k \in 1 .. n : f[k - 1] \in Register => f[k] \in Register
    BY <1>1, <1>9, RegistersStay
  <2> QED
    BY <1>1, <2>1, StaysWithin
<1>11. TableRun(f, i)
  BY <1>3, <1>9, <1>10 DEF TableRun, base, n
<1> QED
  BY <1>11
BitsUp(a, crc, byte) ==
  a = [j \in 0 .. ByteBits |-> IF j = 0 THEN crc ELSE BitAdded(a[j - 1], ByteBits - j, byte)]
BitsRun(a, crc, byte) ==
  /\ BitsAdded(crc, byte) = a[ByteBits] /\ a[0] = crc
  /\ \A k \in 1 .. ByteBits : a[k] = BitAdded(a[k - 1], ByteBits - k, byte)
  /\ \A k \in 0 .. ByteBits : a[k] \in Register
LEMMA BitAddedStays ==
  ASSUME NEW crc \in Register, NEW bit, NEW byte
  PROVE  BitAdded(crc, bit, byte) \in Register
<1>1. {CrcBits - 1} \in Register
  BY ChecksumAssumption DEF Register, CrcBit
<1> QED
  BY <1>1, RegistersStay DEF BitAdded
LEMMA BitsAddedIs ==
  ASSUME NEW crc \in Register, NEW byte
  PROVE  \E a : BitsRun(a, crc, byte)
<1> DEFINE n == ByteBits
           step == [k \in 1 .. n |-> [s \in Register |-> BitAdded(s, n - k, byte)]]
           f == CHOOSE after : after = [j \in 0 .. ByteBits |->
                  IF j = 0 THEN crc ELSE BitAdded(after[j - 1], ByteBits - j, byte)]
<1>1. n \in Nat
  BY ChecksumAssumption
<1>2. /\ step \in [1 .. n -> [Register -> Register]]
      /\ \A k \in 1 .. n : \A s \in Register : step[k][s] = BitAdded(s, n - k, byte)
  BY BitAddedStays
<1>3. BitsAdded(crc, byte) = f[n]
  BY DEF BitsAdded
<1>4. (\E a : BitsUp(a, crc, byte)) => BitsUp(f, crc, byte)
  BY DEF BitsUp
<1> HIDE DEF step, f, n
<1>5. PICK w : Runs(w, Register, crc, step, n)
  BY <1>1, <1>2, RecursionWithin
<1>6. ASSUME NEW k \in 0 .. n PROVE w[k] = IF k = 0 THEN crc ELSE BitAdded(w[k - 1], n - k, byte)
  <2>1. k # 0 => k \in 1 .. n /\ k - 1 \in 0 .. n
    BY <1>1
  <2>2. w[0] = crc /\ (k # 0 => w[k] = step[k][w[k - 1]] /\ w[k - 1] \in Register)
    BY <1>5, <2>1 DEF Runs
  <2> QED
    BY <1>2, <2>1, <2>2
<1>7. BitsUp(w, crc, byte)
  <2>1. w = [k \in 0 .. n |-> w[k]]
    BY <1>5 DEF Runs
  <2> QED
    BY <1>6, <2>1 DEF BitsUp, n
<1>8. f = [k \in 0 .. n |-> IF k = 0 THEN crc ELSE BitAdded(f[k - 1], n - k, byte)]
  BY <1>4, <1>7 DEF BitsUp, n
<1>9. f[0] = crc /\ \A k \in 1 .. n : f[k] = BitAdded(f[k - 1], n - k, byte)
  <2>1. 0 \in 0 .. n /\ \A k \in 1 .. n : k \in 0 .. n /\ k # 0
    BY <1>1
  <2> QED
    BY <1>8, <2>1
<1>10. \A k \in 0 .. n : f[k] \in Register
  <2>1. f[0] \in Register /\ \A k \in 1 .. n : f[k - 1] \in Register => f[k] \in Register
    BY <1>9, BitAddedStays
  <2> QED
    BY <1>1, <2>1, StaysWithin
<1>11. BitsRun(f, crc, byte)
  BY <1>3, <1>9, <1>10 DEF BitsRun, n
<1> QED
  BY <1>11
(* A bit that is shifted out does not depend on what is below it.            *)
TopOf(e) == IF CrcBits - 1 \in e THEN {CrcBits - 1} ELSE {}
LEMMA ShiftedOut ==
  ASSUME NEW t \in Register, NEW e \in Register
  PROVE  Shift1(Xor(Xor(t, e), TopOf(e))) = Xor(Shift1(t), Shifted(e, 1))
<1> DEFINE x == Xor(Xor(t, e), TopOf(e))
<1>0. CrcBits - 1 \in CrcBit /\ \A b \in CrcBit : b - 1 # CrcBits - 1
  BY ChecksumAssumption DEF CrcBit
<1>1. CrcBits - 1 \in x <=> CrcBits - 1 \in t
  BY DEF Xor, TopOf
<1>2. \A b : b # CrcBits - 1 => (b \in x <=> b \in Xor(t, e))
  BY DEF Xor, TopOf
<1> HIDE DEF x
<1>3. Shifted(x, 1) = Xor(Shifted(t, 1), Shifted(e, 1))
  <2>1. \A b \in CrcBit : b - 1 \in x <=> b - 1 \in Xor(t, e)
    BY <1>0, <1>2
  <2> QED
    BY <2>1 DEF Shifted, Xor
<1>4. \A a, b, c : Xor(Xor(a, b), c) = Xor(Xor(a, c), b)
  BY DEF Xor
<1> QED
  BY <1>1, <1>3, <1>4 DEF Shift1, x
LEMMA ShiftedMore ==
  ASSUME NEW d \in Register, NEW j \in Nat \ {0}
  PROVE  Shifted(Shifted(d, j - 1), 1) = Shifted(d, j)
<1>1. ASSUME NEW b \in CrcBit PROVE b - 1 \in Shifted(d, j - 1) <=> b - j \in d
  <2>1. b - 1 - (j - 1) = b - j
    BY ChecksumAssumption DEF CrcBit
  <2>2. b - j \in d => b - 1 \in CrcBit
    BY ChecksumAssumption DEF Register, CrcBit
  <2> QED
    BY <2>1, <2>2 DEF Shifted
<1> QED
  BY <1>1 DEF Shifted
LEMMA CrcByteIs ==
  ASSUME NEW crc \in Register, NEW byte
  PROVE  CrcByte(crc, byte) = BitsAdded(crc, byte) /\ BitsAdded(crc, byte) \in Register
<1> DEFINE bits == OnesOf(byte)
           top == {b \in ByteBit : b + CrcBits - ByteBits \in crc}
           i == Xor(top, bits)
           up == CrcBits - ByteBits
           low == {b \in crc : b < up}
           d == Xor(low, Lift(bits))
<1>0. up \in Nat /\ CrcBits \in Nat /\ ByteBits \in Nat \ {0} /\ ByteBits <= CrcBits
  BY ChecksumAssumption
<1>1. bits \in SUBSET ByteBit /\ top \in SUBSET ByteBit /\ i \in SUBSET ByteBit
  BY DEF OnesOf, Xor
<1>2. CrcByte(crc, byte) = Xor(Shifted(crc, ByteBits), CrcTable[i])
  BY DEF CrcByte
<1>3. \A b \in CrcBit : b - up \in top <=> b \in crc /\ ~(b < up)
  <2>1. \A b \in CrcBit : b - up \in ByteBit <=> ~(b < up)
    BY <1>0 DEF CrcBit, ByteBit
  <2>2. \A b \in CrcBit : b - up + CrcBits - ByteBits = b
    BY <1>0 DEF CrcBit
  <2> QED
    BY <2>1, <2>2
<1> HIDE DEF bits, top
<1>4. /\ Lift(bits) \in Register /\ Lift(i) \in Register
      /\ \A b \in CrcBit : (b \in Lift(bits) <=> b - up \in bits) /\ (b \in Lift(i) <=> b - up \in i)
  BY <1>1, LiftIs
<1>5. d \in Register
  BY <1>4 DEF Register, Xor
<1>6. crc = Xor(Lift(i), d)
  <2>1. ASSUME NEW b \in CrcBit PROVE b \in crc <=> b \in Xor(Lift(i), d)
    <3>1. b - up \in i <=> (b - up \in top /\ b - up \notin bits) \/ (b - up \notin top /\ b - up \in bits)
      BY DEF Xor
    <3>2. b \in d <=> (b \in low /\ b \notin Lift(bits)) \/ (b \notin low /\ b \in Lift(bits))
      BY DEF Xor
    <3>3. b \in low <=> b \in crc /\ b < up
      OBVIOUS
    <3>4. b \in Xor(Lift(i), d) <=> (b \in Lift(i) /\ b \notin d) \/ (b \notin Lift(i) /\ b \in d)
      BY DEF Xor
    <3> HIDE DEF low, d, i, up
    <3> QED
      BY <1>3, <1>4, <3>1, <3>2, <3>3, <3>4
  <2>2. Xor(Lift(i), d) \in Register
    BY <1>4, <1>5, RegistersStay
  <2> QED
    BY <2>1, <2>2 DEF Register
<1>7. ASSUME NEW j \in 1 .. ByteBits
      PROVE  CrcBits - 1 \in Shifted(d, j - 1) <=> ByteBits - j \in bits
  <2>1. CrcBits - 1 - (j - 1) = CrcBits - j /\ CrcBits - j \in CrcBit /\ CrcBits - 1 \in CrcBit
    BY <1>0 DEF CrcBit
  <2>2. ~(CrcBits - j < up) /\ CrcBits - j - up = ByteBits - j
    BY <1>0
  <2>3. CrcBits - 1 \in Shifted(d, j - 1) <=> CrcBits - j \in d
    BY <2>1 DEF Shifted
  <2>4. CrcBits - j \in d <=> CrcBits - j \in Lift(bits)
    BY <2>2 DEF Xor
  <2>5. CrcBits - j \in Lift(bits) <=> ByteBits - j \in bits
    BY <1>4, <2>1, <2>2
  <2> QED
    BY <2>3, <2>4, <2>5
<1>8. Shifted(d, ByteBits) = Shifted(crc, ByteBits)
  <2>1. ASSUME NEW b \in CrcBit PROVE b - ByteBits \in d <=> b - ByteBits \in crc
    <3> DEFINE a == b - ByteBits
    <3>1. a < up /\ a - up \notin ByteBit
      BY <1>0 DEF CrcBit, ByteBit
    <3>2. a \in CrcBit => a \notin Lift(bits)
      BY <1>1, <1>4, <3>1
    <3>3. (a \in crc => a \in CrcBit) /\ (a \in Lift(bits) => a \in CrcBit)
      BY <1>4 DEF Register
    <3> HIDE DEF a, up
    <3>4. a \in d <=> a \in crc
      BY <3>1, <3>2, <3>3 DEF Xor
    <3> QED
      BY <3>4 DEF a
  <2> HIDE DEF d
  <2> QED
    BY <2>1 DEF Shifted
<1>9. Shifted(d, 0) = d
  <2>1. \A b \in CrcBit : b - 0 = b
    BY DEF CrcBit
  <2> HIDE DEF d
  <2> QED
    BY <1>5, <2>1 DEF Shifted, Register
<1> HIDE DEF i, d, low, up
<1>10. PICK t : TableRun(t, i)
  BY <1>1, TableIs
<1>11. PICK a : BitsRun(a, crc, byte)
  BY BitsAddedIs
<1> DEFINE R == {j \in 0 .. ByteBits : a[j] = Xor(t[j], Shifted(d, j))}
<1>12. 0 \in R /\ R \in SUBSET (0 .. ByteBits)
  <2>1. a[0] = crc /\ t[0] = Lift(i)
    BY <1>10, <1>11 DEF TableRun, BitsRun
  <2>2. a[0] = Xor(t[0], Shifted(d, 0))
    BY <1>6, <1>9, <2>1
  <2> QED
    BY <1>0, <2>2
<1>13. ASSUME NEW j \in 1 .. ByteBits, j - 1 \in R PROVE j \in R
  <2> DEFINE e == Shifted(d, j - 1)
  <2>1. a[j - 1] = Xor(t[j - 1], e) /\ j \in 0 .. ByteBits /\ j - 1 \in Nat /\ j \in Nat \ {0} /\ j - 1 \in 0 .. ByteBits
    BY <1>0, <1>13
  <2>2. a[j] = BitAdded(a[j - 1], ByteBits - j, byte) /\ t[j] = Shift1(t[j - 1]) /\ t[j - 1] \in Register
    BY <1>10, <1>11, <2>1 DEF TableRun, BitsRun
  <2>3. e \in Register
    BY <1>5, <2>1, RegistersStay
  <2>4. CrcBits - 1 \in e <=> ByteBits - j \in bits
    BY <1>7
  <2>5. Shifted(e, 1) = Shifted(d, j)
    BY <1>5, <2>1, ShiftedMore
  <2> HIDE DEF e
  <2>6. \A x : Xor(x, {}) = x
    BY DEF Xor
  <2>7. BitAdded(a[j - 1], ByteBits - j, byte) = Shift1(Xor(a[j - 1], TopOf(e)))
    BY <2>4, <2>6 DEF BitAdded, TopOf, bits
  <2>8. Shift1(Xor(Xor(t[j - 1], e), TopOf(e))) = Xor(Shift1(t[j - 1]), Shifted(e, 1))
    BY <2>2, <2>3, ShiftedOut
  <2>9. a[j] = Xor(t[j], Shifted(d, j))
    BY <2>1, <2>2, <2>5, <2>7, <2>8
  <2> QED
    BY <2>1, <2>9
<1> HIDE DEF R
<1>14. ByteBits \in R
  <2> DEFINE n == ByteBits
  <2>1. n \in Nat /\ R \in SUBSET (0 .. n) /\ 0 \in R /\ \A k \in 1 .. n : k - 1 \in R => k \in R
    BY <1>0, <1>12, <1>13
  <2> HIDE DEF n
  <2>2. n \in R
    BY <2>1, CountedUp
  <2> QED
    BY <2>2 DEF n
<1>15. a[ByteBits] = Xor(t[ByteBits], Shifted(d, ByteBits))
  BY <1>14 DEF R
<1>16. BitsAdded(crc, byte) = a[ByteBits] /\ a[ByteBits] \in Register /\ CrcTable[i] = t[ByteBits]
  <2>1. ByteBits \in 0 .. ByteBits
    BY <1>0
  <2> QED
    BY <1>10, <1>11, <2>1 DEF TableRun, BitsRun
<1>17. \A x, y : Xor(x, y) = Xor(y, x)
  BY DEF Xor
<1> QED
  BY <1>2, <1>8, <1>15, <1>16, <1>17
-----------------------------------------------------------------------------
(* The CRC of a message, and of its parts.                                   *)
CrcsUp(f, m) ==
  f = [k \in 0 .. Len(m) |-> IF k = 0 THEN CRC_INITIAL_REGISTER ELSE BitsAdded(f[k - 1], m[k])]
Crcs(m) == CHOOSE f : CrcsUp(f, m)
LEMMA CrcsAre ==
  ASSUME NEW m \in Message
  PROVE  /\ Crcs(m)[0] = CRC_INITIAL_REGISTER
         /\ \A k \in 1 .. Len(m) : Crcs(m)[k] = BitsAdded(Crcs(m)[k - 1], m[k])
         /\ \A k \in 0 .. Len(m) : Crcs(m)[k] \in Register
<1> DEFINE n == Len(m)
           base == CRC_INITIAL_REGISTER
           step == [k \in 1 .. n |-> [s \in Register |-> BitsAdded(s, m[k])]]
           f == Crcs(m)
<1>1. n \in Nat /\ base \in Register
  BY DEF Message, CRC_INITIAL_REGISTER, Register
<1>2. /\ step \in [1 .. n -> [Register -> Register]]
      /\ \A k \in 1 .. n : \A s \in Register : step[k][s] = BitsAdded(s, m[k])
  BY CrcByteIs
<1> HIDE DEF step, base, n
<1>5. PICK w : Runs(w, Register, base, step, n)
  BY <1>1, <1>2, RecursionWithin
<1>6. ASSUME NEW k \in 0 .. n PROVE w[k] = IF k = 0 THEN base ELSE BitsAdded(w[k - 1], m[k])
  <2>1. k # 0 => k \in 1 .. n /\ k - 1 \in 0 .. n
    BY <1>1
  <2>2. w[0] = base /\ (k # 0 => w[k] = step[k][w[k - 1]] /\ w[k - 1] \in Register)
    BY <1>5, <2>1 DEF Runs
  <2> QED
    BY <1>2, <2>1, <2>2
<1>7. CrcsUp(w, m)
  <2>1. w = [k \in 0 .. n |-> w[k]]
    BY <1>5 DEF Runs
  <2> QED
    BY <1>6, <2>1 DEF CrcsUp, base, n
<1>8. f = [k \in 0 .. n |-> IF k = 0 THEN base ELSE BitsAdded(f[k - 1], m[k])]
  BY <1>7 DEF CrcsUp, Crcs, base, n
<1> HIDE DEF f
<1>9. f[0] = base /\ \A k \in 1 .. n : f[k] = BitsAdded(f[k - 1], m[k])
  <2>1. 0 \in 0 .. n /\ \A k \in 1 .. n : k \in 0 .. n /\ k # 0
    BY <1>1
  <2> QED
    BY <1>8, <2>1
<1>10. \A k \in 0 .. n : f[k] \in Register
  <2>1. f[0] \in Register /\ \A k \in 1 .. n : f[k - 1] \in Register => f[k] \in Register
    BY <1>1, <1>9, CrcByteIs
  <2> QED
    BY <1>1, <2>1, StaysWithin
<1> QED
  BY <1>9, <1>10 DEF f, base, n
PartialUp(f, crc, bytes) ==
  f = [k \in 0 .. Len(bytes) |-> IF k = 0 THEN crc ELSE CrcByte(f[k - 1], bytes[k])]
LEMMA PartialFollows ==
  ASSUME NEW m \in Message, NEW n \in 0 .. Len(m), NEW l \in Nat, n + l <= Len(m)
  PROVE  UicrcPartial(Crcs(m)[n], SubSeq(m, n + 1, n + l)) = Crcs(m)[n + l]
<1> DEFINE bytes == SubSeq(m, n + 1, n + l)
           crc == Crcs(m)[n]
           C == Crcs(m)
           g == [k \in 0 .. l |-> C[n + k]]
           f == CHOOSE after : after = [k \in 0 .. Len(bytes) |-> IF k = 0 THEN crc ELSE CrcByte(after[k - 1], bytes[k])]
<1>0. n \in Nat /\ Len(m) \in Nat /\ n + 0 = n
  BY DEF Message
<1>1. Len(bytes) = l /\ \A i \in 1 .. l : bytes[i] = m[n + i]
  BY <1>0, PartOf
<1>2. UicrcPartial(crc, bytes) = f[Len(bytes)]
  BY DEF UicrcPartial
<1>3. (\E w : PartialUp(w, crc, bytes)) => PartialUp(f, crc, bytes)
  BY DEF PartialUp
<1> HIDE DEF bytes, crc, f
<1>4. crc = C[n]
  BY DEF crc
<1>5. \A k \in 0 .. l : n + k \in 0 .. Len(m)
  BY <1>0
<1>6. \A k \in 1 .. l : C[n + k] = CrcByte(C[n + (k - 1)], bytes[k])
  <2>1. ASSUME NEW k \in 1 .. l PROVE C[n + k] = CrcByte(C[n + (k - 1)], bytes[k])
    <3> DEFINE j == n + k
    <3>1. j \in 1 .. Len(m) /\ j - 1 = n + (k - 1) /\ j - 1 \in 0 .. Len(m)
      BY <1>0
    <3> HIDE DEF j
    <3>2. C[j] = BitsAdded(C[j - 1], m[j]) /\ C[j - 1] \in Register
      BY <3>1, CrcsAre
    <3>3. C[j] = CrcByte(C[j - 1], m[j])
      BY <3>2, CrcByteIs
    <3> QED
      BY <1>1, <3>1, <3>3 DEF j
  <2> QED
    BY <2>1
<1> HIDE DEF C
<1>7. ASSUME NEW k \in 0 .. l PROVE g[k] = IF k = 0 THEN crc ELSE CrcByte(g[k - 1], bytes[k])
  <2>1. k # 0 => k \in 1 .. l /\ k - 1 \in 0 .. l
    OBVIOUS
  <2> QED
    BY <1>0, <1>4, <1>6, <2>1
<1>8. PartialUp(g, crc, bytes)
  <2>1. g = [k \in 0 .. l |-> g[k]]
    OBVIOUS
  <2> HIDE DEF g
  <2> QED
    BY <1>1, <1>7, <2>1 DEF PartialUp
<1>9. f = [k \in 0 .. l |-> IF k = 0 THEN crc ELSE CrcByte(f[k - 1], bytes[k])]
  <2>1. PartialUp(f, crc, bytes)
    BY <1>3, <1>8
  <2> QED
    BY <1>1, <2>1 DEF PartialUp
<1>10. f[0] = crc /\ \A k \in 1 .. l : f[k] = CrcByte(f[k - 1], bytes[k])
  <2>1. 0 \in 0 .. l /\ \A k \in 1 .. l : k \in 0 .. l /\ k # 0
    OBVIOUS
  <2> QED
    BY <1>9, <2>1
<1> DEFINE R == {k \in 0 .. l : f[k] = C[n + k]}
<1>11. 0 \in R /\ R \in SUBSET (0 .. l)
  BY <1>0, <1>4, <1>10
<1>12. ASSUME NEW k \in 1 .. l, k - 1 \in R PROVE k \in R
  <2>1. k \in 0 .. l
    OBVIOUS
  <2>2. f[k - 1] = C[n + (k - 1)]
    BY <1>12
  <2>3. f[k] = C[n + k]
    BY <1>6, <1>10, <2>2
  <2> QED
    BY <2>1, <2>3
<1> HIDE DEF R
<1>13. l \in R
  BY <1>11, <1>12, CountedUp
<1> QED
  BY <1>1, <1>2, <1>13 DEF R, C, bytes, crc
LEMMA CrcOfBitsIs ==
  ASSUME ReadIsWithin
  PROVE  CrcOfBits = Crcs(ck_message)[ck_read]
<1> DEFINE m == ck_message
           n == ck_read
           C == Crcs(m)
           g == [k \in 0 .. n |-> C[k]]
           f == CHOOSE after : after = [k \in 0 .. ck_read |->
                  IF k = 0 THEN CRC_INITIAL_REGISTER ELSE BitsAdded(after[k - 1], ck_message[k])]
<1>0. m \in Message /\ n \in 0 .. Len(m) /\ n \in Nat /\ Len(m) \in Nat
  BY DEF ReadIsWithin, Message
<1>1. CrcOfBits = f[n]
  BY DEF CrcOfBits
<1>2. f = [k \in 0 .. n |-> IF k = 0 THEN CRC_INITIAL_REGISTER ELSE BitsAdded(f[k - 1], m[k])]
  <2>1. \A k \in 0 .. n : k # 0 => k \in 1 .. Len(m) /\ k - 1 \in 0 .. n
    BY <1>0
  <2>2. C[0] = CRC_INITIAL_REGISTER /\ \A k \in 1 .. Len(m) : C[k] = BitsAdded(C[k - 1], m[k])
    BY <1>0, CrcsAre
  <2> HIDE DEF C
  <2>3. \A k \in 0 .. n : g[k] = IF k = 0 THEN CRC_INITIAL_REGISTER ELSE BitsAdded(g[k - 1], m[k])
    BY <2>1, <2>2
  <2>4. g = [k \in 0 .. n |-> g[k]]
    OBVIOUS
  <2> HIDE DEF g
  <2>5. g = [k \in 0 .. n |-> IF k = 0 THEN CRC_INITIAL_REGISTER ELSE BitsAdded(g[k - 1], m[k])]
    BY <2>3, <2>4
  <2> QED
    BY <2>5
<1> HIDE DEF f
<1>3. f[0] = CRC_INITIAL_REGISTER /\ \A k \in 1 .. n : f[k] = BitsAdded(f[k - 1], m[k])
  <2>1. 0 \in 0 .. n /\ \A k \in 1 .. n : k \in 0 .. n /\ k # 0
    BY <1>0
  <2> QED
    BY <1>2, <2>1
<1> DEFINE R == {k \in 0 .. n : f[k] = C[k]}
<1>4. 0 \in R /\ R \in SUBSET (0 .. n)
  BY <1>0, <1>3, CrcsAre
<1>5. ASSUME NEW k \in 1 .. n, k - 1 \in R PROVE k \in R
  <2>1. k \in 0 .. n /\ k \in 1 .. Len(m)
    BY <1>0
  <2>2. f[k - 1] = C[k - 1]
    BY <1>5
  <2>3. C[k] = BitsAdded(C[k - 1], m[k])
    BY <1>0, <2>1, CrcsAre
  <2> QED
    BY <1>3, <2>1, <2>2, <2>3
<1>6. n \in R
  <2> HIDE DEF R
  <2> QED
    BY <1>0, <1>4, <1>5, CountedUp
<1> QED
  BY <1>1, <1>6
-----------------------------------------------------------------------------
(* What was read, and the word that it ends in.                              *)
WordTaken(q) ==
  /\ Within(ck_read, q)
  /\ ck_last = [word |-> WordOf(ck_message, ck_read, q + 1), length |-> ck_read - q * WordBytes]
  /\ ck_sum = Amount(ck_message, ck_read, q) % WordSize
PiecesTaken ==
  /\ ReadIsWithin
  /\ \E q \in Nat : WordTaken(q)
  /\ ck_crc = Crcs(ck_message)[ck_read]
LEMMA PiecesTakenInit == ChecksumInit => PiecesTaken
<1> SUFFICES ASSUME ChecksumInit PROVE PiecesTaken
  OBVIOUS
<1> DEFINE zero == 0
<1>1. ck_message \in Message /\ ck_read = 0 /\ ck_sum = 0 /\ ck_last = NoPartial /\ ck_crc = CRC_INITIAL_REGISTER
  BY ChecksumAssumption DEF ChecksumInit, Message
<1>2. Len(ck_message) \in Nat
  BY <1>1 DEF Message
<1>3. ReadIsWithin
  BY <1>1, <1>2 DEF ReadIsWithin
<1>4. /\ zero \in 0 .. Len(ck_message) /\ zero \in Nat
      /\ zero * WordBytes = zero /\ zero + 1 = 1 /\ (zero + 1) * WordBytes = WordBytes /\ zero < WordBytes /\ zero - zero = zero
  BY <1>2, ChecksumAssumption
<1>5. Sums(ck_message)[0] = 0 /\ Crcs(ck_message)[0] = CRC_INITIAL_REGISTER
  BY <1>1, SumsAre, CrcsAre
<1>6. 0 % WordSize = 0
  BY Sizes
<1>7. ck_read = zero /\ ck_sum = zero /\ zero % WordSize = zero /\ zero + zero = zero /\ NoPartial = [word |-> ZeroWord, length |-> zero]
      /\ Sums(ck_message)[zero] = zero /\ Value(ZeroWord) = zero
  BY <1>1, <1>5, <1>6, ZeroHasNoValue DEF NoPartial
<1> HIDE DEF zero
<1>8. WordOf(ck_message, zero, zero + 1) = ZeroWord
  BY <1>1, <1>4, WordEmpty
<1>9. Amount(ck_message, zero, zero) = zero
  BY <1>7, <1>8 DEF Amount
<1>10. Within(zero, zero)
  BY <1>4 DEF Within
<1>11. WordTaken(zero)
  BY <1>1, <1>4, <1>7, <1>8, <1>9, <1>10 DEF WordTaken
<1> QED
  BY <1>1, <1>3, <1>4, <1>5, <1>11 DEF PiecesTaken
LEMMA CarriedStands ==
  ASSUME ReadIsWithin, NEW q \in Nat, WordTaken(q)
  PROVE  Stands(Carried, ck_message, ck_read, q, ck_sum) /\ Carried.rest = <<>> /\ ck_sum \in Int
<1> DEFINE A == Amount(ck_message, ck_read, q)
           from == q * WordBytes
<1>1. ck_message \in Message /\ ck_read \in 0 .. Len(ck_message) /\ ck_read \in Nat /\ q + 1 \in Nat \ {0}
  BY DEF ReadIsWithin, Message
<1>2. from \in Nat /\ from <= ck_read
  BY ChecksumAssumption DEF WordTaken, Within
<1>3. A \in Int
  BY <1>1, <1>2, AmountIsInt DEF Amount
<1>4. ck_sum = A % WordSize
  BY DEF WordTaken
<1> HIDE DEF A
<1>5. ck_sum \in Int /\ Agree(ck_sum + 0, A)
  <2> DEFINE M == WordSize
             zero == 0
  <2>1. M \in Nat \ {0} /\ zero \in Int
    BY Sizes
  <2>2. A % M \in Int /\ zero + A = A /\ zero + (A % M) = (A % M) + 0
    BY <1>3, <2>1
  <2> HIDE DEF M, zero
  <2>3. (zero + (A % M)) % M = (zero + A) % M
    BY <1>3, <2>1, RemainderTwice
  <2> QED
    BY <1>4, <2>2, <2>3 DEF Agree, M
<1>6. <<>> \in Message
  BY DEF Message
<1>7. ck_read - from \in Nat
  BY <1>1, <1>2
<1>8. ck_last = [word |-> WordOf(ck_message, ck_read, q + 1), length |-> ck_read - from]
  BY DEF WordTaken
<1> HIDE DEF from
<1>9. WordOf(ck_message, ck_read, q + 1) \in Words
  BY <1>1, WordTyped
<1>10. /\ Carried \in SumState /\ Carried.rest = <<>> /\ Carried.sum = 0
       /\ Carried.word = WordOf(ck_message, ck_read, q + 1) /\ Carried.length = ck_read - from
  BY <1>6, <1>7, <1>8, <1>9 DEF Carried, SumState
<1> QED
  BY <1>5, <1>10 DEF Stands, A, from
LEMMA TakenKeeps ==
  ASSUME PiecesTaken, NEW l \in 0 .. Len(ck_message) - ck_read, NEW t,
         Taken(t, l), Whole(t, ck_message, ck_read + l, ck_sum)
  PROVE  PiecesTaken'
<1> DEFINE m == ck_message
           n == ck_read
           k == ck_read + l
<1>1. m \in Message /\ n \in 0 .. Len(m) /\ n \in Nat /\ Len(m) \in Nat /\ l \in Nat /\ n + l <= Len(m) /\ k \in 0 .. Len(m)
  BY DEF PiecesTaken, ReadIsWithin, Message
<1>2. ck_message' = ck_message /\ ck_read' = k
  BY DEF Taken
<1>3. ReadIsWithin'
  BY <1>1, <1>2 DEF ReadIsWithin, Message
<1>4. Whole(t, m, k, ck_sum)
  OBVIOUS
<1>5. ck_last' = [word |-> t.word, length |-> t.length] /\ ck_sum' = (ck_sum + t.sum) % WordSize
  BY DEF Taken
<1>6. ck_crc' = Crcs(ck_message)[k]
  <2>1. Bytes(0, l) = SubSeq(m, n + 1, n + l)
    <3>1. n + 0 + 1 = n + 1
      BY <1>1
    <3> QED
      BY <3>1 DEF Bytes
  <2>2. ck_crc' = UicrcPartial(Crcs(m)[n], SubSeq(m, n + 1, n + l))
    BY <2>1 DEF Taken, PiecesTaken
  <2>3. UicrcPartial(Crcs(m)[n], SubSeq(m, n + 1, n + l)) = Crcs(m)[n + l]
    BY <1>1, PartialFollows
  <2> QED
    BY <2>2, <2>3
<1> HIDE DEF m, n, k
<1>7. PICK p \in Nat : Within(k, p) /\ Stands(t, m, k, p, ck_sum)
  BY <1>4 DEF Whole
<1>8. /\ t.word = WordOf(m, k, p + 1) /\ t.length = k - p * WordBytes
      /\ (ck_sum + t.sum) % WordSize = Amount(m, k, p) % WordSize
  BY <1>7 DEF Stands, Agree
<1>9. /\ Within(ck_read', p)
      /\ ck_last' = [word |-> WordOf(ck_message', ck_read', p + 1), length |-> ck_read' - p * WordBytes]
      /\ ck_sum' = Amount(ck_message', ck_read', p) % WordSize
  BY <1>2, <1>5, <1>7, <1>8 DEF m
<1>10. WordTaken(p)' <=>
         /\ Within(ck_read', p)
         /\ ck_last' = [word |-> WordOf(ck_message', ck_read', p + 1), length |-> ck_read' - p * WordBytes]
         /\ ck_sum' = Amount(ck_message', ck_read', p) % WordSize
  BY DEF WordTaken, Within, WordOf, Amount, Sums, SumsUp
<1>11. (Crcs(ck_message)[ck_read])' = Crcs(ck_message')[ck_read']
  BY DEF Crcs, CrcsUp
<1>12. ck_crc' = Crcs(ck_message')[ck_read']
  BY <1>2, <1>6
<1> QED
  BY <1>3, <1>9, <1>10, <1>11, <1>12 DEF PiecesTaken
LEMMA PiecesTakenNext == PiecesTaken /\ [ChecksumNext]_ck_vars => PiecesTaken'
<1> SUFFICES ASSUME PiecesTaken, [ChecksumNext]_ck_vars PROVE PiecesTaken'
  OBVIOUS
<1> DEFINE m == ck_message
           n == ck_read
           c == ck_sum
           s == Carried
<1>1. CASE UNCHANGED ck_vars
  BY <1>1 DEF ck_vars, PiecesTaken, ReadIsWithin, WordTaken
<1>2. CASE ChecksumNext
  <2>1. ReadIsWithin /\ m \in Message /\ n \in 0 .. Len(m) /\ n \in Nat /\ Len(m) \in Nat
    BY DEF PiecesTaken, ReadIsWithin, Message
  <2>2. PICK q \in Nat : WordTaken(q)
    BY DEF PiecesTaken
  <2>3. Within(n, q) /\ Stands(s, m, n, q, c) /\ s.rest = <<>> /\ c \in Int
    BY <2>1, <2>2, CarriedStands DEF WordTaken
  <2>4. PICK l \in 0 .. Len(ck_message) - ck_read :
          SumPiece(l) \/ \E copylen \in 0 .. l : CopyPiece(copylen, l)
    BY <1>2 DEF ChecksumNext
  <2>5. l \in Nat /\ n + l <= Len(m) /\ Bytes(0, l) = SubSeq(m, n + 1, n + l)
    <3>1. n + 0 + 1 = n + 1 /\ l \in Nat /\ n + l <= Len(m)
      BY <2>1
    <3> QED
      BY <3>1 DEF Bytes
  <2>6. CASE SumPiece(l)
    <3> DEFINE t == CsumPartial(s, Bytes(0, l))
    <3>1. Taken(t, l)
      BY <2>6 DEF SumPiece
    <3> HIDE DEF m, n, c, s
    <3>2. Whole(CsumPartial(s, SubSeq(m, n + 1, n + l)), m, n + l, c)
      BY <2>1, <2>2, <2>3, <2>5, CsumPartialStands
    <3>3. Whole(t, m, n + l, c)
      BY <2>5, <3>2
    <3> HIDE DEF t
    <3> QED
      BY <2>4, <3>1, <3>3, TakenKeeps DEF m, n, c
  <2>7. ASSUME NEW k \in 0 .. l, CopyPiece(k, l) PROVE PiecesTaken'
    <3> DEFINE t == CsumCopied(s, Bytes(0, k), Bytes(k, l))
    <3>1. Taken(t, l)
      BY <2>7 DEF CopyPiece
    <3>2. Bytes(0, k) = SubSeq(m, n + 1, n + k) /\ Bytes(k, l) = SubSeq(m, n + k + 1, n + l)
      <4>1. n + 0 + 1 = n + 1
        BY <2>1
      <4> QED
        BY <4>1 DEF Bytes
    <3> HIDE DEF m, n, c, s
    <3>3. Whole(CsumCopied(s, SubSeq(m, n + 1, n + k), SubSeq(m, n + k + 1, n + l)), m, n + l, c)
      BY <2>1, <2>2, <2>3, <2>5, CsumCopiedStands
    <3>4. Whole(t, m, n + l, c)
      BY <3>2, <3>3
    <3> HIDE DEF t
    <3> QED
      BY <2>4, <3>1, <3>4, TakenKeeps DEF m, n, c
  <2> QED
    BY <2>4, <2>6, <2>7
<1> QED
  BY <1>1, <1>2
(* However a message is cut into pieces, with what is copied and what is     *)
(* only summed, the sums of the pieces add up to the sum of its words, and   *)
(* the CRC that goes through the table byte by byte is the remainder of its  *)
(* bits (crc.c:69-413, 773-919, 1075-1206).                                  *)
THEOREM PiecesAlwaysAgree == ChecksumSpec => []PiecesAgree
<1>1. PiecesTaken => PiecesAgree
  <2> SUFFICES ASSUME PiecesTaken PROVE PiecesAgree
    OBVIOUS
  <2>1. PICK q \in Nat : WordTaken(q)
    BY DEF PiecesTaken
  <2>2. ReadIsWithin /\ ck_crc = Crcs(ck_message)[ck_read]
    BY DEF PiecesTaken
  <2>3. ck_sum = SumOfWords
    BY <2>1, <2>2, SumOfWordsIs DEF WordTaken
  <2>4. ck_crc = CrcOfBits
    BY <2>2, CrcOfBitsIs
  <2> QED
    BY <2>3, <2>4 DEF PiecesAgree
<1> QED
  BY <1>1, PiecesTakenInit, PiecesTakenNext, PTL DEF ChecksumSpec
-----------------------------------------------------------------------------
(* Variables as texts.                                                       *)
LEMMA PowerNext ==
  ASSUME NEW base \in Nat \ {0}, NEW n \in Nat
  PROVE  Power(base, n + 1) = base * Power(base, n)
<1>1. PICK w : /\ Power(base, n) = w[n] /\ w[0] = 1
               /\ \A k \in 1 .. n : w[k] = base * w[k - 1]
  BY PowersAre
<1>2. PICK v : /\ Power(base, n + 1) = v[n + 1] /\ v[0] = 1
               /\ \A k \in 1 .. n + 1 : v[k] = base * v[k - 1]
  <2> DEFINE m == n + 1
  <2>1. m \in Nat
    OBVIOUS
  <2> HIDE DEF m
  <2>2. \E v : Power(base, m) = v[m] /\ v[0] = 1 /\ \A k \in 1 .. m : v[k] = base * v[k - 1]
    BY <2>1, PowersAre
  <2> QED
    BY <2>2 DEF m
<1> DEFINE R == {k \in 0 .. n : v[k] = w[k]}
<1>3. R \in SUBSET (0 .. n) /\ 0 \in R
  BY <1>1, <1>2
<1>4. ASSUME NEW k \in 1 .. n, k - 1 \in R PROVE k \in R
  <2>1. k \in 1 .. n + 1 /\ k \in 0 .. n
    OBVIOUS
  <2> QED
    BY <1>1, <1>2, <1>4, <2>1
<1>5. n \in R
  <2> HIDE DEF R
  <2> QED
    BY <1>3, <1>4, CountedUp
<1>6. n + 1 \in 1 .. n + 1 /\ n + 1 - 1 = n
  OBVIOUS
<1> QED
  BY <1>1, <1>2, <1>5, <1>6
LEMMA PowerAdds ==
  ASSUME NEW base \in Nat \ {0}, NEW n \in Nat, NEW m \in Nat
  PROVE  Power(base, n + m) = Power(base, n) * Power(base, m)
<1> DEFINE R == {k \in 0 .. m : Power(base, n + k) = Power(base, n) * Power(base, k)}
<1>1. R \in SUBSET (0 .. m)
  OBVIOUS
<1>2. 0 \in R
  <2>1. Power(base, 0) = 1 /\ Power(base, n) \in Nat
    BY PowersAre, PowerIsPositive
  <2> QED
    BY <2>1
<1>3. ASSUME NEW k \in 1 .. m, k - 1 \in R PROVE k \in R
  <2> DEFINE p == Power(base, n)
             l == k - 1
             q == Power(base, l)
  <2>1. l \in Nat /\ n + l \in Nat /\ k = l + 1 /\ n + k = (n + l) + 1
    OBVIOUS
  <2>2. Power(base, n + l) = p * q
    BY <1>3
  <2>3. p \in Nat /\ q \in Nat
    BY <2>1, PowerIsPositive
  <2> HIDE DEF l
  <2>4. Power(base, k) = base * q
    BY <2>1, PowerNext
  <2>5. Power(base, n + k) = base * (p * q)
    BY <2>1, <2>2, PowerNext
  <2> HIDE DEF p, q
  <2>6. base * (p * q) = p * (base * q)
    BY <2>3
  <2> QED
    BY <2>4, <2>5, <2>6 DEF p
<1>4. m \in R
  <2> HIDE DEF R
  <2> QED
    BY <1>1, <1>2, <1>3, CountedUp
<1> QED
  BY <1>4
LEMMA PowerGrows ==
  ASSUME NEW base \in Nat \ {0}, NEW n \in Nat, NEW m \in Nat, n <= m
  PROVE  Power(base, n) <= Power(base, m)
         /\ \E q \in Nat \ {0} : Power(base, m) = Power(base, n) * q
<1> DEFINE d == m - n
           q == Power(base, d)
           p == Power(base, n)
<1>1. d \in Nat /\ n + d = m
  OBVIOUS
<1> HIDE DEF d
<1>2. Power(base, n + d) = p * q /\ q \in Nat \ {0} /\ p \in Nat \ {0}
  BY <1>1, PowerAdds, PowerIsPositive
<1> HIDE DEF p, q
<1>3. p <= p * q /\ Power(base, m) = p * q
  <2>1. p <= p * q
    BY <1>2
  <2> QED
    BY <1>1, <1>2, <2>1
<1> QED
  BY <1>2, <1>3 DEF p

(* The ranges of the machine's integers.                                     *)
IntHalf   == Power(2, IntBits - 1)
LongHalf  == Power(2, LongBits - 1)
LEMMA Ranges ==
  /\ {IntHalf, LongHalf, Power(2, IntBits), Power(2, LongBits)} \subseteq Nat \ {0}
  /\ Power(2, IntBits) = 2 * IntHalf /\ Power(2, LongBits) = 2 * LongHalf
  /\ 100 < IntHalf /\ IntHalf <= LongHalf
  /\ \E q \in Nat \ {0} : Power(2, LongBits) = Power(2, IntBits) * q
<1>1. /\ IntBits \in Nat \ {0} /\ LongBits \in Nat \ {0} /\ IntBits <= LongBits
      /\ 100 < Power(2, IntBits - 1)
  BY VarTextAssumption
<1>2. /\ IntBits - 1 \in Nat /\ LongBits - 1 \in Nat /\ IntBits - 1 <= LongBits - 1
      /\ IntBits = (IntBits - 1) + 1 /\ LongBits = (LongBits - 1) + 1 /\ 2 \in Nat \ {0}
  BY <1>1
<1>3. Power(2, IntBits) = 2 * IntHalf /\ Power(2, LongBits) = 2 * LongHalf
  BY <1>2, PowerNext DEF IntHalf, LongHalf
<1>4. {IntHalf, LongHalf, Power(2, IntBits), Power(2, LongBits)} \subseteq Nat \ {0}
  BY <1>1, <1>2, PowerIsPositive DEF IntHalf, LongHalf
<1>5. IntHalf <= LongHalf
  BY <1>2, PowerGrows DEF IntHalf, LongHalf
<1>6. \E q \in Nat \ {0} : Power(2, LongBits) = Power(2, IntBits) * q
  BY <1>1, <1>2, PowerGrows
<1> QED
  BY <1>1, <1>3, <1>4, <1>5, <1>6 DEF IntHalf

(* A number of n bits, from its remainder.                                   *)
Halved(x, half) == IF x % (2 * half) >= half THEN (x % (2 * half)) - 2 * half ELSE x % (2 * half)
LEMMA HalvedIs ==
  ASSUME NEW half \in Nat \ {0}, NEW x \in Int
  PROVE  /\ Halved(x, half) \in -half .. half - 1
         /\ x \in -half .. half - 1 => Halved(x, half) = x
<1> DEFINE m == 2 * half
           r == x % m
<1>1. m \in Nat \ {0} /\ m = half + half
  OBVIOUS
<1> HIDE DEF m
<1>2. r \in 0 .. m - 1
  BY <1>1, Division
<1>3. x \in 0 .. half - 1 => r = x
  <2> SUFFICES ASSUME x \in 0 .. half - 1 PROVE r = x
    OBVIOUS
  <2>1. x \in 0 .. m - 1 /\ x = (m * 0) + x
    BY <1>1
  <2> QED
    BY <1>1, <2>1, Remainder
<1>4. x \in -half .. -1 => r = x + m
  <2> SUFFICES ASSUME x \in -half .. -1 PROVE r = x + m
    OBVIOUS
  <2>1. x + m \in 0 .. m - 1 /\ x = (m * (-1)) + (x + m)
    BY <1>1
  <2> QED
    BY <1>1, <2>1, Remainder
<1>5. Halved(x, half) = IF r >= half THEN r - m ELSE r
  BY DEF Halved, m
<1> HIDE DEF r
<1> QED
  BY <1>1, <1>2, <1>3, <1>4, <1>5
LEMMA SignedIs ==
  ASSUME NEW x \in Int
  PROVE  Signed(x, IntBits) = Halved(x, IntHalf) /\ Signed(x, LongBits) = Halved(x, LongHalf)
BY Ranges DEF Signed, Halved, IntHalf, LongHalf
LEMMA AsIntIs ==
  ASSUME NEW x \in Int
  PROVE  /\ AsInt(x) \in -IntHalf .. IntHalf - 1
         /\ x \in -IntHalf .. IntHalf - 1 => AsInt(x) = x
<1> DEFINE y == IF x >= LongHalf THEN LongHalf - 1 ELSE IF x < -LongHalf THEN -LongHalf ELSE x
<1>1. IntHalf \in Nat \ {0} /\ LongHalf \in Nat \ {0} /\ IntHalf <= LongHalf
  BY Ranges
<1>2. AsInt(x) = Signed(y, IntBits)
  BY DEF AsInt, LongHalf
<1>3. y \in Int /\ (x \in -IntHalf .. IntHalf - 1 => y = x)
  BY <1>1
<1> HIDE DEF y
<1> QED
  BY <1>1, <1>2, <1>3, SignedIs, HalvedIs
LEMMA AsUnsignedIs ==
  ASSUME NEW x \in Int
  PROVE  /\ AsUnsigned(x) \in 0 .. Power(2, LongBits) - 1
         /\ x \in -LongHalf .. Power(2, LongBits) - 1 => AsUnsigned(x) = x % Power(2, LongBits)
<1> DEFINE m == Power(2, LongBits)
<1>1. m \in Nat \ {0} /\ m = 2 * LongHalf /\ LongHalf \in Nat \ {0}
  BY Ranges
<1>2. AsUnsigned(x) = IF x >= m \/ x <= -m THEN m - 1 ELSE x % m
  BY DEF AsUnsigned
<1> HIDE DEF m
<1>3. (x % m) \in 0 .. m - 1
  BY <1>1, Division
<1> QED
  BY <1>1, <1>2, <1>3 DEF m
(* A remainder of a remainder, where one modulus is a multiple of the other. *)
Multiple(l, m) == \E q \in Nat \ {0} : l = m * q
LEMMA RemainderOfRemainder ==
  ASSUME NEW x \in Int, NEW m \in Nat \ {0}, NEW l \in Nat \ {0}, Multiple(l, m)
  PROVE  (x % l) % m = x % m
<1>0. PICK q \in Nat \ {0} : l = m * q
  BY DEF Multiple
<1> DEFINE r == x % l
           s == r % m
<1>1. PICK a \in Int : r \in 0 .. l - 1 /\ x = (l * a) + r
  BY Division
<1> HIDE DEF r
<1>2. PICK b \in Int : s \in 0 .. m - 1 /\ r = (m * b) + s
  <2>1. r \in Int
    BY <1>1
  <2> QED
    BY <2>1, Division
<1> HIDE DEF s
<1>3. x = (m * (q * a + b)) + s /\ q * a + b \in Int
  <2>1. l * a = m * (q * a) /\ m * (q * a + b) = m * (q * a) + m * b /\ q * a \in Int
    BY <1>0
  <2> QED
    BY <1>0, <1>1, <1>2, <2>1
<1>4. x % m = s
  BY <1>2, <1>3, Remainder
<1> QED
  BY <1>4 DEF s, r
-----------------------------------------------------------------------------
(* What a variable may hold, by its kind.                                    *)
Listed   == {ValueList[i].value : i \in DOMAIN ValueList}
FlagBits == {FlagList[i].bit : i \in DOMAIN FlagList}
Conflicting(n) == \E i \in DOMAIN FlagList : FlagList[i].bit \in n /\ FlagList[i].conflicts \cap n # {}
Stores(kind, n) ==
  /\ kind = "bool"    => n \in {0, 1}
  /\ kind = "verbose" => n \in -1 .. 100
  /\ kind = "values"  => n \in Listed \cup {0}
  /\ kind = "int"     => n \in -IntHalf .. IntHalf - 1
  /\ kind = "uint"    => n \in 0 .. Power(2, IntBits) - 1
  /\ kind = "ulong"   => n \in 0 .. Power(2, LongBits) - 1
Tokens == [word : STRING, upper : BOOLEAN, number : Int, suffix : STRING]
LEMMA AnswerIs ==
  ASSUME NEW rc, NEW n PROVE Answer(rc, n).rc = rc /\ Answer(rc, n).value = n
BY DEF Answer
LEMMA TokensAre ==
  ASSUME NEW w, NEW v, NEW n
  PROVE  /\ <<Word(w)>> = <<Word(v)>> => w = v
         /\ <<Word(w)>> # NoText /\ <<Number(n)>> # NoText
         /\ Len(<<Word(w)>>) = 1 /\ Len(<<Number(n)>>) = 1
         /\ <<Word(w)>>[1] = Word(w) /\ <<Number(n)>>[1] = Number(n)
         /\ <<Word(w)>> # <<>> /\ <<Number(n)>> # <<>>
         /\ IsNumber(Number(n)) /\ Number(n).number = n /\ Number(n).suffix = Blank
         /\ w # Blank => ~IsNumber(Word(w))
         /\ Called(Word(w), v) <=> w = v
<1>1. Word(w).word = w /\ Word(v).word = v /\ ~Word(w).upper /\ Word(w).suffix = Blank
  BY DEF Word
<1>2. Number(n).word = Blank /\ ~Number(n).upper /\ Number(n).suffix = Blank /\ Number(n).number = n
  BY DEF Number
<1>3. <<Word(w)>>[1] = Word(w) /\ <<Word(v)>>[1] = Word(v) /\ <<Number(n)>>[1] = Number(n)
  OBVIOUS
<1>4. ASSUME NEW t PROVE Len(<<t>>) = 1 /\ <<t>> # <<>>
  OBVIOUS
<1>5. ASSUME NEW t, ~t.upper PROVE <<t>> # NoText
  <2> DEFINE mark == [word |-> "no text", upper |-> TRUE, number |-> 0, suffix |-> Blank]
  <2>1. mark.upper /\ NoText = <<mark>>
    BY DEF NoText, Mark
  <2> HIDE DEF mark
  <2> QED
    BY <1>5, <2>1
<1>6. /\ IsNumber(Number(n)) /\ (w # Blank => ~IsNumber(Word(w)))
      /\ (Called(Word(w), v) <=> w = v)
  BY <1>1, <1>2 DEF IsNumber, Called
<1>7. <<Word(w)>> = <<Word(v)>> => w = v
  BY <1>1, <1>3
<1>8. <<Word(w)>> # NoText /\ <<Number(n)>> # NoText
  BY <1>1, <1>2, <1>5
<1>9. /\ Len(<<Word(w)>>) = 1 /\ <<Word(w)>> # <<>>
      /\ Len(<<Number(n)>>) = 1 /\ <<Number(n)>> # <<>>
  BY <1>4
<1> QED
  BY <1>2, <1>3, <1>6, <1>7, <1>8, <1>9
LEMMA LeastOfIn ==
  ASSUME NEW S \in SUBSET Nat, S # {} PROVE LeastOf(S) \in S
BY LeastExists DEF LeastOf
LEMMA FirstToken ==
  ASSUME NEW text \in Seq(Tokens), text # <<>>
  PROVE  text[1] \in Tokens /\ text[1].number \in Int
<1>1. 1 \in 1 .. Len(text)
  BY EmptySeq
<1>2. text[1] \in Tokens
  BY <1>1, ElementOfSeq
<1> QED
  BY <1>2 DEF Tokens
-----------------------------------------------------------------------------
(* Numbers.                                                                  *)
LEMMA UnsignedIs ==
  ASSUME NEW text \in Seq(Tokens), text # <<>>
  PROVE  Unsigned(text) \in 0 .. Power(2, LongBits) - 1
<1> DEFINE m == Power(2, LongBits)
           token == text[1]
           factor == IF token.suffix \in DOMAIN Shifts
                     THEN Power(2, SuffixShift * Shifts[token.suffix]) ELSE 1
           u == AsUnsigned(token.number)
           x == u * factor
<1>1. m \in Nat \ {0}
  BY Ranges
<1>2. u \in Int
  <2>1. token.number \in Int
    BY FirstToken
  <2> HIDE DEF token
  <2>2. u \in 0 .. m - 1
    BY <2>1, AsUnsignedIs
  <2> HIDE DEF u, m
  <2> QED
    BY <1>1, <2>2
<1>3. factor \in Int
  <2>1. ASSUME NEW s \in DOMAIN Shifts PROVE Power(2, SuffixShift * Shifts[s]) \in Int
    <3> DEFINE e == SuffixShift * Shifts[s]
    <3>1. Shifts[s] \in {1, 2, 3} /\ SuffixShift \in Nat
      BY VarTextAssumption DEF Shifts
    <3>2. e \in Nat
      BY <3>1
    <3> HIDE DEF e
    <3>3. Power(2, e) \in Int
      BY <3>2, PowerIsPositive
    <3> QED
      BY <3>3 DEF e
  <2> QED
    BY <2>1
<1>4. Unsigned(text) = x % m
  BY DEF Unsigned
<1> HIDE DEF m, u, factor
<1>5. x \in Int
  BY <1>2, <1>3
<1> HIDE DEF x
<1>6. x % m \in 0 .. m - 1
  BY <1>1, <1>5, Division
<1> QED
  BY <1>4, <1>6 DEF m
LEMMA NumberUnsigned ==
  ASSUME NEW n \in -LongHalf .. Power(2, LongBits) - 1
  PROVE  Unsigned(<<Number(n)>>) = n % Power(2, LongBits)
<1> DEFINE m == Power(2, LongBits)
           u == AsUnsigned(n)
<1>1. m \in Nat \ {0} /\ LongHalf \in Nat
  BY Ranges
<1>2. u = n % m /\ n \in Int
  <2>1. n \in Int
    BY <1>1
  <2> QED
    BY <2>1, AsUnsignedIs
<1>3. Unsigned(<<Number(n)>>) = (u * 1) % m
  <2> DEFINE text == <<Number(n)>>
  <2>1. text[1].suffix = Blank /\ text[1].number = n
    BY TokensAre
  <2>2. Blank \notin DOMAIN Shifts
    <3>1. DOMAIN Shifts = {"k", "m", "g"}
      BY DEF Shifts
    <3>2. Blank \notin {"k", "m", "g"}
      BY Zenon DEF Blank
    <3> QED
      BY <3>1, <3>2
  <2> HIDE DEF text
  <2>3. Unsigned(text) = (u * 1) % m
    BY <2>1, <2>2 DEF Unsigned
  <2> QED
    BY <2>3 DEF text
<1> HIDE DEF m, u
<1>4. u \in 0 .. m - 1
  BY <1>1, <1>2, Division
<1>5. u * 1 = u /\ u = (m * 0) + u
  BY <1>1, <1>4
<1>6. u % m = u
  BY <1>1, <1>4, <1>5, Remainder
<1> QED
  BY <1>2, <1>3, <1>5, <1>6 DEF m
LEMMA SignedOfUnsigned ==
  ASSUME NEW n \in Int
  PROVE  /\ Signed(n % Power(2, LongBits), IntBits) = Signed(n, IntBits)
         /\ Signed(n % Power(2, LongBits), LongBits) = Signed(n, LongBits)
<1> DEFINE l == Power(2, LongBits)
           m == Power(2, IntBits)
           r == n % l
<1>1. l \in Nat \ {0} /\ m \in Nat \ {0} /\ Multiple(l, m)
  BY Ranges DEF Multiple
<1> HIDE DEF l, m, r
<1>2. (n % l) % m = n % m
  BY <1>1, RemainderOfRemainder
<1>3. (n % l) % l = n % l
  <2>1. l = l * 1 /\ 1 \in Nat \ {0}
    BY <1>1
  <2>2. Multiple(l, l)
    BY <2>1 DEF Multiple
  <2> QED
    BY <1>1, <2>2, RemainderOfRemainder
<1>4. r % m = n % m /\ r % l = n % l
  BY <1>2, <1>3 DEF r
<1>5. Signed(r, IntBits) = Signed(n, IntBits)
  BY <1>4 DEF Signed, m
<1>6. Signed(r, LongBits) = Signed(n, LongBits)
  BY <1>4 DEF Signed, l
<1> QED
  BY <1>5, <1>6 DEF r, l
LEMMA NumberRead ==
  ASSUME NEW kind \in {"int", "uint", "ulong"}, NEW n, Stores(kind, n)
  PROVE  NumberFromString(kind, <<Number(n)>>) = Answer("SUCCESS", n)
<1> DEFINE l == Power(2, LongBits)
           m == Power(2, IntBits)
           r == n % l
<1>1. /\ l \in Nat \ {0} /\ m \in Nat \ {0} /\ IntHalf \in Nat \ {0} /\ LongHalf \in Nat \ {0}
      /\ l = 2 * LongHalf /\ m = 2 * IntHalf /\ IntHalf <= LongHalf
  BY Ranges
<1>2. /\ kind = "int"   => n \in -IntHalf .. IntHalf - 1
      /\ kind = "uint"  => n \in 0 .. m - 1
      /\ kind = "ulong" => n \in 0 .. l - 1
  BY DEF Stores
<1> HIDE DEF l, m
<1>3. n \in -LongHalf .. l - 1 /\ n \in Int
  BY <1>1, <1>2
<1>4. Unsigned(<<Number(n)>>) = r
  BY <1>3, NumberUnsigned DEF l
<1>5. CASE kind = "int"
  <2>1. n \in -IntHalf .. IntHalf - 1 /\ n \in -LongHalf .. LongHalf - 1
    BY <1>1, <1>2, <1>5
  <2>2. Signed(r, IntBits) = n /\ Signed(r, LongBits) = n
    BY <1>1, <1>3, <2>1, SignedOfUnsigned, SignedIs, HalvedIs DEF l
  <2> QED
    BY <1>4, <1>5, <2>2 DEF NumberFromString
<1>6. CASE kind \in {"uint", "ulong"}
  <2>1. n \in 0 .. l - 1 /\ n = (l * 0) + n
    BY <1>1, <1>2, <1>6
  <2>2. r = n
    BY <1>1, <2>1, Remainder
  <2>3. kind = "uint" => n < m
    BY <1>1, <1>2
  <2> HIDE DEF r
  <2> QED
    BY <1>4, <1>6, <2>2, <2>3 DEF NumberFromString, m
<1> QED
  BY <1>5, <1>6
LEMMA NumberStored ==
  ASSUME NEW kind \in {"int", "uint", "ulong"}, NEW text \in Seq(Tokens), text # <<>>,
         NumberFromString(kind, text).rc # "OUT_OF_BOUNDS"
  PROVE  Stores(kind, NumberFromString(kind, text).value)
<1> DEFINE u == Unsigned(text)
           a == NumberFromString(kind, text)
           s == Signed(u, IntBits)
<1>1. u \in 0 .. Power(2, LongBits) - 1 /\ u \in Int
  BY UnsignedIs, Ranges
<1>2. s \in -IntHalf .. IntHalf - 1
  <2> HIDE DEF u
  <2>1. s = Halved(u, IntHalf)
    BY <1>1, SignedIs
  <2>2. IntHalf \in Nat \ {0}
    BY Ranges
  <2> QED
    BY <1>1, <2>1, <2>2, HalvedIs
<1>3. \/ a = Answer("OUT_OF_BOUNDS", 0)
      \/ kind = "int" /\ a = Answer("SUCCESS", s)
      \/ kind = "uint" /\ a = Answer("SUCCESS", u) /\ u < Power(2, IntBits)
      \/ kind = "ulong" /\ a = Answer("SUCCESS", u)
  BY DEF NumberFromString
<1>4. a # Answer("OUT_OF_BOUNDS", 0)
  BY AnswerIs
<1> HIDE DEF a, u, s
<1>5. \/ kind = "int" /\ a.value = s
      \/ kind = "uint" /\ a.value = u /\ u < Power(2, IntBits)
      \/ kind = "ulong" /\ a.value = u
  BY <1>3, <1>4, AnswerIs
<1>6. Power(2, IntBits) \in Nat
  BY Ranges
<1> QED
  BY <1>1, <1>2, <1>5, <1>6 DEF Stores, a
-----------------------------------------------------------------------------
(* Booleans, levels of verbosity and listed values.                          *)
LEMMA BoolRead ==
  ASSUME NEW n \in {0, 1} PROVE BoolFromString(BoolToString(n)) = Answer("SUCCESS", n)
<1> DEFINE w == IF n = 0 THEN "false" ELSE "true"
           text == <<Word(w)>>
<1>1. "true" # Blank /\ "false" # Blank
  BY Zenon DEF Blank
<1>2. (n = 0 => w = "false") /\ (n = 1 => w = "true") /\ w # Blank
  BY <1>1
<1> HIDE DEF w
<1>3. \A name : text = <<Word(name)>> <=> w = name
  BY TokensAre
<1>4. BoolToString(n) = text
  BY DEF BoolToString, w
<1>5. text[1] = Word(w) /\ ~IsNumber(Word(w))
  BY <1>2, TokensAre
<1> HIDE DEF text
<1>6. CASE n = 0
  <2>1. ~\E name \in True : text = <<Word(name)>>
    BY <1>2, <1>3, <1>6 DEF True
  <2>2. \E name \in False : text = <<Word(name)>>
    BY <1>2, <1>3, <1>6 DEF False
  <2> QED
    BY <1>4, <1>5, <1>6, <2>1, <2>2 DEF BoolFromString
<1>7. CASE n = 1
  <2>1. \E name \in True : text = <<Word(name)>>
    BY <1>2, <1>3, <1>7 DEF True
  <2> QED
    BY <1>4, <1>5, <1>7, <2>1 DEF BoolFromString
<1> QED
  BY <1>6, <1>7
LEMMA BoolStored ==
  ASSUME NEW text, BoolFromString(text).rc # "OUT_OF_BOUNDS"
  PROVE  BoolFromString(text).value \in {0, 1}
<1>1. \E rc : \E n \in {0, 1} : BoolFromString(text) = Answer(rc, n)
  BY DEF BoolFromString
<1> QED
  BY <1>1, AnswerIs

LevelNames == {"none", "error", "component", "warn", "info", "trace", "debug", "max"}
LEMMA LevelsAre ==
  /\ DOMAIN verbose_values \in SUBSET Nat
  /\ \A i \in DOMAIN verbose_values : /\ verbose_values[i].value \in -1 .. 100
                                      /\ verbose_values[i].name \in LevelNames
  /\ \A i, j \in DOMAIN verbose_values : verbose_values[i].name = verbose_values[j].name => i = j
  /\ Blank \notin LevelNames
<1>1. DOMAIN verbose_values = 1 .. 8
  BY DEF verbose_values
<1>2. /\ verbose_values[1] = [value |-> -1, name |-> "none"]
      /\ verbose_values[2] = [value |-> 0, name |-> "error"]
      /\ verbose_values[3] = [value |-> 10, name |-> "component"]
      /\ verbose_values[4] = [value |-> 20, name |-> "warn"]
      /\ verbose_values[5] = [value |-> 40, name |-> "info"]
      /\ verbose_values[6] = [value |-> 60, name |-> "trace"]
      /\ verbose_values[7] = [value |-> 80, name |-> "debug"]
      /\ verbose_values[8] = [value |-> 100, name |-> "max"]
  BY DEF verbose_values
<1>3. /\ verbose_values[1].name = "none" /\ verbose_values[2].name = "error"
      /\ verbose_values[3].name = "component" /\ verbose_values[4].name = "warn"
      /\ verbose_values[5].name = "info" /\ verbose_values[6].name = "trace"
      /\ verbose_values[7].name = "debug" /\ verbose_values[8].name = "max"
  BY <1>2
<1>4. \A i \in 1 .. 8 : i = 1 \/ i = 2 \/ i = 3 \/ i = 4 \/ i = 5 \/ i = 6 \/ i = 7 \/ i = 8
  OBVIOUS
<1>5. \A i \in 1 .. 8 : verbose_values[i].value \in -1 .. 100 /\ verbose_values[i].name \in LevelNames
  BY <1>2, <1>4 DEF LevelNames
<1>6. \A i, j \in 1 .. 8 : verbose_values[i].name = verbose_values[j].name => i = j
  BY <1>3, <1>4
<1>7. Blank \notin LevelNames
  BY Zenon DEF Blank, LevelNames
<1> QED
  BY <1>1, <1>5, <1>6, <1>7
LEMMA LevelRead ==
  ASSUME NEW n \in 0 .. 100
  PROVE  /\ VerboseFromString(LevelText(n)) = Answer("SUCCESS", n)
         /\ LevelText(n) # NoText /\ LevelText(n) # <<>>
<1> DEFINE D == DOMAIN verbose_values
           withvalue == {i \in D : verbose_values[i].value = n}
           i == LeastOf(withvalue)
           w == verbose_values[i].name
<1>1. D \in SUBSET Nat /\ withvalue \in SUBSET Nat
  BY LevelsAre
<1>2. CASE withvalue = {}
  <2>1. LevelText(n) = <<Number(n)>>
    BY <1>2 DEF LevelText
  <2>2. AsInt(n) = n
    BY Ranges, AsIntIs
  <2>3. Clamped(n) = n
    BY DEF Clamped
  <2> DEFINE text == <<Number(n)>>
  <2>4. /\ text[1] = Number(n) /\ Len(text) = 1 /\ IsNumber(Number(n)) /\ Number(n).number = n
        /\ text # NoText /\ text # <<>>
    BY TokensAre
  <2> HIDE DEF text
  <2>5. VerboseFromString(text) = Answer("SUCCESS", n)
    BY <2>2, <2>3, <2>4 DEF VerboseFromString
  <2> QED
    BY <2>1, <2>4, <2>5 DEF text
<1>3. CASE withvalue # {}
  <2> HIDE DEF withvalue
  <2>1. i \in withvalue
    BY <1>1, <1>3, LeastOfIn
  <2>2. i \in D /\ verbose_values[i].value = n
    BY <2>1 DEF withvalue
  <2>3. w # Blank
    BY <2>2, LevelsAre
  <2> DEFINE text == <<Word(w)>>
             named == {j \in D : text = <<Word(verbose_values[j].name)>>}
             k == LeastOf(named)
  <2>4. LevelText(n) = text
    BY <1>3 DEF LevelText, withvalue
  <2> HIDE DEF i
  <2>5. i \in named /\ named \in SUBSET Nat
    BY <1>1, <2>2
  <2>6. k \in named
    <3> HIDE DEF named
    <3> QED
      BY <2>5, LeastOfIn
  <2>7. k \in D /\ verbose_values[k].name = w
    <3>1. k \in D /\ text = <<Word(verbose_values[k].name)>>
      BY <2>6
    <3> HIDE DEF k, D, named
    <3> DEFINE v == verbose_values[k].name
    <3>2. <<Word(w)>> = <<Word(v)>>
      BY <3>1
    <3> HIDE DEF v, w
    <3>3. w = v
      BY <3>2, TokensAre
    <3> QED
      BY <3>1, <3>3 DEF v
  <2>8. k = i
    <3> HIDE DEF k
    <3> QED
      BY <2>2, <2>7, LevelsAre
  <2>9. text[1] = Word(w) /\ ~IsNumber(Word(w)) /\ text # NoText /\ text # <<>>
    BY <2>3, TokensAre
  <2> HIDE DEF text
  <2>10. VerboseFromString(text) = Answer("SUCCESS", verbose_values[k].value)
    BY <2>5, <2>9 DEF VerboseFromString
  <2> QED
    BY <2>2, <2>4, <2>8, <2>9, <2>10
<1> QED
  BY <1>2, <1>3
LEMMA VerboseStored ==
  ASSUME NEW text \in Seq(Tokens), text # <<>>
  PROVE  VerboseFromString(text).value \in -1 .. 100
<1> DEFINE named == {i \in DOMAIN verbose_values : text = <<Word(verbose_values[i].name)>>}
           x == AsInt(text[1].number)
<1>1. named \in SUBSET Nat
  BY LevelsAre
<1>2. named # {} => verbose_values[LeastOf(named)].value \in -1 .. 100
  <2>1. named # {} => LeastOf(named) \in named
    BY <1>1, LeastOfIn
  <2> QED
    BY <2>1, LevelsAre
<1>3. x \in Int
  <2>1. IntHalf \in Nat
    BY Ranges
  <2> QED
    BY <2>1, FirstToken, AsIntIs
<1>5. \/ VerboseFromString(text) = Answer("SUCCESS", Clamped(x))
      \/ named # {} /\ VerboseFromString(text) = Answer("SUCCESS", verbose_values[LeastOf(named)].value)
      \/ VerboseFromString(text) = Answer("NOT_FOUND", 0)
  BY DEF VerboseFromString
<1> HIDE DEF named, x
<1>4. Clamped(x) \in -1 .. 100
  BY <1>3 DEF Clamped
<1> DEFINE level == verbose_values[LeastOf(named)].value
           a == VerboseFromString(text)
<1> HIDE DEF level, a
<1>6. \/ a = Answer("SUCCESS", Clamped(x))
      \/ named # {} /\ a = Answer("SUCCESS", level)
      \/ a = Answer("NOT_FOUND", 0)
  BY <1>5 DEF level, a
<1> DEFINE n == a.value
<1>7. n = Clamped(x) \/ (named # {} /\ n = level) \/ n = 0
  BY <1>6, AnswerIs
<1>8. named # {} => level \in -1 .. 100
  BY <1>2 DEF level
<1>9. 0 \in -1 .. 100
  OBVIOUS
<1> HIDE DEF n
<1>10. n \in -1 .. 100
  BY <1>4, <1>7, <1>8, <1>9, Zenon
<1> QED
  BY <1>10 DEF n, a

LEMMA ListIs ==
  /\ DOMAIN ValueList \in SUBSET Nat
  /\ \A i \in DOMAIN ValueList : ValueList[i].name # Blank
  /\ \A i, j \in DOMAIN ValueList : ValueList[i].name = ValueList[j].name => i = j
<1>1. ValueList \in Seq([value : Int, name : TextNames])
  BY VarTextAssumption
<1>2. \A i \in DOMAIN ValueList : i \in 1 .. Len(ValueList)
  BY <1>1
<1>3. ASSUME NEW i \in DOMAIN ValueList PROVE ValueList[i].name # Blank
  <2>1. ValueList[i] \in [value : Int, name : TextNames]
    BY <1>1, <1>2, ElementOfSeq
  <2> QED
    BY <2>1 DEF TextNames
<1> QED
  BY <1>2, <1>3, VarTextAssumption
LEMMA ValueTextRead ==
  ASSUME NEW n \in Listed
  PROVE  /\ ValueFromString(ValueToString(n)) = Answer("SUCCESS", n)
         /\ ValueToString(n) # NoText /\ ValueToString(n) # <<>>
<1> DEFINE D == DOMAIN ValueList
           withvalue == {i \in D : ValueList[i].value = n}
           i == LeastOf(withvalue)
           w == ValueList[i].name
           text == <<Word(w)>>
           found == {j \in D : /\ Len(text) = 1
                               /\ \/ IsNumber(text[1]) /\ AsInt(text[1].number) = ValueList[j].value
                                  \/ Called(text[1], ValueList[j].name)}
           k == LeastOf(found)
<1>1. withvalue \in SUBSET Nat /\ withvalue # {} /\ found \in SUBSET Nat
  BY ListIs DEF Listed
<1>2. i \in D /\ ValueList[i].value = n
  <2>1. i \in withvalue
    <3> HIDE DEF withvalue
    <3> QED
      BY <1>1, LeastOfIn
  <2> QED
    BY <2>1
<1>3. ValueToString(n) = text
  BY <1>1 DEF ValueToString
<1> HIDE DEF i
<1>4. w # Blank
  BY <1>2, ListIs
<1>5. text[1] = Word(w) /\ Len(text) = 1 /\ ~IsNumber(Word(w)) /\ text # NoText /\ text # <<>>
  BY <1>4, TokensAre
<1>6. \A j \in D : Called(text[1], ValueList[j].name) <=> w = ValueList[j].name
  <2>1. \A v : Called(Word(w), v) <=> w = v
    BY TokensAre
  <2> QED
    BY <1>5, <2>1
<1> HIDE DEF text
<1>7. i \in found
  BY <1>2, <1>5, <1>6
<1>8. k \in found
  <2> HIDE DEF found
  <2> QED
    BY <1>1, <1>7, LeastOfIn
<1>9. k \in D /\ ValueList[k].name = w
  BY <1>5, <1>6, <1>8
<1>10. k = i
  <2> HIDE DEF k
  <2> QED
    BY <1>2, <1>9, ListIs
<1>11. ValueFromString(text) = Answer("SUCCESS", ValueList[k].value)
  BY <1>7 DEF ValueFromString
<1> QED
  BY <1>2, <1>3, <1>5, <1>10, <1>11
LEMMA ValueStored ==
  ASSUME NEW text, ValueFromString(text).rc # "OUT_OF_BOUNDS"
  PROVE  ValueFromString(text).value \in Listed
<1> DEFINE found == {j \in DOMAIN ValueList :
                       /\ Len(text) = 1
                       /\ \/ IsNumber(text[1]) /\ AsInt(text[1].number) = ValueList[j].value
                          \/ Called(text[1], ValueList[j].name)}
           k == LeastOf(found)
<1>1. \/ ValueFromString(text) = Answer("OUT_OF_BOUNDS", 0)
      \/ found # {} /\ ValueFromString(text) = Answer("SUCCESS", ValueList[k].value)
  BY DEF ValueFromString
<1>2. found \in SUBSET Nat /\ found \subseteq DOMAIN ValueList
  BY ListIs
<1> HIDE DEF found
<1>3. found # {} /\ ValueFromString(text) = Answer("SUCCESS", ValueList[k].value)
  BY <1>1, AnswerIs
<1>4. k \in DOMAIN ValueList
  BY <1>2, <1>3, LeastOfIn
<1> QED
  BY <1>3, <1>4, AnswerIs DEF Listed
-----------------------------------------------------------------------------
(* Flags.                                                                    *)
LEMMA FlagsListed ==
  /\ Len(FlagList) \in Nat /\ DOMAIN FlagList = 1 .. Len(FlagList)
  /\ \A i, j \in DOMAIN FlagList : FlagList[i].bit = FlagList[j].bit => i = j
  /\ \A i \in DOMAIN FlagList : FlagList[i].bit \notin FlagList[i].conflicts
<1>1. FlagList \in Seq([bit : Bit, name : TextNames, conflicts : SUBSET Bit])
  BY VarTextAssumption
<1>2. Len(FlagList) \in Nat /\ DOMAIN FlagList = 1 .. Len(FlagList)
  BY <1>1
<1> QED
  BY <1>2, VarTextAssumption
BitsUpTo(k) == {FlagList[i].bit : i \in 1 .. k}
LEMMA OneMoreBit ==
  ASSUME NEW k \in 1 .. Len(FlagList)
  PROVE  BitsUpTo(k) = BitsUpTo(k - 1) \cup {FlagList[k].bit}
<1>1. \A i : i \in 1 .. k <=> (i \in 1 .. k - 1 \/ i = k)
  BY FlagsListed
<1> QED
  BY <1>1 DEF BitsUpTo
LEMMA FlagAddedCases ==
  ASSUME NEW flag, NEW token, NEW entry
  PROVE  \/ flag.rc # "SUCCESS" /\ FlagAdded(flag, token, entry) = flag
         \/ FlagAdded(flag, token, entry) = Answer("OUT_OF_BOUNDS", {})
         \/ FlagAdded(flag, token, entry) = Answer("BAD_PARAM", {})
         \/ /\ flag.rc = "SUCCESS" /\ flag.value \cap entry.conflicts = {}
            /\ FlagAdded(flag, token, entry) = Answer("SUCCESS", flag.value \cup {entry.bit})
BY DEF FlagAdded
FlagsUp(f, text) ==
  f = [i \in 0 .. Len(text) |->
         IF i = 0 THEN Answer("SUCCESS", {})
         ELSE IF i <= Len(FlagList) THEN FlagAdded(f[i - 1], text[i], FlagList[i])
         ELSE AtTheEnd(f[i - 1], text[i])]
Flags(f, text) ==
  /\ f[0] = Answer("SUCCESS", {})
  /\ \A k \in 1 .. Len(text) : f[k] = FlagAdded(f[k - 1], text[k], FlagList[k])
LEMMA FlagsAre ==
  ASSUME NEW text, Len(text) \in 0 .. Len(FlagList)
  PROVE  \E f : FlagFromString(text) = f[Len(text)] /\ Flags(f, text)
<1> DEFINE n == Len(text)
           S == {Answer(rc, v) : rc \in {"SUCCESS", "OUT_OF_BOUNDS", "BAD_PARAM"}, v \in SUBSET FlagBits}
           base == Answer("SUCCESS", {})
           step == [k \in 1 .. n |-> [s \in S |-> FlagAdded(s, text[k], FlagList[k])]]
           f == CHOOSE w : w = [i \in 0 .. n |->
                                  IF i = 0 THEN base
                                  ELSE IF i <= Len(FlagList) THEN FlagAdded(w[i - 1], text[i], FlagList[i])
                                  ELSE AtTheEnd(w[i - 1], text[i])]
<1>1. n \in Nat /\ \A k \in 1 .. n : k \in DOMAIN FlagList /\ k <= Len(FlagList)
  BY FlagsListed
<1>2. base \in S
  OBVIOUS
<1>3. ASSUME NEW k \in 1 .. n, NEW s \in S PROVE FlagAdded(s, text[k], FlagList[k]) \in S
  <2>1. s.value \in SUBSET FlagBits
    BY AnswerIs
  <2>2. FlagList[k].bit \in FlagBits
    BY <1>1 DEF FlagBits
  <2>3. Answer("OUT_OF_BOUNDS", {}) \in S /\ Answer("BAD_PARAM", {}) \in S
    OBVIOUS
  <2>4. Answer("SUCCESS", s.value \cup {FlagList[k].bit}) \in S
    BY <2>1, <2>2
  <2> HIDE DEF S
  <2> QED
    BY <2>3, <2>4, FlagAddedCases
<1>4. /\ step \in [1 .. n -> [S -> S]]
      /\ \A k \in 1 .. n : \A s \in S : step[k][s] = FlagAdded(s, text[k], FlagList[k])
  <2> HIDE DEF S
  <2> QED
    BY <1>3
<1>5. FlagFromString(text) = f[n]
  BY DEF FlagFromString
<1>6. (\E w : FlagsUp(w, text)) => FlagsUp(f, text)
  BY DEF FlagsUp
<1> HIDE DEF S, step, f, base
<1>7. PICK w : Iterates(w, base, step, n) /\ \A k \in 0 .. n : w[k] \in S
  <2> HIDE DEF n
  <2> QED
    BY <1>1, <1>2, <1>4, IteratesWithin
<1>8. ASSUME NEW k \in 0 .. n
      PROVE w[k] = IF k = 0 THEN base
                   ELSE IF k <= Len(FlagList) THEN FlagAdded(w[k - 1], text[k], FlagList[k])
                   ELSE AtTheEnd(w[k - 1], text[k])
  <2>1. k # 0 => k \in 1 .. n /\ k - 1 \in 0 .. n /\ k <= Len(FlagList)
    BY <1>1
  <2> QED
    BY <1>4, <1>7, <2>1 DEF Iterates
<1>9. w = [k \in 0 .. n |-> w[k]]
  BY <1>7 DEF Iterates
<1>10. FlagsUp(w, text)
  BY <1>8, <1>9 DEF FlagsUp, base
<1>11. FlagsUp(f, text)
  BY <1>6, <1>10
<1>12. Flags(f, text)
  <2>1. f = [i \in 0 .. n |-> IF i = 0 THEN base
                             ELSE IF i <= Len(FlagList) THEN FlagAdded(f[i - 1], text[i], FlagList[i])
                             ELSE AtTheEnd(f[i - 1], text[i])]
    BY <1>11 DEF FlagsUp, base
  <2>2. 0 \in 0 .. n /\ \A k \in 1 .. n : k \in 0 .. n /\ k # 0 /\ k <= Len(FlagList)
    BY <1>1
  <2> HIDE DEF n
  <2>3. f[0] = base /\ \A k \in 1 .. n : f[k] = FlagAdded(f[k - 1], text[k], FlagList[k])
    BY <2>1, <2>2
  <2> QED
    BY <2>3 DEF Flags, base, n
<1> QED
  BY <1>5, <1>12

(* The text of the first flags is their names.                               *)
NamesUp(f, n) ==
  f = [i \in 0 .. Len(FlagList) |->
         IF i = 0 THEN <<>>
         ELSE IF FlagList[i].bit \in n THEN Append(f[i - 1], Word(FlagList[i].name)) ELSE f[i - 1]]
FlagWords == {Word(FlagList[i].name) : i \in DOMAIN FlagList}
FlagTexts(f, n) ==
  /\ f[0] = <<>>
  /\ \A i \in 1 .. Len(FlagList) :
       f[i] = IF FlagList[i].bit \in n THEN Append(f[i - 1], Word(FlagList[i].name)) ELSE f[i - 1]
  /\ \A i \in 0 .. Len(FlagList) : f[i] \in Seq(FlagWords)
NoTextFor(n) == Conflicting(n) \/ ~ n \subseteq FlagBits
LEMMA NamesAre ==
  ASSUME NEW n
  PROVE  \E f : /\ FlagTexts(f, n)
                /\ FlagToString(n) = IF NoTextFor(n) THEN NoText ELSE f[Len(FlagList)]
<1> DEFINE l == Len(FlagList)
           S == Seq(FlagWords)
           Next_(i, s) == IF FlagList[i].bit \in n THEN Append(s, Word(FlagList[i].name)) ELSE s
           step == [k \in 1 .. l |-> [s \in S |-> Next_(k, s)]]
           f == CHOOSE w : w = [i \in 0 .. l |->
                  IF i = 0 THEN <<>>
                  ELSE IF FlagList[i].bit \in n THEN Append(w[i - 1], Word(FlagList[i].name)) ELSE w[i - 1]]
<1>1. l \in Nat /\ \A k \in 1 .. l : Word(FlagList[k].name) \in FlagWords
  BY FlagsListed DEF FlagWords
<1>2. ASSUME NEW k \in 1 .. l, NEW s \in S PROVE Next_(k, s) \in S
  BY <1>1, AppendProperties
<1>3. /\ step \in [1 .. l -> [S -> S]]
      /\ \A k \in 1 .. l : \A s \in S : step[k][s] = Next_(k, s)
  <2> HIDE DEF S, Next_
  <2> QED
    BY <1>2
<1>4. FlagToString(n) = IF NoTextFor(n) THEN NoText ELSE f[l]
  <2> DEFINE none == \/ \E i \in DOMAIN FlagList : FlagList[i].bit \in n /\ FlagList[i].conflicts \cap n # {}
                     \/ ~ n \subseteq {FlagList[i].bit : i \in DOMAIN FlagList}
  <2>1. FlagToString(n) = IF none THEN NoText ELSE f[l]
    BY Zenon DEF FlagToString
  <2>2. none <=> NoTextFor(n)
    BY DEF NoTextFor, Conflicting, FlagBits
  <2> HIDE DEF none, f
  <2> QED
    BY <2>1, <2>2
<1>5. (\E w : NamesUp(w, n)) => NamesUp(f, n)
  BY DEF NamesUp
<1>6. <<>> \in S
  BY EmptySeq
<1> HIDE DEF f, step, S
<1>7. PICK w : Iterates(w, <<>>, step, l) /\ \A k \in 0 .. l : w[k] \in S
  <2> HIDE DEF l, Next_
  <2> QED
    BY <1>1, <1>3, <1>6, IteratesWithin
<1>8. ASSUME NEW k \in 0 .. l PROVE w[k] = IF k = 0 THEN <<>> ELSE Next_(k, w[k - 1])
  <2>1. k # 0 => k \in 1 .. l /\ k - 1 \in 0 .. l
    BY <1>1
  <2> HIDE DEF Next_
  <2> QED
    BY <1>3, <1>7, <2>1 DEF Iterates
<1>9. w = [k \in 0 .. l |-> w[k]]
  BY <1>7 DEF Iterates
<1>10. NamesUp(w, n)
  <2>1. w = [k \in 0 .. l |-> IF k = 0 THEN <<>> ELSE Next_(k, w[k - 1])]
    <3> HIDE DEF Next_
    <3> QED
      BY <1>8, <1>9
  <2> QED
    BY <2>1 DEF NamesUp
<1>11. NamesUp(f, n)
  BY <1>5, <1>10
<1>12. f = [k \in 0 .. l |-> IF k = 0 THEN <<>> ELSE Next_(k, f[k - 1])]
  BY <1>11 DEF NamesUp
<1>13. f[0] = <<>> /\ \A k \in 1 .. l : f[k] = Next_(k, f[k - 1])
  <2>1. 0 \in 0 .. l /\ \A k \in 1 .. l : k \in 0 .. l /\ k # 0
    BY <1>1
  <2> HIDE DEF l, Next_
  <2> QED
    BY <1>12, <2>1
<1>14. \A k \in 0 .. l : f[k] \in S
  <2>1. f[0] \in S /\ \A k \in 1 .. l : f[k - 1] \in S => f[k] \in S
    <3> HIDE DEF l, Next_
    <3> QED
      BY <1>2, <1>6, <1>13
  <2> HIDE DEF l, Next_
  <2> QED
    BY <1>1, <2>1, StaysWithin
<1>15. FlagTexts(f, n)
  BY <1>13, <1>14 DEF FlagTexts, S
<1> QED
  BY <1>4, <1>15
LEMMA FlagNoText ==
  ASSUME NEW n
  PROVE  FlagToString(n) = NoText <=> NoTextFor(n)
<1>1. PICK f : /\ FlagTexts(f, n)
               /\ FlagToString(n) = IF NoTextFor(n) THEN NoText ELSE f[Len(FlagList)]
  BY NamesAre
<1>2. f[Len(FlagList)] \in Seq(FlagWords)
  BY <1>1, FlagsListed DEF FlagTexts
<1>3. NoText \notin Seq(FlagWords)
  <2>1. SUFFICES ASSUME NoText \in Seq(FlagWords) PROVE FALSE
    OBVIOUS
  <2> DEFINE mark == [word |-> "no text", upper |-> TRUE, number |-> 0, suffix |-> Blank]
  <2>2. mark.upper /\ NoText = <<mark>>
    BY DEF NoText, Mark
  <2> HIDE DEF mark
  <2>3. Len(NoText) = 1 /\ NoText[1] = mark
    BY <2>2
  <2>4. 1 \in 1 .. Len(NoText)
    BY <2>3
  <2>5. NoText[1] \in FlagWords
    BY <2>1, <2>4, ElementOfSeq
  <2>6. \A w : ~Word(w).upper
    BY DEF Word
  <2> QED
    BY <2>2, <2>3, <2>5, <2>6 DEF FlagWords
<1> QED
  BY <1>1, <1>2, <1>3
FirstNames(k) == [j \in 1 .. k |-> Word(FlagList[j].name)]
LEMMA NamesFollow ==
  ASSUME NEW k \in 1 .. Len(FlagList)
  PROVE  Append(FirstNames(k - 1), Word(FlagList[k].name)) = FirstNames(k)
<1> DEFINE l == k - 1
           w == Word(FlagList[k].name)
           s == FirstNames(l)
           t == FirstNames(k)
<1>1. l \in Nat /\ k = l + 1 /\ l < Len(FlagList)
  BY FlagsListed
<1>2. \A j \in 1 .. k : Word(FlagList[j].name) \in FlagWords
  BY FlagsListed DEF FlagWords
<1>3. s \in Seq(FlagWords) /\ Len(s) = l /\ \A j \in 1 .. l : s[j] = Word(FlagList[j].name)
  BY <1>1, <1>2 DEF FirstNames
<1>4. t \in Seq(FlagWords) /\ Len(t) = k /\ \A j \in 1 .. k : t[j] = Word(FlagList[j].name)
  BY <1>1, <1>2 DEF FirstNames
<1>5. w \in FlagWords
  BY <1>2
<1> HIDE DEF s, t, w
<1>6. /\ Append(s, w) \in Seq(FlagWords) /\ Len(Append(s, w)) = Len(s) + 1
      /\ \A j \in 1 .. Len(s) : Append(s, w)[j] = s[j]
      /\ Append(s, w)[Len(s) + 1] = w
  BY <1>3, <1>5, AppendProperties
<1> HIDE DEF l
<1>7. Len(Append(s, w)) = Len(t)
  BY <1>1, <1>3, <1>4, <1>6
<1>8. ASSUME NEW j \in 1 .. Len(t) PROVE Append(s, w)[j] = t[j]
  <2>1. j \in 1 .. k
    BY <1>4
  <2>2. CASE j = k
    BY <1>1, <1>3, <1>4, <1>6, <2>1, <2>2 DEF w
  <2>3. CASE j # k
    <3>1. j \in 1 .. l
      BY <1>1, <2>1, <2>3
    <3> QED
      BY <1>3, <1>4, <1>6, <2>1, <3>1
  <2> QED
    BY <2>2, <2>3
<1>9. Append(s, w) = t
  BY <1>4, <1>6, <1>7, <1>8, SeqEqual
<1> QED
  BY <1>9 DEF s, t, w, l
LEMMA FirstFlagsText ==
  ASSUME NEW k \in 0 .. Len(FlagList), ~NoTextFor(BitsUpTo(k))
  PROVE  FlagToString(BitsUpTo(k)) = FirstNames(k)
<1> DEFINE l == Len(FlagList)
           n == BitsUpTo(k)
<1>1. PICK f : FlagTexts(f, n) /\ FlagToString(n) = f[l]
  BY NamesAre
<1>2. l \in Nat /\ k \in Nat /\ k <= l
  BY FlagsListed
<1>3. \A i \in 1 .. l : FlagList[i].bit \in n <=> i <= k
  <2>1. \A i \in 1 .. l : i <= k => FlagList[i].bit \in n
    BY <1>2 DEF BitsUpTo
  <2>2. ASSUME NEW i \in 1 .. l, FlagList[i].bit \in n PROVE i <= k
    <3>1. PICK j \in 1 .. k : FlagList[j].bit = FlagList[i].bit
      BY <2>2 DEF BitsUpTo
    <3>2. j = i
      BY <1>2, <3>1, FlagsListed
    <3> QED
      BY <3>1, <3>2, <1>2
  <2> QED
    BY <2>1, <2>2
<1> HIDE DEF n
<1>4. /\ f[0] = <<>>
      /\ \A i \in 1 .. l : f[i] = IF i <= k THEN Append(f[i - 1], Word(FlagList[i].name)) ELSE f[i - 1]
  BY <1>1, <1>3 DEF FlagTexts
<1> DEFINE R == {i \in 0 .. l : f[i] = IF i <= k THEN FirstNames(i) ELSE FirstNames(k)}
<1>5. R \in SUBSET (0 .. l)
  OBVIOUS
<1>6. 0 \in R
  <2>1. FirstNames(0) = <<>>
    BY DEF FirstNames
  <2> QED
    BY <1>2, <1>4, <2>1
<1>7. ASSUME NEW i \in 1 .. l, i - 1 \in R PROVE i \in R
  <2>1. i \in 0 .. l /\ i - 1 \in 0 .. l
    BY <1>2
  <2>2. CASE i <= k
    <3>1. i - 1 <= k
      BY <1>2, <2>2
    <3>2. f[i - 1] = FirstNames(i - 1)
      BY <1>7, <3>1
    <3>3. f[i] = Append(FirstNames(i - 1), Word(FlagList[i].name))
      BY <1>4, <2>2, <3>2
    <3>4. f[i] = FirstNames(i)
      BY <3>3, NamesFollow
    <3> QED
      BY <2>1, <2>2, <3>4
  <2>3. CASE ~(i <= k)
    <3>1. i - 1 <= k => i - 1 = k
      BY <1>2, <2>3
    <3>2. f[i - 1] = FirstNames(k)
      BY <1>7, <3>1
    <3>3. f[i] = f[i - 1]
      BY <1>4, <2>3
    <3> QED
      BY <2>1, <2>3, <3>2, <3>3
  <2> QED
    BY <2>2, <2>3
<1>8. l \in R
  <2> HIDE DEF R, l
  <2> QED
    BY <1>2, <1>5, <1>6, <1>7, CountedUp
<1>9. f[l] = FirstNames(k)
  <2>1. l <= k => l = k
    BY <1>2
  <2> QED
    BY <1>8, <2>1
<1> QED
  BY <1>1, <1>9 DEF n
LEMMA FirstFlagsRead ==
  ASSUME NEW k \in 0 .. Len(FlagList), ~NoTextFor(BitsUpTo(k))
  PROVE  FlagFromString(FirstNames(k)) = Answer("SUCCESS", BitsUpTo(k))
<1> DEFINE text == FirstNames(k)
<1>1. k \in Nat /\ k <= Len(FlagList) /\ Len(FlagList) \in Nat
  BY FlagsListed
<1>2. Len(text) = k /\ \A i \in 1 .. k : text[i] = Word(FlagList[i].name)
  BY <1>1 DEF FirstNames
<1> HIDE DEF text
<1>3. PICK f : FlagFromString(text) = f[Len(text)] /\ Flags(f, text)
  BY <1>2, FlagsAre
<1>4. f[0] = Answer("SUCCESS", {}) /\ \A i \in 1 .. k : f[i] = FlagAdded(f[i - 1], text[i], FlagList[i])
  BY <1>2, <1>3 DEF Flags
<1> DEFINE R == {i \in 0 .. k : f[i] = Answer("SUCCESS", BitsUpTo(i))}
<1>5. R \in SUBSET (0 .. k)
  OBVIOUS
<1>6. 0 \in R
  <2>1. BitsUpTo(0) = {}
    BY DEF BitsUpTo
  <2> QED
    BY <1>1, <1>4, <2>1
<1>7. ASSUME NEW i \in 1 .. k, i - 1 \in R PROVE i \in R
  <2> DEFINE old == f[i - 1]
             entry == FlagList[i]
  <2>1. i \in 1 .. Len(FlagList) /\ i \in DOMAIN FlagList /\ i \in 0 .. k
    BY <1>1, FlagsListed
  <2>2. old = Answer("SUCCESS", BitsUpTo(i - 1))
    BY <1>7
  <2>3. Called(text[i], entry.name)
    BY <1>2, TokensAre
  <2>4. entry.bit \in BitsUpTo(k) /\ BitsUpTo(i - 1) \subseteq BitsUpTo(k)
    BY <1>1 DEF BitsUpTo
  <2>5. BitsUpTo(i - 1) \cap entry.conflicts = {}
    BY <2>1, <2>4 DEF NoTextFor, Conflicting
  <2>6. f[i] = FlagAdded(old, text[i], entry)
    BY <1>4
  <2>7. old.rc = "SUCCESS" /\ old.value = BitsUpTo(i - 1)
    BY <2>2, AnswerIs
  <2> HIDE DEF old, entry
  <2>8. f[i] = Answer("SUCCESS", BitsUpTo(i - 1) \cup {entry.bit})
    BY <2>3, <2>5, <2>6, <2>7 DEF FlagAdded
  <2>9. f[i] = Answer("SUCCESS", BitsUpTo(i))
    BY <2>1, <2>8, OneMoreBit DEF entry
  <2> QED
    BY <2>1, <2>9
<1>8. k \in R
  <2> HIDE DEF R
  <2> QED
    BY <1>1, <1>5, <1>6, <1>7, CountedUp
<1> QED
  BY <1>2, <1>3, <1>8 DEF text
-----------------------------------------------------------------------------
(* What is read from a text fits the variable; what is written of a value is *)
(* read back.                                                                *)
LEMMA TextsAre ==
  ASSUME NEW text \in Texts PROVE text \in Seq(Tokens) /\ Len(text) \in Nat
<1>1. text \in Seq(Tokens)
  BY VarTextAssumption DEF Tokens
<1> QED
  BY <1>1
AllKinds == {"bool", "verbose", "values", "flags", "int", "uint", "ulong"}
LEMMA ZeroStores == ASSUME NEW kind \in AllKinds PROVE Stores(kind, Zero(kind))
<1>1. CASE kind = "flags"
  BY <1>1 DEF Zero, Stores
<1>2. CASE kind # "flags"
  <2>1. Zero(kind) = 0
    BY <1>2 DEF Zero
  <2>2. /\ 0 \in {0, 1} /\ 0 \in -1 .. 100 /\ 0 \in Listed \cup {0} /\ 0 \in -IntHalf .. IntHalf - 1
        /\ 0 \in 0 .. Power(2, IntBits) - 1 /\ 0 \in 0 .. Power(2, LongBits) - 1
    BY Ranges
  <2> QED
    BY <1>2, <2>1, <2>2 DEF Stores
<1> QED
  BY <1>1, <1>2
LEMMA FromStringStored ==
  ASSUME NEW kind \in AllKinds, NEW text \in Texts, FromString(kind, text).rc # "OUT_OF_BOUNDS"
  PROVE  Stores(kind, FromString(kind, text).value)
<1>1. text \in Seq(Tokens) /\ Len(text) \in Nat
  BY TextsAre
<1>2. CASE text = <<>>
  <2>1. FromString(kind, text) = Answer("SUCCESS", Zero(kind))
    BY <1>2 DEF FromString
  <2> QED
    BY <2>1, AnswerIs, ZeroStores
<1>3. CASE text # <<>> /\ kind = "bool"
  <2>1. FromString(kind, text) = BoolFromString(text)
    BY <1>3 DEF FromString
  <2> QED
    BY <1>3, <2>1, BoolStored DEF Stores
<1>4. CASE text # <<>> /\ kind = "verbose"
  <2>1. FromString(kind, text) = VerboseFromString(text)
    BY <1>4 DEF FromString
  <2> QED
    BY <1>1, <1>4, <2>1, VerboseStored DEF Stores
<1>5. CASE text # <<>> /\ kind = "values"
  <2>1. FromString(kind, text) = ValueFromString(text)
    BY <1>5 DEF FromString
  <2> QED
    BY <1>5, <2>1, ValueStored DEF Stores
<1>6. CASE kind = "flags"
  BY <1>6 DEF Stores
<1>7. CASE text # <<>> /\ kind \in {"int", "uint", "ulong"}
  <2>1. FromString(kind, text) = NumberFromString(kind, text)
    BY <1>7 DEF FromString
  <2> QED
    BY <1>1, <1>7, <2>1, NumberStored
<1> QED
  BY <1>2, <1>3, <1>4, <1>5, <1>6, <1>7 DEF AllKinds
LEMMA TextStored ==
  ASSUME NEW kind \in AllKinds, NEW text \in Texts, NEW old, Stores(kind, old)
  PROVE  Stores(kind, ReadText(kind, text, old).value)
<1> DEFINE a == FromString(kind, text)
<1>1. CASE a.rc # "OUT_OF_BOUNDS"
  <2>1. ReadText(kind, text, old) = a
    BY <1>1 DEF ReadText
  <2> QED
    BY <1>1, <2>1, FromStringStored
<1>2. CASE a.rc = "OUT_OF_BOUNDS"
  <2>1. ReadText(kind, text, old) = Answer(a.rc, old)
    BY <1>2 DEF ReadText
  <2> QED
    BY <2>1, AnswerIs
<1> QED
  BY <1>1, <1>2
FirstOnes(n) == \E k \in 0 .. Len(FlagList) : n = BitsUpTo(k)
LEMMA ValueIsRead ==
  ASSUME NEW kind \in AllKinds, NEW n, Stores(kind, n), ToString_(kind, n) # NoText,
         kind = "flags" => FirstOnes(n)
  PROVE  FromString(kind, ToString_(kind, n)) = Answer("SUCCESS", n)
<1>1. CASE kind = "bool"
  <2> DEFINE text == BoolToString(n)
  <2>1. n \in {0, 1} /\ ToString_(kind, n) = text
    BY <1>1 DEF Stores, ToString_
  <2>2. BoolFromString(text) = Answer("SUCCESS", n)
    BY <2>1, BoolRead
  <2>3. text # <<>>
    <3>1. \A w : <<Word(w)>> # <<>>
      BY TokensAre
    <3>2. \E w : text = <<Word(w)>>
      BY DEF BoolToString
    <3> QED
      BY <3>1, <3>2
  <2> HIDE DEF text
  <2> QED
    BY <1>1, <2>1, <2>2, <2>3 DEF FromString
<1>2. CASE kind = "verbose"
  <2> DEFINE text == LevelText(n)
  <2>1. n \in -1 .. 100 /\ ToString_(kind, n) = VerboseToString(n)
    BY <1>2 DEF Stores, ToString_
  <2>2. n \in 0 .. 100
    BY <2>1 DEF VerboseToString
  <2>3. VerboseToString(n) = text
    BY <2>2 DEF VerboseToString
  <2>4. VerboseFromString(text) = Answer("SUCCESS", n) /\ text # <<>>
    BY <2>2, LevelRead
  <2> HIDE DEF text
  <2> QED
    BY <1>2, <2>1, <2>3, <2>4 DEF FromString
<1>3. CASE kind = "values"
  <2> DEFINE text == ValueToString(n)
  <2>1. ToString_(kind, n) = text
    BY <1>3 DEF ToString_
  <2>2. n \in Listed
    <3> DEFINE found == {i \in DOMAIN ValueList : ValueList[i].value = n}
    <3>1. found # {}
      BY <2>1 DEF ValueToString
    <3> QED
      BY <3>1 DEF Listed
  <2>3. ValueFromString(text) = Answer("SUCCESS", n) /\ text # <<>>
    BY <2>2, ValueTextRead
  <2> HIDE DEF text
  <2> QED
    BY <1>3, <2>1, <2>3 DEF FromString
<1>4. CASE kind = "flags"
  <2>1. PICK k \in 0 .. Len(FlagList) : n = BitsUpTo(k)
    BY <1>4 DEF FirstOnes
  <2> DEFINE text == FirstNames(k)
  <2>2. ToString_(kind, n) = FlagToString(n)
    BY <1>4 DEF ToString_
  <2>3. ~NoTextFor(BitsUpTo(k))
    BY <2>1, <2>2, FlagNoText
  <2>4. ToString_(kind, n) = text
    BY <2>1, <2>2, <2>3, FirstFlagsText
  <2>5. FlagFromString(text) = Answer("SUCCESS", n)
    BY <2>1, <2>3, FirstFlagsRead
  <2>6. text = <<>> => n = {}
    <3>1. SUFFICES ASSUME text = <<>> PROVE n = {}
      OBVIOUS
    <3>2. k \in Nat /\ DOMAIN text = 1 .. k /\ DOMAIN <<>> = {}
      BY FlagsListed DEF FirstNames
    <3>3. 1 .. k = {}
      BY <3>1, <3>2
    <3> QED
      BY <2>1, <3>3 DEF BitsUpTo
  <2> HIDE DEF text
  <2>7. Zero(kind) = {}
    BY <1>4 DEF Zero
  <2> QED
    BY <1>4, <2>4, <2>5, <2>6, <2>7 DEF FromString
<1>5. CASE kind \in {"int", "uint", "ulong"}
  <2> DEFINE text == <<Number(n)>>
  <2>1. ToString_(kind, n) = text
    BY <1>5 DEF ToString_, NumberToString
  <2>2. text # <<>>
    BY TokensAre
  <2>3. NumberFromString(kind, text) = Answer("SUCCESS", n)
    BY <1>5, NumberRead
  <2> HIDE DEF text
  <2> QED
    BY <1>5, <2>1, <2>2, <2>3 DEF FromString
<1> QED
  BY <1>1, <1>2, <1>3, <1>4, <1>5 DEF AllKinds
LEMMA ProgramStores ==
  ASSUME NEW kind \in AllKinds, NEW n \in Typed(kind), ToString_(kind, n) # NoText
  PROVE  Stores(kind, n)
<1>1. CASE kind = "verbose"
  <2>1. VerboseToString(n) # NoText /\ n \in Int
    BY <1>1, Ranges DEF ToString_, Typed, IntHalf
  <2>2. n \in 0 .. 100
    BY <2>1 DEF VerboseToString
  <2> QED
    BY <1>1, <2>2 DEF Stores
<1>2. CASE kind = "values"
  <2>1. ValueToString(n) # NoText
    BY <1>2 DEF ToString_
  <2>2. {i \in DOMAIN ValueList : ValueList[i].value = n} # {}
    BY <2>1 DEF ValueToString
  <2>3. n \in Listed
    BY <2>2 DEF Listed
  <2> QED
    BY <1>2, <2>3 DEF Stores
<1>3. CASE kind = "flags"
  BY <1>3 DEF Stores
<1>4. CASE kind \in {"bool", "int", "uint", "ulong"}
  BY <1>4 DEF Typed, Stores, IntHalf
<1> QED
  BY <1>1, <1>2, <1>3, <1>4 DEF AllKinds
-----------------------------------------------------------------------------
(* The variable holds what fits its kind; the text in the child's            *)
(* environment is that of the value that was sent, and the child has what    *)
(* that text reads as.                                                       *)
VarTextKept ==
  /\ vt_kind \in AllKinds
  /\ Stores(vt_kind, vt_stored)
  /\ vt_env # NotBuilt => vt_env = ToString_(vt_kind, vt_sent) /\ Stores(vt_kind, vt_sent)
  /\ vt_child.rc # "unread" =>
       /\ vt_env \notin {NotBuilt, NoText}
       /\ vt_child = ReadText(vt_kind, vt_env, Zero(vt_kind))
LEMMA VarTextBegins == VarTextInit => VarTextKept
<1> SUFFICES ASSUME VarTextInit PROVE VarTextKept
  OBVIOUS
<1>1. vt_kind \in AllKinds
  BY VarTextAssumption DEF VarTextInit, AllKinds
<1>2. vt_stored = Zero(vt_kind) /\ vt_env = NotBuilt /\ vt_child.rc = "unread"
  BY AnswerIs DEF VarTextInit, Unread
<1> QED
  BY <1>1, <1>2, ZeroStores DEF VarTextKept
LEMMA VarTextStep == VarTextKept /\ [VarTextNext]_vt_vars => VarTextKept'
<1> SUFFICES ASSUME VarTextKept, [VarTextNext]_vt_vars PROVE VarTextKept'
  OBVIOUS
<1>0. vt_kind \in AllKinds /\ Stores(vt_kind, vt_stored)
  BY DEF VarTextKept
<1>a. Unread.rc = "unread"
  BY AnswerIs DEF Unread
<1>1. ASSUME NEW text \in Texts, SetFromText(text) PROVE VarTextKept'
  <2>1. /\ vt_kind' = vt_kind /\ vt_env' = NotBuilt /\ vt_child' = Unread
        /\ vt_stored' \in {vt_stored, ReadText(vt_kind, text, vt_stored).value}
    BY <1>1 DEF SetFromText
  <2>2. Stores(vt_kind, vt_stored')
    BY <1>0, <2>1, TextStored
  <2> QED
    BY <1>0, <1>a, <2>1, <2>2 DEF VarTextKept
<1>2. ASSUME NEW n \in SetTo[vt_kind], SetToValue(n) PROVE VarTextKept'
  <2>1. /\ vt_kind' = vt_kind /\ vt_env' = NotBuilt /\ vt_child' = Unread /\ vt_stored' \in {vt_stored, n}
        /\ n \in Typed(vt_kind) /\ ToString_(vt_kind, n) # NoText
    BY <1>2 DEF SetToValue
  <2>2. Stores(vt_kind, n)
    BY <1>0, <2>1, ProgramStores
  <2> QED
    BY <1>0, <1>a, <2>1, <2>2 DEF VarTextKept
<1>3. CASE BuildEnv
  <2>1. /\ vt_env = NotBuilt /\ vt_kind' = vt_kind /\ vt_stored' = vt_stored /\ vt_child' = vt_child
        /\ vt_env' = ToString_(vt_kind, vt_stored) /\ vt_sent' = vt_stored
    BY <1>3 DEF BuildEnv
  <2>2. vt_child.rc = "unread"
    BY <2>1 DEF VarTextKept
  <2> QED
    BY <1>0, <2>1, <2>2 DEF VarTextKept
<1>4. CASE ChildReads
  <2>1. /\ vt_env \notin {NotBuilt, NoText} /\ vt_kind' = vt_kind /\ vt_stored' = vt_stored
        /\ vt_env' = vt_env /\ vt_sent' = vt_sent
        /\ vt_child' = ReadText(vt_kind, vt_env, Zero(vt_kind))
    BY <1>4 DEF ChildReads
  <2> QED
    BY <1>0, <2>1 DEF VarTextKept
<1>5. CASE UNCHANGED vt_vars
  BY <1>5 DEF vt_vars, VarTextKept
<1> QED
  BY <1>1, <1>2, <1>3, <1>4, <1>5 DEF VarTextNext
LEMMA KeptIsReadBack == VarTextKept => ValuesReadBack
<1> SUFFICES ASSUME VarTextKept PROVE ValuesReadBack
  OBVIOUS
<1>1. vt_kind \in AllKinds
  BY DEF VarTextKept
<1>2. ASSUME vt_child.rc # "unread", vt_kind = "flags" => FirstFlags PROVE vt_child = Answer("SUCCESS", vt_sent)
  <2>1. /\ vt_env = ToString_(vt_kind, vt_sent) /\ Stores(vt_kind, vt_sent) /\ vt_env # NoText
        /\ vt_child = ReadText(vt_kind, vt_env, Zero(vt_kind))
    BY <1>2 DEF VarTextKept
  <2>2. vt_kind = "flags" => FirstOnes(vt_sent)
    BY <1>2 DEF FirstFlags, FirstOnes, BitsUpTo
  <2>3. FromString(vt_kind, vt_env) = Answer("SUCCESS", vt_sent)
    BY <1>1, <2>1, <2>2, ValueIsRead
  <2>4. Answer("SUCCESS", vt_sent).rc = "SUCCESS"
    BY AnswerIs
  <2> QED
    BY <2>1, <2>3, <2>4 DEF ReadText
<1> QED
  BY <1>2 DEF ValuesReadBack
(* What a program passes to its children in their environment is what they   *)
(* have, for every kind of variable, every enumerator, every text a user may *)
(* give and every value a program may set, up to the end of the program that *)
(* some of them bring; flags only where they are the first ones              *)
(* (mca_base_var_build_env and the conversions of the enumerators).          *)
THEOREM ValuesAlwaysReadBack == VarTextSpec => []ValuesReadBack
<1>1. VarTextInit => VarTextKept
  BY VarTextBegins
<1>2. VarTextKept /\ [VarTextNext]_vt_vars => VarTextKept'
  BY VarTextStep
<1>3. VarTextKept => ValuesReadBack
  BY KeptIsReadBack
<1> QED
  BY <1>1, <1>2, <1>3, PTL DEF VarTextSpec
=============================================================================

-------------------------- MODULE Framework_proofs --------------------------
(***************************************************************************)
(* Theorems about Framework, for every set of components and selections,   *)
(* every combination of failures and any number of callers.                *)
(*                                                                         *)
(* Each handler has a lemma that says what all of its results have in      *)
(* common; the invariance proofs use only those lemmas.                    *)
(***************************************************************************)
EXTENDS Framework, TLAPS

Items_t == [Dynamic -> RepositoryItem_t]

RC == {"SUCCESS", "REGISTER_FAILED", "OPEN_FAILED", "CLOSE_FAILED"}

Result_t == [rc : RC, fw : Framework_t, ri : Items_t]

LEMMA FindType ==
  ASSUME NEW items, NEW sel, NEW broken
  PROVE  Find(items, sel, broken) \subseteq Components
BY DEF Find, Usable

LEMMA FailingType ==
  ASSUME NEW what, NEW set
  PROVE  Failing(what, set) \subseteq SUBSET set
BY DEF Failing

LEMMA LoadPluginsType ==
  ASSUME NEW items \in Items_t, NEW found
  PROVE  LoadPlugins(items, found) \in Items_t
BY DEF LoadPlugins, Items_t, RepositoryItem_t

LEMMA ReleasePluginsType ==
  ASSUME NEW items \in Items_t, NEW gone
  PROVE  ReleasePlugins(items, gone) \in Items_t
BY DEF ReleasePlugins, ReleaseItem, Items_t, RepositoryItem_t

LEMMA UnloadType ==
  ASSUME NEW f \in Framework_t, NEW gone
  PROVE  Unload(f, gone) \in Framework_t
BY DEF Unload, Framework_t

(***************************************************************************)
(* Finding and registering the components neither touches the count nor    *)
(* opens the framework, and it registers the framework if it succeeds.     *)
(***************************************************************************)
LEMMA ComponentsRegisterResult ==
  ASSUME NEW f \in Framework_t, NEW items \in Items_t, NEW all \in BOOLEAN,
         NEW broken, NEW failing \in SUBSET Components,
         NEW partial \in SUBSET Components,
         ~f.registered
  PROVE  LET r == ComponentsRegister(f, items, all, broken, failing, partial)
         IN  /\ r \in Result_t
             /\ r.fw.refcnt = f.refcnt
             /\ r.fw.open = f.open
             /\ r.fw.opened = f.opened
             /\ r.rc \in {"SUCCESS", "REGISTER_FAILED"}
             /\ r.fw.registered = (r.rc = "SUCCESS")
<1> DEFINE sel   == IF all THEN Everything ELSE f.selection
           found == Find(items, sel, broken)
           kept  == [f EXCEPT !.components = found \ failing,
                              !.validVars = @ \cup (found \ (failing \ partial)),
                              !.registered = TRUE]
           left  == [f EXCEPT !.components = found]
<1>1. found \subseteq Components
  BY FindType
<1>2. LoadPlugins(items, found) \in Items_t
  BY LoadPluginsType
<1> HIDE DEF found
<1>3. /\ kept \in Framework_t /\ left \in Framework_t
      /\ kept.refcnt = f.refcnt /\ kept.open = f.open /\ kept.opened = f.opened
      /\ kept.registered = TRUE
      /\ left.refcnt = f.refcnt /\ left.open = f.open /\ left.opened = f.opened
      /\ left.registered = f.registered
  BY <1>1 DEF Framework_t
<1>4. f.registered \in BOOLEAN
  BY DEF Framework_t
<1> DEFINE result == [rc |-> IF AllFound(sel, found) THEN "SUCCESS" ELSE "REGISTER_FAILED",
                      fw |-> IF AllFound(sel, found) THEN kept ELSE left,
                      ri |-> LoadPlugins(items, found)]
<1>5. ComponentsRegister(f, items, all, broken, failing, partial) = result
  BY DEF ComponentsRegister, found
<1> HIDE DEF kept, left, sel
<1>6. /\ result \in Result_t
      /\ result.fw.refcnt = f.refcnt
      /\ result.fw.open = f.open
      /\ result.fw.opened = f.opened
      /\ result.rc \in {"SUCCESS", "REGISTER_FAILED"}
      /\ result.fw.registered = (result.rc = "SUCCESS")
  BY <1>2, <1>3, <1>4 DEF Result_t, RC
<1> QED
  BY <1>5, <1>6

(***************************************************************************)
(* Loading plugins keeps what is loaded and loads what was found; releasing*)
(* plugins unloads none but the released ones.                             *)
(***************************************************************************)
LEMMA LoadPluginsLoads ==
  ASSUME NEW items \in Items_t, NEW found \in SUBSET Components
  PROVE  Loaded(items) \cup found \subseteq Loaded(LoadPlugins(items, found))
BY DEF LoadPlugins, Loaded, Items_t, RepositoryItem_t, Components

LEMMA ReleasePluginsKeeps ==
  ASSUME NEW items \in Items_t, NEW gone
  PROVE  Loaded(items) \ gone \subseteq Loaded(ReleasePlugins(items, gone))
BY DEF ReleasePlugins, ReleaseItem, Loaded, Items_t, RepositoryItem_t

(***************************************************************************)
(* Two conditions on the framework that every handler keeps, whatever state*)
(* of the callers it is called in: its flags and its components agree, and *)
(* if what it lists and has registered was in memory before, it still is.  *)
(***************************************************************************)
Consistent(f) ==
  /\ f.open => f.registered
  /\ f.opened = IF f.open /\ kind # "own" THEN f.components ELSE {}

InMemory(f, items) ==
  f.components \subseteq Loaded(items) /\ f.validVars \subseteq Loaded(items)

Keeps(f, items, g, jtems) ==
  Consistent(g) /\ (InMemory(f, items) => InMemory(g, jtems))

LEMMA KeepsTransitive ==
  ASSUME NEW f, NEW items, NEW g, NEW jtems, NEW h, NEW ktems,
         Keeps(f, items, g, jtems), Keeps(g, jtems, h, ktems)
  PROVE  Keeps(f, items, h, ktems)
BY DEF Keeps

LEMMA ComponentsRegisterKeeps ==
  ASSUME NEW f \in Framework_t, NEW items \in Items_t, NEW all \in BOOLEAN,
         NEW broken, NEW failing \in SUBSET Components,
         NEW partial \in SUBSET Components,
         ~f.registered, Consistent(f)
  PROVE  LET r == ComponentsRegister(f, items, all, broken, failing, partial)
         IN  Keeps(f, items, r.fw, r.ri)
<1> DEFINE sel   == IF all THEN Everything ELSE f.selection
           found == Find(items, sel, broken)
           items1 == LoadPlugins(items, found)
           kept  == [f EXCEPT !.components = found \ failing,
                              !.validVars = @ \cup (found \ (failing \ partial)),
                              !.registered = TRUE]
           left  == [f EXCEPT !.components = found]
           result == [rc |-> IF AllFound(sel, found) THEN "SUCCESS" ELSE "REGISTER_FAILED",
                      fw |-> IF AllFound(sel, found) THEN kept ELSE left,
                      ri |-> items1]
<1>1. ComponentsRegister(f, items, all, broken, failing, partial) = result
  BY DEF ComponentsRegister
<1>2. found \subseteq Components
  BY FindType
<1>3. Loaded(items) \cup found \subseteq Loaded(items1)
  BY <1>2, LoadPluginsLoads
<1>4. ~f.open /\ f.opened = {}
  BY DEF Consistent
<1> HIDE DEF found, items1, sel
<1>5. Keeps(f, items, kept, items1)
  BY <1>3, <1>4 DEF Keeps, Consistent, InMemory, Framework_t
<1>6. Keeps(f, items, left, items1)
  BY <1>3, <1>4 DEF Keeps, Consistent, InMemory, Framework_t
<1> HIDE DEF kept, left
<1>7. Keeps(f, items, result.fw, result.ri)
  BY <1>5, <1>6
<1> QED
  BY <1>1, <1>7

(***************************************************************************)
(* Opening the components of a registered framework either opens it or     *)
(* takes its own reference back.                                           *)
(***************************************************************************)
LEMMA ComponentsOpenResult ==
  ASSUME NEW f \in Framework_t, NEW items \in Items_t,
         NEW failing \in SUBSET Components,
         f.registered, ~f.open
  PROVE  LET r == ComponentsOpen(f, items, failing)
         IN  /\ r \in Result_t
             /\ r.fw.registered
             /\ \/ r.rc = "SUCCESS" /\ r.fw.open /\ r.fw.refcnt = f.refcnt
                \/ r.rc = "OPEN_FAILED" /\ ~r.fw.open /\ r.fw.refcnt = f.refcnt - 1
<1> DEFINE unwanted == f.components \ Usable(f.selection)
           f1       == Unload(f, unwanted)
           ri1      == ReleasePlugins(items, unwanted)
           refused  == f1.components \cap failing
           f2       == Unload(f1, refused)
           ri2      == ReleasePlugins(ri1, refused)
           good     == [f2 EXCEPT !.opened = f2.components, !.open = TRUE]
           bad      == [f1 EXCEPT !.refcnt = @ - 1]
           result   == IF AllFound(f.selection, f1.components)
                       THEN [rc |-> "SUCCESS", fw |-> good, ri |-> ri2]
                       ELSE [rc |-> "OPEN_FAILED", fw |-> bad, ri |-> ri1]
<1>1. ComponentsOpen(f, items, failing) = result
  BY DEF ComponentsOpen
<1>2. ri1 \in Items_t /\ ri2 \in Items_t
  BY ReleasePluginsType
<1>3. f1 \in Framework_t /\ f1.refcnt = f.refcnt /\ f1.registered /\ ~f1.open
  BY UnloadType DEF Unload, Framework_t
<1> HIDE DEF f1, ri1, ri2, unwanted
<1>4. f2 \in Framework_t /\ f2.refcnt = f.refcnt /\ f2.registered
  BY <1>3, UnloadType DEF Unload, Framework_t
<1> HIDE DEF f2, refused
<1>5. good \in Framework_t /\ good.refcnt = f.refcnt /\ good.registered /\ good.open
  BY <1>4 DEF Framework_t
<1>6. bad \in Framework_t /\ bad.refcnt = f.refcnt - 1 /\ bad.registered /\ ~bad.open
  BY <1>3 DEF Framework_t
<1> HIDE DEF good, bad
<1>7. /\ result \in Result_t
      /\ result.fw.registered
      /\ \/ result.rc = "SUCCESS" /\ result.fw.open /\ result.fw.refcnt = f.refcnt
         \/ result.rc = "OPEN_FAILED" /\ ~result.fw.open /\ result.fw.refcnt = f.refcnt - 1
  <2>1. CASE AllFound(f.selection, f1.components)
    BY <2>1, <1>2, <1>5 DEF Result_t, RC
  <2>2. CASE ~AllFound(f.selection, f1.components)
    BY <2>2, <1>2, <1>6 DEF Result_t, RC
  <2> QED
    BY <2>1, <2>2
<1> QED
  BY <1>1, <1>7

LEMMA UnloadKeeps ==
  ASSUME NEW f \in Framework_t, NEW items \in Items_t, NEW gone, Consistent(f)
  PROVE  Keeps(f, items, Unload(f, gone), ReleasePlugins(items, gone))
<1>1. Loaded(items) \ gone \subseteq Loaded(ReleasePlugins(items, gone))
  BY ReleasePluginsKeeps
<1> QED
  BY <1>1 DEF Keeps, Consistent, InMemory, Unload, Framework_t

LEMMA ComponentsOpenKeeps ==
  ASSUME NEW f \in Framework_t, NEW items \in Items_t,
         NEW failing \in SUBSET Components,
         f.registered, ~f.open, kind # "own", Consistent(f)
  PROVE  LET r == ComponentsOpen(f, items, failing)
         IN  Keeps(f, items, r.fw, r.ri)
<1> DEFINE unwanted == f.components \ Usable(f.selection)
           f1       == Unload(f, unwanted)
           ri1      == ReleasePlugins(items, unwanted)
           refused  == f1.components \cap failing
           f2       == Unload(f1, refused)
           ri2      == ReleasePlugins(ri1, refused)
           good     == [f2 EXCEPT !.opened = f2.components, !.open = TRUE]
           bad      == [f1 EXCEPT !.refcnt = @ - 1]
           result   == IF AllFound(f.selection, f1.components)
                       THEN [rc |-> "SUCCESS", fw |-> good, ri |-> ri2]
                       ELSE [rc |-> "OPEN_FAILED", fw |-> bad, ri |-> ri1]
<1>1. ComponentsOpen(f, items, failing) = result
  BY DEF ComponentsOpen
<1>2. ri1 \in Items_t
  BY ReleasePluginsType
<1>3. f1 \in Framework_t /\ f1.registered /\ ~f1.open
  BY UnloadType DEF Unload, Framework_t
<1>4. Keeps(f, items, f1, ri1)
  BY UnloadKeeps
<1> HIDE DEF f1, ri1, unwanted
<1>5. f2 \in Framework_t /\ f2.registered
  BY <1>3, UnloadType DEF Unload, Framework_t
<1>6. Keeps(f, items, f2, ri2)
  <2>1. Consistent(f1)
    BY <1>4 DEF Keeps
  <2>2. Keeps(f1, ri1, f2, ri2)
    BY <1>2, <1>3, <2>1, UnloadKeeps
  <2> QED
    BY <1>4, <2>2, KeepsTransitive
<1> HIDE DEF f2, ri2, refused
<1>7. Keeps(f, items, good, ri2)
  BY <1>5, <1>6 DEF Keeps, Consistent, InMemory, Framework_t
<1>8. Keeps(f, items, bad, ri1)
  BY <1>3, <1>4 DEF Keeps, Consistent, InMemory, Framework_t
<1> HIDE DEF good, bad
<1>9. Keeps(f, items, result.fw, result.ri)
  BY <1>7, <1>8
<1> QED
  BY <1>1, <1>9

(***************************************************************************)
(* Every result of register has taken one reference.  A success leaves the *)
(* framework registered, a registered framework stays as it was, and       *)
(* register never opens it.                                                *)
(***************************************************************************)
LEMMA RegisterSelectionType ==
  ASSUME NEW f \in Framework_t, env \in Selections
  PROVE  /\ RegisterSelection(f) \in Framework_t
         /\ \A field \in {"refcnt", "registered", "open", "components", "opened", "validVars"} :
              RegisterSelection(f)[field] = f[field]
BY DEF RegisterSelection, Framework_t

LEMMA RegisterResult ==
  ASSUME NEW f0 \in Framework_t, NEW items \in Items_t, NEW all \in BOOLEAN,
         env \in Selections, Consistent(f0),
         NEW r \in RegisterResults(f0, items, all)
  PROVE  /\ r \in Result_t
         /\ r.fw.refcnt = f0.refcnt + 1
         /\ r.fw.open = f0.open
         /\ r.rc \in {"SUCCESS", "REGISTER_FAILED"}
         /\ r.rc = "SUCCESS" => r.fw.registered
         /\ f0.registered => r.fw.registered /\ r.rc = "SUCCESS"
         /\ Keeps(f0, items, r.fw, r.ri)
<1> DEFINE f  == [f0 EXCEPT !.refcnt = @ + 1]
           f1 == [f EXCEPT !.components = {}]
           f2 == RegisterSelection(f1)
           f3 == [f1 EXCEPT !.registered = TRUE]
<1>1. f \in Framework_t /\ f.refcnt = f0.refcnt + 1 /\ f.open = f0.open
      /\ f.registered = f0.registered /\ Keeps(f0, items, f, items)
  BY DEF Framework_t, Keeps, Consistent, InMemory
<1>2. CASE f0.registered
  <2>1. r = [rc |-> "SUCCESS", fw |-> f, ri |-> items]
    BY <1>2 DEF RegisterResults
  <2> QED
    BY <2>1, <1>1, <1>2 DEF Result_t, RC
<1>3. CASE ~f0.registered
  <2>1. ~f0.open /\ f0.opened = {}
    BY <1>3 DEF Keeps, Consistent, InMemory, Framework_t
  <2>2. f1 \in Framework_t /\ f1.refcnt = f0.refcnt + 1 /\ f1.open = f0.open
        /\ f1.registered = f0.registered /\ Keeps(f0, items, f1, items)
    BY <1>1, <1>3, <2>1 DEF Framework_t, Keeps, Consistent, InMemory
  <2>3. f3 \in Framework_t /\ f3.refcnt = f0.refcnt + 1 /\ f3.open = f0.open
        /\ f3.registered /\ Keeps(f0, items, f3, items)
    BY <1>1, <1>3, <2>1 DEF Framework_t, Keeps, Consistent, InMemory
  <2>4. f2 \in Framework_t /\ f2.refcnt = f0.refcnt + 1 /\ f2.open = f0.open
        /\ f2.registered = f0.registered /\ Keeps(f0, items, f2, items)
    <3>1. /\ f2 \in Framework_t
          /\ \A field \in {"refcnt", "registered", "open", "components", "opened", "validVars"} :
               f2[field] = f1[field]
      BY <2>2, RegisterSelectionType
    <3> HIDE DEF f1, f2
    <3>2. /\ f2.refcnt = f1.refcnt /\ f2.registered = f1.registered /\ f2.open = f1.open
          /\ f2.components = f1.components /\ f2.opened = f1.opened
          /\ f2.validVars = f1.validVars
      BY <3>1 DEF Framework_t
    <3> QED
      BY <3>1, <3>2, <2>2 DEF Keeps, Consistent, InMemory
  <2>5. \/ r = [rc |-> "SUCCESS", fw |-> f3, ri |-> items]
        \/ r = [rc |-> "REGISTER_FAILED", fw |-> f1, ri |-> items]
        \/ r = [rc |-> "REGISTER_FAILED", fw |-> f2, ri |-> items]
        \/ \E broken \in Failing("dlopen", Dynamic),
              failing \in Failing("comp_register", Components),
              partial \in Failing("comp_register", Components) :
             r = ComponentsRegister(f2, items, all, broken, failing, partial)
    BY <1>3 DEF RegisterResults
  <2> HIDE DEF f, f1, f2, f3
  <2>6. CASE r = [rc |-> "SUCCESS", fw |-> f3, ri |-> items]
    BY <2>6, <2>3, <1>3 DEF Result_t, RC
  <2>7. CASE r = [rc |-> "REGISTER_FAILED", fw |-> f1, ri |-> items]
    BY <2>7, <2>2, <1>3 DEF Result_t, RC
  <2>8. CASE r = [rc |-> "REGISTER_FAILED", fw |-> f2, ri |-> items]
    BY <2>8, <2>4, <1>3 DEF Result_t, RC
  <2>9. ASSUME NEW broken \in Failing("dlopen", Dynamic),
               NEW failing \in Failing("comp_register", Components),
               NEW partial \in Failing("comp_register", Components),
               r = ComponentsRegister(f2, items, all, broken, failing, partial)
        PROVE  /\ r \in Result_t
               /\ r.fw.refcnt = f0.refcnt + 1
               /\ r.fw.open = f0.open
               /\ r.rc \in {"SUCCESS", "REGISTER_FAILED"}
               /\ r.rc = "SUCCESS" => r.fw.registered
               /\ Keeps(f0, items, r.fw, r.ri)
    <3>1. failing \in SUBSET Components /\ partial \in SUBSET Components
      BY FailingType
    <3>2. ~f2.registered
      BY <2>4, <1>3
    <3>3. /\ r \in Result_t
          /\ r.fw.refcnt = f2.refcnt
          /\ r.fw.open = f2.open
          /\ r.rc \in {"SUCCESS", "REGISTER_FAILED"}
          /\ r.fw.registered = (r.rc = "SUCCESS")
      BY <2>9, <3>1, <3>2, <2>4, ComponentsRegisterResult
    <3>4. Keeps(f0, items, r.fw, r.ri)
      <4>1. Consistent(f2)
        BY <2>4 DEF Keeps
      <4>2. Keeps(f2, items, r.fw, r.ri)
        BY <2>9, <3>1, <3>2, <2>4, <4>1, ComponentsRegisterKeeps
      <4> QED
        BY <4>2, <2>4, KeepsTransitive
    <3> QED
      BY <3>3, <3>4, <2>4
  <2> QED
    BY <1>3, <2>5, <2>6, <2>7, <2>8, <2>9
<1> QED
  BY <1>2, <1>3 DEF Framework_t

(***************************************************************************)
(* Opening a registered framework succeeds and opens it, or fails, takes   *)
(* the reference back and leaves it registered.                            *)
(***************************************************************************)
LEMMA OpenRegisteredResult ==
  ASSUME NEW f0 \in Framework_t, NEW items \in Items_t, kind \in Kinds,
         Consistent(f0), f0.registered, ~f0.open,
         NEW r \in OpenRegistered(f0, items)
  PROVE  /\ r \in Result_t
         /\ r.fw.registered
         /\ \/ r.rc = "SUCCESS" /\ r.fw.open /\ r.fw.refcnt = f0.refcnt
            \/ r.rc = "OPEN_FAILED" /\ ~r.fw.open /\ r.fw.refcnt = f0.refcnt - 1
         /\ Keeps(f0, items, r.fw, r.ri)
<1> DEFINE found  == [f0 EXCEPT !.components = @ \cup Find(items, Everything, {})]
           locked == [f0 EXCEPT !.selvar = "locked"]
           good   == [locked EXCEPT !.open = TRUE]
           bad    == [locked EXCEPT !.refcnt = @ - 1]
<1>1. kind \in {"default", "own", "noregister"}
  BY KindAssumption DEF FrameworkKinds
<1>2. ASSUME NEW f \in Framework_t, f.registered, ~f.open, f.refcnt = f0.refcnt,
             Keeps(f0, items, f, items), kind # "own",
             NEW failing \in Failing("comp_open", Components),
             r = ComponentsOpen(f, items, failing)
      PROVE  /\ r \in Result_t
             /\ r.fw.registered
             /\ \/ r.rc = "SUCCESS" /\ r.fw.open /\ r.fw.refcnt = f0.refcnt
                \/ r.rc = "OPEN_FAILED" /\ ~r.fw.open /\ r.fw.refcnt = f0.refcnt - 1
             /\ Keeps(f0, items, r.fw, r.ri)
  <2>1. failing \in SUBSET Components
    BY FailingType
  <2>2. /\ r \in Result_t
        /\ r.fw.registered
        /\ \/ r.rc = "SUCCESS" /\ r.fw.open /\ r.fw.refcnt = f.refcnt
           \/ r.rc = "OPEN_FAILED" /\ ~r.fw.open /\ r.fw.refcnt = f.refcnt - 1
    BY <1>2, <2>1, ComponentsOpenResult
  <2>3. Keeps(f0, items, r.fw, r.ri)
    <3>1. Consistent(f)
      BY <1>2 DEF Keeps
    <3>2. Keeps(f, items, r.fw, r.ri)
      BY <1>2, <2>1, <3>1, ComponentsOpenKeeps
    <3> QED
      BY <3>2, <1>2, KeepsTransitive
  <2> QED
    BY <1>2, <2>2, <2>3
<1>3. CASE kind = "noregister"
  <2>1. \E failing \in Failing("comp_open", Components) :
          r = ComponentsOpen(found, items, failing)
    BY <1>3 DEF OpenRegistered
  <2>2. Find(items, Everything, {}) \subseteq Components
        /\ Find(items, Everything, {}) \subseteq Loaded(items)
    BY <1>3, FindType DEF Find, Loaded
  <2>3. found \in Framework_t /\ found.registered /\ ~found.open
        /\ found.refcnt = f0.refcnt /\ Keeps(f0, items, found, items)
    BY <2>2, <1>3 DEF Framework_t, Keeps, Consistent, InMemory
  <2> HIDE DEF found
  <2> QED
    BY <2>1, <2>3, <1>2, <1>3
<1>4. locked \in Framework_t /\ locked.registered /\ ~locked.open
      /\ locked.refcnt = f0.refcnt /\ Keeps(f0, items, locked, items)
  BY DEF Framework_t, Keeps, Consistent, InMemory
<1>5. CASE kind = "default"
  <2>1. \E failing \in Failing("comp_open", Components) :
          r = ComponentsOpen(locked, items, failing)
    BY <1>5 DEF OpenRegistered
  <2> HIDE DEF locked
  <2> QED
    BY <2>1, <1>4, <1>2, <1>5
<1>6. CASE kind = "own"
  <2>1. \/ r = [rc |-> "SUCCESS", fw |-> good, ri |-> items]
        \/ r = [rc |-> "OPEN_FAILED", fw |-> bad, ri |-> items]
    BY <1>6 DEF OpenRegistered
  <2> HIDE DEF locked
  <2>2. good \in Framework_t /\ good.registered /\ good.open
        /\ good.refcnt = f0.refcnt /\ Keeps(f0, items, good, items)
    BY <1>4, <1>6 DEF Framework_t, Keeps, Consistent, InMemory
  <2>3. bad \in Framework_t /\ bad.registered /\ ~bad.open
        /\ bad.refcnt = f0.refcnt - 1 /\ Keeps(f0, items, bad, items)
    BY <1>4, <1>6 DEF Framework_t, Keeps, Consistent, InMemory
  <2> HIDE DEF good, bad
  <2> QED
    BY <2>1, <2>2, <2>3 DEF Result_t, RC
<1> QED
  BY <1>1, <1>3, <1>5, <1>6

LEMMA OpenResult ==
  ASSUME NEW f0 \in Framework_t, NEW items \in Items_t,
         kind \in Kinds, env \in Selections, Consistent(f0),
         NEW r \in OpenResults(f0, items)
  PROVE  /\ r \in Result_t
         /\ \/ /\ r.rc = "SUCCESS" /\ r.fw.refcnt = f0.refcnt + 1
               /\ r.fw.registered /\ r.fw.open
            \/ /\ r.rc = "REGISTER_FAILED" /\ r.fw.refcnt = f0.refcnt + 1
               /\ ~f0.registered /\ ~f0.open
            \/ /\ r.rc = "OPEN_FAILED" /\ r.fw.refcnt = f0.refcnt
               /\ r.fw.registered /\ ~r.fw.open /\ ~f0.open
         /\ Keeps(f0, items, r.fw, r.ri)
<1>1. PICK q \in RegisterResults(f0, items, FALSE) :
        r \in IF q.rc = "SUCCESS" /\ ~q.fw.open THEN OpenRegistered(q.fw, q.ri) ELSE {q}
  BY DEF OpenResults
<1>2. /\ q \in Result_t
      /\ q.fw.refcnt = f0.refcnt + 1
      /\ q.fw.open = f0.open
      /\ q.rc \in {"SUCCESS", "REGISTER_FAILED"}
      /\ q.rc = "SUCCESS" => q.fw.registered
      /\ f0.registered => q.fw.registered /\ q.rc = "SUCCESS"
      /\ Keeps(f0, items, q.fw, q.ri)
  BY RegisterResult
<1>3. q.fw \in Framework_t /\ q.ri \in Items_t /\ f0.refcnt \in Int
  BY <1>2 DEF Result_t, Framework_t
<1>4. CASE q.rc = "SUCCESS" /\ ~q.fw.open
  <2>1. r \in OpenRegistered(q.fw, q.ri)
    BY <1>1, <1>4
  <2>2. /\ r \in Result_t
        /\ r.fw.registered
        /\ \/ r.rc = "SUCCESS" /\ r.fw.open /\ r.fw.refcnt = q.fw.refcnt
           \/ r.rc = "OPEN_FAILED" /\ ~r.fw.open /\ r.fw.refcnt = q.fw.refcnt - 1
        /\ Keeps(f0, items, r.fw, r.ri)
    <3>1. Consistent(q.fw)
      BY <1>2 DEF Keeps
    <3>2. /\ r \in Result_t
          /\ r.fw.registered
          /\ \/ r.rc = "SUCCESS" /\ r.fw.open /\ r.fw.refcnt = q.fw.refcnt
             \/ r.rc = "OPEN_FAILED" /\ ~r.fw.open /\ r.fw.refcnt = q.fw.refcnt - 1
          /\ Keeps(q.fw, q.ri, r.fw, r.ri)
      BY <1>2, <1>3, <1>4, <2>1, <3>1, OpenRegisteredResult
    <3> QED
      BY <3>2, <1>2, KeepsTransitive
  <2> QED
    BY <2>2, <1>2, <1>3, <1>4
<1>5. CASE ~(q.rc = "SUCCESS" /\ ~q.fw.open)
  <2>1. r = q
    BY <1>1, <1>5
  <2>2. CASE q.rc = "SUCCESS"
    BY <2>1, <2>2, <1>2, <1>5
  <2>3. CASE q.rc = "REGISTER_FAILED"
    BY <2>1, <2>3, <1>2 DEF Keeps, Consistent, InMemory
  <2> QED
    BY <1>2, <2>2, <2>3
<1> QED
  BY <1>4, <1>5

(***************************************************************************)
(* Every result of closing a registered framework has given one reference  *)
(* back, and as long as it was not the last the framework is as before.    *)
(***************************************************************************)
LEMMA CloseResult ==
  ASSUME NEW f0 \in Framework_t, NEW items \in Items_t, Consistent(f0),
         f0.registered, NEW r \in CloseResults(f0, items)
  PROVE  /\ r \in Result_t
         /\ r.fw.refcnt = f0.refcnt - 1
         /\ f0.refcnt # 1 => r.fw.registered /\ r.fw.open = f0.open
         /\ Keeps(f0, items, r.fw, r.ri)
<1> DEFINE f      == [f0 EXCEPT !.refcnt = @ - 1]
           f1     == [f EXCEPT !.validVars = {}]
           closed == [f1 EXCEPT !.registered = FALSE, !.open = FALSE,
                                !.components = {}, !.opened = {}]
           ri1    == ReleasePlugins(items, f0.components)
<1>1. \/ r = [rc |-> "SUCCESS", fw |-> f, ri |-> items] /\ f.refcnt # 0
      \/ r = [rc |-> "SUCCESS", fw |-> closed, ri |-> items] /\ f.refcnt = 0
      \/ r = [rc |-> "CLOSE_FAILED", fw |-> f1, ri |-> items] /\ f.refcnt = 0
      \/ r = [rc |-> "SUCCESS", fw |-> closed, ri |-> ri1] /\ f.refcnt = 0
  BY DEF CloseResults
<1>2. f \in Framework_t /\ f.refcnt = f0.refcnt - 1 /\ f.registered
      /\ f.open = f0.open /\ Keeps(f0, items, f, items)
  BY DEF Framework_t, Keeps, Consistent, InMemory
<1> HIDE DEF f
<1>3. f1 \in Framework_t /\ f1.refcnt = f0.refcnt - 1 /\ f1.registered
      /\ f1.open = f0.open /\ Keeps(f0, items, f1, items)
  BY <1>2 DEF Framework_t, Keeps, Consistent, InMemory
<1> HIDE DEF f1
<1>4. closed \in Framework_t /\ closed.refcnt = f0.refcnt - 1
      /\ Keeps(f0, items, closed, items) /\ Keeps(f0, items, closed, ri1)
  <2>1. closed \in Framework_t /\ closed.refcnt = f1.refcnt
    BY <1>3 DEF Framework_t
  <2>2. ~closed.open /\ closed.components = {} /\ closed.opened = {}
        /\ closed.validVars = f1.validVars
    BY <1>3 DEF Framework_t
  <2>3. f1.validVars = {}
    BY <1>2 DEF f1, Framework_t
  <2> HIDE DEF closed, ri1
  <2> QED
    BY <2>1, <2>2, <2>3, <1>3 DEF Keeps, Consistent, InMemory
<1>5. ri1 \in Items_t
  BY ReleasePluginsType
<1>6. f0.refcnt \in Int
  BY DEF Framework_t
<1> HIDE DEF closed, ri1
<1> QED
  BY <1>1, <1>2, <1>3, <1>4, <1>5, <1>6 DEF Result_t, RC
-----------------------------------------------------------------------------
(***************************************************************************)
(* The inductive invariant.  RefcntExact is not inductive alone: that the  *)
(* close of the last reference is a holder's last close needs HeldIsOpen,  *)
(* and that needs the flags to agree.                                      *)
(***************************************************************************)
IInv == TypeOK /\ RefcntExact /\ HeldIsOpen /\ Consistent(fw)

LEMMA InitIInv == Init => IInv
<1> SUFFICES ASSUME Init PROVE IInv
  OBVIOUS
<1>1. TypeOK
  BY SelectionAssumption DEF Init, TypeOK, Framework_t, RepositoryItem_t
<1>2. RefcntExact /\ HeldIsOpen /\ Consistent(fw)
  BY DEF Init, RefcntExact, HeldIsOpen, Consistent, Users
<1> QED
  BY <1>1, <1>2 DEF IInv

LEMMA RegisterIInv ==
  ASSUME IInv, NEW all \in BOOLEAN, Register(all)
  PROVE  IInv'
<1>1. PICK r \in RegisterResults(fw, ri, all) :
        /\ fw' = r.fw /\ ri' = r.ri
        /\ users' = [users EXCEPT !["registers"] = IF r.rc = "SUCCESS" THEN @ + 1 ELSE @]
        /\ leaked' = IF r.rc = "REGISTER_FAILED" THEN leaked + 1 ELSE leaked
  BY DEF Register, Call
<1>2. fw \in Framework_t /\ ri \in Items_t /\ env \in Selections /\ Consistent(fw)
  BY DEF IInv, TypeOK, Items_t
<1>3. /\ r \in Result_t
      /\ r.fw.refcnt = fw.refcnt + 1
      /\ r.fw.open = fw.open
      /\ r.rc \in {"SUCCESS", "REGISTER_FAILED"}
      /\ r.rc = "SUCCESS" => r.fw.registered
      /\ fw.registered => r.fw.registered /\ r.rc = "SUCCESS"
      /\ Keeps(fw, ri, r.fw, r.ri)
  BY <1>2, RegisterResult
<1>4. kind' = kind /\ env' = env /\ retained' = retained
  BY DEF Register, Call
<1>5. TypeOK'
  BY <1>1, <1>3, <1>4 DEF IInv, TypeOK, Result_t, Items_t
<1>6. users \in [registers : Nat, opens : Nat] /\ leaked \in Nat /\ fw.refcnt \in Int
  BY <1>2 DEF IInv, TypeOK, Framework_t
<1>7. RefcntExact' /\ HeldIsOpen'
  BY <1>1, <1>3, <1>6 DEF IInv, RefcntExact, HeldIsOpen, Users
<1>8. Consistent(fw)'
  BY <1>1, <1>3, <1>4 DEF Keeps, Consistent
<1> QED
  BY <1>5, <1>7, <1>8 DEF IInv

LEMMA OpenIInv ==
  ASSUME IInv, Open
  PROVE  IInv'
<1>1. PICK r \in OpenResults(fw, ri) :
        /\ fw' = r.fw /\ ri' = r.ri
        /\ users' = [users EXCEPT !["opens"] = IF r.rc = "SUCCESS" THEN @ + 1 ELSE @]
        /\ leaked' = IF r.rc = "REGISTER_FAILED" THEN leaked + 1 ELSE leaked
  BY DEF Open, Call
<1>2. fw \in Framework_t /\ ri \in Items_t /\ kind \in Kinds /\ env \in Selections
      /\ Consistent(fw)
  BY DEF IInv, TypeOK, Items_t
<1>3. /\ r \in Result_t
      /\ \/ /\ r.rc = "SUCCESS" /\ r.fw.refcnt = fw.refcnt + 1
            /\ r.fw.registered /\ r.fw.open
         \/ /\ r.rc = "REGISTER_FAILED" /\ r.fw.refcnt = fw.refcnt + 1
            /\ ~fw.registered /\ ~fw.open
         \/ /\ r.rc = "OPEN_FAILED" /\ r.fw.refcnt = fw.refcnt
            /\ r.fw.registered /\ ~fw.open
      /\ Keeps(fw, ri, r.fw, r.ri)
  BY <1>2, OpenResult
<1>4. kind' = kind /\ env' = env /\ retained' = retained
  BY DEF Open, Call
<1>5. TypeOK'
  BY <1>1, <1>3, <1>4 DEF IInv, TypeOK, Result_t, Items_t
<1>6. users \in [registers : Nat, opens : Nat] /\ leaked \in Nat /\ fw.refcnt \in Int
  BY <1>2 DEF IInv, TypeOK, Framework_t
<1>7. RefcntExact' /\ HeldIsOpen'
  BY <1>1, <1>3, <1>6 DEF IInv, RefcntExact, HeldIsOpen, Users
<1>8. Consistent(fw)'
  BY <1>1, <1>3, <1>4 DEF Keeps, Consistent
<1> QED
  BY <1>5, <1>7, <1>8 DEF IInv

LEMMA CloseIInv ==
  ASSUME IInv, NEW call \in {"registers", "opens"}, Close(call)
  PROVE  IInv'
<1>1. users \in [registers : Nat, opens : Nat] /\ leaked \in Nat /\ fw.refcnt \in Int
  BY DEF IInv, TypeOK, Framework_t
<1>2. Users > 0 /\ users[call] > 0
  BY <1>1 DEF Close, Users
<1>3. fw \in Framework_t /\ ri \in Items_t /\ fw.registered /\ Consistent(fw)
  BY <1>2 DEF IInv, TypeOK, HeldIsOpen, Items_t
<1>4. PICK r \in CloseResults(fw, ri) : fw' = r.fw /\ ri' = r.ri
  BY DEF Close
<1>5. /\ r \in Result_t
      /\ r.fw.refcnt = fw.refcnt - 1
      /\ fw.refcnt # 1 => r.fw.registered /\ r.fw.open = fw.open
      /\ Keeps(fw, ri, r.fw, r.ri)
  BY <1>3, CloseResult
<1>6. /\ kind' = kind /\ env' = env /\ retained' = retained /\ leaked' = leaked
      /\ users' = [users EXCEPT ![call] = @ - 1]
  BY DEF Close
<1>7. users' \in [registers : Nat, opens : Nat] /\ Users' = Users - 1
  BY <1>1, <1>2, <1>6 DEF Users
<1>8. TypeOK'
  BY <1>4, <1>5, <1>6, <1>7 DEF IInv, TypeOK, Result_t, Items_t
<1>9. RefcntExact'
  BY <1>1, <1>4, <1>5, <1>6, <1>7 DEF IInv, RefcntExact, Users
<1>10. HeldIsOpen'
  <2>1. CASE fw.refcnt = 1
    <3>1. Users' = 0 /\ users'.opens = 0
      BY <2>1, <1>1, <1>2, <1>7 DEF IInv, RefcntExact, Users
    <3> QED
      BY <3>1 DEF HeldIsOpen, Users
  <2>2. CASE fw.refcnt # 1
    <3>1. fw'.registered /\ fw'.open = fw.open
      BY <2>2, <1>4, <1>5
    <3>2. users'.opens > 0 => users.opens > 0
      BY <1>1, <1>6
    <3> QED
      BY <3>1, <3>2 DEF IInv, HeldIsOpen
  <2> QED
    BY <2>1, <2>2
<1>11. Consistent(fw)'
  BY <1>4, <1>5, <1>6 DEF Keeps, Consistent
<1> QED
  BY <1>8, <1>9, <1>10, <1>11 DEF IInv

LEMMA NextIInv == IInv /\ [Next]_vars => IInv'
<1> SUFFICES ASSUME IInv, [Next]_vars PROVE IInv'
  OBVIOUS
<1>1. ASSUME NEW all \in BOOLEAN, Register(all) PROVE IInv'
  BY <1>1, RegisterIInv
<1>2. CASE Open
  BY <1>2, OpenIInv
<1>3. ASSUME NEW call \in {"registers", "opens"}, Close(call) PROVE IInv'
  BY <1>3, CloseIInv
<1>4. ASSUME NEW kept, Select(kept) PROVE IInv'
  <2> DEFINE gone == fw.components \ kept
  <2>1. fw' = Unload(fw, gone) /\ ri' = ReleasePlugins(ri, gone)
        /\ kind' = kind /\ env' = env /\ users' = users /\ leaked' = leaked
        /\ retained' = retained
    BY <1>4 DEF Select
  <2>2. fw \in Framework_t /\ ri \in Items_t
    BY DEF IInv, TypeOK, Items_t
  <2>3. fw' \in Framework_t /\ ri' \in Items_t
    BY <2>1, <2>2, UnloadType, ReleasePluginsType
  <2>4. fw'.refcnt = fw.refcnt /\ fw'.registered = fw.registered /\ fw'.open = fw.open
    BY <2>1, <2>2 DEF Unload, Framework_t
  <2>5. Keeps(fw, ri, fw', ri')
    BY <2>1, <2>2, UnloadKeeps DEF IInv
  <2> HIDE DEF gone
  <2>6. TypeOK' /\ RefcntExact' /\ HeldIsOpen'
    BY <2>1, <2>3, <2>4 DEF IInv, TypeOK, RefcntExact, HeldIsOpen, Users, Items_t
  <2>7. Consistent(fw)'
    BY <2>1, <2>5 DEF Keeps, Consistent
  <2> QED
    BY <2>6, <2>7 DEF IInv
<1>5. ASSUME NEW sel \in Selections, SetSelection(sel) PROVE IInv'
  <2>1. fw' = [fw EXCEPT !.selection = sel]
        /\ UNCHANGED <<kind, env, ri, users, leaked, retained>>
    BY <1>5 DEF SetSelection
  <2> QED
    BY <2>1 DEF IInv, TypeOK, Framework_t, RefcntExact, HeldIsOpen, Users, Consistent
<1>6. ASSUME NEW c \in Dynamic, Retain(c) PROVE IInv'
  <2>1. /\ ri' = [ri EXCEPT ![c].refcnt = @ + 1]
        /\ retained' = [retained EXCEPT ![c] = @ + 1]
        /\ UNCHANGED <<kind, env, fw, users, leaked>>
    BY <1>6 DEF Retain
  <2>2. TypeOK'
    BY <2>1 DEF IInv, TypeOK, RepositoryItem_t
  <2> QED
    BY <2>1, <2>2 DEF IInv, RefcntExact, HeldIsOpen, Users, Consistent
<1>7. ASSUME NEW c \in Dynamic, Release(c) PROVE IInv'
  <2>1. /\ ri' = ReleasePlugins(ri, {c}) /\ retained[c] > 0
        /\ retained' = [retained EXCEPT ![c] = @ - 1]
        /\ UNCHANGED <<kind, env, fw, users, leaked>>
    BY <1>7 DEF Release
  <2>2. ri' \in Items_t
    BY <2>1, ReleasePluginsType DEF IInv, TypeOK, Items_t
  <2>3. retained' \in [Dynamic -> Nat]
    BY <2>1 DEF IInv, TypeOK
  <2>4. TypeOK'
    BY <2>1, <2>2, <2>3 DEF IInv, TypeOK, Items_t
  <2> QED
    BY <2>1, <2>4 DEF IInv, RefcntExact, HeldIsOpen, Users, Consistent
<1>8. CASE UNCHANGED vars
  BY <1>8 DEF vars, IInv, TypeOK, RefcntExact, HeldIsOpen, Users, Consistent
<1> QED
  BY <1>1, <1>2, <1>3, <1>4, <1>5, <1>6, <1>7, <1>8 DEF Next

LEMMA InductiveInvariant == Spec => []IInv
BY InitIInv, NextIInv, PTL DEF Spec

(***************************************************************************)
(* The state keeps its type over every sequence of calls, failures,        *)
(* selections, retains and releases.                                       *)
(***************************************************************************)
THEOREM TypeCorrect == Spec => []TypeOK
<1>1. IInv => TypeOK
  BY DEF IInv
<1> QED
  BY <1>1, InductiveInvariant, PTL

(***************************************************************************)
(* The reference count is exact (mca_base_framework.c:63, 181, 201), for   *)
(* any number of callers and any failures.                                 *)
(***************************************************************************)
THEOREM CountExact == Spec => []RefcntExact
<1>1. IInv => RefcntExact
  BY DEF IInv
<1> QED
  BY <1>1, InductiveInvariant, PTL

(***************************************************************************)
(* A holder of the framework always finds it registered, and open if it    *)
(* opened it, whatever the other callers do.                               *)
(***************************************************************************)
THEOREM HoldersKeepFramework == Spec => []HeldIsOpen
<1>1. IInv => HeldIsOpen
  BY DEF IInv
<1> QED
  BY <1>1, InductiveInvariant, PTL

(***************************************************************************)
(* Component open and close callbacks are paired: the open components are  *)
(* those of the open framework.                                            *)
(***************************************************************************)
THEOREM ComponentsPaired == Spec => []OpenedComponents
<1>1. IInv => OpenedComponents
  BY DEF IInv, Consistent, OpenedComponents
<1> QED
  BY <1>1, InductiveInvariant, PTL
-----------------------------------------------------------------------------
(***************************************************************************)
(* Without clients that retain plugins, nothing the framework lists and no *)
(* valid variable is ever in a plugin that has been closed, whatever fails.*)
(* (With them it may be: see RetainedStaysLoaded.)                         *)
(***************************************************************************)
MemoryInv == IInv /\ InMemory(fw, ri) /\ \A c \in Dynamic : retained[c] = 0

LEMMA NextMemoryInv ==
  ASSUME MaxRetained = 0
  PROVE  MemoryInv /\ [Next]_vars => MemoryInv'
<1> SUFFICES ASSUME MemoryInv, [Next]_vars PROVE MemoryInv'
  OBVIOUS
<1>1. IInv'
  BY NextIInv DEF MemoryInv
<1>2. fw \in Framework_t /\ ri \in Items_t /\ kind \in Kinds /\ env \in Selections
      /\ Consistent(fw)
  BY DEF MemoryInv, IInv, TypeOK, Items_t
<1>3. ASSUME Keeps(fw, ri, fw', ri'), retained' = retained PROVE MemoryInv'
  BY <1>1, <1>3 DEF MemoryInv, Keeps, InMemory, Loaded
<1>4. ASSUME NEW all \in BOOLEAN, Register(all) PROVE MemoryInv'
  <2>1. PICK r \in RegisterResults(fw, ri, all) : fw' = r.fw /\ ri' = r.ri
    BY <1>4 DEF Register, Call
  <2>2. Keeps(fw, ri, r.fw, r.ri)
    BY <1>2, RegisterResult
  <2> QED
    BY <1>3, <1>4, <2>1, <2>2 DEF Register, Call
<1>5. CASE Open
  <2>1. PICK r \in OpenResults(fw, ri) : fw' = r.fw /\ ri' = r.ri
    BY <1>5 DEF Open, Call
  <2>2. Keeps(fw, ri, r.fw, r.ri)
    BY <1>2, OpenResult
  <2> QED
    BY <1>3, <1>5, <2>1, <2>2 DEF Open, Call
<1>6. ASSUME NEW call \in {"registers", "opens"}, Close(call) PROVE MemoryInv'
  <2>1. PICK r \in CloseResults(fw, ri) : fw' = r.fw /\ ri' = r.ri
    BY <1>6 DEF Close
  <2>2. fw.registered
    <3>1. Users > 0
      BY <1>6 DEF Close, Users, MemoryInv, IInv, TypeOK
    <3> QED
      BY <3>1 DEF MemoryInv, IInv, HeldIsOpen
  <2>3. Keeps(fw, ri, r.fw, r.ri)
    BY <1>2, <2>2, CloseResult
  <2> QED
    BY <1>3, <1>6, <2>1, <2>3 DEF Close
<1>7. ASSUME NEW kept, Select(kept) PROVE MemoryInv'
  <2>1. Keeps(fw, ri, fw', ri')
    BY <1>2, <1>7, UnloadKeeps DEF Select
  <2> QED
    BY <1>3, <1>7, <2>1 DEF Select
<1>8. ASSUME NEW sel \in Selections, SetSelection(sel) PROVE MemoryInv'
  <2>1. Keeps(fw, ri, fw', ri')
    BY <1>2, <1>8 DEF SetSelection, Framework_t, Keeps, Consistent, InMemory
  <2> QED
    BY <1>3, <1>8, <2>1 DEF SetSelection
<1>9. ASSUME NEW c \in Dynamic, Retain(c) \/ Release(c) PROVE MemoryInv'
  BY <1>9 DEF Retain, Release, MemoryInv
<1>10. CASE UNCHANGED vars
  BY <1>1, <1>10 DEF vars, MemoryInv, InMemory, Loaded
<1> QED
  BY <1>4, <1>5, <1>6, <1>7, <1>8, <1>9, <1>10 DEF Next

(***************************************************************************)
(* The list never points into a plugin that has been closed.               *)
(***************************************************************************)
THEOREM NothingDangles ==
  ASSUME MaxRetained = 0
  PROVE  Spec => []NoDanglingComponent
<1>1. Init => MemoryInv
  BY InitIInv DEF Init, MemoryInv, InMemory
<1>2. MemoryInv /\ [Next]_vars => MemoryInv'
  BY NextMemoryInv
<1>3. MemoryInv => NoDanglingComponent
  BY DEF MemoryInv, InMemory, NoDanglingComponent
<1> QED
  BY <1>1, <1>2, <1>3, PTL DEF Spec

(***************************************************************************)
(* Variables are deregistered before the plugin that stores them is closed.*)
(***************************************************************************)
THEOREM NothingStale ==
  ASSUME MaxRetained = 0
  PROVE  Spec => []NoStaleVariable
<1>1. Init => MemoryInv
  BY InitIInv DEF Init, MemoryInv, InMemory
<1>2. MemoryInv /\ [Next]_vars => MemoryInv'
  BY NextMemoryInv
<1>3. MemoryInv => NoStaleVariable
  BY DEF MemoryInv, InMemory, NoStaleVariable
<1> QED
  BY <1>1, <1>2, <1>3, PTL DEF Spec
-----------------------------------------------------------------------------
(***************************************************************************)
(* The framework implements the counted resource if registrations do not   *)
(* fail: no failing callback or plugin, and no selection that requests a   *)
(* component that does not exist.  Components and opens may still fail.    *)
(***************************************************************************)
RegistrationsSucceed ==
  /\ MayFail \cap {"variables", "cb_register", "dlopen", "cb_close"} = {}
  /\ \A sel \in Selections : sel.include => sel.names \subseteq Components

LEMMA RegisterSucceeds ==
  ASSUME RegistrationsSucceed, env \in Selections,
         NEW f0 \in Framework_t, NEW items \in Items_t, NEW all \in BOOLEAN,
         NEW r \in RegisterResults(f0, items, all)
  PROVE  r.rc = "SUCCESS"
<1> DEFINE f  == [f0 EXCEPT !.refcnt = @ + 1]
           f1 == [f EXCEPT !.components = {}]
           f2 == RegisterSelection(f1)
<1>1. CASE f0.registered \/ kind = "noregister"
  BY <1>1 DEF RegisterResults
<1>2. CASE ~f0.registered /\ kind # "noregister"
  <2>1. MayFail \cap {"variables"} = {} /\ MayFail \cap {"cb_register"} = {}
        /\ Failing("dlopen", Dynamic) = {{}}
    BY DEF RegistrationsSucceed, Failing
  <2>2. \/ r = [rc |-> "REGISTER_FAILED", fw |-> f1, ri |-> items]
             /\ MayFail \cap {"variables"} # {}
        \/ r = [rc |-> "REGISTER_FAILED", fw |-> f2, ri |-> items]
             /\ MayFail \cap {"cb_register"} # {}
        \/ \E broken \in Failing("dlopen", Dynamic) : \E failing, partial :
             r = ComponentsRegister(f2, items, all, broken, failing, partial)
    BY <1>2 DEF RegisterResults
  <2>3. PICK failing, partial :
          r = ComponentsRegister(f2, items, all, {}, failing, partial)
    BY <2>1, <2>2
  <2> DEFINE sel   == IF all THEN Everything ELSE f2.selection
             found == Find(items, sel, {})
  <2>4. sel \in Selections
    <3>1. f \in Framework_t
      BY DEF Framework_t
    <3> HIDE DEF f
    <3>2. f1 \in Framework_t
      BY <3>1 DEF Framework_t
    <3> HIDE DEF f1
    <3>3. f2 \in Framework_t
      BY <3>2, RegisterSelectionType
    <3> HIDE DEF f2
    <3> QED
      BY <3>3, SelectionAssumption DEF Framework_t
  <2> HIDE DEF sel, f2
  <2>5. found = Usable(sel)
    BY <1>2 DEF Find, Usable, Components
  <2>6. AllFound(sel, found)
    BY <2>4, <2>5 DEF AllFound, Usable, RegistrationsSucceed
  <2> QED
    BY <2>3, <2>6 DEF ComponentsRegister, sel
<1> QED
  BY <1>1, <1>2

LEMMA OpenRegisters ==
  ASSUME RegistrationsSucceed, kind \in Kinds, env \in Selections,
         NEW f0 \in Framework_t, NEW items \in Items_t, Consistent(f0),
         NEW r \in OpenResults(f0, items)
  PROVE  r.rc # "REGISTER_FAILED"
<1>1. PICK q \in RegisterResults(f0, items, FALSE) :
        r \in IF q.rc = "SUCCESS" /\ ~q.fw.open THEN OpenRegistered(q.fw, q.ri) ELSE {q}
  BY DEF OpenResults
<1>2. q.rc = "SUCCESS"
  BY RegisterSucceeds
<1>3. q \in Result_t /\ q.fw.registered /\ Keeps(f0, items, q.fw, q.ri)
  BY <1>2, RegisterResult
<1>4. CASE q.fw.open
  BY <1>1, <1>2, <1>4
<1>5. CASE ~q.fw.open
  <2>1. q.fw \in Framework_t /\ q.ri \in Items_t /\ Consistent(q.fw)
    BY <1>3 DEF Result_t, Keeps
  <2>2. r \in OpenRegistered(q.fw, q.ri)
    BY <1>1, <1>2, <1>5
  <2>3. r.rc = "SUCCESS" \/ r.rc = "OPEN_FAILED"
    BY <2>1, <2>2, <1>3, <1>5, OpenRegisteredResult
  <2> QED
    BY <2>3
<1> QED
  BY <1>4, <1>5

LEMMA LastCloseCloses ==
  ASSUME RegistrationsSucceed,
         NEW f0 \in Framework_t, NEW items, f0.registered, f0.refcnt = 1,
         NEW r \in CloseResults(f0, items)
  PROVE  ~r.fw.registered /\ ~r.fw.open
<1>1. MayFail \cap {"cb_close"} = {}
  BY DEF RegistrationsSucceed
<1> DEFINE f      == [f0 EXCEPT !.refcnt = @ - 1]
           f1     == [f EXCEPT !.validVars = {}]
           closed == [f1 EXCEPT !.registered = FALSE, !.open = FALSE,
                                !.components = {}, !.opened = {}]
<1>2. f \in Framework_t /\ f.refcnt = 0
  BY DEF Framework_t
<1>3. r.fw = closed
  BY <1>1, <1>2 DEF CloseResults
<1> HIDE DEF f
<1>4. f1 \in Framework_t
  BY <1>2 DEF Framework_t
<1> HIDE DEF f1
<1>5. ~closed.registered /\ ~closed.open
  BY <1>4 DEF Framework_t
<1> QED
  BY <1>3, <1>5

ServiceInv == IInv /\ leaked = 0

LEMMA NextServiceInv ==
  ASSUME RegistrationsSucceed
  PROVE  ServiceInv /\ [Next]_vars => ServiceInv' /\ [Service!Next]_(Service!vars)
<1> SUFFICES ASSUME ServiceInv, [Next]_vars
             PROVE  ServiceInv' /\ [Service!Next]_(Service!vars)
  OBVIOUS
<1>1. IInv'
  BY NextIInv DEF ServiceInv
<1>2. fw \in Framework_t /\ ri \in Items_t /\ kind \in Kinds /\ env \in Selections
      /\ Consistent(fw)
  BY DEF ServiceInv, IInv, TypeOK, Items_t
<1>3. users \in [registers : Nat, opens : Nat] /\ fw.refcnt = Users /\ fw.refcnt \in Int
  BY <1>2 DEF ServiceInv, IInv, TypeOK, RefcntExact, Framework_t, Users
<1>4. ASSUME leaked' = leaked, UNCHANGED <<users, fw>>
      PROVE  ServiceInv' /\ [Service!Next]_(Service!vars)
  BY <1>1, <1>4 DEF ServiceInv, Service!vars, Users, State
<1>5. ASSUME NEW all \in BOOLEAN, Register(all)
      PROVE  ServiceInv' /\ [Service!Next]_(Service!vars)
  <2>1. PICK r \in RegisterResults(fw, ri, all) :
          /\ fw' = r.fw /\ ri' = r.ri
          /\ users' = [users EXCEPT !["registers"] = IF r.rc = "SUCCESS" THEN @ + 1 ELSE @]
          /\ leaked' = IF r.rc = "REGISTER_FAILED" THEN leaked + 1 ELSE leaked
    BY <1>5 DEF Register, Call
  <2>2. r.rc = "SUCCESS"
    BY <1>2, RegisterSucceeds
  <2>3. r.fw.registered /\ r.fw.open = fw.open
    BY <1>2, <2>2, RegisterResult
  <2>4. Users' = Users + 1
    BY <1>3, <2>1, <2>2 DEF Users
  <2>5. State' = IF State = "closed" THEN "registered" ELSE State
    BY <1>2, <2>1, <2>3 DEF State, Consistent
  <2> QED
    BY <1>1, <2>1, <2>2, <2>4, <2>5 DEF ServiceInv, Service!Next, Service!Register
<1>6. CASE Open
  <2>1. PICK r \in OpenResults(fw, ri) :
          /\ fw' = r.fw /\ ri' = r.ri
          /\ users' = [users EXCEPT !["opens"] = IF r.rc = "SUCCESS" THEN @ + 1 ELSE @]
          /\ leaked' = IF r.rc = "REGISTER_FAILED" THEN leaked + 1 ELSE leaked
    BY <1>6 DEF Open, Call
  <2>2. r.rc # "REGISTER_FAILED"
    BY <1>2, OpenRegisters
  <2>3. \/ r.rc = "SUCCESS" /\ r.fw.registered /\ r.fw.open
        \/ r.rc = "OPEN_FAILED" /\ r.fw.registered /\ ~r.fw.open /\ ~fw.open
    BY <1>2, <2>2, OpenResult
  <2>4. CASE r.rc = "SUCCESS"
    <3>1. Users' = Users + 1
      BY <1>3, <2>1, <2>4 DEF Users
    <3>2. State' = "open"
      BY <2>1, <2>3, <2>4 DEF State
    <3> QED
      BY <1>1, <2>1, <2>2, <3>1, <3>2 DEF ServiceInv, Service!Next, Service!Open
  <2>5. CASE r.rc = "OPEN_FAILED"
    <3>1. Users' = Users
      BY <1>3, <2>1, <2>5 DEF Users
    <3>2. State' = "registered" /\ State # "open"
      BY <2>1, <2>3, <2>5 DEF State
    <3> QED
      BY <1>1, <2>1, <2>2, <3>1, <3>2 DEF ServiceInv, Service!Next, Service!FailedOpen
  <2> QED
    BY <2>3, <2>4, <2>5
<1>7. ASSUME NEW call \in {"registers", "opens"}, Close(call)
      PROVE  ServiceInv' /\ [Service!Next]_(Service!vars)
  <2>1. PICK r \in CloseResults(fw, ri) : fw' = r.fw /\ ri' = r.ri
    BY <1>7 DEF Close
  <2>2. /\ users[call] > 0 /\ leaked' = leaked
        /\ users' = [users EXCEPT ![call] = @ - 1]
    BY <1>7 DEF Close
  <2>3. Users > 0 /\ Users' = Users - 1
    BY <1>3, <2>2 DEF Users
  <2>4. fw.registered
    BY <2>3 DEF ServiceInv, IInv, HeldIsOpen
  <2>5. State' = IF Users = 1 THEN "closed" ELSE State
    <3>1. CASE Users = 1
      BY <1>2, <1>3, <2>1, <2>4, <3>1, LastCloseCloses DEF State
    <3>2. CASE Users # 1
      <4>1. r.fw.registered /\ r.fw.open = fw.open
        BY <1>2, <1>3, <2>4, <3>2, CloseResult
      <4> QED
        BY <2>1, <2>4, <3>2, <4>1 DEF State
    <3> QED
      BY <3>1, <3>2
  <2> QED
    BY <1>1, <2>2, <2>3, <2>5 DEF ServiceInv, Service!Next, Service!Release
<1>8. ASSUME NEW kept, Select(kept)
      PROVE  ServiceInv' /\ [Service!Next]_(Service!vars)
  <2>1. /\ fw'.registered = fw.registered /\ fw'.open = fw.open
        /\ users' = users /\ leaked' = leaked
    BY <1>2, <1>8 DEF Select, Unload, Framework_t
  <2> QED
    BY <1>1, <2>1 DEF ServiceInv, Service!vars, Users, State
<1>9. ASSUME NEW sel \in Selections, SetSelection(sel)
      PROVE  ServiceInv' /\ [Service!Next]_(Service!vars)
  <2>1. /\ fw'.registered = fw.registered /\ fw'.open = fw.open
        /\ users' = users /\ leaked' = leaked
    BY <1>2, <1>9 DEF SetSelection, Framework_t
  <2> QED
    BY <1>1, <2>1 DEF ServiceInv, Service!vars, Users, State
<1>10. ASSUME NEW c \in Dynamic, Retain(c) \/ Release(c)
       PROVE  ServiceInv' /\ [Service!Next]_(Service!vars)
  BY <1>4, <1>10 DEF Retain, Release
<1>11. CASE UNCHANGED vars
  BY <1>4, <1>11 DEF vars
<1> QED
  BY <1>5, <1>6, <1>7, <1>8, <1>9, <1>10, <1>11 DEF Next

(***************************************************************************)
(* The framework is open from the first successful open to the last close, *)
(* and its whole behaviour is that of FrameworkService.                    *)
(***************************************************************************)
THEOREM FrameworkImplementsService ==
  ASSUME RegistrationsSucceed
  PROVE  Spec => ImplementsService
<1>1. Init => ServiceInv /\ Service!Init
  BY InitIInv DEF Init, ServiceInv, Service!Init, Users, State
<1>2. ServiceInv /\ [Next]_vars => ServiceInv' /\ [Service!Next]_(Service!vars)
  BY NextServiceInv
<1> QED
  BY <1>1, <1>2, PTL DEF Spec, ImplementsService, Service!Spec
-----------------------------------------------------------------------------
(***************************************************************************)
(* A plugin in memory has a reference, and none that neither the list nor a*)
(* client accounts for.  Retains may be lost (see RetainedStaysLoaded), so *)
(* the count may be less.  A component that fails to register leaves the   *)
(* list with its plugin in memory, so that must not happen.                *)
(***************************************************************************)
RegistrationsClean == RegistrationsSucceed /\ "comp_register" \notin MayFail

Accounted(f, items) ==
  \A c \in Dynamic : items[c].dlhandle =>
     /\ items[c].refcnt >= 1
     /\ items[c].refcnt <= retained[c] + (IF c \in f.components THEN 1 ELSE 0)

Clean(f, items) ==
  /\ Accounted(f, items)
  /\ ~f.registered => f.components = {} /\ f.validVars = {}

LEMMA ReleaseAccounted ==
  ASSUME retained \in [Dynamic -> Nat], NEW f \in Framework_t, NEW g \in Framework_t,
         NEW items \in Items_t, NEW gone \in SUBSET f.components,
         Accounted(f, items), g.components = f.components \ gone
  PROVE  Accounted(g, ReleasePlugins(items, gone))
<1> SUFFICES ASSUME NEW c \in Dynamic, ReleasePlugins(items, gone)[c].dlhandle
             PROVE  /\ ReleasePlugins(items, gone)[c].refcnt >= 1
                    /\ ReleasePlugins(items, gone)[c].refcnt
                         <= retained[c] + (IF c \in g.components THEN 1 ELSE 0)
  BY DEF Accounted
<1>1. items[c].refcnt \in Int /\ items[c].dlhandle \in BOOLEAN /\ retained[c] \in Nat
  BY DEF Items_t, RepositoryItem_t
<1>2. CASE c \in gone
  <2>1. /\ items[c].dlhandle /\ items[c].refcnt # 1
        /\ ReleasePlugins(items, gone)[c].refcnt = items[c].refcnt - 1
    BY <1>2 DEF ReleasePlugins, ReleaseItem
  <2> QED
    BY <1>1, <1>2, <2>1 DEF Accounted
<1>3. CASE c \notin gone
  <2>1. ReleasePlugins(items, gone)[c] = items[c]
    BY <1>3 DEF ReleasePlugins
  <2> QED
    BY <1>1, <1>3, <2>1 DEF Accounted
<1> QED
  BY <1>2, <1>3

LEMMA UnloadAccounted ==
  ASSUME retained \in [Dynamic -> Nat], NEW f \in Framework_t, NEW items \in Items_t,
         NEW gone \in SUBSET f.components, Accounted(f, items)
  PROVE  Accounted(Unload(f, gone), ReleasePlugins(items, gone))
<1>1. Unload(f, gone) \in Framework_t
  BY UnloadType
<1>2. Unload(f, gone).components = f.components \ gone
  BY DEF Unload, Framework_t
<1> QED
  BY <1>1, <1>2, ReleaseAccounted

LEMMA ComponentsOpenClean ==
  ASSUME retained \in [Dynamic -> Nat], NEW f \in Framework_t, NEW items \in Items_t,
         NEW failing \in SUBSET Components,
         f.registered, ~f.open, Accounted(f, items)
  PROVE  LET r == ComponentsOpen(f, items, failing)
         IN  Clean(r.fw, r.ri)
<1> DEFINE unwanted == f.components \ Usable(f.selection)
           f1       == Unload(f, unwanted)
           ri1      == ReleasePlugins(items, unwanted)
           refused  == f1.components \cap failing
           f2       == Unload(f1, refused)
           ri2      == ReleasePlugins(ri1, refused)
           good     == [f2 EXCEPT !.opened = f2.components, !.open = TRUE]
           bad      == [f1 EXCEPT !.refcnt = @ - 1]
           result   == IF AllFound(f.selection, f1.components)
                       THEN [rc |-> "SUCCESS", fw |-> good, ri |-> ri2]
                       ELSE [rc |-> "OPEN_FAILED", fw |-> bad, ri |-> ri1]
<1>1. ComponentsOpen(f, items, failing) = result
  BY DEF ComponentsOpen
<1>2. result.fw.registered
  BY <1>1, ComponentsOpenResult
<1>3. unwanted \in SUBSET f.components
  OBVIOUS
<1> HIDE DEF unwanted
<1>4. f1 \in Framework_t /\ ri1 \in Items_t /\ Accounted(f1, ri1)
  BY <1>3, UnloadType, ReleasePluginsType, UnloadAccounted
<1> HIDE DEF f1, ri1
<1>5. refused \in SUBSET f1.components
  OBVIOUS
<1> HIDE DEF refused
<1>6. f2 \in Framework_t /\ Accounted(f2, ri2)
  BY <1>4, <1>5, UnloadType, UnloadAccounted
<1> HIDE DEF f2, ri2
<1>7. Accounted(good, ri2)
  BY <1>6 DEF Framework_t, Accounted
<1>8. Accounted(bad, ri1)
  BY <1>4 DEF Framework_t, Accounted
<1> HIDE DEF good, bad
<1>9. Accounted(result.fw, result.ri)
  BY <1>7, <1>8
<1> HIDE DEF result
<1> QED
  BY <1>1, <1>2, <1>9 DEF Clean

(***************************************************************************)
(* What register loads it lists, since every component registers.          *)
(***************************************************************************)
LEMMA RegisterClean ==
  ASSUME RegistrationsClean, env \in Selections, retained \in [Dynamic -> Nat],
         NEW f0 \in Framework_t, NEW items \in Items_t, NEW all \in BOOLEAN,
         Consistent(f0), Clean(f0, items),
         NEW r \in RegisterResults(f0, items, all)
  PROVE  Clean(r.fw, r.ri)
<1> DEFINE f  == [f0 EXCEPT !.refcnt = @ + 1]
           f1 == [f EXCEPT !.components = {}]
           f2 == RegisterSelection(f1)
<1>1. r.rc = "SUCCESS" /\ r.fw.registered
  <2>1. r.rc = "SUCCESS"
    BY RegisterSucceeds DEF RegistrationsClean
  <2> QED
    BY <2>1, RegisterResult
<1>2. f \in Framework_t /\ f.components = f0.components
  BY DEF Framework_t
<1>3. CASE f0.registered
  <2>1. r = [rc |-> "SUCCESS", fw |-> f, ri |-> items]
    BY <1>3 DEF RegisterResults
  <2> HIDE DEF f
  <2>2. Accounted(f, items)
    BY <1>2 DEF Clean, Accounted
  <2> QED
    BY <1>1, <2>1, <2>2 DEF Clean
<1>4. CASE ~f0.registered
  <2>1. f0.components = {}
    BY <1>4 DEF Clean
  <2> HIDE DEF f
  <2>2. f1 \in Framework_t /\ f1.components = {}
    BY <1>2 DEF Framework_t
  <2>3. CASE kind = "noregister"
    <3> DEFINE f3 == [f1 EXCEPT !.registered = TRUE]
    <3>1. r = [rc |-> "SUCCESS", fw |-> f3, ri |-> items]
      BY <1>4, <2>3 DEF RegisterResults, f
    <3> HIDE DEF f1
    <3>2. f3.components = {}
      BY <2>2 DEF Framework_t
    <3> HIDE DEF f3
    <3>3. Accounted(f3, items)
      BY <2>1, <3>2 DEF Clean, Accounted
    <3> QED
      BY <1>1, <3>1, <3>3 DEF Clean
  <2>4. CASE kind # "noregister"
    <3>1. f2 \in Framework_t /\ ~f2.registered
      <4>1. f2 \in Framework_t
        BY <2>2, RegisterSelectionType
      <4> QED
        BY <4>1, <1>4 DEF RegisterSelection, Framework_t, f
    <3>2. Failing("comp_register", Components) = {{}}
      BY DEF RegistrationsClean, Failing
    <3>3. PICK broken : r = ComponentsRegister(f2, items, all, broken, {}, {})
      <4>1. MayFail \cap {"variables"} = {} /\ MayFail \cap {"cb_register"} = {}
        BY DEF RegistrationsClean, RegistrationsSucceed
      <4>2. \E broken \in Failing("dlopen", Dynamic),
               failing \in Failing("comp_register", Components),
               partial \in Failing("comp_register", Components) :
              r = ComponentsRegister(f2, items, all, broken, failing, partial)
        BY <1>4, <2>4, <4>1 DEF RegisterResults, f
      <4> HIDE DEF f1, f2
      <4> QED
        BY <3>2, <4>2
    <3> HIDE DEF f1, f2
    <3> DEFINE sel    == IF all THEN Everything ELSE f2.selection
               found  == Find(items, sel, broken)
               items1 == LoadPlugins(items, found)
               kept   == [f2 EXCEPT !.components = found \ {},
                                    !.validVars = @ \cup (found \ ({} \ {})),
                                    !.registered = TRUE]
    <3>4. r.fw = kept /\ r.ri = items1
      BY <1>1, <3>3 DEF ComponentsRegister
    <3> HIDE DEF found
    <3>5. kept.components = found
      BY <3>1 DEF Framework_t
    <3> HIDE DEF kept
    <3>6. ASSUME NEW c \in Dynamic, items1[c].dlhandle
          PROVE  /\ items1[c].refcnt >= 1
                 /\ items1[c].refcnt <= retained[c] + (IF c \in found THEN 1 ELSE 0)
      <4>1. items[c].refcnt \in Int /\ retained[c] \in Nat
        BY DEF Items_t, RepositoryItem_t
      <4>2. CASE c \in found /\ ~items[c].dlhandle
        <5>1. items1[c].refcnt = 1
          BY <4>2 DEF LoadPlugins
        <5> QED
          BY <4>1, <4>2, <5>1
      <4>3. CASE ~(c \in found /\ ~items[c].dlhandle)
        <5>1. items1[c] = items[c]
          BY <4>3 DEF LoadPlugins
        <5>2. items[c].refcnt >= 1 /\ items[c].refcnt <= retained[c]
          BY <2>1, <3>6, <4>1, <5>1 DEF Clean, Accounted
        <5> QED
          BY <4>1, <5>1, <5>2
      <4> QED
        BY <4>2, <4>3
    <3> HIDE DEF items1
    <3>7. Accounted(kept, items1)
      BY <3>5, <3>6 DEF Accounted
    <3> QED
      BY <1>1, <3>4, <3>7 DEF Clean
  <2> QED
    BY <2>3, <2>4
<1> QED
  BY <1>3, <1>4 DEF Framework_t

LEMMA OpenClean ==
  ASSUME RegistrationsClean, kind \in Kinds, kind # "own", env \in Selections,
         retained \in [Dynamic -> Nat],
         NEW f0 \in Framework_t, NEW items \in Items_t,
         Consistent(f0), Clean(f0, items),
         NEW r \in OpenResults(f0, items)
  PROVE  Clean(r.fw, r.ri)
<1>1. PICK q \in RegisterResults(f0, items, FALSE) :
        r \in IF q.rc = "SUCCESS" /\ ~q.fw.open THEN OpenRegistered(q.fw, q.ri) ELSE {q}
  BY DEF OpenResults
<1>2. Clean(q.fw, q.ri) /\ q.fw.registered /\ q.fw \in Framework_t /\ q.ri \in Items_t
  <2>1. q.rc = "SUCCESS"
    BY RegisterSucceeds DEF RegistrationsClean
  <2>2. q \in Result_t /\ q.fw.registered
    BY <2>1, RegisterResult
  <2>3. Clean(q.fw, q.ri)
    BY RegisterClean
  <2> QED
    BY <2>2, <2>3 DEF Result_t
<1>3. CASE ~(q.rc = "SUCCESS" /\ ~q.fw.open)
  BY <1>1, <1>2, <1>3
<1>4. CASE q.rc = "SUCCESS" /\ ~q.fw.open
  <2> DEFINE found  == [q.fw EXCEPT !.components = @ \cup Find(q.ri, Everything, {})]
             locked == [q.fw EXCEPT !.selvar = "locked"]
  <2>1. r \in OpenRegistered(q.fw, q.ri)
    BY <1>1, <1>4
  <2>2. \/ kind = "noregister" /\ \E failing \in Failing("comp_open", Components) :
             r = ComponentsOpen(found, q.ri, failing)
        \/ kind = "default" /\ \E failing \in Failing("comp_open", Components) :
             r = ComponentsOpen(locked, q.ri, failing)
    BY <2>1, KindAssumption DEF OpenRegistered, FrameworkKinds
  <2>3. ASSUME NEW f \in Framework_t, f.registered, ~f.open, Accounted(f, q.ri),
               NEW failing \in Failing("comp_open", Components),
               r = ComponentsOpen(f, q.ri, failing)
        PROVE  Clean(r.fw, r.ri)
    BY <2>3, <1>2, FailingType, ComponentsOpenClean
  <2>4. CASE kind = "noregister"
    <3>1. Find(q.ri, Everything, {}) \subseteq Static
      BY <2>4 DEF Find
    <3> HIDE DEF Find
    <3>2. found \in Framework_t /\ found.registered /\ ~found.open
          /\ \A c \in Dynamic : c \in found.components <=> c \in q.fw.components
      BY <1>2, <1>4, <3>1, ComponentAssumption DEF Framework_t, Components
    <3> HIDE DEF found
    <3>3. Accounted(found, q.ri)
      BY <1>2, <3>2 DEF Clean, Accounted
    <3> QED
      BY <2>2, <2>3, <2>4, <3>2, <3>3
  <2>5. CASE kind = "default"
    <3>1. locked \in Framework_t /\ locked.registered /\ ~locked.open
          /\ locked.components = q.fw.components
      BY <1>2, <1>4 DEF Framework_t
    <3> HIDE DEF locked
    <3>2. Accounted(locked, q.ri)
      BY <1>2, <3>1 DEF Clean, Accounted
    <3> QED
      BY <2>2, <2>3, <2>5, <3>1, <3>2
  <2> QED
    BY <2>2, <2>4, <2>5
<1> QED
  BY <1>3, <1>4

LEMMA CloseClean ==
  ASSUME kind # "own", retained \in [Dynamic -> Nat],
         NEW f0 \in Framework_t, NEW items \in Items_t, Clean(f0, items),
         NEW r \in CloseResults(f0, items)
  PROVE  Clean(r.fw, r.ri)
<1> DEFINE f      == [f0 EXCEPT !.refcnt = @ - 1]
           f1     == [f EXCEPT !.validVars = {}]
           closed == [f1 EXCEPT !.registered = FALSE, !.open = FALSE,
                                !.components = {}, !.opened = {}]
<1>1. \/ r = [rc |-> "SUCCESS", fw |-> f0, ri |-> items]
      \/ r = [rc |-> "SUCCESS", fw |-> f, ri |-> items]
      \/ r = [rc |-> "SUCCESS", fw |-> closed, ri |-> ReleasePlugins(items, f0.components)]
  BY DEF CloseResults
<1>2. f \in Framework_t /\ f.components = f0.components
      /\ f.registered = f0.registered /\ f.validVars = f0.validVars
  BY DEF Framework_t
<1> HIDE DEF f
<1>3. f1 \in Framework_t /\ f1.validVars = {}
  BY <1>2 DEF Framework_t
<1> HIDE DEF f1
<1>4. closed \in Framework_t /\ closed.components = {} /\ closed.validVars = {}
  BY <1>3 DEF Framework_t
<1> HIDE DEF closed
<1>5. Accounted(closed, ReleasePlugins(items, f0.components))
  BY <1>4, ReleaseAccounted DEF Clean
<1>6. Clean(f, items)
  BY <1>2 DEF Clean, Accounted
<1> QED
  BY <1>1, <1>4, <1>5, <1>6 DEF Clean

CleanInv == IInv /\ (kind # "own" => Clean(fw, ri))

LEMMA NextCleanInv ==
  ASSUME RegistrationsClean
  PROVE  CleanInv /\ [Next]_vars => CleanInv'
<1> SUFFICES ASSUME CleanInv, [Next]_vars PROVE CleanInv'
  OBVIOUS
<1>1. IInv'
  BY NextIInv DEF CleanInv
<1>2. fw \in Framework_t /\ ri \in Items_t /\ kind \in Kinds /\ env \in Selections
      /\ Consistent(fw) /\ retained \in [Dynamic -> Nat] /\ kind' = kind
  BY DEF CleanInv, IInv, TypeOK, Items_t, Next, Register, Open, Call, Close, Select,
         SetSelection, Retain, Release, vars
<1>3. CASE kind = "own"
  BY <1>1, <1>2, <1>3 DEF CleanInv
<1>4. CASE kind # "own"
  <2>1. Clean(fw, ri)
    BY <1>4 DEF CleanInv
  <2>2. ASSUME NEW g, NEW jtems, Clean(g, jtems), fw' = g, ri' = jtems,
               retained' = retained
        PROVE  CleanInv'
    BY <1>1, <2>2 DEF CleanInv, Clean, Accounted
  <2>3. ASSUME NEW all \in BOOLEAN, Register(all) PROVE CleanInv'
    <3>1. PICK r \in RegisterResults(fw, ri, all) : fw' = r.fw /\ ri' = r.ri
      BY <2>3 DEF Register, Call
    <3>2. Clean(r.fw, r.ri)
      BY <1>2, <2>1, RegisterClean
    <3> QED
      BY <2>2, <2>3, <3>1, <3>2 DEF Register, Call
  <2>4. CASE Open
    <3>1. PICK r \in OpenResults(fw, ri) : fw' = r.fw /\ ri' = r.ri
      BY <2>4 DEF Open, Call
    <3>2. Clean(r.fw, r.ri)
      BY <1>2, <1>4, <2>1, OpenClean
    <3> QED
      BY <2>2, <2>4, <3>1, <3>2 DEF Open, Call
  <2>5. ASSUME NEW call \in {"registers", "opens"}, Close(call) PROVE CleanInv'
    <3>1. PICK r \in CloseResults(fw, ri) : fw' = r.fw /\ ri' = r.ri
      BY <2>5 DEF Close
    <3>2. Clean(r.fw, r.ri)
      BY <1>2, <1>4, <2>1, CloseClean
    <3> QED
      BY <2>2, <2>5, <3>1, <3>2 DEF Close
  <2>6. ASSUME NEW kept, Select(kept) PROVE CleanInv'
    <3> DEFINE gone == fw.components \ kept
    <3>1. fw' = Unload(fw, gone) /\ ri' = ReleasePlugins(ri, gone)
          /\ retained' = retained /\ fw.open
      BY <2>6 DEF Select
    <3>2. Accounted(Unload(fw, gone), ReleasePlugins(ri, gone))
      BY <1>2, <2>1, UnloadAccounted DEF Clean
    <3>3. Unload(fw, gone).registered
      BY <1>2, <3>1 DEF Unload, Framework_t, Consistent
    <3> QED
      BY <2>2, <3>1, <3>2, <3>3 DEF Clean
  <2>7. ASSUME NEW sel \in Selections, SetSelection(sel) PROVE CleanInv'
    <3> DEFINE g == [fw EXCEPT !.selection = sel]
    <3>1. fw' = g /\ ri' = ri /\ retained' = retained
      BY <2>7 DEF SetSelection
    <3>2. Clean(g, ri)
      BY <1>2, <2>1 DEF Framework_t, Clean, Accounted
    <3> QED
      BY <2>2, <3>1, <3>2
  <2>8. ASSUME NEW c \in Dynamic, Retain(c) PROVE CleanInv'
    <3>1. fw' = fw
      BY <2>8 DEF Retain
    <3>2. ASSUME NEW d \in Dynamic, ri'[d].dlhandle
          PROVE  /\ ri'[d].refcnt >= 1
                 /\ ri'[d].refcnt <= retained'[d] + (IF d \in fw.components THEN 1 ELSE 0)
      <4>1. ri[d].refcnt \in Int /\ retained[d] \in Nat
        BY <1>2 DEF Items_t, RepositoryItem_t
      <4>2. /\ ri[d].dlhandle
            /\ ri'[d].refcnt = IF d = c THEN ri[d].refcnt + 1 ELSE ri[d].refcnt
            /\ retained'[d] = IF d = c THEN retained[d] + 1 ELSE retained[d]
        BY <1>2, <2>8, <3>2 DEF Retain, Items_t, RepositoryItem_t
      <4> QED
        BY <2>1, <4>1, <4>2 DEF Clean, Accounted
    <3> QED
      BY <1>1, <2>1, <3>1, <3>2 DEF CleanInv, Clean, Accounted
  <2>9. ASSUME NEW c \in Dynamic, Release(c) PROVE CleanInv'
    <3>1. fw' = fw
      BY <2>9 DEF Release
    <3>2. ASSUME NEW d \in Dynamic, ri'[d].dlhandle
          PROVE  /\ ri'[d].refcnt >= 1
                 /\ ri'[d].refcnt <= retained'[d] + (IF d \in fw.components THEN 1 ELSE 0)
      <4>1. ri[d].refcnt \in Int /\ retained[d] \in Nat
        BY <1>2 DEF Items_t, RepositoryItem_t
      <4>2. /\ ri[d].dlhandle
            /\ d = c => ri[d].refcnt # 1
            /\ ri'[d].refcnt = IF d = c THEN ri[d].refcnt - 1 ELSE ri[d].refcnt
            /\ retained'[d] = IF d = c THEN retained[d] - 1 ELSE retained[d]
        BY <1>2, <2>9, <3>2 DEF Release, ReleasePlugins, ReleaseItem
      <4> QED
        BY <2>1, <4>1, <4>2 DEF Clean, Accounted
    <3> QED
      BY <1>1, <2>1, <3>1, <3>2 DEF CleanInv, Clean, Accounted
  <2>10. CASE UNCHANGED vars
    BY <2>1, <2>2, <2>10 DEF vars
  <2> QED
    BY <2>3, <2>4, <2>5, <2>6, <2>7, <2>8, <2>9, <2>10 DEF Next
<1> QED
  BY <1>3, <1>4

(***************************************************************************)
(* A closed framework lists nothing, has no valid variables, and left no   *)
(* plugin in memory that a client does not retain, whatever its clients    *)
(* retain and release and whichever opens fail.                            *)
(***************************************************************************)
THEOREM ClosedLeavesNothing ==
  ASSUME RegistrationsClean
  PROVE  Spec => []ClosedIsClean
<1>1. Init => CleanInv
  BY InitIInv DEF Init, CleanInv, Clean, Accounted
<1>2. CleanInv /\ [Next]_vars => CleanInv'
  BY NextCleanInv
<1>3. CleanInv => ClosedIsClean
  <2> SUFFICES ASSUME CleanInv, kind # "own", ~fw.registered,
                      NEW c \in Dynamic, ri[c].dlhandle
               PROVE  retained[c] > 0
    BY DEF CleanInv, Clean, ClosedIsClean
  <2>1. ri[c].refcnt \in Int /\ retained[c] \in Nat
    BY DEF CleanInv, IInv, TypeOK, RepositoryItem_t
  <2>2. ri[c].refcnt >= 1 /\ ri[c].refcnt <= retained[c]
    BY <2>1 DEF CleanInv, Clean, Accounted
  <2> QED
    BY <2>1, <2>2
<1> QED
  BY <1>1, <1>2, <1>3, PTL DEF Spec
=============================================================================

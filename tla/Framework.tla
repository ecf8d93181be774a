------------------------------ MODULE Framework ------------------------------
(***************************************************************************)
(* The life of one MCA framework: mca_base_framework_register, _open and   *)
(* _close, the finding, registering, opening, selecting and closing of its *)
(* components, and the repository of loadable plugins with its reference   *)
(* counts.  The calls are synchronous and run to completion, so each is    *)
(* one action; what a call does before it fails stays in the state.        *)
(*                                                                         *)
(* A handler is an operator from the state it finds to the set of its      *)
(* results [rc, fw, ri], one for each way the parts it does not control    *)
(* (the plugin loader, component callbacks, the framework's own callbacks) *)
(* may answer.  open calls register, so it takes over register's results.  *)
(***************************************************************************)
EXTENDS Integers

CONSTANTS
  Static,      \* components linked into the library
  Dynamic,     \* components found as plugin files by the repository's scan
  Missing,     \* a name no component has
  Selections,  \* values the framework's selection variable may be given
  Kinds,       \* which frameworks are considered, see KindAssumption
  MayFail,     \* what may fail, see FailureAssumption
  MaxUsers,    \* bound on outstanding register and open calls
  MaxLeaked,   \* bound on references left behind by failed registrations
  MaxRetained  \* bound on a client's retains of one plugin

Components == Static \cup Dynamic

\* A selection names components to include or, with "^", to exclude.  No
\* names means all of them (the selection string is NULL or empty).
Selection == [include : BOOLEAN, names : SUBSET (Components \cup {Missing})]
Everything == [include |-> TRUE, names |-> {}]

\* "default":    the framework has no open and close callbacks.
\* "own":        its callbacks leave the components alone (sec, dstore).
\* "noregister": it has neither variables nor plugins (dl, installdirs).
FrameworkKinds == {"default", "own", "noregister"}

\* Registering the framework's own variables, its register callback, loading
\* a plugin, a component's register or open function, the other callbacks.
Failures == {"variables", "cb_register", "dlopen", "comp_register", "comp_open",
             "cb_open", "cb_close"}

ASSUME ComponentAssumption == Static \cap Dynamic = {} /\ Missing \notin Components
ASSUME SelectionAssumption == Selections \subseteq Selection /\ Everything \in Selections
ASSUME KindAssumption == Kinds \subseteq FrameworkKinds
ASSUME FailureAssumption == MayFail \subseteq Failures
ASSUME BoundAssumption == MaxUsers \in Nat /\ MaxLeaked \in Nat /\ MaxRetained \in Nat

VARIABLES
  kind,      \* the framework's kind; it never changes
  env,       \* the selection the environment or a file gives, else Everything
  fw,        \* the mca_base_framework_t, its variables and its components
  ri,        \* the repository items of its plugins
  users,     \* outstanding successful calls: [registers, opens]
  leaked,    \* references taken by registrations that failed
  retained   \* outstanding retains of each plugin by clients

vars == <<kind, env, fw, ri, users, leaked, retained>>

Framework_t ==
  [refcnt     : Int,                  \* framework_refcnt
   registered : BOOLEAN,              \* MCA_BASE_FRAMEWORK_FLAG_REGISTERED
   open       : BOOLEAN,              \* MCA_BASE_FRAMEWORK_FLAG_OPEN
   components : SUBSET Components,    \* framework_components
   opened     : SUBSET Components,    \* components whose open callback succeeded
   validVars  : SUBSET Components,    \* components with valid variables
   selection  : Selections,           \* framework_selection
   selvar     : {"none", "settable", "locked"}]  \* the variable behind it

RepositoryItem_t == [dlhandle : BOOLEAN, refcnt : Int]

TypeOK == /\ kind \in Kinds
          /\ env \in Selections
          /\ fw \in Framework_t
          /\ ri \in [Dynamic -> RepositoryItem_t]
          /\ users \in [registers : Nat, opens : Nat]
          /\ leaked \in Nat
          /\ retained \in [Dynamic -> Nat]

Users == users.registers + users.opens
-----------------------------------------------------------------------------
(* The component repository. *)

\* Components whose code is in memory.
Loaded(items) == Static \cup {c \in Dynamic : items[c].dlhandle}

\* mca_base_component_repository_open for every plugin of found: one that is
\* already loaded is taken as it is, its reference count untouched.
LoadPlugins(items, found) ==
  [c \in Dynamic |-> IF c \in found /\ ~items[c].dlhandle
                     THEN [dlhandle |-> TRUE, refcnt |-> 1] ELSE items[c]]

\* mca_base_component_repository_release.  The last reference closes the
\* plugin; the group it would deregister then is looked up without the
\* project the variables were registered under, and is not found.
ReleaseItem(item) == [dlhandle |-> item.dlhandle /\ item.refcnt # 1,
                      refcnt |-> item.refcnt - 1]

ReleasePlugins(items, gone) ==
  [c \in Dynamic |-> IF c \in gone THEN ReleaseItem(items[c]) ELSE items[c]]

\* Mutations: the components stay on the list; their variables stay valid.
Unload_Listed(f, gone) == [f EXCEPT !.opened = @ \ gone, !.validVars = @ \ gone]

Unload_Variables(f, gone) == [f EXCEPT !.components = @ \ gone, !.opened = @ \ gone]

\* mca_base_component_unload, after mca_base_component_close for the opened
\* ones: the components of gone leave the framework.
Unload(f, gone) == [f EXCEPT !.components = @ \ gone,
                             !.opened = @ \ gone,
                             !.validVars = @ \ gone]
-----------------------------------------------------------------------------
(* Finding, registering and opening components. *)

Usable(sel) == {c \in Components : sel.names = {} \/ (sel.include <=> c \in sel.names)}

\* component_find_check: all requested components are there.
AllFound(sel, found) == sel.include => sel.names \subseteq found

Failing(what, set) == IF what \in MayFail THEN SUBSET set ELSE {{}}

\* mca_base_component_find for the selection sel, when the plugins in broken
\* cannot be opened.
Find(items, sel, broken) ==
  LET dso == IF kind = "noregister" THEN {}
             ELSE {c \in Dynamic : items[c].dlhandle \/ c \notin broken}
  IN  Usable(sel) \cap (Static \cup dso)

\* mca_base_framework_components_register: find, then call each component's
\* register function.  One that fails leaves the list but stays loaded, with
\* the variables it had registered by then (partial).  all: REGISTER_ALL.
ComponentsRegister(f, items, all, broken, failing, partial) ==
  LET sel   == IF all THEN Everything ELSE f.selection
      found == Find(items, sel, broken)
      f1    == [f EXCEPT !.components = found]
  IN  [rc |-> IF AllFound(sel, found) THEN "SUCCESS" ELSE "REGISTER_FAILED",
       fw |-> IF AllFound(sel, found)
              THEN [f EXCEPT !.components = found \ failing,
                             !.validVars = @ \cup (found \ (failing \ partial)),
                             !.registered = TRUE]
              ELSE f1,
       ri |-> LoadPlugins(items, found)]

\* Mutation: a failed open keeps its reference.
ComponentsOpen_Reference(f, items, failing) ==
  LET kept == f.components \cap Usable(f.selection)
      f1   == [f EXCEPT !.components = kept, !.validVars = @ \cap kept]
  IN  [rc |-> IF AllFound(f.selection, kept) THEN "SUCCESS" ELSE "OPEN_FAILED",
       fw |-> IF AllFound(f.selection, kept)
              THEN [f1 EXCEPT !.open = TRUE, !.opened = kept] ELSE f1,
       ri |-> ReleasePlugins(items, f.components \ kept)]

\* Mutation: a component that fails to open stays on the list.
ComponentsOpen_Refused(f, items, failing) ==
  LET unwanted == f.components \ Usable(f.selection)
      f1       == Unload(f, unwanted)
  IN  [rc |-> "SUCCESS",
       fw |-> [f1 EXCEPT !.opened = f1.components \ failing, !.open = TRUE],
       ri |-> ReleasePlugins(items, unwanted)]

\* mca_base_components_filter followed by each component's open function.
\* Components the selection no longer admits are unloaded; if a requested one
\* is missing the open fails.  A component that fails to open is closed.
ComponentsOpen(f, items, failing) ==
  LET unwanted == f.components \ Usable(f.selection)
      f1       == Unload(f, unwanted)
      ri1      == ReleasePlugins(items, unwanted)
      refused  == f1.components \cap failing
      f2       == Unload(f1, refused)
  IN  IF AllFound(f.selection, f1.components)
      THEN [rc |-> "SUCCESS",
            fw |-> [f2 EXCEPT !.opened = f2.components, !.open = TRUE],
            ri |-> ReleasePlugins(ri1, refused)]
      ELSE [rc |-> "OPEN_FAILED", fw |-> [f1 EXCEPT !.refcnt = @ - 1], ri |-> ri1]
-----------------------------------------------------------------------------
(* The framework's three operations. *)

\* The selection variable is created once and never deregistered, and
\* registering it again does not make it settable again.
RegisterSelection(f) ==
  [f EXCEPT !.selection = IF env = Everything THEN @ ELSE env,
            !.selvar = IF @ = "none" THEN "settable" ELSE @]

\* Mutation: registering a registered framework is not counted.
RegisterResults_Uncounted(f0, items, all) ==
  IF f0.registered THEN {[rc |-> "SUCCESS", fw |-> f0, ri |-> items]}
  ELSE {ComponentsRegister([RegisterSelection(f0) EXCEPT !.refcnt = @ + 1],
                           items, all, {}, {}, {})}

RegisterResults(f0, items, all) ==
  LET f  == [f0 EXCEPT !.refcnt = @ + 1]
      f1 == [f EXCEPT !.components = {}]   \* WW_CONSTRUCT of the list
      f2 == RegisterSelection(f1)
  IN  IF f0.registered THEN {[rc |-> "SUCCESS", fw |-> f, ri |-> items]}
      ELSE IF kind = "noregister"
      THEN {[rc |-> "SUCCESS", fw |-> [f1 EXCEPT !.registered = TRUE], ri |-> items]}
      ELSE {[rc |-> "REGISTER_FAILED", fw |-> f1, ri |-> items] : x \in MayFail \cap {"variables"}}
           \cup
           {[rc |-> "REGISTER_FAILED", fw |-> f2, ri |-> items] : x \in MayFail \cap {"cb_register"}}
           \cup
           {ComponentsRegister(f2, items, all, broken, failing, partial) :
              broken \in Failing("dlopen", Dynamic),
              failing \in Failing("comp_register", Components),
              partial \in Failing("comp_register", Components)}

\* What open does once the framework is registered.
OpenRegistered(f0, items) ==
  CASE kind = "noregister" ->
         LET f == [f0 EXCEPT !.components = @ \cup Find(items, Everything, {})]
         IN  {ComponentsOpen(f, items, failing) : failing \in Failing("comp_open", Components)}
    [] kind = "default" ->
         LET f == [f0 EXCEPT !.selvar = "locked"]
         IN  {ComponentsOpen(f, items, failing) : failing \in Failing("comp_open", Components)}
    [] kind = "own" ->
         LET f == [f0 EXCEPT !.selvar = "locked"]
         IN  {[rc |-> "SUCCESS", fw |-> [f EXCEPT !.open = TRUE], ri |-> items]} \cup
             {[rc |-> "OPEN_FAILED", fw |-> [f EXCEPT !.refcnt = @ - 1], ri |-> items] :
                x \in MayFail \cap {"cb_open"}}

OpenResults(f0, items) ==
  UNION {IF r.rc = "SUCCESS" /\ ~r.fw.open THEN OpenRegistered(r.fw, r.ri) ELSE {r} :
           r \in RegisterResults(f0, items, FALSE)}

\* Mutations: the first close closes; only an open framework's components
\* are unloaded.
CloseResults_First(f0, items) ==
  {[rc |-> "SUCCESS",
    fw |-> [f0 EXCEPT !.refcnt = @ - 1, !.registered = FALSE, !.open = FALSE,
                      !.components = {}, !.opened = {}, !.validVars = {}],
    ri |-> ReleasePlugins(items, f0.components)]}

CloseResults_OnlyOpen(f0, items) ==
  LET f  == [f0 EXCEPT !.refcnt = @ - 1]
      f1 == [f EXCEPT !.registered = FALSE, !.open = FALSE,
                      !.components = {}, !.opened = {}, !.validVars = {}]
  IN  {[rc |-> "SUCCESS", fw |-> IF f.refcnt = 0 THEN f1 ELSE f,
        ri |-> IF f.refcnt = 0 /\ f0.open THEN ReleasePlugins(items, f0.components)
               ELSE items]}

CloseResults(f0, items) ==
  LET f      == [f0 EXCEPT !.refcnt = @ - 1]
      f1     == [f EXCEPT !.validVars = {}]   \* the groups are deregistered
      closed == [f1 EXCEPT !.registered = FALSE, !.open = FALSE,
                           !.components = {}, !.opened = {}]
  IN  IF ~(f0.open \/ f0.registered) THEN {[rc |-> "SUCCESS", fw |-> f0, ri |-> items]}
      ELSE IF f.refcnt # 0 THEN {[rc |-> "SUCCESS", fw |-> f, ri |-> items]}
      ELSE IF f0.open /\ kind = "own"
      THEN {[rc |-> "SUCCESS", fw |-> closed, ri |-> items]} \cup
           {[rc |-> "CLOSE_FAILED", fw |-> f1, ri |-> items] : x \in MayFail \cap {"cb_close"}}
      ELSE {[rc |-> "SUCCESS", fw |-> closed, ri |-> ReleasePlugins(items, f0.components)]}
-----------------------------------------------------------------------------
(* The callers.  They follow the calling convention of the header: close   *)
(* is called once for each register or open that succeeded.                *)

Init == /\ kind \in Kinds
        /\ env \in IF kind = "noregister" THEN {Everything} ELSE Selections
        /\ fw = [refcnt |-> 0, registered |-> FALSE, open |-> FALSE,
                 components |-> {}, opened |-> {}, validVars |-> {},
                 selection |-> Everything, selvar |-> "none"]
        /\ ri = [c \in Dynamic |-> [dlhandle |-> FALSE, refcnt |-> 0]]
        /\ users = [registers |-> 0, opens |-> 0]
        /\ leaked = 0
        /\ retained = [c \in Dynamic |-> 0]

Call(results, call) ==
  /\ Users < MaxUsers /\ leaked <= MaxLeaked
  /\ \E r \in results :
       /\ fw' = r.fw /\ ri' = r.ri
       /\ users' = [users EXCEPT ![call] = IF r.rc = "SUCCESS" THEN @ + 1 ELSE @]
       /\ leaked' = IF r.rc = "REGISTER_FAILED" THEN leaked + 1 ELSE leaked
  /\ UNCHANGED <<kind, env, retained>>

Register(all) == Call(RegisterResults(fw, ri, all), "registers")

Open == Call(OpenResults(fw, ri), "opens")

\* A holder calls close: one that had registered or one that had opened.
Close(call) ==
  /\ users[call] > 0
  /\ \E r \in CloseResults(fw, ri) : fw' = r.fw /\ ri' = r.ri
  /\ users' = [users EXCEPT ![call] = @ - 1]
  /\ UNCHANGED <<kind, env, leaked, retained>>

\* mca_base_select on the open framework: the best component stays, all
\* others are closed; if no component can be used all are.
Select(kept) ==
  /\ fw.open /\ kind # "own"
  /\ kept \subseteq fw.components
  /\ LET gone == fw.components \ kept
     IN  fw' = Unload(fw, gone) /\ ri' = ReleasePlugins(ri, gone)
  /\ UNCHANGED <<kind, env, users, leaked, retained>>

\* mca_base_var_set_value on the selection variable.
SetSelection(sel) ==
  /\ fw.selvar = "settable"
  /\ fw' = [fw EXCEPT !.selection = sel]
  /\ UNCHANGED <<kind, env, ri, users, leaked, retained>>

\* mca_base_component_repository_retain_component by a client that uses the
\* loaded plugin, and the release that ends the use.
Retain(c) ==
  /\ c \in Loaded(ri) /\ retained[c] < MaxRetained
  /\ ri' = [ri EXCEPT ![c].refcnt = @ + 1]
  /\ retained' = [retained EXCEPT ![c] = @ + 1]
  /\ UNCHANGED <<kind, env, fw, users, leaked>>

Release(c) ==
  /\ retained[c] > 0
  /\ ri' = ReleasePlugins(ri, {c})
  /\ retained' = [retained EXCEPT ![c] = @ - 1]
  /\ UNCHANGED <<kind, env, fw, users, leaked>>

Next == \/ \E all \in BOOLEAN : Register(all)
        \/ Open
        \/ \E call \in {"registers", "opens"} : Close(call)
        \/ \E kept \in {{}} \cup {{c} : c \in Components} : Select(kept)
        \/ \E sel \in Selections : SetSelection(sel)
        \/ \E c \in Dynamic : Retain(c) \/ Release(c)

Spec == Init /\ [][Next]_vars
-----------------------------------------------------------------------------
(* Correctness. *)

\* The reference count is the number of calls that still have to be matched
\* by a close, plus what failed registrations left in it: nothing is counted
\* twice or forgotten over any sequence of calls and failures.  With it the
\* assert in mca_base_framework_close cannot fail for a caller that keeps to
\* the convention (mca_base_framework.c:63, 181, 201).
RefcntExact == fw.refcnt = Users + leaked

\* No holder loses the framework to another caller's close or failed open
\* (mca_base_framework_close, mca_base_framework_open).
HeldIsOpen == /\ Users > 0 => fw.registered
              /\ users.opens > 0 => fw.open

\* A framework never lists a component whose plugin has been closed: the list
\* items point into the plugin (mca_base_component_repository.c:376, 476).
NoDanglingComponent == fw.components \subseteq Loaded(ri)

\* A valid component variable's storage is in the component, so it must be
\* deregistered before the plugin is closed (mca_base_components_close.c:41).
NoStaleVariable == fw.validVars \subseteq Loaded(ri)

\* Exactly the components of an open framework are open: each one that was
\* opened is closed when it leaves the list, by the filter, a failed open, a
\* selection or the framework's close (mca_base_components_open.c:151).
OpenedComponents ==
  fw.opened = IF fw.open /\ kind # "own" THEN fw.components ELSE {}

\* A closed framework that manages its components has given everything back:
\* no components, no valid variables, and no plugin in memory but those a
\* client retains (mca_base_framework_close; mca_base_component_unload).
ClosedIsClean ==
  kind # "own" /\ ~fw.registered =>
    /\ fw.components = {} /\ fw.validVars = {}
    /\ \A c \in Dynamic : ri[c].dlhandle => retained[c] > 0

\* The whole life is that of a counted resource (FrameworkService).
State == IF fw.open THEN "open" ELSE IF fw.registered THEN "registered" ELSE "closed"

Service == INSTANCE FrameworkService WITH users <- Users, state <- State

ImplementsService == Service!Spec

\* A retained plugin stays in memory until the client releases it, "to
\* prevent the dlclose if a component is needed after its framework has
\* closed the associated component" (mca_base_component_repository.h:121).
RetainedStaysLoaded == \A c \in Dynamic : retained[c] > 0 => ri[c].dlhandle
=============================================================================

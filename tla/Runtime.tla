------------------------------ MODULE Runtime -------------------------------
(* ww_init and ww_finalize: the steps that bring the library up, any of      *)
(* which may fail and leave the rest undone, the steps that take it down,    *)
(* and the selection of modules in the frameworks sec and dstore.            *)
EXTENDS Integers, Sequences, FiniteSets, SequencesExt
CONSTANTS Offered,        \* framework -> sequence of its components, as found
          Priority,       \* component -> what its query answers
          MaxCount        \* bound on the count of ww_init
Selecting == {"sec", "dstore"}
RtComponents == UNION {{Offered[f][k] : k \in DOMAIN Offered[f]} : f \in Selecting}
ASSUME RuntimeAssumption ==
  /\ \A f \in Selecting : Offered[f] \in Seq(RtComponents)
  /\ \A c \in RtComponents : Priority[c] \in Int
  /\ "none" \notin RtComponents /\ MaxCount \in Nat
VARIABLES ww_initialized,
          fw,             \* framework -> its reference count and flags
          up,             \* the other parts of the library that are up
          selected, actives,   \* framework -> selection done; modules, best first
          mca_base_opened,
          rt_generation,  \* how often the library was brought up
          rt_freed_twice, \* whether strings of the output system were
          rt_failed,      \* whether a step of that has ever failed,
          rt_refs_off,    \* and whether it left a framework with a wrong count
          rt_classes      \* whether the class system still has its tables
rt_vars == <<ww_initialized, fw, up, selected, actives,
             mca_base_opened, rt_generation, rt_freed_twice, rt_failed, rt_refs_off, rt_classes>>
Frameworks == Selecting \cup {"installdirs", "dl"}
ClosedFramework == [refcnt |-> 0, registered |-> FALSE, open |-> FALSE]

RuntimeInit ==
  /\ ww_initialized = 0
  /\ fw = [f \in Frameworks |-> ClosedFramework]
  /\ up = {}
  /\ selected = [f \in Selecting |-> FALSE]
  /\ actives = [f \in Selecting |-> <<>>]
  /\ mca_base_opened = 0
  /\ rt_generation = 0 /\ rt_freed_twice = FALSE /\ rt_failed = FALSE /\ rt_refs_off = FALSE /\ rt_classes = TRUE
-----------------------------------------------------------------------------
(* The library's state as one record, for steps that are made one by one.    *)
Library == [fw |-> fw, up |-> up, selected |-> selected, actives |-> actives,
          opened |-> mca_base_opened]
Becomes(s) == /\ fw' = s.fw /\ up' = s.up /\ selected' = s.selected
              /\ actives' = s.actives /\ mca_base_opened' = s.opened

(* mca_base_framework_open, as it ends.  A failure to register keeps the     *)
(* reference that was taken; a failure to open gives it back.                *)
FrameworkOpen(s, f) ==
  [s EXCEPT !.fw[f] = [refcnt |-> @.refcnt + 1, registered |-> TRUE, open |-> TRUE]]
FrameworkFails(s, f, registered) ==
  [s EXCEPT !.fw[f].refcnt = IF registered THEN @ ELSE @ + 1,
            !.fw[f].registered = registered \/ @]
(* Mutation: the references are counted from zero to one. *)
FrameworkClose_Early(s, f) ==
  IF ~(s.fw[f].open \/ s.fw[f].registered) \/ s.fw[f].refcnt = 1 THEN s
  ELSE [s EXCEPT !.fw[f] = ClosedFramework]
FrameworkClose(s, f) ==
  LET w == s.fw[f]
  IN  IF ~(w.open \/ w.registered) THEN s
      ELSE [s EXCEPT !.fw[f] = IF w.refcnt = 1 THEN ClosedFramework
                               ELSE [w EXCEPT !.refcnt = w.refcnt - 1]]

(* Each module goes before the first one of a lower priority. *)
(* Mutation: it goes before the first one of a higher priority. *)
InsertByPriority_Reversed(list, c) ==
  LET better == {i \in DOMAIN list : Priority[c] < Priority[list[i]]}
  IN  InsertAt(list, Min(better \cup {Len(list) + 1}), c)
InsertByPriority(list, c) ==
  LET worse == {i \in DOMAIN list : Priority[c] > Priority[list[i]]}
  IN  InsertAt(list, Min(worse \cup {Len(list) + 1}), c)
(* The components are asked in the order they were found; answers are those  *)
(* whose query returns a module.                                             *)
Queried(list, f, answers) ==
  LET after[n \in 0 .. Len(Offered[f])] ==
        IF n = 0 THEN list
        ELSE IF Offered[f][n] \in answers THEN InsertByPriority(after[n - 1], Offered[f][n])
        ELSE after[n - 1]
  IN  after[Len(Offered[f])]
(* Selection is done once only. *)
SelectModules(s, f, answers) ==
  IF s.selected[f] THEN s
  ELSE [s EXCEPT !.selected[f] = TRUE, !.actives[f] = Queried(@, f, answers)]
ww_sec_base_select(s, answers)    == SelectModules(s, "sec", answers)
ww_dstore_base_select(s, answers) == SelectModules(s, "dstore", answers)

(* mca_base_open: base variables, stream 0 and the repository, once only.    *)
BaseOpen(s) ==
  LET t == [s EXCEPT !.opened = @ + 1]
  IN  IF s.opened > 0 THEN t
      ELSE FrameworkOpen([t EXCEPT !.up = @ \cup {"base vars", "repository"}], "dl")
(* ww_output_init: initialized stays set when the output is finalized.       *)
OutputStarted(s) == IF "output" \in s.up THEN s ELSE [s EXCEPT !.up = @ \cup {"output", "verbose stream"}]
Brings(s, part) == [s EXCEPT !.up = @ \cup {part}]
TakesDown(s, parts) == [s EXCEPT !.up = @ \ parts]

InitSteps == <<"output", "installdirs", "help", "keyval", "vars", "files", "params",
           "base", "sec", "select sec", "dstore", "select dstore">>
StepMayFail == {"installdirs", "keyval", "vars", "files", "base", "sec", "dstore"}
(* What each of the steps finds, and what the last one leaves. *)
StepStates(answers) ==
  LET s1  == Library
      s2  == OutputStarted(s1)
      s3  == FrameworkOpen(s2, "installdirs")
      s4  == Brings(s3, "help")
      s5  == Brings(s4, "keyval")
      s6  == Brings(s5, "vars")
      s7  == Brings(s6, "files")
      s8  == Brings(s7, "params")
      s9  == BaseOpen(s8)
      s10 == FrameworkOpen(s9, "sec")
      s11 == ww_sec_base_select(s10, answers)
      s12 == FrameworkOpen(s11, "dstore")
      s13 == ww_dstore_base_select(s12, answers)
  IN  <<s1, s2, s3, s4, s5, s6, s7, s8, s9, s10, s11, s12, s13>>
(* installdirs registers nothing, so it fails when it opens its components;  *)
(* the others fail when they register.  mca_base_open fails at the loader.   *)
StepFailed(s, step) ==
  CASE step = "installdirs" -> FrameworkFails(s, step, TRUE)
    [] step \in {"sec", "dstore"} -> FrameworkFails(s, step, FALSE)
    [] step = "base" -> [Brings(s, "base vars") EXCEPT !.opened = @ + 1]
    [] OTHER -> s
-----------------------------------------------------------------------------
(* ww_init: a count first, and for the first of a pair all the steps. *)
Counted == ww_initialized # 0
InitCounted ==
  /\ Counted /\ ww_initialized < MaxCount
  /\ ww_initialized' = ww_initialized + 1
  /\ UNCHANGED <<fw, up, selected, actives, mca_base_opened,
                 rt_generation, rt_freed_twice, rt_failed, rt_refs_off, rt_classes>>
InitFirst == /\ ~Counted /\ rt_classes
         /\ ww_initialized' = 1
         /\ rt_generation' = rt_generation + 1
         /\ UNCHANGED <<rt_freed_twice, rt_classes>>
InitSucceeds(answers) ==
  /\ InitFirst
  /\ Becomes(StepStates(answers)[Len(InitSteps) + 1])
  /\ UNCHANGED <<rt_failed, rt_refs_off>>
(* mca_base_open does not fail again: it counts and returns.                 *)
InitFails(n, answers) ==
  /\ InitFirst
  /\ InitSteps[n] \in StepMayFail
  /\ InitSteps[n] = "base" => mca_base_opened = 0
  /\ Becomes(StepFailed(StepStates(answers)[n], InitSteps[n]))
  /\ rt_failed' = TRUE
  /\ rt_refs_off' = (rt_refs_off \/ InitSteps[n] \in Frameworks)

(* The modules' list is emptied when the framework closes, and not before.   *)
CloseSelecting(s, f) ==
  LET t == FrameworkClose(s, f)
  IN  IF s.fw[f].open /\ ~t.fw[f].open THEN [t EXCEPT !.actives[f] = <<>>] ELSE t
ww_sec_close(s)    == CloseSelecting(s, "sec")
ww_dstore_close(s) == CloseSelecting(s, "dstore")
(* ww_finalize: a count, and for the last of a pair everything but what      *)
(* mca_base_open brought up.  ww_output_finalize frees the strings of the    *)
(* output system, which are allocated together with the verbose stream;      *)
(* what follows when they are freed again is undefined and not modelled.     *)
FinalizeCounted ==
  /\ ww_initialized # 1 /\ ww_initialized > -1
  /\ ww_initialized' = ww_initialized - 1
  /\ UNCHANGED <<fw, up, selected, actives, mca_base_opened,
                 rt_generation, rt_freed_twice, rt_failed, rt_refs_off, rt_classes>>
Finalize ==
  /\ ww_initialized = 1
  /\ ww_initialized' = 0
  /\ LET s1 == ww_sec_close(Library)
         s2 == TakesDown(s1, {"params", "vars", "files", "base vars", "keyval"})
         s3 == FrameworkClose(s2, "installdirs")
         s4 == TakesDown(s3, {"help", "verbose stream"})
     IN  Becomes(ww_dstore_close(s4))
  /\ rt_freed_twice' = ("verbose stream" \notin up)
  /\ UNCHANGED <<rt_generation, rt_failed, rt_refs_off, rt_classes>>
(* The destructor of the library, at exit: with a count of 0 it has nothing  *)
(* to do.                                                                    *)
Cleanup ==
  /\ Counted /\ rt_classes
  /\ rt_classes' = FALSE
  /\ UNCHANGED <<ww_initialized, fw, up, selected, actives,
                 mca_base_opened, rt_generation, rt_freed_twice, rt_failed, rt_refs_off>>

(* ww_sec_base_assign_module, of components that all have one to assign.     *)
AssignModule(options) ==
  LET wanted == {k \in DOMAIN actives["sec"] : actives["sec"][k] \in options}
  IN  IF fw["sec"].open /\ wanted # {} THEN actives["sec"][Min(wanted)] ELSE "none"

RuntimeNext ==
  /\ ~rt_freed_twice
  /\ \/ InitCounted \/ FinalizeCounted \/ Finalize \/ Cleanup
     \/ \E answers \in SUBSET RtComponents :
          \/ InitSucceeds(answers)
          \/ \E n \in 1 .. Len(InitSteps) : InitFails(n, answers)
RuntimeSpec == RuntimeInit /\ [][RuntimeNext]_rt_vars
-----------------------------------------------------------------------------
(* Between the first ww_init and its ww_finalize, unless a step failed,      *)
(* everything is up; later ones bring up the frameworks and the variables    *)
(* again, but not the base's variables, the verbose stream nor any module.   *)
(* The module assigned is the best of those asked for (ww_init.c:60-150,     *)
(* sec_base_select.c:40-105, sec_base_fns.c:52-88).                          *)
InUseIsReady ==
  ww_initialized > 0 /\ ~rt_failed =>
    /\ \A f \in Frameworks : fw[f] = [refcnt |-> 1, registered |-> TRUE, open |-> TRUE]
    /\ {"output", "help", "keyval", "vars", "files", "params", "repository"} \subseteq up
    /\ IF rt_generation = 1 THEN {"base vars", "verbose stream"} \subseteq up
                            ELSE \A f \in Selecting : actives[f] = <<>>
    /\ \A options \in SUBSET RtComponents : \A c \in options \cap ToSet(actives["sec"]) :
         AssignModule(options) # "none" /\ Priority[AssignModule(options)] >= Priority[c]

(* The last ww_finalize takes down all but the base and the output system,   *)
(* however far ww_init came, as long as no framework failed to open: then    *)
(* its count is wrong for good (ww_finalize.c:51-90).                        *)
FinalizedIsClosed ==
  ww_initialized <= 0 /\ ~rt_refs_off =>
    /\ \A f \in Frameworks \ {"dl"} : fw[f] = ClosedFramework
    /\ \A f \in Selecting : actives[f] = <<>>
    /\ up \subseteq {"output", "repository"}
    /\ fw["dl"].open => "repository" \in up

(* Every ww_init that succeeds leaves the library ready and every last       *)
(* ww_finalize takes it down, in whatever order the steps of several callers *)
(* come and fail (ww_init.c:60-150, ww_finalize.c:51-90).                    *)
RuntimeStaged == InUseIsReady /\ FinalizedIsClosed
=============================================================================

-------------------------- MODULE VarRegistry_proofs --------------------------
(***************************************************************************)
(* Proofs about VarRegistry, for all variables, synonyms, groups and       *)
(* configurations.                                                         *)
(***************************************************************************)
EXTENDS VarRegistry, TLAPS

Table == [Names -> Var_t]

\* What no step of a search changes: t comes from m by a search for the
\* variable o under its name or synonym n.
SearchFrame(m, t, n, o) ==
  /\ t \in Table
  /\ \A k \in Names : /\ t[k].exists = m[k].exists /\ t[k].valid = m[k].valid
                      /\ t[k].settable => m[k].settable
                      /\ k \notin {n, o} => t[k] = m[k]
                      /\ k # o => t[k].value = m[k].value
  /\ n # o => t[o].settable = m[o].settable

LEMMA FrameReflexive ==
  ASSUME NEW m \in Table, NEW n, NEW o
  PROVE  SearchFrame(m, m, n, o)
BY DEF SearchFrame

LEMMA FrameTransitive ==
  ASSUME NEW m, NEW t, NEW u, NEW n \in Names, NEW o \in Names,
         SearchFrame(m, t, n, o), SearchFrame(t, u, n, o)
  PROVE  SearchFrame(m, u, n, o)
BY DEF SearchFrame

LEMMA FrameTable ==
  ASSUME NEW m, NEW t, NEW n, NEW o, SearchFrame(m, t, n, o)
  PROVE  t \in Table
BY DEF SearchFrame

\* The value given for n in a layer.
At(layer, n) == <<layer, n>>

\* Why a step finds nothing.
FileBlocked(m, n, o, layer) ==
  \/ n \notin config.given[layer] \/ n \in config.defaultOnly
  \/ o \in config.envOnly \/ m[o].source = "override"

EnvBlocked(m, n, o) ==
  n \notin config.given["env"] \/ o \in config.defaultOnly \/ m[o].source = "override"

\* A file's step: not found, or the source is a file and, if the value can be
\* read, the variable has it.
LEMMA FileStep ==
  ASSUME NEW m \in Table, NEW n \in Names, NEW o \in Names, NEW layer \in Layers
  PROVE  /\ SearchFrame(m, SetFromFile(m, n, o, layer).mbv, n, o)
         /\ FileBlocked(m, n, o, layer) <=> SetFromFile(m, n, o, layer).rc = "NOT_FOUND"
         /\ FileBlocked(m, n, o, layer) => SetFromFile(m, n, o, layer).mbv = m
         /\ ~FileBlocked(m, n, o, layer) /\ At(layer, n) \notin config.unreadable =>
              /\ SetFromFile(m, n, o, layer).rc = "SUCCESS"
              /\ SetFromFile(m, n, o, layer).mbv[o].value = At(layer, n)
              /\ SetFromFile(m, n, o, layer).mbv[o].source = "file"
<1> DEFINE r  == SetFromFile(m, n, o, layer)
           m1 == [m EXCEPT ![o].source = "file", ![n].source = "file"]
<1>1. CASE FileBlocked(m, n, o, layer)
  <2>1. r = [rc |-> "NOT_FOUND", mbv |-> m]
    BY <1>1 DEF SetFromFile, NotFound, FileBlocked
  <2> QED
    BY <1>1, <2>1, FrameReflexive
<1>2. CASE ~FileBlocked(m, n, o, layer)
  <2>1. r = SetFromString(m1, n, o, layer)
    BY <1>2 DEF SetFromFile, FileBlocked
  <2>2. m1 \in Table /\ SearchFrame(m, m1, n, o) /\ m1[o].source = "file"
    BY DEF Table, Var_t, Sources, SearchFrame
  <2> HIDE DEF m1
  <2>3. CASE At(layer, n) \in config.unreadable
    <3>1. r = [rc |-> "VALUE_OUT_OF_BOUNDS", mbv |-> m1]
      BY <2>1, <2>3 DEF SetFromString, At
    <3> QED
      BY <1>2, <2>2, <2>3, <3>1
  <2>4. CASE At(layer, n) \notin config.unreadable
    <3> DEFINE m2 == [m1 EXCEPT ![o].value = At(layer, n)]
    <3>1. r = [rc |-> "SUCCESS", mbv |-> m2]
      BY <2>1, <2>4 DEF SetFromString, At
    <3>2. At(layer, n) \in Values
      BY DEF Values, At
    <3>3. m2 \in Table /\ SearchFrame(m1, m2, n, o)
      BY <2>2, <3>2 DEF Table, Var_t, SearchFrame
    <3>4. m2[o].value = At(layer, n) /\ m2[o].source = "file"
      BY <2>2, <3>2 DEF Table, Var_t
    <3> HIDE DEF m2
    <3>5. SearchFrame(m, m2, n, o)
      BY <2>2, <3>3, FrameTransitive
    <3> QED
      BY <1>2, <2>2, <3>1, <3>4, <3>5
  <2> QED
    BY <2>3, <2>4
<1> QED
  BY <1>1, <1>2

\* The environment's step.
LEMMA EnvStep ==
  ASSUME NEW m \in Table, NEW n \in Names, NEW o \in Names
  PROVE  /\ SearchFrame(m, SetFromEnv(m, n, o).mbv, n, o)
         /\ EnvBlocked(m, n, o) <=> SetFromEnv(m, n, o).rc = "NOT_FOUND"
         /\ EnvBlocked(m, n, o) => SetFromEnv(m, n, o).mbv = m
         /\ ~EnvBlocked(m, n, o) /\ At("env", n) \notin config.unreadable =>
              /\ SetFromEnv(m, n, o).mbv[o].value = At("env", n)
              /\ SetFromEnv(m, n, o).mbv[o].source = "env"
<1> DEFINE r  == SetFromEnv(m, n, o)
           m1 == [m EXCEPT ![o].source = "env"]
<1>1. CASE EnvBlocked(m, n, o)
  <2>1. r = [rc |-> "NOT_FOUND", mbv |-> m]
    BY <1>1 DEF SetFromEnv, NotFound, EnvBlocked
  <2> QED
    BY <1>1, <2>1, FrameReflexive
<1>2. CASE ~EnvBlocked(m, n, o)
  <2>1. r = SetFromString(m1, n, o, "env")
    BY <1>2 DEF SetFromEnv, EnvBlocked
  <2>2. m1 \in Table /\ SearchFrame(m, m1, n, o) /\ m1[o].source = "env"
    BY DEF Table, Var_t, Sources, SearchFrame
  <2> HIDE DEF m1
  <2>3. CASE At("env", n) \in config.unreadable
    <3>1. r = [rc |-> "VALUE_OUT_OF_BOUNDS", mbv |-> m1]
      BY <2>1, <2>3 DEF SetFromString, At
    <3> QED
      BY <1>2, <2>2, <2>3, <3>1
  <2>4. CASE At("env", n) \notin config.unreadable
    <3> DEFINE m2 == [m1 EXCEPT ![o].value = At("env", n)]
    <3>1. r = [rc |-> "SUCCESS", mbv |-> m2]
      BY <2>1, <2>4 DEF SetFromString, At
    <3>2. At("env", n) \in Values
      BY DEF Values, At, Layers
    <3>3. m2 \in Table /\ SearchFrame(m1, m2, n, o)
      BY <2>2, <3>2 DEF Table, Var_t, SearchFrame
    <3>4. m2[o].value = At("env", n) /\ m2[o].source = "env"
      BY <2>2, <3>2 DEF Table, Var_t
    <3> HIDE DEF m2
    <3>5. SearchFrame(m, m2, n, o)
      BY <2>2, <3>3, FrameTransitive
    <3> QED
      BY <1>2, <3>1, <3>4, <3>5
  <2> QED
    BY <2>3, <2>4
<1> QED
  BY <1>1, <1>2

(***************************************************************************)
(* The whole search.                                                       *)
(***************************************************************************)

\* The table the search starts on, and the one after the override file.
Started(m, n, o) == [m EXCEPT ![n].source = IF n = o THEN "default" ELSE m[o].source]
Overridden(m, n, o) == Override(SetFromFile(Started(m, n, o), n, o, "override"), n)

LEMMA StartedFrame ==
  ASSUME NEW m \in Table, NEW n \in Names, NEW o \in Names
  PROVE  /\ SearchFrame(m, Started(m, n, o), n, o)
         /\ Started(m, n, o)[n].source = IF n = o THEN "default" ELSE m[o].source
         /\ n # o => Started(m, n, o)[o] = m[o]
BY DEF Started, Table, Var_t, Sources, SearchFrame

LEMMA OverriddenFrame ==
  ASSUME NEW m \in Table, NEW n \in Names, NEW o \in Names
  PROVE  SearchFrame(m, Overridden(m, n, o), n, o)
<1> DEFINE m1 == Started(m, n, o)
           r  == SetFromFile(m1, n, o, "override")
           m2 == [r.mbv EXCEPT ![n].settable = FALSE, ![n].source = "override"]
<1>1. SearchFrame(m, m1, n, o) /\ m1 \in Table
  BY StartedFrame DEF SearchFrame
<1> HIDE DEF m1
<1>2. SearchFrame(m1, r.mbv, n, o)
  BY <1>1, FileStep DEF Layers
<1>3. r.mbv \in Table
  BY <1>2 DEF SearchFrame
<1> HIDE DEF r
<1>4. SearchFrame(r.mbv, m2, n, o)
  BY <1>3 DEF SearchFrame, Table, Var_t, Sources
<1>5. SearchFrame(m, r.mbv, n, o)
  BY <1>1, <1>2, FrameTransitive
<1>6. SearchFrame(m, m2, n, o)
  BY <1>4, <1>5, FrameTransitive
<1>7. Overridden(m, n, o) = IF r.rc = "SUCCESS" THEN m2 ELSE r.mbv
  BY DEF Overridden, Override, r, m1
<1> QED
  BY <1>5, <1>6, <1>7

\* How the search goes on.
LEMMA SearchResult ==
  ASSUME NEW m, NEW n, NEW o
  PROVE  LET m2 == Overridden(m, n, o)
             ev == SetFromEnv(m2, n, o)
             ef == SetFromFile(m2, n, o, "envfile")
             fi == SetFromFile(m2, n, o, "file")
         IN  \/ ev.rc # "NOT_FOUND" /\ SetInitial(m, n, o) = ev.mbv
             \/ ev.rc = "NOT_FOUND" /\ ef.rc # "NOT_FOUND" /\ SetInitial(m, n, o) = ef.mbv
             \/ ev.rc = "NOT_FOUND" /\ ef.rc = "NOT_FOUND" /\ SetInitial(m, n, o) = fi.mbv
BY DEF SetInitial, Overridden, Started

LEMMA SetInitialFrame ==
  ASSUME NEW m \in Table, NEW n \in Names, NEW o \in Names
  PROVE  SearchFrame(m, SetInitial(m, n, o), n, o)
<1> DEFINE m2 == Overridden(m, n, o)
<1>1. SearchFrame(m, m2, n, o) /\ m2 \in Table
  BY OverriddenFrame DEF SearchFrame
<1>2. SearchFrame(m2, SetFromEnv(m2, n, o).mbv, n, o)
  BY <1>1, EnvStep
<1>3. SearchFrame(m2, SetFromFile(m2, n, o, "envfile").mbv, n, o)
  BY <1>1, FileStep DEF Layers
<1>4. SearchFrame(m2, SetFromFile(m2, n, o, "file").mbv, n, o)
  BY <1>1, FileStep DEF Layers
<1>5. \/ SetInitial(m, n, o) = SetFromEnv(m2, n, o).mbv
      \/ SetInitial(m, n, o) = SetFromFile(m2, n, o, "envfile").mbv
      \/ SetInitial(m, n, o) = SetFromFile(m2, n, o, "file").mbv
  BY SearchResult
<1> HIDE DEF m2
<1> QED
  BY <1>1, <1>2, <1>3, <1>4, <1>5, FrameTransitive

(***************************************************************************)
(* What the search finds.                                                  *)
(***************************************************************************)

\* The source that belongs to a value of v.
SourceOf(value, v) ==
  IF value[1] \in {"envfile", "file"} \/ (value[1] = "override" /\ value[2] # v)
  THEN "file" ELSE value[1]

LEMMA StartedValue ==
  ASSUME NEW m \in Table, NEW n \in Names, NEW o \in Names
  PROVE  \A k \in Names : Started(m, n, o)[k].value = m[k].value
BY DEF Started, Table, Var_t

\* Under its own name a variable gets the documented value, with the source
\* that belongs to it, and is not settable if it is overridden.
LEMMA OwnSearch ==
  ASSUME NEW m \in Table, NEW v \in Variables, Readable(v), m[v].value = <<"default", v>>
  PROVE  LET t == SetInitial(m, v, v)
         IN  /\ t[v].value = Documented(v)
             /\ t[v].source = SourceOf(Documented(v), v)
             /\ "override" \in LayersWith(v) => ~t[v].settable
<1> DEFINE t  == SetInitial(m, v, v)
           m1 == Started(m, v, v)
           r  == SetFromFile(m1, v, v, "override")
           m2 == Overridden(m, v, v)
           ev == SetFromEnv(m2, v, v)
           ef == SetFromFile(m2, v, v, "envfile")
           fi == SetFromFile(m2, v, v, "file")
<1> USE DEF Layers
<1>0. v \in Names /\ \A l \in Layers : At(l, v) \notin config.unreadable
  BY NameAssumption DEF Names, Readable, OriginalOf, At
<1>1. /\ m1 \in Table /\ m1[v].source = "default" /\ m1[v].value = At("default", v)
      /\ m2 \in Table
  BY <1>0, StartedFrame, StartedValue, OverriddenFrame, FrameTable DEF At
<1>2. m2 = Override(r, v)
  BY DEF Overridden
<1>3. \/ ev.rc # "NOT_FOUND" /\ t = ev.mbv
      \/ ev.rc = "NOT_FOUND" /\ ef.rc # "NOT_FOUND" /\ t = ef.mbv
      \/ ev.rc = "NOT_FOUND" /\ ef.rc = "NOT_FOUND" /\ t = fi.mbv
  BY SearchResult
<1>4. /\ LayersWith(v) \subseteq Layers
      /\ "env" \in LayersWith(v) <=> v \in config.given["env"] /\ v \notin config.defaultOnly
      /\ \A l \in {"override", "envfile", "file"} :
           l \in LayersWith(v) <=>
             v \in config.given[l] /\ v \notin config.defaultOnly /\ v \notin config.envOnly
  BY DEF LayersWith, AllowedLayers
<1> HIDE DEF m1, t, Layers
<1>5. "override" \in LayersWith(v) <=> ~FileBlocked(m1, v, v, "override")
  BY <1>1, <1>4 DEF FileBlocked
<1>6. /\ r.mbv \in Table
      /\ "override" \in LayersWith(v) <=> r.rc # "NOT_FOUND"
      /\ "override" \notin LayersWith(v) => r.mbv = m1
      /\ "override" \in LayersWith(v) => r.rc = "SUCCESS" /\ r.mbv[v].value = At("override", v)
  <2>1. "override" \in Layers
    BY DEF Layers
  <2> QED
    BY <1>0, <1>1, <1>5, <2>1, FileStep, FrameTable
<1> HIDE DEF r
<1>7. CASE "override" \in LayersWith(v)
  <2>1. m2 = [r.mbv EXCEPT ![v].settable = FALSE, ![v].source = "override"]
    BY <1>2, <1>6, <1>7 DEF Override
  <2>2. /\ m2[v].value = At("override", v) /\ m2[v].source = "override"
        /\ ~m2[v].settable
    BY <1>0, <1>6, <1>7, <2>1 DEF Table, Var_t
  <2> HIDE DEF m2
  <2>3. ev.rc = "NOT_FOUND" /\ ef.rc = "NOT_FOUND" /\ fi.mbv = m2
    <3>1. EnvBlocked(m2, v, v) /\ \A l \in Layers : FileBlocked(m2, v, v, l)
      BY <2>2 DEF EnvBlocked, FileBlocked
    <3>2. "envfile" \in Layers /\ "file" \in Layers
      BY DEF Layers
    <3> QED
      BY <1>0, <1>1, <3>1, <3>2, EnvStep, FileStep
  <2>4. Documented(v) = At("override", v)
    BY <1>7 DEF Documented, At
  <2>5. t = m2
    BY <1>3, <2>3
  <2> QED
    BY <2>2, <2>4, <2>5 DEF SourceOf, At, t
<1>8. CASE "override" \notin LayersWith(v)
  <2>1. m2 = m1
    BY <1>2, <1>6, <1>8 DEF Override
  <2>2. m2[v].source = "default" /\ m2[v].value = At("default", v)
    BY <1>1, <2>1
  <2> HIDE DEF m2
  <2>3. /\ ev.rc # "NOT_FOUND" <=> "env" \in LayersWith(v)
        /\ "env" \in LayersWith(v) => ev.mbv[v].value = At("env", v) /\ ev.mbv[v].source = "env"
    <3>1. "env" \in LayersWith(v) <=> ~EnvBlocked(m2, v, v)
      BY <1>4, <2>2 DEF EnvBlocked
    <3>2. "env" \in Layers
      BY DEF Layers
    <3> QED
      BY <1>0, <1>1, <3>1, <3>2, EnvStep
  <2>4. /\ ef.rc # "NOT_FOUND" <=> "envfile" \in LayersWith(v)
        /\ "envfile" \in LayersWith(v) => ef.mbv[v].value = At("envfile", v) /\ ef.mbv[v].source = "file"
    <3>1. "envfile" \in LayersWith(v) <=> ~FileBlocked(m2, v, v, "envfile")
      BY <1>4, <2>2 DEF FileBlocked
    <3>2. "envfile" \in Layers
      BY DEF Layers
    <3> QED
      BY <1>0, <1>1, <3>1, <3>2, FileStep
  <2>5. /\ "file" \in LayersWith(v) => fi.mbv[v].value = At("file", v) /\ fi.mbv[v].source = "file"
        /\ "file" \notin LayersWith(v) => fi.mbv = m2
    <3>1. "file" \in LayersWith(v) <=> ~FileBlocked(m2, v, v, "file")
      BY <1>4, <2>2 DEF FileBlocked
    <3>2. "file" \in Layers
      BY DEF Layers
    <3> QED
      BY <1>0, <1>1, <3>1, <3>2, FileStep
  <2>6. CASE "env" \in LayersWith(v)
    <3>1. Documented(v) = At("env", v)
      BY <1>8, <2>6 DEF Documented, At
    <3> QED
      BY <1>3, <1>8, <2>3, <2>6, <3>1 DEF SourceOf, At, t
  <2>7. CASE "env" \notin LayersWith(v) /\ "envfile" \in LayersWith(v)
    <3>1. Documented(v) = At("envfile", v)
      BY <1>8, <2>7 DEF Documented, At
    <3> QED
      BY <1>3, <1>8, <2>3, <2>4, <2>7, <3>1 DEF SourceOf, At, t
  <2>8. CASE LayersWith(v) = {"file"}
    <3>1. Documented(v) = At("file", v)
      BY <2>8 DEF Documented, At
    <3> QED
      BY <1>3, <1>8, <2>3, <2>4, <2>5, <2>8, <3>1 DEF SourceOf, At, t
  <2>9. CASE LayersWith(v) = {}
    <3>1. Documented(v) = At("default", v)
      BY <2>9 DEF Documented, At
    <3> QED
      BY <1>3, <1>8, <2>2, <2>3, <2>4, <2>5, <2>9, <3>1 DEF SourceOf, At, t
  <2> QED
    BY <1>4, <1>8, <2>6, <2>7, <2>8, <2>9 DEF Layers
<1> QED
  BY <1>7, <1>8

\* Under a synonym's name an overridden variable stays as it is, and any
\* other has a source that belongs to its value.
LEMMA SynonymSearch ==
  ASSUME NEW m \in Table, NEW s \in Synonyms, Readable(Original[s]),
         m[Original[s]].source = SourceOf(m[Original[s]].value, Original[s])
  PROVE  LET o == Original[s]
             t == SetInitial(m, s, o)
         IN  /\ t[o].source = SourceOf(t[o].value, o)
             /\ m[o].source = "override" => t[o] = m[o]
<1> DEFINE o  == Original[s]
           t  == SetInitial(m, s, o)
           m1 == Started(m, s, o)
           r  == SetFromFile(m1, s, o, "override")
           m2 == Overridden(m, s, o)
           ev == SetFromEnv(m2, s, o)
           ef == SetFromFile(m2, s, o, "envfile")
           fi == SetFromFile(m2, s, o, "file")
<1>0. /\ s \in Names /\ o \in Variables /\ o \in Names /\ s # o
      /\ \A l \in Layers : At(l, s) \notin config.unreadable
  BY NameAssumption DEF Names, Readable, OriginalOf, At
<1>1. m[o].source = SourceOf(m[o].value, o)
  OBVIOUS
<1> HIDE DEF o
<1>2. m1 \in Table /\ m1[o] = m[o] /\ m2 \in Table
  BY <1>0, StartedFrame, OverriddenFrame, FrameTable
<1>3. m2 = Override(r, s)
  BY DEF Overridden
<1>4. \/ t = ev.mbv
      \/ t = ef.mbv
      \/ t = fi.mbv
  BY SearchResult
<1> HIDE DEF m1, t
<1>5. /\ r.mbv \in Table
      /\ m[o].source = "override" => r.mbv = m1
      /\ \/ r.mbv = m1
         \/ r.mbv[o].value = At("override", s) /\ r.mbv[o].source = "file"
  <2>1. "override" \in Layers
    BY DEF Layers
  <2>2. m[o].source = "override" => FileBlocked(m1, s, o, "override")
    BY <1>2 DEF FileBlocked
  <2> QED
    BY <1>0, <1>2, <2>1, <2>2, FileStep, FrameTable
<1> HIDE DEF r
<1>6. m2[o] = r.mbv[o]
  BY <1>0, <1>3, <1>5 DEF Override, Table, Var_t
<1> HIDE DEF m2
<1>7. /\ m2[o].source = SourceOf(m2[o].value, o)
      /\ m[o].source = "override" => m2[o] = m[o]
  BY <1>0, <1>2, <1>5, <1>6, <1>1 DEF SourceOf, At
<1>8. /\ m2[o].source = "override" => ev.mbv = m2
      /\ ev.mbv = m2 \/ (ev.mbv[o].value = At("env", s) /\ ev.mbv[o].source = "env")
  <2>1. "env" \in Layers
    BY DEF Layers
  <2>2. m2[o].source = "override" => EnvBlocked(m2, s, o)
    BY DEF EnvBlocked
  <2> QED
    BY <1>0, <1>2, <2>1, <2>2, EnvStep
<1>9. ASSUME NEW l \in {"envfile", "file"}
      PROVE  LET f == SetFromFile(m2, s, o, l)
             IN  /\ m2[o].source = "override" => f.mbv = m2
                 /\ f.mbv = m2 \/ (f.mbv[o].value = At(l, s) /\ f.mbv[o].source = "file")
  <2>1. l \in Layers
    BY DEF Layers
  <2>2. m2[o].source = "override" => FileBlocked(m2, s, o, l)
    BY DEF FileBlocked
  <2> QED
    BY <1>0, <1>2, <2>1, <2>2, FileStep
<1>10. /\ t[o].source = SourceOf(t[o].value, o)
       /\ m[o].source = "override" => t[o] = m[o]
  BY <1>4, <1>7, <1>8, <1>9 DEF SourceOf, At
<1> QED
  BY <1>10 DEF o, t

(***************************************************************************)
(* What the operations do to the table.                                    *)
(***************************************************************************)

LEMMA RegisterTable ==
  ASSUME VarTypeOK, NEW v \in Variables, RegisterVariable(v)
  PROVE  /\ mbv' \in Table
         /\ \A k \in Names : k # v => mbv'[k] = mbv[k]
         /\ mbv'[v].exists /\ mbv'[v].valid
         /\ Readable(v) =>
              /\ mbv'[v].value = Documented(v)
              /\ mbv'[v].source = SourceOf(Documented(v), v)
              /\ "override" \in LayersWith(v) => ~mbv'[v].settable
<1> DEFINE b     == IF mbv[v].exists THEN mbv[v].settable ELSE v \in config.settable
           fresh == [mbv[v] EXCEPT !.exists = TRUE, !.valid = TRUE, !.value = <<"default", v>>,
                                   !.settable = b]
           m     == [mbv EXCEPT ![v] = fresh]
<1>1. v \in Names /\ mbv \in Table
  BY DEF Names, VarTypeOK, Table
<1>2. <<"default", v>> \in Values
  BY <1>1 DEF Values
<1>3. mbv' = SetInitial(m, v, v)
  BY DEF RegisterVariable
<1>4. mbv[v] \in Var_t
  BY <1>1 DEF Table
<1>5. b \in BOOLEAN
  <2>1. CASE mbv[v].exists
    BY <1>4, <2>1 DEF Var_t
  <2>2. CASE ~mbv[v].exists
    <3>1. CASE v \in config.settable
      <4>1. b = TRUE
        BY <2>2, <3>1
      <4> QED
        BY <4>1
    <3>2. CASE v \notin config.settable
      <4>1. b = FALSE
        BY <2>2, <3>2
      <4> QED
        BY <4>1
    <3> QED
      BY <3>1, <3>2
  <2> QED
    BY <2>1, <2>2
<1> HIDE DEF b
<1>6. fresh \in Var_t /\ fresh.exists /\ fresh.valid /\ fresh.value = <<"default", v>>
  BY <1>2, <1>4, <1>5 DEF Var_t
<1> HIDE DEF fresh
<1>7. /\ m \in Table /\ m[v].exists /\ m[v].valid /\ m[v].value = <<"default", v>>
      /\ \A k \in Names : k # v => m[k] = mbv[k]
  BY <1>1, <1>6 DEF Table
<1> HIDE DEF m
<1>8. SearchFrame(m, mbv', v, v)
  BY <1>1, <1>3, <1>7, SetInitialFrame
<1>9. Readable(v) =>
        /\ mbv'[v].value = Documented(v)
        /\ mbv'[v].source = SourceOf(Documented(v), v)
        /\ "override" \in LayersWith(v) => ~mbv'[v].settable
  BY <1>3, <1>7, OwnSearch
<1>10. /\ mbv' \in Table
       /\ \A k \in Names : k # v => mbv'[k] = mbv[k]
       /\ mbv'[v].exists /\ mbv'[v].valid
  BY <1>1, <1>7, <1>8 DEF SearchFrame
<1> QED
  BY <1>9, <1>10

LEMMA SynonymTable ==
  ASSUME VarTypeOK, NEW s \in Synonyms, RegisterSynonym(s), NEW o, o = Original[s]
  PROVE  /\ o \in Variables /\ o # s /\ mbv' \in Table
         /\ \A k \in Names : k \notin {s, o} => mbv'[k] = mbv[k]
         /\ mbv'[s].exists /\ mbv'[s].value = mbv[s].value
         /\ mbv'[o].exists = mbv[o].exists /\ mbv[o].valid
         /\ mbv'[o].settable = mbv[o].settable
         /\ Readable(o) /\ mbv[o].source = SourceOf(mbv[o].value, o) =>
              /\ mbv'[o].source = SourceOf(mbv'[o].value, o)
              /\ mbv[o].source = "override" => mbv'[o] = mbv[o]
<1> DEFINE m == [mbv EXCEPT ![s].exists = TRUE, ![s].valid = TRUE]
<1>1. s \in Names /\ o \in Names /\ o \in Variables /\ o # s /\ mbv \in Table
  BY NameAssumption DEF Names, VarTypeOK, Table
<1>2. mbv' = SetInitial(m, s, o) /\ mbv[o].valid
  BY DEF RegisterSynonym
<1>3. /\ m \in Table /\ m[s].exists /\ m[s].value = mbv[s].value
      /\ \A k \in Names : k # s => m[k] = mbv[k]
  BY <1>1 DEF Table, Var_t
<1> HIDE DEF m
<1>4. SearchFrame(m, mbv', s, o)
  BY <1>1, <1>2, <1>3, SetInitialFrame
<1>5. /\ mbv' \in Table
      /\ \A k \in Names : k \notin {s, o} => mbv'[k] = mbv[k]
      /\ mbv'[s].exists /\ mbv'[s].value = mbv[s].value
      /\ mbv'[o].exists = mbv[o].exists
      /\ mbv'[o].settable = mbv[o].settable
  BY <1>1, <1>3, <1>4 DEF SearchFrame
<1>6. Readable(o) /\ mbv[o].source = SourceOf(mbv[o].value, o) =>
        /\ mbv'[o].source = SourceOf(mbv'[o].value, o)
        /\ mbv[o].source = "override" => mbv'[o] = mbv[o]
  BY <1>1, <1>2, <1>3, SynonymSearch
<1> QED
  BY <1>1, <1>2, <1>5, <1>6

\* The other operations.
Touch == \/ \E n \in Names : SetValue(n) \/ Deregister(n)
         \/ \E g \in Groups : GroupLock(g) \/ GroupDeregister(g)

LEMMA DeregisterTable ==
  ASSUME VarTypeOK, NEW gone \in SUBSET Names, mbv' = VarDeregister(mbv, gone)
  PROVE  /\ mbv' \in Table
         /\ \A k \in Names : /\ mbv'[k].exists = mbv[k].exists
                             /\ mbv'[k].value \in {mbv[k].value, <<"none", k>>}
                             /\ mbv'[k].valid => k \notin gone /\ mbv'[k] = mbv[k]
<1>1. mbv \in [Names -> Var_t]
  BY DEF VarTypeOK
<1>2. \A k \in Names : <<"none", k>> \in Values
  BY DEF Values
<1>3. mbv' = [k \in Names |-> IF k \in gone
                   THEN [mbv[k] EXCEPT !.valid = FALSE, !.value = <<"none", k>>] ELSE mbv[k]]
  BY DEF VarDeregister
<1>4. ASSUME NEW k \in Names
      PROVE  /\ mbv'[k] \in Var_t
             /\ mbv'[k].exists = mbv[k].exists
             /\ mbv'[k].value \in {mbv[k].value, <<"none", k>>}
             /\ mbv'[k].valid => k \notin gone /\ mbv'[k] = mbv[k]
  <2>1. CASE k \in gone
    <3>1. mbv'[k] = [mbv[k] EXCEPT !.valid = FALSE, !.value = <<"none", k>>]
      BY <1>3, <2>1
    <3> QED
      BY <1>1, <1>2, <3>1 DEF Var_t
  <2>2. CASE k \notin gone
    <3>1. mbv'[k] = mbv[k]
      BY <1>3, <2>2
    <3> QED
      BY <1>1, <2>2, <3>1
  <2> QED
    BY <2>1, <2>2
<1> QED
  BY <1>3, <1>4 DEF Table

\* A variable that stays valid keeps its value and source, or it was settable
\* and is set.
Touched(y, x, v) ==
  /\ x.valid
  /\ y.settable => x.settable
  /\ \/ y.value = x.value /\ y.source = x.source
     \/ y.value = <<"set", v>> /\ y.source = "set" /\ x.settable

\* They register nothing.
LEMMA TouchTable ==
  ASSUME VarTypeOK, Touch
  PROVE  /\ config' = config /\ mbv' \in Table
         /\ \A k \in Names : mbv'[k].exists = mbv[k].exists
         /\ \A s \in Synonyms : mbv'[s].value = <<"none", s>>
         /\ \A v \in Variables : mbv'[v].valid => Touched(mbv'[v], mbv[v], v)
<1>1. /\ mbv \in [Names -> Var_t] /\ Variables \subseteq Names /\ Synonyms \subseteq Names
      /\ \A s \in Synonyms : mbv[s].value = <<"none", s>>
  BY DEF VarTypeOK, Names
<1> DEFINE Goal == /\ mbv' \in Table
                   /\ \A k \in Names : mbv'[k].exists = mbv[k].exists
                   /\ \A s \in Synonyms : mbv'[s].value = <<"none", s>>
                   /\ \A v \in Variables : mbv'[v].valid => Touched(mbv'[v], mbv[v], v)
<1>2. ASSUME NEW n \in Names, SetValue(n)
      PROVE  Goal
  <2> DEFINE o == OriginalOf(n)
  <2>1. /\ o \in Variables /\ mbv[o].settable /\ mbv[o].valid
        /\ mbv' = [mbv EXCEPT ![o].value = <<"set", o>>, ![o].source = "set"]
    BY <1>2, NameAssumption DEF SetValue, OriginalOf, Names
  <2> HIDE DEF o
  <2>2. <<"set", o>> \in Values
    BY <1>1, <2>1 DEF Values
  <2>3. /\ mbv' \in [Names -> Var_t]
        /\ \A k \in Names : k # o => mbv'[k] = mbv[k]
        /\ mbv'[o].exists = mbv[o].exists /\ mbv'[o].settable = mbv[o].settable
        /\ mbv'[o].value = <<"set", o>> /\ mbv'[o].source = "set"
    BY <1>1, <2>1, <2>2 DEF Var_t, Sources
  <2>4. \A s \in Synonyms : s # o
    BY <2>1, NameAssumption
  <2> QED
    BY <1>1, <2>1, <2>3, <2>4 DEF Table, Touched
<1>3. ASSUME NEW gone \in SUBSET Names, mbv' = VarDeregister(mbv, gone)
      PROVE  Goal
  BY <1>1, <1>3, DeregisterTable DEF Touched
<1>4. ASSUME NEW g \in Groups, GroupLock(g)
      PROVE  Goal
  <2>1. PICK locked : mbv' = [n \in Names |-> IF n \in locked THEN [mbv[n] EXCEPT !.settable = FALSE]
                                              ELSE mbv[n]]
    BY <1>4 DEF GroupLock
  <2>2. ASSUME NEW k \in Names
        PROVE  /\ mbv'[k] \in Var_t
               /\ mbv'[k].exists = mbv[k].exists /\ mbv'[k].valid = mbv[k].valid
               /\ mbv'[k].value = mbv[k].value /\ mbv'[k].source = mbv[k].source
               /\ mbv'[k].settable => mbv[k].settable
    <3>1. mbv[k] \in Var_t
      BY <1>1
    <3>2. mbv'[k] = [mbv[k] EXCEPT !.settable = FALSE] \/ mbv'[k] = mbv[k]
      BY <2>1
    <3> QED
      BY <3>1, <3>2 DEF Var_t
  <2>3. mbv' \in Table
    BY <2>1, <2>2 DEF Table
  <2> QED
    BY <1>1, <2>2, <2>3 DEF Touched
<1>5. Goal
  <2>1. ASSUME NEW n \in Names, Deregister(n)
        PROVE  Goal
    BY <1>3, <2>1 DEF Deregister
  <2>2. ASSUME NEW g \in Groups, GroupDeregister(g)
        PROVE  Goal
    <3>1. Dying(Closing(g)) \in SUBSET Names
      BY DEF Dying, Names
    <3> QED
      BY <1>3, <2>2, <3>1 DEF GroupDeregister
  <2> QED
    BY <1>2, <1>4, <2>1, <2>2 DEF Touch
<1>6. config' = config
  BY DEF Touch, SetValue, Deregister, GroupLock, GroupDeregister
<1> QED
  BY <1>5, <1>6

(***************************************************************************)
(* The inductive invariant.                                                *)
(***************************************************************************)

\* The source belongs to the value; an overridden variable has the override
\* file's value and is not settable.
ValuesInv ==
  \A v \in Variables : mbv[v].valid /\ Readable(v) =>
    /\ mbv[v].source = SourceOf(mbv[v].value, v)
    /\ "override" \in LayersWith(v) => mbv[v].value = <<"override", v>> /\ ~mbv[v].settable

\* A group that has been made has its parent made, and so has a name its group.
GroupsInv ==
  /\ \A g \in Groups : group[g] # "none" /\ Parent[g] # NoGroup => group[Parent[g]] # "none"
  /\ \A n \in Names : mbv[n].exists => group[GroupOf[n]] # "none"

IInv == /\ VarTypeOK /\ ValuesInv /\ ResolvedAsDocumented
        /\ GroupsInv /\ GroupCoversVariables /\ ClosedGroupIsEmpty

LEMMA InitInv == VarInit => IInv
<1> SUFFICES ASSUME VarInit PROVE IInv
  OBVIOUS
<1> USE DEF VarInit, NoVar
<1>1. VarTypeOK
  <2>1. \A n \in Names : NoVar(n) \in Var_t
    BY DEF Var_t, Sources, Values
  <2>2. mbv \in [Names -> Var_t] /\ group \in [Groups -> {"none", "valid", "invalid"}]
    BY <2>1
  <2>3. config \in Config
    BY ConfigAssumption
  <2>4. \A s \in Synonyms : mbv[s].value = <<"none", s>>
    BY DEF Names
  <2> QED
    BY <2>2, <2>3, <2>4 DEF VarTypeOK
<1>2. \A n \in Names : ~mbv[n].valid /\ ~mbv[n].exists
  OBVIOUS
<1>3. ValuesInv /\ ResolvedAsDocumented /\ GroupCoversVariables /\ ClosedGroupIsEmpty
  BY <1>2 DEF Names, ValuesInv, ResolvedAsDocumented, GroupCoversVariables, ClosedGroupIsEmpty
<1>4. GroupsInv
  BY <1>2 DEF GroupsInv
<1> QED
  BY <1>1, <1>3, <1>4 DEF IInv

\* The operations, by what they do to the table.
LEMMA Operations ==
  ASSUME VarNext
  PROVE  \/ \E v \in Variables : RegisterVariable(v)
         \/ \E s \in Synonyms : RegisterSynonym(s)
         \/ Touch
BY DEF VarNext, Touch

LEMMA RegisterInTyped ==
  ASSUME VarTypeOK, NEW n \in Names
  PROVE  /\ RegisterIn(group, n) \in [Groups -> {"none", "valid", "invalid"}]
         /\ \A g \in Groups : RegisterIn(group, n)[g] \in {group[g], "valid"}
         /\ RegisterIn(group, n)[GroupOf[n]] = "valid"
<1>1. group \in [Groups -> {"none", "valid", "invalid"}] /\ GroupOf[n] \in Groups
  BY NameAssumption DEF VarTypeOK
<1>2. CASE mbv[n].exists
  BY <1>1, <1>2 DEF RegisterIn
<1>3. CASE ~mbv[n].exists
  <2>1. RegisterIn(group, n) = GroupRegister(group, GroupOf[n])
    BY <1>3 DEF RegisterIn
  <2> QED
    BY <1>1, <2>1 DEF GroupRegister
<1> QED
  BY <1>2, <1>3

\* Registration leaves a group with its parent, and a name's own with a
\* parent that is valid.
LEMMA RegisterInGroups ==
  ASSUME VarTypeOK, GroupsInv, NEW n \in Names, ParentRegistered(n), NEW gs, gs = RegisterIn(group, n)
  PROVE  /\ \A g \in Groups : gs[g] # "none" /\ Parent[g] # NoGroup => gs[Parent[g]] # "none"
         /\ Parent[GroupOf[n]] = NoGroup \/ gs[Parent[GroupOf[n]]] = "valid"
<1> DEFINE h == GroupOf[n]
<1>1. /\ group \in [Groups -> {"none", "valid", "invalid"}] /\ h \in Groups
      /\ \A g \in Groups : Parent[g] \in Groups \cup {NoGroup}
  BY NameAssumption, ParentAssumption DEF VarTypeOK
<1>2. /\ gs \in [Groups -> {"none", "valid", "invalid"}]
      /\ \A g \in Groups : gs[g] \in {group[g], "valid"}
  BY RegisterInTyped
<1>3. Parent[h] # NoGroup => gs[Parent[h]] = "valid"
  <2> SUFFICES ASSUME Parent[h] # NoGroup PROVE gs[Parent[h]] = "valid"
    OBVIOUS
  <2>1. Parent[h] \in Groups /\ group[Parent[h]] # "invalid"
    BY <1>1 DEF ParentRegistered
  <2>2. CASE group[h] # "none"
    <3>1. group[Parent[h]] = "valid"
      BY <1>1, <2>1, <2>2 DEF GroupsInv
    <3> QED
      BY <1>2, <2>1, <3>1
  <2>3. CASE group[h] = "none"
    <3>1. ~mbv[n].exists
      BY <2>3 DEF GroupsInv
    <3>2. gs = GroupRegister(group, h)
      BY <3>1 DEF RegisterIn
    <3> QED
      BY <2>1, <2>3, <3>2 DEF GroupRegister
  <2> QED
    BY <2>2, <2>3
<1>4. ASSUME NEW g \in Groups, gs[g] # "none", Parent[g] # NoGroup
      PROVE  gs[Parent[g]] # "none"
  <2>1. Parent[g] \in Groups
    BY <1>1, <1>4
  <2>2. CASE group[g] # "none"
    <3>1. group[Parent[g]] # "none"
      BY <1>4, <2>2 DEF GroupsInv
    <3> QED
      BY <1>2, <2>1, <3>1
  <2>3. CASE group[g] = "none"
    <3>1. g = h \/ (group[h] = "none" /\ g = Parent[h])
      <4>1. CASE mbv[n].exists
        BY <1>1, <1>4, <2>3, <4>1 DEF RegisterIn
      <4>2. CASE ~mbv[n].exists
        <5>1. gs = GroupRegister(group, h)
          BY <4>2 DEF RegisterIn
        <5> QED
          BY <1>4, <2>3, <5>1 DEF GroupRegister
      <4> QED
        BY <4>1, <4>2
    <3>2. g # Parent[h]
      BY <1>1, <1>4, ParentAssumption, NameAssumption
    <3> QED
      BY <1>3, <1>4, <3>1, <3>2
  <2> QED
    BY <2>2, <2>3
<1> QED
  BY <1>3, <1>4

LEMMA TypeStep == VarTypeOK /\ [VarNext]_var_vars => VarTypeOK'
<1> SUFFICES ASSUME VarTypeOK, [VarNext]_var_vars PROVE VarTypeOK'
  OBVIOUS
<1>1. ASSUME NEW v \in Variables, RegisterVariable(v) PROVE VarTypeOK'
  <2>1. v \in Names /\ \A s \in Synonyms : s # v /\ s \in Names
    BY NameAssumption DEF Names
  <2>2. group' \in [Groups -> {"none", "valid", "invalid"}] /\ config' = config
    BY <1>1, <2>1, RegisterInTyped DEF RegisterVariable
  <2>3. mbv' \in Table /\ \A s \in Synonyms : mbv'[s] = mbv[s]
    BY <1>1, <2>1, RegisterTable
  <2> QED
    BY <2>2, <2>3 DEF VarTypeOK, Table
<1>2. ASSUME NEW s \in Synonyms, RegisterSynonym(s) PROVE VarTypeOK'
  <2>1. s \in Names /\ \A t \in Synonyms : t \in Names
    BY DEF Names
  <2>2. group' \in [Groups -> {"none", "valid", "invalid"}] /\ config' = config
    BY <1>2, <2>1, RegisterInTyped DEF RegisterSynonym
  <2>3. /\ Original[s] \in Variables /\ mbv' \in Table /\ mbv'[s].value = mbv[s].value
        /\ \A k \in Names : k \notin {s, Original[s]} => mbv'[k] = mbv[k]
    BY <1>2, SynonymTable
  <2>4. \A t \in Synonyms : mbv'[t].value = mbv[t].value
    BY <2>1, <2>3, NameAssumption
  <2> QED
    BY <2>2, <2>3, <2>4 DEF VarTypeOK, Table
<1>3. CASE Touch
  <2>1. group' \in [Groups -> {"none", "valid", "invalid"}]
    BY <1>3 DEF Touch, VarTypeOK, SetValue, Deregister, GroupLock, GroupDeregister
  <2> QED
    BY <1>3, <2>1, TouchTable DEF VarTypeOK, Table
<1>4. CASE UNCHANGED var_vars
  BY <1>4 DEF var_vars, VarTypeOK
<1> QED
  BY <1>1, <1>2, <1>3, <1>4, Operations

\* What is said of a variable does not change with the state.
LEMMA SameConfig ==
  ASSUME config' = config
  PROVE  \A v \in Variables : /\ Readable(v)' <=> Readable(v)
                              /\ LayersWith(v)' = LayersWith(v)
                              /\ Documented(v)' = Documented(v)
BY DEF Readable, LayersWith, AllowedLayers, Documented

LEMMA ValuesStep == VarTypeOK /\ ValuesInv /\ [VarNext]_var_vars => ValuesInv'
<1> SUFFICES ASSUME VarTypeOK, ValuesInv, [VarNext]_var_vars PROVE ValuesInv'
  OBVIOUS
<1>1. config' = config
  BY DEF var_vars, VarNext, RegisterVariable, RegisterSynonym, SetValue, Deregister, GroupLock, GroupDeregister
<1>2. /\ Variables \subseteq Names
      /\ \A v \in Variables : (Readable(v)' <=> Readable(v)) /\ LayersWith(v)' = LayersWith(v)
  BY <1>1, SameConfig DEF Names
<1> DEFINE Good(x, v) ==
             /\ x.source = SourceOf(x.value, v)
             /\ "override" \in LayersWith(v) => x.value = <<"override", v>> /\ ~x.settable
<1>3. ASSUME NEW v \in Variables, Readable(v), mbv'[v].valid,
             NEW w \in Variables, RegisterVariable(w)
      PROVE  Good(mbv'[v], v)
  <2>1. CASE v = w
    <3>1. /\ mbv'[v].value = Documented(v)
          /\ mbv'[v].source = SourceOf(Documented(v), v)
          /\ "override" \in LayersWith(v) => ~mbv'[v].settable
      BY <1>3, <2>1, RegisterTable
    <3>2. "override" \in LayersWith(v) => Documented(v) = <<"override", v>>
      BY DEF Documented
    <3> QED
      BY <3>1, <3>2
  <2>2. CASE v # w
    <3>1. mbv'[v] = mbv[v]
      BY <1>2, <1>3, <2>2, RegisterTable
    <3> QED
      BY <1>3, <3>1 DEF ValuesInv
  <2> QED
    BY <2>1, <2>2
<1>4. ASSUME NEW v \in Variables, Readable(v), mbv'[v].valid,
             NEW s \in Synonyms, RegisterSynonym(s)
      PROVE  Good(mbv'[v], v)
  <2>1. v # s /\ v \in Names
    BY <1>2, NameAssumption
  <2>2. CASE v = Original[s]
    <3>1. /\ mbv[v].valid /\ mbv'[v].settable = mbv[v].settable
          /\ Readable(v) /\ mbv[v].source = SourceOf(mbv[v].value, v) =>
               /\ mbv'[v].source = SourceOf(mbv'[v].value, v)
               /\ mbv[v].source = "override" => mbv'[v] = mbv[v]
      BY <1>4, <2>2, SynonymTable
    <3>2. Good(mbv[v], v)
      BY <1>4, <3>1 DEF ValuesInv
    <3>3. mbv'[v].source = SourceOf(mbv'[v].value, v)
      BY <1>4, <3>1, <3>2
    <3>4. "override" \in LayersWith(v) => mbv'[v] = mbv[v]
      <4>1. "override" \in LayersWith(v) => mbv[v].source = "override"
        BY <3>2 DEF SourceOf
      <4> QED
        BY <1>4, <3>1, <3>2, <4>1
    <3> QED
      BY <3>2, <3>3, <3>4
  <2>3. CASE v # Original[s]
    <3>1. mbv'[v] = mbv[v]
      BY <1>4, <2>1, <2>3, SynonymTable
    <3> QED
      BY <1>4, <3>1 DEF ValuesInv
  <2> QED
    BY <2>2, <2>3
<1>5. ASSUME NEW v \in Variables, Readable(v), mbv'[v].valid, Touch
      PROVE  Good(mbv'[v], v)
  <2>1. Touched(mbv'[v], mbv[v], v)
    BY <1>5, TouchTable
  <2>2. Good(mbv[v], v)
    BY <1>5, <2>1 DEF ValuesInv, Touched
  <2>3. CASE mbv'[v].value = mbv[v].value /\ mbv'[v].source = mbv[v].source
    BY <2>1, <2>2, <2>3 DEF Touched
  <2>4. CASE mbv'[v].value = <<"set", v>> /\ mbv'[v].source = "set" /\ mbv[v].settable
    BY <2>2, <2>4 DEF SourceOf
  <2> QED
    BY <2>1, <2>3, <2>4 DEF Touched
<1>6. ASSUME NEW v \in Variables, Readable(v), mbv'[v].valid, UNCHANGED var_vars
      PROVE  Good(mbv'[v], v)
  BY <1>6 DEF var_vars, ValuesInv
<1>7. \A v \in Variables : Readable(v) /\ mbv'[v].valid => Good(mbv'[v], v)
  BY <1>3, <1>4, <1>5, <1>6, Operations
<1> QED
  BY <1>2, <1>7 DEF ValuesInv

LEMMA ResolvedStep == VarTypeOK /\ ResolvedAsDocumented /\ [VarNext]_var_vars => ResolvedAsDocumented'
<1> SUFFICES ASSUME VarTypeOK, ResolvedAsDocumented, [VarNext]_var_vars PROVE ResolvedAsDocumented'
  OBVIOUS
<1>1. config' = config
  BY DEF var_vars, VarNext, RegisterVariable, RegisterSynonym, SetValue, Deregister, GroupLock, GroupDeregister
<1>2. /\ Variables \subseteq Names /\ Synonyms \subseteq Names
      /\ \A v \in Variables : (Readable(v)' <=> Readable(v)) /\ Documented(v)' = Documented(v)
  BY <1>1, SameConfig DEF Names
<1> SUFFICES ASSUME NEW v \in Variables, mbv'[v].valid, mbv'[v].source # "set", Readable(v),
                    \A s \in Synonyms : Original[s] = v => ~mbv'[s].exists
             PROVE  mbv'[v].value = Documented(v)
  BY <1>2 DEF ResolvedAsDocumented
<1>3. ASSUME NEW w \in Variables, RegisterVariable(w)
      PROVE  mbv'[v].value = Documented(v)
  <2>1. CASE v = w
    BY <1>3, <2>1, RegisterTable
  <2>2. CASE v # w
    <3>1. mbv'[v] = mbv[v] /\ \A s \in Synonyms : mbv'[s] = mbv[s]
      BY <1>2, <1>3, <2>2, NameAssumption, RegisterTable
    <3> QED
      BY <3>1 DEF ResolvedAsDocumented
  <2> QED
    BY <2>1, <2>2
<1>4. ASSUME NEW s \in Synonyms, RegisterSynonym(s)
      PROVE  mbv'[v].value = Documented(v)
  <2>1. /\ mbv'[s].exists /\ Original[s] \in Variables
        /\ \A k \in Names : k \notin {s, Original[s]} => mbv'[k] = mbv[k]
    BY <1>4, SynonymTable
  <2>2. v # Original[s] /\ v # s
    BY <2>1, NameAssumption
  <2>3. mbv'[v] = mbv[v]
    BY <1>2, <2>1, <2>2
  <2>4. \A t \in Synonyms : Original[t] = v => mbv'[t] = mbv[t]
    BY <1>2, <2>1, <2>2, NameAssumption
  <2> QED
    BY <2>3, <2>4 DEF ResolvedAsDocumented
<1>5. CASE Touch
  <2>1. Touched(mbv'[v], mbv[v], v) /\ \A k \in Names : mbv'[k].exists = mbv[k].exists
    BY <1>5, TouchTable
  <2>2. mbv[v].valid /\ mbv'[v].value = mbv[v].value /\ mbv'[v].source = mbv[v].source
    BY <2>1 DEF Touched
  <2>3. \A s \in Synonyms : Original[s] = v => ~mbv[s].exists
    BY <1>2, <2>1
  <2> QED
    BY <2>2, <2>3 DEF ResolvedAsDocumented
<1>6. CASE UNCHANGED var_vars
  BY <1>6 DEF var_vars, ResolvedAsDocumented
<1> QED
  BY <1>3, <1>4, <1>5, <1>6, Operations

\* Both registrations, as far as groups go.
LEMMA RegisteredGroups ==
  ASSUME VarTypeOK, GroupsInv, GroupCoversVariables, ClosedGroupIsEmpty, config' = config,
         NEW n \in Names, ParentRegistered(n), group' = RegisterIn(group, n),
         \A k \in Names : k # n => mbv'[k].exists = mbv[k].exists,
         \A v \in Variables : v # n /\ mbv'[v].valid => mbv[v].valid
  PROVE  GroupsInv' /\ GroupCoversVariables' /\ ClosedGroupIsEmpty'
<1>1. /\ \A g \in Groups : group'[g] \in {group[g], "valid"}
      /\ group'[GroupOf[n]] = "valid"
      /\ \A g \in Groups : group'[g] # "none" /\ Parent[g] # NoGroup => group'[Parent[g]] # "none"
      /\ Parent[GroupOf[n]] = NoGroup \/ group'[Parent[GroupOf[n]]] = "valid"
  BY RegisterInTyped, RegisterInGroups
<1>2. /\ Variables \subseteq Names /\ \A k \in Names : GroupOf[k] \in Groups
      /\ \A g \in Groups : Parent[g] # NoGroup => Parent[g] \in Groups
  BY NameAssumption, ParentAssumption DEF Names
<1>3. GroupsInv'
  <2>1. ASSUME NEW k \in Names, mbv'[k].exists PROVE group'[GroupOf[k]] # "none"
    <3>1. CASE k = n
      BY <1>1, <3>1
    <3>2. CASE k # n
      <4>1. group[GroupOf[k]] # "none"
        BY <2>1, <3>2 DEF GroupsInv
      <4> QED
        BY <1>1, <1>2, <4>1
    <3> QED
      BY <3>1, <3>2
  <2> QED
    BY <1>1, <2>1 DEF GroupsInv
<1>4. ASSUME NEW v \in Variables, mbv'[v].valid, v \in config.dwg
      PROVE  /\ group'[GroupOf[v]] = "valid"
             /\ Parent[GroupOf[v]] = NoGroup \/ group'[Parent[GroupOf[v]]] = "valid"
  <2>1. CASE v = n
    BY <1>1, <2>1
  <2>2. CASE v # n
    <3>1. /\ group[GroupOf[v]] = "valid"
          /\ Parent[GroupOf[v]] = NoGroup \/ group[Parent[GroupOf[v]]] = "valid"
      BY <1>4, <2>2 DEF GroupCoversVariables, ClosedGroupIsEmpty
    <3> QED
      BY <1>1, <1>2, <3>1
  <2> QED
    BY <2>1, <2>2
<1> QED
  BY <1>3, <1>4 DEF GroupCoversVariables, ClosedGroupIsEmpty

\* A group takes the groups below with it, and their variables.
LEMMA DeregisteredGroups ==
  ASSUME VarTypeOK, GroupsInv, GroupCoversVariables, ClosedGroupIsEmpty,
         NEW g \in Groups, GroupDeregister(g)
  PROVE  GroupsInv' /\ GroupCoversVariables' /\ ClosedGroupIsEmpty'
<1>1. /\ \A h \in Groups : group'[h] = IF h \in Closing(g) THEN "invalid" ELSE group[h]
      /\ mbv' = VarDeregister(mbv, Dying(Closing(g))) /\ config' = config
  BY DEF GroupDeregister
<1>2. /\ Variables \subseteq Names /\ Dying(Closing(g)) \in SUBSET Names
      /\ \A k \in Names : GroupOf[k] \in Groups
      /\ \A h \in Groups : Parent[h] # NoGroup => Parent[h] \in Groups
  BY NameAssumption, ParentAssumption DEF Names, Dying
<1>3. /\ \A k \in Names : mbv'[k].exists = mbv[k].exists
      /\ \A v \in Variables : mbv'[v].valid => mbv[v].valid /\ v \notin Dying(Closing(g))
  BY <1>1, <1>2, DeregisterTable
<1>4. \A h \in Groups : group'[h] # "none" <=> group[h] # "none"
  BY <1>1 DEF Closing
<1>5. GroupsInv'
  BY <1>2, <1>3, <1>4 DEF GroupsInv
<1>6. ASSUME NEW v \in Variables, mbv'[v].valid, v \in config.dwg
      PROVE  /\ group'[GroupOf[v]] = "valid"
             /\ Parent[GroupOf[v]] = NoGroup \/ group'[Parent[GroupOf[v]]] = "valid"
  <2> DEFINE h == GroupOf[v]
  <2>1. /\ h \in Groups /\ group[h] = "valid"
        /\ Parent[h] = NoGroup \/ group[Parent[h]] = "valid"
    BY <1>2, <1>3, <1>6 DEF GroupCoversVariables, ClosedGroupIsEmpty
  <2>2. h \notin Closing(g)
    BY <1>3, <1>6 DEF Dying
  <2>3. Parent[h] # NoGroup => Parent[h] \notin Closing(g)
    <3>1. Parent[h] # g
      BY <2>1, <2>2 DEF Closing
    <3>2. Parent[h] # NoGroup => Parent[Parent[h]] # g
      BY <2>1, NameAssumption, ParentAssumption
    <3> QED
      BY <3>1, <3>2 DEF Closing
  <2> QED
    BY <1>1, <1>2, <2>1, <2>2, <2>3
<1> QED
  BY <1>1, <1>5, <1>6 DEF GroupCoversVariables, ClosedGroupIsEmpty

LEMMA GroupsStep ==
  VarTypeOK /\ GroupsInv /\ GroupCoversVariables /\ ClosedGroupIsEmpty /\ [VarNext]_var_vars
    => GroupsInv' /\ GroupCoversVariables' /\ ClosedGroupIsEmpty'
<1> DEFINE Kept == GroupsInv' /\ GroupCoversVariables' /\ ClosedGroupIsEmpty'
<1> SUFFICES ASSUME VarTypeOK, GroupsInv, GroupCoversVariables, ClosedGroupIsEmpty, [VarNext]_var_vars
             PROVE  Kept
  OBVIOUS
<1>1. ASSUME NEW v \in Variables, RegisterVariable(v) PROVE Kept
  <2>1. /\ v \in Names /\ Variables \subseteq Names
        /\ ParentRegistered(v) /\ group' = RegisterIn(group, v) /\ config' = config
    BY <1>1 DEF RegisterVariable, Names
  <2>2. \A k \in Names : k # v => mbv'[k] = mbv[k]
    BY <1>1, RegisterTable
  <2> QED
    BY <2>1, <2>2, RegisteredGroups
<1>2. ASSUME NEW s \in Synonyms, RegisterSynonym(s) PROVE Kept
  <2>1. /\ s \in Names /\ Variables \subseteq Names
        /\ ParentRegistered(s) /\ group' = RegisterIn(group, s) /\ config' = config
    BY <1>2 DEF RegisterSynonym, Names
  <2>2. /\ \A k \in Names : k \notin {s, Original[s]} => mbv'[k] = mbv[k]
        /\ mbv'[Original[s]].exists = mbv[Original[s]].exists /\ mbv[Original[s]].valid
    BY <1>2, SynonymTable
  <2>3. /\ \A k \in Names : k # s => mbv'[k].exists = mbv[k].exists
        /\ \A v \in Variables : v # s /\ mbv'[v].valid => mbv[v].valid
    BY <2>1, <2>2
  <2> QED
    BY <2>1, <2>3, RegisteredGroups
<1>3. ASSUME NEW g \in Groups, GroupDeregister(g) PROVE Kept
  BY <1>3, DeregisteredGroups
<1>4. ASSUME Touch, group' = group PROVE Kept
  <2>1. /\ config' = config
        /\ \A k \in Names : mbv'[k].exists = mbv[k].exists
        /\ \A v \in Variables : mbv'[v].valid => mbv[v].valid
    BY <1>4, TouchTable DEF Touched
  <2> QED
    BY <1>4, <2>1 DEF GroupsInv, GroupCoversVariables, ClosedGroupIsEmpty
<1>5. CASE UNCHANGED var_vars
  BY <1>5 DEF var_vars, GroupsInv, GroupCoversVariables, ClosedGroupIsEmpty
<1>6. Touch => group' = group \/ \E g \in Groups : GroupDeregister(g)
  BY DEF Touch, SetValue, Deregister, GroupLock
<1> QED
  BY <1>1, <1>2, <1>3, <1>4, <1>5, <1>6, Operations

LEMMA StepInv == IInv /\ [VarNext]_var_vars => IInv'
BY TypeStep, ValuesStep, ResolvedStep, GroupsStep DEF IInv

LEMMA Inductive == VarSpec => []IInv
<1>1. VarInit => IInv
  BY InitInv
<1>2. IInv /\ [VarNext]_var_vars => IInv'
  BY StepInv
<1> QED
  BY <1>1, <1>2, PTL DEF VarSpec

(***************************************************************************)
(* The results.                                                            *)
(***************************************************************************)

\* The state of VarRegistry has its types, and a synonym never has storage.
THEOREM TypeCorrect == VarSpec => []VarTypeOK
<1>1. IInv => VarTypeOK
  BY DEF IInv
<1> QED
  BY <1>1, Inductive, PTL

\* A variable without synonyms has the value the documented order gives,
\* through every deregistration and registration (mca_base_var.h:43).
THEOREM ResolutionAsDocumented == VarSpec => []ResolvedAsDocumented
<1>1. IInv => ResolvedAsDocumented
  BY DEF IInv
<1> QED
  BY <1>1, Inductive, PTL

\* Neither the environment, a file, a synonym nor set_value replaces the value
\* of a variable the override file names (mca_base_var.c:463).
THEOREM OverridesKept == VarSpec => []OverrideKept
<1>1. IInv => OverrideKept
  BY DEF IInv, ValuesInv, OverrideKept
<1> QED
  BY <1>1, Inductive, PTL

\* The source reported for a variable is where its value comes from
\* (mca_base_var_get_value).
THEOREM SourcesTruthful == VarSpec => []SourceTruthful
<1>1. IInv => SourceTruthful
  BY DEF IInv, ValuesInv, SourceTruthful, SourceOf
<1> QED
  BY <1>1, Inductive, PTL

\* A variable that goes with its group is in a valid one
\* (mca_base_var_group.c:343).
THEOREM GroupsCover == VarSpec => []GroupCoversVariables
<1>1. IInv => GroupCoversVariables
  BY DEF IInv
<1> QED
  BY <1>1, Inductive, PTL

\* A deregistered group has nothing valid below it that goes with groups
\* (mca_base_framework.c:209).
THEOREM ClosedGroupsEmpty == VarSpec => []ClosedGroupIsEmpty
<1>1. IInv => ClosedGroupIsEmpty
  BY DEF IInv
<1> QED
  BY <1>1, Inductive, PTL
=============================================================================

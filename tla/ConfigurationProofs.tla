------------------------ MODULE ConfigurationProofs ------------------------
(***************************************************************************)
(* Proofs about Settings, ModelCatalog and Routing, for every set of       *)
(* processes, credentials and overrides and whatever the first file holds: *)
(* the configuration in use follows from the saved ones, the editor's      *)
(* draft stays a draft, and a saved credential holds; for every order of   *)
(* what is fetched: the list of models and the client agree with it; and   *)
(* for every list of models, set of rules and configuration: what is       *)
(* resolved can be served, and the editor is right about its rules.        *)
(***************************************************************************)
EXTENDS Settings, ModelCatalog, Routing, FiniteSetTheorems, TLAPS

(***************************************************************************)
(* The configuration                                                       *)
(***************************************************************************)

\* The configuration in use follows from what globalConfig holds, which has had the
\* overrides written over it already.
InUse(p) ==
  editor[p] # "off" =>
    /\ config[p] = Effective(p, globalConfig[p], projectConfig[p])
    /\ globalConfig[p] = Overwritten(p, globalConfig[p])

\* While the editor is open nothing but the order of the menu gets into use, and the
\* credential of the draft is the one that was typed, or else the one in use.
Drafted(p) ==
  editor[p] \in {"open", "menu"} =>
    /\ globalConfig[p] = [opened[p] EXCEPT !.sort = globalConfig[p].sort]
    /\ KeyOf(cfgDraft[p]) = IF typed[p].now = "none" THEN KeyOf(globalConfig[p]) ELSE typed[p].now

\* A process that starts has saved nothing, and only then are defaults written.
NotYetSaved(p) ==
  /\ editor[p] \in {"off", "starting"} => typed[p].saved = "none"
  /\ writing[p] = "first" => editor[p] = "starting"

\* What was saved is in use, and in the file as soon as it is written.
Kept(p) ==
  Override[p].dep = None /\ editor[p] # "off" /\ typed[p].saved # "none" =>
    /\ KeyOf(globalConfig[p]) = typed[p].saved
    /\ writing[p] \in {None, "project"} /\ lastSaver = p /\ globalFile # Torn =>
         globalFile.dep = typed[p].saved

Settled(p) == InUse(p) /\ Drafted(p) /\ NotYetSaved(p) /\ Kept(p)

\* The inductive invariant.
SettingsIndInv == SettingsTypeOK /\ aliased = {} /\ \A p \in Apps : Settled(p)

-----------------------------------------------------------------------------
(* Configurations *)

LEMMA KnownValues ==
  /\ None \in AllKeys /\ Keys \subseteq AllKeys /\ {None, "canonical", "native"} \subseteq Models
  /\ \A p \in Apps : Override[p].dep \in AllKeys /\ Override[p].legacy \in AllKeys
                     /\ Override[p].model \in Models
BY SettingsAssumption DEF AllKeys, Models

LEMMA DefaultIs ==
  /\ Default \in Config /\ Default.dep = None /\ Default.legacy = None
  /\ \A c \in Config : c # Torn /\ c # Absent
BY KnownValues DEF Default, Config, Torn, Absent

LEMMA NormalizedIs ==
  ASSUME NEW c \in Config
  PROVE  /\ Normalized(c) \in Config /\ KeyOf(c) \in AllKeys
         /\ Normalized(c).dep = KeyOf(c)
BY DEF Normalized, KeyOf, Config

LEMMA StoredIs ==
  ASSUME NEW c \in Config
  PROVE  Stored(c) \in Config /\ Stored(c).dep = KeyOf(c)
BY KnownValues, NormalizedIs DEF Stored, Config

LEMMA CanonicalIs ==
  ASSUME NEW m \in Models, NEW known
  PROVE  Canonical(m, known) \in Models
BY KnownValues DEF Canonical

LEMMA OverwrittenIs ==
  ASSUME NEW p \in Apps, NEW c \in Config
  PROVE  /\ Overwritten(p, c) \in Config
         /\ Overwritten(p, Overwritten(p, c)) = Overwritten(p, c)
         /\ Override[p].dep = None => Overwritten(p, c) = c
<1>1. Override[p].dep \in AllKeys /\ None \in AllKeys
  BY KnownValues
<1>2. Overwritten(p, c) = [c EXCEPT !.dep = IF c.dep = None THEN c.dep ELSE Or(Override[p].dep, c.dep)]
  BY DEF Overwritten
<1>3. c.dep \in AllKeys /\ Or(Override[p].dep, c.dep) \in AllKeys
  BY <1>1 DEF Or, Config
<1>4. Overwritten(p, c) \in Config
  BY <1>2, <1>3 DEF Config
<1>5. Overwritten(p, Overwritten(p, c)) = Overwritten(p, c)
  BY <1>2 DEF Overwritten, Or, Config
<1>6. Override[p].dep = None => Overwritten(p, c) = c
  BY <1>2 DEF Or, Config
<1>. QED  BY <1>4, <1>5, <1>6

\* Another order of the menu does not bring the overrides back.
LEMMA OrderIsKept ==
  ASSUME NEW p \in Apps, NEW c \in Config, c = Overwritten(p, c), NEW s \in {"name", "price"},
         NEW g \in Config, g = [c EXCEPT !.sort = s]
  PROVE  Overwritten(p, g) = g
<1>1. c.dep = IF c.dep = None THEN c.dep ELSE Or(Override[p].dep, c.dep)
  BY DEF Overwritten, Config
<1>2. g.dep = c.dep
  BY DEF Config
<1>. QED  BY <1>1, <1>2 DEF Overwritten, Config

LEMMA EffectiveIs ==
  ASSUME NEW p \in Apps, NEW c \in Config, NEW m \in Models
  PROVE  /\ Effective(p, c, m) \in Config
         /\ Effective(p, Overwritten(p, c), m) = Effective(p, c, m)
<1>1. /\ Override[p].dep \in AllKeys /\ Override[p].legacy \in AllKeys /\ Override[p].model \in Models
      /\ None \in AllKeys
  BY KnownValues
<1>2. Merged(c, m) \in Config
  BY DEF Merged, Or, Config
<1>3. Effective(p, c, m) \in Config
  <2>. DEFINE d == [Merged(c, m) EXCEPT !.dep = Or(Override[p].dep, @), !.legacy = Or(Override[p].legacy, @),
                                        !.model = Or(Override[p].model, @)]
  <2>1. d \in Config
    BY <1>1, <1>2 DEF Or, Config
  <2>2. Effective(p, c, m) = Merged(c, m) \/ Effective(p, c, m) = Normalized(d)
    BY DEF Effective
  <2>. HIDE DEF d
  <2>. QED  BY <1>2, <2>1, <2>2, NormalizedIs
<1>4. Effective(p, Overwritten(p, c), m) = Effective(p, c, m)
  <2>1. CASE Override[p].dep = None
    BY <2>1, OverwrittenIs
  <2>2. CASE Override[p].dep # None
    <3>. DEFINE o == Override[p]
                g == Overwritten(p, c)
    <3>1. g \in Config /\ g.legacy = c.legacy /\ g.model = c.model /\ g.sort = c.sort
      BY OverwrittenIs DEF Overwritten, Config
    <3>2. [Merged(g, m) EXCEPT !.dep = Or(o.dep, @), !.legacy = Or(o.legacy, @), !.model = Or(o.model, @)]
            = [Merged(c, m) EXCEPT !.dep = Or(o.dep, @), !.legacy = Or(o.legacy, @), !.model = Or(o.model, @)]
      BY <2>2, <3>1 DEF Merged, Or, Config
    <3>. QED  BY <2>2, <3>2 DEF Effective
  <2>. QED  BY <2>1, <2>2
<1>. QED  BY <1>3, <1>4

-----------------------------------------------------------------------------
(* One process moves at a time *)

Alone(p) ==
  \A q \in Apps \ {p} :
    /\ UNCHANGED <<editor[q], writing[q], typed[q]>>
    /\ UNCHANGED <<config[q], globalConfig[q], projectConfig[q], cfgDraft[q], opened[q]>>
OwnWrite(p) == UNCHANGED <<globalFile, lastSaver>> \/ globalFile' = Torn \/ lastSaver' = p

LEMMA OneAtATime ==
  ASSUME SettingsIndInv, NEW p \in Apps, Alone(p), OwnWrite(p),
         SettingsTypeOK', aliased' = {}, Settled(p)'
  PROVE  SettingsIndInv'
<1>1. ASSUME NEW q \in Apps \ {p}  PROVE Settled(q)'
  <2>1. Settled(q)
    BY DEF SettingsIndInv
  <2>2. /\ UNCHANGED <<editor[q], writing[q], typed[q]>>
        /\ UNCHANGED <<config[q], globalConfig[q], projectConfig[q], cfgDraft[q], opened[q]>>
    BY DEF Alone
  <2>3. InUse(q)' /\ Drafted(q)' /\ NotYetSaved(q)'
    BY <2>1, <2>2 DEF Settled, InUse, Drafted, NotYetSaved
  <2>4. Kept(q)'
    BY <2>1, <2>2 DEF Settled, Kept, OwnWrite
  <2>. QED  BY <2>3, <2>4 DEF Settled
<1>. QED  BY <1>1 DEF SettingsIndInv

\* The three configurations are put together again.
LEMMA Rebuilt ==
  ASSUME SettingsTypeOK, NEW p \in Apps, NEW g \in Config, NEW m \in Models, Rebuild(p, g, m)
  PROVE  /\ globalConfig' \in [Apps -> Config] /\ projectConfig' \in [Apps -> Models]
         /\ config' \in [Apps -> Config]
         /\ globalConfig'[p] = Overwritten(p, g) /\ projectConfig'[p] = m
         /\ InUse(p)'
         /\ \A q \in Apps \ {p} : UNCHANGED <<config[q], globalConfig[q], projectConfig[q]>>
<1>1. Overwritten(p, g) \in Config /\ Effective(p, g, m) \in Config
  BY OverwrittenIs, EffectiveIs
<1>2. /\ globalConfig' = [globalConfig EXCEPT ![p] = Overwritten(p, g)]
      /\ projectConfig' = [projectConfig EXCEPT ![p] = m]
      /\ config' = [config EXCEPT ![p] = Effective(p, g, m)]
  BY DEF Rebuild
<1>3. /\ globalConfig' \in [Apps -> Config] /\ projectConfig' \in [Apps -> Models]
      /\ config' \in [Apps -> Config]
      /\ globalConfig'[p] = Overwritten(p, g) /\ projectConfig'[p] = m /\ config'[p] = Effective(p, g, m)
      /\ \A q \in Apps \ {p} : UNCHANGED <<config[q], globalConfig[q], projectConfig[q]>>
  BY <1>1, <1>2 DEF SettingsTypeOK
<1>4. Overwritten(p, Overwritten(p, g)) = Overwritten(p, g)
  BY OverwrittenIs
<1>5. Effective(p, Overwritten(p, g), m) = Effective(p, g, m)
  BY EffectiveIs
<1>6. InUse(p)'
  BY <1>3, <1>4, <1>5 DEF InUse
<1>. QED  BY <1>3, <1>6

LEMMA NothingIsWritten == None \notin {"first", "sort", "global", "project"}
BY Zenon DEF None

\* What the steps of one process leave to it.
Mine(p) ==
  /\ SettingsTypeOK /\ aliased = {} /\ Settled(p)
  /\ globalConfig[p] \in Config /\ config[p] \in Config /\ cfgDraft[p] \in Config
  /\ opened[p] \in Config /\ projectConfig[p] \in Models /\ cfgProjectDraft[p] \in Models

LEMMA MineIs ==
  ASSUME SettingsIndInv, NEW p \in Apps  PROVE Mine(p)
BY DEF SettingsIndInv, SettingsTypeOK, Mine

-----------------------------------------------------------------------------
(* Start *)

LEMMA StartKeeps ==
  ASSUME SettingsIndInv, NEW p \in Apps, Start(p)  PROVE SettingsIndInv'
<1>1. Mine(p) /\ SettingsTypeOK
  BY MineIs DEF Mine
<1>2. FromFile(globalFile) \in Config
  BY <1>1, DefaultIs, NormalizedIs DEF FromFile, SettingsTypeOK
<1>3. /\ editor[p] = "off" /\ editor' = [editor EXCEPT ![p] = "starting"]
      /\ Rebuild(p, FromFile(globalFile), None)
      /\ \/ writing' = [writing EXCEPT ![p] = "first"] /\ globalFile' = Torn
         \/ UNCHANGED <<writing, globalFile>>
      /\ UNCHANGED <<projectFile, lastSaver, models, saves>> /\ UNCHANGED draftVars
  BY DEF Start, Edits, Opens
<1>4. UNCHANGED <<cfgDraft, cfgProjectDraft, aliased, latePicker, opened, typed>>
  BY <1>3 DEF draftVars
<1>5. /\ globalConfig' \in [Apps -> Config] /\ projectConfig' \in [Apps -> Models]
      /\ config' \in [Apps -> Config] /\ InUse(p)'
      /\ \A q \in Apps \ {p} : UNCHANGED <<config[q], globalConfig[q], projectConfig[q]>>
  BY <1>1, <1>2, <1>3, KnownValues, Rebuilt
<1>6. SettingsTypeOK'
  BY <1>1, <1>3, <1>4, <1>5 DEF SettingsTypeOK
<1>7. Alone(p) /\ OwnWrite(p)
  BY <1>1, <1>3, <1>4, <1>5 DEF Alone, OwnWrite, SettingsTypeOK
<1>8. editor'[p] = "starting" /\ typed'[p].saved = "none"
  BY <1>1, <1>3, <1>4 DEF Mine, Settled, NotYetSaved, SettingsTypeOK
<1>9. Settled(p)'
  BY <1>5, <1>8 DEF Settled, Drafted, NotYetSaved, Kept
<1>. QED  BY <1>1, <1>4, <1>6, <1>7, <1>9, OneAtATime DEF Mine

LEMMA WorkspaceKeeps ==
  ASSUME SettingsIndInv, NEW p \in Apps, WorkspaceArrives(p)  PROVE SettingsIndInv'
<1>1. Mine(p) /\ SettingsTypeOK
  BY MineIs DEF Mine
<1>2. Canonical(ProjectFromFile(projectFile), p \in models) \in Models
  BY <1>1, KnownValues, CanonicalIs DEF ProjectFromFile, SettingsTypeOK
<1>3. /\ editor[p] = "starting" /\ writing[p] = None /\ editor' = [editor EXCEPT ![p] = "closed"]
      /\ Rebuild(p, globalConfig[p], Canonical(ProjectFromFile(projectFile), p \in models))
      /\ UNCHANGED <<models, writing, saves>> /\ UNCHANGED fileVars /\ UNCHANGED draftVars
  BY DEF WorkspaceArrives, Edits, Idle
<1>4. /\ UNCHANGED <<cfgDraft, cfgProjectDraft, aliased, latePicker, opened, typed>>
      /\ UNCHANGED <<globalFile, projectFile, lastSaver>>
  BY <1>3 DEF draftVars, fileVars
<1>5. /\ globalConfig' \in [Apps -> Config] /\ projectConfig' \in [Apps -> Models]
      /\ config' \in [Apps -> Config] /\ InUse(p)'
      /\ \A q \in Apps \ {p} : UNCHANGED <<config[q], globalConfig[q], projectConfig[q]>>
  BY <1>1, <1>2, <1>3, Rebuilt DEF Mine
<1>6. SettingsTypeOK'
  BY <1>1, <1>3, <1>4, <1>5 DEF SettingsTypeOK
<1>7. Alone(p) /\ OwnWrite(p)
  BY <1>1, <1>3, <1>4, <1>5 DEF Alone, OwnWrite, SettingsTypeOK
<1>8. editor'[p] = "closed" /\ typed'[p].saved = "none" /\ writing'[p] = None
  BY <1>1, <1>3, <1>4 DEF Mine, Settled, NotYetSaved, SettingsTypeOK
<1>9. Settled(p)'
  BY <1>5, <1>8, NothingIsWritten DEF Settled, Drafted, NotYetSaved, Kept
<1>. QED  BY <1>1, <1>4, <1>6, <1>7, <1>9, OneAtATime DEF Mine

LEMMA CatalogKeeps ==
  ASSUME SettingsIndInv, NEW p \in Apps, CatalogArrives(p)  PROVE SettingsIndInv'
<1>1. Mine(p) /\ SettingsTypeOK
  BY MineIs DEF Mine
<1>2. Canonical(projectConfig[p], TRUE) \in Models
  BY <1>1, CanonicalIs DEF Mine
<1>3. /\ editor[p] # "off" /\ models' = models \cup {p}
      /\ UNCHANGED memVars \/ Rebuild(p, globalConfig[p], Canonical(projectConfig[p], TRUE))
      /\ UNCHANGED <<editor, writing, saves>> /\ UNCHANGED fileVars /\ UNCHANGED draftVars
  BY DEF CatalogArrives
<1>4. /\ UNCHANGED <<cfgDraft, cfgProjectDraft, aliased, latePicker, opened, typed>>
      /\ UNCHANGED <<globalFile, projectFile, lastSaver>>
  BY <1>3 DEF draftVars, fileVars
<1>5. /\ globalConfig' \in [Apps -> Config] /\ projectConfig' \in [Apps -> Models]
      /\ config' \in [Apps -> Config] /\ InUse(p)' /\ globalConfig'[p] = globalConfig[p]
      /\ \A q \in Apps \ {p} : UNCHANGED <<config[q], globalConfig[q], projectConfig[q]>>
  <2>1. CASE UNCHANGED memVars
    BY <1>1, <1>3, <2>1 DEF memVars, Mine, Settled, InUse, SettingsTypeOK
  <2>2. CASE Rebuild(p, globalConfig[p], Canonical(projectConfig[p], TRUE))
    <3>1. globalConfig[p] = Overwritten(p, globalConfig[p]) /\ globalConfig[p] \in Config
      BY <1>1, <1>3 DEF Mine, Settled, InUse
    <3>. QED  BY <1>1, <1>2, <2>2, <3>1, Rebuilt
  <2>. QED  BY <1>3, <2>1, <2>2
<1>6. SettingsTypeOK'
  BY <1>1, <1>3, <1>4, <1>5 DEF SettingsTypeOK
<1>7. Alone(p) /\ OwnWrite(p)
  BY <1>1, <1>3, <1>4, <1>5 DEF Alone, OwnWrite, SettingsTypeOK
<1>9. Settled(p)'
  BY <1>1, <1>3, <1>4, <1>5 DEF Mine, Settled, Drafted, NotYetSaved, Kept
<1>. QED  BY <1>1, <1>4, <1>6, <1>7, <1>9, OneAtATime DEF Mine

-----------------------------------------------------------------------------
(* The editor *)

\* Another model leaves a draft's credential alone.
LEMMA ModelOfDraft ==
  ASSUME NEW c \in Config, NEW m \in Models
  PROVE  /\ [c EXCEPT !.model = m] \in Config /\ KeyOf([c EXCEPT !.model = m]) = KeyOf(c)
         /\ [c EXCEPT !.model = m].sort = c.sort
BY DEF Config, KeyOf

LEMMA DroppedIs ==
  ASSUME NEW c, NEW m \in Models  PROVE Dropped(c, m) \in Models
BY KnownValues DEF Dropped

LEMMA KeyIsSet ==
  ASSUME NEW c \in Config, NEW k \in Keys \cup {None}
  PROVE  SetKey(c, k) \in Config /\ KeyOf(SetKey(c, k)) = k
BY KnownValues DEF SetKey, KeyOf, Config

LEMMA EnterKeeps ==
  ASSUME SettingsIndInv, NEW p \in Apps, EnterConfigMode(p)  PROVE SettingsIndInv'
<1>1. Mine(p) /\ SettingsTypeOK
  BY MineIs DEF Mine
<1>2. globalConfig[p].model \in Models
  BY <1>1 DEF Mine, Config
<1>3. PICK m \in Models : m = Dropped(globalConfig[p], globalConfig[p].model)
  BY <1>2, DroppedIs
<1>4. PICK d \in Config : d = [globalConfig[p] EXCEPT !.model = m] /\ KeyOf(d) = KeyOf(globalConfig[p])
  BY <1>1, ModelOfDraft DEF Mine
<1>5. PICK n \in Models : n = Dropped(globalConfig[p], projectConfig[p])
  BY <1>1, DroppedIs DEF Mine
<1>6. /\ writing[p] = None /\ saves[p] < MaxSaves
      /\ editor' = [editor EXCEPT ![p] = "open"] /\ saves' = [saves EXCEPT ![p] = @ + 1]
      /\ cfgDraft' = [cfgDraft EXCEPT ![p] = d] /\ cfgProjectDraft' = [cfgProjectDraft EXCEPT ![p] = n]
      /\ aliased' = aliased \ {p} /\ opened' = [opened EXCEPT ![p] = globalConfig[p]]
      /\ typed' = [typed EXCEPT ![p].now = "none"]
      /\ UNCHANGED <<models, latePicker, writing>> /\ UNCHANGED fileVars /\ UNCHANGED memVars
  BY <1>3, <1>4, <1>5 DEF EnterConfigMode, Edits, Idle
<1>7. /\ UNCHANGED <<globalConfig, projectConfig, config>> /\ UNCHANGED <<globalFile, projectFile, lastSaver>>
  BY <1>6 DEF memVars, fileVars
<1>8. editor[p] = "closed"
  BY DEF EnterConfigMode
<1>9. saves' \in [Apps -> 0..MaxSaves]
  BY <1>1, <1>6, SettingsAssumption DEF SettingsTypeOK
<1>10. /\ typed' \in [Apps -> [now : Keys \cup {None, "none"}, saved : Keys \cup {None, "none"}]]
       /\ typed'[p].now = "none" /\ typed'[p].saved = typed[p].saved
       /\ \A q \in Apps \ {p} : typed'[q] = typed[q]
  BY <1>1, <1>6 DEF SettingsTypeOK
<1>11. SettingsTypeOK'
  BY <1>1, <1>6, <1>7, <1>9, <1>10 DEF SettingsTypeOK, Mine
<1>12. Alone(p) /\ OwnWrite(p)
  BY <1>1, <1>6, <1>7, <1>10 DEF Alone, OwnWrite, SettingsTypeOK
<1>13. /\ editor'[p] = "open" /\ cfgDraft'[p] = d /\ opened'[p] = globalConfig[p]
       /\ UNCHANGED <<globalConfig[p], config[p], projectConfig[p], writing[p]>>
  BY <1>1, <1>6, <1>7 DEF SettingsTypeOK
<1>14. InUse(p)' /\ NotYetSaved(p)' /\ Kept(p)'
  BY <1>1, <1>6, <1>7, <1>8, <1>10, <1>13, NothingIsWritten DEF Mine, Settled, InUse, NotYetSaved, Kept
<1>15. Drafted(p)'
  BY <1>1, <1>4, <1>10, <1>13 DEF Drafted, Mine, Config
<1>. QED  BY <1>1, <1>6, <1>11, <1>12, <1>14, <1>15, OneAtATime DEF Mine, Settled

LEMMA EditKeyKeeps ==
  ASSUME SettingsIndInv, NEW p \in Apps, EditKey(p)  PROVE SettingsIndInv'
<1>1. Mine(p) /\ SettingsTypeOK
  BY MineIs DEF Mine
<1>2. PICK k \in Keys \cup {None} :
        /\ cfgDraft' = [cfgDraft EXCEPT ![p] = SetKey(cfgDraft[p], k)]
        /\ typed' = [typed EXCEPT ![p].now = k]
        /\ p \notin aliased => globalConfig' = globalConfig
  BY DEF EditKey
<1>3. /\ editor[p] = "open" /\ UNCHANGED fileVars
      /\ UNCHANGED <<projectConfig, config, cfgProjectDraft, aliased, latePicker, opened,
                     models, editor, writing, saves>>
      /\ globalConfig' = globalConfig
  BY <1>1, <1>2 DEF EditKey, Mine
<1>4. UNCHANGED <<globalFile, projectFile, lastSaver>>
  BY <1>3 DEF fileVars
<1>5. SetKey(cfgDraft[p], k) \in Config /\ KeyOf(SetKey(cfgDraft[p], k)) = k /\ k # "none"
  BY <1>1, KeyIsSet, SettingsAssumption DEF Mine
<1>6. /\ typed' \in [Apps -> [now : Keys \cup {None, "none"}, saved : Keys \cup {None, "none"}]]
      /\ typed'[p].now = k /\ typed'[p].saved = typed[p].saved
      /\ \A q \in Apps \ {p} : typed'[q] = typed[q]
  <2>1. typed' = [typed EXCEPT ![p].now = k]
    BY <1>2
  <2>. QED  BY <1>1, <2>1 DEF SettingsTypeOK
<1>9. /\ cfgDraft' \in [Apps -> Config] /\ cfgDraft'[p] = SetKey(cfgDraft[p], k)
      /\ \A q \in Apps \ {p} : cfgDraft'[q] = cfgDraft[q]
  <2>1. cfgDraft' = [cfgDraft EXCEPT ![p] = SetKey(cfgDraft[p], k)]
    BY <1>2
  <2>. QED  BY <1>1, <1>5, <2>1 DEF SettingsTypeOK
<1>7. SettingsTypeOK'
  BY <1>1, <1>3, <1>4, <1>6, <1>9 DEF SettingsTypeOK
<1>8. Alone(p) /\ OwnWrite(p)
  BY <1>3, <1>4, <1>6, <1>9 DEF Alone, OwnWrite
<1>10. InUse(p)' /\ NotYetSaved(p)' /\ Kept(p)'
  BY <1>1, <1>3, <1>4, <1>6 DEF Mine, Settled, InUse, NotYetSaved, Kept
<1>11. Drafted(p)'
  BY <1>1, <1>3, <1>5, <1>6, <1>9 DEF Mine, Settled, Drafted
<1>. QED  BY <1>1, <1>3, <1>7, <1>8, <1>10, <1>11, OneAtATime DEF Mine, Settled

\* The steps that only open or close a menu.
LEMMA PickerKeeps ==
  ASSUME SettingsIndInv, NEW p \in Apps, OpenPicker(p) \/ LatePickerOpens(p)  PROVE SettingsIndInv'
<1>1. Mine(p) /\ SettingsTypeOK
  BY MineIs DEF Mine
<1>2. /\ latePicker' \subseteq Apps
      /\ UNCHANGED <<cfgDraft, cfgProjectDraft, aliased, opened, typed, models, writing, saves>>
      /\ UNCHANGED fileVars /\ UNCHANGED memVars
      /\ editor' = editor \/ (editor[p] = "open" /\ editor' = [editor EXCEPT ![p] = "menu"])
  BY <1>1 DEF OpenPicker, LatePickerOpens, Edits, SettingsTypeOK
<1>3. /\ UNCHANGED <<globalConfig, projectConfig, config>> /\ UNCHANGED <<globalFile, projectFile, lastSaver>>
  BY <1>2 DEF memVars, fileVars
<1>4. /\ editor' \in [Apps -> {"off", "starting", "closed", "open", "menu"}]
      /\ editor'[p] = editor[p] \/ (editor[p] = "open" /\ editor'[p] = "menu")
      /\ \A q \in Apps \ {p} : editor'[q] = editor[q]
  BY <1>1, <1>2 DEF SettingsTypeOK
<1>5. SettingsTypeOK'
  BY <1>1, <1>2, <1>3, <1>4 DEF SettingsTypeOK
<1>6. Alone(p) /\ OwnWrite(p)
  BY <1>2, <1>3, <1>4 DEF Alone, OwnWrite
<1>7. Settled(p)'
  BY <1>1, <1>2, <1>3, <1>4 DEF Mine, Settled, InUse, Drafted, NotYetSaved, Kept
<1>. QED  BY <1>1, <1>2, <1>5, <1>6, <1>7, OneAtATime DEF Mine

LEMMA ChooseKeeps ==
  ASSUME SettingsIndInv, NEW p \in Apps, ChooseModel(p)  PROVE SettingsIndInv'
<1>1. Mine(p) /\ SettingsTypeOK /\ "canonical" \in Models
  BY MineIs, KnownValues DEF Mine
<1>2. PICK d \in Config : d = [cfgDraft[p] EXCEPT !.model = "canonical"] /\ KeyOf(d) = KeyOf(cfgDraft[p])
  BY <1>1, ModelOfDraft DEF Mine
<1>3. /\ editor[p] = "menu" /\ editor' = [editor EXCEPT ![p] = "open"]
      /\ cfgDraft' = cfgDraft \/ cfgDraft' = [cfgDraft EXCEPT ![p] = d]
      /\ \/ cfgProjectDraft' = cfgProjectDraft
         \/ cfgProjectDraft' = [cfgProjectDraft EXCEPT ![p] = "canonical"]
      /\ UNCHANGED <<aliased, latePicker, opened, typed, models, writing, saves>>
      /\ UNCHANGED fileVars /\ UNCHANGED memVars
  BY <1>2 DEF ChooseModel, Edits
<1>4. /\ UNCHANGED <<globalConfig, projectConfig, config>> /\ UNCHANGED <<globalFile, projectFile, lastSaver>>
  BY <1>3 DEF memVars, fileVars
<1>5. /\ editor'[p] = "open" /\ KeyOf(cfgDraft'[p]) = KeyOf(cfgDraft[p])
      /\ \A q \in Apps \ {p} : editor'[q] = editor[q] /\ cfgDraft'[q] = cfgDraft[q]
  <2>1. editor'[p] = "open" /\ \A q \in Apps \ {p} : editor'[q] = editor[q]
    BY <1>1, <1>3 DEF SettingsTypeOK
  <2>2. cfgDraft'[p] \in {cfgDraft[p], d} /\ \A q \in Apps \ {p} : cfgDraft'[q] = cfgDraft[q]
    BY <1>1, <1>3 DEF SettingsTypeOK
  <2>3. KeyOf(cfgDraft'[p]) = KeyOf(cfgDraft[p])
    BY <1>2, <2>2, Zenon
  <2>. QED  BY <2>1, <2>2, <2>3
<1>6. SettingsTypeOK'
  <2>1. cfgDraft' \in [Apps -> Config] /\ cfgProjectDraft' \in [Apps -> Models]
    BY <1>1, <1>3 DEF SettingsTypeOK
  <2>2. editor' \in [Apps -> {"off", "starting", "closed", "open", "menu"}]
    BY <1>1, <1>3 DEF SettingsTypeOK
  <2>. QED  BY <1>1, <1>3, <1>4, <2>1, <2>2 DEF SettingsTypeOK
<1>7. Alone(p) /\ OwnWrite(p)
  BY <1>3, <1>4, <1>5 DEF Alone, OwnWrite
<1>8. Settled(p)'
  BY <1>1, <1>3, <1>4, <1>5 DEF Mine, Settled, InUse, Drafted, NotYetSaved, Kept
<1>. QED  BY <1>1, <1>3, <1>6, <1>7, <1>8, OneAtATime DEF Mine

LEMMA SortKeeps ==
  ASSUME SettingsIndInv, NEW p \in Apps, SortMenu(p)  PROVE SettingsIndInv'
<1>1. Mine(p) /\ SettingsTypeOK
  BY MineIs DEF Mine
<1>2. PICK s \in {"name", "price"} : s = IF globalConfig[p].sort = "name" THEN "price" ELSE "name"
  BY DEF Config
<1>3. PICK g \in Config : g = [globalConfig[p] EXCEPT !.sort = s]
  BY <1>1 DEF Mine, Config
<1>4. /\ editor[p] = "menu" /\ Rebuild(p, g, projectConfig[p])
      /\ writing' = [writing EXCEPT ![p] = "sort"] /\ globalFile' = Torn
      /\ UNCHANGED <<projectFile, lastSaver, models, editor, saves>> /\ UNCHANGED draftVars
  BY <1>2, <1>3 DEF SortMenu, Opens
<1>5. UNCHANGED <<cfgDraft, cfgProjectDraft, aliased, latePicker, opened, typed>>
  BY <1>4 DEF draftVars
<1>6. /\ globalConfig[p] = Overwritten(p, globalConfig[p]) /\ projectConfig[p] \in Models
      /\ globalConfig[p] = [opened[p] EXCEPT !.sort = globalConfig[p].sort]
  BY <1>1, <1>4 DEF Mine, Settled, InUse, Drafted
<1>7. Overwritten(p, g) = g
  <2>0. globalConfig[p] \in Config
    BY <1>1 DEF Mine
  <2>1. PICK c \in Config : c = globalConfig[p] /\ c = Overwritten(p, c)
    BY <1>6, <2>0, Zenon
  <2>2. g = [c EXCEPT !.sort = s]
    BY <1>3, <2>1, Zenon
  <2>. QED  BY <2>1, <2>2, OrderIsKept
<1>8. /\ globalConfig' \in [Apps -> Config] /\ projectConfig' \in [Apps -> Models]
      /\ config' \in [Apps -> Config] /\ InUse(p)' /\ globalConfig'[p] = g
      /\ \A q \in Apps \ {p} : UNCHANGED <<config[q], globalConfig[q], projectConfig[q]>>
  BY <1>1, <1>4, <1>6, <1>7, Rebuilt
<1>9. /\ g = [opened[p] EXCEPT !.sort = g.sort] /\ KeyOf(g) = KeyOf(globalConfig[p])
  BY <1>1, <1>3, <1>6 DEF Mine, Config, KeyOf
<1>10. SettingsTypeOK'
  BY <1>1, <1>4, <1>5, <1>8 DEF SettingsTypeOK
<1>11. Alone(p) /\ OwnWrite(p)
  BY <1>1, <1>4, <1>5, <1>8 DEF Alone, OwnWrite, SettingsTypeOK
<1>12. Settled(p)'
  <2>1. Drafted(p)'
    BY <1>1, <1>4, <1>5, <1>8, <1>9 DEF Mine, Settled, Drafted
  <2>2. writing'[p] = "sort"
    BY <1>1, <1>4 DEF SettingsTypeOK
  <2>3. NotYetSaved(p)' /\ Kept(p)'
    BY <1>1, <1>4, <1>5, <1>8, <1>9, <2>2, NothingIsWritten DEF Mine, Settled, NotYetSaved, Kept
  <2>. QED  BY <1>8, <2>1, <2>3 DEF Settled
<1>. QED  BY <1>1, <1>5, <1>10, <1>11, <1>12, OneAtATime DEF Mine

-----------------------------------------------------------------------------
(* The editor is left, files are written, the process ends *)

LEMMA DraftsEnd ==
  ASSUME SettingsTypeOK, NEW p \in Apps, DraftsOver(p)
  PROVE  /\ cfgDraft' \in [Apps -> Config] /\ cfgProjectDraft' \in [Apps -> Models]
         /\ opened' \in [Apps -> Config] /\ aliased' = aliased \ {p}
         /\ \A q \in Apps \ {p} : UNCHANGED <<cfgDraft[q], opened[q]>>
BY DefaultIs, KnownValues DEF DraftsOver, SettingsTypeOK

LEMMA CancelKeeps ==
  ASSUME SettingsIndInv, NEW p \in Apps, CancelConfig(p)  PROVE SettingsIndInv'
<1>1. Mine(p) /\ SettingsTypeOK
  BY MineIs DEF Mine
<1>2. /\ editor[p] = "open" /\ writing[p] = None /\ editor' = [editor EXCEPT ![p] = "closed"]
      /\ typed' = [typed EXCEPT ![p].now = "none"]
      /\ UNCHANGED <<latePicker, models, writing, saves>> /\ UNCHANGED fileVars /\ UNCHANGED memVars
  BY DEF CancelConfig, Edits, Idle
<1>3. /\ UNCHANGED <<globalConfig, projectConfig, config>> /\ UNCHANGED <<globalFile, projectFile, lastSaver>>
  BY <1>2 DEF memVars, fileVars
<1>4. /\ cfgDraft' \in [Apps -> Config] /\ cfgProjectDraft' \in [Apps -> Models]
      /\ opened' \in [Apps -> Config] /\ aliased' = aliased \ {p}
      /\ \A q \in Apps \ {p} : UNCHANGED <<cfgDraft[q], opened[q]>>
  BY <1>1, DraftsEnd DEF CancelConfig
<1>5. /\ typed' \in [Apps -> [now : Keys \cup {None, "none"}, saved : Keys \cup {None, "none"}]]
      /\ typed'[p].saved = typed[p].saved
      /\ \A q \in Apps \ {p} : typed'[q] = typed[q]
  BY <1>1, <1>2 DEF SettingsTypeOK
<1>6. SettingsTypeOK'
  BY <1>1, <1>2, <1>3, <1>4, <1>5 DEF SettingsTypeOK
<1>7. Alone(p) /\ OwnWrite(p)
  BY <1>1, <1>2, <1>3, <1>4, <1>5 DEF Alone, OwnWrite, SettingsTypeOK
<1>8. editor'[p] = "closed" /\ aliased' = {}
  BY <1>1, <1>2, <1>4 DEF SettingsTypeOK, Mine
<1>9. Settled(p)'
  BY <1>1, <1>2, <1>3, <1>5, <1>8, NothingIsWritten DEF Mine, Settled, InUse, Drafted, NotYetSaved, Kept
<1>. QED  BY <1>6, <1>7, <1>8, <1>9, OneAtATime

LEMMA SaveKeeps ==
  ASSUME SettingsIndInv, NEW p \in Apps, SaveConfigMode(p)  PROVE SettingsIndInv'
<1>1. Mine(p) /\ SettingsTypeOK
  BY MineIs DEF Mine
<1>2. Canonical(cfgDraft[p].model, p \in models) \in Models
  BY <1>1, CanonicalIs DEF Mine, Config
<1>3. PICK m \in Models : m = Dropped(cfgDraft[p], Canonical(cfgDraft[p].model, p \in models))
  BY <1>2, DroppedIs
<1>4. PICK d \in Config : d = [cfgDraft[p] EXCEPT !.model = m] /\ KeyOf(d) = KeyOf(cfgDraft[p])
  BY <1>1, ModelOfDraft DEF Mine
<1>5. Canonical(cfgProjectDraft[p], p \in models) \in Models
  BY <1>1, CanonicalIs DEF Mine
<1>6. PICK n \in Models : n = Dropped(d, Canonical(cfgProjectDraft[p], p \in models))
  BY <1>5, DroppedIs
<1>7. Rebuild(p, d, n)
  BY <1>3, <1>4, <1>6 DEF SaveConfigMode
<1>8. /\ editor[p] = "open" /\ writing[p] = None /\ editor' = [editor EXCEPT ![p] = "closed"]
      /\ writing' = [writing EXCEPT ![p] = "global"] /\ globalFile' = Torn
      /\ UNCHANGED <<projectFile, lastSaver, latePicker, models, saves>>
  BY DEF SaveConfigMode, Edits, Idle, Opens
<1>9. /\ cfgDraft' \in [Apps -> Config] /\ cfgProjectDraft' \in [Apps -> Models]
      /\ opened' \in [Apps -> Config] /\ aliased' = {}
      /\ \A q \in Apps \ {p} : UNCHANGED <<cfgDraft[q], opened[q]>>
  BY <1>1, DraftsEnd DEF SaveConfigMode, Mine
<1>10. PICK k \in Keys \cup {None, "none"} : k = IF typed[p].now = "none" THEN typed[p].saved ELSE typed[p].now
  BY <1>1 DEF SettingsTypeOK
<1>11. typed' = [typed EXCEPT ![p] = [now |-> "none", saved |-> k]]
  BY <1>10 DEF SaveConfigMode
<1>12. /\ typed' \in [Apps -> [now : Keys \cup {None, "none"}, saved : Keys \cup {None, "none"}]]
       /\ typed'[p].saved = k /\ \A q \in Apps \ {p} : typed'[q] = typed[q]
  BY <1>1, <1>11 DEF SettingsTypeOK
<1>13. /\ globalConfig' \in [Apps -> Config] /\ projectConfig' \in [Apps -> Models]
       /\ config' \in [Apps -> Config] /\ InUse(p)' /\ globalConfig'[p] = Overwritten(p, d)
       /\ \A q \in Apps \ {p} : UNCHANGED <<config[q], globalConfig[q], projectConfig[q]>>
  BY <1>1, <1>7, Rebuilt
<1>14. SettingsTypeOK'
  BY <1>1, <1>8, <1>9, <1>12, <1>13 DEF SettingsTypeOK
<1>15. Alone(p) /\ OwnWrite(p)
  BY <1>1, <1>8, <1>9, <1>12, <1>13 DEF Alone, OwnWrite, SettingsTypeOK
<1>16. editor'[p] = "closed" /\ writing'[p] = "global"
  BY <1>1, <1>8 DEF SettingsTypeOK
<1>17. Override[p].dep = None /\ k # "none" => KeyOf(globalConfig'[p]) = k
  <2>. SUFFICES ASSUME Override[p].dep = None, k # "none"  PROVE KeyOf(globalConfig'[p]) = k
    OBVIOUS
  <2>1. Overwritten(p, d) = d
    BY OverwrittenIs
  <2>2. KeyOf(cfgDraft[p]) = IF typed[p].now = "none" THEN KeyOf(globalConfig[p]) ELSE typed[p].now
    BY <1>1, <1>8 DEF Mine, Settled, Drafted
  <2>3. typed[p].saved # "none" => KeyOf(globalConfig[p]) = typed[p].saved
    BY <1>1, <1>8 DEF Mine, Settled, Kept
  <2>4. KeyOf(cfgDraft[p]) = k
    BY <1>10, <2>2, <2>3
  <2>. QED  BY <1>4, <1>13, <2>1, <2>4, Zenon
<1>18. Settled(p)'
  BY <1>12, <1>13, <1>16, <1>17, NothingIsWritten DEF Settled, Drafted, NotYetSaved, Kept
<1>. QED  BY <1>9, <1>14, <1>15, <1>18, OneAtATime

LEMMA WriteKeeps ==
  ASSUME SettingsIndInv, NEW p \in Apps, WriteEnds(p)  PROVE SettingsIndInv'
<1>1. Mine(p) /\ SettingsTypeOK
  BY MineIs DEF Mine
<1>2. UNCHANGED <<globalConfig, projectConfig, config>>
      /\ UNCHANGED <<cfgDraft, cfgProjectDraft, aliased, latePicker, opened, typed, models, editor, saves>>
  BY DEF WriteEnds, memVars, draftVars
<1>3. PICK c \in Config : c = IF writing[p] = "first" THEN Default ELSE globalConfig[p]
  BY <1>1, DefaultIs DEF Mine
<1>4. \/ /\ writing[p] = "project" /\ projectFile' = projectConfig[p]
         /\ writing' = [writing EXCEPT ![p] = None] /\ UNCHANGED <<globalFile, lastSaver>>
      \/ /\ globalFile' = Stored(c) /\ lastSaver' = p
         /\ \/ writing' = [writing EXCEPT ![p] = "project"] /\ projectFile' = "empty file"
            \/ writing' = [writing EXCEPT ![p] = None] /\ UNCHANGED projectFile
  BY <1>3 DEF WriteEnds, Opens
<1>5. Stored(c) \in Config /\ Stored(c).dep = KeyOf(c)
  BY StoredIs
<1>6. writing' \in [Apps -> {None, "first", "sort", "global", "project"}]
      /\ writing'[p] \in {None, "project"} /\ \A q \in Apps \ {p} : writing'[q] = writing[q]
  BY <1>1, <1>4 DEF SettingsTypeOK
<1>7. SettingsTypeOK'
  <2>1. globalFile' \in Config \cup {Absent, Torn} /\ projectFile' \in Models \cup NoProject
        /\ lastSaver' \in Apps \cup {Nobody}
    BY <1>1, <1>4, <1>5 DEF SettingsTypeOK, Mine, NoProject
  <2>. QED  BY <1>1, <1>2, <1>6, <2>1 DEF SettingsTypeOK
<1>8. Alone(p) /\ OwnWrite(p)
  BY <1>2, <1>4, <1>6 DEF Alone, OwnWrite
<1>9. InUse(p)' /\ Drafted(p)' /\ NotYetSaved(p)'
  BY <1>1, <1>2, <1>6, NothingIsWritten DEF Mine, Settled, InUse, Drafted, NotYetSaved
<1>10. Kept(p)'
  <2>1. CASE writing[p] = "project" /\ UNCHANGED <<globalFile, lastSaver>>
    BY <1>1, <1>2, <2>1 DEF Mine, Settled, Kept
  <2>2. CASE globalFile' = Stored(c)
    <3>1. writing[p] = "first" => typed[p].saved = "none"
      BY <1>1 DEF Mine, Settled, NotYetSaved
    <3>2. writing[p] # "first" => globalFile'.dep = KeyOf(globalConfig[p])
      BY <1>3, <1>5, <2>2
    <3>. QED  BY <1>1, <1>2, <3>1, <3>2 DEF Mine, Settled, Kept
  <2>. QED  BY <1>4, <2>1, <2>2
<1>. QED  BY <1>1, <1>2, <1>7, <1>8, <1>9, <1>10, OneAtATime DEF Mine, Settled

LEMMA ExitKeeps ==
  ASSUME SettingsIndInv, NEW p \in Apps, Exits(p)  PROVE SettingsIndInv'
<1>1. Mine(p) /\ SettingsTypeOK
  BY MineIs DEF Mine
<1>2. /\ editor' = [editor EXCEPT ![p] = "off"] /\ writing' = [writing EXCEPT ![p] = None]
      /\ latePicker' = latePicker \ {p} /\ models' = models \ {p}
      /\ globalConfig' = [globalConfig EXCEPT ![p] = Default]
      /\ projectConfig' = [projectConfig EXCEPT ![p] = None] /\ config' = [config EXCEPT ![p] = Default]
      /\ typed' = [typed EXCEPT ![p] = [now |-> "none", saved |-> "none"]]
      /\ UNCHANGED <<globalFile, projectFile, lastSaver, saves>>
  BY DEF Exits, Edits, Opens, fileVars
<1>3. /\ cfgDraft' \in [Apps -> Config] /\ cfgProjectDraft' \in [Apps -> Models]
      /\ opened' \in [Apps -> Config] /\ aliased' = {}
      /\ \A q \in Apps \ {p} : UNCHANGED <<cfgDraft[q], opened[q]>>
  BY <1>1, DraftsEnd DEF Exits, Mine
<1>4. /\ typed' \in [Apps -> [now : Keys \cup {None, "none"}, saved : Keys \cup {None, "none"}]]
      /\ typed'[p].saved = "none" /\ \A q \in Apps \ {p} : typed'[q] = typed[q]
  BY <1>1, <1>2 DEF SettingsTypeOK
<1>5. SettingsTypeOK'
  BY <1>1, <1>2, <1>3, <1>4, DefaultIs, KnownValues DEF SettingsTypeOK
<1>6. Alone(p) /\ OwnWrite(p)
  BY <1>1, <1>2, <1>3, <1>4 DEF Alone, OwnWrite, SettingsTypeOK
<1>7. editor'[p] = "off" /\ writing'[p] = None
  BY <1>1, <1>2 DEF SettingsTypeOK
<1>8. Settled(p)'
  BY <1>4, <1>7, NothingIsWritten DEF Settled, InUse, Drafted, NotYetSaved, Kept
<1>. QED  BY <1>3, <1>5, <1>6, <1>8, OneAtATime

-----------------------------------------------------------------------------
(* The invariant *)

LEMMA SettingsStart == SettingsInit => SettingsIndInv
<1>. SUFFICES ASSUME SettingsInit  PROVE SettingsIndInv
  OBVIOUS
<1>1. SettingsTypeOK
  <2>1. globalFile \in Config \cup {Absent, Torn} /\ projectFile \in Models \cup NoProject
    BY SettingsAssumption, KnownValues DEF SettingsInit, NoProject
  <2>2. /\ globalConfig \in [Apps -> Config] /\ config \in [Apps -> Config] /\ cfgDraft \in [Apps -> Config]
        /\ opened \in [Apps -> Config]
    BY DefaultIs DEF SettingsInit
  <2>3. projectConfig \in [Apps -> Models] /\ cfgProjectDraft \in [Apps -> Models]
    BY KnownValues DEF SettingsInit
  <2>4. typed \in [Apps -> [now : Keys \cup {None, "none"}, saved : Keys \cup {None, "none"}]]
    BY DEF SettingsInit
  <2>5. saves \in [Apps -> 0..MaxSaves]
    <3>1. MaxSaves \in Nat
      BY SettingsAssumption, Zenon
    <3>2. saves = [p \in Apps |-> 0]
      BY DEF SettingsInit
    <3>. QED  BY <3>1, <3>2
  <2>6. /\ aliased \subseteq Apps /\ models \subseteq Apps /\ latePicker \subseteq Apps
        /\ editor \in [Apps -> {"off", "starting", "closed", "open", "menu"}]
        /\ writing \in [Apps -> {None, "first", "sort", "global", "project"}]
        /\ lastSaver \in Apps \cup {Nobody}
    BY DEF SettingsInit
  <2>. QED  BY <2>1, <2>2, <2>3, <2>4, <2>5, <2>6 DEF SettingsTypeOK
<1>2. ASSUME NEW p \in Apps  PROVE Settled(p)
  <2>1. editor[p] = "off" /\ writing[p] = None /\ typed[p].saved = "none"
    BY DEF SettingsInit
  <2>. QED  BY <2>1, NothingIsWritten DEF Settled, InUse, Drafted, NotYetSaved, Kept
<1>. QED  BY <1>1, <1>2 DEF SettingsIndInv, SettingsInit

LEMMA SettingsStutter ==
  ASSUME SettingsIndInv, UNCHANGED settingsVars  PROVE SettingsIndInv'
<1>1. /\ UNCHANGED <<globalFile, projectFile, globalConfig, projectConfig, config, cfgDraft, cfgProjectDraft>>
      /\ UNCHANGED <<aliased, models, editor, latePicker, writing, saves, opened, typed, lastSaver>>
  BY DEF settingsVars
<1>2. SettingsTypeOK'
  BY <1>1 DEF SettingsIndInv, SettingsTypeOK
<1>3. ASSUME NEW p \in Apps  PROVE Settled(p)'
  BY <1>1 DEF SettingsIndInv, Settled, InUse, Drafted, NotYetSaved, Kept
<1>. QED  BY <1>1, <1>2, <1>3 DEF SettingsIndInv

LEMMA SettingsStep == SettingsIndInv /\ [SettingsNext]_settingsVars => SettingsIndInv'
<1>1. ASSUME SettingsIndInv, SettingsNext  PROVE SettingsIndInv'
  BY <1>1, StartKeeps, WorkspaceKeeps, CatalogKeeps, EnterKeeps, EditKeyKeeps, PickerKeeps, ChooseKeeps,
     SortKeeps, CancelKeeps, SaveKeeps, WriteKeeps, ExitKeeps, Zenon DEF SettingsNext
<1>. QED  BY <1>1, SettingsStutter

\* The configuration (config_storage.go, config_overrides.go, configeditor.go), for every
\* set of processes that share the two files: the one in use is what the saved ones and
\* the overrides give, the editor's draft stays a draft until it is saved, and a saved
\* credential holds, in use and in the file, unless an override replaces it.
THEOREM ConfigurationAgrees == SettingsSpec => []SettingsInv
<1>1. SettingsIndInv => SettingsInv
  <2>. SUFFICES ASSUME SettingsIndInv  PROVE SettingsInv
    OBVIOUS
  <2>1. EffectiveIsCurrent
    BY DEF SettingsIndInv, Settled, InUse, EffectiveIsCurrent
  <2>2. DraftStaysDraft
    BY DEF SettingsIndInv, Settled, Drafted, DraftStaysDraft
  <2>3. SavedKeyHolds
    BY DEF SettingsIndInv, Settled, Kept, SavedKeyHolds
  <2>. QED  BY <2>1, <2>2, <2>3 DEF SettingsIndInv, SettingsInv
<1>. QED  BY <1>1, SettingsStart, SettingsStep, PTL DEF SettingsSpec

(***************************************************************************)
(* The list of models                                                      *)
(***************************************************************************)

Catalogued == UNION CatalogIds

\* A model that is in no catalog is from the one provider that can list it.
Listable(m) ==
  m.id \notin Catalogued =>
    m.provider \in Dynamic /\ m.deps = {m.provider} /\ m.id \in UNION AnswersOf[m.provider]
ListOK == (\A m \in listed : Listable(m)) /\ answered = [p \in Dynamic |-> answered[p]]

\* A client without a provider is none, and only a client reaches Apple's models.
ClientOK(c) ==
  /\ c.there \in BOOLEAN /\ c.apple \in BOOLEAN
  /\ c.apple => c.there
  /\ ~c.there => c.provider = NoProvider
ClientsOK == ClientOK(langdag) /\ \A j \in BagToSet(jobs) : ClientOK(j.client)

\* A client that reaches Apple's models is in use or will be.
AppleComing == \E j \in BagToSet(jobs) : j.kind = "ready" /\ j.client.apple
AppleOnTheWay == ~failed /\ RuntimeApple(listed) => langdag.apple \/ AppleComing

\* The inductive invariant.
CatalogIndInv ==
  CatalogTypeOK /\ ListOK /\ ClientsOK /\ FetchedModelsKept /\ FirstLineShown /\ AppleOnTheWay

-----------------------------------------------------------------------------
(* Bags *)

LEMMA BagGrows ==
  ASSUME NEW B, IsABag(B), NEW S
  PROVE  IsABag(B (+) SetToBag(S)) /\ BagToSet(B (+) SetToBag(S)) = BagToSet(B) \cup S
BY DEF IsABag, SetToBag, BagToSet, (+)

LEMMA BagShrinks ==
  ASSUME NEW B, IsABag(B), NEW e
  PROVE  /\ IsABag(B (-) SetToBag({e})) /\ BagToSet(B (-) SetToBag({e})) \subseteq BagToSet(B)
         /\ BagToSet(B) \subseteq BagToSet(B (-) SetToBag({e})) \cup {e}
BY DEF IsABag, SetToBag, BagToSet, (-)

LEMMA BagEmpty == IsABag(EmptyBag) /\ BagToSet(EmptyBag) = {}
BY DEF IsABag, EmptyBag, SetToBag, BagToSet

-----------------------------------------------------------------------------
(* The list and the client *)

LEMMA MergeIs ==
  ASSUME NEW base, NEW dynamic, NEW all, all = Merge(base, dynamic)
  PROVE  /\ \A m, k \in all : m.id = k.id => m = k
         /\ \A m \in base \cup dynamic : \E n \in all : n.id = m.id /\ m.deps \subseteq n.deps
         /\ \A n \in all : /\ \E m \in base \cup dynamic : m.id = n.id /\ m.provider = n.provider
                           /\ \A d \in n.deps : \E m \in base \cup dynamic : m.id = n.id /\ d \in m.deps
<1> DEFINE ids == {m.id : m \in base \cup dynamic}
           of(i) == {m \in base \cup dynamic : m.id = i}
           first(i) == IF \E m \in base : m.id = i THEN CHOOSE m \in base : m.id = i
                                                   ELSE CHOOSE m \in dynamic : m.id = i
           entry(i) == [id |-> i, provider |-> first(i).provider, deps |-> UNION {m.deps : m \in of(i)}]
<1>1. all = {entry(i) : i \in ids}
  BY DEF Merge
<1>2. ASSUME NEW i \in ids  PROVE first(i) \in base \cup dynamic /\ first(i).id = i
  OBVIOUS
<1>3. \A i : entry(i).id = i /\ entry(i).provider = first(i).provider
             /\ \A d : d \in entry(i).deps <=> \E m \in base \cup dynamic : m.id = i /\ d \in m.deps
  OBVIOUS
<1> HIDE DEF first, entry
<1>4. \A m, k \in all : m.id = k.id => m = k
  BY <1>1, <1>3
<1>5. ASSUME NEW m \in base \cup dynamic  PROVE \E n \in all : n.id = m.id /\ m.deps \subseteq n.deps
  <2>1. entry(m.id) \in all
    BY <1>1
  <2>2. entry(m.id).id = m.id /\ m.deps \subseteq entry(m.id).deps
    BY <1>3
  <2>. QED  BY <2>1, <2>2
<1>6. ASSUME NEW n \in all
      PROVE  /\ \E m \in base \cup dynamic : m.id = n.id /\ m.provider = n.provider
             /\ \A d \in n.deps : \E m \in base \cup dynamic : m.id = n.id /\ d \in m.deps
  <2>1. PICK i \in ids : n = entry(i)
    BY <1>1
  <2>. QED  BY <1>2, <1>3, <2>1
<1>. QED  BY <1>4, <1>5, <1>6

LEMMA BaseIs ==
  ASSUME NEW cat \in CatalogIds \cup {NoCatalog}, NEW m \in FromCatalog(cat)
  PROVE  m.id \in Catalogued /\ m.deps = {"catalog"}
<1>1. cat # NoCatalog /\ m \in {[id |-> i, provider |-> "catalog", deps |-> {"catalog"}] : i \in cat}
  BY DEF FromCatalog
<1>2. PICK i \in cat : m = [id |-> i, provider |-> "catalog", deps |-> {"catalog"}]
  BY <1>1
<1>3. m.id = i /\ m.deps = {"catalog"}
  BY <1>2
<1>4. cat \in CatalogIds
  BY <1>1
<1>5. i \in UNION CatalogIds
  BY <1>2, <1>4
<1>. QED  BY <1>3, <1>5 DEF Catalogued

LEMMA FetchedIs ==
  ASSUME NEW p \in Dynamic, NEW ids \in AnswersOf[p] \cup {{}}
  PROVE  /\ \A m \in Fetched(p, ids) : m.deps = {p} /\ Listable(m)
         /\ \A i \in ids : \E m \in Fetched(p, ids) : m.id = i /\ m.deps = {p}
<1>1. ASSUME NEW m \in Fetched(p, ids)  PROVE m.deps = {p} /\ Listable(m)
  <2>1. PICK i \in ids : m = [id |-> i, provider |-> p, deps |-> {p}]
    BY DEF Fetched
  <2>2. m.id = i /\ m.provider = p /\ m.deps = {p}
    BY <2>1
  <2>3. i \in UNION AnswersOf[p]
    OBVIOUS
  <2>. QED  BY <2>2, <2>3 DEF Listable
<1>2. ASSUME NEW i \in ids  PROVE \E m \in Fetched(p, ids) : m.id = i /\ m.deps = {p}
  <2> DEFINE m == [id |-> i, provider |-> p, deps |-> {p}]
  <2>1. m \in Fetched(p, ids)
    BY DEF Fetched
  <2>2. m.id = i /\ m.deps = {p}
    OBVIOUS
  <2>. QED  BY <2>1, <2>2
<1>. QED  BY <1>1, <1>2

\* A list that is merged of a catalog and of listable models names each model once, is
\* listable, drops none of these models, and has Apple's only if they have.
Follows(all, dynamic) ==
  /\ \A m, k \in all : m.id = k.id => m = k
  /\ \A m \in all : Listable(m)
  /\ \A m \in dynamic : \E n \in all : n.id = m.id /\ m.deps \subseteq n.deps
  /\ RuntimeApple(all) => RuntimeApple(dynamic)

LEMMA MergedIs ==
  ASSUME NEW cat \in CatalogIds \cup {NoCatalog}, NEW dynamic, \A m \in dynamic : Listable(m)
  PROVE  Follows(Merge(FromCatalog(cat), dynamic), dynamic)
<1>0. PICK all : all = Merge(FromCatalog(cat), dynamic)
  OBVIOUS
<1> DEFINE both == FromCatalog(cat) \cup dynamic
<1>1. /\ \A m, k \in all : m.id = k.id => m = k
      /\ \A m \in both : \E n \in all : n.id = m.id /\ m.deps \subseteq n.deps
      /\ \A n \in all : /\ \E m \in both : m.id = n.id /\ m.provider = n.provider
                        /\ \A d \in n.deps : \E m \in both : m.id = n.id /\ d \in m.deps
  BY <1>0, MergeIs
<1>2. \A m \in FromCatalog(cat) : m.id \in Catalogued /\ m.deps = {"catalog"}
  BY BaseIs
<1>3. ASSUME NEW n \in all, n.id \notin Catalogued
      PROVE  n.provider \in Dynamic /\ n.deps = {n.provider} /\ n.id \in UNION AnswersOf[n.provider]
  <2>1. PICK m \in dynamic : m.id = n.id /\ m.provider = n.provider
    BY <1>1, <1>2, <1>3
  <2>2. n.provider \in Dynamic /\ n.id \in UNION AnswersOf[n.provider]
    BY <2>1, <1>3 DEF Listable
  <2>3. ASSUME NEW d \in n.deps  PROVE d = n.provider
    <3>1. PICK k \in dynamic : k.id = n.id /\ d \in k.deps
      BY <1>1, <1>2, <1>3
    <3>2. k.provider \in Dynamic /\ k.deps = {k.provider} /\ n.id \in UNION AnswersOf[k.provider]
      BY <3>1, <1>3 DEF Listable
    <3>3. k.provider # n.provider =>
            (UNION AnswersOf[k.provider]) \cap (UNION AnswersOf[n.provider]) = {}
      BY <2>2, <3>2, CatalogAssumption, Zenon
    <3>4. k.provider = n.provider
      BY <2>2, <3>2, <3>3
    <3>. QED  BY <3>1, <3>2, <3>4
  <2>4. n.provider \in n.deps
    <3>1. m.deps = {n.provider}
      BY <2>1, <1>3 DEF Listable
    <3>2. PICK k \in all : k.id = m.id /\ m.deps \subseteq k.deps
      BY <1>1
    <3>. QED  BY <1>1, <2>1, <3>1, <3>2
  <2>. QED  BY <2>2, <2>3, <2>4
<1>4. RuntimeApple(all) => RuntimeApple(dynamic)
  <2>. SUFFICES ASSUME NEW n \in all, "apple" \in n.deps  PROVE RuntimeApple(dynamic)
    BY DEF RuntimeApple
  <2>1. PICK m \in both : "apple" \in m.deps
    BY <1>1
  <2>. QED  BY <1>2, <2>1 DEF RuntimeApple
<1>5. \A m \in all : Listable(m)
  BY <1>3 DEF Listable
<1>. QED  BY <1>0, <1>1, <1>4, <1>5 DEF Follows

LEMMA BuiltIs ==
  ASSUME NEW n, NEW all
  PROVE  ClientOK(Built(n, all)) /\ (RuntimeApple(all) <=> Built(n, all).apple)
<1>1. RuntimeApple(all) \in BOOLEAN
  BY DEF RuntimeApple
<1>2. RuntimeApple(all) => Provider(n, all) # NoProvider
  BY Zenon DEF Provider, NoProvider
<1>3. CASE Provider(n, all) = NoProvider
  BY <1>2, <1>3 DEF Built, NoClient, ClientOK
<1>4. CASE Provider(n, all) # NoProvider
  BY <1>1, <1>4 DEF Built, ClientOK
<1>. QED  BY <1>3, <1>4

\* Whatever client arrives: one that reaches Apple's models is taken, and one that is
\* in use is kept as long as there are such models.
LEMMA ClientTaken ==
  ASSUME NEW client, ClientOK(client), ClientOK(langdag), TakesClient(client)
  PROVE  /\ ClientOK(langdag')
         /\ client.apple => langdag'.apple
         /\ langdag.apple /\ RuntimeApple(listed) => langdag'.apple
<1>1. ClientOK(NoClient)
  BY DEF ClientOK, NoClient
<1>. QED  BY <1>1 DEF TakesClient, ClientOK

-----------------------------------------------------------------------------
(* The steps *)

LEMMA CatalogStart == CatalogInit => CatalogIndInv
<1>. SUFFICES ASSUME CatalogInit  PROVE CatalogIndInv
  OBVIOUS
<1>1. setup \in DOMAIN Setups
  BY CatalogAssumption DEF CatalogInit
<1>2. IsABag(jobs) /\ BagToSet(jobs) = {}
  BY BagEmpty DEF CatalogInit
<1>3. langdag.there \in BOOLEAN /\ ClientOK(langdag)
  BY DEF CatalogInit, NoClient, ClientOK
<1>4. CatalogTypeOK
  BY <1>1, <1>2, <1>3 DEF CatalogInit, CatalogTypeOK
<1>5. ListOK /\ ClientsOK /\ FetchedModelsKept /\ FirstLineShown /\ AppleOnTheWay
  BY <1>2, <1>3 DEF CatalogInit, ListOK, ClientsOK, FetchedModelsKept, FirstLineShown,
                    AppleOnTheWay, RuntimeApple
<1>. QED  BY <1>4, <1>5 DEF CatalogIndInv

\* New jobs: fetches that have no client, and one that brings a client to the list of now.
LEMMA JobsStart ==
  ASSUME CatalogIndInv, NEW P, NEW n, NEW all,
         jobs' = Starting({FetchJob(p) : p \in P} \cup {ReadyJob(n, all)})
  PROVE  /\ IsABag(jobs') /\ \A j \in BagToSet(jobs') : ClientOK(j.client)
         /\ AppleComing \/ RuntimeApple(all) => AppleComing'
<1> DEFINE new == {FetchJob(p) : p \in P} \cup {ReadyJob(n, all)}
<1>1. IsABag(jobs') /\ BagToSet(jobs') = BagToSet(jobs) \cup new
  BY BagGrows DEF CatalogIndInv, CatalogTypeOK, Starting
<1>2. \A j \in new : ClientOK(j.client)
  <2>1. \A p : ClientOK(FetchJob(p).client)
    BY DEF FetchJob, NoClient, ClientOK
  <2>2. ReadyJob(n, all).client = Built(n, all)
    BY DEF ReadyJob
  <2>. QED  BY <2>1, <2>2, BuiltIs
<1>3. ReadyJob(n, all).kind = "ready" /\ ReadyJob(n, all).client = Built(n, all)
  BY DEF ReadyJob
<1>4. RuntimeApple(all) => AppleComing'
  BY <1>1, <1>3, BuiltIs DEF AppleComing
<1>5. AppleComing => AppleComing'
  BY <1>1 DEF AppleComing
<1>. QED  BY <1>1, <1>2, <1>4, <1>5 DEF CatalogIndInv, ClientsOK

\* A job is done; a fetch is not what brings a client.
LEMMA JobEnds ==
  ASSUME CatalogIndInv, NEW j, jobs' = Rest(j)
  PROVE  /\ IsABag(jobs') /\ \A k \in BagToSet(jobs') : ClientOK(k.client)
         /\ AppleComing => AppleComing' \/ (j.kind = "ready" /\ j.client.apple)
<1>1. IsABag(jobs') /\ BagToSet(jobs') \subseteq BagToSet(jobs)
      /\ BagToSet(jobs) \subseteq BagToSet(jobs') \cup {j}
  BY BagShrinks DEF CatalogIndInv, CatalogTypeOK, Rest
<1>. QED  BY <1>1 DEF CatalogIndInv, ClientsOK, AppleComing

LEMMA CatalogMsgKeeps ==
  ASSUME CatalogIndInv, NEW cat \in CatalogIds, CatalogMsg(cat),
         startup' \in {"load", "client", "refresh", "second client", "over"}
  PROVE  CatalogIndInv'
<1> DEFINE dynamic == FromProviders(listed, Dynamic)
           wanted == {p \in Dynamic \ fetched : p = "apple" \/ Cfg(setup)[p]}
<1>1. PICK all : all = Merge(FromCatalog(cat), dynamic)
  OBVIOUS
<1>2. /\ modelCatalog' = cat /\ listed' = all /\ Shows(all)
      /\ jobs' = Starting({FetchJob(p) : p \in wanted} \cup {ReadyJob(setup, all)})
      /\ UNCHANGED <<setup, fetched, langdag, configReady, answered, failed>>
  BY <1>1 DEF CatalogMsg
<1>3. /\ IsABag(jobs') /\ \A j \in BagToSet(jobs') : ClientOK(j.client)
      /\ RuntimeApple(all) => AppleComing'
  BY <1>2, JobsStart
<1>4. \A m \in dynamic : m \in listed /\ Listable(m)
  BY DEF FromProviders, CatalogIndInv, ListOK
<1>5. /\ \A m, k \in all : m.id = k.id => m = k
      /\ \A m \in all : Listable(m)
      /\ \A m \in dynamic : \E n \in all : n.id = m.id /\ m.deps \subseteq n.deps
  <2>1. Follows(all, dynamic)
    BY <1>1, <1>4, MergedIs
  <2>. QED  BY <2>1 DEF Follows
<1>6. CatalogTypeOK'
  BY <1>2, <1>3, <1>5 DEF CatalogIndInv, CatalogTypeOK, Shows
<1>7. ListOK' /\ ClientsOK'
  BY <1>2, <1>3, <1>5 DEF CatalogIndInv, ListOK, Listable, ClientsOK
<1>8. FetchedModelsKept'
  <2>. SUFFICES ASSUME NEW p \in Dynamic, NEW i \in answered[p] \ Catalogued
                PROVE  \E m \in all : m.id = i /\ p \in m.deps
    BY <1>2 DEF FetchedModelsKept, Catalogued
  <2>1. PICK m \in listed : m.id = i /\ p \in m.deps
    BY DEF CatalogIndInv, FetchedModelsKept, Catalogued
  <2>2. m \in dynamic
    BY <2>1 DEF CatalogIndInv, ListOK, Listable, FromProviders
  <2>. QED  BY <1>5, <2>1, <2>2
<1>9. FirstLineShown' /\ AppleOnTheWay'
  BY <1>2, <1>3 DEF FirstLineShown, Shows, AppleOnTheWay
<1>. QED  BY <1>6, <1>7, <1>8, <1>9 DEF CatalogIndInv

\* A client arrives, or fails to be built.
LEMMA ClientKeeps ==
  ASSUME CatalogIndInv, NEW client, ClientOK(client),
         \/ TakesClient(client) /\ UNCHANGED failed
         \/ failed' = TRUE /\ UNCHANGED langdag,
         startup' \in {"load", "client", "refresh", "second client", "over"},
         UNCHANGED <<setup, modelCatalog, listed, fetched, configReady, shownInitialModel, answered>>,
         IsABag(jobs'), \A j \in BagToSet(jobs') : ClientOK(j.client),
         AppleComing => AppleComing' \/ client.apple
  PROVE  CatalogIndInv'
<1>1. ClientOK(langdag') /\ failed' \in BOOLEAN
  BY ClientTaken DEF CatalogIndInv, CatalogTypeOK, ClientsOK
<1>2. CatalogTypeOK'
  BY <1>1 DEF CatalogIndInv, CatalogTypeOK, ClientOK
<1>3. ListOK' /\ ClientsOK' /\ FetchedModelsKept' /\ FirstLineShown'
  BY <1>1 DEF CatalogIndInv, ListOK, ClientsOK, FetchedModelsKept, FirstLineShown
<1>4. AppleOnTheWay'
  BY ClientTaken DEF CatalogIndInv, ClientsOK, AppleOnTheWay
<1>. QED  BY <1>2, <1>3, <1>4 DEF CatalogIndInv

LEMMA StartupKeeps ==
  ASSUME CatalogIndInv, LoadCatalog \/ RefreshCatalog \/ StartupClient  PROVE CatalogIndInv'
<1>1. startup' \in {"load", "client", "refresh", "second client", "over"}
  BY DEF LoadCatalog, RefreshCatalog, StartupClient
<1>2. ASSUME NEW cat \in CatalogIds, CatalogMsg(cat)  PROVE CatalogIndInv'
  BY <1>1, <1>2, CatalogMsgKeeps
<1>3. CASE UNCHANGED <<setup, modelCatalog, listed, fetched, jobs, langdag, configReady,
                       shownInitialModel, answered, failed>>
  <2>1. CatalogTypeOK'
    BY <1>1, <1>3 DEF CatalogIndInv, CatalogTypeOK
  <2>2. ListOK' /\ ClientsOK' /\ FetchedModelsKept' /\ FirstLineShown' /\ AppleOnTheWay'
    BY <1>3 DEF CatalogIndInv, ListOK, ClientsOK, FetchedModelsKept, FirstLineShown,
                AppleOnTheWay, AppleComing
  <2>. QED  BY <2>1, <2>2 DEF CatalogIndInv
<1>4. CASE StartupClient
  <2>1. ClientOK(Built(1, {}))
    BY BuiltIs
  <2>2. \/ TakesClient(Built(1, {})) /\ UNCHANGED failed
        \/ failed' = TRUE /\ UNCHANGED langdag
    BY <1>4 DEF StartupClient
  <2>3. UNCHANGED <<setup, modelCatalog, listed, fetched, jobs, configReady, shownInitialModel, answered>>
    BY <1>4 DEF StartupClient
  <2>4. IsABag(jobs') /\ (\A j \in BagToSet(jobs') : ClientOK(j.client)) /\ (AppleComing => AppleComing')
    BY <2>3 DEF CatalogIndInv, CatalogTypeOK, ClientsOK, AppleComing
  <2>. QED  BY <1>1, <2>1, <2>2, <2>3, <2>4, ClientKeeps
<1>. QED  BY <1>2, <1>3, <1>4 DEF LoadCatalog, RefreshCatalog

LEMMA ReadyKeeps == ASSUME CatalogIndInv, ClientReady  PROVE CatalogIndInv'
<1>1. PICK j \in BagToSet(jobs) :
        /\ j.kind = "ready" /\ jobs' = Rest(j)
        /\ \/ TakesClient(j.client) /\ UNCHANGED failed
           \/ j.client.there /\ failed' = TRUE /\ UNCHANGED langdag
  BY DEF ClientReady
<1>2. UNCHANGED <<setup, startup, modelCatalog, listed, fetched, configReady, shownInitialModel, answered>>
  BY DEF ClientReady
<1>3. ClientOK(j.client)
  BY DEF CatalogIndInv, ClientsOK
<1>4. /\ IsABag(jobs') /\ \A k \in BagToSet(jobs') : ClientOK(k.client)
      /\ AppleComing => AppleComing' \/ j.client.apple
  BY <1>1, JobEnds
<1>5. startup' \in {"load", "client", "refresh", "second client", "over"}
  BY <1>2 DEF CatalogIndInv, CatalogTypeOK
<1>. QED  BY <1>1, <1>2, <1>3, <1>4, <1>5, ClientKeeps

\* A provider has answered: what it lists now is on the list, the others' models stay, and
\* Apple's come from nobody else.
AnswerListed(all, p, ids) ==
  /\ \A m, k \in all : m.id = k.id => m = k
  /\ \A m \in all : Listable(m)
  /\ \A i \in ids : \E m \in all : m.id = i /\ p \in m.deps
  /\ \A q \in Dynamic \ {p} : \A i \in answered[q] \ Catalogued : \E m \in all : m.id = i /\ q \in m.deps
  /\ RuntimeApple(all) /\ (p # "apple" \/ ids = {}) => RuntimeApple(listed)

LEMMA AnswerMerged ==
  ASSUME CatalogIndInv, NEW p \in Dynamic, NEW ids \in AnswersOf[p] \cup {{}}
  PROVE  AnswerListed(Merge(FromCatalog(modelCatalog),
                            FromProviders(listed, Dynamic \ {p}) \cup Fetched(p, ids)), p, ids)
<1>0. PICK all : all = Merge(FromCatalog(modelCatalog),
                             FromProviders(listed, Dynamic \ {p}) \cup Fetched(p, ids))
  OBVIOUS
<1> DEFINE others == FromProviders(listed, Dynamic \ {p})
           new == Fetched(p, ids)
<1>1. \A m \in others : m \in listed /\ Listable(m)
  BY DEF FromProviders, CatalogIndInv, ListOK
<1>2. /\ \A m \in new : m.deps = {p} /\ Listable(m)
      /\ \A i \in ids : \E m \in new : m.id = i /\ m.deps = {p}
  BY FetchedIs
<1>3. modelCatalog \in CatalogIds \cup {NoCatalog}
  BY DEF CatalogIndInv, CatalogTypeOK
<1>4. /\ \A m, k \in all : m.id = k.id => m = k
      /\ \A m \in all : Listable(m)
      /\ \A m \in others \cup new : \E n \in all : n.id = m.id /\ m.deps \subseteq n.deps
      /\ RuntimeApple(all) => RuntimeApple(others \cup new)
  <2>. HIDE DEF others, new
  <2>1. \A m \in others \cup new : Listable(m)
    BY <1>1, <1>2
  <2>2. all = Merge(FromCatalog(modelCatalog), others \cup new)
    BY <1>0 DEF others, new
  <2>3. Follows(all, others \cup new)
    BY <1>3, <2>1, <2>2, MergedIs
  <2>. QED  BY <2>3 DEF Follows
<1>5. ASSUME NEW q \in Dynamic \ {p}, NEW i \in answered[q] \ Catalogued
      PROVE  \E m \in all : m.id = i /\ q \in m.deps
  <2>1. PICK m \in listed : m.id = i /\ q \in m.deps
    BY DEF CatalogIndInv, FetchedModelsKept, Catalogued
  <2>2. m \in others
    BY <2>1 DEF CatalogIndInv, ListOK, Listable, FromProviders
  <2>. QED  BY <1>4, <2>1, <2>2
<1>6. ASSUME RuntimeApple(all), p # "apple" \/ ids = {}  PROVE RuntimeApple(listed)
  <2>1. PICK m \in others \cup new : "apple" \in m.deps
    BY <1>4, <1>6 DEF RuntimeApple
  <2>2. m \notin new
    BY <1>2, <1>6, <2>1 DEF Fetched
  <2>. QED  BY <1>1, <2>1, <2>2 DEF RuntimeApple
<1>7. ASSUME NEW i \in ids  PROVE \E m \in all : m.id = i /\ p \in m.deps
  <2>1. PICK m \in new : m.id = i /\ m.deps = {p}
    BY <1>2
  <2>. QED  BY <1>4, <2>1
<1>8. RuntimeApple(all) /\ (p # "apple" \/ ids = {}) => RuntimeApple(listed)
  BY <1>6
<1>9. (\A m, k \in all : m.id = k.id => m = k) /\ \A m \in all : Listable(m)
  BY <1>4
<1>10. /\ \A i \in ids : \E m \in all : m.id = i /\ p \in m.deps
       /\ \A q \in Dynamic \ {p} : \A i \in answered[q] \ Catalogued : \E m \in all : m.id = i /\ q \in m.deps
  BY <1>5, <1>7
<1>11. AnswerListed(all, p, ids)
  BY <1>8, <1>9, <1>10 DEF AnswerListed
<1>. QED  BY <1>0, <1>11

LEMMA FetchKeeps ==
  ASSUME CatalogIndInv, NEW p \in Dynamic, FetchArrives(p)  PROVE CatalogIndInv'
<1>1. PICK ids \in AnswersOf[p] \cup {{}} :
        /\ Answers(p, ids)
        /\ listed' = IF ids = {} THEN listed
                     ELSE Merge(FromCatalog(modelCatalog),
                                FromProviders(listed, Dynamic \ {p}) \cup Fetched(p, ids))
  BY DEF FetchArrives
<1>2. /\ p # "apple" /\ jobs' = Rest(FetchJob(p)) /\ fetched' = fetched \cup {p} /\ Shows(listed')
      /\ UNCHANGED <<setup, startup, modelCatalog, langdag, configReady, failed>>
  BY DEF FetchArrives
<1>3. FetchJob(p).kind = "fetch"
  BY DEF FetchJob
<1>4. /\ IsABag(jobs') /\ \A k \in BagToSet(jobs') : ClientOK(k.client)
      /\ AppleComing => AppleComing'
  BY <1>2, <1>3, JobEnds
<1>5. AnswerListed(listed', p, ids)
  <2>1. CASE ids = {}
    BY <1>1, <2>1 DEF AnswerListed, CatalogIndInv, CatalogTypeOK, ListOK, FetchedModelsKept, Catalogued
  <2>2. CASE ids # {}
    BY <1>1, <1>2, <2>2, AnswerMerged
  <2>. QED  BY <2>1, <2>2
<1>6. \A q \in Dynamic : answered'[q] = IF q = p /\ ids # {} THEN ids ELSE answered[q]
  BY <1>1, <1>2 DEF Answers, CatalogIndInv, ListOK
<1>7. CatalogTypeOK'
  <2>1. shownInitialModel' \in BOOLEAN
    BY <1>2 DEF CatalogIndInv, CatalogTypeOK, Shows
  <2>2. \A m, k \in listed' : m.id = k.id => m = k
    BY <1>5 DEF AnswerListed
  <2>. QED  BY <1>1, <1>2, <1>4, <1>6, <2>1, <2>2 DEF CatalogIndInv, CatalogTypeOK
<1>8. ListOK' /\ ClientsOK'
  <2>1. \A m \in listed' : Listable(m)
    BY <1>5 DEF AnswerListed
  <2>2. answered' = [q \in Dynamic |-> answered'[q]]
    BY <1>1 DEF Answers, CatalogIndInv, ListOK
  <2>. QED  BY <1>2, <1>4, <2>1, <2>2 DEF CatalogIndInv, ListOK, Listable, ClientsOK
<1>9. FetchedModelsKept'
  <2>1. CASE ids = {}
    BY <1>1, <1>6, <2>1 DEF CatalogIndInv, FetchedModelsKept
  <2>2. CASE ids # {}
    BY <1>5, <1>6, <2>2 DEF AnswerListed, FetchedModelsKept, Catalogued
  <2>. QED  BY <2>1, <2>2
<1>10. FirstLineShown' /\ AppleOnTheWay'
  BY <1>2, <1>4, <1>5 DEF AnswerListed, CatalogIndInv, FirstLineShown, Shows, AppleOnTheWay
<1>. QED  BY <1>7, <1>8, <1>9, <1>10 DEF CatalogIndInv

LEMMA AppleKeeps == ASSUME CatalogIndInv, AppleArrives  PROVE CatalogIndInv'
<1> DEFINE p == "apple"
<1>1. PICK ids \in AnswersOf[p] \cup {{}} :
        LET all == Merge(FromCatalog(modelCatalog),
                         FromProviders(listed, {"ollama", "openrouter"}) \cup Fetched(p, ids))
            refresh == \/ ids # {}
                       \/ langdag.apple /\ ~RuntimeApple(all)
                       \/ langdag.provider = p /\ Provider(setup, all) # p
        IN /\ Answers(p, ids) /\ listed' = all /\ Shows(all)
           /\ jobs' = IF refresh THEN Rest(FetchJob(p)) (+) SetToBag({ReadyJob(setup, all)})
                                 ELSE Rest(FetchJob(p))
  BY DEF AppleArrives
<1>2. /\ fetched' = fetched \cup {p}
      /\ UNCHANGED <<setup, startup, modelCatalog, langdag, configReady, failed>>
  BY DEF AppleArrives
<1>3. /\ Answers(p, ids) /\ Shows(listed')
      /\ \/ jobs' = Rest(FetchJob(p)) (+) SetToBag({ReadyJob(setup, listed')})
         \/ jobs' = Rest(FetchJob(p)) /\ ids = {}
  BY <1>1
<1>4. AnswerListed(listed', p, ids)
  <2>1. Dynamic \ {p} = {"ollama", "openrouter"}
    BY DEF Dynamic
  <2>2. listed' = Merge(FromCatalog(modelCatalog), FromProviders(listed, Dynamic \ {p}) \cup Fetched(p, ids))
    BY <1>1, <2>1
  <2>3. p \in Dynamic
    BY DEF Dynamic
  <2>. QED  BY <2>2, <2>3, AnswerMerged
<1>5. /\ IsABag(jobs') /\ \A k \in BagToSet(jobs') : ClientOK(k.client)
      /\ AppleComing => AppleComing'
      /\ ids = {} \/ (RuntimeApple(listed') => AppleComing')
  <2>1. PICK rest : rest = Rest(FetchJob(p))
    OBVIOUS
  <2>2. IsABag(rest) /\ BagToSet(rest) \subseteq BagToSet(jobs)
        /\ BagToSet(jobs) \subseteq BagToSet(rest) \cup {FetchJob(p)}
    BY <2>1, BagShrinks DEF CatalogIndInv, CatalogTypeOK, Rest
  <2>3. (\A k \in BagToSet(rest) : ClientOK(k.client))
        /\ (AppleComing => \E k \in BagToSet(rest) : k.kind = "ready" /\ k.client.apple)
    BY <2>2 DEF CatalogIndInv, ClientsOK, AppleComing, FetchJob
  <2>4. CASE jobs' = rest (+) SetToBag({ReadyJob(setup, listed')})
    <3>1. IsABag(jobs') /\ BagToSet(jobs') = BagToSet(rest) \cup {ReadyJob(setup, listed')}
      BY <2>2, <2>4, BagGrows
    <3>2. ReadyJob(setup, listed').kind = "ready" /\ ClientOK(ReadyJob(setup, listed').client)
          /\ (RuntimeApple(listed') => ReadyJob(setup, listed').client.apple)
      BY BuiltIs DEF ReadyJob
    <3>. QED  BY <2>3, <3>1, <3>2 DEF AppleComing
  <2>5. CASE jobs' = rest /\ ids = {}
    BY <2>2, <2>3, <2>5 DEF AppleComing
  <2>. QED  BY <1>3, <2>1, <2>4, <2>5
<1>6. \A q \in Dynamic : answered'[q] = IF q = p THEN ids ELSE answered[q]
  BY <1>3 DEF Answers, CatalogIndInv, ListOK
<1>7. CatalogTypeOK'
  <2>1. shownInitialModel' \in BOOLEAN
    BY <1>3 DEF CatalogIndInv, CatalogTypeOK, Shows
  <2>2. \A m, k \in listed' : m.id = k.id => m = k
    BY <1>4 DEF AnswerListed
  <2>3. fetched' \subseteq Dynamic
    BY <1>2 DEF CatalogIndInv, CatalogTypeOK, Dynamic
  <2>. QED  BY <1>2, <1>5, <1>6, <2>1, <2>2, <2>3 DEF CatalogIndInv, CatalogTypeOK
<1>8. ListOK' /\ ClientsOK'
  <2>1. \A m \in listed' : Listable(m)
    BY <1>4 DEF AnswerListed
  <2>2. answered' = [q \in Dynamic |-> answered'[q]]
    BY <1>3 DEF Answers, CatalogIndInv, ListOK
  <2>. QED  BY <1>2, <1>5, <2>1, <2>2 DEF CatalogIndInv, ListOK, Listable, ClientsOK
<1>9. FetchedModelsKept'
  BY <1>4, <1>6 DEF AnswerListed, FetchedModelsKept, Catalogued
<1>10. FirstLineShown' /\ AppleOnTheWay'
  BY <1>2, <1>3, <1>4, <1>5 DEF AnswerListed, CatalogIndInv, FirstLineShown, Shows, AppleOnTheWay
<1>. QED  BY <1>7, <1>8, <1>9, <1>10 DEF CatalogIndInv

LEMMA WorkspaceReadyKeeps == ASSUME CatalogIndInv, WorkspaceReady  PROVE CatalogIndInv'
<1>1. /\ configReady' = TRUE /\ shownInitialModel' = (shownInitialModel \/ listed # {})
      /\ UNCHANGED <<setup, startup, modelCatalog, listed, fetched, jobs, langdag, answered, failed>>
  BY DEF WorkspaceReady
<1>2. CatalogTypeOK'
  BY <1>1 DEF CatalogIndInv, CatalogTypeOK
<1>3. ListOK' /\ ClientsOK' /\ FetchedModelsKept' /\ FirstLineShown' /\ AppleOnTheWay'
  BY <1>1 DEF CatalogIndInv, ListOK, ClientsOK, FetchedModelsKept, FirstLineShown,
              AppleOnTheWay, AppleComing
<1>. QED  BY <1>2, <1>3 DEF CatalogIndInv

LEMMA SavedKeeps == ASSUME CatalogIndInv, ConfigSaved  PROVE CatalogIndInv'
<1> DEFINE wanted == {q \in Dynamic : q = "apple" \/ Cfg(setup + 1)[q]}
<1>1. /\ setup' \in DOMAIN Setups /\ fetched' \subseteq fetched
      /\ jobs' = Starting({FetchJob(p) : p \in wanted} \cup {ReadyJob(setup + 1, listed)})
      /\ UNCHANGED <<startup, modelCatalog, listed, langdag, configReady, shownInitialModel, answered,
                     failed>>
  BY DEF ConfigSaved
<1>2. /\ IsABag(jobs') /\ \A j \in BagToSet(jobs') : ClientOK(j.client)
      /\ AppleComing => AppleComing'
  BY <1>1, JobsStart
<1>3. CatalogTypeOK'
  BY <1>1, <1>2 DEF CatalogIndInv, CatalogTypeOK
<1>4. ListOK' /\ ClientsOK' /\ FetchedModelsKept' /\ FirstLineShown' /\ AppleOnTheWay'
  BY <1>1, <1>2 DEF CatalogIndInv, ListOK, ClientsOK, FetchedModelsKept, FirstLineShown,
              AppleOnTheWay
<1>. QED  BY <1>3, <1>4 DEF CatalogIndInv

LEMMA CatalogStutter == ASSUME CatalogIndInv, UNCHANGED catalogVars  PROVE CatalogIndInv'
<1>1. UNCHANGED <<setup, startup, modelCatalog, listed, fetched, jobs>>
      /\ UNCHANGED <<langdag, configReady, shownInitialModel, answered, failed>>
  BY DEF catalogVars
<1>2. CatalogTypeOK'  BY <1>1 DEF CatalogIndInv, CatalogTypeOK
<1>3. ListOK' /\ ClientsOK'  BY <1>1 DEF CatalogIndInv, ListOK, ClientsOK
<1>4. FetchedModelsKept' /\ FirstLineShown'  BY <1>1 DEF CatalogIndInv, FetchedModelsKept, FirstLineShown
<1>5. AppleOnTheWay'  BY <1>1 DEF CatalogIndInv, AppleOnTheWay, AppleComing
<1>. QED  BY <1>2, <1>3, <1>4, <1>5 DEF CatalogIndInv

LEMMA CatalogStep == CatalogIndInv /\ [CatalogNext]_catalogVars => CatalogIndInv'
BY StartupKeeps, ReadyKeeps, FetchKeeps, AppleKeeps, WorkspaceReadyKeeps, SavedKeeps, CatalogStutter
   DEF CatalogNext

\* The list of models and the client (main.go handleResult, main_apple.go), for every set of
\* catalogs, answers and configurations and in whatever order they arrive: what a provider
\* lists stays until it answers again, the first line is shown, and a list with Apple's
\* models ends with a client that reaches them.
THEOREM CatalogAgrees == CatalogSpec => []CatalogInv
<1>1. CatalogIndInv => CatalogInv
  <2>. SUFFICES ASSUME CatalogIndInv  PROVE CatalogInv
    OBVIOUS
  <2>1. AppleReached
    BY BagEmpty DEF CatalogIndInv, AppleOnTheWay, AppleComing, AppleReached, Quiet
  <2>. QED  BY <2>1 DEF CatalogIndInv, CatalogInv
<1>. QED  BY <1>1, CatalogStart, CatalogStep, PTL DEF CatalogSpec

(***************************************************************************)
(* The routing of requests                                                 *)
(***************************************************************************)

(* The first place of a list *)

\* Every set of numbers that is not empty has a least one, and Min is it.
LEMMA MinOfSome ==
  ASSUME NEW T \in SUBSET Nat, T # {}
  PROVE  Min(T) \in T /\ \A k \in T : Min(T) <= k
<1>. DEFINE R == OpToRel(<, Nat)
<1>1. PICK m \in T : \A k \in T : ~(<<k, m>> \in R)
  <2>. HIDE DEF R
  <2>1. IsWellFoundedOn(R, Nat)
    BY NatLessThanWellFounded DEF R
  <2>. QED  BY <2>1, WFMin
<1>2. \A k \in T : ~(k < m)
  BY <1>1 DEF OpToRel
<1>. HIDE DEF R
<1>3. \A k \in T : m <= k
  BY <1>2
<1>. QED  BY <1>3 DEF Min

\* FirstPlace is the place of the first set that is not empty, and FirstOf is that set.
LEMMA FirstPlaceIs ==
  ASSUME NEW sets, DOMAIN sets \subseteq Nat \ {0}
  PROVE  \/ /\ FirstPlace(sets) = 0 /\ FirstOf(sets) = {}
            /\ \A i \in DOMAIN sets : sets[i] = {}
         \/ /\ FirstPlace(sets) \in DOMAIN sets /\ FirstOf(sets) = sets[FirstPlace(sets)]
            /\ sets[FirstPlace(sets)] # {}
            /\ \A i \in DOMAIN sets : i < FirstPlace(sets) => sets[i] = {}
<1>. DEFINE there == {i \in DOMAIN sets : sets[i] # {}}
<1>1. CASE there = {}
  <2>1. FirstPlace(sets) = 0
    BY <1>1 DEF FirstPlace
  <2>. QED  BY <1>1, <2>1 DEF FirstOf
<1>2. CASE there # {}
  <2>1. Min(there) \in there /\ \A k \in there : Min(there) <= k
    <3>1. there \in SUBSET Nat
      OBVIOUS
    <3>. HIDE DEF there
    <3>. QED  BY <1>2, <3>1, MinOfSome
  <2>2. FirstPlace(sets) = Min(there)
    BY <1>2 DEF FirstPlace
  <2>3. FirstPlace(sets) \in DOMAIN sets /\ sets[FirstPlace(sets)] # {} /\ FirstPlace(sets) # 0
    BY <2>1, <2>2
  <2>4. \A i \in DOMAIN sets : i < FirstPlace(sets) => sets[i] = {}
    BY <2>1, <2>2
  <2>5. FirstOf(sets) = sets[FirstPlace(sets)]
    <3>1. {FirstPlace(sets)} \ {0} = {FirstPlace(sets)}
      BY <2>3
    <3>2. FirstOf(sets) = UNION {sets[i] : i \in {FirstPlace(sets)}}
      BY <3>1 DEF FirstOf
    <3>. QED  BY <3>2
  <2>. QED  BY <2>3, <2>4, <2>5
<1>. QED  BY <1>1, <1>2

-----------------------------------------------------------------------------
(* The list of models *)

\* A list is a sequence of models, none of them twice.
LEMMA ListIs ==
  ASSUME NEW known \in Catalogs
  PROVE  /\ Len(known) \in Nat /\ DOMAIN known = 1..Len(known)
         /\ \A i \in DOMAIN known : known[i] \in ListedModel
         /\ \A i, j \in DOMAIN known : known[i].id = known[j].id => i = j
BY ListsAssumption

\* A model that is available is a model of the list, with fewer deployments.
LEMMA AvailableIs ==
  ASSUME NEW c, NEW known \in Catalogs
  PROVE  LET here == AvailableModels(c, known)
         IN /\ DOMAIN here = {i \in DOMAIN known : Serves(c, known[i])}
            /\ \A i \in DOMAIN here :
                 /\ here[i].id = known[i].id /\ here[i].owner = known[i].owner
                 /\ here[i].natives = known[i].natives /\ here[i].deps = Routed(c, known[i])
<1>1. ASSUME NEW m \in ListedModel, NEW D
      PROVE  /\ [m EXCEPT !.deps = D].id = m.id /\ [m EXCEPT !.deps = D].owner = m.owner
             /\ [m EXCEPT !.deps = D].natives = m.natives /\ [m EXCEPT !.deps = D].deps = D
  BY <1>1 DEF ListedModel
<1>2. \A i \in DOMAIN known : known[i] \in ListedModel
  BY ListIs
<1>. QED  BY <1>1, <1>2 DEF AvailableModels

LEMMA AvailablePlaces ==
  ASSUME NEW c, NEW known \in Catalogs
  PROVE  /\ DOMAIN AvailableModels(c, known) \subseteq DOMAIN known
         /\ DOMAIN AvailableModels(c, known) \subseteq Nat \ {0}
         /\ \A i \in DOMAIN AvailableModels(c, known) :
              AvailableModels(c, known)[i].id \in CanonicalNames
<1>1. \A i \in DOMAIN known : known[i].id \in CanonicalNames
  BY ListIs DEF ListedModel
<1>2. DOMAIN known \subseteq Nat \ {0}
  BY ListIs
<1>3. DOMAIN AvailableModels(c, known) \subseteq DOMAIN known
  BY AvailableIs
<1>4. \A i \in DOMAIN AvailableModels(c, known) : AvailableModels(c, known)[i].id = known[i].id
  BY AvailableIs
<1>. QED  BY <1>1, <1>2, <1>3, <1>4

\* What a lookup collects are names of the list it looks in, so finitely many.
LEMMA HitsAreListed ==
  ASSUME NEW f, NEW n \in Nat, DOMAIN f \subseteq 1..n, NEW names
  PROVE  /\ \A id \in Exact(f, names) : id \in names /\ \E i \in DOMAIN f : f[i].id = id
         /\ \A id \in Loose(f, names) : \E i \in DOMAIN f : f[i].id = id
         /\ IsFiniteSet(Exact(f, names)) /\ IsFiniteSet(Loose(f, names))
<1>. DEFINE ids == {f[i].id : i \in DOMAIN f}
            g == [i \in DOMAIN f |-> f[i].id]
<1>1. Exact(f, names) \in SUBSET ids /\ Loose(f, names) \in SUBSET ids
  BY DEF Exact, Loose, ToSet
<1>2. IsFiniteSet(ids)
  <2>1. IsFiniteSet(1..n)
    BY FS_Interval
  <2>2. IsFiniteSet(DOMAIN f)
    BY <2>1, FS_Subset
  <2>3. g \in Surjection(DOMAIN f, ids)
    BY DEF Surjection
  <2>. HIDE DEF ids, g
  <2>. QED  BY <2>2, <2>3, FS_Surjection
<1>3. \A id \in Exact(f, names) : id \in names
  BY DEF Exact
<1>4. \A id \in ids : \E i \in DOMAIN f : f[i].id = id
  OBVIOUS
<1>. HIDE DEF ids
<1>5. IsFiniteSet(Exact(f, names)) /\ IsFiniteSet(Loose(f, names))
  BY <1>1, <1>2, FS_Subset
<1>. QED  BY <1>1, <1>3, <1>4, <1>5

-----------------------------------------------------------------------------
(* What a name resolves to *)

LEMMA LooksAre ==
  ASSUME NEW here, NEW known, NEW names
  PROVE  LET looks == Looks(here, known, names)
         IN /\ DOMAIN looks = 1..4
            /\ looks[1] = Exact(here, names) /\ looks[2] = Exact(known, names)
            /\ looks[3] = Loose(here, names) /\ looks[4] = Loose(known, names)
BY DEF Looks

\* The empty name.
NoName == ""

LEMMA FoundIs ==
  ASSUME NEW s, NEW x
  PROVE  Found(s, x).status = s /\ Found(s, x).id = x
BY DEF Found

\* A verdict is usable when no list has the name and any name is taken, or when one
\* available model has it.
LEMMA JudgedIs ==
  ASSUME NEW hits, IsFiniteSet(hits), NEW among, NEW trusted \in BOOLEAN, NEW name,
         Judged(hits, among, trusted, name).status = "usable"
  PROVE  LET id == Judged(hits, among, trusted, name).id
         IN \/ hits = {} /\ trusted /\ id = name
            \/ among \in {1, 3} /\ id \in hits
<1>. DEFINE n == Cardinality(hits)
<1>0. n \in Nat /\ (n = 0 <=> hits = {})
  BY FS_CardinalityType, FS_EmptySet
<1>. HIDE DEF n
<1>1. CASE hits = {}
  <2>1. n # 1 /\ ~(n > 1)
    BY <1>0, <1>1
  <2>2. Judged(hits, among, trusted, name) = IF trusted THEN Found("usable", name) ELSE Found("unknown", NoName)
    BY <1>1, <2>1 DEF Judged, n, NoName
  <2>. QED  BY <1>1, <2>2, FoundIs
<1>2. CASE hits # {} /\ n > 1
  <2>1. n # 1
    BY <1>0, <1>2
  <2>2. Judged(hits, among, trusted, name) = Found("ambiguous", NoName)
    BY <1>2, <2>1 DEF Judged, n, NoName
  <2>. QED  BY <2>2, FoundIs
<1>3. CASE hits # {} /\ n = 1
  <2>1. ~(n > 1)
    BY <1>3
  <2>2. Judged(hits, among, trusted, name) =
          IF among \in {1, 3} THEN Found("usable", CHOOSE id \in hits : TRUE) ELSE Found("unavailable", NoName)
    BY <1>3, <2>1 DEF Judged, n, NoName
  <2>. QED  BY <1>3, <2>2, FoundIs
<1>4. n > 1 \/ n = 1 \/ n = 0
  BY <1>0
<1>. QED  BY <1>0, <1>1, <1>2, <1>3, <1>4

\* The name of an available model, or a name that any model may have.
CanBeServed(c, known, id) ==
  \/ \E i \in DOMAIN AvailableModels(c, known) : AvailableModels(c, known)[i].id = id
  \/ Trusting(c) /\ Loose(known, {id}) = {}

LEMMA NamesNotEmpty == NoName \notin CanonicalNames
BY RoutingAssumption DEF NoName

LEMMA LookupServes ==
  ASSUME NEW c, NEW known \in Catalogs, NEW name, Lookup(c, name, known).status = "usable"
  PROVE  LET id == Lookup(c, name, known).id
         IN CanBeServed(c, known, id) /\ (name # NoName => id # NoName)
<1>. DEFINE here == AvailableModels(c, known)
            names == Candidates(name)
            looks == Looks(here, known, names)
            hits == FirstOf(looks)
            among == FirstPlace(looks)
            id == Lookup(c, name, known).id
<1>1. Lookup(c, name, known) = Judged(hits, among, Trusting(c), name)
  BY DEF Lookup, JudgedLooks
<1>2. Trusting(c) \in BOOLEAN
  BY DEF Trusting
<1>3. /\ DOMAIN looks = 1..4
      /\ looks[1] = Exact(here, names) /\ looks[2] = Exact(known, names)
      /\ looks[3] = Loose(here, names) /\ looks[4] = Loose(known, names)
  BY LooksAre
<1>4. \/ /\ among = 0 /\ hits = {}
         /\ \A i \in DOMAIN looks : looks[i] = {}
      \/ among \in DOMAIN looks /\ hits = looks[among] /\ hits # {}
  <2>1. DOMAIN looks \subseteq Nat \ {0}
    BY <1>3
  <2>. HIDE DEF looks
  <2>. QED  BY <2>1, FirstPlaceIs
<1>5. /\ \A x \in Exact(here, names) \cup Loose(here, names) : \E i \in DOMAIN here : here[i].id = x
      /\ IsFiniteSet(Exact(here, names)) /\ IsFiniteSet(Loose(here, names))
  <2>1. Len(known) \in Nat /\ DOMAIN here \subseteq 1..Len(known)
    BY ListIs, AvailablePlaces
  <2>. HIDE DEF here, names
  <2>. QED  BY <2>1, HitsAreListed
<1>6. IsFiniteSet(Exact(known, names)) /\ IsFiniteSet(Loose(known, names))
  <2>1. Len(known) \in Nat /\ DOMAIN known \subseteq 1..Len(known)
    BY ListIs
  <2>. HIDE DEF names
  <2>. QED  BY <2>1, HitsAreListed
<1>7. \A i \in DOMAIN here : here[i].id # NoName
  BY AvailablePlaces, NamesNotEmpty
<1>8. Loose(known, names) = {} => Loose(known, {name}) = {}
  BY DEF Candidates, Loose
<1>. HIDE DEF here, names, looks
<1>9. IsFiniteSet(hits)
  <2>1. CASE among \in DOMAIN looks /\ hits = looks[among] /\ hits # {}
    <3>1. among \in {1, 2, 3, 4}
      BY <1>3, <2>1
    <3>. QED  BY <1>3, <1>5, <1>6, <2>1, <3>1
  <2>. QED  BY <1>4, <2>1, FS_EmptySet
<1>. HIDE DEF hits, among
<1>10. \/ hits = {} /\ Trusting(c) /\ id = name
       \/ among \in {1, 3} /\ id \in hits
  BY <1>1, <1>2, <1>9, JudgedIs
<1>11. CASE among \in {1, 3} /\ id \in hits
  <2>1. hits \in {Exact(here, names), Loose(here, names)}
    BY <1>3, <1>4, <1>11
  <2>2. PICK i \in DOMAIN here : here[i].id = id
    BY <1>5, <1>11, <2>1
  <2>. QED  BY <1>7, <2>2 DEF CanBeServed, here
<1>12. CASE hits = {} /\ Trusting(c) /\ id = name
  <2>1. Loose(known, {name}) = {}
    <3>1. CASE among = 0 /\ \A i \in DOMAIN looks : looks[i] = {}
      BY <1>3, <1>8, <3>1
    <3>. QED  BY <1>4, <1>12, <3>1
  <2>. QED  BY <1>12, <2>1 DEF CanBeServed
<1>. QED  BY <1>10, <1>11, <1>12

\* The default is an available model, unless there is none.
LEMMA DefaultServes ==
  ASSUME NEW c, NEW known \in Catalogs, NEW names
  PROVE  LET here == AvailableModels(c, known)
             id == NamedFirst(here, names)
         IN IF DOMAIN here = {} THEN id = NoName
            ELSE id # NoName /\ \E i \in DOMAIN here : here[i].id = id
<1>. DEFINE here == AvailableModels(c, known)
            sets == [i \in DOMAIN here |-> ({here[i].id} \cup here[i].natives) \cap names]
            place == FirstPlace(sets)
            id == NamedFirst(here, names)
<1>1. DOMAIN here \subseteq Nat \ {0} /\ \A i \in DOMAIN here : here[i].id # NoName
  BY AvailablePlaces, NamesNotEmpty
<1>2. CASE DOMAIN here = {}
  BY <1>2 DEF NamedFirst, NoName
<1>3. CASE DOMAIN here # {}
  <2>1. place = 0 \/ place \in DOMAIN here
    <3>1. DOMAIN sets = DOMAIN here
      OBVIOUS
    <3>. HIDE DEF here, sets
    <3>. QED  BY <1>1, <3>1, FirstPlaceIs
  <2>2. Min(DOMAIN here) \in DOMAIN here
    <3>1. DOMAIN here \in SUBSET Nat
      BY <1>1
    <3>. HIDE DEF here
    <3>. QED  BY <1>3, <3>1, MinOfSome
  <2>3. id = here[IF place = 0 THEN Min(DOMAIN here) ELSE place].id
    BY <1>3 DEF NamedFirst
  <2>. HIDE DEF here, place, id
  <2>4. PICK i \in DOMAIN here : id = here[i].id
    BY <2>1, <2>2, <2>3
  <2>. QED  BY <1>1, <1>3, <2>4 DEF here, id
<1>. QED  BY <1>2, <1>3

\* A name that is resolved can be served when the one it falls back to can.
Serving(c, known, id) ==
  IF id = NoName THEN DOMAIN AvailableModels(c, known) = {} ELSE CanBeServed(c, known, id)

LEMMA ResolvedIs ==
  ASSUME NEW c, NEW known \in Catalogs, NEW name, NEW default, Serving(c, known, default)
  PROVE  Serving(c, known, Resolved(name, Lookup(c, name, known), default))
<1>. DEFINE found == Lookup(c, name, known)
<1>1. CASE name # NoName /\ found.status = "usable"
  <2>1. Resolved(name, found, default) = found.id
    BY <1>1 DEF Resolved, NoName
  <2>2. CanBeServed(c, known, found.id) /\ found.id # NoName
    BY <1>1, LookupServes
  <2>. QED  BY <2>1, <2>2 DEF Serving
<1>2. CASE ~(name # NoName /\ found.status = "usable")
  <2>1. Resolved(name, found, default) = default
    BY <1>2 DEF Resolved, NoName
  <2>. QED  BY <2>1
<1>. QED  BY <1>1, <1>2

LEMMA ServesResolved == appModels \in Catalogs => ResolvedServes
<1>. DEFINE c == appConfig
            known == appModels
            active == ResolveActive(c, known)
            exploration == ResolveExploration(c, known)
<1>. SUFFICES ASSUME appModels \in Catalogs  PROVE ResolvedServes
  OBVIOUS
<1>1. Serving(c, known, DefaultActive(c, AvailableModels(c, known)))
  BY DefaultServes DEF DefaultActive, Serving, CanBeServed
<1>2. Serving(c, known, active)
  BY <1>1, ResolvedIs DEF ResolveActive
<1>3. Serving(c, known, exploration)
  <2>. HIDE DEF active
  <2>. QED  BY <1>2, ResolvedIs DEF ResolveExploration, active
<1>. QED  BY <1>2, <1>3 DEF ResolvedServes, Serving, CanBeServed, NoName

-----------------------------------------------------------------------------
(* A full name *)

\* Of the names tried for a full name no other is that of a model.
LEMMA CandidatesOfFullName ==
  ASSUME NEW name \in CanonicalNames
  PROVE  name \in Candidates(name) /\ \A x \in Candidates(name) : x \in CanonicalNames => x = name
<1>1. Migrated(name) = {}
  BY DEF Migrated
<1>2. \A o \in Offerings : o.canonical = name /\ o.native \in CanonicalNames => o.native = name
  BY OfferingsAssumption
<1>. QED  BY <1>1, <1>2 DEF Candidates

LEMMA FullNameIsUsed == appModels \in Catalogs => FullNameWins
<1>. DEFINE c == appConfig
            known == appModels
            here == AvailableModels(c, known)
            names == Candidates(c.active)
            looks == Looks(here, known, names)
<1>. SUFFICES ASSUME appModels \in Catalogs, NEW i \in DOMAIN here, here[i].id = c.active
              PROVE  ResolveActive(c, known) = c.active
  BY DEF FullNameWins
<1>1. c.active \in CanonicalNames /\ c.active # NoName
  BY AvailablePlaces, NamesNotEmpty
<1>2. c.active \in names /\ \A x \in names : x \in CanonicalNames => x = c.active
  BY <1>1, CandidatesOfFullName
<1>3. Exact(here, names) = {c.active}
  <2>1. \A j \in DOMAIN here : here[j].id \in CanonicalNames
    BY AvailablePlaces
  <2>. HIDE DEF here, names
  <2>. QED  BY <1>2, <2>1 DEF Exact, ToSet
<1>4. FirstOf(looks) = {c.active} /\ FirstPlace(looks) = 1
  <2>1. DOMAIN looks = 1..4 /\ looks[1] = {c.active}
    BY <1>3, LooksAre
  <2>. HIDE DEF looks
  <2>2. DOMAIN looks \subseteq Nat \ {0} /\ 1 \in DOMAIN looks
    BY <2>1
  <2>3. /\ FirstPlace(looks) \in DOMAIN looks /\ FirstOf(looks) = looks[FirstPlace(looks)]
        /\ \A j \in DOMAIN looks : j < FirstPlace(looks) => looks[j] = {}
    BY <2>1, <2>2, FirstPlaceIs
  <2>4. FirstPlace(looks) = 1
    BY <2>1, <2>2, <2>3
  <2>. QED  BY <2>1, <2>3, <2>4
<1>5. Lookup(c, c.active, known) = Judged({c.active}, 1, Trusting(c), c.active)
  BY <1>4 DEF Lookup, JudgedLooks
<1>6. Judged({c.active}, 1, Trusting(c), c.active) = Found("usable", c.active)
  <2>1. Cardinality({c.active}) = 1
    <3>. HIDE DEF c
    <3>. QED  BY FS_Singleton
  <2>2. (CHOOSE id \in {c.active} : TRUE) = c.active
    OBVIOUS
  <2>. QED  BY <2>1, <2>2 DEF Judged
<1>7. \A found, default : found.status = "usable" => Resolved(c.active, found, default) = found.id
  BY <1>1 DEF Resolved, NoName
<1>. QED  BY <1>5, <1>6, <1>7, FoundIs DEF ResolveActive

-----------------------------------------------------------------------------
(* The editor and the rules *)

RulesOf(policy, scope, keys) == {r \in policy : r.scope = scope /\ r.key \in keys}

Aliases(m) == {k \in DOMAIN Alias : ProviderID(k) = ProviderID(m.owner)}

\* The rules of a model are those of the first of four places that has any.
LEMMA RoutesAre ==
  ASSUME NEW policy, NEW m
  PROVE  \/ RoutesFor(policy, m) = {}
         \/ RoutesFor(policy, m) = RulesOf(policy, "model", {m.id})
         \/ RoutesFor(policy, m) = RulesOf(policy, "provider", {ProviderID(m.owner)})
         \/ /\ RoutesFor(policy, m) = RulesOf(policy, "provider", Aliases(m))
            /\ RulesOf(policy, "provider", {ProviderID(m.owner)}) = {}
         \/ RoutesFor(policy, m) = RulesOf(policy, "default", {NoName})
<1>. DEFINE sets == <<RulesOf(policy, "model", {m.id}), RulesOf(policy, "provider", {ProviderID(m.owner)}),
                      RulesOf(policy, "provider", Aliases(m)), RulesOf(policy, "default", {NoName})>>
<1>1. RoutesFor(policy, m) = FirstOf(sets)
  BY DEF RoutesFor, RulesOf, Aliases, NoName
<1>2. /\ DOMAIN sets = 1..4
      /\ sets[1] = RulesOf(policy, "model", {m.id})
      /\ sets[2] = RulesOf(policy, "provider", {ProviderID(m.owner)})
      /\ sets[3] = RulesOf(policy, "provider", Aliases(m))
      /\ sets[4] = RulesOf(policy, "default", {NoName})
  OBVIOUS
<1>. HIDE DEF sets
<1>3. \/ FirstOf(sets) = {}
      \/ /\ FirstPlace(sets) \in 1..4 /\ FirstOf(sets) = sets[FirstPlace(sets)]
         /\ \A i \in 1..4 : i < FirstPlace(sets) => sets[i] = {}
  BY <1>2, FirstPlaceIs
<1>4. CASE FirstOf(sets) = {}
  BY <1>1, <1>4
<1>5. CASE /\ FirstPlace(sets) \in 1..4 /\ FirstOf(sets) = sets[FirstPlace(sets)]
           /\ \A i \in 1..4 : i < FirstPlace(sets) => sets[i] = {}
  <2>1. FirstPlace(sets) = 3 => sets[2] = {}
    BY <1>5
  <2>2. FirstPlace(sets) \in {1, 2, 3, 4}
    BY <1>5
  <2>. QED  BY <1>1, <1>2, <1>5, <2>1, <2>2
<1>. QED  BY <1>3, <1>4, <1>5

\* A model has one rule.
LEMMA OneRoute ==
  ASSUME NEW policy, OneRulePerKey(policy), NEW m \in ListedModel
  PROVE  \A r, q \in RoutesFor(policy, m) : r = q
<1>. DEFINE pid == ProviderID(m.owner)
<1>1. ASSUME NEW scope, NEW key
      PROVE  \A r, q \in RulesOf(policy, scope, {key}) : r = q
  BY DEF RulesOf, OneRulePerKey
<1>2. ASSUME RulesOf(policy, "provider", {pid}) = {}
      PROVE  \A r, q \in RulesOf(policy, "provider", Aliases(m)) : r = q
  <2>1. SUFFICES ASSUME NEW r \in RulesOf(policy, "provider", Aliases(m)),
                        NEW q \in RulesOf(policy, "provider", Aliases(m))
                 PROVE  r = q
    OBVIOUS
  <2>2. r \in policy /\ q \in policy /\ r.scope = "provider" /\ q.scope = "provider"
        /\ r.key \in DOMAIN Alias /\ Alias[r.key] = pid /\ q.key \in DOMAIN Alias /\ Alias[q.key] = pid
    BY DEF RulesOf, Aliases, ProviderID
  <2>3. r.key # pid /\ q.key # pid
    BY <1>2, <2>2 DEF RulesOf
  <2>. HIDE DEF pid
  <2>4. r.key = q.key
    BY <2>2, <2>3, AliasAssumption
  <2>. QED  BY <2>2, <2>4 DEF OneRulePerKey
<1>3. CASE RoutesFor(policy, m) = RulesOf(policy, "model", {m.id})
  <2>1. \A r, q \in RulesOf(policy, "model", {m.id}) : r = q
    BY <1>1
  <2>. QED  BY <1>3, <2>1
<1>6. CASE RoutesFor(policy, m) = RulesOf(policy, "provider", {pid})
  <2>1. \A r, q \in RulesOf(policy, "provider", {pid}) : r = q
    BY <1>1
  <2>. QED  BY <1>6, <2>1
<1>7. CASE RoutesFor(policy, m) = RulesOf(policy, "default", {NoName})
  <2>1. \A r, q \in RulesOf(policy, "default", {NoName}) : r = q
    BY <1>1
  <2>. QED  BY <1>7, <2>1
<1>4. CASE /\ RoutesFor(policy, m) = RulesOf(policy, "provider", Aliases(m))
           /\ RulesOf(policy, "provider", {pid}) = {}
  BY <1>2, <1>4
<1>5. CASE RoutesFor(policy, m) = {}
  BY <1>5
<1>. QED  BY <1>3, <1>4, <1>5, <1>6, <1>7, RoutesAre

LEMMA RoutesAreStored ==
  ASSUME NEW policy, NEW m
  PROVE  RoutesFor(policy, m) \subseteq policy
BY RoutesAre DEF RulesOf

\* The deployments of a model in the editor's eyes are those that can serve it.
LEMMA EligibleIsUsable ==
  ASSUME NEW c \in StoredConfig, NEW known \in Catalogs, NEW i \in DOMAIN known
  PROVE  /\ Eligible(c, known, known[i].id) = {d.dep : d \in Usable(c, known[i])}
         /\ Eligible(c, known, known[i].id) \subseteq Deployments
<1>. DEFINE id == known[i].id
            of == {m \in ToSet(known) : m.id = id}
<1>1. of = {known[i]}
  BY ListIs DEF ToSet
<1>2. UNION {m.deps : m \in of} = known[i].deps
  BY <1>1
<1>3. c.configured \subseteq Deployments
  BY DEF StoredConfig
<1>. HIDE DEF of
<1>4. Eligible(c, known, id) =
        {d.dep : d \in {e \in UNION {m.deps : m \in of} :
                          e.dep \in c.configured /\ (e.mapping => <<e.dep, id>> \in c.mapped)}}
  BY DEF Eligible, of
<1>. QED  BY <1>2, <1>3, <1>4 DEF Usable

\* The editor warns of a rule exactly when the rule takes a model that could be served.
LEMMA EditorIsRight ==
  ASSUME NEW c \in StoredConfig, OneRulePerKey(c.routing), NEW known \in Catalogs,
         NEW i \in DOMAIN known, Usable(c, known[i]) # {}
  PROVE  EditorWarns(c, known, known[i]) <=> ~Serves(c, known[i])
<1>. DEFINE m == known[i]
            rules == RoutesFor(c.routing, m)
<1>1. m \in ListedModel /\ c.routing \in SUBSET StoredRule
  BY ListIs DEF StoredConfig
<1>2. m.deps # {}
  BY DEF Usable
<1>3. Serves(c, m) <=> \E d \in Usable(c, m) : rules = {} \/ \E r \in rules : d.dep \in Reached(r)
  BY <1>2 DEF Serves, Routed
<1>4. EditorWarns(c, known, m) <=>
        \E r \in rules : r.stages = <<>> \/ \A j \in DOMAIN r.stages : NoEligible(c, known, m.id, r.stages[j])
  BY DEF EditorWarns
<1>5. rules \subseteq StoredRule /\ \A r, q \in rules : r = q
  BY <1>1, OneRoute, RoutesAreStored
<1>. DEFINE able == {d.dep : d \in Usable(c, m)}
<1>6. Eligible(c, known, m.id) = able /\ able \subseteq Deployments
  BY EligibleIsUsable
<1>7. ASSUME NEW r \in rules
      PROVE  (r.stages = <<>> \/ \A j \in DOMAIN r.stages : NoEligible(c, known, m.id, r.stages[j]))
             <=> able \cap Reached(r) = {}
  <2>1. /\ r.stages = <<>> => DOMAIN r.stages = {}
        /\ \A j \in DOMAIN r.stages : \A w \in r.stages[j] : w.weight \in Nat
    BY <1>5 DEF StoredRule
  <2>. HIDE DEF able, rules, m
  <2>2. ASSUME NEW j \in DOMAIN r.stages
        PROVE  NoEligible(c, known, m.id, r.stages[j]) <=> able \cap Weighted(r.stages[j]) = {}
    <3>1. Deployments \cap Eligible(c, known, m.id) = able
      BY <1>6
    <3>2. \A w \in r.stages[j] : w.weight = 0 <=> ~(w.weight > 0)
      BY <2>1
    <3>. QED  BY <3>1, <3>2 DEF NoEligible, Weighted
  <2>3. able \cap Reached(r) = {} <=> \A j \in DOMAIN r.stages : able \cap Weighted(r.stages[j]) = {}
    BY DEF Reached
  <2>. QED  BY <2>1, <2>2, <2>3
<1>8. \E d \in Usable(c, m) : TRUE
  OBVIOUS
<1>9. ASSUME NEW r \in rules
      PROVE  able \cap Reached(r) = {} <=> ~\E d \in Usable(c, m) : d.dep \in Reached(r)
  OBVIOUS
<1>. HIDE DEF rules, m, able
<1>10. CASE rules = {}
  BY <1>3, <1>4, <1>8, <1>10 DEF m
<1>11. CASE rules # {}
  <2>1. PICK r \in rules : rules = {r}
    BY <1>5, <1>11
  <2>2. EditorWarns(c, known, m) <=> able \cap Reached(r) = {}
    BY <1>4, <1>7, <2>1
  <2>3. Serves(c, m) <=> \E d \in Usable(c, m) : d.dep \in Reached(r)
    BY <1>3, <2>1
  <2>. QED  BY <1>9, <2>1, <2>2, <2>3 DEF m
<1>. QED  BY <1>10, <1>11

-----------------------------------------------------------------------------
(* What the menus offer *)

LEMMA OfferSame ==
  ASSUME NEW c, NEW known, NEW r, NEW q, r.scope = q.scope, r.key = q.key
  PROVE  Offer(c, known, r) = Offer(c, known, q)
BY DEF Offer, Scoped

\* A deployment on offer can serve every model of the scope that can be served at all.
LEMMA OfferedCanServe ==
  ASSUME NEW c \in StoredConfig, NEW known \in Catalogs, NEW i \in DOMAIN known,
         Usable(c, known[i]) # {}, NEW r, Scoped(known[i], r), NEW d \in Offer(c, known, r)
  PROVE  \E e \in Usable(c, known[i]) : e.dep = d
<1>. DEFINE m == known[i]
            u == Unrouted(c)
            here == AvailableModels(u, known)
<1>1. u.configured = c.configured /\ u.mapped = c.mapped /\ u.routing = {}
  BY DEF StoredConfig, Unrouted
<1>. HIDE DEF u
<1>2. RoutesFor(u.routing, m) = {}
  BY <1>1, RoutesAreStored
<1>3. Usable(u, m) = Usable(c, m)
  BY <1>1 DEF Usable
<1>4. Routed(u, m) = Usable(c, m)
  BY <1>2, <1>3 DEF Routed
<1>5. Serves(u, m)
  <2>1. m.deps # {}
    BY DEF Usable
  <2>. QED  BY <1>4, <2>1 DEF Serves
<1>6. /\ i \in DOMAIN here /\ here[i].id = m.id /\ here[i].owner = m.owner
      /\ here[i].deps = Usable(c, m)
  <2>1. i \in DOMAIN here
    BY <1>5, AvailableIs
  <2>2. here[i].id = m.id /\ here[i].owner = m.owner /\ here[i].deps = Routed(u, m)
    BY <2>1, AvailableIs
  <2>. QED  BY <1>4, <2>1, <2>2
<1>7. here[i] \in ToSet(here)
  BY <1>6 DEF ToSet
<1>. HIDE DEF here, m
<1>8. Scoped(here[i], r)
  BY <1>6 DEF Scoped, m
<1>9. \A x \in ToSet(here) : Scoped(x, r) => \E e \in x.deps : e.dep = d
  BY DEF Offer, here, u
<1>. QED  BY <1>6, <1>7, <1>8, <1>9 DEF m

\* A rule that applies to a model has the model in its scope.
LEMMA AppliedIsScoped ==
  ASSUME NEW policy, NEW m \in ListedModel, NEW r \in RoutesFor(policy, m),
         r.scope \in {"provider", "model"}
  PROVE  Scoped(m, r)
<1>1. m.owner \in DOMAIN Alias
  BY DEF ListedModel
<1>2. CASE r \in RulesOf(policy, "model", {m.id})
  BY <1>2 DEF RulesOf, Scoped
<1>3. CASE r \in RulesOf(policy, "provider", {ProviderID(m.owner)})
  BY <1>1, <1>3, AliasAssumption DEF RulesOf, Scoped, ProviderID
<1>4. CASE r \in RulesOf(policy, "provider", Aliases(m))
  BY <1>4 DEF RulesOf, Scoped, Aliases
<1>5. r \notin RulesOf(policy, "default", {NoName})
  BY DEF RulesOf
<1>. QED  BY <1>2, <1>3, <1>4, <1>5, RoutesAre

-----------------------------------------------------------------------------
(* The invariant *)

\* A rule is built while the editor is open and has room for a change, and from deployments
\* that the menu offered of the models it was collected from.
RuleIsOffered ==
  /\ menu # "none" => editing /\ edits < MaxEdits /\ rule.scope \in {"provider", "model"}
  /\ menu = "primary" => offered \subseteq Offer(routingDraft, seenModels, rule)
  /\ menu \in {"fallback", "review"} => rule.primary \in Offer(routingDraft, seenModels, rule)

RoutingIndInv == RoutingTypeOK /\ RuleIsOffered

LEMMA NoRuleIs ==
  NoRule \in [scope : {"none", "provider", "model"}, key : STRING, primary : STRING, fallback : STRING]
<1>1. NoName \in STRING
  BY RoutingAssumption DEF NoName
<1>2. NoRule = [scope |-> "none", key |-> NoName, primary |-> NoName, fallback |-> NoName]
  BY Zenon DEF NoRule, NoName
<1>. QED  BY <1>1, <1>2

LEMMA EditsAreBounded == MaxEdits \in Nat
BY Zenon, RoutingAssumption

LEMMA RoutingStarts == RoutingInit => RoutingIndInv
<1>. SUFFICES ASSUME RoutingInit  PROVE RoutingIndInv
  OBVIOUS
<1>1. appConfig \in FirstConfigs /\ appConfig \in StoredConfig /\ OneRulePerKey(appConfig.routing)
  BY RoutingAssumption DEF RoutingInit
<1>2. appConfig = [appConfig EXCEPT !.configured = appConfig.configured, !.routing = appConfig.routing]
  BY <1>1 DEF StoredConfig
<1>3. \E f \in FirstConfigs :
        appConfig = [f EXCEPT !.configured = appConfig.configured, !.routing = appConfig.routing]
  BY <1>1, <1>2
<1>5. 0 \in 0..MaxEdits
  BY EditsAreBounded
<1>6. RoutingTypeOK
  BY <1>1, <1>3, <1>5, NoRuleIs DEF RoutingInit, RoutingTypeOK
<1>4. RuleIsOffered
  BY DEF RoutingInit, RuleIsOffered
<1>. QED  BY <1>4, <1>6 DEF RoutingIndInv

\* A configuration that the editor may have made of one of the file.
Edited(c) ==
  /\ c \in StoredConfig /\ OneRulePerKey(c.routing)
  /\ \E f \in FirstConfigs : c = [f EXCEPT !.configured = c.configured, !.routing = c.routing]

LEMMA ConfigsAreEdited == RoutingTypeOK => Edited(appConfig) /\ Edited(routingDraft)
BY DEF RoutingTypeOK, Edited

LEMMA ConfiguredIs ==
  ASSUME NEW c \in StoredConfig, NEW D \in SUBSET Deployments
  PROVE  LET e == [c EXCEPT !.configured = D]
         IN /\ e \in StoredConfig /\ e.configured = D /\ e.mapped = c.mapped /\ e.active = c.active
            /\ e.exploration = c.exploration /\ e.routing = c.routing
BY DEF StoredConfig

LEMMA RoutedIs ==
  ASSUME NEW c \in StoredConfig, NEW R \in SUBSET StoredRule
  PROVE  LET e == [c EXCEPT !.routing = R]
         IN /\ e \in StoredConfig /\ e.configured = c.configured /\ e.mapped = c.mapped
            /\ e.active = c.active /\ e.exploration = c.exploration /\ e.routing = R
BY DEF StoredConfig

\* What is left alone is what the file has.
LEMMA EditedFrom ==
  ASSUME NEW c, Edited(c), NEW e \in StoredConfig, OneRulePerKey(e.routing), e.mapped = c.mapped,
         e.active = c.active, e.exploration = c.exploration
  PROVE  Edited(e)
<1>1. PICK f \in FirstConfigs : c = [f EXCEPT !.configured = c.configured, !.routing = c.routing]
  BY DEF Edited
<1>2. f \in StoredConfig
  BY RoutingAssumption
<1>3. c.mapped = f.mapped /\ c.active = f.active /\ c.exploration = f.exploration
  BY <1>1, <1>2 DEF StoredConfig
<1>4. e = [f EXCEPT !.configured = e.configured, !.routing = e.routing]
  BY <1>2, <1>3 DEF StoredConfig
<1>. QED  BY <1>4 DEF Edited

\* Fewer rules still have one per key, and so has a rule that takes the place of its own.
LEMMA ReplacedRules ==
  ASSUME NEW policy \in SUBSET StoredRule, OneRulePerKey(policy), NEW r
  PROVE  /\ Without(policy, r) \in SUBSET StoredRule /\ OneRulePerKey(Without(policy, r))
         /\ \A q \in StoredRule : q.scope = r.scope /\ q.key = r.key =>
              OneRulePerKey(Without(policy, r) \cup {q})
BY DEF Without, OneRulePerKey

LEMMA RuleMade ==
  ASSUME NEW r \in [scope : {"none", "provider", "model"}, key : STRING, primary : STRING, fallback : STRING],
         r.scope \in {"provider", "model"}
  PROVE  /\ RuleOf(r) \in StoredRule /\ RuleOf(r).scope = r.scope /\ RuleOf(r).key = r.key
         /\ r.primary \in Reached(RuleOf(r))
<1>1. ASSUME NEW d \in STRING
      PROVE  Stage(d) \in SUBSET [dep : STRING, weight : Nat] /\ d \in Weighted(Stage(d))
  <2>. DEFINE share == [dep |-> d, weight |-> 100]
  <2>1. share \in [dep : STRING, weight : Nat] /\ share.dep = d /\ share.weight > 0
    BY <1>1
  <2>2. Stage(d) = {share}
    BY DEF Stage
  <2>. HIDE DEF share
  <2>3. share.dep \in Weighted({share})
    BY <2>1 DEF Weighted
  <2>. QED  BY <2>1, <2>2, <2>3
<1>. DEFINE stages == IF r.fallback = NoName THEN <<Stage(r.primary)>>
                                             ELSE <<Stage(r.primary), Stage(r.fallback)>>
<1>2. RuleOf(r) = [scope |-> r.scope, key |-> r.key, stages |-> stages]
  BY Zenon DEF RuleOf, NoName
<1>3. /\ stages \in Seq(SUBSET [dep : STRING, weight : Nat])
      /\ 1 \in DOMAIN stages /\ stages[1] = Stage(r.primary)
  <2>1. Stage(r.primary) \in SUBSET [dep : STRING, weight : Nat]
        /\ Stage(r.fallback) \in SUBSET [dep : STRING, weight : Nat]
    BY <1>1
  <2>2. CASE r.fallback = NoName
    BY <2>1, <2>2
  <2>3. CASE r.fallback # NoName
    BY <2>1, <2>3
  <2>. QED  BY <2>2, <2>3
<1>. HIDE DEF stages
<1>4. RuleOf(r) \in StoredRule /\ RuleOf(r).stages = stages
  BY <1>2, <1>3 DEF StoredRule
<1>5. r.primary \in Reached(RuleOf(r))
  BY <1>1, <1>3, <1>4 DEF Reached
<1>. QED  BY <1>2, <1>4, <1>5

-----------------------------------------------------------------------------
(* Every step keeps the types *)

LEMMA OffersAreNames ==
  ASSUME NEW c, NEW known \in Catalogs, NEW r, NEW scope
  PROVE  /\ Offer(c, known, r) \subseteq Deployments
         /\ KeysOffered(c, known, scope) \subseteq CanonicalNames \cup DOMAIN Alias
<1>. DEFINE here == AvailableModels(Unrouted(c), known)
<1>1. Offer(c, known, r) \subseteq Deployments
  BY DEF Offer
<1>2. \A m \in ToSet(here) : m.id \in CanonicalNames /\ ProviderID(m.owner) \in DOMAIN Alias
  <2>1. \A i \in DOMAIN here : i \in DOMAIN known /\ here[i].id = known[i].id /\ here[i].owner = known[i].owner
    BY AvailableIs
  <2>2. \A i \in DOMAIN known : known[i].id \in CanonicalNames /\ known[i].owner \in DOMAIN Alias
    BY ListIs DEF ListedModel
  <2>. HIDE DEF here
  <2>. QED  BY <2>1, <2>2, AliasAssumption DEF ToSet, ProviderID
<1>. HIDE DEF here
<1>3. KeysOffered(c, known, scope) \subseteq {m.id : m \in ToSet(here)} \cup {ProviderID(m.owner) : m \in ToSet(here)}
  BY DEF KeysOffered, here
<1>. QED  BY <1>1, <1>2, <1>3

RuleDraft ==
  [scope : {"none", "provider", "model"}, key : STRING, primary : STRING, fallback : STRING]

\* The types, apart from the configurations.
PlacesOK ==
  /\ editing \in BOOLEAN /\ appModels \in Catalogs /\ seenModels \in Catalogs
  /\ menu \in {"none", "keys", "primary", "fallback", "review"} /\ rule \in RuleDraft
  /\ edits \in 0..MaxEdits
  /\ offered \subseteq Deployments \cup CanonicalNames \cup DOMAIN Alias

LEMMA TypesAre == RoutingTypeOK <=> Edited(appConfig) /\ Edited(routingDraft) /\ PlacesOK
BY DEF RoutingTypeOK, Edited, PlacesOK, RuleDraft

LEMMA NamesAreStrings ==
  /\ Deployments \subseteq STRING /\ CanonicalNames \subseteq STRING /\ DOMAIN Alias \subseteq STRING
  /\ NoName \in STRING
BY RoutingAssumption DEF NoName

LEMMA RuleChanged ==
  ASSUME NEW r \in RuleDraft, NEW x \in STRING
  PROVE  /\ [r EXCEPT !.key = x] \in RuleDraft /\ [r EXCEPT !.key = x].scope = r.scope
         /\ [r EXCEPT !.primary = x] \in RuleDraft /\ [r EXCEPT !.primary = x].primary = x
         /\ [r EXCEPT !.primary = x].scope = r.scope /\ [r EXCEPT !.primary = x].key = r.key
         /\ [r EXCEPT !.fallback = x] \in RuleDraft /\ [r EXCEPT !.fallback = x].primary = r.primary
         /\ [r EXCEPT !.fallback = x].scope = r.scope /\ [r EXCEPT !.fallback = x].key = r.key
BY DEF RuleDraft

LEMMA NewRuleIs ==
  ASSUME NEW scope \in {"provider", "model"}, NEW key \in STRING
  PROVE  /\ [NoRule EXCEPT !.scope = scope] \in RuleDraft
         /\ [NoRule EXCEPT !.scope = scope].scope = scope
         /\ [NoRule EXCEPT !.scope = scope, !.key = key] \in RuleDraft
         /\ [NoRule EXCEPT !.scope = scope, !.key = key].scope = scope
<1>1. NoRule \in RuleDraft
  BY NoRuleIs DEF RuleDraft
<1>. QED  BY <1>1 DEF RuleDraft

LEMMA ClosingTypes ==
  PlacesOK /\ MenuClosed /\ UNCHANGED <<editing, appModels>> /\ edits' \in 0..MaxEdits => PlacesOK'
<1>1. NoRule \in RuleDraft
  BY NoRuleIs DEF RuleDraft
<1>. QED  BY <1>1 DEF PlacesOK, MenuClosed

LEMMA ShowingTypes ==
  ASSUME PlacesOK, UNCHANGED <<editing, appModels, edits>>,
         NEW which \in {"keys", "primary", "fallback", "review"}, NEW r \in RuleDraft, NEW lines,
         lines \subseteq Deployments \cup CanonicalNames \cup DOMAIN Alias, ShowsMenu(which, r, lines)
  PROVE  PlacesOK'
BY DEF PlacesOK, ShowsMenu

LEMMA OpeningTypes ==
  ASSUME PlacesOK, UNCHANGED <<editing, appModels, edits>>, NEW r \in RuleDraft, OpenPrimary(r)
  PROVE  PlacesOK'
<1>. DEFINE lines == Offer(routingDraft, appModels, r)
<1>1. lines \subseteq Deployments
  BY OffersAreNames DEF PlacesOK
<1>2. CASE MenuClosed
  <2>1. edits' \in 0..MaxEdits
    BY DEF PlacesOK
  <2>. QED  BY <1>2, <2>1, ClosingTypes
<1>3. CASE ShowsMenu("primary", r, lines)
  <2>1. lines \subseteq Deployments \cup CanonicalNames \cup DOMAIN Alias
    BY <1>1
  <2>. HIDE DEF lines
  <2>. QED  BY <1>3, <2>1, ShowingTypes
<1>. QED  BY <1>2, <1>3 DEF OpenPrimary

LEMMA MenuStepTypes ==
  ASSUME RoutingTypeOK, \/ \E scope \in {"provider", "model"} : OpenRuleMenu(scope)
                        \/ ChooseKey \/ ReplaceRule \/ ChoosePrimary \/ ChooseFallback \/ LeaveMenu
  PROVE  RoutingTypeOK'
<1>1. Edited(appConfig) /\ Edited(routingDraft) /\ PlacesOK
  BY TypesAre
<1>2. UNCHANGED <<appConfig, routingDraft, editing, appModels, edits>>
  BY DEF OpenRuleMenu, ChooseKey, ReplaceRule, ChoosePrimary, ChooseFallback, LeaveMenu
<1>3. Edited(appConfig)' /\ Edited(routingDraft)'
  BY <1>1, <1>2 DEF Edited
<1>4. rule \in RuleDraft /\ appModels \in Catalogs /\ edits \in 0..MaxEdits
      /\ offered \subseteq Deployments \cup CanonicalNames \cup DOMAIN Alias
      /\ menu \in {"none", "keys", "primary", "fallback", "review"}
  BY <1>1 DEF PlacesOK
<1>5. ASSUME NEW scope \in {"provider", "model"}, OpenRuleMenu(scope)
      PROVE  PlacesOK'
  <2>. DEFINE r == [NoRule EXCEPT !.scope = scope]
              lines == KeysOffered(routingDraft, appModels, scope)
  <2>1. r \in RuleDraft
    BY NewRuleIs, NamesAreStrings
  <2>2. lines \subseteq Deployments \cup CanonicalNames \cup DOMAIN Alias
    BY <1>4, OffersAreNames
  <2>3. ShowsMenu("keys", r, lines)
    BY <1>5 DEF OpenRuleMenu
  <2>. HIDE DEF r, lines
  <2>. QED  BY <1>1, <1>2, <2>1, <2>2, <2>3, ShowingTypes
<1>6. ASSUME ChooseKey  PROVE PlacesOK'
  <2>1. PICK k \in offered : OpenPrimary([rule EXCEPT !.key = k])
    BY <1>6 DEF ChooseKey
  <2>. DEFINE q == [rule EXCEPT !.key = k]
  <2>2. q \in RuleDraft /\ OpenPrimary(q)
    BY <1>4, <2>1, NamesAreStrings, RuleChanged
  <2>. HIDE DEF q
  <2>. QED  BY <1>1, <1>2, <2>1, <2>2, OpeningTypes
<1>7. ASSUME ReplaceRule  PROVE PlacesOK'
  <2>1. PICK r \in routingDraft.routing :
           r.scope # "default" /\ OpenPrimary([NoRule EXCEPT !.scope = r.scope, !.key = r.key])
    BY <1>7 DEF ReplaceRule
  <2>2. r.scope \in {"provider", "model"} /\ r.key \in STRING
    BY <1>1, <2>1 DEF Edited, StoredConfig, StoredRule
  <2>. DEFINE q == [NoRule EXCEPT !.scope = r.scope, !.key = r.key]
  <2>3. q \in RuleDraft /\ OpenPrimary(q)
    BY <2>1, <2>2, NewRuleIs
  <2>. HIDE DEF q
  <2>. QED  BY <1>1, <1>2, <2>1, <2>3, OpeningTypes
<1>8. ASSUME ChoosePrimary  PROVE PlacesOK'
  <2>1. PICK d \in offered :
           ShowsMenu("fallback", [rule EXCEPT !.primary = d], Offer(routingDraft, appModels, rule) \ {d})
    BY <1>8 DEF ChoosePrimary
  <2>. DEFINE q == [rule EXCEPT !.primary = d]
              lines == Offer(routingDraft, appModels, rule) \ {d}
  <2>2. q \in RuleDraft /\ ShowsMenu("fallback", q, lines)
    BY <1>4, <2>1, NamesAreStrings, RuleChanged
  <2>3. lines \subseteq Deployments \cup CanonicalNames \cup DOMAIN Alias
    BY <1>4, OffersAreNames
  <2>. HIDE DEF q, lines
  <2>. QED  BY <1>1, <1>2, <2>1, <2>2, <2>3, ShowingTypes
<1>9. ASSUME ChooseFallback  PROVE PlacesOK'
  <2>1. PICK d \in offered \cup {NoName} : ShowsMenu("review", [rule EXCEPT !.fallback = d], {})
    BY <1>9, Zenon DEF ChooseFallback, NoName
  <2>. DEFINE q == [rule EXCEPT !.fallback = d]
              lines == {}
  <2>2. q \in RuleDraft /\ ShowsMenu("review", q, lines)
    BY <1>4, <2>1, NamesAreStrings, RuleChanged
  <2>3. lines \subseteq Deployments \cup CanonicalNames \cup DOMAIN Alias
    OBVIOUS
  <2>. HIDE DEF q, lines
  <2>. QED  BY <1>1, <1>2, <2>2, <2>3, ShowingTypes
<1>10. ASSUME LeaveMenu  PROVE PlacesOK'
  <2>1. edits' \in 0..MaxEdits /\ MenuClosed
    BY <1>2, <1>4, <1>10 DEF LeaveMenu
  <2>. QED  BY <1>1, <1>2, <2>1, ClosingTypes
<1>11. PlacesOK'
  BY <1>5, <1>6, <1>7, <1>8, <1>9, <1>10
<1>12. (Edited(appConfig) /\ Edited(routingDraft) /\ PlacesOK)' => RoutingTypeOK'
  BY TypesAre, PTL
<1>. QED  BY <1>3, <1>11, <1>12

LEMMA EditingStepTypes ==
  ASSUME RoutingTypeOK, ModelsArrive \/ EnterEditor \/ LeaveEditor \/ EditCredential
  PROVE  RoutingTypeOK'
<1>1. Edited(appConfig) /\ Edited(routingDraft) /\ PlacesOK
  BY TypesAre
<1>2. ASSUME ModelsArrive  PROVE (Edited(appConfig) /\ Edited(routingDraft) /\ PlacesOK)'
  BY <1>1, <1>2 DEF ModelsArrive, Edited, PlacesOK, editorVars
<1>3. ASSUME EnterEditor  PROVE (Edited(appConfig) /\ Edited(routingDraft) /\ PlacesOK)'
  BY <1>1, <1>3 DEF EnterEditor, Edited, PlacesOK, editorVars
<1>4. ASSUME LeaveEditor  PROVE (Edited(appConfig) /\ Edited(routingDraft) /\ PlacesOK)'
  BY <1>1, <1>4 DEF LeaveEditor, Edited, PlacesOK, editorVars
<1>5. ASSUME EditCredential  PROVE (Edited(appConfig) /\ Edited(routingDraft) /\ PlacesOK)'
  <2>1. PICK d \in Deciders :
           routingDraft' = [routingDraft EXCEPT !.configured = IF d \in @ THEN @ \ {d} ELSE @ \cup {d}]
    BY <1>5 DEF EditCredential
  <2>. DEFINE D == IF d \in routingDraft.configured THEN routingDraft.configured \ {d}
                                                    ELSE routingDraft.configured \cup {d}
  <2>2. routingDraft \in StoredConfig /\ OneRulePerKey(routingDraft.routing)
    BY <1>1 DEF Edited
  <2>3. d \in Deployments
    BY RoutingAssumption
  <2>4. D \in SUBSET Deployments
    BY <2>2, <2>3 DEF StoredConfig
  <2>5. routingDraft' = [routingDraft EXCEPT !.configured = D]
    BY <2>1
  <2>. HIDE DEF D
  <2>6. /\ routingDraft' \in StoredConfig /\ routingDraft'.mapped = routingDraft.mapped
        /\ routingDraft'.active = routingDraft.active
        /\ routingDraft'.exploration = routingDraft.exploration
        /\ routingDraft'.routing = routingDraft.routing
    BY <2>2, <2>4, <2>5, ConfiguredIs
  <2>7. Edited(routingDraft')
    BY <1>1, <2>2, <2>6, EditedFrom
  <2>8. PlacesOK'
    <3>1. edits \in Nat /\ edits < MaxEdits /\ edits' = edits + 1
      BY <1>1, <1>5 DEF EditCredential, PlacesOK
    <3>2. edits' \in 0..MaxEdits
      BY <3>1, EditsAreBounded
    <3>. QED  BY <1>1, <1>5, <3>2 DEF EditCredential, PlacesOK, editorVars
  <2>. QED  BY <1>1, <1>5, <2>7, <2>8 DEF EditCredential, Edited
<1>6. (Edited(appConfig) /\ Edited(routingDraft) /\ PlacesOK)'
  BY <1>2, <1>3, <1>4, <1>5
<1>7. (Edited(appConfig) /\ Edited(routingDraft) /\ PlacesOK)' => RoutingTypeOK'
  BY TypesAre, PTL
<1>. QED  BY <1>6, <1>7

LEMMA RuleStepTypes ==
  ASSUME RoutingIndInv, SaveRule \/ DeleteRule
  PROVE  RoutingTypeOK'
<1>1. Edited(appConfig) /\ Edited(routingDraft) /\ PlacesOK
  BY TypesAre DEF RoutingIndInv
<1>2. routingDraft \in StoredConfig /\ OneRulePerKey(routingDraft.routing)
      /\ routingDraft.routing \in SUBSET StoredRule
  BY <1>1 DEF Edited, StoredConfig
<1>3. ASSUME NEW R \in SUBSET StoredRule, OneRulePerKey(R), routingDraft' = [routingDraft EXCEPT !.routing = R]
      PROVE  Edited(routingDraft')
  <2>1. /\ routingDraft' \in StoredConfig /\ routingDraft'.mapped = routingDraft.mapped
        /\ routingDraft'.active = routingDraft.active
        /\ routingDraft'.exploration = routingDraft.exploration
        /\ routingDraft'.routing = R
    BY <1>2, <1>3, RoutedIs
  <2>. QED  BY <1>1, <1>3, <2>1, EditedFrom
<1>4. edits < MaxEdits /\ edits' = edits + 1
  BY DEF SaveRule, DeleteRule, RoutingIndInv, RuleIsOffered
<1>5. edits' \in 0..MaxEdits
  BY <1>1, <1>4, EditsAreBounded DEF PlacesOK
<1>6. ASSUME SaveRule  PROVE Edited(routingDraft') /\ PlacesOK'
  <2>. DEFINE R == Without(routingDraft.routing, rule) \cup {RuleOf(rule)}
  <2>1. rule \in RuleDraft /\ rule.scope \in {"provider", "model"}
    BY <1>1, <1>6 DEF SaveRule, RoutingIndInv, RuleIsOffered, PlacesOK
  <2>2. RuleOf(rule) \in StoredRule /\ RuleOf(rule).scope = rule.scope /\ RuleOf(rule).key = rule.key
    BY <2>1, RuleMade DEF RuleDraft
  <2>3. R \in SUBSET StoredRule /\ OneRulePerKey(R)
    BY <1>2, <2>2, ReplacedRules
  <2>4. routingDraft' = [routingDraft EXCEPT !.routing = R]
    BY <1>6 DEF SaveRule
  <2>. HIDE DEF R
  <2>5. Edited(routingDraft')
    BY <1>3, <2>3, <2>4
  <2>6. PlacesOK'
    BY <1>1, <1>5, <1>6, ClosingTypes DEF SaveRule
  <2>. QED  BY <2>5, <2>6
<1>7. ASSUME DeleteRule  PROVE Edited(routingDraft') /\ PlacesOK'
  <2>1. PICK r \in routingDraft.routing : routingDraft' = [routingDraft EXCEPT !.routing = Without(@, r)]
    BY <1>7 DEF DeleteRule
  <2>. DEFINE R == Without(routingDraft.routing, r)
  <2>2. R \in SUBSET StoredRule /\ OneRulePerKey(R)
    BY <1>2, ReplacedRules
  <2>3. routingDraft' = [routingDraft EXCEPT !.routing = R]
    BY <2>1
  <2>. HIDE DEF R
  <2>4. Edited(routingDraft')
    BY <1>3, <2>2, <2>3
  <2>5. PlacesOK'
    BY <1>1, <1>5, <1>7 DEF DeleteRule, PlacesOK, editorVars
  <2>. QED  BY <2>4, <2>5
<1>8. UNCHANGED appConfig
  BY DEF SaveRule, DeleteRule
<1>9. (Edited(appConfig) /\ Edited(routingDraft) /\ PlacesOK)'
  BY <1>1, <1>6, <1>7, <1>8 DEF Edited
<1>10. (Edited(appConfig) /\ Edited(routingDraft) /\ PlacesOK)' => RoutingTypeOK'
  BY TypesAre, PTL
<1>. QED  BY <1>9, <1>10

-----------------------------------------------------------------------------
(* Every step keeps to what is on offer *)

LEMMA OpeningOffers ==
  ASSUME RoutingTypeOK, menu \in {"none", "keys"}, editing, edits < MaxEdits,
         UNCHANGED <<routingDraft, editing, edits>>, UNCHANGED appModels,
         NEW r, r.scope \in {"provider", "model"}, OpenPrimary(r)
  PROVE  RuleIsOffered'
<1>1. CASE MenuClosed
  BY <1>1 DEF MenuClosed, RuleIsOffered
<1>2. CASE ShowsMenu("primary", r, Offer(routingDraft, appModels, r))
  <2>1. menu' = "primary" /\ rule' = r /\ offered' = Offer(routingDraft, appModels, r) /\ seenModels' = appModels
    BY <1>2 DEF ShowsMenu
  <2>. QED  BY <2>1 DEF RuleIsOffered
<1>. QED  BY <1>1, <1>2 DEF OpenPrimary

LEMMA MenuStepOffers ==
  ASSUME RoutingIndInv, \/ \E scope \in {"provider", "model"} : OpenRuleMenu(scope)
                        \/ ChooseKey \/ ReplaceRule \/ ChoosePrimary \/ ChooseFallback \/ LeaveMenu
  PROVE  RuleIsOffered'
<1>1. RoutingTypeOK /\ RuleIsOffered
  BY DEF RoutingIndInv
<1>2. UNCHANGED <<routingDraft, editing, edits>> /\ UNCHANGED appModels
  BY DEF OpenRuleMenu, ChooseKey, ReplaceRule, ChoosePrimary, ChooseFallback, LeaveMenu
<1>3. rule \in RuleDraft /\ offered \subseteq STRING
  BY <1>1, TypesAre, NamesAreStrings DEF PlacesOK
<1>4. ASSUME NEW scope \in {"provider", "model"}, OpenRuleMenu(scope)
      PROVE  RuleIsOffered'
  <2>1. /\ editing /\ edits < MaxEdits /\ menu' = "keys"
        /\ rule' = [NoRule EXCEPT !.scope = scope]
    BY <1>4 DEF OpenRuleMenu, ShowsMenu
  <2>2. rule'.scope = scope
    BY <2>1, NewRuleIs, NamesAreStrings
  <2>. QED  BY <1>2, <2>1, <2>2 DEF RuleIsOffered
<1>5. ASSUME ChooseKey  PROVE RuleIsOffered'
  <2>1. PICK k \in offered : OpenPrimary([rule EXCEPT !.key = k])
    BY <1>5 DEF ChooseKey
  <2>. DEFINE q == [rule EXCEPT !.key = k]
  <2>2. menu = "keys" /\ editing /\ edits < MaxEdits /\ rule.scope \in {"provider", "model"}
    BY <1>1, <1>5 DEF ChooseKey, RuleIsOffered
  <2>3. q.scope \in {"provider", "model"} /\ OpenPrimary(q)
    BY <1>3, <2>1, <2>2, RuleChanged
  <2>. HIDE DEF q
  <2>. QED  BY <1>1, <1>2, <2>2, <2>3, OpeningOffers
<1>6. ASSUME ReplaceRule  PROVE RuleIsOffered'
  <2>1. PICK r \in routingDraft.routing :
           r.scope # "default" /\ OpenPrimary([NoRule EXCEPT !.scope = r.scope, !.key = r.key])
    BY <1>6 DEF ReplaceRule
  <2>2. r.scope \in {"provider", "model"} /\ r.key \in STRING
    BY <1>1, <2>1, TypesAre DEF Edited, StoredConfig, StoredRule
  <2>. DEFINE q == [NoRule EXCEPT !.scope = r.scope, !.key = r.key]
  <2>3. q.scope \in {"provider", "model"} /\ OpenPrimary(q)
    BY <2>1, <2>2, NewRuleIs
  <2>4. menu = "none" /\ editing /\ edits < MaxEdits
    BY <1>6 DEF ReplaceRule
  <2>. HIDE DEF q
  <2>. QED  BY <1>1, <1>2, <2>3, <2>4, OpeningOffers
<1>7. ASSUME ChoosePrimary  PROVE RuleIsOffered'
  <2>1. PICK d \in offered :
           ShowsMenu("fallback", [rule EXCEPT !.primary = d], Offer(routingDraft, appModels, rule) \ {d})
    BY <1>7 DEF ChoosePrimary
  <2>2. /\ menu = "primary" /\ editing /\ edits < MaxEdits /\ rule.scope \in {"provider", "model"}
        /\ d \in Offer(routingDraft, seenModels, rule)
    BY <1>1, <1>7, <2>1 DEF ChoosePrimary, RuleIsOffered
  <2>. DEFINE q == [rule EXCEPT !.primary = d]
  <2>3. q.scope = rule.scope /\ q.key = rule.key /\ q.primary = d
    BY <1>3, <2>1, RuleChanged
  <2>4. menu' = "fallback" /\ rule' = q /\ seenModels' = seenModels
    BY <2>1, <2>2 DEF ShowsMenu
  <2>. HIDE DEF q
  <2>5. Offer(routingDraft, seenModels, q) = Offer(routingDraft, seenModels, rule)
    BY <2>3, OfferSame
  <2>. QED  BY <1>2, <2>2, <2>3, <2>4, <2>5 DEF RuleIsOffered
<1>8. ASSUME ChooseFallback  PROVE RuleIsOffered'
  <2>1. PICK d \in offered \cup {NoName} : ShowsMenu("review", [rule EXCEPT !.fallback = d], {})
    BY <1>8, Zenon DEF ChooseFallback, NoName
  <2>2. /\ menu = "fallback" /\ editing /\ edits < MaxEdits /\ rule.scope \in {"provider", "model"}
        /\ rule.primary \in Offer(routingDraft, seenModels, rule)
    BY <1>1, <1>8 DEF ChooseFallback, RuleIsOffered
  <2>. DEFINE q == [rule EXCEPT !.fallback = d]
  <2>3. q.scope = rule.scope /\ q.key = rule.key /\ q.primary = rule.primary
    BY <1>3, <2>1, RuleChanged, NamesAreStrings
  <2>4. menu' = "review" /\ rule' = q /\ seenModels' = seenModels
    BY <2>1, <2>2 DEF ShowsMenu
  <2>. HIDE DEF q
  <2>5. Offer(routingDraft, seenModels, q) = Offer(routingDraft, seenModels, rule)
    BY <2>3, OfferSame
  <2>. QED  BY <1>2, <2>2, <2>3, <2>4, <2>5 DEF RuleIsOffered
<1>9. ASSUME LeaveMenu  PROVE RuleIsOffered'
  BY <1>9 DEF LeaveMenu, MenuClosed, RuleIsOffered
<1>. QED  BY <1>4, <1>5, <1>6, <1>7, <1>8, <1>9

LEMMA OtherStepOffers ==
  ASSUME RoutingIndInv,
         ModelsArrive \/ EnterEditor \/ LeaveEditor \/ EditCredential \/ SaveRule \/ DeleteRule
  PROVE  RuleIsOffered'
<1>1. CASE ModelsArrive
  BY <1>1 DEF RoutingIndInv, RuleIsOffered, ModelsArrive, editorVars
<1>2. CASE menu = "none" /\ UNCHANGED menu
  BY <1>2 DEF RuleIsOffered
<1>3. CASE MenuClosed
  BY <1>3 DEF MenuClosed, RuleIsOffered
<1>4. ModelsArrive \/ (menu = "none" /\ UNCHANGED menu) \/ MenuClosed
  BY DEF RoutingIndInv, RuleIsOffered, EnterEditor, LeaveEditor, EditCredential, SaveRule, DeleteRule, editorVars
<1>. QED  BY <1>1, <1>2, <1>3, <1>4

LEMMA RoutingStep == RoutingIndInv /\ [RoutingNext]_routingVars => RoutingIndInv'
<1>. SUFFICES ASSUME RoutingIndInv, [RoutingNext]_routingVars  PROVE RoutingIndInv'
  OBVIOUS
<1>1. CASE \/ \E scope \in {"provider", "model"} : OpenRuleMenu(scope)
           \/ ChooseKey \/ ReplaceRule \/ ChoosePrimary \/ ChooseFallback \/ LeaveMenu
  BY <1>1, MenuStepTypes, MenuStepOffers DEF RoutingIndInv
<1>2. CASE ModelsArrive \/ EnterEditor \/ LeaveEditor \/ EditCredential
  BY <1>2, EditingStepTypes, OtherStepOffers DEF RoutingIndInv
<1>3. CASE SaveRule \/ DeleteRule
  BY <1>3, RuleStepTypes, OtherStepOffers DEF RoutingIndInv
<1>4. CASE UNCHANGED routingVars
  BY <1>4 DEF routingVars, RoutingIndInv, RoutingTypeOK, RuleIsOffered
<1>. QED  BY <1>1, <1>2, <1>3, <1>4 DEF RoutingNext

\* A rule that is saved from the menus serves the models it applies to.
LEMMA SaveServes == RoutingIndInv /\ [RoutingNext]_routingVars => [SavedRuleServes]_routingVars
<1>. SUFFICES ASSUME RoutingIndInv, RoutingNext, menu = "review", routingDraft' # routingDraft,
                     seenModels = appModels, NEW i \in DOMAIN appModels,
                     Usable(routingDraft, appModels[i]) # {},
                     RoutesFor(routingDraft'.routing, appModels[i]) = {RuleOf(rule)}
              PROVE  Serves(routingDraft', appModels[i])
  BY DEF SavedRuleServes
<1>. DEFINE m == appModels[i]
            r == RuleOf(rule)
<1>1. /\ Edited(routingDraft) /\ rule \in RuleDraft /\ appModels \in Catalogs
      /\ editing /\ rule.scope \in {"provider", "model"}
      /\ rule.primary \in Offer(routingDraft, appModels, rule)
  BY TypesAre DEF RoutingIndInv, RuleIsOffered, PlacesOK
<1>2. SaveRule
  BY <1>1 DEF RoutingNext, ModelsArrive, EnterEditor, LeaveEditor, EditCredential, OpenRuleMenu,
              ChooseKey, ReplaceRule, ChoosePrimary, ChooseFallback, DeleteRule, LeaveMenu
<1>3. routingDraft \in StoredConfig /\ routingDraft.routing \in SUBSET StoredRule
  BY <1>1 DEF Edited, StoredConfig
<1>4. r \in StoredRule /\ r.scope = rule.scope /\ r.key = rule.key /\ rule.primary \in Reached(r)
  BY <1>1, RuleMade DEF RuleDraft
<1>5. routingDraft'.configured = routingDraft.configured /\ routingDraft'.mapped = routingDraft.mapped
  <2>. DEFINE R == Without(routingDraft.routing, rule) \cup {RuleOf(rule)}
  <2>1. routingDraft' = [routingDraft EXCEPT !.routing = R]
    BY <1>2 DEF SaveRule
  <2>2. R \in SUBSET StoredRule
    BY <1>3, <1>4 DEF Without
  <2>. HIDE DEF R
  <2>. QED  BY <1>3, <2>1, <2>2, RoutedIs
<1>6. Usable(routingDraft', m) = Usable(routingDraft, m)
  BY <1>5 DEF Usable
<1>7. m \in ListedModel
  BY <1>1, ListIs
<1>8. Scoped(m, rule)
  <2>1. r \in RoutesFor(routingDraft'.routing, m) /\ r.scope \in {"provider", "model"}
    BY <1>1, <1>4
  <2>. HIDE DEF r, m
  <2>2. Scoped(m, r)
    BY <1>7, <2>1, AppliedIsScoped
  <2>. QED  BY <1>4, <2>2 DEF Scoped
<1>9. PICK e \in Usable(routingDraft, m) : e.dep = rule.primary
  BY <1>1, <1>3, <1>8, OfferedCanServe
<1>10. e \in Routed(routingDraft', m)
  BY <1>4, <1>6, <1>9 DEF Routed
<1>11. m.deps # {}
  BY <1>9 DEF Usable
<1>. QED  BY <1>10, <1>11 DEF Serves

\* The list of models, the resolution of names and the editor's warnings are of one opinion,
\* and a rule built from the editor's menus serves the models it applies to
\* (availableModels and routeAwareDeploymentsForModel of config.go, configeditor_routing.go).
THEOREM RoutingAgrees == RoutingSpec => RoutingHolds
<1> DEFINE Agree == RoutingTypeOK /\ ResolvedServes /\ FullNameWins /\ EditorAgrees
<1>1. RoutingIndInv => Agree
  <2>. SUFFICES ASSUME RoutingIndInv  PROVE Agree
    OBVIOUS
  <2>1. RoutingTypeOK /\ Edited(routingDraft) /\ appModels \in Catalogs
    BY TypesAre DEF RoutingIndInv, PlacesOK
  <2>2. EditorAgrees
    BY <2>1, EditorIsRight DEF EditorAgrees, Edited
  <2>. QED  BY <2>1, <2>2, ServesResolved, FullNameIsUsed
<1>2. RoutingSpec => []RoutingIndInv
  BY RoutingStarts, RoutingStep, PTL DEF RoutingSpec
<1>3. RoutingSpec => []Agree
  BY <1>1, <1>2, PTL
<1>4. RoutingSpec => OfferedRuleServes
  BY <1>2, SaveServes, PTL DEF RoutingSpec, OfferedRuleServes
<1>. QED  BY <1>3, <1>4 DEF RoutingHolds
=============================================================================

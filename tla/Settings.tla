------------------------------ MODULE Settings ------------------------------
(***************************************************************************)
(* The configuration of several herm processes over one global file and    *)
(* the project file of one repository (config_storage.go), the command     *)
(* line's overrides (config_overrides.go), and the editor with its model   *)
(* picker (configeditor.go, model_menu.go).  A configuration is abstracted *)
(* to one credential, kept twice (in the deployments and in a field of     *)
(* older versions), the active model, and the order of the model menu.     *)
(* Files are truncated, then written; another process may look in between. *)
(***************************************************************************)
EXTENDS Naturals, FiniteSets

CONSTANTS
  Apps,      \* herm processes of one repository
  Keys,      \* credentials a user may type
  Override,  \* per process: what --config-overrides says, None where it is silent
  FirstFile, \* what the global file may hold when the first process starts
  MaxSaves   \* bound: times each process opens the editor

None == ""   \* no key, no model, nothing to write
Models == {None, "native", "canonical"}
AllKeys == Keys \cup {None} \cup {Override[p].dep : p \in Apps} \cup {Override[p].legacy : p \in Apps}
             \cup {f.dep : f \in FirstFile} \cup {f.legacy : f \in FirstFile}
Config == [dep : AllKeys, legacy : AllKeys, model : Models, sort : {"name", "price"}]
Default == [dep |-> None, legacy |-> None, model |-> None, sort |-> "name"]
Absent == [Default EXCEPT !.sort = "no file"]
Torn == [Default EXCEPT !.sort = "empty file"]

ASSUME SettingsAssumption ==
  /\ MaxSaves \in Nat /\ "none" \notin Keys \cup {None} /\ None \notin Keys
  /\ \A p \in Apps : Override[p].model \in Models
  /\ FirstFile \subseteq Config \cup {Absent, Torn}

VARIABLES
  globalFile, projectFile, \* contents of the two files, Absent or Torn
  globalConfig, projectConfig, config, cfgDraft, cfgProjectDraft, \* fields of App, per process
  aliased,                 \* processes whose draft shares its deployments with globalConfig
  models,                  \* processes that have the catalog
  editor,                  \* "off", "starting", "closed", "open", "menu"
  latePicker,              \* processes waiting for models before they open the menu
  writing,                 \* what a handler is in the middle of writing
  saves,
  opened,                  \* history: globalConfig when the editor was opened
  typed, lastSaver         \* history: the last key saved by a user; the last writer of globalFile

settingsVars == <<globalFile, projectFile, globalConfig, projectConfig, config, cfgDraft,
                  cfgProjectDraft, aliased, models, editor, latePicker, writing, saves, opened,
                  typed, lastSaver>>
fileVars == <<globalFile, projectFile, lastSaver>>
memVars == <<globalConfig, projectConfig, config>>
draftVars == <<cfgDraft, cfgProjectDraft, aliased, latePicker, opened, typed>>

NoProject == {"no file", "empty file"}
Nobody == "nobody"

\* deploymentConfigs: the older field counts where the deployment has none.
KeyOf(c) == IF c.dep # None THEN c.dep ELSE c.legacy

\* normalizeLoadedConfig: both places hold the same key.
Normalized(c) == [c EXCEPT !.dep = KeyOf(c), !.legacy = KeyOf(c)]

\* Model names of older versions become canonical once the catalog is known.
Canonical(m, known) == IF known /\ m = "native" THEN "canonical" ELSE m

\* deploymentAwareConfigFromLegacyConfig: the older field is not written.
Stored(c) == [Normalized(c) EXCEPT !.legacy = None]
FromFile(f) == IF f \in {Absent, Torn} THEN Default ELSE Normalized(f)
ProjectFromFile(f) == IF f \in NoProject THEN None ELSE f

Or(new, old) == IF new = None THEN old ELSE new
Merged(global, project) == [global EXCEPT !.model = Or(project, @)]

\* applyConfigOverrides
Effective(p, global, project) ==
  LET base == Merged(global, project)
      o == Override[p]
  IN IF o.dep = None /\ o.legacy = None /\ o.model = None THEN base
     ELSE Normalized([base EXCEPT !.dep = Or(o.dep, @), !.legacy = Or(o.legacy, @),
                                  !.model = Or(o.model, @)])

\* The overrides are decoded into a copy that shares a map of deployments with globalConfig.
Overwritten(p, global) ==
  [global EXCEPT !.dep = IF @ = None THEN @ ELSE Or(Override[p].dep, @)]

Rebuild(p, global, project) ==
  /\ globalConfig' = [globalConfig EXCEPT ![p] = Overwritten(p, global)]
  /\ projectConfig' = [projectConfig EXCEPT ![p] = project]
  /\ config' = [config EXCEPT ![p] = Effective(p, global, project)]

SettingsTypeOK ==
  /\ globalFile \in Config \cup {Absent, Torn} /\ projectFile \in Models \cup NoProject
  /\ globalConfig \in [Apps -> Config] /\ config \in [Apps -> Config] /\ cfgDraft \in [Apps -> Config]
  /\ projectConfig \in [Apps -> Models] /\ cfgProjectDraft \in [Apps -> Models]
  /\ aliased \subseteq Apps /\ models \subseteq Apps /\ latePicker \subseteq Apps
  /\ editor \in [Apps -> {"off", "starting", "closed", "open", "menu"}]
  /\ writing \in [Apps -> {None, "first", "sort", "global", "project"}]
  /\ saves \in [Apps -> 0..MaxSaves] /\ opened \in [Apps -> Config]
  /\ typed \in [Apps -> [now : Keys \cup {None, "none"}, saved : Keys \cup {None, "none"}]]
  /\ lastSaver \in Apps \cup {Nobody}

SettingsInit ==
  /\ globalFile \in FirstFile /\ projectFile \in {"no file", "native"}
  /\ globalConfig = [p \in Apps |-> Default] /\ projectConfig = [p \in Apps |-> None]
  /\ config = globalConfig /\ cfgDraft = globalConfig /\ cfgProjectDraft = projectConfig
  /\ aliased = {} /\ models = {} /\ latePicker = {}
  /\ editor = [p \in Apps |-> "off"] /\ writing = [p \in Apps |-> None]
  /\ saves = [p \in Apps |-> 0] /\ opened = globalConfig
  /\ typed = [p \in Apps |-> [now |-> "none", saved |-> "none"]] /\ lastSaver = Nobody

Edits(p, where) == editor' = [editor EXCEPT ![p] = where]
Idle(p) == writing[p] = None

\* Drafts are not read again once the editor is closed: they are kept as blanks.
DraftsOver(p) ==
  /\ cfgDraft' = [cfgDraft EXCEPT ![p] = Default]
  /\ cfgProjectDraft' = [cfgProjectDraft EXCEPT ![p] = None]
  /\ aliased' = aliased \ {p} /\ opened' = [opened EXCEPT ![p] = Default]
Opens(p, what) == writing' = [writing EXCEPT ![p] = what]

-----------------------------------------------------------------------------
(* Start: the file, or defaults that are written when there is none.        *)

Start(p) ==
  /\ editor[p] = "off"
  /\ Edits(p, "starting")
  /\ Rebuild(p, FromFile(globalFile), None)
  /\ IF globalFile = Absent
       THEN Opens(p, "first") /\ globalFile' = Torn
       ELSE UNCHANGED <<writing, globalFile>>
  /\ UNCHANGED <<projectFile, lastSaver, draftVars, models, saves>>

\* workspaceMsg: names in the project file are brought up to date if the catalog is there.
WorkspaceArrives(p) ==
  /\ editor[p] = "starting" /\ Idle(p)
  /\ Edits(p, "closed")
  /\ Rebuild(p, globalConfig[p], Canonical(ProjectFromFile(projectFile), p \in models))
  /\ UNCHANGED <<fileVars, draftVars, models, writing, saves>>

\* Not the code: the project's model is renamed and config is left as it was.
CatalogOnlyRenames(p) ==
  /\ editor[p] \notin {"off", "starting"} /\ p \notin models /\ Idle(p)
  /\ models' = models \cup {p}
  /\ projectConfig' = [projectConfig EXCEPT ![p] = Canonical(@, TRUE)]
  /\ UNCHANGED <<fileVars, globalConfig, config, draftVars, editor, writing, saves>>

\* normalizeProjectConfigWithCurrentModels, once the catalog and the workspace are there.
CatalogArrives(p) ==
  /\ editor[p] # "off" /\ p \notin models /\ Idle(p)
  /\ models' = models \cup {p}
  /\ IF editor[p] = "starting"
       THEN UNCHANGED memVars
       ELSE Rebuild(p, globalConfig[p], Canonical(projectConfig[p], TRUE))
  /\ UNCHANGED <<fileVars, draftVars, editor, writing, saves>>

-----------------------------------------------------------------------------
(* The editor works on drafts.                                              *)

\* Models are dropped from drafts that have no credential.
Dropped(c, m) == IF KeyOf(c) = None THEN None ELSE m

\* Not the code: the deployments of the draft are those of globalConfig.
EnterConfigModeShared(p) ==
  /\ editor[p] = "closed" /\ Idle(p) /\ saves[p] < MaxSaves
  /\ Edits(p, "open") /\ saves' = [saves EXCEPT ![p] = @ + 1]
  /\ cfgDraft' = [cfgDraft EXCEPT ![p] =
       [globalConfig[p] EXCEPT !.model = Dropped(globalConfig[p], @)]]
  /\ cfgProjectDraft' = [cfgProjectDraft EXCEPT ![p] = Dropped(globalConfig[p], projectConfig[p])]
  /\ aliased' = IF globalConfig[p].dep = None THEN aliased ELSE aliased \cup {p}
  /\ opened' = [opened EXCEPT ![p] = globalConfig[p]]
  /\ typed' = [typed EXCEPT ![p].now = "none"]
  /\ UNCHANGED <<fileVars, memVars, models, latePicker, writing>>

EnterConfigMode(p) ==
  /\ editor[p] = "closed" /\ Idle(p) /\ saves[p] < MaxSaves
  /\ Edits(p, "open") /\ saves' = [saves EXCEPT ![p] = @ + 1]
  /\ cfgDraft' = [cfgDraft EXCEPT ![p] =
       [globalConfig[p] EXCEPT !.model = Dropped(globalConfig[p], @)]]
  /\ cfgProjectDraft' = [cfgProjectDraft EXCEPT ![p] = Dropped(globalConfig[p], projectConfig[p])]
  /\ aliased' = aliased \ {p}
  /\ opened' = [opened EXCEPT ![p] = globalConfig[p]]
  /\ typed' = [typed EXCEPT ![p].now = "none"]
  /\ UNCHANGED <<fileVars, memVars, models, latePicker, writing>>

\* Not the code: the older field keeps its key.
SetDeploymentOnly(c, k) == [c EXCEPT !.dep = k]

\* setConfigDeploymentField
SetKey(c, k) == [c EXCEPT !.dep = k, !.legacy = k]

EditKey(p) ==
  /\ editor[p] = "open"
  /\ \E k \in Keys \cup {None} :
       /\ k # KeyOf(cfgDraft[p])
       /\ cfgDraft' = [cfgDraft EXCEPT ![p] = SetKey(@, k)]
       /\ typed' = [typed EXCEPT ![p].now = k]
       /\ globalConfig' = IF p \in aliased THEN [globalConfig EXCEPT ![p].dep = k]
                                           ELSE globalConfig
  /\ UNCHANGED <<fileVars, projectConfig, config, cfgProjectDraft, aliased, latePicker, opened,
                 models, editor, writing, saves>>

\* A draft credential that is not the one in use has its models fetched first.
OpenPicker(p) ==
  /\ editor[p] = "open" /\ p \in models
  /\ \/ /\ KeyOf(cfgDraft[p]) \in {None, KeyOf(config[p])}
        /\ KeyOf(cfgDraft[p]) # None
        /\ Edits(p, "menu") /\ UNCHANGED latePicker
     \/ /\ KeyOf(cfgDraft[p]) \notin {None, KeyOf(config[p])}
        /\ latePicker' = latePicker \cup {p} /\ UNCHANGED editor
  /\ UNCHANGED <<fileVars, memVars, cfgDraft, cfgProjectDraft, aliased, opened, typed, models,
                 writing, saves>>

\* openPickerMsg: nothing is opened when the editor has been closed meanwhile.
LatePickerOpens(p) ==
  /\ p \in latePicker /\ Idle(p) /\ editor[p] # "menu"
  /\ latePicker' = latePicker \ {p}
  /\ IF editor[p] = "open" /\ KeyOf(cfgDraft[p]) # None THEN Edits(p, "menu")
                                                         ELSE UNCHANGED editor
  /\ UNCHANGED <<fileVars, memVars, cfgDraft, cfgProjectDraft, aliased, opened, typed, models,
                 writing, saves>>

\* The menu writes a model into the draft of the tab it was opened from, or nothing.
ChooseModel(p) ==
  /\ editor[p] = "menu" /\ Idle(p)
  /\ Edits(p, "open")
  /\ \/ cfgDraft' = [cfgDraft EXCEPT ![p].model = "canonical"] /\ UNCHANGED cfgProjectDraft
     \/ cfgProjectDraft' = [cfgProjectDraft EXCEPT ![p] = "canonical"] /\ UNCHANGED cfgDraft
     \/ UNCHANGED <<cfgDraft, cfgProjectDraft>>
  /\ UNCHANGED <<fileVars, memVars, aliased, latePicker, opened, typed, models, writing, saves>>

\* refreshModelMenu: another order is put into globalConfig and saved at once.
SortMenu(p) ==
  /\ editor[p] = "menu" /\ Idle(p)
  /\ LET g == [globalConfig[p] EXCEPT !.sort = IF @ = "name" THEN "price" ELSE "name"]
     IN Rebuild(p, g, projectConfig[p])
  /\ Opens(p, "sort") /\ globalFile' = Torn
  /\ UNCHANGED <<projectFile, lastSaver, draftVars, models, editor, saves>>

CancelConfig(p) ==
  /\ editor[p] = "open" /\ Idle(p)
  /\ Edits(p, "closed") /\ DraftsOver(p)
  /\ typed' = [typed EXCEPT ![p].now = "none"]
  /\ UNCHANGED <<fileVars, memVars, latePicker, models, writing, saves>>

\* exitConfigMode(true): drafts become the configuration, then both files are written.
SaveConfigMode(p) ==
  /\ editor[p] = "open" /\ Idle(p)
  /\ LET d == [cfgDraft[p] EXCEPT !.model = Dropped(cfgDraft[p], Canonical(@, p \in models))]
         q == Dropped(d, Canonical(cfgProjectDraft[p], p \in models))
     IN Rebuild(p, d, q)
  /\ DraftsOver(p)
  /\ typed' = [typed EXCEPT ![p] = [now |-> "none",
       saved |-> IF @.now = "none" THEN @.saved ELSE @.now]]
  /\ Opens(p, "global") /\ globalFile' = Torn
  /\ Edits(p, "closed")
  /\ UNCHANGED <<projectFile, lastSaver, latePicker, models, saves>>

\* os.WriteFile ends; after a save of the editor the project file is next.
WriteEnds(p) ==
  /\ writing[p] # None
  /\ IF writing[p] = "project"
       THEN projectFile' = projectConfig[p] /\ Opens(p, None) /\ UNCHANGED <<globalFile, lastSaver>>
       ELSE /\ globalFile' = Stored(IF writing[p] = "first" THEN Default ELSE globalConfig[p])
            /\ lastSaver' = p
            /\ IF writing[p] = "global" THEN Opens(p, "project") /\ projectFile' = "empty file"
                                        ELSE Opens(p, None) /\ UNCHANGED projectFile
  /\ UNCHANGED <<memVars, draftVars, models, editor, saves>>

\* The process quits, or dies in the middle of a write.
Exits(p) ==
  /\ editor[p] # "off"
  /\ Edits(p, "off") /\ Opens(p, None) /\ latePicker' = latePicker \ {p}
  /\ globalConfig' = [globalConfig EXCEPT ![p] = Default]
  /\ projectConfig' = [projectConfig EXCEPT ![p] = None] /\ config' = [config EXCEPT ![p] = Default]
  /\ DraftsOver(p) /\ models' = models \ {p}
  /\ typed' = [typed EXCEPT ![p] = [now |-> "none", saved |-> "none"]]
  /\ UNCHANGED <<fileVars, saves>>

SettingsNext ==
  \E p \in Apps :
    \/ Start(p) \/ WorkspaceArrives(p) \/ CatalogArrives(p)
    \/ EnterConfigMode(p) \/ EditKey(p) \/ OpenPicker(p) \/ LatePickerOpens(p) \/ ChooseModel(p)
    \/ SortMenu(p) \/ CancelConfig(p) \/ SaveConfigMode(p) \/ WriteEnds(p) \/ Exits(p)

SettingsSpec == SettingsInit /\ [][SettingsNext]_settingsVars

-----------------------------------------------------------------------------
(* Properties *)

\* The configuration in use is always what the two saved ones and the overrides give: no
\* handler that changes one of them forgets to put them together again.
EffectiveIsCurrent ==
  \A p \in Apps : editor[p] # "off" =>
    config[p] = Effective(p, globalConfig[p], projectConfig[p])

\* "draft edits never mutate the live config before save": what is typed in the editor is
\* not in the configuration in use while the editor is open, nor after it was left.
DraftStaysDraft ==
  \A p \in Apps : editor[p] \in {"open", "menu"} =>
    globalConfig[p] = [opened[p] EXCEPT !.sort = globalConfig[p].sort]

\* A credential saved in the editor, or removed there, is in use and is what the file holds
\* until another process writes the file; a removed one does not come back.  Where the
\* overrides name a credential of a deployment, that one takes its place.
SavedKeyHolds ==
  \A p \in Apps : Override[p].dep = None =>
    /\ editor[p] # "off" /\ typed[p].saved # "none" => KeyOf(globalConfig[p]) = typed[p].saved
    /\ /\ editor[p] # "off" /\ typed[p].saved # "none" /\ writing[p] = None
       /\ lastSaver = p /\ globalFile # Torn
       => globalFile.dep = typed[p].saved

\* The three copies of the configuration agree wherever the user can see them.
SettingsInv == SettingsTypeOK /\ EffectiveIsCurrent /\ DraftStaysDraft /\ SavedKeyHolds

-----------------------------------------------------------------------------
(* Statements the code does not keep *)

\* "Overlay config fields for this run only": an override is not written to the file.
OverridesStayInRun ==
  globalFile \notin {Absent, Torn} =>
    \A p \in Apps : Override[p].dep # None => globalFile.dep # Override[p].dep
=============================================================================

------------------------------ MODULE Routing ------------------------------
(***************************************************************************)
(* Which model a configuration resolves to, over which deployments         *)
(* (config.go, deployment_config.go), what the editor says of the routing  *)
(* rules, and the chain of menus that adds, replaces and deletes rules     *)
(* (configeditor_routing.go) while the list of models may be replaced by a *)
(* fetch that comes back.  A deployment is configured when its required    *)
(* fields are there, in the file, in an older field or in the environment. *)
(* The models of Apple's local runtime are left out.                       *)
(***************************************************************************)
EXTENDS Naturals, Sequences, FiniteSets, SequencesExt

CONSTANTS
  Deployments,   \* known deployments
  ProviderOf,    \* hermProviderForDeployment
  ProviderOrder, \* the providers, the preferred ones first
  DefaultModel,  \* per provider, the model used when none is configured
  Alias,         \* canonicalProviderID of the names a rule may have in the file
  Offerings,     \* [canonical, native]: names of the embedded catalog
  CanonicalNames, \* names of the form owner/model
  Catalogs,      \* lists of models the fetches may leave
  FirstConfigs,  \* configurations in the file
  Deciders,      \* deployments whose credential the user may add or remove
  MaxEdits       \* bound: changes of the draft

\* What a list of models, a rule and a configuration may hold: a rule may give a share to a
\* deployment that is not known, and weights of zero.
ListedModel == [id : CanonicalNames, provider : STRING, owner : DOMAIN Alias,
                natives : SUBSET STRING, deps : SUBSET [dep : STRING, mapping : BOOLEAN]]
StoredRule == [scope : {"provider", "model", "default"}, key : STRING,
               stages : Seq(SUBSET [dep : STRING, weight : Nat])]
StoredConfig == [configured : SUBSET Deployments, mapped : SUBSET (STRING \X STRING),
                 active : STRING, exploration : STRING, routing : SUBSET StoredRule]

\* A scope has one rule of a key: they are read from an object of the file.
OneRulePerKey(policy) == \A r, q \in policy : r.scope = q.scope /\ r.key = q.key => r = q

ASSUME RoutingAssumption ==
  /\ MaxEdits \in Nat /\ ProviderOf \in [Deployments -> ToSet(ProviderOrder)]
  /\ Deciders \subseteq Deployments /\ "" \notin CanonicalNames
  /\ Deployments \cup CanonicalNames \cup DOMAIN Alias \cup {""} \subseteq STRING
  /\ FirstConfigs \subseteq StoredConfig /\ \A f \in FirstConfigs : OneRulePerKey(f.routing)

\* A list has a model once: they come from a catalog and are merged by their names.
ASSUME ListsAssumption ==
  /\ Catalogs \subseteq Seq(ListedModel)
  /\ \A known \in Catalogs : \A i, j \in DOMAIN known : known[i].id = known[j].id => i = j

\* A provider has its own name and at most one other (gemini of google, grok of xai).
ASSUME AliasAssumption ==
  /\ \A k \in DOMAIN Alias : Alias[k] \in DOMAIN Alias /\ Alias[Alias[k]] = Alias[k]
  /\ \A k, l \in DOMAIN Alias : Alias[k] = Alias[l] /\ k # Alias[k] /\ l # Alias[l] => k = l

\* In the embedded catalog, outside src, the full name of a model is no other's native name.
ASSUME OfferingsAssumption ==
  \A o \in Offerings : o.native \in CanonicalNames => o.native = o.canonical

VARIABLES
  appConfig,    \* the configuration in use
  routingDraft,  \* the editor's copy
  editing,   \* cfgActive
  appModels,    \* App.models
  menu,      \* the routing menu on display
  rule,      \* routingAddRuleDraft
  offered,   \* the lines of the menu, collected when it was opened
  seenModels, \* history: the models the deployments on offer were collected from
  edits

routingVars == <<appConfig, routingDraft, editing, appModels, menu, rule, offered, seenModels, edits>>
editorVars == <<menu, rule, offered, seenModels>>

NoRule == [scope |-> "none", key |-> "", primary |-> "", fallback |-> ""]

-----------------------------------------------------------------------------
(* Deployments that can serve a model                                       *)

\* availableModels before routing: a deployment may need a name for the model.
Usable(c, m) == {d \in m.deps : d.dep \in c.configured /\ (d.mapping => <<d.dep, m.id>> \in c.mapped)}

\* canonicalProviderID
ProviderID(name) == Alias[name]

\* The place of the first set in a list that is not empty, and that set.
FirstPlace(sets) ==
  LET there == {i \in DOMAIN sets : sets[i] # {}}
  IN IF there = {} THEN 0 ELSE Min(there)
FirstOf(sets) == UNION {sets[i] : i \in {FirstPlace(sets)} \ {0}}

\* routeFor: the model's rule, its provider's under either name, the default.
RoutesFor(policy, m) ==
  LET of(scope, keys) == {r \in policy : r.scope = scope /\ r.key \in keys}
      aliases == {k \in DOMAIN Alias : ProviderID(k) = ProviderID(m.owner)}
  IN FirstOf(<<of("model", {m.id}), of("provider", {ProviderID(m.owner)}), of("provider", aliases),
               of("default", {""})>>)

Weighted(stage) == {c.dep : c \in {w \in stage : w.weight > 0}}
Reached(r) == UNION {Weighted(r.stages[i]) : i \in DOMAIN r.stages}

\* routeAwareDeploymentsForModel: a rule is authoritative, stages are tried in order.
Routed(c, m) ==
  LET rules == RoutesFor(c.routing, m)
  IN {d \in Usable(c, m) : rules = {} \/ \E r \in rules : d.dep \in Reached(r)}

\* Models of older catalogs have no deployments and follow their provider's credential.
Providers(c) == {ProviderOf[d] : d \in c.configured}
Serves(c, m) == IF m.deps = {} THEN m.provider \in Providers(c) \/ m.owner \in Providers(c)
                               ELSE Routed(c, m) # {}
\* availableModels: the places of the list that can be served, in the list's order.
AvailableModels(c, known) ==
  [i \in {j \in DOMAIN known : Serves(c, known[j])} |-> [known[i] EXCEPT !.deps = Routed(c, known[i])]]
Unrouted(c) == [c EXCEPT !.routing = {}]

-----------------------------------------------------------------------------
(* Names of models                                                          *)

\* The models that a deployment of the embedded catalog knows by this name.
NamedNatively(name) == {o.canonical : o \in {f \in Offerings : f.native = name}}

\* migrateStoredModelIDToCanonical: a name of one model only.
Migrated(name) ==
  LET owners == NamedNatively(name)
  IN IF name \notin CanonicalNames /\ Cardinality(owners) = 1 THEN owners ELSE {}
Candidates(name) ==
  {name} \cup Migrated(name) \cup {o.native : o \in {f \in Offerings : f.canonical = name}}

Exact(known, names) == {m.id : m \in {k \in ToSet(known) : k.id \in names}}
Loose(known, names) ==
  {m.id : m \in {k \in ToSet(known) : k.id \in names \/ k.natives \cap names # {}}}

\* trustUncataloguedNativeModel: these take names nobody has listed.
Trusting(c) == c.configured \cap {"openrouter", "ollama-local"} # {}

Found(status, id) == [status |-> status, id |-> id]

\* Not the code: the exact name is not preferred to a native one.
LookupLoosely(c, name, known) ==
  LET names == Candidates(name)
      here == Loose(AvailableModels(c, known), names)
  IN CASE Cardinality(here) = 1 -> Found("usable", CHOOSE id \in here : TRUE)
       [] Cardinality(here) > 1 -> Found("ambiguous", "")
       [] Trusting(c) /\ Loose(known, names) = {} -> Found("usable", name)
       [] OTHER -> Found("unavailable", "")

\* lookupConfiguredModelID: among the available, then among all; by name, then natively.
Looks(here, known, names) ==
  <<Exact(here, names), Exact(known, names), Loose(here, names), Loose(known, names)>>
Judged(hits, among, trusted, name) ==
  CASE hits = {} -> IF trusted THEN Found("usable", name) ELSE Found("unknown", "")
    [] Cardinality(hits) > 1 -> Found("ambiguous", "")
    [] Cardinality(hits) = 1 -> IF among \in {1, 3} THEN Found("usable", CHOOSE id \in hits : TRUE)
                                                   ELSE Found("unavailable", "")
JudgedLooks(looks, trusted, name) == Judged(FirstOf(looks), FirstPlace(looks), trusted, name)
Lookup(c, name, known) ==
  JudgedLooks(Looks(AvailableModels(c, known), known, Candidates(name)), Trusting(c), name)

\* defaultLangdagProvider, preferredDefault, defaultActiveModel
DefaultProvider(c) ==
  LET there == {i \in DOMAIN ProviderOrder : ProviderOrder[i] \in Providers(c)}
  IN IF there = {} THEN "" ELSE ProviderOrder[CHOOSE i \in there : \A j \in there : i <= j]
\* Not the code: the provider's default model is taken whether it is on the list or not.
DefaultUnlisted(c, here) ==
  LET p == DefaultProvider(c)
  IN IF DOMAIN here = {} THEN ""
     ELSE IF p \in DOMAIN DefaultModel THEN DefaultModel[p] ELSE here[Min(DOMAIN here)].id
\* defaultActiveModels; a provider may have none.
DefaultNames(p) == IF p \in DOMAIN DefaultModel THEN Candidates(DefaultModel[p]) ELSE {}
NamedFirst(here, names) ==
  LET place == FirstPlace([i \in DOMAIN here |-> ({here[i].id} \cup here[i].natives) \cap names])
  IN IF DOMAIN here = {} THEN "" ELSE here[IF place = 0 THEN Min(DOMAIN here) ELSE place].id
DefaultActive(c, here) == NamedFirst(here, DefaultNames(DefaultProvider(c)))

\* resolveActiveModel; the exploration model falls back to it.
Resolved(name, found, default) ==
  IF name # "" /\ found.status = "usable" THEN found.id ELSE default
ResolveActive(c, known) ==
  Resolved(c.active, Lookup(c, c.active, known), DefaultActive(c, AvailableModels(c, known)))
ResolveExploration(c, known) ==
  Resolved(c.exploration, Lookup(c, c.exploration, known), ResolveActive(c, known))

-----------------------------------------------------------------------------
(* What the editor says: routingDiagnosticsForConfigModels                  *)

\* Not the code: names are asked of no deployment.
EligibleUnmapped(c, known, id) ==
  {d.dep : d \in {e \in UNION {m.deps : m \in {k \in ToSet(known) : k.id = id}} :
                    e.dep \in c.configured}}
Eligible(c, known, id) ==
  {d.dep : d \in {e \in UNION {m.deps : m \in {k \in ToSet(known) : k.id = id}} :
                    e.dep \in c.configured /\ (e.mapping => <<e.dep, id>> \in c.mapped)}}
NoEligible(c, known, id, stage) ==
  \A w \in stage : w.weight = 0 \/ w.dep \notin Deployments \cap Eligible(c, known, id)
EditorWarns(c, known, m) ==
  \E r \in RoutesFor(c.routing, m) :
    r.stages = <<>> \/ \A i \in DOMAIN r.stages : NoEligible(c, known, m.id, r.stages[i])

-----------------------------------------------------------------------------
(* What the menus offer                                                     *)

Scoped(m, r) == IF r.scope = "provider" THEN ProviderID(m.owner) = ProviderID(r.key) ELSE m.id = r.key

\* Not the code: deployments of any model of the provider.
OfferAny(c, known, r) ==
  {d.dep : d \in UNION {m.deps : m \in {k \in ToSet(AvailableModels(Unrouted(c), known)) : Scoped(k, r)}}}

\* routingEligibleDeploymentCandidates: a provider's rule is offered what serves all its models.
Offer(c, known, r) ==
  LET scoped == {m \in ToSet(AvailableModels(Unrouted(c), known)) : Scoped(m, r)}
  IN {d \in Deployments : scoped # {} /\ \A m \in scoped : \E e \in m.deps : e.dep = d}

KeysOffered(c, known, scope) ==
  LET here == ToSet(AvailableModels(Unrouted(c), known))
      ruled == {r.key : r \in {q \in c.routing : q.scope = scope}}
      owners == {ProviderID(m.owner) : m \in here} \ ruled
  IN IF scope = "model" THEN {m.id : m \in here} \ ruled
     ELSE {p \in owners : Offer(c, known, [NoRule EXCEPT !.scope = scope, !.key = p]) # {}}

\* routingControlsVisible
ControlsVisible ==
  \/ routingDraft.routing # {}
  \/ Cardinality(UNION {{d.dep : d \in Usable(routingDraft, m)} : m \in ToSet(appModels)}) >= 2

-----------------------------------------------------------------------------
RoutingTypeOK ==
  /\ \A c \in {appConfig, routingDraft} :
       /\ c \in StoredConfig /\ OneRulePerKey(c.routing)
       /\ \E f \in FirstConfigs : c = [f EXCEPT !.configured = c.configured, !.routing = c.routing]
  /\ editing \in BOOLEAN /\ appModels \in Catalogs /\ seenModels \in Catalogs
  /\ menu \in {"none", "keys", "primary", "fallback", "review"}
  /\ rule \in [scope : {"none", "provider", "model"}, key : STRING, primary : STRING, fallback : STRING]
  /\ edits \in 0..MaxEdits
  /\ offered \subseteq Deployments \cup CanonicalNames \cup DOMAIN Alias

RoutingInit ==
  /\ appConfig \in FirstConfigs /\ routingDraft = appConfig /\ editing = FALSE
  /\ appModels \in Catalogs /\ menu = "none" /\ rule = NoRule /\ offered = {}
  /\ seenModels = appModels /\ edits = 0

MenuClosed == menu' = "none" /\ rule' = NoRule /\ offered' = {} /\ seenModels' = appModels
ShowsMenu(which, r, lines) ==
  /\ menu' = which /\ rule' = r /\ offered' = lines
  /\ seenModels' = IF appModels = seenModels \/ menu \in {"none", "keys"} THEN appModels ELSE seenModels

\* A fetch comes back, whatever menu is open.
ModelsArrive ==
  /\ \E known \in Catalogs \ {appModels} : appModels' = known
  /\ UNCHANGED <<appConfig, routingDraft, editing, editorVars, edits>>

EnterEditor ==
  /\ ~editing /\ editing' = TRUE /\ routingDraft' = appConfig
  /\ UNCHANGED <<appConfig, appModels, editorVars, edits>>

LeaveEditor ==
  /\ editing /\ menu = "none" /\ editing' = FALSE
  /\ \/ appConfig' = routingDraft /\ UNCHANGED routingDraft
     \/ routingDraft' = appConfig /\ UNCHANGED appConfig
  /\ UNCHANGED <<appModels, editorVars, edits>>

EditCredential ==
  /\ editing /\ menu = "none" /\ edits < MaxEdits /\ edits' = edits + 1
  /\ \E d \in Deciders :
       routingDraft' = [routingDraft EXCEPT !.configured = IF d \in @ THEN @ \ {d} ELSE @ \cup {d}]
  /\ UNCHANGED <<appConfig, editing, appModels, editorVars>>

OpenRuleMenu(scope) ==
  /\ editing /\ menu = "none" /\ ControlsVisible /\ edits < MaxEdits
  /\ KeysOffered(routingDraft, appModels, scope) # {}
  /\ ShowsMenu("keys", [NoRule EXCEPT !.scope = scope], KeysOffered(routingDraft, appModels, scope))
  /\ UNCHANGED <<appConfig, routingDraft, editing, appModels, edits>>

\* openRoutingPrimaryDeploymentMenu: nothing is opened when there is nothing to offer.
OpenPrimary(r) ==
  IF Offer(routingDraft, appModels, r) = {} THEN MenuClosed
                                     ELSE ShowsMenu("primary", r, Offer(routingDraft, appModels, r))

ChooseKey ==
  /\ menu = "keys"
  /\ \E k \in offered : OpenPrimary([rule EXCEPT !.key = k])
  /\ UNCHANGED <<appConfig, routingDraft, editing, appModels, edits>>

ReplaceRule ==
  /\ editing /\ menu = "none" /\ edits < MaxEdits
  /\ \E r \in routingDraft.routing :
       r.scope # "default" /\ OpenPrimary([NoRule EXCEPT !.scope = r.scope, !.key = r.key])
  /\ UNCHANGED <<appConfig, routingDraft, editing, appModels, edits>>

ChoosePrimary ==
  /\ menu = "primary"
  /\ \E d \in offered :
       ShowsMenu("fallback", [rule EXCEPT !.primary = d], Offer(routingDraft, appModels, rule) \ {d})
  /\ UNCHANGED <<appConfig, routingDraft, editing, appModels, edits>>

ChooseFallback ==
  /\ menu = "fallback"
  /\ \E d \in offered \cup {""} : ShowsMenu("review", [rule EXCEPT !.fallback = d], {})
  /\ UNCHANGED <<appConfig, routingDraft, editing, appModels, edits>>

Stage(d) == {[dep |-> d, weight |-> 100]}
RuleOf(r) ==
  [scope |-> r.scope, key |-> r.key,
   stages |-> IF r.fallback = "" THEN <<Stage(r.primary)>>
                                 ELSE <<Stage(r.primary), Stage(r.fallback)>>]
Without(policy, r) == {q \in policy : q.scope # r.scope \/ q.key # r.key}

\* Not the code: the rule that is replaced stays.
SaveRuleAdds ==
  /\ menu = "review" /\ MenuClosed
  /\ edits' = edits + 1
  /\ routingDraft' = [routingDraft EXCEPT !.routing = @ \cup {RuleOf(rule)}]
  /\ UNCHANGED <<appConfig, editing, appModels>>

SaveRule ==
  /\ menu = "review" /\ MenuClosed
  /\ edits' = edits + 1
  /\ routingDraft' = [routingDraft EXCEPT !.routing = Without(@, rule) \cup {RuleOf(rule)}]
  /\ UNCHANGED <<appConfig, editing, appModels>>

DeleteRule ==
  /\ editing /\ menu = "none" /\ edits < MaxEdits /\ edits' = edits + 1
  /\ \E r \in routingDraft.routing :
       r.scope # "default" /\ routingDraft' = [routingDraft EXCEPT !.routing = Without(@, r)]
  /\ UNCHANGED <<appConfig, editing, appModels, editorVars>>

LeaveMenu ==
  /\ menu # "none" /\ MenuClosed
  /\ UNCHANGED <<appConfig, routingDraft, editing, appModels, edits>>

RoutingNext ==
  \/ ModelsArrive \/ EnterEditor \/ LeaveEditor \/ EditCredential
  \/ OpenRuleMenu("provider") \/ OpenRuleMenu("model") \/ ChooseKey \/ ReplaceRule
  \/ ChoosePrimary \/ ChooseFallback \/ SaveRule \/ DeleteRule \/ LeaveMenu

RoutingSpec == RoutingInit /\ [][RoutingNext]_routingVars

-----------------------------------------------------------------------------
(* Properties *)

\* A model that is resolved, for the conversation and for exploring, can be served: it is on
\* the list of available models, or a deployment that takes any name is configured.  None is
\* resolved only when nothing is available.
ResolvedServes ==
  LET here == AvailableModels(appConfig, appModels)
  IN \A id \in {ResolveActive(appConfig, appModels), ResolveExploration(appConfig, appModels)} :
       IF id = "" THEN DOMAIN here = {}
       ELSE \/ \E i \in DOMAIN here : here[i].id = id
            \/ Trusting(appConfig) /\ Loose(appModels, {id}) = {}

\* A model that is configured by its full name is the one that is used as long as it can be
\* served, whatever native names the models of other owners have.
FullNameWins ==
  LET here == AvailableModels(appConfig, appModels)
  IN (\E i \in DOMAIN here : here[i].id = appConfig.active) => ResolveActive(appConfig, appModels) = appConfig.active

\* The editor warns of a rule exactly when the rule takes a model that could be served out
\* of the list: two pieces of code, one in the editor and one at run time, agree.
EditorAgrees ==
  \A i \in DOMAIN appModels : Usable(routingDraft, appModels[i]) # {} =>
    (EditorWarns(routingDraft, appModels, appModels[i]) <=> ~Serves(routingDraft, appModels[i]))

\* A rule built from what the menus offer takes no model out of the list, unless the models
\* changed while the menus were open.
SavedRuleServes ==
  menu = "review" /\ routingDraft' # routingDraft /\ seenModels = appModels =>
    \A i \in DOMAIN appModels :
      /\ Usable(routingDraft, appModels[i]) # {}
      /\ RoutesFor(routingDraft'.routing, appModels[i]) = {RuleOf(rule)}
      => Serves(routingDraft', appModels[i])
OfferedRuleServes == [][SavedRuleServes]_routingVars

\* The list of models, the resolution and the editor's warnings are of one opinion, and
\* a rule built from the editor's menus serves what it was built for (deployment_config.go,
\* configeditor_routing.go).
RoutingHolds ==
  /\ [](RoutingTypeOK /\ ResolvedServes /\ FullNameWins /\ EditorAgrees)
  /\ OfferedRuleServes
=============================================================================

-------------------------- MODULE MCConfiguration --------------------------
(* The configuration of two processes, the list of models and the routing  *)
(* of requests: a behaviour is about one of them, focus.                   *)
EXTENDS Settings, ModelCatalog, Routing

(* Settings: the second process overrides the key and names its model in    *)
(* full; the file is missing, or has a key of the old form.                 *)

Says(dep, legacy, model) == [dep |-> dep, legacy |-> legacy, model |-> model]

MCOverride == [p \in Apps |-> IF p = "p2" THEN Says("", "k0", "canonical") ELSE Says("", "", "")]
MCLeakOverride == [p \in Apps |-> Says("k0", "", "")]

MCFirstFile == {Absent, [Default EXCEPT !.legacy = "k1", !.model = "native"]}
MCOldKeyFile == {[Default EXCEPT !.legacy = "k1"]}

(* ModelCatalog: a catalog that grows, and one model that OpenRouter serves *)
(* beside its own; Ollama and a direct key are added by the second save.    *)

MCCatalogIds == {{"c1"}, {"c1", "c2"}}
MCAnswersOf == [ollama |-> {{"o1"}}, openrouter |-> {{"r1", "c1"}}, apple |-> {{"a1"}}]
MCSetups == <<[ollama |-> FALSE, openrouter |-> TRUE, direct |-> FALSE],
              [ollama |-> TRUE, openrouter |-> TRUE, direct |-> TRUE]>>

(* Routing: two models of one owner, a third of another owner that has the  *)
(* native names of the first two, and rules as a file may hold them: with a *)
(* weight of zero, a deployment that is not there, an alias, no stage.  No   *)
(* model is known before the first fetch.                                   *)

Serving(d, mapping) == [dep |-> d, mapping |-> mapping]
ModelOf(owner, id, natives, deps) ==
  [id |-> id, provider |-> owner, owner |-> owner, natives |-> natives, deps |-> deps]

MCProviderOf ==
  [d \in Deployments |-> IF d = "openrouter" THEN "openrouter" ELSE "anthropic"]
MCOrder == <<"anthropic", "openrouter", "gemini">>
MCDefaultModel == [p \in {"anthropic"} |-> "anthropic/m"]
MCAlias == [p \in {"anthropic", "google", "gemini", "openrouter"} |->
              IF p = "gemini" THEN "google" ELSE p]
MCOfferings == {[canonical |-> "anthropic/m", native |-> "m"],
                [canonical |-> "anthropic/n", native |-> "n"]}
MCNames == {"anthropic/m", "anthropic/n", "google/g"}
MCOwnModels ==
  <<ModelOf("anthropic", "anthropic/m", {"m"}, {Serving("direct", FALSE), Serving("bedrock", TRUE)}),
    ModelOf("anthropic", "anthropic/n", {"n"}, {Serving("direct", FALSE), Serving("openrouter", FALSE)})>>
MCForeignModel == ModelOf("google", "google/g", {"anthropic/n", "m"}, {Serving("openrouter", FALSE)})
MCCatalogs == {<<>>, MCOwnModels, Append(MCOwnModels, MCForeignModel)}

FileRule(scope, key, stages) == [scope |-> scope, key |-> key, stages |-> stages]
Share(d, weight) == {[dep |-> d, weight |-> weight]}
File(deps, active, exploration, rules) ==
  [configured |-> deps, mapped |-> {<<"bedrock", "anthropic/m">>},
   active |-> active, exploration |-> exploration, routing |-> rules]
MCNoRules == File({"direct"}, "anthropic/n", "m", {})
MCFirstConfigs ==
  {MCNoRules,
   File({"direct", "bedrock"}, "", "n",
        {FileRule("default", "", <<Share("direct", 0), Share("bedrock", 50)>>)}),
   File({"openrouter"}, "m", "zz",
        {FileRule("provider", "gemini", <<Share("lost", 100), Share("openrouter", 1)>>)}),
   [File({"direct", "bedrock"}, "zz", "",
         {FileRule("provider", "anthropic", <<Share("bedrock", 100)>>),
          FileRule("model", "anthropic/n", <<>>)}) EXCEPT !.mapped = {}]}

-----------------------------------------------------------------------------
VARIABLE focus

mcVars == <<settingsVars, catalogVars, routingVars, focus>>

MCInit ==
  /\ SettingsInit /\ CatalogInit /\ RoutingInit
  /\ focus \in {"settings", "catalog", "routing"}
  \* Of several first states one is enough for what stands still.
  /\ focus # "settings" => globalFile = Absent /\ projectFile = "no file"
  /\ focus # "routing" => appConfig = MCNoRules /\ appModels = <<>>

MCNext ==
  /\ UNCHANGED focus
  /\ \/ focus = "settings" /\ SettingsNext
     \/ focus # "settings" /\ UNCHANGED settingsVars
  /\ \/ focus = "catalog" /\ CatalogNext
     \/ focus # "catalog" /\ UNCHANGED catalogVars
  /\ \/ focus = "routing" /\ RoutingNext
     \/ focus # "routing" /\ UNCHANGED routingVars

MCSpec == MCInit /\ [][MCNext]_mcVars
=============================================================================

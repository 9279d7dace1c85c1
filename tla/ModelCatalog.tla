---------------------------- MODULE ModelCatalog ----------------------------
(***************************************************************************)
(* The list of models and the client that talks to the providers, while    *)
(* the start-up, the fetches of three providers and saved configurations   *)
(* report to the event loop in any order (main.go handleResult,            *)
(* main_apple.go, wiring.go startInit, models_dynamic.go).  Each job       *)
(* carries what it captured when it was started; what a fetch brings is    *)
(* what the provider says then.                                            *)
(***************************************************************************)
EXTENDS Naturals, FiniteSets, Bags

CONSTANTS
  CatalogIds, \* the catalogs that may be loaded: sets of models
  AnswersOf,  \* per dynamic provider, the lists it may answer with
  Setups,     \* the configurations, in the order they are saved: [ollama, openrouter, direct]
  MaxJobs     \* bound: jobs on their way at the same time

Dynamic == {"ollama", "openrouter", "apple"}
NoProvider == ""

ASSUME CatalogAssumption ==
  /\ MaxJobs \in Nat /\ 1 \in DOMAIN Setups
  \* The name of a model begins with its owner, and OpenRouter has none of the two others.
  /\ \A p, q \in Dynamic : p # q => (UNION AnswersOf[p]) \cap (UNION AnswersOf[q]) = {}

VARIABLES
  setup,        \* which configuration is in use
  startup,      \* startInit's goroutine: what it does next
  modelCatalog, \* NoCatalog or a set of models
  listed,       \* App.models: per model, where it is from and what serves it
  fetched,      \* ollamaFetched, openRouterFetched, appleFetched
  jobs,         \* goroutines that will report
  langdag,      \* langdagClient, langdagProvider, langdagRuntimeApple
  configReady, shownInitialModel,
  answered,     \* history: per provider, the last answer that counted
  failed        \* history: a client could not be built

catalogVars == <<setup, startup, modelCatalog, listed, fetched, jobs, langdag, configReady,
                 shownInitialModel, answered, failed>>

NoCatalog == {"no catalog"}
NoClient == [there |-> FALSE, of |-> 0, provider |-> NoProvider, apple |-> FALSE]
Cfg(n) == Setups[n]

-----------------------------------------------------------------------------
(* The list                                                                 *)

FromCatalog(cat) ==
  IF cat = NoCatalog THEN {} ELSE {[id |-> i, provider |-> "catalog", deps |-> {"catalog"}] : i \in cat}
Fetched(p, ids) == {[id |-> i, provider |-> p, deps |-> {p}] : i \in ids}

\* Not the code: what was found at OpenRouter is fetched again when it is wanted.
FromProvidersOnce(all, providers) == {m \in all : m.provider \in providers \ {"openrouter"}}

\* dynamicModelsForProviders
FromProviders(all, providers) == {m \in all : m.provider \in providers}

\* mergeDynamicModels, mergeModelDefs: a model that is in both is the catalog's from now on.
Merge(base, dynamic) ==
  LET ids == {m.id : m \in base \cup dynamic}
      of(i) == {m \in base \cup dynamic : m.id = i}
      first(i) == IF \E m \in base : m.id = i THEN CHOOSE m \in base : m.id = i
                                              ELSE CHOOSE m \in dynamic : m.id = i
  IN {[id |-> i, provider |-> first(i).provider, deps |-> UNION {m.deps : m \in of(i)}] : i \in ids}

RuntimeApple(all) == \E m \in all : "apple" \in m.deps

\* defaultLangdagProviderForModels: what is configured, or else what is listed.
Provider(n, all) ==
  IF Cfg(n).direct THEN "direct"
  ELSE IF Cfg(n).openrouter THEN "openrouter"
  ELSE IF Cfg(n).ollama THEN "ollama"
  ELSE IF RuntimeApple(all) THEN "apple" ELSE NoProvider

\* newLangdagClientForModelsWithCatalog: nothing without a provider.
Built(n, all) ==
  IF Provider(n, all) = NoProvider THEN NoClient
  ELSE [there |-> TRUE, of |-> n, provider |-> Provider(n, all), apple |-> RuntimeApple(all)]
ReadyJob(n, all) == [kind |-> "ready", from |-> NoProvider, client |-> Built(n, all)]
FetchJob(p) == [kind |-> "fetch", from |-> p, client |-> NoClient]
Starting(set) == jobs (+) SetToBag(set)
Room(k) == BagCardinality(jobs) + k <= MaxJobs

\* maybeShowInitialModels
Shows(all) == shownInitialModel' = (shownInitialModel \/ (configReady /\ all # {}))

-----------------------------------------------------------------------------
CatalogTypeOK ==
  /\ setup \in DOMAIN Setups
  /\ startup \in {"load", "client", "refresh", "second client", "over"}
  /\ modelCatalog \in CatalogIds \cup {NoCatalog}
  /\ \A m, k \in listed : m.id = k.id => m = k
  /\ fetched \subseteq Dynamic /\ IsABag(jobs)
  /\ langdag.there \in BOOLEAN /\ configReady \in BOOLEAN /\ shownInitialModel \in BOOLEAN
  /\ \A p \in Dynamic : answered[p] \in AnswersOf[p] \cup {{}}
  /\ failed \in BOOLEAN

CatalogInit ==
  /\ setup = 1 /\ startup = "load" /\ modelCatalog = NoCatalog /\ listed = {}
  /\ fetched = {} /\ jobs = EmptyBag /\ langdag = NoClient
  /\ configReady = FALSE /\ shownInitialModel = FALSE
  /\ answered = [p \in Dynamic |-> {}] /\ failed = FALSE

\* catalogMsg: fetches are started that have not come back yet, and a client is built.
CatalogMsg(cat) ==
  LET all == Merge(FromCatalog(cat), FromProviders(listed, Dynamic))
      wanted == {p \in Dynamic \ fetched : p = "apple" \/ Cfg(setup)[p]}
  IN /\ modelCatalog' = cat /\ listed' = all
     /\ Shows(all)
     /\ jobs' = Starting({FetchJob(p) : p \in wanted} \cup {ReadyJob(setup, all)})
     /\ Room(4)
     /\ UNCHANGED <<setup, fetched, langdag, configReady, answered, failed>>

\* startInit captures the configuration it was called with: the first one.
LoadCatalog ==
  /\ startup = "load" /\ startup' = "client"
  /\ \/ \E cat \in CatalogIds : CatalogMsg(cat)
     \/ UNCHANGED <<setup, modelCatalog, listed, fetched, jobs, langdag, configReady,
                    shownInitialModel, answered, failed>>

RefreshCatalog ==
  /\ startup = "refresh"
  /\ \/ \E cat \in CatalogIds : CatalogMsg(cat) /\ startup' = "second client"
     \/ /\ startup' = "over"
        /\ UNCHANGED <<setup, modelCatalog, listed, fetched, jobs, langdag, configReady,
                       shownInitialModel, answered, failed>>

\* Not the code: whatever arrives last is used.
TakesAny(client) == langdag' = client

\* handleLangdagReadyMsg
TakesClient(client) ==
  LET nothing == ~client.there /\ client.provider = NoProvider /\ langdag.there
      keepsApple == client.there /\ ~client.apple /\ langdag.there /\ langdag.apple
                    /\ RuntimeApple(listed)
  IN langdag' = IF nothing THEN (IF langdag.apple /\ ~RuntimeApple(listed) THEN NoClient ELSE langdag)
                ELSE IF keepsApple THEN langdag ELSE client

StartupClient ==
  /\ startup \in {"client", "second client"}
  /\ startup' = IF startup = "client" THEN "refresh" ELSE "over"
  /\ \/ TakesClient(Built(1, {})) /\ UNCHANGED failed
     \/ Provider(1, {}) # NoProvider /\ failed' = TRUE /\ UNCHANGED langdag
  /\ UNCHANGED <<setup, modelCatalog, listed, fetched, jobs, configReady, shownInitialModel, answered>>

Taken(j) == BagIn(j, jobs)
Rest(j) == jobs (-) SetToBag({j})

ClientReady ==
  /\ \E j \in BagToSet(jobs) :
       /\ j.kind = "ready" /\ jobs' = Rest(j)
       /\ \/ TakesClient(j.client) /\ UNCHANGED failed
          \/ j.client.there /\ failed' = TRUE /\ UNCHANGED langdag
  /\ UNCHANGED <<setup, startup, modelCatalog, listed, fetched, configReady, shownInitialModel, answered>>

Answers(p, ids) ==
  answered' = [answered EXCEPT ![p] = IF ids = {} /\ p # "apple" THEN @ ELSE ids]

\* ollamaModelsMsg, openRouterModelsMsg: an empty answer changes nothing.
FetchArrives(p) ==
  /\ p # "apple" /\ Taken(FetchJob(p)) /\ jobs' = Rest(FetchJob(p))
  /\ fetched' = fetched \cup {p}
  /\ \E ids \in AnswersOf[p] \cup {{}} :
       /\ Answers(p, ids)
       /\ listed' = IF ids = {} THEN listed
                    ELSE Merge(FromCatalog(modelCatalog),
                               FromProviders(listed, Dynamic \ {p}) \cup Fetched(p, ids))
  /\ Shows(listed')
  /\ UNCHANGED <<setup, startup, modelCatalog, langdag, configReady, failed>>

\* handleAppleModelsMsg: an empty answer takes Apple's models away, and the client follows.
AppleArrives ==
  /\ Taken(FetchJob("apple"))
  /\ fetched' = fetched \cup {"apple"}
  /\ \E ids \in AnswersOf["apple"] \cup {{}} :
       LET all == Merge(FromCatalog(modelCatalog),
                        FromProviders(listed, {"ollama", "openrouter"}) \cup Fetched("apple", ids))
           refresh == \/ ids # {}
                      \/ langdag.apple /\ ~RuntimeApple(all)
                      \/ langdag.provider = "apple" /\ Provider(setup, all) # "apple"
       IN /\ Answers("apple", ids) /\ listed' = all /\ Shows(all)
          /\ jobs' = IF refresh THEN Rest(FetchJob("apple")) (+) SetToBag({ReadyJob(setup, all)})
                                ELSE Rest(FetchJob("apple"))
  /\ UNCHANGED <<setup, startup, modelCatalog, langdag, configReady, failed>>

\* Not the code: the first line is shown by what comes after.
WorkspaceShowsNothing ==
  /\ ~configReady /\ configReady' = TRUE
  /\ UNCHANGED <<setup, startup, modelCatalog, listed, fetched, jobs, langdag, shownInitialModel,
                 answered, failed>>

\* workspaceMsg
WorkspaceReady ==
  /\ ~configReady /\ configReady' = TRUE
  /\ shownInitialModel' = (shownInitialModel \/ listed # {})
  /\ UNCHANGED <<setup, startup, modelCatalog, listed, fetched, jobs, langdag, answered, failed>>

\* exitConfigMode(true)
ConfigSaved ==
  /\ setup + 1 \in DOMAIN Setups /\ setup' = setup + 1
  /\ fetched' = fetched \ (IF Cfg(setup + 1).openrouter THEN {"openrouter", "apple"} ELSE {"apple"})
  /\ jobs' = Starting({FetchJob(p) : p \in {q \in Dynamic : q = "apple" \/ Cfg(setup + 1)[q]}}
                      \cup {ReadyJob(setup + 1, listed)})
  /\ Room(4)
  /\ UNCHANGED <<startup, modelCatalog, listed, langdag, configReady, shownInitialModel, answered,
                 failed>>

CatalogNext ==
  \/ LoadCatalog \/ RefreshCatalog \/ StartupClient \/ ClientReady
  \/ (\E p \in Dynamic : FetchArrives(p)) \/ AppleArrives \/ WorkspaceReady \/ ConfigSaved

CatalogSpec == CatalogInit /\ [][CatalogNext]_catalogVars

-----------------------------------------------------------------------------
(* Properties *)

Quiet == jobs = EmptyBag /\ startup = "over"

\* A model that only a dynamic provider has stays on the list until that provider answers
\* without it, whatever else arrives in between.
FetchedModelsKept ==
  \A p \in Dynamic : \A i \in answered[p] \ UNION CatalogIds :
    \E m \in listed : m.id = i /\ p \in m.deps

\* The line with the version and the models is shown once the workspace and a list of models
\* are there, whichever comes last.
FirstLineShown == configReady /\ listed # {} => shownInitialModel

\* When everything has reported and no client failed, a list with Apple's models goes with a
\* client that can reach them: a client built before they were found does not replace it.
AppleReached == Quiet /\ ~failed /\ RuntimeApple(listed) => langdag.apple

\* The list and the client agree with what has arrived, in whatever order it came.
CatalogInv == CatalogTypeOK /\ FetchedModelsKept /\ FirstLineShown /\ AppleReached

-----------------------------------------------------------------------------
(* Statements the code does not keep *)

\* "OpenRouter dynamic model was not preserved": nor is what OpenRouter serves of the catalog.
FetchedDeploymentsKept ==
  \A p \in Dynamic : \A i \in answered[p] : \E m \in listed : m.id = i /\ p \in m.deps

\* "Reinitialize langdag client with updated config": it is the client in use in the end.
ClientFollowsConfig == Quiet /\ ~failed /\ langdag.there => langdag.of = setup
=============================================================================

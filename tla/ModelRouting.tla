---------------------------- MODULE ModelRouting ----------------------------
(***************************************************************************)
(* Which model a run is sent to (services/models/resolveForRun.ts and      *)
(* services/modelTiers.ts), and who writes what it is chosen from: saving  *)
(* the older settings of the workspace, activating a planning credential,  *)
(* and the runs themselves, which ask the provider for its list again.     *)
(*                                                                         *)
(* A list is the sequence of ids a provider gives.  Aliases are seen while *)
(* a provider is asked and are not stored.  One person edits at a time and *)
(* nobody retires a credential (ProviderCredentials has both); a day does  *)
(* not end during a call.                                                  *)
(***************************************************************************)
EXTENDS Integers, Sequences, FiniteSetsExt, Functions

CONSTANTS
  Provider, NoProvider,
  Own,            \* providers that serve the models of their owner: ollama, custom, ...
  AutoRouted,     \* providers with a router Auto beside their models: cursor
  Model, NoModel,
  Preference,     \* [Provider -> [Tier -> sequence of models]], for those not of Own
  Like,           \* [Provider -> [Tier -> models whose name has the shape]]; some have both
  DefaultModel,   \* [Provider -> [Tier -> Model]], written in the code
  AdapterModel,   \* [Provider -> Model], the one its adapter asks with
  Entered,        \* [Provider -> the models that a person may ask with]
  Alias,          \* [Model -> the other names the provider gives it]
  Offers,         \* [Provider -> sequence of the lists it may offer; the first one first]
  Wanted,         \* the models that people pin or choose
  RoutedRun, AskedTier,   \* the runs, and the tiers that they ask for
  Day,
  LastDay, MaxEdits, MaxOffers   \* bounds of the model

ModelTier == {"top", "auto"}

ASSUME RoutingAssumption ==
  /\ NoProvider \notin Provider /\ NoModel \notin Model /\ Own \subseteq Provider
  /\ Day \in Nat /\ LastDay \in Nat /\ MaxEdits \in Nat /\ MaxOffers \in Nat
  /\ DefaultModel \in [Provider -> [ModelTier -> Model]] /\ AskedTier \subseteq ModelTier
  /\ \A p \in Provider :
       /\ AdapterModel[p] \in Model /\ Entered[p] \subseteq Model
       /\ 1 \in DOMAIN Offers[p] /\ Range(Offers[p]) \subseteq Seq(Model) \ {<<>>}

Never == -1

VARIABLES
  today,
  offered,       \* what each provider lists now
  offers,        \* history: the lists it has offered on each day
  workspace,     \* the llm_* columns: provider, model, tiers, catalog, refreshed
  planning,      \* active_planning_credential_id
  credential,    \* a row of provider_credentials for each provider: ok, catalog, refreshed
  pinned,        \* model_override of the agent
  chosen,        \* model_tier_models of the project
  edit,          \* the edit under way
  editCount, offerCount,
  routing,       \* each run's claim, as far as resolveForRun has come
  mixed          \* history: the workspace's catalog may be another provider's

worldVars == <<today, offered, offers, offerCount>>
wishVars == <<pinned, chosen>>
editVars == <<edit, editCount>>
routingVars == <<worldVars, workspace, planning, credential, wishVars, editVars, routing, mixed>>

NoTiers == [t \in ModelTier |-> NoModel]
NoEdit == [op |-> "none"]
NoRow == [ok |-> FALSE, catalog |-> <<>>, refreshed |-> Never]
Tested(list) == [ok |-> TRUE, catalog |-> list, refreshed |-> today]

\* The stamp of the row that was read, if it has one.
StampOf(row) == IF row.refreshed = Never THEN today ELSE row.refreshed

\* syncLegacyLlm: the row's list and stamp, and the tiers written in the code.
Synced(p, row) ==
  [provider |-> p, model |-> AdapterModel[p], tiers |-> DefaultModel[p],
   catalog |-> row.catalog, refreshed |-> StampOf(row)]

\* A new workspace, or one for which every provider has been tested today and one of
\* them activated.
RoutingInit ==
  /\ today = 0
  /\ offered = [p \in Provider |-> Offers[p][1]]
  /\ offers = [d \in 0 .. LastDay |-> [p \in Provider |-> IF d = 0 THEN {offered[p]} ELSE {}]]
  /\ \/ /\ workspace = [provider |-> NoProvider, model |-> NoModel, tiers |-> NoTiers,
                        catalog |-> <<>>, refreshed |-> Never]
        /\ planning = NoProvider /\ credential = [p \in Provider |-> NoRow]
     \/ /\ credential = [p \in Provider |-> Tested(offered[p])] /\ planning \in Provider
        /\ workspace = Synced(planning, credential[planning])
  /\ pinned = NoModel /\ chosen = NoTiers
  /\ edit = NoEdit /\ editCount = 0 /\ offerCount = 0
  /\ routing = [r \in RoutedRun |-> [at |-> "waiting"]]
  /\ mixed = FALSE

-----------------------------------------------------------------------------
\* The first of a list that is one of these, if any is; catalogHas, by its id or alias.
FirstOf(list, models) ==
  {list[i] : i \in {j \in DOMAIN list : list[j] \in models /\ \A k \in 1 .. j - 1 : list[k] \notin models}}
Named(list, alias, name) == FirstOf(list, {m \in Range(list) : m = name \/ name \in alias[m]})
NoAlias == [m \in Model |-> {}]

\* pickListed: the first preference that is listed, or the first of the list that fits.
PickListed(list, alias, prefers, fitting) ==
  LET found == {i \in DOMAIN prefers : Named(list, alias, prefers[i]) # {}} IN
  IF found = {} THEN FirstOf(list, fitting) ELSE Named(list, alias, prefers[Min(found)])

\* selectTierModels: the tiers that it returns; none where it throws.
PlanningModel(p, list, alias, auto) ==
  PickListed(list, alias, Preference[p]["top"], Like[p]["top"] \ auto)
DevelopmentModel(p, list, alias, top) ==
  PickListed(list, alias, Preference[p]["auto"], Like[p]["auto"] \ top)
SelectTierModels(p, list, alias, preferred) ==
  {t \in [ModelTier -> Range(list)] :
    IF p \in Own
    THEN /\ t.top \in Named(list, alias, preferred)
         /\ t.auto \in IF Range(list) = {t.top} THEN {t.top} ELSE FirstOf(list, Range(list) \ {t.top})
    ELSE IF p \in AutoRouted
    THEN /\ t.auto \in DevelopmentModel(p, list, alias, {})
         /\ t.top \in PlanningModel(p, list, alias, {t.auto}) /\ t.top # t.auto
    ELSE /\ t.top \in PlanningModel(p, list, alias, {})
         /\ t.auto \in DevelopmentModel(p, list, alias, {t.top})}

\* loadWorkspaceLlm: the active planning credential, or the workspace's columns.
Endpoint == IF planning # NoProvider THEN [provider |-> planning, model |-> AdapterModel[planning]]
            ELSE [provider |-> workspace.provider, model |-> workspace.model]

\* testProviderConnection, where the provider answers: it has to offer both tiers.
Answers(p, model) == SelectTierModels(p, offered[p], Alias, model)

-----------------------------------------------------------------------------
Routing == {r \in RoutedRun : routing[r].at \notin {"waiting", "done"}}

\* An edit of what the runs read: a run that is at it has been overlapped.
Overlapped ==
  [r \in RoutedRun |-> IF r \in Routing THEN [routing[r] EXCEPT !.clean = FALSE] ELSE routing[r]]
BeginEdit == edit = NoEdit /\ editCount < MaxEdits /\ editCount' = editCount + 1

\* saveLlmConfigHandler: the test comes first, then saveLlmConfig writes the
\* workspace, without llm_catalog_refreshed_at.
StartSave(p, model) ==
  /\ BeginEdit
  /\ \E tiers \in Answers(p, model) :
       edit' = [op |-> "save", provider |-> p, model |-> model, tiers |-> tiers,
                catalog |-> offered[p]]
  /\ routing' = Overlapped
  /\ UNCHANGED <<worldVars, wishVars, workspace, planning, credential, mixed>>
WriteSave ==
  /\ edit.op = "save"
  /\ workspace' = [workspace EXCEPT !.provider = edit.provider, !.model = edit.model,
                                    !.tiers = edit.tiers, !.catalog = edit.catalog]
  /\ mixed' = (planning \notin {NoProvider, edit.provider})
  /\ edit' = [edit EXCEPT !.op = "mirror"]
  /\ UNCHANGED <<worldVars, wishVars, planning, credential, editCount, routing>>
\* upsertFromLegacyLlm: the credential's row, then the default of the workspace if
\* it has none.
WriteMirror ==
  /\ edit.op = "mirror"
  /\ credential' = [credential EXCEPT ![edit.provider] = Tested(edit.catalog)]
  /\ edit' = [edit EXCEPT !.op = "default"]
  /\ UNCHANGED <<worldVars, wishVars, workspace, planning, editCount, routing, mixed>>
WriteDefaultPlanning ==
  /\ edit.op = "default"
  /\ planning' = IF planning = NoProvider THEN edit.provider ELSE planning
  /\ edit' = NoEdit
  /\ UNCHANGED <<worldVars, wishVars, workspace, credential, editCount, routing, mixed>>

\* testCredential, which no run reads: the row has the list, or none if it failed.
TestCredential(p, model) ==
  /\ BeginEdit
  /\ \/ /\ Answers(p, model) # {}
        /\ credential' = [credential EXCEPT ![p] = Tested(offered[p])]
     \/ credential' = [credential EXCEPT ![p].ok = FALSE, ![p].catalog = <<>>]
  /\ UNCHANGED <<worldVars, wishVars, workspace, planning, edit, routing, mixed>>

\* activateCredential for planning, and then syncLegacyLlm with the row that was
\* read.
StartActivatePlanning(p) ==
  /\ BeginEdit /\ credential[p].ok
  /\ planning' = p
  /\ edit' = [op |-> "sync", provider |-> p, row |-> credential[p]]
  /\ routing' = Overlapped
  /\ UNCHANGED <<worldVars, wishVars, workspace, credential, mixed>>
SyncLegacyLlm ==
  /\ edit.op = "sync"
  /\ workspace' = Synced(edit.provider, edit.row)
  /\ mixed' = FALSE /\ edit' = NoEdit
  /\ UNCHANGED <<worldVars, wishVars, planning, credential, editCount, routing>>

\* The request fails between two of its writes.
EditFails ==
  /\ edit # NoEdit /\ edit' = NoEdit
  /\ mixed' = (mixed \/ edit.op = "sync")
  /\ UNCHANGED <<worldVars, wishVars, workspace, planning, credential, editCount, routing>>

\* updateAgent and updateModelTiers take a model of the workspace's catalog, if it
\* has one, or take the choice back.
Offerable(m) == m = NoModel \/ workspace.catalog = <<>> \/ m \in Range(workspace.catalog)
PinModel(m) ==
  /\ BeginEdit /\ Offerable(m) /\ pinned' = m
  /\ UNCHANGED <<worldVars, workspace, planning, credential, chosen, edit, routing, mixed>>
ChooseModel(tier, m) ==
  /\ BeginEdit /\ Offerable(m) /\ chosen' = [chosen EXCEPT ![tier] = m]
  /\ UNCHANGED <<worldVars, workspace, planning, credential, pinned, edit, routing, mixed>>

-----------------------------------------------------------------------------
\* resolveForRun begins with the endpoint; without one the run keeps its model_id.
ResolveForRun(r, tier) ==
  /\ r \notin Routing /\ Endpoint.provider # NoProvider
  /\ routing' = [routing EXCEPT ![r] =
       [at |-> "loaded", tier |-> tier, provider |-> Endpoint.provider, asks |-> Endpoint.model,
        started |-> today, clean |-> edit.op = "none"]]
  /\ UNCHANGED <<worldVars, wishVars, editVars, workspace, planning, credential, mixed>>

\* resolveModelRoute with the tiers it is given.
Route(read, tiers) ==
  IF read.pinned # NoModel THEN read.pinned
  ELSE IF read.chosen # NoModel THEN read.chosen
  ELSE IF tiers[read.tier] # NoModel THEN tiers[read.tier]
  ELSE DefaultModel[read.provider][read.tier]

\* Those the workspace had stored, which may be the ones written in the code.
StoredTiers(read, list) == {read.tiers}
\* The tiers of the fresh route: picked from the list, the stored ones without a list.
FreshTiers(read, list) ==
  IF list = <<>> THEN {read.tiers} ELSE SelectTierModels(read.provider, list, NoAlias, read.asks)

\* What the run is sent to in the end; NoModel if the claim fails.
SentTo(r, read, list, unanswered) ==
  LET missing == read.pinned # NoModel /\ read.pinned \notin Range(list)
      fresh == FreshTiers(read, list) IN
  \E model \in IF missing \/ fresh = {} THEN {NoModel} ELSE {Route(read, tiers) : tiers \in fresh} :
    routing' = [routing EXCEPT ![r] =
      [at |-> "done", provider |-> read.provider, asks |-> read.asks, model |-> model,
       started |-> read.started, pinned |-> read.pinned, chosen |-> read.chosen,
       listed |-> list # <<>>, unanswered |-> unanswered, clean |-> read.clean]]

\* catalogIsStale, of the workspace's stamp.
Stale == workspace.refreshed = Never \/ today - workspace.refreshed > Day

\* The workspace, the project and the agent are read; a list that is old, empty or
\* without the model is asked for again.
ReadPolicy(r) ==
  LET read == [at |-> "asking", tier |-> routing[r].tier, provider |-> routing[r].provider,
               asks |-> routing[r].asks, started |-> routing[r].started,
               clean |-> routing[r].clean /\ ~mixed, pinned |-> pinned,
               chosen |-> chosen[routing[r].tier], tiers |-> workspace.tiers,
               catalog |-> workspace.catalog] IN
  /\ routing[r].at = "loaded"
  /\ IF Stale \/ Route(read, workspace.tiers) \notin Range(workspace.catalog)
       THEN routing' = [routing EXCEPT ![r] = read] ELSE SentTo(r, read, workspace.catalog, FALSE)
  /\ UNCHANGED <<worldVars, wishVars, editVars, workspace, planning, credential, mixed>>

\* The provider answers with a list from which ids alone may not give both tiers, for
\* which the catch leaves the new list in hand, or it does not answer.
AskProvider(r) ==
  LET read == routing[r]
      answers == Answers(read.provider, read.asks) # {}
      picks == SelectTierModels(read.provider, offered[read.provider], NoAlias, read.asks) IN
  /\ read.at = "asking"
  /\ \/ answers /\ \E tiers \in picks :
          routing' = [routing EXCEPT ![r] =
            [read EXCEPT !.at = "answered", !.catalog = offered[read.provider], !.tiers = tiers]]
     \/ answers /\ picks = {} /\ SentTo(r, read, offered[read.provider], FALSE)
     \/ SentTo(r, read, read.catalog, TRUE)
  /\ UNCHANGED <<worldVars, wishVars, editVars, workspace, planning, credential, mixed>>

\* The workspace's row takes list, tiers and stamp, whoever it belongs to by now; a
\* write that throws is caught.
StoreCatalog(r, written) ==
  LET read == routing[r] IN
  /\ read.at = "answered"
  /\ IF written
       THEN /\ workspace' = [workspace EXCEPT !.catalog = read.catalog, !.tiers = read.tiers,
                                             !.refreshed = read.started]
            /\ mixed' = (read.provider # Endpoint.provider)
       ELSE UNCHANGED <<workspace, mixed>>
  /\ SentTo(r, read, read.catalog, FALSE)
  /\ UNCHANGED <<worldVars, wishVars, editVars, planning, credential>>

-----------------------------------------------------------------------------
\* A provider offers another list.
OfferOther(p, list) ==
  /\ offerCount < MaxOffers /\ offerCount' = offerCount + 1
  /\ list # offered[p]
  /\ offered' = [offered EXCEPT ![p] = list]
  /\ offers' = [offers EXCEPT ![today][p] = @ \cup {list}]
  /\ UNCHANGED <<wishVars, editVars, today, workspace, planning, credential, routing, mixed>>

DayEnds ==
  /\ today < LastDay /\ edit = NoEdit /\ Routing = {}
  /\ today' = today + 1
  /\ offers' = [offers EXCEPT ![today + 1] = [p \in Provider |-> {offered[p]}]]
  /\ UNCHANGED <<offered, offerCount, workspace, planning, credential, wishVars, editVars, routing, mixed>>

RoutingNext ==
  \/ \E p \in Provider :
       \/ \E m \in Entered[p] : StartSave(p, m) \/ TestCredential(p, m)
       \/ StartActivatePlanning(p)
       \/ \E list \in Range(Offers[p]) : OfferOther(p, list)
  \/ WriteSave \/ WriteMirror \/ WriteDefaultPlanning \/ SyncLegacyLlm \/ EditFails
  \/ \E m \in Wanted \cup {NoModel} : PinModel(m) \/ \E tier \in AskedTier : ChooseModel(tier, m)
  \/ \E r \in RoutedRun :
       \/ \E tier \in AskedTier : ResolveForRun(r, tier)
       \/ ReadPolicy(r) \/ AskProvider(r) \/ \E written \in BOOLEAN : StoreCatalog(r, written)
  \/ DayEnds

RoutingSpec == RoutingInit /\ [][RoutingNext]_routingVars
-----------------------------------------------------------------------------
\* Types; a stamp is never of a day to come, and a request writes only what it has read.
RoutingTypeOK ==
  /\ today \in 0 .. LastDay /\ editCount \in 0 .. MaxEdits /\ offerCount \in 0 .. MaxOffers
  /\ offered \in [Provider -> Seq(Model)] /\ \A p \in Provider : offered[p] \in offers[today][p]
  /\ workspace.provider \in Provider \cup {NoProvider} /\ workspace.model \in Model \cup {NoModel}
  /\ workspace.tiers \in [ModelTier -> Model \cup {NoModel}] /\ workspace.catalog \in Seq(Model)
  /\ workspace.refreshed \in Never .. today
  /\ planning \in Provider \cup {NoProvider}
  /\ \A p \in Provider : /\ credential[p].ok \in BOOLEAN /\ credential[p].catalog \in Seq(Model)
                         /\ credential[p].refreshed \in Never .. today
  /\ pinned \in Wanted \cup {NoModel} /\ chosen \in [ModelTier -> Wanted \cup {NoModel}]
  /\ edit.op \in {"none", "save", "mirror", "default", "sync"}
  /\ \A r \in RoutedRun : routing[r].at \in {"waiting", "loaded", "asking", "answered", "done"}
  /\ mixed \in BOOLEAN

\* The lists a provider has offered since a day.
ListsSince(p, day) == UNION {offers[d][p] : d \in {e \in 0 .. LastDay : day <= e}}

\* A run is sent to a model that its own provider has offered within a day, an agent's
\* pin included: an older one only where the provider did not answer, and one that it
\* never offered only where it never answered or the project chose it.  A claim fails
\* only for a pin that was not offered, or where the ids of a list do not give both
\* tiers.  Nothing is said of claims that an edit of the settings overlapped or that
\* read a workspace whose catalog is mixed: saved for another provider than the active
\* one, left by an activation that failed half way, or stored late by a run.
RoutesAreCurrent ==
  \A r \in RoutedRun :
    LET run == routing[r]
        lists == ListsSince(run.provider, IF run.unanswered THEN 0 ELSE run.started - Day) IN
    run.at = "done" /\ run.clean =>
      IF run.model # NoModel
      THEN \/ \E list \in lists : run.model \in Range(list)
           \/ run.unanswered /\ ~run.listed
           \/ run.pinned = NoModel /\ run.model = run.chosen
      ELSE \/ run.pinned # NoModel /\ (~run.listed \/ \E list \in lists : run.pinned \notin Range(list))
           \/ \E list \in lists : SelectTierModels(run.provider, list, NoAlias, run.asks) = {}
=============================================================================

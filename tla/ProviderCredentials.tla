------------------------- MODULE ProviderCredentials -------------------------
(***************************************************************************)
(* The credentials of a workspace for its model providers, and which of    *)
(* them plans and which one codes (services/providers/                     *)
(* credentials.service.ts).  A call reads its row, awaits the provider or  *)
(* a probe of its binary, and writes what it decided on the row it read;   *)
(* nothing holds two calls apart.                                          *)
(*                                                                         *)
(* A key of GoodKey is one the provider takes; some providers may be asked *)
(* without a key.  Encryption, catalogues and the copy for the older       *)
(* clients (syncLegacyLlm) are left out.  A save of the older form         *)
(* (upsertFromLegacyLlm) comes after a test of what the form held: the     *)
(* given key, or none.  Where none was given it keeps the row's.           *)
(***************************************************************************)
EXTENDS Naturals, FiniteSets

CONSTANTS Credential, NoCredential,
          ProviderOf,    \* [Credential -> a provider]
          CanCode,       \* the providers that code; all of them plan
          DefaultLabel,  \* the credentials labelled default, one for each provider
          KeyOptional,   \* the providers that take no key too: ollama, custom
          Key, GoodKey,
          NoKey,
          Caller,
          MaxCalls       \* bound of the model: calls that are made

ASSUME CredentialsAssumption ==
  /\ NoCredential \notin Credential /\ GoodKey \subseteq Key /\ NoKey \notin Key
  /\ MaxCalls \in Nat

Tier == {"planning", "coding"}

VARIABLES
  credentials,   \* the rows there are: status, key, retired
  activeFor,     \* the workspace's credential for each tier
  chosenFor,     \* the credential its project chose for each tier
  codingRuns,    \* its queued coding runs: queued or blocked
  calls,         \* the calls under way, by their caller
  callCount,
  raced,         \* history: credentials whose calls have overlapped
  untried        \* history: credentials last saved, by the older form, with the key they had

credentialVars ==
  <<credentials, activeFor, chosenFor, codingRuns, calls, callCount, raced, untried>>

CredentialsInit ==
  /\ credentials = [c \in {} |-> 0]
  /\ activeFor = [t \in Tier |-> NoCredential] /\ chosenFor = [t \in Tier |-> NoCredential]
  /\ codingRuns = "queued"
  /\ calls = [p \in {} |-> 0] /\ callCount = 0 /\ raced = {} /\ untried = {}

MaybeKey == Key \cup {NoKey}
Keyless(c) == ProviderOf[c] \in KeyOptional

\* The provider's answer may be that it takes the credential with this key, or without.
Takes(c, key) == key \in GoodKey \/ (key = NoKey /\ Keyless(c))

Serves(c, tier) == tier = "planning" \/ ProviderOf[c] \in CanCode

\* A caller comes with a call on a credential, beside those already under way.
Come(p, call) ==
  LET same == {q \in DOMAIN calls : calls[q].of = call.of} IN
  /\ p \notin DOMAIN calls /\ callCount < MaxCalls /\ callCount' = callCount + 1
  /\ calls' = [q \in DOMAIN calls \cup {p} |-> IF q = p THEN call ELSE calls[q]]
  /\ raced' = IF same = {} THEN raced ELSE raced \cup {call.of}
Leave(p) == calls' = [q \in DOMAIN calls \ {p} |-> calls[q]] /\ UNCHANGED <<callCount, raced>>
Continue(p, call) ==
  LET same == {q \in DOMAIN calls \ {p} : calls[q].of = call.of} IN
  /\ calls' = [calls EXCEPT ![p] = call]
  /\ raced' = IF same = {} THEN raced ELSE raced \cup {call.of}
  /\ UNCHANGED callCount

-----------------------------------------------------------------------------
\* createCredential; the label is unique in the provider, and most need a key.
CreateCredential(c, key) ==
  /\ c \notin DOMAIN credentials /\ (key = NoKey => Keyless(c))
  /\ credentials' = [d \in DOMAIN credentials \cup {c} |->
       IF d = c THEN [status |-> "untested", key |-> key, retired |-> FALSE] ELSE credentials[d]]
  /\ UNCHANGED <<activeFor, chosenFor, codingRuns, calls, callCount, raced, untried>>

Standing(c) == c \in DOMAIN credentials /\ ~credentials[c].retired

\* testCredential, with a key that is given or, without one, with the row's.
StartTest(p, c, given) ==
  /\ Standing(c)
  /\ Come(p, IF given = NoKey THEN [op |-> "retest", of |-> c, key |-> credentials[c].key, tiers |-> {}]
                              ELSE [op |-> "test", of |-> c, key |-> given, tiers |-> {}])
  /\ UNCHANGED <<credentials, activeFor, chosenFor, codingRuns, untried>>
\* A key that is good may fail its test, a bad one may not pass; one that was given is
\* written either way.
EndTest(p, ok) ==
  LET c == calls[p].of IN
  /\ calls[p].op \in {"test", "retest"}
  /\ ok => Takes(c, calls[p].key)
  /\ credentials' = [credentials EXCEPT ![c].status = IF ok THEN "ok" ELSE "failed",
                                        ![c].key = IF calls[p].op = "test" THEN calls[p].key ELSE @]
  /\ untried' = untried \ {c}
  /\ IF ok THEN Leave(p) ELSE Continue(p, [calls[p] EXCEPT !.op = "failover"])
  /\ UNCHANGED <<activeFor, chosenFor, codingRuns>>

\* maybeFailover: a spare of the provider takes each tier the failed one has; with
\* none the coding runs are blocked.
Spares(c) ==
  {d \in DOMAIN credentials \ {c} :
     Standing(d) /\ credentials[d].status = "ok" /\ ProviderOf[d] = ProviderOf[c]}
Failover(p) ==
  LET c == calls[p].of
      tiers == {t \in Tier : activeFor[t] = c} IN
  /\ calls[p].op = "failover"
  /\ IF tiers = {} \/ Spares(c) = {} THEN Leave(p)
     ELSE \E d \in Spares(c) : Continue(p, [calls[p] EXCEPT !.op = "promote", !.of = d, !.tiers = tiers])
  /\ codingRuns' = IF "coding" \in tiers /\ Spares(c) = {} THEN "blocked" ELSE codingRuns
  /\ UNCHANGED <<credentials, activeFor, chosenFor, untried>>

\* activateCredential: the row that it reads must be tested and serve the tier; then
\* it may await the probe of a binary.  A promotion does so for planning first.
Anyhow(c, tier) == c \in DOMAIN credentials
MayActivate(c, tier) == Standing(c) /\ credentials[c].status = "ok" /\ Serves(c, tier)
StartActivate(p, c, tier, whole) ==
  /\ MayActivate(c, tier)
  /\ Come(p, [op |-> IF whole THEN "activate" ELSE "choose", of |-> c, key |-> credentials[c].key, tiers |-> {tier}])
  /\ UNCHANGED <<credentials, activeFor, chosenFor, codingRuns, untried>>
StartPromotion(p, tier) ==
  /\ calls[p].op = "promote" /\ tier \in calls[p].tiers
  /\ tier = "coding" => "planning" \notin calls[p].tiers
  /\ MayActivate(calls[p].of, tier)
  /\ Continue(p, [calls[p] EXCEPT !.op = IF tier = "planning" THEN "plan" ELSE "activate"])
  /\ UNCHANGED <<credentials, activeFor, chosenFor, codingRuns, untried>>
\* The workspace takes the credential, and a project that asked for it too.
WriteActiveCredential(p) ==
  LET tier == IF calls[p].op = "plan" THEN "planning" ELSE CHOOSE t \in calls[p].tiers : TRUE IN
  /\ calls[p].op \in {"plan", "activate", "choose"}
  /\ activeFor' = [activeFor EXCEPT ![tier] = calls[p].of]
  /\ chosenFor' = IF calls[p].op = "choose" THEN [chosenFor EXCEPT ![tier] = calls[p].of] ELSE chosenFor
  /\ IF calls[p].op = "plan" /\ "coding" \in calls[p].tiers
       THEN Continue(p, [calls[p] EXCEPT !.op = "promote", !.tiers = {"coding"}]) ELSE Leave(p)
  /\ UNCHANGED <<credentials, codingRuns, untried>>

\* retireCredential reads that no tier has it, and writes.
NotActive(c) == \A t \in Tier : activeFor[t] # c
StartRetire(p, c) ==
  /\ c \in DOMAIN credentials /\ NotActive(c)
  /\ Come(p, [op |-> "retire", of |-> c, key |-> credentials[c].key, tiers |-> {}])
  /\ UNCHANGED <<credentials, activeFor, chosenFor, codingRuns, untried>>
WriteRetired(p) ==
  /\ calls[p].op = "retire"
  /\ credentials' = [credentials EXCEPT ![calls[p].of].retired = TRUE]
  /\ Leave(p) /\ UNCHANGED <<activeFor, chosenFor, codingRuns, untried>>

\* upsertFromLegacyLlm, after a test with the key that was given or with none.  Where
\* none was given it goes on with the key of the row that it reads; a row that there
\* is not is inserted, which fails where another caller has done so since.
StartLegacy(p, c, given) ==
  LET keeps == given = NoKey /\ c \in DOMAIN credentials /\ credentials[c].key # NoKey IN
  /\ c \in DefaultLabel /\ Takes(c, given)
  /\ Come(p, [op |-> IF c \notin DOMAIN credentials THEN "insert" ELSE IF keeps THEN "keep" ELSE "save",
              of |-> c, key |-> IF keeps THEN credentials[c].key ELSE given, tiers |-> {}])
  /\ UNCHANGED <<credentials, activeFor, chosenFor, codingRuns, untried>>
\* The row stands again, as tested, whatever key it goes on with; it is the default of
\* each tier that has none and that it serves.
WriteLegacy(p) ==
  LET c == calls[p].of IN
  /\ calls[p].op \in {"insert", "keep", "save"}
  /\ calls[p].op = "insert" => c \notin DOMAIN credentials
  /\ credentials' = [d \in DOMAIN credentials \cup {c} |->
       IF d = c THEN [status |-> "ok", key |-> calls[p].key, retired |-> FALSE] ELSE credentials[d]]
  /\ untried' = IF calls[p].op = "keep" THEN untried \cup {c} ELSE untried \ {c}
  /\ \E tiers \in SUBSET {t \in Tier : activeFor[t] = NoCredential /\ Serves(c, t)} :
       /\ "planning" \in tiers <=> activeFor["planning"] = NoCredential
       /\ Continue(p, [calls[p] EXCEPT !.op = "default", !.tiers = tiers])
  /\ UNCHANGED <<activeFor, chosenFor, codingRuns>>
WriteDefault(p) ==
  /\ calls[p].op = "default"
  /\ activeFor' = [t \in Tier |-> IF t \in calls[p].tiers THEN calls[p].of ELSE activeFor[t]]
  /\ Leave(p) /\ UNCHANGED <<credentials, chosenFor, codingRuns, untried>>

\* A call fails, is refused or is lost where it stands.
CallLost(p) ==
  /\ p \in DOMAIN calls /\ Leave(p)
  /\ UNCHANGED <<credentials, activeFor, chosenFor, codingRuns, untried>>

CredentialsNext ==
  \/ \E c \in Credential, key \in MaybeKey : CreateCredential(c, key)
  \/ \E p \in Caller, c \in Credential :
       \/ \E given \in MaybeKey : StartTest(p, c, given) \/ StartLegacy(p, c, given)
       \/ \E tier \in Tier, whole \in BOOLEAN : StartActivate(p, c, tier, whole)
       \/ StartRetire(p, c)
  \/ \E p \in DOMAIN calls :
       \/ \E ok \in BOOLEAN : EndTest(p, ok)
       \/ Failover(p) \/ WriteActiveCredential(p) \/ WriteRetired(p)
       \/ WriteLegacy(p) \/ WriteDefault(p) \/ CallLost(p)
       \/ \E tier \in Tier : StartPromotion(p, tier)

CredentialsSpec == CredentialsInit /\ [][CredentialsNext]_credentialVars
-----------------------------------------------------------------------------
\* resolveActiveCredential: the project's choice, or the workspace's; a retired one
\* resolves to none, even where the workspace has another.
Resolved(tier) ==
  LET c == IF chosenFor[tier] # NoCredential THEN chosenFor[tier] ELSE activeFor[tier] IN
  IF c \in DOMAIN credentials /\ ~credentials[c].retired THEN c ELSE NoCredential

CredentialsTypeOK ==
  /\ DOMAIN credentials \subseteq Credential /\ raced \cup untried \subseteq Credential
  /\ \A c \in DOMAIN credentials : credentials[c] \in [status : {"untested", "ok", "failed"}, key : MaybeKey, retired : BOOLEAN]
  /\ activeFor \in [Tier -> Credential \cup {NoCredential}] /\ chosenFor \in [Tier -> Credential \cup {NoCredential}]
  /\ DOMAIN calls \subseteq Caller /\ callCount \in 0 .. MaxCalls

\* A credential whose calls have never overlapped is ok only with what its provider
\* took in a test, be it no key, unless its provider needs no key and its last save kept
\* the one it had, which nothing has tried since (credentials.service.ts:386); if it is
\* active, it has been tested, is not retired and serves the tier, so that the
\* workspace resolves to it where the project chose none.
ActiveUsable ==
  \A c \in DOMAIN credentials \ raced :
    /\ credentials[c].status = "ok" =>
         Takes(c, credentials[c].key) \/ (c \in untried /\ Keyless(c))
    /\ \A t \in Tier : activeFor[t] = c =>
         /\ credentials[c].status # "untested" /\ Serves(c, t)
         /\ chosenFor[t] = NoCredential => Resolved(t) = c
=============================================================================

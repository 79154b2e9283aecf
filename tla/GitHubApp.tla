------------------------------ MODULE GitHubApp ------------------------------
(***************************************************************************)
(* The configuration of the GitHub App                                     *)
(* (apps/local/src/github-app-runtime.ts) over the Secrets Vault.          *)
(*                                                                         *)
(* configure() puts two secrets into the vault and then writes its own     *)
(* row: three transactions with awaits between them.  Other configurations *)
(* and other users of the vault may come in between, an authorisation may  *)
(* be refused half-way, and the process may die.                           *)
(*                                                                         *)
(* An app stands for its id, its private key and its webhook secret.  Left *)
(* out are the installations (rows written one by one), the deliveries of  *)
(* webhooks, and what only reads: signing, verifying and asking GitHub for *)
(* a token.                                                                *)
(***************************************************************************)
EXTENDS SecretsVault

CONSTANTS PrivateKey, WebhookSecret  \* the two resources of the App

AppSecrets == {PrivateKey, WebhookSecret}
Apps == Values

ASSUME AppSecretsAssumption ==
  AppSecrets \subseteq Resources /\ PrivateKey # WebhookSecret /\ None \notin AppSecrets \cup Apps

VARIABLES
  config,   \* gd_github_app_config.app_id, or None
  removed,  \* history: the secrets that somebody deleted and nobody put since
  alone,    \* history: calls since whose beginning no other call wrote the App's state
  whole     \* history: the latest writes of the App's state were those of one such call

history == <<config, removed, alone, whole>>
appVars == <<vaultVars, history>>

Configuring(c) == call[c].op = "configure"

(***************************************************************************)
(* configure()                                                             *)
(***************************************************************************)

\* Up to its first authorisations: assertReady() and the checks of the request.
Configure(c, a) ==
  /\ stage = "up" /\ call[c] = Idle
  /\ call' = [call EXCEPT ![c] = [op |-> "configure", app |-> a, next |-> PrivateKey]]
  /\ alone' = alone \cup {c}
  /\ UNCHANGED <<stored, keys, stage, config, removed, whole>>

\* One of its two putSecret(), and the way to what comes next.
StoreAppSecret(c) ==
  /\ Configuring(c) /\ call[c].next \in AppSecrets
  /\ Store(call[c].next, call[c].app)
  /\ call' = [call EXCEPT ![c].next = IF @ = PrivateKey THEN WebhookSecret ELSE None]
  /\ removed' = removed \ {call[c].next}
  /\ alone' = alone \cap {c} /\ whole' = FALSE
  /\ UNCHANGED <<keyFile, drawn, metadata, keys, stage, config>>

\* Mutant: the row is written before the second secret is stored.
WriteConfigEarly(c) ==
  /\ stage # "down" /\ Configuring(c) /\ call[c].next # PrivateKey
  /\ config' = call[c].app
  /\ call' = [call EXCEPT ![c] = Idle]
  /\ alone' = alone \cap {c} /\ whole' = (c \in alone)
  /\ UNCHANGED <<stored, keys, stage, removed>>

\* Mutant: a row that exists is kept.
WriteConfigOnce(c) ==
  /\ stage # "down" /\ Configuring(c) /\ call[c].next = None
  /\ config' = IF config = None THEN call[c].app ELSE config
  /\ call' = [call EXCEPT ![c] = Idle]
  /\ alone' = alone \cap {c} /\ whole' = (c \in alone)
  /\ UNCHANGED <<stored, keys, stage, removed>>

\* INSERT ... ON CONFLICT(id) DO UPDATE, last.
WriteConfig(c) ==
  /\ stage # "down" /\ Configuring(c) /\ call[c].next = None
  /\ config' = call[c].app
  /\ call' = [call EXCEPT ![c] = Idle]
  /\ alone' = alone \cap {c} /\ whole' = (c \in alone)
  /\ UNCHANGED <<stored, keys, stage, removed>>

(***************************************************************************)
(* Other users of the vault                                                *)
(***************************************************************************)
OtherWrites(r) ==
  IF r \in AppSecrets THEN alone' = {} /\ whole' = FALSE ELSE UNCHANGED <<alone, whole>>

OtherPuts(c) ==
  /\ PutSecret(c) /\ OtherWrites(call[c].resource)
  /\ removed' = removed \ {call[c].resource}
  /\ UNCHANGED config

OtherDeletes(c) ==
  /\ DeleteSecret(c) /\ OtherWrites(call[c].resource)
  /\ removed' = removed \cup {call[c].resource}
  /\ UNCHANGED config

OtherCall(c) ==
  /\ \/ \E r \in Resources : (\E v \in Values : AskToPut(c, r, v)) \/ AskToDelete(c, r)
     \/ Refuse(c)
  /\ UNCHANGED history

(***************************************************************************)
(* Specification                                                           *)
(***************************************************************************)
AppInit ==
  /\ VaultInit
  /\ config = None /\ removed = {} /\ alone = {} /\ whole = FALSE

AppCall(c) == (\E a \in Apps : Configure(c, a)) \/ StoreAppSecret(c) \/ WriteConfig(c)

AppNext ==
  \/ (VaultLifecycle \/ ProcessDies) /\ UNCHANGED history
  \/ \E c \in Calls : AppCall(c) \/ OtherPuts(c) \/ OtherDeletes(c) \/ OtherCall(c)

AppSpec == AppInit /\ [][AppNext]_appVars

(***************************************************************************)
(* Properties                                                              *)
(***************************************************************************)
Secret(r) == secrets[<<metadata, r>>]

\* Whenever the App is on record as configured, its two secrets are in the vault under the
\* key of this database, unless they were deleted there: configure() stores them first, and
\* ends wherever an authorisation is refused, the vault shuts or the process dies.
ConfiguredHasItsSecrets ==
  config # None =>
    metadata # None /\ \A r \in AppSecrets \ removed : Secret(r) # NoSecret

\* One configure() that no other writer comes between, whatever was left half-done before it,
\* leaves the id, the private key and the webhook secret of one and the same App, and they
\* stay together through restarts until somebody writes one of them.
UndisturbedMeansWhole ==
  whole => config # None /\ \A r \in AppSecrets : Secret(r).value = config
==============================================================================

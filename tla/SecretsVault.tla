----------------------------- MODULE SecretsVault -----------------------------
(***************************************************************************)
(* The Secrets Vault (apps/local/src/secrets-vault.ts) and its key file    *)
(* (apps/local/src/vault-key-store.ts), with the part of the daemon's      *)
(* start and stop that opens and shuts it.                                 *)
(*                                                                         *)
(* A call is authorised across an await; then it takes the keys, which a   *)
(* shutdown may have wiped meanwhile, and looks up and writes in one go.   *)
(* The key file and the tables survive the process and each other: a       *)
(* person may delete the file or put an older one back.                    *)
(*                                                                         *)
(* Data kept: a key is a number, in the order they were drawn; what is     *)
(* encrypted is kept with the key and the secret id it is bound to.  The   *)
(* two derived keys and #ready are set and cleared together and are one    *)
(* variable.  Whether a call is authorised is left open at each await (see *)
(* Authority); reading changes nothing, and whether it succeeds is what    *)
(* SecretsAreReadable says.                                                *)
(***************************************************************************)
EXTENDS Integers

CONSTANTS
  Resources,  \* gd://secret/... names
  Values,     \* secret values
  Ids,        \* ids a secret can be given
  Calls,      \* asynchronous calls that can be under way at once
  MaxKeys     \* bound: how many master keys are drawn

ASSUME KeysAssumption == MaxKeys \in Nat \ {0}

VARIABLES
  keyFile,   \* vault.key: a key, None, or Cut when the process died while writing it
  drawn,     \* history: how many keys were drawn
  metadata,  \* gd_vault_metadata.key_fingerprint, or None
  secrets,   \* gd_vault_secrets, by resource_hmac: a lookup key and a resource
  keys,      \* #encryptionKey and #lookupKey: the key they are derived from, or None
  stage,     \* how far the daemon's start or stop has come
  call       \* the calls under way, each after its latest authorisation

stored == <<keyFile, drawn, metadata, secrets>>
vaultVars == <<stored, keys, stage, call>>

None == 0
Cut == -1
Keys == 1 .. MaxKeys
Hmacs == Keys \X Resources

\* Database closed; Capability Security ready; GitHub App ready; vault shut down
Stages == {"down", "booted", "up", "closing"}

NoSecret == [id |-> None, key |-> None, boundTo |-> None, value |-> None]
Idle == [op |-> "none"]

FreshIds == {i \in Ids : \A h \in Hmacs : secrets[h].id # i}

(***************************************************************************)
(* Start and stop                                                          *)
(***************************************************************************)
Boot ==
  /\ stage = "down" /\ stage' = "booted"
  /\ UNCHANGED <<stored, keys, call>>

\* What keyStore.initialize() finds in the file, or writes to it.
KeyRead(k) ==
  \/ keyFile = None /\ drawn < MaxKeys /\ k = drawn + 1
  \/ keyFile \in Keys /\ k = keyFile

\* Mutant: the fingerprint on record is not compared.
InitializeUnchecked(k) ==
  /\ stage = "booted" /\ keys = None
  /\ KeyRead(k)
  /\ keyFile' = k /\ drawn' = IF k > drawn THEN k ELSE drawn
  /\ metadata' = IF metadata = None THEN k ELSE metadata
  /\ keys' = k /\ UNCHANGED <<stage, secrets, call>>

\* initialize(); a start whose vault cannot be opened fails.
Initialize(k) ==
  /\ stage = "booted" /\ keys = None
  /\ KeyRead(k)
  /\ keyFile' = k /\ drawn' = IF k > drawn THEN k ELSE drawn
  /\ IF metadata \in {None, k}
     THEN metadata' = k /\ keys' = k /\ UNCHANGED stage
     ELSE stage' = "closing" /\ UNCHANGED <<metadata, keys>>
  /\ UNCHANGED <<secrets, call>>

FinishStart ==
  /\ stage = "booted" /\ keys # None /\ stage' = "up"
  /\ UNCHANGED <<stored, keys, call>>

\* stop(), and the clean-up of a start that failed: the keys are wiped at once.
Shutdown ==
  /\ stage \in {"booted", "up"} /\ stage' = "closing" /\ keys' = None
  /\ UNCHANGED <<stored, call>>

CloseDatabase ==
  /\ stage = "closing" /\ stage' = "down"
  /\ UNCHANGED <<stored, keys, call>>

\* The process dies, perhaps while it writes a new key file.
ProcessDies ==
  /\ stage' = "down" /\ keys' = None /\ call' = [c \in Calls |-> Idle]
  /\ \/ UNCHANGED <<keyFile, drawn>>
     \/ /\ stage = "booted" /\ keys = None /\ keyFile = None /\ drawn < MaxKeys
        /\ drawn' = drawn + 1 /\ keyFile' \in {Cut, drawn + 1}
  /\ UNCHANGED <<metadata, secrets>>

\* Somebody deletes the key file or puts an earlier one in its place.
KeyFileChanges ==
  /\ keyFile' \in 0 .. drawn
  /\ UNCHANGED <<drawn, metadata, secrets, keys, stage, call>>

(***************************************************************************)
(* Calls                                                                   *)
(***************************************************************************)

\* Mutant: an id is drawn for an update too; the row keeps its own.
StoreUnderNewId(r, v) ==
  /\ keys # None
  /\ \E fresh \in FreshIds :
        secrets' = [secrets EXCEPT ![<<keys, r>>] =
          [id |-> IF @ = NoSecret THEN fresh ELSE @.id, key |-> keys, boundTo |-> fresh, value |-> v]]

\* The part of putSecret() after its authorisation: the ciphertext is bound to the id found
\* or drawn; ON CONFLICT keeps the id of the row.
Store(r, v) ==
  /\ keys # None
  /\ \E fresh \in FreshIds :
       LET old == secrets[<<keys, r>>]
           id  == IF old = NoSecret THEN fresh ELSE old.id
       IN  secrets' = [secrets EXCEPT ![<<keys, r>>] =
             [id |-> IF @ = NoSecret THEN id ELSE @.id, key |-> keys, boundTo |-> id, value |-> v]]

AskToPut(c, r, v) ==
  /\ keys # None /\ call[c] = Idle
  /\ call' = [call EXCEPT ![c] = [op |-> "put", resource |-> r, value |-> v]]
  /\ UNCHANGED <<stored, keys, stage>>

PutSecret(c) ==
  /\ call[c].op = "put"
  /\ Store(call[c].resource, call[c].value)
  /\ call' = [call EXCEPT ![c] = Idle]
  /\ UNCHANGED <<keyFile, drawn, metadata, keys, stage>>

AskToDelete(c, r) ==
  /\ keys # None /\ call[c] = Idle
  /\ call' = [call EXCEPT ![c] = [op |-> "delete", resource |-> r]]
  /\ UNCHANGED <<stored, keys, stage>>

DeleteSecret(c) ==
  /\ call[c].op = "delete" /\ keys # None
  /\ secrets' = [secrets EXCEPT ![<<keys, call[c].resource>>] = NoSecret]
  /\ call' = [call EXCEPT ![c] = Idle]
  /\ UNCHANGED <<keyFile, drawn, metadata, keys, stage>>

\* The authorisation is refused, the keys are gone, or the database is closed.
Refuse(c) ==
  /\ call[c] # Idle
  /\ call' = [call EXCEPT ![c] = Idle]
  /\ UNCHANGED <<stored, keys, stage>>

(***************************************************************************)
(* The vault's part of a specification; see GitHubApp                      *)
(***************************************************************************)
VaultInit ==
  /\ keyFile = None /\ drawn = 0 /\ metadata = None
  /\ secrets = [h \in Hmacs |-> NoSecret]
  /\ keys = None /\ stage = "down" /\ call = [c \in Calls |-> Idle]

VaultLifecycle ==
  \/ Boot \/ (\E k \in Keys : Initialize(k)) \/ FinishStart
  \/ Shutdown \/ CloseDatabase \/ KeyFileChanges

(***************************************************************************)
(* Properties                                                              *)
(***************************************************************************)

\* While the vault serves, every secret in the table can be read: it is found under the
\* lookup key in memory, was encrypted with the encryption key in memory, and is bound to
\* the id of its row.  So neither a shutdown nor another call during the authorisation,
\* nor a lost, half-written or older key file ever makes a stored secret unreadable.
SecretsAreReadable ==
  keys # None =>
    \A h \in Hmacs :
      secrets[h] # NoSecret =>
        h[1] = keys /\ secrets[h].key = keys /\ secrets[h].boundTo = secrets[h].id
==============================================================================

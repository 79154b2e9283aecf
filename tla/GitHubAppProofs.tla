--------------------------- MODULE GitHubAppProofs ---------------------------
(***************************************************************************)
(* The vault and the configuration over it, for any number of calls, keys, *)
(* secrets and values.                                                     *)
(***************************************************************************)
EXTENDS GitHubApp, TLAPS

(***************************************************************************)
(* The inductive invariant                                                 *)
(***************************************************************************)
Row == [id : Ids \cup {None}, key : Keys \cup {None}, boundTo : Ids \cup {None},
        value : Values \cup {None}]

Pending ==
  {Idle} \cup [op : {"put"}, resource : Resources, value : Values]
         \cup [op : {"delete"}, resource : Resources]
         \cup [op : {"configure"}, app : Apps, next : AppSecrets \cup {None}]

Types ==
  /\ drawn \in 0 .. MaxKeys
  /\ keyFile \in Keys \cup {None, Cut}
  /\ metadata \in Keys \cup {None} /\ keys \in Keys \cup {None}
  /\ secrets \in [Hmacs -> Row]
  /\ call \in [Calls -> Pending]
  /\ config \in Apps \cup {None}

\* Every row is of the key on record, under its hmac as in its ciphertext, and the key in
\* memory is that key.
OneKey ==
  /\ keys # None => keys = metadata
  /\ \A h \in Hmacs : secrets[h] # NoSecret =>
       h[1] = metadata /\ secrets[h].key = metadata /\ secrets[h].boundTo = secrets[h].id

\* In the vault, unless somebody deleted it
Held(r) == metadata # None /\ (r \in removed \/ Secret(r) # NoSecret)

\* What a configure() has stored so far
Done(p) == IF p.next = PrivateKey THEN {} ELSE IF p.next = WebhookSecret THEN {PrivateKey} ELSE AppSecrets

Progress ==
  \A c \in Calls : Configuring(c) =>
    \A r \in Done(call[c]) : Held(r) /\ (c \in alone => Secret(r).value = call[c].app)

Configured ==
  config # None => \A r \in AppSecrets : Held(r)

AppInv == Types /\ OneKey /\ Progress /\ Configured /\ UndisturbedMeansWhole

(***************************************************************************)
(* Steps that leave the vault's rows alone                                 *)
(***************************************************************************)

\* The database gets its key on record once, before there is any row.
LEMMA NoKeyNoSecrets ==
  ASSUME Types, OneKey, metadata = None, NEW h \in Hmacs
  PROVE  secrets[h] = NoSecret
BY DEF Types, OneKey, Hmacs, Keys, None

\* Whoever finds its secrets held finds them held under the key on record ever after.
LEMMA SameSecrets ==
  ASSUME Types, OneKey, secrets' = secrets, removed' = removed,
         metadata' = metadata \/ metadata = None, NEW r \in AppSecrets, Held(r)
  PROVE  Held(r)' /\ Secret(r)' = Secret(r)
BY DEF Held, Secret

LEMMA Lifecycle ==
  ASSUME AppInv, VaultLifecycle \/ ProcessDies, UNCHANGED history
  PROVE  AppInv'
<1>1. /\ secrets' = secrets /\ metadata' \in Keys \cup {None}
      /\ metadata' = metadata \/ metadata = None
      /\ drawn' \in 0 .. MaxKeys /\ keyFile' \in Keys \cup {None, Cut}
      /\ keys' \in Keys \cup {None}
      /\ keys' # None => keys' = metadata'
      /\ call' = call \/ call' = [c \in Calls |-> Idle]
  BY KeysAssumption DEF AppInv, Types, OneKey, VaultLifecycle, ProcessDies, Boot, Initialize,
     KeyRead, FinishStart, Shutdown, CloseDatabase, KeyFileChanges, stored, Keys, None, Cut
<1>2. Types' /\ OneKey'
  <2>1. Types'
    BY <1>1 DEF AppInv, Types, history, Pending
  <2>2. ASSUME NEW h \in Hmacs, secrets'[h] # NoSecret
        PROVE  metadata' = metadata
    BY <1>1, <2>2, NoKeyNoSecrets DEF AppInv
  <2>3. QED
    BY <1>1, <2>1, <2>2 DEF AppInv, OneKey
<1>3. \A r \in AppSecrets : Held(r) => Held(r)' /\ Secret(r)' = Secret(r)
  BY <1>1, SameSecrets DEF AppInv, history
<1>4. Configured' /\ UndisturbedMeansWhole'
  BY <1>3 DEF AppInv, Configured, UndisturbedMeansWhole, history
<1>5. Progress'
  <2>1. \A p : Done(p) \subseteq AppSecrets
    BY DEF Done, AppSecrets
  <2>2. ASSUME NEW c \in Calls, Configuring(c)'
        PROVE  call'[c] = call[c] /\ Configuring(c)
    BY <1>1, <2>2 DEF Configuring, Idle
  <2>3. QED
    BY <1>3, <2>1, <2>2 DEF AppInv, Progress, history
<1>6. QED
  BY <1>2, <1>4, <1>5 DEF AppInv

\* A call begins, ends or is refused; the rows and the configuration stay.
LEMMA OnlyACall ==
  ASSUME AppInv, NEW c \in Calls, NEW p \in Pending,
         call' = [call EXCEPT ![c] = p],
         p.op = "configure" => p.next = PrivateKey,
         UNCHANGED <<stored, keys, config, removed, whole>>,
         alone' \subseteq alone \cup {c}
  PROVE  AppInv'
<1>1. Types' /\ OneKey' /\ Configured' /\ UndisturbedMeansWhole'
  BY DEF AppInv, Types, OneKey, Configured, UndisturbedMeansWhole, Held, Secret, stored
<1>2. Progress'
  <2>1. SUFFICES ASSUME NEW d \in Calls, Configuring(d)', NEW r \in Done(call[d])'
                 PROVE  Held(r)' /\ (d \in alone' => Secret(r)'.value = call'[d].app)
    BY DEF Progress
  <2>2. call'[c] = p /\ \A e \in Calls \ {c} : call'[e] = call[e]
    BY DEF AppInv, Types
  <2>3. d # c
    BY <2>1, <2>2 DEF Configuring, Done
  <2>4. QED
    BY <2>1, <2>2, <2>3 DEF AppInv, Progress, Configuring, Held, Secret, stored
<1>3. QED
  BY <1>1, <1>2 DEF AppInv

(***************************************************************************)
(* Steps that write                                                        *)
(***************************************************************************)

\* The part of putSecret() after its authorisation writes one readable row.
LEMMA StoreWrites ==
  ASSUME Types, OneKey, NEW r \in Resources, NEW v \in Values, Store(r, v),
         UNCHANGED <<metadata, keys>>
  PROVE  /\ secrets' \in [Hmacs -> Row] /\ OneKey'
         /\ metadata # None /\ Secret(r)' # NoSecret /\ Secret(r)'.value = v
         /\ \A q \in Resources \ {r} : Secret(q)' = Secret(q)
<1>1. keys \in Keys /\ keys = metadata /\ <<keys, r>> \in Hmacs /\ metadata # None
  BY DEF Types, OneKey, Store, Hmacs, Keys, None
<1>2. PICK fresh \in Ids :
        LET old == secrets[<<keys, r>>]
            id  == IF old = NoSecret THEN fresh ELSE old.id
        IN  secrets' = [secrets EXCEPT ![<<keys, r>>] =
              [id |-> IF @ = NoSecret THEN id ELSE @.id, key |-> keys, boundTo |-> id, value |-> v]]
  BY DEF Store, FreshIds
<1> DEFINE old == secrets[<<keys, r>>]
           id  == IF old = NoSecret THEN fresh ELSE old.id
           new == [id |-> id, key |-> keys, boundTo |-> id, value |-> v]
<1>3. old \in Row
  BY <1>1 DEF Types
<1>4. id \in Ids \cup {None} /\ new \in Row
  BY <1>1, <1>3 DEF Row
<1>5. secrets' = [secrets EXCEPT ![<<keys, r>>] = new]
  BY <1>2
<1>6. new # NoSecret /\ new.key = keys /\ new.boundTo = new.id /\ new.value = v
  BY <1>1 DEF NoSecret, Keys, None
<1> HIDE DEF new
<1>7. secrets'[<<keys, r>>] = new /\ \A h \in Hmacs \ {<<keys, r>>} : secrets'[h] = secrets[h]
  BY <1>1, <1>5 DEF Types
<1>8. secrets' \in [Hmacs -> Row]
  BY <1>4, <1>5 DEF Types
<1>9. OneKey'
  BY <1>1, <1>6, <1>7 DEF OneKey
<1>10. \A q \in Resources \ {r} : <<metadata, q>> \in Hmacs \ {<<keys, r>>}
  BY <1>1 DEF Hmacs
<1>11. QED
  BY <1>1, <1>6, <1>7, <1>8, <1>9, <1>10 DEF Secret

\* One more secret of the App is held and is the caller's; nobody else is alone any more.
LEMMA StoreAppSecretKeeps ==
  ASSUME AppInv, NEW c \in Calls, StoreAppSecret(c)
  PROVE  AppInv'
<1> DEFINE p == call[c]
           q == [p EXCEPT !.next = IF @ = PrivateKey THEN WebhookSecret ELSE None]
<1>1. p \in [op : {"configure"}, app : Apps, next : AppSecrets]
  BY DEF AppInv, Types, Pending, StoreAppSecret, Configuring, Idle
<1>2. q \in [op : {"configure"}, app : Apps, next : AppSecrets \cup {None}]
      /\ q.app = p.app /\ q.next = IF p.next = PrivateKey THEN WebhookSecret ELSE None
  BY <1>1 DEF AppSecrets
<1>3. call' = [call EXCEPT ![c] = q]
  BY DEF StoreAppSecret
<1> HIDE DEF q
<1>4. call'[c] = q /\ \A d \in Calls \ {c} : call'[d] = call[d]
  BY <1>3 DEF AppInv, Types
<1>5. PICK x \in AppSecrets, a \in Apps : x = p.next /\ a = p.app
  BY <1>1
<1>6. /\ secrets' \in [Hmacs -> Row] /\ OneKey'
      /\ metadata # None /\ Secret(x)' # NoSecret /\ Secret(x)'.value = a
      /\ \A r \in Resources \ {x} : Secret(r)' = Secret(r)
  <2>1. x \in Resources /\ a \in Values /\ Store(x, a) /\ UNCHANGED <<metadata, keys>>
    BY <1>5, AppSecretsAssumption DEF Apps, StoreAppSecret
  <2>2. QED
    BY <2>1, StoreWrites DEF AppInv
<1>7. Types'
  <2>1. call' \in [Calls -> Pending]
    BY <1>2, <1>3 DEF AppInv, Types, Pending
  <2>2. QED
    BY <1>6, <2>1 DEF AppInv, Types, StoreAppSecret
<1>8. /\ \A r \in AppSecrets : Held(r) => Held(r)'
      /\ Held(x)'
  BY <1>5, <1>6, AppSecretsAssumption DEF Held, StoreAppSecret
<1>9. Configured' /\ UndisturbedMeansWhole'
  BY <1>8 DEF AppInv, Configured, UndisturbedMeansWhole, StoreAppSecret
<1>10. Progress'
  <2>1. SUFFICES ASSUME NEW d \in Calls, Configuring(d)', NEW r \in Done(call[d])'
                 PROVE  Held(r)' /\ (d \in alone' => Secret(r)'.value = call'[d].app)
    BY DEF Progress
  <2>2. CASE d # c
    <3>1. Configuring(d) /\ r \in Done(call[d]) /\ r \in AppSecrets /\ d \notin alone'
      BY <1>4, <2>1, <2>2 DEF Configuring, Done, AppSecrets, StoreAppSecret
    <3>2. QED
      BY <1>8, <3>1 DEF AppInv, Progress
  <2>3. CASE d = c
    <3>1. Done(q) = Done(p) \cup {x}
      BY <1>1, <1>2, <1>5, AppSecretsAssumption DEF Done, AppSecrets
    <3>2. CASE r = x
      BY <1>2, <1>4, <1>5, <1>6, <1>8, <2>3, <3>2
    <3>3. CASE r \in Done(p) /\ r # x
      <4>1. r \in AppSecrets /\ Secret(r)' = Secret(r)
        BY <1>6, <3>3, AppSecretsAssumption DEF Done, AppSecrets
      <4>2. Held(r) /\ (c \in alone => Secret(r).value = p.app)
        BY <3>3 DEF AppInv, Progress, StoreAppSecret
      <4>3. QED
        BY <1>2, <1>4, <1>8, <2>3, <4>1, <4>2 DEF StoreAppSecret
    <3>4. QED
      BY <1>4, <2>1, <2>3, <3>1, <3>2, <3>3
  <2>4. QED
    BY <2>2, <2>3
<1>11. QED
  BY <1>6, <1>7, <1>9, <1>10 DEF AppInv

LEMMA WriteConfigKeeps ==
  ASSUME AppInv, NEW c \in Calls, WriteConfig(c)
  PROVE  AppInv'
<1>1. /\ call[c] \in [op : {"configure"}, app : Apps, next : {None}]
      /\ Done(call[c]) = AppSecrets
  BY AppSecretsAssumption DEF AppInv, Types, Pending, WriteConfig, Configuring, Idle, Done, AppSecrets
<1>2. \A r \in AppSecrets : Held(r) /\ (c \in alone => Secret(r).value = call[c].app)
  BY <1>1 DEF AppInv, Progress, WriteConfig
<1>3. call'[c] = Idle /\ \A d \in Calls \ {c} : call'[d] = call[d]
  BY DEF AppInv, Types, WriteConfig
<1>4. \A r : Held(r)' = Held(r) /\ Secret(r)' = Secret(r)
  BY DEF Held, Secret, WriteConfig, stored
<1>5. Types'
  <2>1. call' \in [Calls -> Pending]
    BY DEF AppInv, Types, WriteConfig, Pending
  <2>2. QED
    BY <1>1, <2>1 DEF AppInv, Types, WriteConfig, stored
<1>6. OneKey' /\ Configured'
  BY <1>2, <1>4 DEF AppInv, OneKey, Configured, WriteConfig, stored
<1>7. UndisturbedMeansWhole'
  <2>1. config' \in Apps /\ config' = call[c].app
    BY <1>1 DEF WriteConfig
  <2>2. config' # None
    BY <2>1, AppSecretsAssumption
  <2>3. QED
    BY <1>2, <1>4, <2>1, <2>2 DEF UndisturbedMeansWhole, WriteConfig
<1>8. Progress'
  <2>1. SUFFICES ASSUME NEW d \in Calls, Configuring(d)', NEW r \in Done(call[d])'
                 PROVE  Held(r)' /\ (d \in alone' => Secret(r)'.value = call'[d].app)
    BY DEF Progress
  <2>2. d # c
    BY <1>3, <2>1 DEF Configuring, Idle
  <2>3. Configuring(d) /\ r \in Done(call[d]) /\ call'[d] = call[d]
    BY <1>3, <2>1, <2>2 DEF Configuring
  <2>4. QED
    BY <1>4, <2>3 DEF AppInv, Progress, WriteConfig
<1>9. QED
  BY <1>5, <1>6, <1>7, <1>8 DEF AppInv

\* A secret is put or deleted by somebody else: one row changes, and if it is one of the
\* App's nobody is alone any more.
LEMMA OtherWriteKeeps ==
  ASSUME AppInv, NEW c \in Calls, OtherPuts(c) \/ OtherDeletes(c)
  PROVE  AppInv'
<1>1. PICK x \in Resources :
        x = call[c].resource /\ (OtherPuts(c) => call[c].value \in Values)
  BY DEF AppInv, Types, Pending, OtherPuts, OtherDeletes, PutSecret, DeleteSecret, Idle
<1>2. /\ UNCHANGED <<keyFile, drawn, metadata, keys, config>>
      /\ call' = [call EXCEPT ![c] = Idle]
      /\ OtherWrites(x)
  BY <1>1 DEF OtherPuts, OtherDeletes, PutSecret, DeleteSecret
<1>3. /\ secrets' \in [Hmacs -> Row] /\ OneKey'
      /\ \A q \in Resources \ {x} : Secret(q)' = Secret(q)
      /\ metadata # None /\ (x \in removed' \/ Secret(x)' # NoSecret)
      /\ \A r \in removed : r \in removed' \/ r = x
  <2>1. CASE OtherPuts(c)
    <3>1. PICK v \in Values : Store(x, v)
      BY <1>1, <2>1 DEF OtherPuts, PutSecret
    <3>2. removed' = removed \ {x}
      BY <1>1, <2>1 DEF OtherPuts
    <3>3. QED
      BY <1>2, <3>1, <3>2, StoreWrites DEF AppInv
  <2>2. CASE OtherDeletes(c)
    <3>1. keys \in Keys /\ keys = metadata /\ <<keys, x>> \in Hmacs /\ metadata # None
      BY <1>1, <2>2 DEF AppInv, Types, OneKey, OtherDeletes, DeleteSecret, Hmacs, Keys, None
    <3>2. NoSecret \in Row
      BY DEF NoSecret, Row
    <3>3. secrets' = [secrets EXCEPT ![<<keys, x>>] = NoSecret]
      BY <1>1, <2>2 DEF OtherDeletes, DeleteSecret
    <3>4. secrets'[<<keys, x>>] = NoSecret
          /\ \A h \in Hmacs \ {<<keys, x>>} : secrets'[h] = secrets[h]
      BY <3>1, <3>3 DEF AppInv, Types
    <3>5. \A q \in Resources \ {x} : <<metadata, q>> \in Hmacs \ {<<keys, x>>}
      BY <3>1 DEF Hmacs
    <3>6. secrets' \in [Hmacs -> Row]
      BY <3>2, <3>3 DEF AppInv, Types
    <3>7. OneKey'
      BY <1>2, <3>4 DEF AppInv, OneKey
    <3>8. QED
      BY <1>1, <1>2, <2>2, <3>1, <3>4, <3>5, <3>6, <3>7 DEF Secret, OtherDeletes
  <2>3. QED
    BY <2>1, <2>2
<1>4. call'[c] = Idle /\ \A d \in Calls \ {c} : call'[d] = call[d]
  BY <1>2 DEF AppInv, Types
<1>5. Types'
  <2>1. call' \in [Calls -> Pending]
    BY <1>2 DEF AppInv, Types, Pending
  <2>2. QED
    BY <1>2, <1>3, <2>1 DEF AppInv, Types
<1>6. \A r \in AppSecrets : Held(r) => Held(r)'
  BY <1>2, <1>3, AppSecretsAssumption DEF Held
<1>7. \A r \in AppSecrets : x \notin AppSecrets => Secret(r)' = Secret(r)
  BY <1>3, AppSecretsAssumption
<1>8. Configured' /\ UndisturbedMeansWhole'
  BY <1>2, <1>6, <1>7 DEF AppInv, Configured, UndisturbedMeansWhole, OtherWrites
<1>9. Progress'
  <2>1. SUFFICES ASSUME NEW d \in Calls, Configuring(d)', NEW r \in Done(call[d])'
                 PROVE  Held(r)' /\ (d \in alone' => Secret(r)'.value = call'[d].app)
    BY DEF Progress
  <2>2. d # c
    BY <1>4, <2>1 DEF Configuring, Idle
  <2>3. Configuring(d) /\ r \in Done(call[d]) /\ call'[d] = call[d] /\ r \in AppSecrets
    BY <1>4, <2>1, <2>2 DEF Configuring, Done, AppSecrets
  <2>4. d \in alone' => d \in alone /\ x \notin AppSecrets
    BY <1>2 DEF OtherWrites
  <2>5. QED
    BY <1>6, <1>7, <2>3, <2>4 DEF AppInv, Progress
<1>10. QED
  BY <1>3, <1>5, <1>8, <1>9 DEF AppInv

(***************************************************************************)
(* The theorems                                                            *)
(***************************************************************************)
LEMMA AppInductive == AppSpec => []AppInv
<1>1. AppInit => AppInv
  <2> SUFFICES ASSUME AppInit
               PROVE  AppInv
    OBVIOUS
  <2>1. Types
    <3>1. NoSecret \in Row
      BY DEF NoSecret, Row
    <3>2. QED
      BY <3>1, KeysAssumption DEF AppInit, VaultInit, Types, Pending
  <2>2. OneKey
    BY DEF AppInit, VaultInit, OneKey
  <2>3. Progress
    BY DEF AppInit, VaultInit, Progress, Configuring, Idle
  <2>4. Configured /\ UndisturbedMeansWhole
    BY DEF AppInit, Configured, UndisturbedMeansWhole
  <2>5. QED
    BY <2>1, <2>2, <2>3, <2>4 DEF AppInv
<1>2. AppInv /\ [AppNext]_appVars => AppInv'
  <2> SUFFICES ASSUME AppInv, [AppNext]_appVars
               PROVE  AppInv'
    OBVIOUS
  <2>1. CASE (VaultLifecycle \/ ProcessDies) /\ UNCHANGED history
    BY <2>1, Lifecycle
  <2>2. ASSUME NEW c \in Calls, NEW a \in Apps, Configure(c, a)
        PROVE  AppInv'
    <3> DEFINE p == [op |-> "configure", app |-> a, next |-> PrivateKey]
    <3>1. p \in Pending /\ p.next = PrivateKey
      BY DEF Pending, AppSecrets
    <3> HIDE DEF p
    <3>2. /\ call' = [call EXCEPT ![c] = p]
          /\ UNCHANGED <<stored, keys, config, removed, whole>> /\ alone' \subseteq alone \cup {c}
      BY <2>2 DEF Configure, p
    <3>3. QED
      BY <3>1, <3>2, OnlyACall
  <2>3. ASSUME NEW c \in Calls, StoreAppSecret(c)
        PROVE  AppInv'
    BY <2>3, StoreAppSecretKeeps
  <2>4. ASSUME NEW c \in Calls, WriteConfig(c)
        PROVE  AppInv'
    BY <2>4, WriteConfigKeeps
  <2>5. ASSUME NEW c \in Calls, OtherPuts(c) \/ OtherDeletes(c)
        PROVE  AppInv'
    BY <2>5, OtherWriteKeeps
  <2>6. ASSUME NEW c \in Calls, OtherCall(c)
        PROVE  AppInv'
    <3>1. PICK p \in Pending : call' = [call EXCEPT ![c] = p] /\ p.op # "configure"
      <4>1. ASSUME NEW r \in Resources, NEW v \in Values, AskToPut(c, r, v)
            PROVE  \E p \in Pending : call' = [call EXCEPT ![c] = p] /\ p.op # "configure"
        <5> DEFINE p == [op |-> "put", resource |-> r, value |-> v]
        <5>1. p \in Pending /\ p.op # "configure" /\ call' = [call EXCEPT ![c] = p]
          BY <4>1 DEF AskToPut, Pending
        <5>2. QED
          BY <5>1
      <4>2. ASSUME NEW r \in Resources, AskToDelete(c, r)
            PROVE  \E p \in Pending : call' = [call EXCEPT ![c] = p] /\ p.op # "configure"
        <5> DEFINE p == [op |-> "delete", resource |-> r]
        <5>1. p \in Pending /\ p.op # "configure" /\ call' = [call EXCEPT ![c] = p]
          BY <4>2 DEF AskToDelete, Pending
        <5>2. QED
          BY <5>1
      <4>3. ASSUME Refuse(c)
            PROVE  \E p \in Pending : call' = [call EXCEPT ![c] = p] /\ p.op # "configure"
        <5>1. Idle \in Pending /\ Idle.op # "configure"
          BY DEF Pending, Idle
        <5>2. QED
          BY <4>3, <5>1 DEF Refuse
      <4>4. QED
        BY <2>6, <4>1, <4>2, <4>3 DEF OtherCall
    <3>2. UNCHANGED <<stored, keys, config, removed, whole>> /\ alone' \subseteq alone \cup {c}
      BY <2>6 DEF OtherCall, AskToPut, AskToDelete, Refuse, history
    <3>3. QED
      BY <3>1, <3>2, OnlyACall
  <2>7. CASE UNCHANGED appVars
    BY <2>7 DEF appVars, vaultVars, stored, history, AppInv, Types, OneKey, Progress, Configured,
       UndisturbedMeansWhole, Held, Secret, Configuring
  <2>8. QED
    BY <2>1, <2>2, <2>3, <2>4, <2>5, <2>6, <2>7 DEF AppNext, AppCall
<1>3. QED
  BY <1>1, <1>2, PTL DEF AppSpec

\* Whatever becomes of the key file, the process or another call, a vault that serves can
\* read every secret it has.
THEOREM VaultStaysReadable == AppSpec => []SecretsAreReadable
<1>1. AppInv => SecretsAreReadable
  BY DEF AppInv, OneKey, SecretsAreReadable
<1>2. QED
  BY <1>1, AppInductive, PTL

\* An App on record has its two secrets, unless they were deleted in the vault.
THEOREM ConfigurationIsBacked == AppSpec => []ConfiguredHasItsSecrets
<1>1. AppInv => ConfiguredHasItsSecrets
  BY DEF AppInv, Configured, Held, ConfiguredHasItsSecrets, AppSecrets
<1>2. QED
  BY <1>1, AppInductive, PTL

\* Without another writer in between, id, private key and webhook secret are of one App.
THEOREM OneAppAtATime == AppSpec => []UndisturbedMeansWhole
<1>1. AppInv => UndisturbedMeansWhole
  BY DEF AppInv
<1>2. QED
  BY <1>1, AppInductive, PTL
=============================================================================

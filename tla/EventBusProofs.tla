--------------------------- MODULE EventBusProofs ---------------------------
(***************************************************************************)
(* Delivery on the event bus, for any number of events, publications and   *)
(* subscriptions.                                                          *)
(***************************************************************************)
EXTENDS EventBus, WellFoundedInduction, TLAPS

(***************************************************************************)
(* The inductive invariant                                                 *)
(***************************************************************************)
\* An id that was not given out is untouched; a once subscription that is still on the bus was
\* not called.
SubscriptionInv ==
  \A i \in Ids :
    /\ i >= next => ~sub[i].active /\ ~sub[i].once /\ calls[i] = 0
    /\ sub[i].once => calls[i] <= 1
    /\ sub[i].once /\ sub[i].active => calls[i] = 0

\* What a publication began with is older than it is, and what it has passed and is still on
\* the bus was called.
PublicationInv ==
  \A k \in Publications :
    /\ pub[k].limit <= next
    /\ \A i \in pub[k].snapshot : i < pub[k].limit
    /\ \A i \in pub[k].snapshot : sub[i].active /\ i <= pub[k].handler => i \in pub[k].served
    /\ pub[k].handler = 0 => pub[k] = NoPublication

BInv == BTypeOK /\ SubscriptionInv /\ PublicationInv

(***************************************************************************)
(* Operators                                                               *)
(***************************************************************************)
LEMMA IdsAreNaturals == Ids \subseteq Nat \ {0} /\ Ids \subseteq Int /\ MaxId \in Nat
BY LimitsAssumption DEF Ids

\* The handlers of a set are called from the oldest: the set has one.
LEMMA LeastIs ==
  ASSUME NEW S \in SUBSET Ids, S # {}
  PROVE  Least(S) \in S /\ \A j \in S : Least(S) <= j
<1> DEFINE Less == OpToRel(<, Nat)
<1>1. IsWellFoundedOn(Less, Nat)
  BY NatLessThanWellFounded
<1>2. \A x, y \in Nat : x < y => <<x, y>> \in Less
  BY DEF OpToRel
<1>3. S \subseteq Nat
  BY LimitsAssumption DEF Ids
<1> HIDE DEF Less
<1>4. PICK x \in S : \A y \in S : <<y, x>> \notin Less
  BY <1>1, <1>3, WFMin
<1>5. \A y \in S : x <= y
  <2>1. SUFFICES ASSUME NEW y \in S
                 PROVE  x <= y
    OBVIOUS
  <2>2. x \in Nat /\ y \in Nat /\ <<y, x>> \notin Less
    BY <1>3, <1>4
  <2>3. ~(y < x)
    BY <1>2, <2>2, Zenon
  <2>4. QED
    BY <2>2, <2>3
<1>6. QED
  BY <1>5 DEF Least

LEMMA DeactivatedIs ==
  ASSUME BTypeOK, NEW S
  PROVE  /\ Deactivated(S) \in [Ids -> Subscription]
         /\ \A i \in Ids : /\ Deactivated(S)[i].once = sub[i].once
                           /\ Deactivated(S)[i].active => sub[i].active /\ i \notin S
                           /\ i \in S \/ Deactivated(S)[i] = sub[i]
BY DEF BTypeOK, Deactivated, Subscription

LEMMA NoPublicationIs ==
  /\ NoPublication \in Publication /\ NoPublication.handler = 0 /\ NoPublication.limit = 1
  /\ NoPublication.snapshot = {} /\ NoPublication.served = {}
BY LimitsAssumption DEF NoPublication, Publication

\* A publication that begins
LEMMA Begun ==
  ASSUME NEW S \in SUBSET Ids, NEW n \in 1 .. MaxId + 1
  PROVE  LET r == [NoPublication EXCEPT !.snapshot = S, !.limit = n] IN
         /\ r \in Publication /\ r.snapshot = S /\ r.limit = n /\ r.handler = 0 /\ r.served = {}
<1>1. [NoPublication EXCEPT !.snapshot = S, !.limit = n] \in Publication
  BY NoPublicationIs DEF Publication
<1>2. QED
  BY <1>1, NoPublicationIs DEF Publication

\* ... and one that goes on
LEMMA GoneOn ==
  ASSUME NEW q \in Publication, NEW threw \in BOOLEAN
  PROVE  LET r == [q EXCEPT !.failed = @ \/ threw] IN
         /\ r \in Publication /\ r.snapshot = q.snapshot /\ r.limit = q.limit
         /\ r.handler = q.handler /\ r.served = q.served
BY DEF Publication

\* What Calls does, with the handler it calls
Returns(k) == pub' = [pub EXCEPT ![k] = NoPublication] /\ sub' = sub /\ calls' = calls

CallsHandler(k, r, todo, i) ==
  /\ i \in todo /\ \A j \in todo : i <= j
  /\ pub' = [pub EXCEPT ![k] = [r EXCEPT !.handler = i, !.served = r.served \cup {i}]]
  /\ calls' = [calls EXCEPT ![i] = IF calls[i] < 2 THEN calls[i] + 1 ELSE calls[i]]
  /\ sub' = Deactivated(IF sub[i].once THEN {i} ELSE {})

LEMMA CallsIs ==
  ASSUME NEW k, NEW r \in Publication, NEW todo \in SUBSET Ids, Calls(k, r, todo), BTypeOK
  PROVE  \/ todo = {} /\ Returns(k)
         \/ \E i \in Ids : CallsHandler(k, r, todo, i)
<1>1. CASE todo = {}
  BY <1>1 DEF Calls, Returns
<1>2. CASE todo # {}
  <2>1. Least(todo) \in todo /\ \A j \in todo : Least(todo) <= j
    BY <1>2, LeastIs
  <2>2. CallsHandler(k, r, todo, Least(todo))
    BY <1>2, <2>1 DEF Calls, CallsHandler, BTypeOK, Publication
  <2>3. QED
    BY <2>1, <2>2
<1>3. QED
  BY <1>1, <1>2

\* The record a publication has when it calls a handler
LEMMA Called ==
  ASSUME NEW r \in Publication, NEW i \in Ids
  PROVE  LET s == [r EXCEPT !.handler = i, !.served = r.served \cup {i}] IN
         /\ s \in Publication /\ s.handler = i /\ s.served = r.served \cup {i}
         /\ s.snapshot = r.snapshot /\ s.limit = r.limit
<1>1. i \in 0 .. MaxId
  BY LimitsAssumption DEF Ids
<1>2. r.served \cup {i} \in SUBSET Ids
  BY DEF Publication
<1>3. QED
  BY <1>1, <1>2 DEF Publication

(***************************************************************************)
(* Steps                                                                   *)
(***************************************************************************)
\* The steps that only take subscriptions off the bus
Removal == \E S : sub' = Deactivated(S) /\ UNCHANGED <<next, pub, calls>>

LEMMA RemovalKeeps ==
  ASSUME BInv, Removal
  PROVE  BInv'
<1>1. PICK S : sub' = Deactivated(S) /\ UNCHANGED <<next, pub, calls>>
  BY DEF Removal
<1>2. /\ sub' \in [Ids -> Subscription]
      /\ \A i \in Ids : sub'[i].once = sub[i].once /\ (sub'[i].active => sub[i].active)
  BY <1>1, DeactivatedIs DEF BInv
<1>3. BTypeOK'
  BY <1>1, <1>2 DEF BInv, BTypeOK
<1>4. SubscriptionInv'
  BY <1>1, <1>2 DEF BInv, SubscriptionInv
<1>5. PublicationInv'
  <2>1. \A k \in Publications : pub[k].snapshot \subseteq Ids
    BY DEF BInv, BTypeOK, Publication
  <2>2. QED
    BY <1>1, <1>2, <2>1 DEF BInv, PublicationInv
<1>6. QED
  BY <1>3, <1>4, <1>5 DEF BInv

LEMMA SubscribeKeeps ==
  ASSUME BInv, NEW topic \in Topics, NEW once \in BOOLEAN, Subscribe(topic, once)
  PROVE  BInv'
<1>1. /\ next \in Ids /\ next' = next + 1 /\ pub' = pub /\ calls' = calls
      /\ sub' = [sub EXCEPT ![next] = [topic |-> topic, once |-> once, active |-> TRUE]]
      /\ next \in Int
  BY LimitsAssumption DEF Subscribe, BInv, BTypeOK, Ids
<1>2. BTypeOK'
  BY <1>1, LimitsAssumption DEF BInv, BTypeOK, Subscription, Ids
<1>3. \A i \in Ids : i = next \/ sub'[i] = sub[i]
  BY <1>1 DEF BInv, BTypeOK
<1>4. SubscriptionInv'
  <2>1. SUFFICES ASSUME NEW i \in Ids
                 PROVE  /\ i >= next' => ~sub'[i].active /\ ~sub'[i].once /\ calls[i] = 0
                        /\ sub'[i].once => calls[i] <= 1
                        /\ sub'[i].once /\ sub'[i].active => calls[i] = 0
    BY <1>1 DEF SubscriptionInv
  <2>2. CASE i = next
    <3>1. calls[i] = 0 /\ ~(i >= next')
      BY <1>1, <2>2 DEF BInv, SubscriptionInv
    <3>2. QED
      BY <3>1
  <2>3. CASE i # next
    BY <1>1, <1>3, <2>3, IdsAreNaturals DEF BInv, SubscriptionInv
  <2>4. QED
    BY <2>2, <2>3
<1>5. PublicationInv'
  <2>1. SUFFICES ASSUME NEW k \in Publications
                 PROVE  /\ pub[k].limit <= next'
                        /\ \A i \in pub[k].snapshot : i < pub[k].limit
                        /\ \A i \in pub[k].snapshot : sub'[i].active /\ i <= pub[k].handler => i \in pub[k].served
                        /\ pub[k].handler = 0 => pub[k] = NoPublication
    BY <1>1 DEF PublicationInv
  <2>2. pub[k].limit \in Int /\ pub[k].snapshot \subseteq Ids
    BY DEF BInv, BTypeOK, Publication
  <2>3. \A i \in pub[k].snapshot : i # next /\ sub'[i] = sub[i]
    BY <1>1, <1>3, <2>2, IdsAreNaturals DEF BInv, PublicationInv
  <2>4. QED
    BY <1>1, <2>2, <2>3 DEF BInv, PublicationInv
<1>6. QED
  BY <1>2, <1>4, <1>5 DEF BInv

\* A publication calls a handler it began with, that is subscribed and that comes after all
\* those it has passed; or it returns, when there is none.
Continues(k) ==
  \E r \in Publication, todo \in SUBSET Ids :
    /\ Calls(k, r, todo) /\ next' = next
    /\ todo = {i \in r.snapshot : sub[i].active /\ i > r.handler}
    /\ r.limit <= next
    /\ \A i \in r.snapshot : i < r.limit
    /\ \A i \in r.snapshot : sub[i].active /\ i <= r.handler => i \in r.served
    /\ r.served = pub[k].served
    /\ pub[k].handler # 0 => r.snapshot = pub[k].snapshot

LEMMA PublishContinues ==
  ASSUME BInv, NEW k \in Publications, NEW e \in Events, Publish(k, e)
  PROVE  Continues(k)
<1> DEFINE S == Matching(e)
           r == [NoPublication EXCEPT !.snapshot = S, !.limit = next]
<1>1. S \in SUBSET Ids /\ \A i \in S : sub[i].active
  BY DEF Matching, Listeners, Active
<1>2. next \in 1 .. MaxId + 1 /\ next \in Int
  BY LimitsAssumption DEF BInv, BTypeOK
<1>3. Calls(k, r, S) /\ next' = next /\ pub[k] = NoPublication
  BY DEF Publish, BInv, PublicationInv
<1>4. \A i \in S : i < next
  <2>1. SUFFICES ASSUME NEW i \in S
                 PROVE  i < next
    OBVIOUS
  <2>2. i \in Ids /\ sub[i].active
    BY <1>1
  <2>3. ~(i >= next)
    BY <2>2 DEF BInv, SubscriptionInv
  <2>4. QED
    BY <1>2, <2>2, <2>3, IdsAreNaturals
<1> HIDE DEF S
<1>5. r \in Publication /\ r.snapshot = S /\ r.limit = next /\ r.handler = 0 /\ r.served = {}
  BY <1>1, <1>2, Begun
<1> HIDE DEF r
<1>6. \A i \in S : i > 0 /\ ~(i <= 0)
  <2>1. \A i \in S : i \in Nat \ {0}
    BY <1>1, IdsAreNaturals
  <2>2. QED
    BY <2>1
<1>7. S = {i \in r.snapshot : sub[i].active /\ i > r.handler}
  BY <1>1, <1>5, <1>6
<1>8. \A i \in r.snapshot : ~(i <= r.handler)
  BY <1>5, <1>6
<1>9. r.served = pub[k].served /\ pub[k].handler = 0
  BY <1>3, <1>5, NoPublicationIs
<1>10. QED
  BY <1>1, <1>2, <1>3, <1>4, <1>5, <1>7, <1>8, <1>9 DEF Continues

LEMMA HandlerEndsContinues ==
  ASSUME BInv, NEW k \in Publications, NEW threw \in BOOLEAN, HandlerEnds(k, threw)
  PROVE  Continues(k)
<1> DEFINE r == [pub[k] EXCEPT !.failed = @ \/ threw]
<1>1. pub[k] \in Publication
  BY DEF BInv, BTypeOK
<1>2. Calls(k, r, Remaining(r)) /\ next' = next
  BY DEF HandlerEnds
<1>3. /\ r \in Publication /\ r.snapshot = pub[k].snapshot /\ r.limit = pub[k].limit
      /\ r.handler = pub[k].handler /\ r.served = pub[k].served
  BY <1>1, GoneOn
<1> HIDE DEF r
<1>4. r.snapshot \subseteq Ids
  BY <1>3 DEF Publication
<1>5. Remaining(r) = {i \in r.snapshot : sub[i].active /\ i > r.handler}
  BY <1>4 DEF Remaining, Active
<1>6. Remaining(r) \in SUBSET Ids
  BY <1>4, <1>5
<1>7. /\ r.limit <= next
      /\ \A i \in r.snapshot : i < r.limit
      /\ \A i \in r.snapshot : sub[i].active /\ i <= r.handler => i \in r.served
  BY <1>3 DEF BInv, PublicationInv
<1>8. QED
  BY <1>2, <1>3, <1>5, <1>6, <1>7 DEF Continues

LEMMA ContinuesKeeps ==
  ASSUME BInv, NEW k \in Publications, Continues(k)
  PROVE  BInv'
<1>1. PICK r \in Publication, todo \in SUBSET Ids :
        /\ Calls(k, r, todo) /\ next' = next
        /\ todo = {i \in r.snapshot : sub[i].active /\ i > r.handler}
        /\ r.limit <= next
        /\ \A i \in r.snapshot : i < r.limit
        /\ \A i \in r.snapshot : sub[i].active /\ i <= r.handler => i \in r.served
  BY DEF Continues
<1>0. /\ BTypeOK /\ pub \in [Publications -> Publication] /\ next \in Int
      /\ r.snapshot \subseteq Ids
  BY LimitsAssumption DEF BInv, BTypeOK, Publication
<1>2. CASE Returns(k)
  <2>1. /\ pub' \in [Publications -> Publication] /\ pub'[k] = NoPublication
        /\ \A j \in Publications : j # k => pub'[j] = pub[j]
    BY <1>0, <1>2, NoPublicationIs DEF Returns
  <2>2. PublicationInv'
    <3>1. next >= 1
      BY LimitsAssumption DEF BInv, BTypeOK
    <3>2. QED
      BY <1>1, <1>2, <2>1, <3>1, NoPublicationIs DEF Returns, BInv, PublicationInv
  <2>3. QED
    BY <1>1, <1>2, <2>1, <2>2 DEF Returns, BInv, BTypeOK, SubscriptionInv
<1>3. ASSUME NEW i \in Ids, CallsHandler(k, r, todo, i)
      PROVE  BInv'
  <2> DEFINE s == [r EXCEPT !.handler = i, !.served = r.served \cup {i}]
             D == IF sub[i].once THEN {i} ELSE {}
  <2>1. pub' = [pub EXCEPT ![k] = s] /\ sub' = Deactivated(D)
    BY <1>3 DEF CallsHandler
  <2>2. /\ s \in Publication /\ s.handler = i /\ s.served = r.served \cup {i}
        /\ s.snapshot = r.snapshot /\ s.limit = r.limit
    BY Called
  <2> HIDE DEF s
  <2>3. /\ sub' \in [Ids -> Subscription]
        /\ \A j \in Ids : /\ sub'[j].once = sub[j].once
                          /\ sub'[j].active => sub[j].active /\ j \notin D
    BY <1>0, <2>1, DeactivatedIs
  <2>4. /\ i \in r.snapshot /\ sub[i].active /\ i > r.handler
        /\ \A j \in r.snapshot : sub[j].active /\ j > r.handler => i <= j
    BY <1>1, <1>3 DEF CallsHandler
  <2>5. /\ calls \in [Ids -> 0 .. 2] /\ calls' \in [Ids -> 0 .. 2]
        /\ \A j \in Ids : j # i => calls'[j] = calls[j]
        /\ calls[i] = 0 => calls'[i] = 1
    BY <1>0, <1>3 DEF CallsHandler, BTypeOK
  <2>6. BTypeOK'
    BY <1>0, <1>1, <2>1, <2>2, <2>3, <2>5 DEF BTypeOK
  <2>7. SubscriptionInv'
    <3>1. SUFFICES ASSUME NEW j \in Ids
                   PROVE  /\ j >= next => ~sub'[j].active /\ ~sub'[j].once /\ calls'[j] = 0
                          /\ sub'[j].once => calls'[j] <= 1
                          /\ sub'[j].once /\ sub'[j].active => calls'[j] = 0
      BY <1>1 DEF SubscriptionInv
    <3>2. CASE j # i
      BY <2>3, <2>5, <3>2 DEF BInv, SubscriptionInv
    <3>3. CASE j = i
      <4>1. ~(j >= next) /\ (sub[i].once => calls[i] = 0)
        BY <2>4, <3>3 DEF BInv, SubscriptionInv
      <4>2. sub'[j].once => calls'[j] = 1 /\ ~sub'[j].active
        BY <2>3, <2>5, <3>3, <4>1
      <4>3. QED
        BY <4>1, <4>2
    <3>4. QED
      BY <3>2, <3>3
  <2>8. PublicationInv'
    <3>1. SUFFICES ASSUME NEW j \in Publications
                   PROVE  /\ pub'[j].limit <= next
                          /\ \A x \in pub'[j].snapshot : x < pub'[j].limit
                          /\ \A x \in pub'[j].snapshot : sub'[x].active /\ x <= pub'[j].handler => x \in pub'[j].served
                          /\ pub'[j].handler = 0 => pub'[j] = NoPublication
      BY <1>1 DEF PublicationInv
    <3>2. CASE j = k
      <4>1. pub'[j] = s
        BY <1>0, <2>1, <3>2
      <4>2. ASSUME NEW x \in r.snapshot, sub'[x].active, x <= i
            PROVE  x \in s.served
        <5>1. x \in Ids /\ sub[x].active /\ x \in Int /\ i \in Int /\ r.handler \in Int
          BY <1>0, <2>3, <4>2, IdsAreNaturals, LimitsAssumption DEF Publication
        <5>2. CASE x <= r.handler
          BY <1>1, <2>2, <5>1, <5>2
        <5>3. CASE x > r.handler
          <6>1. x = i
            BY <2>4, <4>2, <5>1, <5>3
          <6>2. QED
            BY <2>2, <6>1
        <5>4. QED
          BY <5>1, <5>2, <5>3
      <4>3. s.handler # 0
        BY <2>2, IdsAreNaturals
      <4>4. QED
        BY <1>1, <2>2, <4>1, <4>2, <4>3
    <3>3. CASE j # k
      <4>1. pub'[j] = pub[j] /\ pub[j].snapshot \subseteq Ids
        BY <1>0, <2>1, <3>3 DEF Publication
      <4>2. QED
        BY <2>3, <4>1 DEF BInv, PublicationInv
    <3>4. QED
      BY <3>2, <3>3
  <2>9. QED
    BY <2>6, <2>7, <2>8 DEF BInv
<1>4. QED
  BY <1>0, <1>1, <1>2, <1>3, CallsIs

\* The kinds of steps
LEMMA NextIs ==
  ASSUME BInv, [BNext]_busVars
  PROVE  \/ Removal
         \/ \E topic \in Topics, once \in BOOLEAN : Subscribe(topic, once)
         \/ \E k \in Publications : Continues(k)
         \/ UNCHANGED busVars
<1>1. CASE \E i \in Ids : Unsubscribe(i)
  BY <1>1 DEF Unsubscribe, Removal
<1>2. CASE Clear(Active) \/ \E topic \in Topics : Clear(Listeners(topic))
  BY <1>2 DEF Clear, Removal
<1>3. QED
  BY <1>1, <1>2, PublishContinues, HandlerEndsContinues DEF BNext

LEMMA Inits == BInit => BInv
<1>1. SUFFICES ASSUME BInit
               PROVE  BInv
  OBVIOUS
<1>2. BTypeOK
  <2>1. NoSubscription \in Subscription
    BY DEF NoSubscription, Subscription, Topics
  <2>2. sub \in [Ids -> Subscription]
    BY <1>1, <2>1 DEF BInit
  <2>3. next \in 1 .. MaxId + 1
    BY <1>1, LimitsAssumption DEF BInit
  <2>4. pub \in [Publications -> Publication]
    BY <1>1, NoPublicationIs DEF BInit
  <2>5. calls \in [Ids -> 0 .. 2]
    BY <1>1 DEF BInit
  <2>6. QED
    BY <2>2, <2>3, <2>4, <2>5 DEF BTypeOK
<1>3. SubscriptionInv
  BY <1>1 DEF BInit, SubscriptionInv, NoSubscription
<1>4. PublicationInv
  BY <1>1, NoPublicationIs DEF BInit, PublicationInv
<1>5. QED
  BY <1>2, <1>3, <1>4 DEF BInv

(***************************************************************************)
(* Theorems                                                                *)
(***************************************************************************)
\* The invariant is inductive: event-bus.ts with any number of handlers and publications.
THEOREM BusInductive == BSpec => []BInv
<1>1. BInv /\ [BNext]_busVars => BInv'
  <2>1. SUFFICES ASSUME BInv, [BNext]_busVars
                 PROVE  BInv'
    OBVIOUS
  <2>2. CASE UNCHANGED busVars
    BY <2>1, <2>2 DEF busVars, BInv, BTypeOK, SubscriptionInv, PublicationInv
  <2>3. QED
    BY <2>1, <2>2, NextIs, RemovalKeeps, SubscribeKeeps, ContinuesKeeps
<1>2. QED
  BY <1>1, Inits, PTL DEF BSpec

\* Every variable has its type.
THEOREM BusTypes == BSpec => []BTypeOK
BY BusInductive, PTL DEF BInv

\* once(): #deactivate() comes before the handler is awaited, so no publication, of the handler
\* itself or of another, calls it a second time.
THEOREM OnceIsOnce == BSpec => []OnceMeansOnce
<1>1. BInv => OnceMeansOnce
  BY DEF BInv, SubscriptionInv, OnceMeansOnce
<1>2. QED
  BY <1>1, BusInductive, PTL

\* publishEvent() goes on after a handler that threw, and after handlers that came and went.
THEOREM EveryoneIsServed == BSpec => NobodyIsLeftOver
<1>1. BInv /\ [BNext]_busVars =>
        \A k \in Publications :
          (pub[k].handler # 0 /\ pub'[k].handler = 0) => pub[k].snapshot \cap Active \subseteq pub[k].served
  <2>1. SUFFICES ASSUME BInv, [BNext]_busVars, NEW k \in Publications,
                        pub[k].handler # 0, pub'[k].handler = 0
                 PROVE  pub[k].snapshot \cap Active \subseteq pub[k].served
    OBVIOUS
  <2>2. pub \in [Publications -> Publication]
    BY <2>1 DEF BInv, BTypeOK
  <2>3. pub' # pub
    BY <2>1
  <2>4. PICK j \in Publications : Continues(j)
    BY <2>1, <2>3, NextIs DEF Removal, Subscribe, busVars
  <2>5. PICK r \in Publication, todo \in SUBSET Ids :
          /\ Calls(j, r, todo)
          /\ todo = {i \in r.snapshot : sub[i].active /\ i > r.handler}
          /\ \A i \in r.snapshot : sub[i].active /\ i <= r.handler => i \in r.served
          /\ r.served = pub[j].served
          /\ pub[j].handler # 0 => r.snapshot = pub[j].snapshot
    BY <2>4 DEF Continues
  <2>6. ASSUME NEW i \in Ids, CallsHandler(j, r, todo, i)
        PROVE  FALSE
    <3>1. pub' = [pub EXCEPT ![j] = [r EXCEPT !.handler = i, !.served = r.served \cup {i}]]
      BY <2>6 DEF CallsHandler
    <3>2. [r EXCEPT !.handler = i, !.served = r.served \cup {i}].handler # 0
      BY Called, IdsAreNaturals
    <3>3. QED
      BY <2>1, <2>2, <3>1, <3>2
  <2>7. todo = {} /\ Returns(j)
    BY <2>1, <2>5, <2>6, CallsIs DEF BInv
  <2>8. j = k
    BY <2>1, <2>2, <2>7 DEF Returns
  <2>9. \A i \in r.snapshot : sub[i].active => i <= r.handler
    <3>1. r.snapshot \subseteq Int /\ r.handler \in Int
      <4>1. r.snapshot \subseteq Ids /\ r.handler \in 0 .. MaxId
        BY DEF Publication
      <4>2. QED
        BY <4>1, IdsAreNaturals
    <3>2. QED
      BY <2>5, <2>7, <3>1
  <2>10. QED
    BY <2>1, <2>5, <2>8, <2>9 DEF Active
<1>2. QED
  BY <1>1, BusInductive, PTL DEF BSpec, NobodyIsLeftOver

\* publishEvent() copies the subscriptions before it calls the first handler and asks each one
\* whether it is still active.
THEOREM OnlySubscribersAreCalled == BSpec => CalledWhileSubscribed
<1>1. BInv /\ [BNext]_busVars =>
        \A k \in Publications : \A i \in pub'[k].served \ pub[k].served :
          i \in Active /\ i < pub'[k].limit
  <2>1. SUFFICES ASSUME BInv, [BNext]_busVars, NEW k \in Publications,
                        NEW x \in pub'[k].served, x \notin pub[k].served
                 PROVE  x \in Active /\ x < pub'[k].limit
    OBVIOUS
  <2>2. pub \in [Publications -> Publication]
    BY <2>1 DEF BInv, BTypeOK
  <2>3. pub' # pub
    BY <2>1
  <2>4. PICK j \in Publications : Continues(j)
    BY <2>1, <2>3, NextIs DEF Removal, Subscribe, busVars
  <2>5. PICK r \in Publication, todo \in SUBSET Ids :
          /\ Calls(j, r, todo)
          /\ todo = {i \in r.snapshot : sub[i].active /\ i > r.handler}
          /\ \A i \in r.snapshot : i < r.limit
          /\ r.served = pub[j].served
    BY <2>4 DEF Continues
  <2>6. CASE Returns(j)
    BY <2>1, <2>2, <2>6, NoPublicationIs DEF Returns
  <2>7. ASSUME NEW i \in Ids, CallsHandler(j, r, todo, i)
        PROVE  x \in Active /\ x < pub'[k].limit
    <3> DEFINE s == [r EXCEPT !.handler = i, !.served = r.served \cup {i}]
    <3>1. pub' = [pub EXCEPT ![j] = s] /\ i \in todo
      BY <2>7 DEF CallsHandler
    <3>2. s.served = r.served \cup {i} /\ s.limit = r.limit
      BY Called
    <3> HIDE DEF s
    <3>3. j = k /\ pub'[k] = s
      BY <2>1, <2>2, <3>1
    <3>4. x = i
      BY <2>1, <2>5, <3>2, <3>3
    <3>5. QED
      BY <2>5, <3>1, <3>2, <3>3, <3>4 DEF Active
  <2>8. QED
    BY <2>1, <2>5, <2>6, <2>7, CallsIs DEF BInv
<1>2. QED
  BY <1>1, BusInductive, PTL DEF BSpec, CalledWhileSubscribed
=============================================================================

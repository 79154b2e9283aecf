------------------------------ MODULE EventBus ------------------------------
(***************************************************************************)
(* The Central Event Bus (packages/shared/src/event-bus.ts) of a process:  *)
(* subscriptions come and go, and publications start, while others wait    *)
(* for the handlers they call.                                             *)
(*                                                                         *)
(* A publication holds the thread from its start, or from the end of a     *)
(* handler, until it has called the next handler or returns: one step.     *)
(* What a handler does to the bus is any other step taken before it ends.  *)
(* Payloads and the checks on them are left out: they refuse a             *)
(* publication before it does anything.                                    *)
(***************************************************************************)
EXTENDS Integers, FiniteSets

CONSTANTS
  Events,        \* event names
  Publications,  \* publications under way at once
  MaxListeners,  \* maxListenersPerEvent
  MaxId          \* bound: subscriptions that are ever made

ASSUME LimitsAssumption == MaxListeners \in Nat \ {0} /\ MaxId \in Nat
ASSUME EventsAssumption == "*" \notin Events

VARIABLES
  sub,    \* #subscriptions, by id; a subscription that is not active is not in the map
  next,   \* #nextSubscriptionId
  pub,    \* the publications
  calls   \* history: how often each handler was called, counted up to 2

busVars == <<sub, next, pub, calls>>

Ids == 1 .. MaxId
Topics == Events \cup {"*"}
Subscription == [topic : Topics, once : BOOLEAN, active : BOOLEAN]
NoSubscription == [topic |-> "*", once |-> FALSE, active |-> FALSE]

\* handler: the one that runs, 0 if the publication is not under way; failed: one threw;
\* served: history, those it called; limit: history, next when it began
Publication ==
  [snapshot : SUBSET Ids, handler : 0 .. MaxId, failed : BOOLEAN, served : SUBSET Ids,
   limit : 1 .. MaxId + 1]
NoPublication == [snapshot |-> {}, handler |-> 0, failed |-> FALSE, served |-> {}, limit |-> 1]

Active == {i \in Ids : sub[i].active}
Listeners(topic) == {i \in Active : sub[i].topic = topic}
Matching(e) == Listeners(e) \cup Listeners("*")

Deactivated(S) == [i \in Ids |-> IF i \in S THEN [sub[i] EXCEPT !.active = FALSE] ELSE sub[i]]

(***************************************************************************)
(* subscribe(), once(), subscribeAll(), unsubscribe and clear()            *)
(***************************************************************************)
\* There is no once() for all events
Subscribe(topic, once) ==
  /\ next <= MaxId /\ (once => topic # "*")
  /\ Cardinality(Listeners(topic)) < MaxListeners
  /\ sub' = [sub EXCEPT ![next] = [topic |-> topic, once |-> once, active |-> TRUE]]
  /\ next' = next + 1
  /\ UNCHANGED <<pub, calls>>

Unsubscribe(i) ==
  /\ i \in Active
  /\ sub' = Deactivated({i})
  /\ UNCHANGED <<next, pub, calls>>

\* clear() of one event name, or of everything
Clear(S) ==
  /\ S # {}
  /\ sub' = Deactivated(S)
  /\ UNCHANGED <<next, pub, calls>>

(***************************************************************************)
(* publishEvent()                                                          *)
(***************************************************************************)
Least(S) == CHOOSE i \in S : \A j \in S : i <= j

\* Mutant: a once subscription is taken off the bus when its handler has ended.
CallsOnceLate(k, r, todo) ==
  IF todo = {} THEN pub' = [pub EXCEPT ![k] = NoPublication] /\ UNCHANGED <<sub, calls>>
  ELSE LET i == Least(todo) IN
       /\ pub' = [pub EXCEPT ![k] = [r EXCEPT !.handler = i, !.served = @ \cup {i}]]
       /\ calls' = [calls EXCEPT ![i] = IF @ < 2 THEN @ + 1 ELSE @]
       /\ sub' = Deactivated(IF r.handler = 0 THEN {} ELSE {r.handler} \cap {j \in Ids : sub[j].once})

\* Publication k, with record r, calls the first handler of todo, or returns
Calls(k, r, todo) ==
  IF todo = {} THEN pub' = [pub EXCEPT ![k] = NoPublication] /\ UNCHANGED <<sub, calls>>
  ELSE LET i == Least(todo) IN
       /\ pub' = [pub EXCEPT ![k] = [r EXCEPT !.handler = i, !.served = @ \cup {i}]]
       /\ calls' = [calls EXCEPT ![i] = IF @ < 2 THEN @ + 1 ELSE @]
       /\ sub' = Deactivated(IF sub[i].once THEN {i} ELSE {})

Publish(k, e) ==
  /\ pub[k].handler = 0
  /\ Calls(k, [NoPublication EXCEPT !.snapshot = Matching(e), !.limit = next], Matching(e))
  /\ UNCHANGED next

\* Mutant: the subscriptions are iterated as they are when the handler ends.
RemainingLive(r) == {i \in Active : i > r.handler}

Remaining(r) == {i \in r.snapshot \cap Active : i > r.handler}

\* Mutant: a handler that throws ends the publication.
HandlerEndsAll(k, threw) ==
  LET r == [pub[k] EXCEPT !.failed = @ \/ threw] IN
  /\ r.handler # 0
  /\ Calls(k, r, IF threw THEN {} ELSE Remaining(r))
  /\ UNCHANGED next

\* A handler returns or throws, and the publication goes on
HandlerEnds(k, threw) ==
  LET r == [pub[k] EXCEPT !.failed = @ \/ threw] IN
  /\ r.handler # 0
  /\ Calls(k, r, Remaining(r))
  /\ UNCHANGED next

BInit ==
  /\ sub = [i \in Ids |-> NoSubscription]
  /\ next = 1
  /\ pub = [k \in Publications |-> NoPublication]
  /\ calls = [i \in Ids |-> 0]

BNext ==
  \/ \E topic \in Topics, once \in BOOLEAN : Subscribe(topic, once)
  \/ \E i \in Ids : Unsubscribe(i)
  \/ \E topic \in Topics : Clear(Listeners(topic))
  \/ Clear(Active)
  \/ \E k \in Publications :
       \/ \E e \in Events : Publish(k, e)
       \/ \E threw \in BOOLEAN : HandlerEnds(k, threw)

BSpec == BInit /\ [][BNext]_busVars

(***************************************************************************)
(* Properties                                                              *)
(***************************************************************************)
\* Every variable has its type.
BTypeOK ==
  /\ sub \in [Ids -> Subscription]
  /\ next \in 1 .. MaxId + 1
  /\ pub \in [Publications -> Publication]
  /\ calls \in [Ids -> 0 .. 2]

\* A once handler is called once, whatever is published while it runs, by itself or by others.
OnceMeansOnce == \A i \in Ids : sub[i].once => calls[i] <= 1

\* A publication returns only when every subscription it began with was called or is off the
\* bus, however many handlers threw.
NobodyIsLeftOver ==
  [][\A k \in Publications :
       (pub[k].handler # 0 /\ pub'[k].handler = 0) =>
         pub[k].snapshot \cap Active \subseteq pub[k].served]_busVars

\* A handler is called only while it is subscribed, and by no publication that began before it
\* subscribed: whatever handlers do to the bus, the event under way goes to those it found.
CalledWhileSubscribed ==
  [][\A k \in Publications : \A i \in pub'[k].served \ pub[k].served :
       i \in Active /\ i < pub'[k].limit]_busVars
=============================================================================

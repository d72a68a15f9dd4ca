-------------------------------- MODULE PubSub --------------------------------
(***************************************************************************)
(* PubSubService (rpc/server/src/module/pubsub.rs): the transaction,      *)
(* event and new-header subscriber sets, each behind its own RwLock, all  *)
(* numbering subscriptions from one shared AtomicU64.  RPC calls run on   *)
(* concurrent threads: subscribe adds to one set under its write lock;    *)
(* unsubscribe takes the three write locks one after another, removing    *)
(* the id from each.  A client may unsubscribe any id.                    *)
(***************************************************************************)
EXTENDS Naturals, FiniteSets

CONSTANTS
  Clients,     \* RPC threads
  MaxIds       \* bound on the subscription ids handed out

Kinds == {"newHeads", "newPendingTransactions", "events"}
\* None, Some(Params::Events(filter)) with a filter that converts, and one
\* whose try_into fails.
Params == {"none", "filter", "bad_filter"}
Sets == {"events", "transactions", "new_header"}
Ids == 0..MaxIds - 1

VARIABLES
  nextId,      \* per set: the counter it draws ids from
  subs,        \* per set: the subscriptions, as <<id, client>> pairs
  client,      \* per client: the unsubscribe call in progress
  trueCount    \* per id: the unsubscribe calls that returned true for it

vars == <<nextId, subs, client, trueCount>>

\* The order in which unsubscribe takes the locks (res1, res2, res3).
UnsubscribeOrder == <<"events", "transactions", "new_header">>

\* Mutant: each Subscribers gets its own counter.
SetsOwnCounter == [s \in Sets |-> s]

\* PubSubService::new: one AtomicU64 cloned into all three Subscribers.
CounterOf == [s \in Sets |-> "shared"]

\* The set (and whether it adds) that subscribe routes (kind, params) to;
\* "reject" for subscriber.reject.
Route(kind, params) ==
  CASE kind = "newHeads" /\ params = "none" -> "new_header"
    [] kind = "newPendingTransactions" /\ params = "none" -> "transactions"
    [] kind = "events" /\ params = "filter" -> "events"
    [] OTHER -> "reject"

Idle == [pc |-> 0, id |-> 0, res |-> FALSE, removed |-> 0]

Init ==
  /\ nextId = [k \in {CounterOf[s] : s \in Sets} |-> 0]
  /\ subs = [s \in Sets |-> {}]
  /\ client = [c \in Clients |-> Idle]
  /\ trueCount = [i \in Ids |-> 0]

\* Mutant: the id is taken without the bound on ids handed out.
SubscribeUnbounded(c, kind, params) ==
  LET s == Route(kind, params)
      k == CounterOf[s]
  IN  /\ client[c].pc = 0
      /\ IF s = "reject"
         THEN UNCHANGED <<nextId, subs>>
         ELSE /\ subs' = [subs EXCEPT ![s] = @ \union {<<nextId[k], c>>}]
              /\ nextId' = [nextId EXCEPT ![k] = @ + 1]
      /\ UNCHANGED <<client, trueCount>>

\* subscribe: add to the routed set under its write lock, the id taken from
\* its counter (fetch_add), or reject.
Subscribe(c, kind, params) ==
  LET s == Route(kind, params)
      k == CounterOf[s]
  IN  /\ client[c].pc = 0
      /\ IF s = "reject"
         THEN UNCHANGED <<nextId, subs>>
         ELSE /\ nextId[k] < MaxIds
              /\ subs' = [subs EXCEPT ![s] = @ \union {<<nextId[k], c>>}]
              /\ nextId' = [nextId EXCEPT ![k] = @ + 1]
      /\ UNCHANGED <<client, trueCount>>

\* unsubscribe(id) is called.
StartUnsubscribe(c, id) ==
  /\ client[c].pc = 0
  /\ client' = [client EXCEPT ![c] = [Idle EXCEPT !.pc = 1, !.id = id]]
  /\ UNCHANGED <<nextId, subs, trueCount>>

\* One of res1, res2, res3: remove(&id).is_some() under that set's lock.
UnsubscribeStep(c) ==
  LET cl == client[c]
      s == UnsubscribeOrder[cl.pc]
      hit == {p \in subs[s] : p[1] = cl.id}
  IN  /\ cl.pc \in 1..3
      /\ subs' = [subs EXCEPT ![s] = @ \ hit]
      /\ client' = [client EXCEPT ![c] =
           [cl EXCEPT !.pc = @ + 1, !.res = @ \/ hit # {},
                      !.removed = @ + Cardinality(hit)]]
      /\ UNCHANGED <<nextId, trueCount>>

\* Mutant: Ok(true) is returned whatever the removals found.
FinishUnsubscribeAlwaysTrue(c) ==
  /\ client[c].pc = 4
  /\ trueCount' = [trueCount EXCEPT ![client[c].id] = @ + 1]
  /\ client' = [client EXCEPT ![c] = Idle]
  /\ UNCHANGED <<nextId, subs>>

\* Ok(res1 || res2 || res3) is returned.
FinishUnsubscribe(c) ==
  /\ client[c].pc = 4
  /\ trueCount' = IF client[c].res
                  THEN [trueCount EXCEPT ![client[c].id] = @ + 1]
                  ELSE trueCount
  /\ client' = [client EXCEPT ![c] = Idle]
  /\ UNCHANGED <<nextId, subs>>

Next ==
  \E c \in Clients :
    \/ \E kind \in Kinds, params \in Params : Subscribe(c, kind, params)
    \/ \E id \in Ids : StartUnsubscribe(c, id)
    \/ UnsubscribeStep(c)
    \/ FinishUnsubscribe(c)

Spec == Init /\ [][Next]_vars

-----------------------------------------------------------------------------
TypeOK ==
  /\ \A k \in DOMAIN nextId : nextId[k] \in 0..MaxIds
  /\ \A s \in Sets : subs[s] \subseteq Ids \X Clients
  /\ \A c \in Clients : client[c].pc \in 0..4 /\ client[c].removed \in 0..3
  /\ trueCount \in [Ids -> Nat]

\* An unsubscribe call removes at most one subscription: its three removals
\* never take a subscription from one set and another from a second set,
\* whatever subscribes run between them.
UnsubscribeRemovesAtMostOne ==
  \A c \in Clients : client[c].removed <= 1

\* Of the unsubscribe calls for one id, concurrent or not, at most one
\* returns true: a subscription is reported cancelled once.
AtMostOneTrue ==
  \A i \in Ids : trueCount[i] <= 1
=============================================================================

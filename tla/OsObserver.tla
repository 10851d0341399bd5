----------------------------- MODULE OsObserver -----------------------------
(***************************************************************************)
(* SystemStatusOsObserver, through which the observers of data items (of   *)
(* the network state, of the operator) share one subscription with the     *)
(* operating system, and the two indexes it keeps.  A call is checked on   *)
(* the caller's thread and handled by the message task; until the          *)
(* subscription object is there, subscriptions and requests are kept and   *)
(* the other calls are dropped.                                            *)
(*                                                                         *)
(* The record os holds                                                     *)
(*   ready            mContext.mSubscriptionObj is set                     *)
(*   subscribeReqCache, reqDataCache   what is kept until then             *)
(*   dataItems        ClientIndex: the items of each observer.  Callers    *)
(*                    pass ascending lists, so its lists are sets          *)
(*   clients          DataItemIndex: the observers of each item, in the    *)
(*                    order they came                                      *)
(*   cache            mDataItemCache                                       *)
(*   msgs             the message task's queue                             *)
(*   heard            the last value each observer was notified of         *)
(* and the operating system's side: asked (the items subscribed to there), *)
(* wants (history: what each observer has subscribed to), requested        *)
(* (history: the items some observer has only requested), calls.           *)
(***************************************************************************)
EXTENDS Naturals, Sequences, FiniteSets

CONSTANTS Observers,      \* their addresses, numbers
          DataItems, ItemValues,
          Lists,          \* the lists of items they pass
          OBSERVER_MAX,   \* bound: calls and notifications
          OS_BACKLOG_MAX  \* bound: messages waiting when a call is made

VARIABLE os
osVars == <<os>>

UNSET == "unset"
PerObserver(s) == [c \in Observers |-> s]

ASSUME OsObserverAssumption ==
    /\ Observers \subseteq Nat /\ IsFiniteSet(Observers) /\ Lists \subseteq (SUBSET DataItems) \ {{}}
    /\ OBSERVER_MAX \in Nat /\ OS_BACKLOG_MAX \in Nat
    /\ UNSET \notin ItemValues

OsInit ==
    os = [ready |-> FALSE, subscribeReqCache |-> PerObserver({}), reqDataCache |-> PerObserver({}),
          dataItems |-> PerObserver({}), clients |-> [i \in DataItems |-> << >>], cache |-> [i \in DataItems |-> UNSET],
          msgs |-> << >>, heard |-> PerObserver([i \in DataItems |-> UNSET]),
          asked |-> {}, wants |-> PerObserver({}), requested |-> {}, calls |-> 0]

(***************************************************************************)
(* ClientIndex and DataItemIndex                                           *)
(***************************************************************************)
Entered(dataItems, c, l) == [dataItems EXCEPT ![c] = @ \cup l]
Withdrawn(dataItems, c, l) == [dataItems EXCEPT ![c] = @ \ l]

Listed(s, c) == \E k \in DOMAIN s : s[k] = c

\* DataItemIndex::add: the items nobody observed before come back.
AddClient(clients, c, l) ==
    [i \in DataItems |-> IF i \in l /\ ~Listed(clients[i], c) THEN Append(clients[i], c) ELSE clients[i]]
YetToSubscribe(clients, l) == {i \in l : clients[i] = << >>}

\* DataItemIndex::remove intersects a list that is in order of arrival with
\* set_intersection, which needs ascending lists: the observer is found only if
\* all before it have smaller addresses.
Removable(s, c) == {k \in DOMAIN s : s[k] = c /\ \A j \in 1..k - 1 : s[j] < c}
Erased(s, k) == [j \in 1..Len(s) - 1 |-> IF j < k THEN s[j] ELSE s[j + 1]]
RemoveClient(clients, c, l) ==
    [i \in DataItems |->
        IF i \in l /\ Removable(clients[i], c) # {}
        THEN Erased(clients[i], CHOOSE k \in Removable(clients[i], c) : TRUE) ELSE clients[i]]

(***************************************************************************)
(* The message task                                                        *)
(***************************************************************************)
Cached(l) == {i \in l : os.cache[i] # UNSET}

\* The observer is notified of the cached values of l.
Told(c, l, cache) == [os.heard EXCEPT ![c] = [i \in DataItems |-> IF i \in l THEN cache[i] ELSE @[i]]]

HandleSubscribeReq(m) ==
    [os EXCEPT !.dataItems = Entered(@, m.client, m.l),
               !.heard = Told(m.client, Cached(m.l), os.cache),
               !.clients = AddClient(@, m.client, m.l),
               !.asked = @ \cup YetToSubscribe(os.clients, m.l)]

\* Mutant: without the first response.
HandleUpdateSubscriptionReq_Mute(m) ==
    [os EXCEPT !.dataItems = Withdrawn(Entered(@, m.client, m.l), m.client, os.dataItems[m.client] \ m.l),
               !.clients = AddClient(@, m.client, m.l),
               !.asked = @ \cup YetToSubscribe(os.clients, m.l)]

\* Only items new to the observer are answered at once.  The items no longer
\* wanted leave the observer's own list; the index by item, and the subscription
\* with the operating system, keep them (the list that is not empty stays).
HandleUpdateSubscriptionReq(m) ==
    [os EXCEPT !.dataItems = Withdrawn(Entered(@, m.client, m.l), m.client, os.dataItems[m.client] \ m.l),
               !.heard = Told(m.client, Cached(m.l \ os.dataItems[m.client]), os.cache),
               !.clients = AddClient(@, m.client, m.l),
               !.asked = @ \cup YetToSubscribe(os.clients, m.l)]

\* The observer is entered as if it had subscribed; the operating system is asked
\* for the values, not for a subscription.
HandleRequestData(m) ==
    [os EXCEPT !.dataItems = Entered(@, m.client, m.l),
               !.clients = AddClient(@, m.client, m.l)]

HandleUnsubscribeReq(m) ==
    LET clients == RemoveClient(os.clients, m.client, m.l)
    IN [os EXCEPT !.dataItems = Withdrawn(@, m.client, m.l),
                  !.clients = clients,
                  !.asked = @ \ {i \in m.l : clients[i] = << >>}]

\* ClientIndex::remove always returns 0, and that ends the handler.
HandleUnsubscribeAllReq(m) == [os EXCEPT !.dataItems[m.client] = {}]

\* The reported items that updateCache finds changed.
Changed(values) == {i \in DOMAIN values : os.cache[i] # values[i]}

\* updateCache for the items reported, then each observer of one that changed is
\* notified of those it has in its own list.
HandleNotify(m) ==
    LET changed == Changed(m.values)
        cache == [i \in DataItems |-> IF i \in changed THEN m.values[i] ELSE os.cache[i]]
        sent(c) == {i \in changed \cap os.dataItems[c] : \E j \in changed : Listed(os.clients[j], c)}
    IN [os EXCEPT !.cache = cache,
                  !.heard = [c \in Observers |-> [i \in DataItems |-> IF i \in sent(c) THEN cache[i] ELSE @[c][i]]]]

Handled(m) ==
    CASE m.type = "subscribe"      -> HandleSubscribeReq(m)
      [] m.type = "update"         -> HandleUpdateSubscriptionReq(m)
      [] m.type = "requestData"    -> HandleRequestData(m)
      [] m.type = "unsubscribe"    -> HandleUnsubscribeReq(m)
      [] m.type = "unsubscribeAll" -> HandleUnsubscribeAllReq(m)
      [] m.type = "notify"         -> HandleNotify(m)

OsTask ==
    /\ os.msgs # << >>
    /\ os' = [Handled(Head(os.msgs)) EXCEPT !.msgs = Tail(@)]

(***************************************************************************)
(* The calls                                                               *)
(***************************************************************************)
OsMsg(type, c, l) == [type |-> type, client |-> c, l |-> l]
OsPost(o, msgs) == [o EXCEPT !.msgs = @ \o msgs, !.calls = @ + 1]
MayCall == os.calls < OBSERVER_MAX /\ Len(os.msgs) <= OS_BACKLOG_MAX

\* A list that must wait: what the observer had asked for is joined.
cacheObserverRequest(reqCache, l, c) == [reqCache EXCEPT ![c] = @ \cup l]

subscribe(l, c) ==
    LET o == [os EXCEPT !.wants[c] = @ \cup l]
    IN /\ MayCall
       /\ os' = IF os.ready THEN OsPost(o, <<OsMsg("subscribe", c, l)>>)
                ELSE OsPost([o EXCEPT !.subscribeReqCache = cacheObserverRequest(@, l, c)], << >>)

requestData(l, c) ==
    LET o == [os EXCEPT !.requested = @ \cup l]
    IN /\ MayCall
       /\ os' = IF os.ready THEN OsPost(o, <<OsMsg("requestData", c, l)>>)
                ELSE OsPost([o EXCEPT !.reqDataCache = cacheObserverRequest(@, l, c)], << >>)

\* Dropped until the subscription object is there, although the subscription is not.
updateSubscription(l, c) ==
    /\ MayCall /\ os.ready
    /\ os' = OsPost([os EXCEPT !.wants[c] = l], <<OsMsg("update", c, l)>>)

unsubscribe(l, c) ==
    /\ MayCall /\ os.ready
    /\ os' = OsPost([os EXCEPT !.wants[c] = @ \ l], <<OsMsg("unsubscribe", c, l)>>)

unsubscribeAll(c) ==
    /\ MayCall /\ os.ready
    /\ os' = OsPost([os EXCEPT !.wants[c] = {}], <<OsMsg("unsubscribeAll", c, {})>>)

\* The orders in which a map visits its keys: by address.
InOrder(S) ==
    {s \in [1..Cardinality(S) -> S] : /\ \A j, k \in DOMAIN s : j < k => s[j] < s[k]
                                      /\ \A c \in S : Listed(s, c)}

\* What was kept is asked again, observer by observer.
setSubscriptionObj ==
    LET kept(cache) == {c \in Observers : cache[c] # {}}
        again(type, cache, s) == [k \in DOMAIN s |-> OsMsg(type, s[k], cache[s[k]])]
    IN /\ ~os.ready
       /\ \E s \in InOrder(kept(os.subscribeReqCache)), r \in InOrder(kept(os.reqDataCache)) :
            os' = [os EXCEPT !.ready = TRUE,
                             !.msgs = @ \o again("subscribe", os.subscribeReqCache, s)
                                        \o again("requestData", os.reqDataCache, r)]

\* The operating system reports items it was asked for.
notify(values) ==
    /\ MayCall /\ os.ready
    /\ os' = OsPost(os, <<[type |-> "notify", values |-> values]>>)

OsReports == {v \in UNION {[l -> ItemValues] : l \in Lists} : DOMAIN v \subseteq os.asked \cup os.requested}

OsNext ==
    \/ \E c \in Observers, l \in Lists :
          subscribe(l, c) \/ updateSubscription(l, c) \/ requestData(l, c) \/ unsubscribe(l, c)
    \/ \E c \in Observers : unsubscribeAll(c)
    \/ \E v \in OsReports : notify(v)
    \/ setSubscriptionObj \/ OsTask

\* Once the subscription object is there and the task has nothing left to do, every
\* item an observer has subscribed to and not given up is subscribed to with the
\* operating system, and the observer has heard its latest value - whoever else
\* subscribed or gave the item up, before or after, and also if it subscribed
\* before there was an object to subscribe with.  DataItems that someone has requested
\* instead of subscribing to are another matter (HandleRequestData).
ObserversServed ==
    os.ready /\ os.msgs = << >> =>
        \A c \in Observers : \A i \in os.wants[c] \ os.requested :
            i \in os.asked /\ os.heard[c][i] = os.cache[i]

=============================================================================

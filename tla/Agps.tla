--------------------------------- MODULE Agps ---------------------------------
(***************************************************************************)
(* The AGPS manager of the GNSS adapter.  The modem asks for data          *)
(* connections ("ATL"), each named by a handle, and gives them back; a     *)
(* state machine per kind of connection merges the requests into one       *)
(* request to the framework (or, for emergency SUPL, to the data service   *)
(* client) and passes the answers on.  Everything runs as messages of the  *)
(* adapter's task; the modem, the framework and the retry timer only post. *)
(***************************************************************************)
EXTENDS Naturals, Sequences, SequencesExt

CONSTANTS
    Conns, Asks,                \* connection handles, and <<handle, type>> the modem may ask
    Priorities,                 \* of the frameworks that register (cbPriority)
    AGPS_CAPABLE,               \* CAPABILITIES has MSA or MSB
    USE_EMERGENCY_PDN,          \* USE_EMERGENCY_PDN_FOR_EMERGENCY_SUPL
    MAX_START_DATA_CALL_RETRIES,
    FAULTS_MAX                  \* refusals, losses and failures by the environment (a bound)

VARIABLES
    g,          \* the manager, its machines and the adapter's queue
    asked,      \* what the framework and the data service client have still to do
    up,         \* the connections they hold open
    want,       \* per handle, what the modem has asked of it
    faults

vars == <<g, asked, up, want, faults>>

Nifs == {"agnss", "internet", "ds"}
AgpsType == [agnss |-> "SUPL", internet |-> "WWAN_ANY", ds |-> "SUPL_ES"]

ASSUME AgpsAssumption == Asks \subseteq Conns \X {AgpsType[n] : n \in Nifs}

Init ==
    /\ g = [cbPriority |-> 0, heard |-> {}, created |-> {}, queue |-> << >>,
            mState |-> [n \in Nifs |-> "RELEASED"],
            mSubscriberList |-> [n \in Nifs |-> << >>],
            mRetries |-> 0, timers |-> 0, sent |-> [n \in Nifs |-> << >>],
            told |-> [c \in Conns |-> "none"], stray |-> {}, misled |-> {}]
    /\ asked = [n \in Nifs |-> << >>]
    /\ up = [n \in Nifs |-> FALSE]
    /\ want = [c \in Conns |-> "idle"]
    /\ faults = 0

-----------------------------------------------------------------------------
(* Subscribers                                                               *)

Subscriber(c, type) == [conn |-> c, waits |-> type = "SUPL_ES", inactive |-> FALSE]

Subs(t, n) == t.mSubscriberList[n]
WithSubs(t, n, xs) == [t EXCEPT !.mSubscriberList[n] = xs]
Active(x) == ~x.inactive

anyActiveSubscribers(t, n) == \E i \in DOMAIN Subs(t, n) : Active(Subs(t, n)[i])

addSubscriber(t, n, x) ==
    IF \E i \in DOMAIN Subs(t, n) : Subs(t, n)[i].conn = x.conn THEN t
    ELSE WithSubs(t, n, Append(Subs(t, n), x))

deleteSubscriber(t, n, c) == WithSubs(t, n, SelectSeq(Subs(t, n), LAMBDA x : x.conn # c))

setInactive(t, n, c) ==
    WithSubs(t, n, [i \in DOMAIN Subs(t, n) |->
        IF Subs(t, n)[i].conn = c THEN [Subs(t, n)[i] EXCEPT !.inactive = TRUE]
        ELSE Subs(t, n)[i]])

transitionState(t, n, st) == [t EXCEPT !.mState[n] = st]

Post(t, m) == [t EXCEPT !.queue = Append(@, m)]
Told(t, c, what) == [t EXCEPT !.told[c] = what]

\* DSStateMachine's answer to a refusal: ask again, as ordinary SUPL.
FallBack(t, c) == Post([t EXCEPT !.mRetries = 0], <<"request", c, "SUPL">>)

notifyEventToSubscriber(t, n, ev, c) ==
    CASE ev = "GRANTED" -> Told(t, c, "open")
      [] ev = "DENIED" -> IF n = "ds" THEN FallBack(t, c) ELSE Told(t, c, "denied")
      [] ev \in {"UNSUBSCRIBE", "RELEASED"} -> Told(t, c, "closed")

\* The subscribers a notification type selects.
AllSubscribers(t, n) == Range(Subs(t, n))
ActiveSubscribers(t, n) == {x \in AllSubscribers(t, n) : Active(x)}
InactiveSubscribers(t, n) == AllSubscribers(t, n) \ ActiveSubscribers(t, n)

\* Notifies the subscribers of whom, in the list's order, and drops them if del is set.
notifyAllSubscribers(t, n, ev, del, whom) ==
    LET told == FoldLeft(LAMBDA u, x : notifyEventToSubscriber(u, n, ev, x.conn),
                         t, SelectSeq(Subs(t, n), LAMBDA x : x \in whom))
    IN  IF del THEN WithSubs(told, n, SelectSeq(Subs(t, n), LAMBDA x : x \notin whom))
        ELSE told

-----------------------------------------------------------------------------
(* Connections.  ret is what openAndStartDataCall returns.                   *)

Send(t, n, what) == [t EXCEPT !.sent[n] = Append(@, what)]

\* History: handles that stay subscribed, or are asked for again, after their release.
Stray(t, cs) == [t EXCEPT !.stray = @ \cup cs]

\* History: machines that wait for a call nobody made, whose request has overtaken
\* the answer to an earlier release, or that told one of several of a refusal.
Misled(t, ns) == [t EXCEPT !.misled = @ \cup ns]

\* DSStateMachine::requestOrReleaseDataConn(true); rc tells whether it was 0.
StartDataCall(t, ret) ==
    LET actives == SelectSeq(Subs(t, "ds"), Active)
        first == Head(actives).conn
        retries == t.mRetries + 1
    IN  IF actives = << >> THEN [t |-> t, rc |-> FALSE] ELSE
        CASE ret = "success" -> [t |-> Send(t, "ds", "request"), rc |-> TRUE]
          [] ret = "busy" /\ retries <= MAX_START_DATA_CALL_RETRIES ->
                [t |-> [t EXCEPT !.mRetries = retries, !.timers = @ + 1], rc |-> FALSE]
          [] OTHER -> [t |-> Misled(FallBack(t, first), IF Len(actives) > 1 THEN {"ds"} ELSE {}),
                       rc |-> FALSE]

requestOrReleaseDataConn(t, n, request, ret) ==
    IF ~request THEN [t |-> Send(t, n, "release"), rc |-> TRUE]
    ELSE IF n = "ds" THEN StartDataCall(t, ret)
    ELSE [t |-> Send(t, n, "request"), rc |-> TRUE]

-----------------------------------------------------------------------------
(* The state machine                                                         *)

processAgpsEventSubscribe(t, n, x, ret) ==
    LET added == addSubscriber(t, n, x)
        r == requestOrReleaseDataConn(added, n, TRUE, ret)
    IN  CASE t.mState[n] = "RELEASED" -> IF r.rc THEN transitionState(r.t, n, "PENDING") ELSE r.t
          [] t.mState[n] = "ACQUIRED" ->
                addSubscriber(notifyEventToSubscriber(t, n, "GRANTED", x.conn), n, x)
          [] OTHER -> added

processAgpsEventUnsubscribe(t, n, x) ==
    LET left == IF x.waits THEN setInactive(t, n, x.conn)
                ELSE deleteSubscriber(notifyEventToSubscriber(t, n, "UNSUBSCRIBE", x.conn),
                                      n, x.conn)
        Let(st) == requestOrReleaseDataConn(transitionState(left, n, st), n, FALSE, "success").t
    IN  CASE t.mState[n] = "RELEASED" ->
                Stray(notifyEventToSubscriber(t, n, "UNSUBSCRIBE", x.conn), {x.conn})
          [] t.mState[n] \in {"PENDING", "ACQUIRED"} ->
                CASE Subs(left, n) = << >> -> Let("RELEASED")
                  [] Subs(left, n) # << >> /\ ~anyActiveSubscribers(left, n) -> Let("RELEASING")
                  [] OTHER -> left
          [] t.mState[n] = "RELEASING" ->
                IF Subs(left, n) = << >> THEN transitionState(left, n, "RELEASED") ELSE left

\* Mutant: inactive subscribers are told of the grant too.
processAgpsEventGranted_All(t, n) ==
    IF t.mState[n] # "PENDING" THEN t
    ELSE notifyAllSubscribers(transitionState(t, n, "ACQUIRED"), n, "GRANTED", FALSE,
                              AllSubscribers(t, n))

processAgpsEventGranted(t, n) ==
    IF t.mState[n] # "PENDING" THEN t
    ELSE notifyAllSubscribers(transitionState(t, n, "ACQUIRED"), n, "GRANTED", FALSE,
                              ActiveSubscribers(t, n))

\* Mutant: the subscribers that joined while the connection was closing are forgotten.
Reopen_Never(t, n, ret) ==
    transitionState(notifyAllSubscribers(t, n, "RELEASED", TRUE, InactiveSubscribers(t, n)),
                    n, "RELEASED")

\* RELEASING is left in the same way by RELEASED and by DENIED.
Reopen(t, n, ret) ==
    LET closed == notifyAllSubscribers(t, n, "RELEASED", TRUE, InactiveSubscribers(t, n))
        r == requestOrReleaseDataConn(transitionState(closed, n, "PENDING"), n, TRUE, ret)
    IN  IF anyActiveSubscribers(closed, n)
        THEN IF r.rc THEN r.t ELSE Misled(r.t, {n})
        ELSE transitionState(closed, n, "RELEASED")

\* Mutant: the end of an open connection goes unnoticed.
processAgpsEventReleased_Ignored(t, n, ret) ==
    IF t.mState[n] = "RELEASING" THEN Reopen(t, n, ret) ELSE t

processAgpsEventReleased(t, n, ret) ==
    CASE t.mState[n] = "ACQUIRED" ->
            notifyAllSubscribers(transitionState(t, n, "RELEASED"), n, "RELEASED", TRUE,
                                 AllSubscribers(t, n))
      [] t.mState[n] = "RELEASING" -> Reopen(t, n, ret)
      [] OTHER -> t

processAgpsEventDenied(t, n, ret) ==
    LET idle == {Subs(t, n)[i].conn : i \in {j \in DOMAIN Subs(t, n) : Subs(t, n)[j].inactive}}
    IN  CASE t.mState[n] = "PENDING" ->
                notifyAllSubscribers(transitionState(Stray(t, idle), n, "RELEASED"),
                                     n, "DENIED", TRUE, AllSubscribers(t, n))
          [] t.mState[n] = "RELEASING" -> Reopen(t, n, ret)
          [] OTHER -> t

\* The data service client has no failure report: a call that ends while it is
\* awaited is a refusal (DSStateMachine::processAgpsEvent).
processAgpsEvent(t, n, ev, ret) ==
    CASE ev = "GRANTED" -> processAgpsEventGranted(t, n)
      [] ev = "DENIED" \/ (ev = "RELEASED" /\ n = "ds" /\ t.mState[n] = "PENDING") ->
            processAgpsEventDenied(t, n, ret)
      [] OTHER -> processAgpsEventReleased(t, n, ret)

-----------------------------------------------------------------------------
(* AgpsManager                                                               *)

\* dsInit: whether initDataServiceClient succeeds.
createAgpsStateMachines(t, dsInit) ==
    [t EXCEPT !.created = @ \cup {"internet"}
        \cup (IF AGPS_CAPABLE THEN {"agnss"} ELSE {})
        \cup (IF AGPS_CAPABLE /\ USE_EMERGENCY_PDN /\ dsInit THEN {"ds"} ELSE {})]

NifOf(type) ==
    CASE type = "SUPL" -> "agnss"
      [] type = "SUPL_ES" -> IF USE_EMERGENCY_PDN THEN "ds" ELSE "agnss"
      [] OTHER -> "internet"

\* getAgpsStateMachine: the data service machine is created on demand.
Ready(t, type, dsInit) ==
    IF NifOf(type) = "ds" /\ "ds" \notin t.created THEN createAgpsStateMachines(t, dsInit) ELSE t

requestATL(t, c, type, dsInit, ret) ==
    LET r == Ready(t, type, dsInit)
    IN  IF NifOf(type) \notin r.created THEN Told(r, c, "denied")
        ELSE processAgpsEventSubscribe(r, NifOf(type), Subscriber(c, type), ret)

\* releaseATL looks for the handle in the machines in this order.
Holder(t, c) ==
    SelectSeq(<<"agnss", "internet", "ds">>,
              LAMBDA n : \E i \in DOMAIN Subs(t, n) : Subs(t, n)[i].conn = c)

releaseATL(t, c) ==
    LET n == Head(Holder(t, c))
        again == Len(Holder(t, c)) > 1 \/ \E m \in Range(t.queue) : m[1] = "request" /\ m[2] = c
        u == Stray(t, IF again THEN {c} ELSE {})
    IN  IF Holder(t, c) = << >> THEN Told(u, c, "closed")
        ELSE processAgpsEventUnsubscribe(
                u, n, Subs(t, n)[CHOOSE i \in DOMAIN Subs(t, n) : Subs(t, n)[i].conn = c])

-----------------------------------------------------------------------------
(* The adapter's task                                                        *)

\* Takes the first message of the adapter's queue, which is of one of the kinds.
Take(kinds) == g.queue # << >> /\ Head(g.queue)[1] \in kinds
Rest == [g EXCEPT !.queue = Tail(@)]

\* The commands the handler has sent reach the framework and the data client.
Closing(t, n) == "release" \in Range(asked[n]) \/ <<"RELEASED", n>> \in Range(t.queue)

Commit(t) ==
    /\ asked' = [n \in Nifs |-> asked[n] \o t.sent[n]]
    /\ g' = [Misled(t, {n \in Nifs : Closing(t, n) /\ "request" \in Range(t.sent[n])})
              EXCEPT !.sent = [n \in Nifs |-> << >>]]

DsInits == IF faults < FAULTS_MAX THEN BOOLEAN ELSE {TRUE}

\* What openAndStartDataCall may return, if it is called at all.
Returns == IF faults < FAULTS_MAX THEN {"success", "busy", "unsupported"} ELSE {"success"}
Costs(ok) == faults' = faults + IF ok THEN 0 ELSE 1

\* AgpsMsgInit: callbacks, machines, and the event mask the modem waits for.
MsgInit ==
    /\ Take({"init"})
    /\ \E dsInit \in DsInits :
        Commit(createAgpsStateMachines(Rest, dsInit)) /\ Costs(dsInit)
    /\ UNCHANGED <<up, want>>

AgpsMsgRequestATL ==
    /\ Take({"request"})
    /\ LET c == Head(g.queue)[2]
           type == Head(g.queue)[3]
           n == NifOf(type)
       IN  \/ /\ \E dsInit \in DsInits :
                    /\ n = "ds" \/ dsInit
                    /\ Commit(requestATL(Rest, c, type, dsInit, "success"))
                    /\ Costs(dsInit)
           \/ /\ n = "ds" /\ "ds" \in g.created /\ g.mState["ds"] = "RELEASED"
              /\ \E ret \in Returns \ {"success"} : Commit(requestATL(Rest, c, type, TRUE, ret))
              /\ Costs(FALSE)
    /\ UNCHANGED <<up, want>>

AgpsMsgReleaseATL ==
    /\ Take({"release"})
    /\ Commit(releaseATL(Rest, Head(g.queue)[2]))
    /\ UNCHANGED <<up, want, faults>>

\* AgpsMsgAtlOpenSuccess, AtlOpenFailed, AtlClosed and SuplEsOpened, SuplEsClosed.
AgpsMsgReport ==
    /\ Take({"GRANTED", "DENIED", "RELEASED"})
    /\ LET ev == Head(g.queue)[1]
           n == Head(g.queue)[2]
       IN  \/ Commit(processAgpsEvent(Rest, n, ev, "success")) /\ Costs(TRUE)
           \/ /\ n = "ds" /\ g.mState["ds"] = "RELEASING" /\ ev # "GRANTED"
              /\ \E ret \in Returns \ {"success"} : Commit(processAgpsEvent(Rest, n, ev, ret))
              /\ Costs(FALSE)
    /\ UNCHANGED <<up, want>>

-----------------------------------------------------------------------------
(* The threads that post                                                     *)

\* initAgpsCommand: a framework does not replace one of higher priority.
initAgpsCommand(p) ==
    /\ p \notin g.heard
    /\ LET t == [g EXCEPT !.heard = @ \cup {p}]
       IN  g' = IF g.cbPriority > p THEN t ELSE Post([t EXCEPT !.cbPriority = p], <<"init">>)
    /\ UNCHANGED <<asked, up, want, faults>>

ModemRequests(c, type) ==
    /\ g.created # {} /\ want[c] = "idle"
    /\ want' = [want EXCEPT ![c] = "asked"]
    /\ g' = Post(g, <<"request", c, type>>)
    /\ UNCHANGED <<asked, up, faults>>

ModemReleases(c) ==
    /\ want[c] = "asked"
    /\ want' = [want EXCEPT ![c] = "released"]
    /\ g' = Post(g, <<"release", c>>)
    /\ UNCHANGED <<asked, up, faults>>

\* The framework (agnss, internet) or the data service client (ds) does what it
\* was asked, in order, and reports; a request may fail.
Refusal(n) == IF n = "ds" THEN "RELEASED" ELSE "DENIED"

Serve(n, ok) ==
    /\ asked[n] # << >>
    /\ ok \/ (Head(asked[n]) = "request" /\ faults < FAULTS_MAX)
    /\ LET opens == Head(asked[n]) = "request" /\ ok
       IN  /\ up' = [up EXCEPT ![n] = opens]
           /\ g' = Post(g, <<IF opens THEN "GRANTED"
                             ELSE IF ok THEN "RELEASED" ELSE Refusal(n), n>>)
    /\ asked' = [asked EXCEPT ![n] = Tail(@)]
    /\ Costs(ok)
    /\ UNCHANGED want

Lose(n) ==
    /\ up[n] /\ faults < FAULTS_MAX
    /\ up' = [up EXCEPT ![n] = FALSE]
    /\ g' = Post(g, <<"RELEASED", n>>)
    /\ Costs(FALSE)
    /\ UNCHANGED <<asked, want>>

\* delay_callback, retryCallback.
RetryTimer ==
    /\ g.timers > 0
    /\ LET actives == SelectSeq(Subs(g, "ds"), Active)
           t == [g EXCEPT !.timers = @ - 1]
       IN  g' = IF actives = << >> THEN t
                ELSE Post(t, <<"request", Head(actives).conn, "SUPL_ES">>)
    /\ UNCHANGED <<asked, up, want, faults>>

Task == MsgInit \/ AgpsMsgRequestATL \/ AgpsMsgReleaseATL \/ AgpsMsgReport

Next ==
    \/ Task
    \/ \E p \in Priorities : initAgpsCommand(p)
    \/ \E a \in Asks : ModemRequests(a[1], a[2])
    \/ \E c \in Conns : ModemReleases(c)
    \/ \E n \in Nifs : \E ok \in BOOLEAN : Serve(n, ok)
    \/ \E n \in Nifs : Lose(n)
    \/ RetryTimer

\* The adapter's task runs, the framework answers, timers expire.
Fairness == WF_vars(Task) /\ WF_vars(RetryTimer) /\ \A n \in Nifs : WF_vars(Serve(n, TRUE))

Spec == Init /\ [][Next]_vars /\ Fairness

-----------------------------------------------------------------------------
(* Properties                                                                *)

Quiet == g.queue = << >> /\ g.timers = 0 /\ \A n \in Nifs : asked[n] = << >>

\* Once everything asked is answered, a machine and the connection it manages
\* agree: the connection is up exactly while the machine is ACQUIRED, no machine
\* still waits, and an open connection has a subscriber.
ConnectionOwned ==
    Quiet => \A n \in Nifs \ g.misled :
        /\ up[n] <=> g.mState[n] = "ACQUIRED"
        /\ g.mState[n] \in {"RELEASED", "ACQUIRED"}
        /\ up[n] => \E x \in Range(Subs(g, n)) :
                        Active(x) /\ (want[x.conn] = "asked" \/ x.conn \in g.stray)

\* The modem is told that a connection is open only while it wants it.
OpenOnlyWanted ==
    [][\A c \in Conns : g'.told[c] = "open" /\ g.told[c] # "open"
            => want[c] = "asked" \/ <<"release", c>> \in Range(g'.queue) \/ c \in g'.stray]_vars

\* A handle for which the modem asks a connection, and which it does not give
\* back, is told in the end that the connection is open, refused or closed.
Answered ==
    \A c \in Conns :
        want[c] = "asked" ~> (g.told[c] # "none" \/ want[c] = "released" \/ g.misled # {})
=============================================================================

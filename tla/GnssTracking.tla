----------------------------- MODULE GnssTracking -----------------------------
(***************************************************************************)
(* Position tracking: clients of the location API ask for fixes at an      *)
(* interval, the GNSS adapter multiplexes their sessions onto the modem's  *)
(* one fix session, and rebuilds everything when the modem restarts.  A    *)
(* client's calls run in its own thread and only post messages; the        *)
(* adapter's task handles the messages one at a time and answers by        *)
(* calling back into the client.                                           *)
(***************************************************************************)
EXTENDS Naturals, Sequences, FiniteSets, FiniteSetsExt, Functions

CONSTANTS
    Clients,
    CallbackSets(_),    \* what each client may register, as sets of callbacks
    Intervals,          \* LocationOptions.minInterval
    NMEA_PROVIDER_MP,   \* the modem, not the processor, writes NMEA (mNmeaMask # 0)
    SESSIONS_MAX,       \* session ids handed out (a bound)
    CALLS_MAX,          \* messages waiting when a client calls (a bound)
    REFUSALS_MAX,       \* engine commands the modem refuses (a bound)
    RESTARTS_MAX        \* restarts of the modem (a bound)

VARIABLES
    g,          \* the adapter, its queue and its clients
    engine,     \* the modem: up, its fix interval, the events it reports
    refusals, restarts

trackingVars == <<g, engine, refusals, restarts>>

OFF == 0

ASSUME TrackingAssumption == Intervals \subseteq Nat \ {OFF} /\ Intervals # {}

Client == [api |-> FALSE, gone |-> FALSE, cbs |-> {}, mTracking |-> FALSE,
           mLocationOptions |-> Min(Intervals), session |-> 0]

TrackingInit ==
    /\ g = [queue |-> << >>, mClientData |-> << >>, mTrackingSessions |-> << >>,
            mEvtMask |-> {}, mSessionIdCounter |-> 0,
            client |-> [c \in Clients |-> Client],
            failed |-> {},      \* clients one of whose requests failed
            orphaned |-> {},    \* clients that withdrew their callbacks
            lost |-> FALSE]     \* the modem refused to resume after a restart
    /\ engine = [up |-> TRUE, fix |-> OFF, mask |-> {}]
    /\ refusals = 0
    /\ restarts = 0

-----------------------------------------------------------------------------
(* The adapter's tables                                                      *)

sendMsg(t, m) == [t EXCEPT !.queue = Append(@, m)]

isGnssClient(cbs) == cbs \cap {"ni", "tracking", "measurements"} # {}

Sessions(t) == DOMAIN t.mTrackingSessions
OthersThan(t, key) == Restrict(t.mTrackingSessions, Sessions(t) \ {key})
Smallest(sessions) == Min(Range(sessions))

updateEvtMask(t, mask) == sendMsg([t EXCEPT !.mEvtMask = mask], [kind |-> "Open", mask |-> mask])

updateClientsEventMask(t) ==
    LET cbs == UNION Range(t.mClientData)
        mask == (cbs \ {"nmea"}) \cup (IF NMEA_PROVIDER_MP THEN cbs \cap {"nmea"} ELSE {})
    IN  updateEvtMask(t, mask)

saveClient(t, c, cbs) ==
    updateClientsEventMask([t EXCEPT !.mClientData =
        [x \in DOMAIN @ \cup {c} |-> IF x = c THEN cbs ELSE @[x]]])

eraseClient(t, c) ==
    updateClientsEventMask([t EXCEPT !.mClientData = Restrict(@, DOMAIN @ \ {c})])

Callbacks(t, c) == IF c \in DOMAIN t.mClientData THEN t.mClientData[c] ELSE {}

saveTrackingSession(t, key, i) ==
    [t EXCEPT !.mTrackingSessions =
        [k \in DOMAIN @ \cup {key} |-> IF k = key THEN i ELSE @[k]]]

eraseTrackingSession(t, key) == [t EXCEPT !.mTrackingSessions = Restrict(@, DOMAIN @ \ {key})]

(* The answer: only what a failure does to the client's view is kept; which  *)
(* pending request the callback pops has no effect on the state.             *)
reportResponse(t, c, err) == IF err THEN [t EXCEPT !.failed = @ \cup {c}] ELSE t

-----------------------------------------------------------------------------
(* Multiplexing: the command a change of the sessions needs from the engine, *)
(* as the set of the interval to run at (OFF stops it), empty when none.     *)

startTrackingMultiplex(t, i) ==
    IF Sessions(t) = {} \/ i < Smallest(t.mTrackingSessions) THEN {i} ELSE {}

updateTrackingMultiplex(t, key, i) ==
    IF Cardinality(Sessions(t)) = 1 THEN {i}
    ELSE LET s == Smallest(OthersThan(t, key))
         IN  IF i < s THEN {i} ELSE IF t.mTrackingSessions[key] < s THEN {s} ELSE {}

(* A defect: the engine is not slowed down when the fastest session ends.     *)
stopTrackingMultiplex_KeepsPace(t, key) == IF Cardinality(Sessions(t)) = 1 THEN {OFF} ELSE {}

stopTrackingMultiplex(t, key) ==
    IF Cardinality(Sessions(t)) = 1 THEN {OFF}
    ELSE LET s == Smallest(OthersThan(t, key))
         IN  IF t.mTrackingSessions[key] < s THEN {s} ELSE {}

(* startTracking and stopTracking: the base ULP proxy declines, so the       *)
(* command goes to the modem, which fails while it is down.                  *)
Accepts(e, cmd, refused) == cmd = {} \/ (e.up /\ ~refused)
Obeys(e, cmd, ok) == IF ok /\ cmd # {} THEN [e EXCEPT !.fix = CHOOSE i \in cmd : TRUE] ELSE e

(* A refusal by a modem that is up is a fault, and faults are bounded.       *)
Refusal(r, cmd) ==
    /\ r => engine.up /\ cmd # {} /\ refusals < REFUSALS_MAX
    /\ refusals' = refusals + IF r THEN 1 ELSE 0

Msg == Head(g.queue)
Popped(t) == [t EXCEPT !.queue = Tail(@)]
Handles(kind) == g.queue # << >> /\ Msg.kind = kind

startTracking ==
    /\ Handles("Start")
    /\ \E refused \in BOOLEAN :
        LET key == <<Msg.c, Msg.id>>
            missing == Callbacks(g, Msg.c) \cap {"tracking", "measurements"} = {}
            cmd == IF missing THEN {} ELSE startTrackingMultiplex(g, Msg.i)
            ok == ~missing /\ Accepts(engine, cmd, refused)
            saved == IF ok THEN saveTrackingSession(Popped(g), key, Msg.i) ELSE Popped(g)
        IN  /\ Refusal(refused, cmd)
            /\ engine' = Obeys(engine, cmd, ok)
            /\ g' = reportResponse(saved, Msg.c, ~ok)
    /\ UNCHANGED restarts

updateTrackingOptions ==
    /\ Handles("Update")
    /\ \E refused \in BOOLEAN :
        LET key == <<Msg.c, Msg.id>>
            known == key \in Sessions(g)
            cmd == IF known THEN updateTrackingMultiplex(g, key, Msg.i) ELSE {}
            ok == Accepts(engine, cmd, refused)
            saved == IF ok THEN saveTrackingSession(Popped(g), key, Msg.i) ELSE Popped(g)
        IN  /\ Refusal(refused, cmd)
            /\ engine' = Obeys(engine, cmd, ok)
            /\ g' = IF known THEN reportResponse(saved, Msg.c, ~ok) ELSE Popped(g)
    /\ UNCHANGED restarts

stopTracking ==
    /\ Handles("Stop")
    /\ \E refused \in BOOLEAN :
        LET key == <<Msg.c, Msg.id>>
            known == key \in Sessions(g)
            cmd == IF known THEN stopTrackingMultiplex(g, key) ELSE {}
            ok == Accepts(engine, cmd, refused)
            erased == IF ok THEN eraseTrackingSession(Popped(g), key) ELSE Popped(g)
        IN  /\ Refusal(refused, cmd)
            /\ engine' = Obeys(engine, cmd, ok)
            /\ g' = IF known THEN reportResponse(erased, Msg.c, ~ok) ELSE Popped(g)
    /\ UNCHANGED restarts

(* A defect: the sessions of a client that goes are left running.             *)
stopClientSessions_None(t, e, c, refused) == [t |-> t, e |-> e]

(* The loop of stopClientSessions: a session whose stop fails stays.         *)
stopClientSessions(t, e, c, refused) ==
    LET Stop(s, id) ==
            LET cmd == stopTrackingMultiplex(s.t, <<c, id>>)
                ok == Accepts(s.e, cmd, refused)
            IN  [t |-> IF ok THEN eraseTrackingSession(s.t, <<c, id>>)
                       ELSE [s.t EXCEPT !.failed = @ \cup {c}],
                 e |-> Obeys(s.e, cmd, ok)]
        after[n \in 0..t.mSessionIdCounter] ==    \* the sessions with ids up to n
            IF n = 0 THEN [t |-> t, e |-> e]
            ELSE IF <<c, n>> \in Sessions(t) THEN Stop(after[n - 1], n) ELSE after[n - 1]
    IN  after[t.mSessionIdCounter]

removeClient ==
    /\ Handles("Remove")
    /\ \E refused \in BOOLEAN :
        LET s == stopClientSessions(Popped(g), engine, Msg.c, refused)
        IN  /\ Refusal(refused, {k \in Sessions(g) : k[1] = Msg.c})
            /\ engine' = s.e
            /\ g' = eraseClient(s.t, Msg.c)
    /\ UNCHANGED restarts

addClient ==
    /\ Handles("Add")
    /\ g' = saveClient(Popped(g), Msg.c, Msg.cbs)
    /\ UNCHANGED <<engine, refusals, restarts>>

-----------------------------------------------------------------------------
(* The modem, and the messages that follow its restart                       *)

openEvents ==
    /\ Handles("Open")
    /\ engine' = IF engine.up THEN [engine EXCEPT !.mask = Msg.mask] ELSE engine
    /\ g' = Popped(g)
    /\ UNCHANGED <<refusals, restarts>>

LocSsrMsg ==
    /\ Handles("Ssr")
    /\ engine' = IF engine.up THEN [engine EXCEPT !.mask = g.mEvtMask] ELSE engine
    /\ g' = Popped(g)
    /\ UNCHANGED <<refusals, restarts>>

restartSessions ==
    /\ Handles("Restart")
    /\ \E refused \in BOOLEAN :
        LET cmd == IF Sessions(g) = {} THEN {} ELSE {Smallest(g.mTrackingSessions)}
        IN  /\ Refusal(refused, cmd)
            /\ engine' = Obeys(engine, cmd, Accepts(engine, cmd, refused))
            /\ g' = [Popped(g) EXCEPT !.lost = refused]
    /\ UNCHANGED restarts

EngineDown ==
    /\ engine.up /\ restarts < RESTARTS_MAX
    /\ engine' = [up |-> FALSE, fix |-> OFF, mask |-> {}]
    /\ restarts' = restarts + 1
    /\ UNCHANGED <<g, refusals>>

(* The configuration that is sent again first is in GnssControl.             *)
adapterHandleEngineUp(t) == sendMsg(t, [kind |-> "Restart"])

handleEngineUpEvent ==
    /\ ~engine.up
    /\ engine' = [engine EXCEPT !.up = TRUE]
    /\ g' = adapterHandleEngineUp(sendMsg(g, [kind |-> "Ssr"]))
    /\ UNCHANGED <<refusals, restarts>>

-----------------------------------------------------------------------------
(* The clients                                                               *)

Live(c) == g.client[c].api /\ Len(g.queue) < CALLS_MAX
HasSession(c) == g.client[c].session > 0

(* LocationAPI, without the batching and geofence libraries: everything goes *)
(* to the GNSS adapter, and only a client with one of its callbacks is       *)
(* announced to it and withdrawn from it.                                    *)
createInstance(t, c, cbs) ==
    LET u == [t EXCEPT !.client[c].api = TRUE, !.client[c].cbs = cbs]
    IN  IF isGnssClient(cbs) THEN sendMsg(u, [kind |-> "Add", c |-> c, cbs |-> cbs]) ELSE u

updateCallbacks(t, c, cbs) ==
    LET u == [t EXCEPT !.client[c].cbs = cbs]
    IN  IF isGnssClient(cbs) THEN sendMsg(u, [kind |-> "Add", c |-> c, cbs |-> cbs])
        ELSE [u EXCEPT !.orphaned = @ \cup {c}]

generateSessionId(t) == t.mSessionIdCounter + 1

apiStartTracking(t, c, i) ==
    LET id == generateSessionId(t)
    IN  sendMsg([t EXCEPT !.mSessionIdCounter = id], [kind |-> "Start", c |-> c, id |-> id, i |-> i])

apiUpdateTrackingOptions(t, c, i) ==
    sendMsg(t, [kind |-> "Update", c |-> c, id |-> t.client[c].session, i |-> i])

apiStopTracking(t, c) == sendMsg(t, [kind |-> "Stop", c |-> c, id |-> t.client[c].session])

(* What a client calls, under its own lock.                                  *)
locAPISetCallbacks(c) ==
    /\ ~g.client[c].gone /\ Len(g.queue) < CALLS_MAX
    /\ \E cbs \in CallbackSets(c) \ {g.client[c].cbs} :
        g' = IF g.client[c].api THEN updateCallbacks(g, c, cbs) ELSE createInstance(g, c, cbs)
    /\ UNCHANGED <<engine, refusals, restarts>>

locAPIStartTracking(c) ==
    /\ Live(c) /\ ~g.client[c].mTracking /\ g.mSessionIdCounter < SESSIONS_MAX
    /\ g' = [apiStartTracking(g, c, g.client[c].mLocationOptions) EXCEPT
                !.client[c].session = generateSessionId(g), !.client[c].mTracking = TRUE]
    /\ UNCHANGED <<engine, refusals, restarts>>

locAPIStopTracking(c) ==
    /\ Live(c) /\ HasSession(c)
    /\ g' = [apiStopTracking(g, c) EXCEPT !.client[c].mTracking = FALSE]
    /\ UNCHANGED <<engine, refusals, restarts>>

locAPIUpdateTrackingOptions(t, c, i) ==
    IF HasSession(c) THEN apiUpdateTrackingOptions(t, c, i) ELSE t

gnssSetPositionMode(c) ==
    /\ Live(c)
    /\ \E i \in Intervals \ {g.client[c].mLocationOptions} :
        g' = locAPIUpdateTrackingOptions([g EXCEPT !.client[c].mLocationOptions = i], c, i)
    /\ UNCHANGED <<engine, refusals, restarts>>

(* The client and its LocationAPI go at once, the adapter hears of it later. *)
destroy(c) ==
    /\ Live(c)
    /\ LET t == [g EXCEPT !.client[c] = [Client EXCEPT !.gone = TRUE]]
       IN  g' = IF isGnssClient(g.client[c].cbs) THEN sendMsg(t, [kind |-> "Remove", c |-> c])
                ELSE t
    /\ UNCHANGED <<engine, refusals, restarts>>

Handler ==
    \/ addClient \/ removeClient
    \/ startTracking \/ updateTrackingOptions \/ stopTracking
    \/ openEvents \/ LocSsrMsg \/ restartSessions

TrackingNext ==
    \/ Handler
    \/ EngineDown \/ handleEngineUpEvent
    \/ \E c \in Clients :
        \/ locAPISetCallbacks(c) \/ destroy(c)
        \/ locAPIStartTracking(c) \/ locAPIStopTracking(c) \/ gnssSetPositionMode(c)

-----------------------------------------------------------------------------
(* The modem's one fix session runs at the smallest interval of the sessions *)
(* the adapter holds, or not at all when it holds none, whatever commands    *)
(* the modem has refused and however often it restarted: the multiplexing    *)
(* of start, update, stop and client removal never leaves it faster or       *)
(* slower.  While a restart is still to be handled, or when the modem has    *)
(* refused to resume after one, nothing is said.                             *)
FixFollowsSessions ==
    engine.up /\ ~g.lost /\ ~(\E k \in DOMAIN g.queue : g.queue[k].kind = "Restart")
        => engine.fix = IF Sessions(g) = {} THEN OFF ELSE Smallest(g.mTrackingSessions)

(* When the adapter has nothing left to do, a client's idea of its tracking  *)
(* (mTracking, the session id, the options it set last) is what the adapter  *)
(* holds for it, and a client that has gone holds nothing: no interleaving   *)
(* of calls, late answers and modem restarts leaks a session or an old       *)
(* interval.  A client one of whose requests failed, or that withdrew its    *)
(* callbacks, is left out: its mTracking then really disagrees.              *)
SessionsTracked ==
    g.queue = << >> => \A c \in Clients \ (g.failed \cup g.orphaned) :
        {k \in Sessions(g) \X Intervals : k[1][1] = c /\ k[2] = g.mTrackingSessions[k[1]]}
            = IF g.client[c].mTracking
              THEN {<<<<c, g.client[c].session>>, g.client[c].mLocationOptions>>} ELSE {}
=============================================================================

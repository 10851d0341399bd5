-------------------------------- MODULE GnssNi --------------------------------
(***************************************************************************)
(* Network-initiated location requests.  The modem asks, the adapter shows *)
(* the request to the client that registered for it and starts a thread    *)
(* that waits for the user's answer or a timeout and sends one of them to  *)
(* the modem.  There are two sessions, one of them for emergencies.  The   *)
(* adapter's task looks a session up without its lock, the thread resets   *)
(* part of it after unlocking: the steps between two locks are steps here. *)
(***************************************************************************)
EXTENDS Naturals, Sequences

CONSTANTS
    NI_MAX,             \* requests by the network (a bound)
    UserChoices,        \* what the user may answer
    NI_QUEUE_MAX        \* messages waiting when the modem asks (a bound)

ASSUME NiAssumption ==
    /\ NI_MAX \in Nat /\ NI_QUEUE_MAX \in Nat
    /\ UserChoices \subseteq {"ACCEPT", "DENY", "NO_RESPONSE"}

VARIABLES
    ni,         \* the two sessions, the adapter's queue and the step it is in
    thread,     \* per request, the state of its thread
    user,       \* per request, what the user answered
    answer,     \* per request, what the modem was told
    asks        \* the requests so far, by type

niVars == <<ni, thread, user, answer, asks>>

NiSessions == {"session", "sessionEs"}
Requests == 1..NI_MAX
NONE == 0               \* no request; a rawRequest is the number of its request


NiInit ==
    /\ ni = [queue |-> << >>, stores |-> << >>, reqIDCounter |-> 0,
             rawRequest |-> [s \in NiSessions |-> NONE],
             reqID |-> [s \in NiSessions |-> 0],
             resp |-> [s \in NiSessions |-> "none"],
             respRecvd |-> [s \in NiSessions |-> FALSE],
             shown |-> [r \in Requests |-> 0],     \* the id the user was shown
             taken |-> [r \in Requests |-> NONE],  \* what its thread took
             late |-> {},           \* sessions holding an answer that came too late
             misled |-> {}]         \* requests that found such an answer waiting
    /\ thread = [r \in Requests |-> "none"]
    /\ user = [r \in Requests |-> "none"]
    /\ answer = [r \in Requests |-> << >>]
    /\ asks = << >>

-----------------------------------------------------------------------------
Idle == ni.stores = << >>
Message == Head(ni.queue)
Receives(kind) == Idle /\ ni.queue # << >> /\ Message.kind = kind
Dequeued(t) == [t EXCEPT !.queue = Tail(@)]
Enqueue(t, m) == [t EXCEPT !.queue = Append(@, m)]

Busy(s) == ni.rawRequest[s] # NONE
SessionFor(type) == IF type = "es" THEN "sessionEs" ELSE "session"

Refused(type) == Busy("sessionEs") \/ (type # "es" /\ Busy("session"))

(* requestNiNotify: a session that is busy drops the request.                *)
requestNiNotify ==
    /\ Receives("Notify")
    /\ LET r == Message.r
           s == SessionFor(asks[r])
           id == ni.reqIDCounter + 1
       IN  IF Refused(asks[r])
           THEN /\ ni' = Dequeued(ni)
                /\ thread' = [thread EXCEPT ![r] = "refused"]
           ELSE /\ ni' = [Dequeued(ni) EXCEPT !.rawRequest[s] = r, !.reqID[s] = id,
                                              !.reqIDCounter = id, !.shown[r] = id]
                /\ thread' = [thread EXCEPT ![r] = "waiting"]
    /\ UNCHANGED <<user, answer, asks>>

(* gnssNiResponseCommand, up to the lock: the session is the one whose       *)
(* request has the id, and accepting an emergency drops the other request.   *)
Answers(id) == {s \in NiSessions : ni.reqID[s] = id /\ Busy(s)}

gnssNiResponse ==
    /\ Receives("Response")
    /\ LET s == IF "sessionEs" \in Answers(Message.id) THEN "sessionEs" ELSE "session"
           own == [s |-> s, resp |-> Message.resp]
           drops == s = "sessionEs" /\ Message.resp = "ACCEPT" /\ Busy("session")
       IN  ni' = [Dequeued(ni) EXCEPT !.stores =
                    IF Answers(Message.id) = {} THEN << >>
                    ELSE IF drops THEN <<[s |-> "session", resp |-> "IGNORE"], own>>
                    ELSE <<own>>]
    /\ UNCHANGED <<thread, user, answer, asks>>

(* The adapter's task inside the lock of a session.                          *)
StoreResponse ==
    /\ ~Idle
    /\ LET x == Head(ni.stores)
       IN  ni' = [ni EXCEPT !.stores = Tail(@), !.resp[x.s] = x.resp, !.respRecvd[x.s] = TRUE,
                            !.late = IF Busy(x.s) THEN @ ELSE @ \cup {x.s}]
    /\ UNCHANGED <<thread, user, answer, asks>>

informNiResponse ==
    /\ Receives("Inform")
    /\ ni' = Dequeued(ni)
    /\ answer' = [answer EXCEPT ![Message.r] = Append(@, Message.resp)]
    /\ UNCHANGED <<thread, user, asks>>

-----------------------------------------------------------------------------
(* A defect: the flag is not reset for the next request.                      *)
TakeRequest_KeepsFlag(t, s, r, resp) ==
    [t EXCEPT !.resp[s] = resp, !.rawRequest[s] = NONE,
              !.taken[r] = IF resp = "IGNORE" THEN NONE ELSE t.rawRequest[s],
              !.late = @ \ {s}, !.misled = IF s \in t.late THEN @ \cup {r} ELSE @]

(* niThreadProc: the wait and all the thread does before it unlocks ...      *)
TakeRequest(t, s, r, resp) ==
    [t EXCEPT !.resp[s] = resp, !.respRecvd[s] = FALSE, !.rawRequest[s] = NONE,
              !.taken[r] = IF resp = "IGNORE" THEN NONE ELSE t.rawRequest[s],
              !.late = @ \ {s}, !.misled = IF s \in t.late THEN @ \cup {r} ELSE @]

Wake(r, timedOut) ==
    LET s == SessionFor(asks[r])
        resp == IF timedOut THEN "NO_RESPONSE" ELSE ni.resp[s]
    IN  /\ thread[r] = "waiting"
        /\ timedOut \/ ni.respRecvd[s]
        /\ ni' = TakeRequest(ni, s, r, resp)
        /\ thread' = [thread EXCEPT ![r] = resp]
        /\ UNCHANGED <<user, answer, asks>>

(* A defect: a timeout is not reported to the modem.                          *)
ThreadExit_AnswersOnly(r) ==
    /\ thread[r] \in {"ACCEPT", "DENY", "NO_RESPONSE", "IGNORE"}
    /\ LET t == [ni EXCEPT !.reqID[SessionFor(asks[r])] = 0]
       IN  IF ni.taken[r] = NONE
           THEN ni' = t /\ thread' = [thread EXCEPT ![r] = "dropped"]
           ELSE /\ ni' = IF thread[r] = "NO_RESPONSE" THEN t
                         ELSE Enqueue(t, [kind |-> "Inform", r |-> ni.taken[r], resp |-> thread[r]])
                /\ thread' = [thread EXCEPT ![r] = "ended"]
    /\ UNCHANGED <<user, answer, asks>>

(* ... and what it does after.                                               *)
ThreadExit(r) ==
    /\ thread[r] \in {"ACCEPT", "DENY", "NO_RESPONSE", "IGNORE"}
    /\ LET t == [ni EXCEPT !.reqID[SessionFor(asks[r])] = 0]
       IN  IF ni.taken[r] = NONE
           THEN ni' = t /\ thread' = [thread EXCEPT ![r] = "dropped"]
           ELSE /\ ni' = Enqueue(t, [kind |-> "Inform", r |-> ni.taken[r], resp |-> thread[r]])
                /\ thread' = [thread EXCEPT ![r] = "ended"]
    /\ UNCHANGED <<user, answer, asks>>

(* The modem and the user                                                    *)
NetworkAsks(type) ==
    /\ Len(asks) < NI_MAX /\ Len(ni.queue) < NI_QUEUE_MAX
    /\ asks' = Append(asks, type)
    /\ ni' = Enqueue(ni, [kind |-> "Notify", r |-> Len(asks) + 1])
    /\ UNCHANGED <<thread, user, answer>>

locAPIGnssNiResponse(t, id, resp) == Enqueue(t, [kind |-> "Response", id |-> id, resp |-> resp])

gnssNiRespond(r) ==
    /\ ni.shown[r] > 0 /\ user[r] = "none"
    /\ \E c \in UserChoices :
        /\ user' = [user EXCEPT ![r] = c]
        /\ ni' = locAPIGnssNiResponse(ni, ni.shown[r], c)
    /\ UNCHANGED <<thread, answer, asks>>

NiHandler == requestNiNotify \/ gnssNiResponse \/ StoreResponse \/ informNiResponse

NiNext ==
    \/ NiHandler
    \/ \E r \in 1..Len(asks) : Wake(r, TRUE) \/ Wake(r, FALSE) \/ ThreadExit(r) \/ gnssNiRespond(r)
    \/ \E type \in {"normal", "es"} : NetworkAsks(type)

NiFairness ==
    /\ WF_niVars(NiHandler)
    /\ \A r \in Requests : WF_niVars(Wake(r, TRUE)) /\ WF_niVars(ThreadExit(r))

-----------------------------------------------------------------------------
(* The modem gets at most one answer to a request, and it is the user's      *)
(* answer to that very request or the timeout's; a request is dropped        *)
(* without an answer only when the user has accepted an emergency.  This     *)
(* holds of every request but those whose session still held an answer that  *)
(* was stored after its own request had timed out.                           *)
NiAnswerOwn ==
    \A r \in Requests \ ni.misled :
        /\ Len(answer[r]) <= 1
        /\ \A k \in DOMAIN answer[r] : answer[r][k] \in {"NO_RESPONSE", user[r]}
        /\ thread[r] = "dropped" =>
            \E e \in 1..Len(asks) : asks[e] = "es" /\ user[e] = "ACCEPT"

(* A request that was shown to the user is answered in the end, or dropped   *)
(* for an emergency: the thread's timeout sees to it even when the user's    *)
(* answer finds no session any more.                                         *)
NiAnswered ==
    \A r \in Requests :
        thread[r] = "waiting" ~> answer[r] # << >> \/ thread[r] = "dropped"
=============================================================================

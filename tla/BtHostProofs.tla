----------------------------- MODULE BtHostProofs -----------------------------
(***************************************************************************)
(* For every number of retries, waits, calls and departures of the stack:  *)
(* no answer of the stack is missed, and between calls the state of the    *)
(* stream agrees with what the stack does.  The second needs an invariant  *)
(* that follows the answer to a command from the stack to the end of the   *)
(* call.                                                                   *)
(***************************************************************************)
EXTENDS BtHost, SequenceTheorems, TLAPS

Status == {"UNKNOWN", "SUCCESS", "FAILURE", "UNSUPPORTED", "PENDING", "PREVIOUS_COMMAND_PENDING",
           "SKT_DISCONNECTED"}
States == {"STARTING", "STARTED", "STOPPING", "STOPPED", "STANDBY", "SUSPENDED"}
Commands == {"start", "stop", "suspend"}
Queries == {"config", "next_config", "ready", "latency"}
QueryRequests == {"mcast", "devices", "codec", "ready", "latency"}
Requests == {"start", "suspend", "connection"} \cup QueryRequests
Points == {"idle", "ask", "clear", "check", "enter", "wait", "verdict", "gaveup", "read",
           "settle", "conclude", "dead"}

\* What a call may be: its requests are those of its function.
Calls ==
    [op : {"none", "close"} \cup Commands \cup Queries, req : {"none"} \cup Requests,
     i : Nat, j : Nat, waits : Nat, status : Status]

Acks == [status : Status, recvd : BOOLEAN, resp : BOOLEAN]
Asked == [req : Requests, pending : BOOLEAN]

TypeOK ==
    /\ hal_imp \in BOOLEAN /\ stack_cb \in BOOLEAN /\ tail \in BOOLEAN
    /\ fresh \in BOOLEAN /\ opened \in BOOLEAN /\ answered \in BOOLEAN /\ misled \in BOOLEAN
    /\ state \in States
    /\ ack \in Acks
    /\ pc \in Points /\ call \in Calls
    /\ bt \in [asked : Seq(Asked), started : BOOLEAN]
    /\ count \in [calls : Nat, deinits : Nat]

RequestsOfCall ==
    /\ call.op = "none" <=> pc = "idle"
    /\ call.op = "none" => call = NoCall
    /\ call.op = "start" => call.req \in {"start", "connection"}
    /\ call.op \in {"stop", "suspend", "close"} => call.req = "suspend"
    /\ call.op = "ready" => call.req = "ready"
    /\ call.op \in Queries \ {"ready"} => call.req \in QueryRequests \ {"ready"}

(* AnswersHeard *)

\* An answer that came is still to be seen: in resp_received until that is looked at,
\* then in ack_recvd, until the call decides whether to give up.
StillSeen ==
    /\ pc \in {"clear", "check"} => (answered => ack.resp)
    /\ pc \in {"enter", "wait", "verdict"} /\ call.status # "PENDING" => (answered => ack.recvd)
    /\ pc = "gaveup" => ~answered

HeardInv == TypeOK /\ RequestsOfCall /\ StillSeen

(* StreamAgrees *)

Agree ==
    /\ state = "STARTED" /\ opened => bt.started
    /\ state \in {"STANDBY", "SUSPENDED"} => ~bt.started

\* The only request the stack may still answer is the one of this call; it has said
\* PENDING to it.
Asking == bt.asked # << >> => Len(bt.asked) = 1 /\ bt.asked[1].req = call.req
Postponed == Asking /\ (bt.asked # << >> => bt.asked[1].pending)

\* The stack carried out a command whose outcome is s, or nothing has changed.
Told(s) ==
    IF s = "SUCCESS" /\ call.req = "start" THEN bt.started
    ELSE IF s = "SUCCESS" /\ call.req = "suspend" THEN ~bt.started ELSE Agree

\* The answer to the command that is under way: none yet, PENDING, or the outcome.
Unheard == ack.status = "UNKNOWN" /\ ~ack.resp /\ Asking /\ Agree
Waiting == ack.status = "PENDING" /\ ack.resp /\ call.req # "connection" /\ Postponed /\ Agree
Final == ack.status \notin {"UNKNOWN", "PENDING"} /\ bt.asked = << >> /\ Told(ack.status)
FirstAnswer ==
    \/ Unheard /\ (pc # "clear" => ~ack.recvd)
    \/ (Waiting \/ (Final /\ ack.resp)) /\ (pc \in {"enter", "wait", "verdict"} => ack.recvd)
SecondAnswer ==
    /\ call.req # "connection"
    /\ (ack.status = "UNKNOWN" /\ Postponed /\ Agree) \/ Final

\* Where the call is and what has become of its command.
CommandFollowed ==
    /\ pc \in {"clear", "check", "enter", "wait", "verdict", "read"} => stack_cb
    /\ pc \in {"ask", "gaveup"} => bt.asked = << >> /\ Agree
    /\ pc \in {"clear", "check"} => FirstAnswer
    /\ pc \in {"enter", "wait", "verdict"} => IF call.status = "PENDING" THEN SecondAnswer ELSE FirstAnswer
    /\ pc = "verdict" => ack.recvd \/ call.waits = CTRL_CHAN_RETRY_COUNT
    /\ pc = "read" => Waiting \/ Final
    /\ pc = "settle" => SecondAnswer
    /\ pc = "conclude" => bt.asked = << >> /\ Told(call.status)
    /\ pc \in {"ask", "gaveup", "clear", "check", "read", "conclude"} => call.status # "PENDING"

\* As long as nothing has misled the state.
Followed ==
    /\ pc = "idle" => bt.asked = << >> /\ (tail => ~bt.started) /\ (~tail => Agree)
    /\ call.op \in Commands => CommandFollowed
    /\ call.op \in Queries =>
        Agree /\ \A i \in 1..Len(bt.asked) : bt.asked[i].req \in QueryRequests
    /\ call.op = "close" => /\ state \notin {"STANDBY", "SUSPENDED"} /\ pc # "gaveup"
                            /\ pc = "ask" => bt.asked = << >> /\ Agree

AgreeInv ==
    /\ TypeOK
    /\ RequestsOfCall
    /\ tail => pc = "idle"
    /\ ~misled => Followed

----------------------------------------------------------------------------
(* Types *)

\* The calls of the audio HAL.
CallBegins ==
    \/ audio_stream_open \/ audio_stream_close \/ audio_start_stream \/ audio_stop_stream
    \/ audio_suspend_stream \/ audio_get_codec_config \/ audio_get_next_codec_config
    \/ audio_is_scrambling_enabled \/ audio_check_a2dp_ready \/ audio_get_a2dp_sink_latency
    \/ audio_handoff_triggered \/ clear_a2dpsuspend_flag

\* A call that is entered, a call that decides without a request, or a call that only
\* sets the state.
LEMMA CallBeginsForms ==
    ASSUME CallBegins
    PROVE  /\ pc = "idle" /\ (tail => Overlap) /\ count' = [count EXCEPT !.calls = @ + 1]
           /\ UNCHANGED <<hal_imp, stack_cb, ack, tail, fresh, bt, answered>>
           /\ \/ /\ \E op \in Commands \cup Queries \cup {"close"}, req \in Requests :
                      /\ pc' = "ask" /\ call' = [NoCall EXCEPT !.op = op, !.req = req]
                      /\ op = "start" => req = "start"
                      /\ op \in {"stop", "suspend", "close"} => req = "suspend"
                      /\ op = "ready" => req = "ready"
                      /\ op \in Queries \ {"ready"} => req \in QueryRequests \ {"ready"}
                      /\ op = "close" => state \notin {"STANDBY", "SUSPENDED"}
                 /\ UNCHANGED <<state, opened, misled>>
              \/ UNCHANGED <<pc, call, opened, misled>> /\ state' \in {state, "STOPPED"}
              \/ UNCHANGED <<pc, call>> /\ state' = "STOPPED" /\ opened' = TRUE
                 /\ misled' = (bt.asked # << >>)
  <1> USE DEF Begin, MayCall, Enter, Stay, SetState, Commands, Queries, Requests, QueryRequests
  <1>1. CASE audio_stream_open
    BY <1>1, Zenon DEF audio_stream_open
  <1>2. CASE audio_handoff_triggered \/ clear_a2dpsuspend_flag
    BY <1>2 DEF audio_handoff_triggered, clear_a2dpsuspend_flag
  <1>3. CASE audio_stream_close
    BY <1>3 DEF audio_stream_close
  <1>4. CASE audio_start_stream
    BY <1>4 DEF audio_start_stream
  <1>5. CASE audio_stop_stream
    BY <1>5 DEF audio_stop_stream
  <1>6. CASE audio_suspend_stream
    BY <1>6 DEF audio_suspend_stream
  <1>7. CASE audio_get_codec_config
    BY <1>7 DEF audio_get_codec_config
  <1>8. CASE audio_get_next_codec_config
    BY <1>8 DEF audio_get_next_codec_config
  <1>9. CASE audio_is_scrambling_enabled
    BY <1>9 DEF audio_is_scrambling_enabled
  <1>10. CASE audio_check_a2dp_ready
    BY <1>10 DEF audio_check_a2dp_ready
  <1>11. CASE audio_get_a2dp_sink_latency
    BY <1>11 DEF audio_get_a2dp_sink_latency
  <1> QED
    BY <1>1, <1>2, <1>3, <1>4, <1>5, <1>6, <1>7, <1>8, <1>9, <1>10, <1>11 DEF CallBegins

\* NoCall and the updates of a call are calls.
LEMMA CallTypes ==
    /\ NoCall \in Calls
    /\ \A c \in Calls : /\ [c EXCEPT !.i = @ + 1] \in Calls /\ [c EXCEPT !.i = 0, !.j = @ + 1] \in Calls
                        /\ [c EXCEPT !.waits = 0] \in Calls /\ [c EXCEPT !.waits = @ + 1] \in Calls
                        /\ \A st \in Status : [c EXCEPT !.status = st] \in Calls
                        /\ \A r \in Requests : [c EXCEPT !.req = r] \in Calls
  <1>1. NoCall \in Calls
    BY DEF NoCall, Calls, Status, Requests
  <1>2. ASSUME NEW c \in Calls
        PROVE  /\ [c EXCEPT !.i = @ + 1] \in Calls /\ [c EXCEPT !.i = 0, !.j = @ + 1] \in Calls
               /\ [c EXCEPT !.waits = 0] \in Calls /\ [c EXCEPT !.waits = @ + 1] \in Calls
    <2>1. c.i \in Nat /\ c.j \in Nat /\ c.waits \in Nat
      BY DEF Calls
    <2>2. \A n \in Nat : /\ [c EXCEPT !.i = n] \in Calls /\ [c EXCEPT !.waits = n] \in Calls
                         /\ [c EXCEPT !.i = 0, !.j = n] \in Calls
      BY DEF Calls
    <2>3. c.i + 1 \in Nat /\ c.j + 1 \in Nat /\ c.waits + 1 \in Nat /\ 0 \in Nat
      BY <2>1
    <2> QED
      BY <2>2, <2>3, Zenon
  <1>3. ASSUME NEW c \in Calls, NEW st \in Status PROVE [c EXCEPT !.status = st] \in Calls
    BY DEF Calls
  <1>4. ASSUME NEW c \in Calls, NEW r \in Requests PROVE [c EXCEPT !.req = r] \in Calls
    BY DEF Calls
  <1> QED
    BY <1>1, <1>2, <1>3, <1>4

\* So are the updates of an answer.
LEMMA AckTypes ==
    \A a \in Acks : \A st \in Status, x \in BOOLEAN :
        /\ [a EXCEPT !.status = st] \in Acks /\ [a EXCEPT !.recvd = x] \in Acks
        /\ [a EXCEPT !.status = st, !.recvd = x] \in Acks
  BY DEF Acks

\* Returning, or asking again, leaves a call.
LEMMA EndTypes ==
    ASSUME TypeOK
    PROVE  /\ \A m \in BOOLEAN : Return(m) => pc' \in Points /\ call' \in Calls /\ misled' \in BOOLEAN
           /\ \A r \in Requests, c \in Calls :
                Again(r, c) => pc' \in Points /\ call' \in Calls /\ misled' \in BOOLEAN
  <1>1. ASSUME NEW m \in BOOLEAN, Return(m)
        PROVE  pc' \in Points /\ call' \in Calls /\ misled' \in BOOLEAN
    BY <1>1, CallTypes DEF Return, Points
  <1>2. ASSUME NEW r \in Requests, NEW c \in Calls, Again(r, c)
        PROVE  pc' \in Points /\ call' \in Calls /\ misled' \in BOOLEAN
    BY <1>2, CallTypes DEF Again, Points, TypeOK
  <1> QED
    BY <1>1, <1>2, Zenon

\* The end of a request.
LEMMA ConcludeTypes ==
    ASSUME TypeOK, RequestsOfCall, Conclude, UNCHANGED <<hal_imp, stack_cb, count>>
    PROVE  TypeOK'
  <1>1. call \in Calls /\ call.req \in Requests /\ ack.status \in Status
    BY DEF TypeOK, RequestsOfCall, Conclude, Calls, Requests, QueryRequests, Queries, Commands, Acks
  <1>2. Assumed \in BOOLEAN /\ Done \in BOOLEAN /\ FALSE \in BOOLEAN
    BY DEF Assumed, Done
  <1> DEFINE P == pc' \in Points /\ call' \in Calls /\ misled' \in BOOLEAN
  <1>3. \A m \in BOOLEAN : Return(m) => P
    BY EndTypes
  <1>4. \A r \in Requests, c \in Calls : Again(r, c) => P
    BY EndTypes
  <1> HIDE DEF P
  <1>5. \A n : Retry(n, Return(FALSE)) => P
    BY <1>1, <1>2, <1>3, <1>4, CallTypes DEF Retry
  <1>6. \A n : Retry(n, Again("connection", call)) => P
    BY <1>1, <1>3, <1>4, CallTypes DEF Retry, Requests
  <1>7. CASE call.req = "start"
    <2>1. P /\ state' \in States /\ UNCHANGED <<tail, ack>>
      BY <1>2, <1>3, <1>6, <1>7 DEF TypeOK, RequestsOfCall, Conclude, ConcludeStart, States, Queries,
                                    QueryRequests
    <2> QED
      BY <2>1 DEF TypeOK, P, Conclude
  <1>8. CASE call.req = "connection"
    <2>1. P /\ state' \in States /\ UNCHANGED <<tail, ack>>
      BY <1>1, <1>2, <1>3, <1>4, <1>8, CallTypes
         DEF TypeOK, RequestsOfCall, Conclude, ConcludeConnection, States, Queries, QueryRequests, Requests
    <2> QED
      BY <2>1 DEF TypeOK, P, Conclude
  <1>9. CASE call.op \in {"stop", "suspend", "close"}
    <2>1. call.req = "suspend"
      BY <1>9 DEF RequestsOfCall
    <2>2. P /\ state' \in States /\ UNCHANGED ack /\ tail' \in BOOLEAN
      BY <1>2, <1>3, <1>9, <2>1
         DEF TypeOK, Conclude, ConcludeStop, ConcludeSuspend, States
    <2> QED
      BY <2>2 DEF TypeOK, P, Conclude
  <1>10. CASE call.op = "ready"
    <2>1. call.req = "ready"
      BY <1>10 DEF RequestsOfCall
    <2>2. ConcludeReady /\ UNCHANGED tail
      BY <1>10, <2>1 DEF Conclude
    <2>3. P /\ state' \in States
      BY <2>2, <1>2, <1>3, <1>5 DEF TypeOK, ConcludeReady
    <2>4. ack' = ack \/ ack' = [ack EXCEPT !.status = IF pc' = "idle" THEN "UNKNOWN" ELSE @]
      BY <2>2 DEF ConcludeReady
    <2>5. ack' \in Acks
      <3>1. ack \in Acks /\ "UNKNOWN" \in Status
        BY DEF TypeOK, Status
      <3>2. ack' = ack \/ ack' = [ack EXCEPT !.status = "UNKNOWN"]
                      \/ ack' = [ack EXCEPT !.status = ack.status]
        BY <2>4
      <3> QED
        BY <3>1, <3>2, <1>1, AckTypes
    <2> QED
      BY <2>2, <2>3, <2>5 DEF TypeOK, P, Conclude
  <1>11. CASE call.op \in Queries \ {"ready"}
    <2>1. call.req \in QueryRequests \ {"ready"}
      BY <1>11 DEF RequestsOfCall
    <2>2. ConcludeQuery /\ UNCHANGED <<tail, ack>>
      BY <1>11, <2>1 DEF Conclude, QueryRequests, Queries
    <2>3. "codec" \in Requests /\ "devices" \in Requests
      BY DEF Requests, QueryRequests
    <2>4. P
      BY <2>1, <2>2, <2>3, <1>1, <1>2, <1>3, <1>4, <1>5 DEF ConcludeQuery, QueryRequests
    <2> QED
      BY <2>2, <2>4 DEF TypeOK, P, Conclude, ConcludeQuery
  <1>12. call.op # "none"
    BY DEF Conclude, RequestsOfCall
  <1> QED
    BY <1>7, <1>8, <1>9, <1>10, <1>11, <1>12
       DEF TypeOK, RequestsOfCall, Calls, Commands, Queries

\* The other steps of a call.
LEMMA CallStepTypes ==
    ASSUME TypeOK, RequestsOfCall, CallStep
    PROVE  TypeOK'
  <1>1. call \in Calls /\ ack \in Acks /\ ack.status \in Status /\ FALSE \in BOOLEAN
    BY DEF TypeOK, Acks
  <1>2. CASE Conclude
    BY <1>2, ConcludeTypes DEF CallStep
  <1>3. CASE Request
    <2>1. call.req \in Requests
      BY <1>3 DEF TypeOK, RequestsOfCall, Request, Calls, Requests, QueryRequests, Queries, Commands
    <2>2. CASE stack_cb
      <3>1. bt' \in [asked : Seq(Asked), started : BOOLEAN]
        <4> DEFINE r == [req |-> call.req, pending |-> FALSE]
        <4>1. r \in Asked
          BY <2>1 DEF Asked
        <4>2. Append(bt.asked, r) \in Seq(Asked)
          BY <4>1 DEF TypeOK
        <4>3. bt' = [bt EXCEPT !.asked = Append(@, r)]
          BY <1>3, <2>2 DEF Request
        <4> QED
          BY <4>2, <4>3 DEF TypeOK
      <3>2. ack' \in Acks /\ pc' \in Points
        <4> DEFINE st == IF call.req \in {"start", "connection", "suspend", "ready"}
                         THEN "UNKNOWN" ELSE ack.status
                   a == ack.recvd /\ ~(call.op \in {"stop", "suspend", "ready"})
                   b == ack.resp /\ call.op = "ready"
        <4>1. st \in Status /\ a \in BOOLEAN /\ b \in BOOLEAN
          BY <1>1 DEF Status
        <4>2. ack' = [status |-> st, recvd |-> a, resp |-> b] /\ pc' \in Points
          BY <1>3, <2>2 DEF Request, Ask, Points
        <4> HIDE DEF st, a, b
        <4> QED
          BY <4>1, <4>2 DEF Acks
      <3> QED
        BY <3>1, <3>2, <1>3, <2>2 DEF Request, TypeOK, CallStep, Conclude
    <2>3. CASE ~stack_cb
      <3>1. AskNobody
        BY <1>3, <2>3 DEF Request
      <3>2. pc' \in Points /\ call' \in Calls /\ misled' \in BOOLEAN
        BY <3>1, <1>1, EndTypes, CallTypes DEF AskNobody, TypeOK, Status, Points
      <3>3. state' \in States
        BY <3>1 DEF AskNobody, TypeOK, States
      <3> QED
        BY <3>1, <3>2, <3>3, <1>3 DEF AskNobody, Request, TypeOK, CallStep, Conclude
    <2> QED
      BY <2>2, <2>3
  <1>4. CASE Clear \/ CheckResponse
    <2>1. ack' \in Acks /\ pc' \in Points
      BY <1>1, <1>4, AckTypes DEF Clear, CheckResponse, Points
    <2> QED
      BY <1>4, <2>1 DEF Clear, CheckResponse, TypeOK, CallStep, Conclude
  <1>5. CASE wait_for_stack_response
    <2>1. pc' \in Points /\ call' \in Calls
      BY <1>5, <1>1, CallTypes DEF wait_for_stack_response, WaitAgain, Points
    <2> QED
      BY <1>5, <2>1 DEF wait_for_stack_response, TypeOK, CallStep, Conclude
  <1>6. CASE Verdict
    <2>1. misled' \in BOOLEAN /\ pc' \in Points
      BY <1>6 DEF Verdict, Points
    <2> QED
      BY <1>6, <2>1 DEF Verdict, TypeOK, CallStep, Conclude
  <1>7. CASE GiveUp
    BY <1>1, <1>7, EndTypes DEF GiveUp, TypeOK, CallStep, Conclude
  <1>8. CASE ReadStatus
    <2>1. call' \in Calls /\ pc' \in Points
      BY <1>8, <1>1, CallTypes DEF ReadStatus, Points
    <2>2. ack' \in Acks
      <3> DEFINE commands == call.op \in {"start", "stop", "suspend"} /\ call.req # "connection"
                 pending == commands /\ ack.status = "PENDING"
                 st == IF commands \/ call.req \in {"connection", "codec"}
                       THEN "UNKNOWN" ELSE ack.status
                 x == ack.recvd /\ ~pending
      <3>1. st \in Status /\ x \in BOOLEAN
        BY <1>1 DEF Status
      <3>2. ack' = [ack EXCEPT !.status = st, !.recvd = x]
        BY <1>8 DEF ReadStatus
      <3> HIDE DEF st, x
      <3> QED
        BY <3>1, <3>2, <1>1, AckTypes
    <2> QED
      BY <1>8, <2>1, <2>2 DEF ReadStatus, TypeOK, CallStep, Conclude
  <1>9. CASE Settle
    <2>1. call' \in Calls /\ pc' \in Points
      <3>1. "SUCCESS" \in Status
        BY DEF Status
      <3> QED
        BY <3>1, <1>9, <1>1, CallTypes DEF Settle, Points
    <2>2. ack' \in Acks
      <3>1. ack' = [ack EXCEPT !.status = "UNKNOWN"] /\ "UNKNOWN" \in Status
        BY <1>9 DEF Settle, Status
      <3> QED
        BY <3>1, <1>1, AckTypes
    <2>3. misled' \in BOOLEAN
      BY <1>9 DEF Settle
    <2> QED
      BY <1>9, <2>1, <2>2, <2>3 DEF Settle, TypeOK, CallStep, Conclude
  <1> QED
    BY <1>2, <1>3, <1>4, <1>5, <1>6, <1>7, <1>8, <1>9 DEF CallStep

\* The stack's answers.
LEMMA AnswerTypes ==
    ASSUME TypeOK, Answer
    PROVE  TypeOK'
  <1> DEFINE r == Head(bt.asked)
  <1>1. bt.asked \in Seq(Asked) /\ bt.asked # << >> /\ bt.started \in BOOLEAN
    BY DEF TypeOK, Answer
  <1>2. r \in Asked /\ Tail(bt.asked) \in Seq(Asked) /\ [bt.asked EXCEPT ![1].pending = TRUE] \in Seq(Asked)
    <2>1. r \in Asked /\ Tail(bt.asked) \in Seq(Asked) /\ r = bt.asked[1] /\ 1 \in 1..Len(bt.asked)
      BY <1>1
    <2>2. [bt.asked[1] EXCEPT !.pending = TRUE] \in Asked
      BY <2>1 DEF Asked
    <2>3. [bt.asked EXCEPT ![1] = [bt.asked[1] EXCEPT !.pending = TRUE]] \in Seq(Asked)
      BY <2>1, <2>2, <1>1
    <2> QED
      BY <2>1, <2>3
  <1>3. PICK st \in Statuses(r.req) :
          /\ bt_stack_on(r.req, st)
          /\ bt' = [asked |-> IF st = "PENDING" THEN [bt.asked EXCEPT ![1].pending = TRUE]
                              ELSE Tail(bt.asked),
                    started |-> IF st = "SUCCESS" /\ r.req \in {"start", "suspend"}
                                THEN r.req = "start" ELSE bt.started]
    BY DEF Answer
  <1>4. st \in Status
    BY <1>3 DEF Statuses, Status
  <1>5. bt' \in [asked : Seq(Asked), started : BOOLEAN]
    BY <1>1, <1>2, <1>3
  <1>6. ack' \in Acks /\ answered' \in BOOLEAN
    <2>1. ack.status \in Status /\ ack \in Acks /\ answered \in BOOLEAN
      BY DEF TypeOK, Acks
    <2> DEFINE x == IF r.req \in {"mcast", "devices", "latency"} THEN ack.status ELSE st
    <2>2. x \in Status
      BY <2>1, <1>4
    <2>3. [status |-> x, recvd |-> TRUE, resp |-> TRUE] \in Acks
      BY <2>2 DEF Acks
    <2> QED
      BY <2>1, <2>3, <1>3 DEF bt_stack_on
  <1> QED
    BY <1>5, <1>6 DEF TypeOK, Answer

\* The steps that are no part of a call.
LEMMA OtherTypes ==
    ASSUME TypeOK, CallBegins \/ SuspendEnds \/ NeverAnswer \/ bt_stack_init \/ bt_stack_deinit
    PROVE  TypeOK'
  <1>1. bt.asked \in Seq(Asked) /\ ack \in Acks /\ count.calls \in Nat /\ count.deinits \in Nat
    BY DEF TypeOK
  <1>2. CASE CallBegins
    <2>1. count' \in [calls : Nat, deinits : Nat]
      <3>1. count' = [count EXCEPT !.calls = @ + 1] /\ count \in [calls : Nat, deinits : Nat]
        BY <1>2, CallBeginsForms DEF TypeOK
      <3> QED
        BY <3>1
    <2>2. call' \in Calls /\ pc' \in Points
      <3>1. CASE UNCHANGED <<pc, call>>
        BY <3>1 DEF TypeOK
      <3>2. CASE pc' = "ask" /\ \E op \in Commands \cup Queries \cup {"close"}, req \in Requests :
                                  call' = [NoCall EXCEPT !.op = op, !.req = req]
        <4>1. PICK op \in Commands \cup Queries \cup {"close"}, req \in Requests :
                call' = [NoCall EXCEPT !.op = op, !.req = req]
          BY <3>2
        <4>2. call' = [op |-> op, req |-> req, i |-> 0, j |-> 0, waits |-> 0, status |-> "UNKNOWN"]
          BY <4>1 DEF NoCall
        <4> QED
          BY <3>2, <4>2 DEF Calls, Points, Status
      <3> QED
        BY <1>2, <3>1, <3>2, CallBeginsForms
    <2>3. state' \in States /\ opened' \in BOOLEAN /\ misled' \in BOOLEAN
      BY <1>2, CallBeginsForms DEF TypeOK, States
    <2> QED
      BY <2>1, <2>2, <2>3, <1>2, CallBeginsForms DEF TypeOK
  <1>3. CASE SuspendEnds
    BY <1>3 DEF SuspendEnds, TypeOK, States
  <1>4. CASE NeverAnswer
    <2>1. Tail(bt.asked) \in Seq(Asked)
      BY <1>1, <1>4 DEF NeverAnswer
    <2>2. bt' \in [asked : Seq(Asked), started : BOOLEAN]
      BY <2>1, <1>4 DEF NeverAnswer, TypeOK
    <2> QED
      BY <2>2, <1>4 DEF NeverAnswer, TypeOK
  <1>5. CASE bt_stack_init
    BY <1>5 DEF bt_stack_init, TypeOK
  <1>6. CASE bt_stack_deinit
    <2>1. ack' \in Acks
      BY <1>1, <1>6, AckTypes DEF bt_stack_deinit, Status
    <2>2. bt' \in [asked : Seq(Asked), started : BOOLEAN]
      BY <1>6 DEF bt_stack_deinit
    <2>3. count' \in [calls : Nat, deinits : Nat] /\ misled' \in BOOLEAN
      BY <1>1, <1>6 DEF bt_stack_deinit, TypeOK
    <2> QED
      BY <2>1, <2>2, <2>3, <1>6 DEF bt_stack_deinit, TypeOK
  <1> QED
    BY <1>2, <1>3, <1>4, <1>5, <1>6

\* A call keeps to the requests of its function.
LEMMA RequestsStep ==
    ASSUME TypeOK, RequestsOfCall, [Next]_btVars
    PROVE  RequestsOfCall'
  <1>1. call \in Calls /\ pc \in Points
    BY DEF TypeOK
  <1>2. CASE UNCHANGED <<pc, call>>
    BY <1>2 DEF RequestsOfCall
  <1>3. CASE CallBegins
    BY <1>2, <1>3, CallBeginsForms
       DEF RequestsOfCall, NoCall, Commands, Queries
  <1>4. CASE CallStep
    <2>1. ASSUME NEW m, Return(m) PROVE RequestsOfCall'
      BY <2>1 DEF Return, RequestsOfCall, NoCall, Queries
    <2>2. ASSUME NEW n, call.op # "none", Retry(n, Return(FALSE)) PROVE RequestsOfCall'
      BY <2>1, <2>2, <1>1 DEF Retry, Again, RequestsOfCall, Calls, NoCall, Queries
    <2>3. call.op # "none"
      BY <1>4 DEF CallStep, Request, Clear, CheckResponse, wait_for_stack_response, Verdict, GiveUp,
                  ReadStatus, Settle, Conclude, RequestsOfCall
    <2>4. CASE Conclude
      <3>1. CASE call.req = "start"
        BY <2>1, <2>4, <3>1, <2>3, <1>1
           DEF Conclude, ConcludeStart, Retry, Again, RequestsOfCall, Calls, Queries, QueryRequests
      <3>2. CASE call.req = "connection"
        BY <2>1, <2>4, <3>2, <2>3, <1>1
           DEF Conclude, ConcludeConnection, Again, RequestsOfCall, Calls, Queries, QueryRequests
      <3>3. CASE call.op \in {"stop", "suspend", "close"}
        BY <2>1, <2>4, <3>3 DEF Conclude, ConcludeStop, ConcludeSuspend, RequestsOfCall
      <3>4. CASE call.op = "ready"
        BY <2>1, <2>2, <2>3, <2>4, <3>4 DEF Conclude, ConcludeReady, RequestsOfCall
      <3>5. CASE call.op \in Queries \ {"ready"}
        <4>1. ConcludeQuery /\ call.req \in QueryRequests \ {"ready"}
          BY <2>4, <3>5 DEF Conclude, RequestsOfCall, Queries, QueryRequests
        <4>2. CASE call.req \in {"mcast", "devices"}
          BY <4>1, <4>2, <2>3, <3>5, <1>1
             DEF ConcludeQuery, Again, RequestsOfCall, Calls, Queries, QueryRequests
        <4> QED
          BY <4>1, <4>2, <2>1, <2>2, <2>3 DEF ConcludeQuery, QueryRequests
      <3> QED
        BY <3>1, <3>2, <3>3, <3>4, <3>5, <2>3, <1>1 DEF RequestsOfCall, Calls, Queries, Commands
    <2>5. CASE Request
      <3>1. CASE stack_cb
        BY <2>3, <2>5, <3>1 DEF Request, Ask, RequestsOfCall
      <3>2. CASE ~stack_cb
        BY <2>1, <2>3, <2>5, <3>2, <1>1 DEF Request, AskNobody, RequestsOfCall, Calls, Queries
      <3> QED
        BY <3>1, <3>2
    <2>6. CASE Clear \/ CheckResponse \/ Verdict
      BY <2>3, <2>6 DEF Clear, CheckResponse, Verdict, RequestsOfCall
    <2>7. CASE wait_for_stack_response
      BY <2>3, <2>7, <1>1 DEF wait_for_stack_response, WaitAgain, RequestsOfCall, Calls, Queries
    <2>8. CASE GiveUp
      BY <2>1, <2>8 DEF GiveUp
    <2>9. CASE ReadStatus
      BY <2>3, <2>9, <1>1 DEF ReadStatus, RequestsOfCall, Calls, Queries
    <2>10. CASE Settle
      BY <2>3, <2>10, <1>1 DEF Settle, RequestsOfCall, Calls, Queries
    <2> QED
      BY <1>4, <2>4, <2>5, <2>6, <2>7, <2>8, <2>9, <2>10 DEF CallStep
  <1> QED
    BY <1>2, <1>3, <1>4 DEF Next, CallBegins, SuspendEnds, Answer, NeverAnswer, bt_stack_init,
                            bt_stack_deinit, btVars

\* The types and the requests of a call are an invariant.
LEMMA TypesInit ==
    ASSUME Init
    PROVE  TypeOK /\ RequestsOfCall
  <1>1. << >> \in Seq(Asked)
    OBVIOUS
  <1>2. bt \in [asked : Seq(Asked), started : BOOLEAN]
    BY <1>1 DEF Init
  <1>3. ack \in Acks /\ state \in States /\ pc \in Points
    BY DEF Init, Acks, Status, States, Points
  <1>4. count \in [calls : Nat, deinits : Nat]
    BY DEF Init
  <1> QED
    BY <1>2, <1>3, <1>4, CallTypes DEF Init, TypeOK, RequestsOfCall, NoCall, Queries

LEMMA TypesStep ==
    ASSUME TypeOK, RequestsOfCall, [Next]_btVars
    PROVE  TypeOK' /\ RequestsOfCall'
  <1>1. ASSUME UNCHANGED btVars PROVE TypeOK'
    BY <1>1 DEF btVars, TypeOK
  <1>2. ASSUME CallStep PROVE TypeOK'
    BY <1>2, CallStepTypes
  <1>3. ASSUME Answer PROVE TypeOK'
    BY <1>3, AnswerTypes
  <1>4. ASSUME CallBegins \/ SuspendEnds \/ NeverAnswer \/ bt_stack_init \/ bt_stack_deinit PROVE TypeOK'
    BY <1>4, OtherTypes
  <1> QED
    BY <1>1, <1>2, <1>3, <1>4, RequestsStep DEF Next, CallBegins

----------------------------------------------------------------------------
(* Every answer is heard *)

\* A request that is concluded ends the call or leads to the next request.
LEMMA ConcludeEnds ==
    ASSUME TypeOK, RequestsOfCall, Conclude
    PROVE  pc' \in {"idle", "ask"}
  <1>1. call \in Calls /\ call.op # "none"
    BY DEF TypeOK, RequestsOfCall, Conclude
  <1>2. ASSUME NEW m, Return(m) PROVE pc' \in {"idle", "ask"}
    BY <1>2 DEF Return
  <1>3. ASSUME NEW r, NEW c, Again(r, c) PROVE pc' \in {"idle", "ask"}
    BY <1>3 DEF Again
  <1>4. CASE call.req \in {"start", "connection"}
    <2>1. CASE call.req = "start"
      BY <2>1 DEF Conclude, ConcludeStart, Retry, Return, Again, RequestsOfCall, Queries, QueryRequests
    <2>2. CASE call.req = "connection"
      BY <2>2 DEF Conclude, ConcludeConnection, Return, Again, RequestsOfCall, Queries, QueryRequests
    <2> QED
      BY <1>4, <2>1, <2>2
  <1>5. CASE call.op \in {"stop", "suspend", "close"}
    BY <1>5, <1>2 DEF Conclude, ConcludeStop, ConcludeSuspend, RequestsOfCall
  <1>6. CASE call.op = "ready"
    BY <1>6, <1>2, <1>3 DEF Conclude, ConcludeReady, Retry, RequestsOfCall
  <1>7. CASE call.op \in Queries \ {"ready"}
    <2>1. ConcludeQuery /\ call.req \in QueryRequests \ {"ready"}
      BY <1>7 DEF Conclude, RequestsOfCall, Queries, QueryRequests
    <2> QED
      BY <2>1, <1>2, <1>3 DEF ConcludeQuery, Retry, QueryRequests
  <1> QED
    BY <1>1, <1>4, <1>5, <1>6, <1>7 DEF RequestsOfCall, Calls, Commands, Queries

\* Each of the assignments around a request leaves an answer where it is looked for.
LEMMA StillSeenStep ==
    ASSUME TypeOK, RequestsOfCall, StillSeen, [Next]_btVars
    PROVE  StillSeen'
  <1>1. pc \in Points /\ call \in Calls /\ ack \in Acks /\ answered \in BOOLEAN
    BY DEF TypeOK
  <1>2. CASE UNCHANGED <<pc, call, ack, answered>>
    BY <1>2 DEF StillSeen
  <1>3. CASE CallBegins
    <2>1. pc' \in {"idle", "ask"}
      BY <1>3, CallBeginsForms
    <2> QED
      BY <2>1 DEF StillSeen
  <1>4. CASE CallStep
    <2>1. CASE Request
      <3>1. CASE stack_cb
        BY <2>1, <3>1 DEF Request, StillSeen
      <3>2. CASE ~stack_cb
        BY <2>1, <3>2 DEF Request, AskNobody, Return, StillSeen
      <3> QED
        BY <3>1, <3>2
    <2>2. CASE Clear
      <3>1. ack'.resp = ack.resp /\ pc' = "check" /\ pc = "clear" /\ answered' = answered
        BY <2>2, <1>1 DEF Clear, Acks
      <3> QED
        BY <3>1 DEF StillSeen
    <2>3. CASE CheckResponse
      BY <2>3 DEF CheckResponse, StillSeen
    <2>4. CASE wait_for_stack_response
      <3>1. call'.status = call.status
        BY <2>4, <1>1 DEF wait_for_stack_response, WaitAgain, Calls
      <3> QED
        BY <2>4, <3>1 DEF wait_for_stack_response, WaitAgain, StillSeen
    <2>5. CASE Verdict
      BY <2>5 DEF Verdict, StillSeen
    <2>6. CASE GiveUp
      BY <2>6 DEF GiveUp, Return, StillSeen
    <2>7. CASE ReadStatus
      <3>1. pc' = "conclude" \/ (pc' = "enter" /\ call'.status = "PENDING")
        BY <2>7, <1>1 DEF ReadStatus, Calls
      <3> QED
        BY <3>1 DEF StillSeen
    <2>8. CASE Settle
      BY <2>8 DEF Settle, StillSeen
    <2>9. CASE Conclude
      <3>1. pc' \in {"idle", "ask"}
        BY <2>9, ConcludeEnds
      <3> QED
        BY <3>1 DEF StillSeen
    <2> QED
      BY <1>4, <2>1, <2>2, <2>3, <2>4, <2>5, <2>6, <2>7, <2>8, <2>9 DEF CallStep
  <1>5. CASE Answer
    <2>1. PICK req, st : bt_stack_on(req, st)
      BY <1>5 DEF Answer
    <2>2. UNCHANGED <<pc, call>>
      BY <1>5 DEF Answer
    <2>3. CASE UNCHANGED <<ack, answered>>
      BY <2>2, <2>3 DEF StillSeen
    <2>4. CASE ack'.recvd /\ ack'.resp /\ (pc = "gaveup" => answered' = answered)
      BY <2>2, <2>4 DEF StillSeen
    <2>5. (pc = "gaveup" => (answered \/ pc # "gaveup") = answered)
      BY <1>1, Zenon
    <2> QED
      BY <2>1, <2>3, <2>4, <2>5 DEF bt_stack_on
  <1>6. CASE bt_stack_deinit
    <2>1. ack'.recvd /\ ack'.resp = ack.resp /\ UNCHANGED <<pc, call, answered>>
      BY <1>6, <1>1 DEF bt_stack_deinit, Acks
    <2> QED
      BY <2>1 DEF StillSeen
  <1> QED
    BY <1>2, <1>3, <1>4, <1>5, <1>6
       DEF Next, CallBegins, SuspendEnds, NeverAnswer, bt_stack_init, btVars

\* No call of the audio HAL gives up although the stack has answered in time, for any
\* number of waits, whatever the stack does, also if the calls overlap: the order in
\* which audio_start_stream and its like reset resp_received and ack_recvd around the
\* request loses no answer.
THEOREM EveryAnswerHeard == Spec => []AnswersHeard
  <1>1. Init => HeardInv
    BY TypesInit DEF HeardInv, StillSeen, Init
  <1>2. HeardInv /\ [Next]_btVars => HeardInv'
    BY TypesStep, StillSeenStep DEF HeardInv
  <1>3. HeardInv => AnswersHeard
    BY DEF HeardInv, StillSeen, AnswersHeard
  <1> QED
    BY <1>1, <1>2, <1>3, PTL DEF Spec

----------------------------------------------------------------------------
(* The state of the stream agrees with the stack *)

\* A step of a call ends it, with no request open unless that misleads the state, or
\* stays in it.  Nothing undoes that the state is misled.
LEMMA CallStepForms ==
    ASSUME TypeOK, RequestsOfCall, CallStep
    PROVE  /\ pc # "idle" /\ call.op # "none"
           /\ ~misled' => ~misled
           /\ \/ pc' = "idle" /\ call' = NoCall /\ (~misled' => bt.asked = << >>)
              \/ pc' # "idle" /\ call'.op = call.op
  <1>1. call \in Calls /\ misled \in BOOLEAN
    BY DEF TypeOK
  <1>2. pc # "idle" /\ call.op # "none"
    BY DEF RequestsOfCall, CallStep, Request, Clear, CheckResponse, wait_for_stack_response, Verdict,
           GiveUp, ReadStatus, Settle, Conclude
  <1> DEFINE P == /\ ~misled' => ~misled
                  /\ \/ pc' = "idle" /\ call' = NoCall /\ (~misled' => bt.asked = << >>)
                     \/ pc' # "idle" /\ call'.op = call.op
  <1> SUFFICES P
    BY <1>2
  <1>3. ASSUME NEW m, Return(m) PROVE P
    BY <1>3, <1>1 DEF Return, Unanswered
  <1>4. ASSUME NEW r, NEW c \in Calls, Again(r, c), c.op = call.op PROVE P
    BY <1>4 DEF Again, Calls
  <1>5. ASSUME NEW n, NEW r, Retry(n, Again(r, call)) PROVE P
    BY <1>1, <1>5 DEF Retry, Again, Calls
  <1>6. ASSUME NEW n, Retry(n, Return(FALSE)) PROVE P
    BY <1>1, <1>3, <1>6 DEF Retry, Again, Calls
  <1>7. CASE Conclude
    <2>1. CASE call.req = "start"
      BY <1>7, <2>1, <1>3, <1>5 DEF P, Conclude, ConcludeStart, RequestsOfCall, Queries, QueryRequests
    <2>2. CASE call.req = "connection"
      <3>1. [call EXCEPT !.i = 0, !.j = @ + 1] \in Calls
        BY <1>1, CallTypes
      <3>2. [call EXCEPT !.i = 0, !.j = @ + 1].op = call.op
        BY <1>1 DEF Calls
      <3> QED
        BY <1>7, <2>2, <3>1, <3>2, <1>3, <1>4
           DEF Conclude, ConcludeConnection, RequestsOfCall, Queries, QueryRequests
    <2>3. CASE call.op \in {"stop", "suspend", "close"}
      BY <1>7, <2>3, <1>3 DEF Conclude, ConcludeStop, ConcludeSuspend, RequestsOfCall
    <2>4. CASE call.op = "ready"
      BY <1>7, <2>4, <1>3, <1>6 DEF Conclude, ConcludeReady, RequestsOfCall
    <2>5. CASE call.op \in Queries \ {"ready"}
      <3>1. ConcludeQuery /\ call.req \in QueryRequests \ {"ready"}
        BY <1>7, <2>5 DEF Conclude, RequestsOfCall, Queries, QueryRequests
      <3> QED
        BY <3>1, <1>1, <1>3, <1>4, <1>6 DEF ConcludeQuery, QueryRequests
    <2> QED
      BY <1>2, <1>1, <2>1, <2>2, <2>3, <2>4, <2>5 DEF RequestsOfCall, Calls, Commands, Queries
  <1>8. CASE Request
    <2>1. CASE stack_cb
      BY <1>8, <2>1 DEF Request, Ask
    <2>2. CASE ~stack_cb
      BY <1>8, <2>2, <1>1, <1>3 DEF Request, AskNobody, Calls
    <2> QED
      BY <2>1, <2>2
  <1>9. CASE Clear \/ CheckResponse
    BY <1>9 DEF Clear, CheckResponse
  <1>10. CASE wait_for_stack_response
    BY <1>10, <1>1 DEF wait_for_stack_response, WaitAgain, Calls
  <1>11. CASE Verdict
    BY <1>11 DEF Verdict
  <1>12. CASE GiveUp
    BY <1>12, <1>3 DEF GiveUp
  <1>13. CASE ReadStatus
    BY <1>13, <1>1 DEF ReadStatus, Calls
  <1>14. CASE Settle
    BY <1>14, <1>1 DEF Settle, Calls
  <1> QED
    BY <1>7, <1>8, <1>9, <1>10, <1>11, <1>12, <1>13, <1>14 DEF CallStep

\* What a step of a call does to the stack and to the stream, by the function called.
LEMMA CallStepEffects ==
    ASSUME TypeOK, RequestsOfCall, CallStep
    PROVE  /\ bt'.started = bt.started /\ UNCHANGED stack_cb
           /\ bt' = bt \/ (pc = "ask" /\ bt' = [bt EXCEPT !.asked = Append(@, [req |-> call.req, pending |-> FALSE])])
           /\ pc # "conclude" => UNCHANGED <<opened, tail>>
           /\ call.op # "suspend" => UNCHANGED tail
           /\ call.op # "close" => UNCHANGED opened
           /\ call.op \in Queries \cup {"close"} => UNCHANGED state
           /\ call.op = "close" /\ pc = "conclude" => opened' = FALSE
           /\ call.op = "close" => pc' # "gaveup" /\ pc' # "ask"
  <1>1. call \in Calls /\ bt \in [asked : Seq(Asked), started : BOOLEAN] /\ opened \in BOOLEAN
    BY DEF TypeOK
  <1>2. CASE Conclude
    <2>1. UNCHANGED <<bt, stack_cb>> /\ pc = "conclude" /\ (call.op # "suspend" => UNCHANGED tail)
      BY <1>2 DEF Conclude, CallStep
    <2>2. opened' = (opened /\ call.op # "close")
      BY <1>2 DEF Conclude
    <2>3. (call.op # "close" => opened' = opened) /\ (call.op = "close" => opened' = FALSE)
      BY <2>2, <1>1, Zenon
    <2>4. CASE call.op = "close"
      BY <2>1, <2>3, <2>4, <1>2 DEF Conclude, Return, RequestsOfCall, Queries
    <2>5. CASE call.op = "ready"
      BY <2>1, <2>3, <2>5, <1>2 DEF Conclude, ConcludeReady, RequestsOfCall, Queries
    <2>6. CASE call.op \in Queries \ {"ready"}
      BY <2>1, <2>3, <2>6, <1>2 DEF Conclude, ConcludeQuery, RequestsOfCall, Queries, QueryRequests
    <2> QED
      BY <2>1, <2>3, <2>4, <2>5, <2>6 DEF Queries
  <1>3. CASE Request /\ UNCHANGED opened
    <2>1. CASE stack_cb
      BY <1>1, <1>3, <2>1 DEF Request, Ask, CallStep, Queries, Conclude
    <2>2. CASE ~stack_cb
      BY <1>3, <2>2 DEF Request, AskNobody, Return, CallStep, Queries, RequestsOfCall
    <2> QED
      BY <2>1, <2>2
  <1>4. CASE (Clear \/ CheckResponse \/ wait_for_stack_response \/ Verdict \/ GiveUp \/ ReadStatus
              \/ Settle) /\ UNCHANGED opened
    BY <1>4 DEF Clear, CheckResponse, wait_for_stack_response, WaitAgain, Verdict, GiveUp, ReadStatus,
                Settle, Return, CallStep
  <1> QED
    BY <1>2, <1>3, <1>4 DEF CallStep

\* A request is added to those the stack has yet to answer.
LEMMA AskedOne ==
    ASSUME NEW s \in Seq(Asked), NEW r \in Asked
    PROVE  /\ Append(s, r) \in Seq(Asked) /\ Append(s, r) # << >>
           /\ \A Q : (r.req \in Q /\ \A i \in 1..Len(s) : s[i].req \in Q)
                     => \A i \in 1..Len(Append(s, r)) : Append(s, r)[i].req \in Q
           /\ s = << >> => Len(Append(s, r)) = 1 /\ Append(s, r)[1] = r
  OBVIOUS

\* A query leaves the stream alone.
LEMMA QueryFollowed ==
    ASSUME AgreeInv, call.op \in Queries, CallStep, ~misled'
    PROVE  Followed'
  <1>1. TypeOK /\ RequestsOfCall /\ ~misled /\ Followed
    BY CallStepForms DEF AgreeInv
  <1>2. Agree /\ \A i \in 1..Len(bt.asked) : bt.asked[i].req \in QueryRequests
    BY <1>1 DEF Followed
  <1>3. ~tail /\ UNCHANGED <<tail, state, opened>> /\ bt'.started = bt.started
    BY <1>1, CallStepEffects, CallStepForms DEF AgreeInv, Queries
  <1>4. Agree'
    BY <1>2, <1>3 DEF Agree
  <1>5. CASE pc' = "idle" /\ call' = NoCall /\ bt.asked = << >>
    <2>1. pc # "ask" \/ bt' = bt
      <3>1. CASE bt' = [bt EXCEPT !.asked = Append(@, [req |-> call.req, pending |-> FALSE])]
        <4>1. bt'.asked # << >>
          BY <1>1, <1>5, <3>1, AskedOne DEF TypeOK
        <4> QED
          BY <1>1, <1>5, <4>1 DEF CallStep, Request, Clear, CheckResponse, wait_for_stack_response,
               Verdict, GiveUp, ReadStatus, Settle, Conclude, AskNobody, Ask
      <3> QED
        BY <3>1, <1>1, CallStepEffects
    <2>2. bt' = bt
      BY <2>1, <1>1, CallStepEffects
    <2> QED
      BY <2>2, <1>3, <1>4, <1>5 DEF Followed, NoCall, Commands, Queries
  <1>6. CASE pc' # "idle" /\ call'.op = call.op
    <2>1. \A i \in 1..Len(bt'.asked) : bt'.asked[i].req \in QueryRequests
      <3>1. CASE bt' = bt
        BY <1>2, <3>1
      <3>2. CASE pc = "ask" /\ bt' = [bt EXCEPT !.asked = Append(@, [req |-> call.req, pending |-> FALSE])]
        <4> DEFINE r == [req |-> call.req, pending |-> FALSE]
        <4>1. call.req \in QueryRequests /\ bt.asked \in Seq(Asked)
          BY <1>1 DEF RequestsOfCall, Queries, QueryRequests, TypeOK
        <4>2. r \in Asked /\ r.req \in QueryRequests
          BY <4>1 DEF Asked, Requests
        <4>3. bt'.asked = Append(bt.asked, r)
          BY <3>2, <1>1 DEF TypeOK
        <4> HIDE DEF r
        <4> QED
          BY <4>1, <4>2, <4>3, <1>2, AskedOne
      <3> QED
        BY <3>1, <3>2, <1>1, CallStepEffects
    <2> QED
      BY <2>1, <1>4, <1>6 DEF Followed, Commands, Queries
  <1> QED
    BY <1>1, <1>5, <1>6, CallStepForms

\* The call that closes the stream.
LEMMA CloseFollowed ==
    ASSUME AgreeInv, call.op = "close", CallStep, ~misled'
    PROVE  Followed'
  <1>1. TypeOK /\ RequestsOfCall /\ ~misled /\ Followed
    BY CallStepForms DEF AgreeInv
  <1>2. /\ state \notin {"STANDBY", "SUSPENDED"} /\ pc # "gaveup"
        /\ pc = "ask" => bt.asked = << >> /\ Agree
    BY <1>1 DEF Followed
  <1>3. ~tail /\ UNCHANGED <<tail, state>> /\ bt'.started = bt.started /\ pc' # "ask" /\ pc' # "gaveup"
    BY <1>1, CallStepEffects, CallStepForms DEF AgreeInv, Queries
  <1>4. CASE pc' = "idle" /\ call' = NoCall /\ bt.asked = << >>
    <2>1. bt' = bt /\ (pc = "ask" \/ pc = "conclude") /\ (pc = "ask" => UNCHANGED opened)
      BY <1>1, <1>2, <1>4 DEF CallStep, Request, Clear, CheckResponse, wait_for_stack_response, WaitAgain,
           Verdict, GiveUp, ReadStatus, Settle, Conclude, AskNobody, Ask
    <2>2. pc = "conclude" => ~opened'
      BY <1>1, CallStepEffects
    <2>3. Agree'
      BY <1>2, <1>3, <2>1, <2>2 DEF Agree
    <2> QED
      BY <2>1, <2>3, <1>3, <1>4 DEF Followed, NoCall, Commands, Queries
  <1>5. CASE pc' # "idle" /\ call'.op = call.op
    BY <1>2, <1>3, <1>5 DEF Followed, Commands, Queries
  <1> QED
    BY <1>1, <1>4, <1>5, CallStepForms

\* A command that ends leaves the state and the stack in agreement, or is suspending.
LEMMA CommandEnds ==
    ASSUME pc' = "idle", call' = NoCall, bt'.asked = << >>,
           tail' => ~bt'.started, ~tail' => Agree'
    PROVE  Followed'
  BY DEF Followed, NoCall, Commands, Queries

\* The requests of the commands.
LEMMA CommandFollowedStep ==
    ASSUME AgreeInv, call.op \in Commands, CallStep, ~misled'
    PROVE  Followed'
  <1>1. TypeOK /\ RequestsOfCall /\ ~misled /\ Followed /\ CommandFollowed /\ call \in Calls /\ ack \in Acks
    BY CallStepForms DEF AgreeInv, Followed, TypeOK
  <1>2. ~tail /\ UNCHANGED opened /\ bt'.started = bt.started /\ UNCHANGED stack_cb
        /\ (pc # "conclude" => UNCHANGED tail)
    BY <1>1, CallStepEffects, CallStepForms DEF AgreeInv, Commands
  <1>3. call.req \in {"start", "connection", "suspend"}
    BY <1>1 DEF RequestsOfCall, Commands
  <1>4. ASSUME pc' # "idle", call'.op = call.op, CommandFollowed' PROVE Followed'
    BY <1>4 DEF Followed, Commands, Queries
  <1>5. CASE Request
    <2>1. bt.asked = << >> /\ Agree /\ call.status # "PENDING" /\ pc = "ask"
      BY <1>1, <1>5 DEF Request, CommandFollowed
    <2>2. CASE stack_cb
      <3>1. bt'.asked = Append(bt.asked, [req |-> call.req, pending |-> FALSE]) /\ bt.asked \in Seq(Asked)
            /\ [req |-> call.req, pending |-> FALSE] \in Asked
        BY <1>1, <1>3, <1>5, <2>2 DEF Request, TypeOK, Asked, Requests
      <3>2. Len(bt'.asked) = 1 /\ bt'.asked[1].req = call.req
        BY <3>1, <2>1, AskedOne
      <3>3. UNCHANGED <<call, state>> /\ ack'.status = "UNKNOWN" /\ ~ack'.resp
            /\ pc' \in {"clear", "check"} /\ (pc' = "check" => ~ack'.recvd)
        <4>1. Ask /\ UNCHANGED <<call, state>>
          BY <1>5, <2>2 DEF Request
        <4>2. call.op # "ready" /\ call.req \in {"start", "connection", "suspend", "ready"}
          BY <1>3 DEF Commands
        <4>3. ack'.status = "UNKNOWN" /\ pc' \in {"clear", "check"}
              /\ (pc' = "check" => call.op \in {"stop", "suspend", "ready"})
          BY <4>1, <4>2 DEF Ask
        <4>4. ack'.resp = (ack.resp /\ call.op = "ready")
              /\ ack'.recvd = (ack.recvd /\ ~(call.op \in {"stop", "suspend", "ready"}))
          BY <4>1 DEF Ask
        <4> QED
          BY <4>1, <4>2, <4>3, <4>4, Zenon
      <3>4. Agree'
        BY <2>1, <3>3, <1>2 DEF Agree
      <3>5. FirstAnswer'
        BY <3>2, <3>3, <3>4 DEF FirstAnswer, Unheard, Asking
      <3>6. CommandFollowed'
        BY <3>3, <3>5, <2>1, <2>2, <1>2 DEF CommandFollowed
      <3> QED
        BY <1>4, <3>3, <3>6
    <2>3. CASE ~stack_cb
      <3>1. AskNobody
        BY <1>5, <2>3 DEF Request
      <3>2. CASE call.req = "connection"
        <4>1. pc' = "dead" /\ call' = call
          BY <3>1, <3>2 DEF AskNobody
        <4> QED
          BY <4>1, <1>4 DEF CommandFollowed
      <3>3. CASE call.req # "connection"
        <4>1. pc' = "idle" /\ call' = NoCall /\ bt' = bt /\ state' \in {state, "STOPPED"}
          BY <3>1, <3>3, <1>3 DEF AskNobody, Return
        <4>2. Agree'
          BY <4>1, <2>1, <1>2 DEF Agree
        <4> QED
          BY <4>1, <4>2, <2>1, <1>2, CommandEnds
      <3> QED
        BY <3>2, <3>3
    <2> QED
      BY <2>2, <2>3
  <1>6. CASE Clear \/ CheckResponse
    <2>1. FirstAnswer /\ stack_cb /\ call.status # "PENDING"
      BY <1>1, <1>6 DEF Clear, CheckResponse, CommandFollowed
    <2>2. UNCHANGED <<state, call, bt>> /\ ack'.status = ack.status /\ ack'.resp = ack.resp
      BY <1>1, <1>6 DEF Clear, CheckResponse, Acks
    <2>3. /\ (Agree => Agree') /\ (Asking => Asking') /\ (Postponed => Postponed')
          /\ Told(ack.status) => Told(ack.status)'
      BY <2>2, <1>2 DEF Agree, Asking, Postponed, Told
    <2>4. (Unheard => Unheard') /\ (Waiting => Waiting') /\ (Final => Final')
      BY <2>2, <2>3 DEF Unheard, Waiting, Final
    <2>5. CASE Clear
      <3>1. pc' = "check" /\ ~ack'.recvd
        BY <2>5, <1>1 DEF Clear, Acks
      <3>2. FirstAnswer'
        BY <2>1, <2>2, <2>4, <3>1 DEF FirstAnswer
      <3>3. CommandFollowed'
        BY <3>1, <3>2, <2>1, <2>2, <1>2 DEF CommandFollowed
      <3> QED
        BY <1>4, <2>2, <3>1, <3>3
    <2>6. CASE CheckResponse
      <3>1. pc = "check" /\ pc' = (IF ack.resp THEN "read" ELSE "enter") /\ ack' = ack
        BY <2>6 DEF CheckResponse
      <3>2. ack.resp => (Waiting \/ Final)'
        BY <2>1, <2>4 DEF FirstAnswer, Unheard
      <3>3. ~ack.resp => FirstAnswer'
        BY <2>1, <2>2, <2>4, <3>1 DEF FirstAnswer, Unheard, Waiting
      <3>4. CommandFollowed'
        BY <3>1, <3>2, <3>3, <2>1, <2>2, <1>2 DEF CommandFollowed
      <3> QED
        BY <1>4, <2>2, <3>1, <3>4
    <2> QED
      BY <1>6, <2>5, <2>6
  <1>7. CASE wait_for_stack_response
    <2>1. stack_cb /\ pc \in {"enter", "wait"}
          /\ (IF call.status = "PENDING" THEN SecondAnswer ELSE FirstAnswer)
      BY <1>1, <1>7 DEF wait_for_stack_response, CommandFollowed
    <2>2. /\ UNCHANGED <<state, ack, bt>> /\ pc' \in {"wait", "verdict"}
          /\ call'.req = call.req /\ call'.status = call.status /\ call'.op = call.op
          /\ pc' = "verdict" => ack'.recvd \/ call'.waits = CTRL_CHAN_RETRY_COUNT
      BY <2>1, <1>1, <1>7 DEF wait_for_stack_response, WaitAgain, Calls
    <2>3. /\ (Agree => Agree') /\ (Asking => Asking') /\ (Postponed => Postponed')
          /\ Told(ack.status) => Told(ack.status)'
      BY <2>2, <1>2 DEF Agree, Asking, Postponed, Told
    <2>4. (Unheard => Unheard') /\ (Waiting => Waiting') /\ (Final => Final')
      BY <2>2, <2>3 DEF Unheard, Waiting, Final
    <2>5. (FirstAnswer => FirstAnswer') /\ (SecondAnswer => SecondAnswer')
      BY <2>1, <2>2, <2>3, <2>4 DEF FirstAnswer, SecondAnswer
    <2>6. CommandFollowed'
      BY <2>1, <2>2, <2>5, <1>2 DEF CommandFollowed
    <2> QED
      BY <1>4, <2>2, <2>6
  <1>8. CASE Verdict
    <2>1. /\ stack_cb /\ pc = "verdict" /\ (ack.recvd \/ call.waits = CTRL_CHAN_RETRY_COUNT)
          /\ IF call.status = "PENDING" THEN SecondAnswer ELSE FirstAnswer
      BY <1>1, <1>8 DEF Verdict, CommandFollowed
    <2>2. UNCHANGED <<state, ack, bt, call>>
      BY <1>8 DEF Verdict
    <2>3. /\ (Agree => Agree') /\ (Asking => Asking') /\ (Postponed => Postponed')
          /\ Told(ack.status) => Told(ack.status)'
      BY <2>2, <1>2 DEF Agree, Asking, Postponed, Told
    <2>4. (Unheard => Unheard') /\ (Waiting => Waiting') /\ (Final => Final')
      BY <2>2, <2>3 DEF Unheard, Waiting, Final
    <2>5. CASE call.status = "PENDING"
      <3>1. pc' = "settle"
        BY <1>8, <2>5 DEF Verdict
      <3>2. SecondAnswer'
        BY <2>1, <2>2, <2>3, <2>4, <2>5 DEF SecondAnswer
      <3>3. CommandFollowed'
        BY <3>1, <3>2 DEF CommandFollowed
      <3> QED
        BY <1>4, <2>2, <3>1, <3>3
    <2>6. CASE call.status # "PENDING" /\ ~ack.recvd
      <3>1. pc' = "gaveup" /\ bt.asked = << >>
        BY <1>8, <2>1, <2>6 DEF Verdict, Commands, Unanswered
      <3>2. Agree
        BY <2>1, <2>6 DEF FirstAnswer, Unheard
      <3>3. CommandFollowed'
        BY <3>1, <3>2, <2>2, <2>3, <2>6 DEF CommandFollowed
      <3> QED
        BY <1>4, <2>2, <3>1, <3>3
    <2>7. CASE call.status # "PENDING" /\ ack.recvd
      <3>1. pc' = "read"
        BY <1>8, <2>7 DEF Verdict
      <3>2. Waiting \/ Final
        BY <2>1, <2>7 DEF FirstAnswer
      <3>3. CommandFollowed'
        BY <3>1, <3>2, <2>1, <2>2, <2>4, <2>7, <1>2 DEF CommandFollowed
      <3> QED
        BY <1>4, <2>2, <3>1, <3>3
    <2> QED
      BY <2>5, <2>6, <2>7
  <1>9. CASE GiveUp
    <2>1. bt.asked = << >> /\ Agree /\ UNCHANGED <<state, bt>> /\ pc' = "idle" /\ call' = NoCall /\ UNCHANGED tail
      BY <1>1, <1>9 DEF GiveUp, Return, CommandFollowed
    <2>2. Agree'
      BY <2>1, <1>2 DEF Agree
    <2> QED
      BY <2>1, <2>2, <1>2, CommandEnds
  <1>10. CASE ReadStatus
    <2>1. pc = "read" /\ stack_cb /\ (Waiting \/ Final) /\ call.status # "PENDING"
      BY <1>1, <1>10 DEF ReadStatus, CommandFollowed
    <2>2. /\ UNCHANGED <<state, bt>> /\ call'.op = call.op /\ call'.req = call.req
          /\ call'.status = ack.status /\ ack'.status = "UNKNOWN"
      BY <1>1, <1>3, <1>10 DEF ReadStatus, Calls, Acks, Commands
    <2>3. CASE Waiting
      <3>1. pc' = "enter"
        BY <1>10, <2>3 DEF ReadStatus, Waiting, Commands
      <3>2. SecondAnswer'
        BY <2>2, <2>3, <1>2 DEF Waiting, SecondAnswer, Postponed, Asking, Agree
      <3>3. CommandFollowed'
        BY <3>1, <3>2, <2>1, <2>2, <2>3, <1>2 DEF CommandFollowed, Waiting
      <3> QED
        BY <1>4, <2>2, <3>1, <3>3
    <2>4. CASE Final
      <3>1. pc' = "conclude"
        BY <1>10, <2>4 DEF ReadStatus, Final
      <3>2. bt'.asked = << >> /\ Told(call.status)' /\ call'.status # "PENDING"
        BY <2>2, <2>4, <1>2 DEF Final, Told, Agree
      <3>3. CommandFollowed'
        BY <3>1, <3>2 DEF CommandFollowed
      <3> QED
        BY <1>4, <2>2, <3>1, <3>3
    <2> QED
      BY <2>1, <2>3, <2>4
  <1>11. CASE Settle
    <2>1. SecondAnswer
      BY <1>1, <1>11 DEF Settle, CommandFollowed
    <2>2. bt.asked = << >> /\ UNCHANGED <<state, bt>> /\ pc' = "conclude" /\ call'.op = call.op
          /\ call'.req = call.req /\ call'.status = ack.status
      BY <1>1, <1>11 DEF Settle, Unanswered, Calls
    <2>3. ack.status # "PENDING" /\ Told(ack.status)
      BY <2>1 DEF SecondAnswer, Final, Told
    <2>4. Told(call.status)'
      BY <2>2, <2>3, <1>2 DEF Told, Agree
    <2>5. CommandFollowed'
      BY <2>2, <2>3, <2>4 DEF CommandFollowed
    <2> QED
      BY <1>4, <2>2, <2>5
  <1>12. CASE Conclude
    <2>1. bt.asked = << >> /\ Told(call.status) /\ call.status # "PENDING" /\ bt' = bt
      BY <1>1, <1>12 DEF Conclude, CommandFollowed
    <2>2. ASSUME NEW m, Return(m), ~tail', Agree' PROVE Followed'
      BY <2>1, <2>2, CommandEnds DEF Return
    <2>3. ASSUME NEW r, NEW c \in Calls, Again(r, c), Agree', c.op = call.op, c.status = call.status
          PROVE  Followed'
      <3>1. pc' = "ask" /\ call'.op = call.op /\ call'.status # "PENDING"
        BY <2>1, <2>3 DEF Again, Calls
      <3>2. CommandFollowed'
        BY <2>1, <2>3, <3>1 DEF CommandFollowed
      <3> QED
        BY <1>4, <3>1, <3>2
    <2>4. call.status # "SUCCESS" \/ call.req = "connection" => Agree
      BY <2>1 DEF Told
    <2>5. CASE call.req = "start"
      <3>1. ConcludeStart /\ UNCHANGED tail
        BY <1>12, <2>5, <1>1 DEF Conclude, RequestsOfCall, Commands
      <3>2. CASE Done
        <4>1. Return(Assumed) /\ state' = "STARTED" /\ call.status = "SUCCESS"
          BY <3>1, <3>2 DEF ConcludeStart, Return, Done
        <4>2. Agree'
          BY <4>1, <2>1, <2>5 DEF Told, Agree
        <4> QED
          BY <4>1, <4>2, <3>1, <1>2, <2>2
      <3>3. CASE ~Done /\ call.status \in {"UNSUPPORTED", "UNKNOWN"}
        <4>1. Return(FALSE) /\ state' = "STOPPED"
          BY <3>1, <3>3 DEF ConcludeStart
        <4>2. Agree'
          BY <4>1 DEF Agree
        <4> QED
          BY <4>1, <4>2, <3>1, <1>2, <2>2
      <3>4. CASE ~Done /\ call.status \notin {"UNSUPPORTED", "UNKNOWN"}
        <4>1. state' = state /\ Retry(STREAM_START_MAX_RETRY_COUNT, Again("connection", call))
          BY <3>1, <3>4 DEF ConcludeStart
        <4>2. Agree'
          BY <4>1, <3>4, <2>1, <2>4, <1>2 DEF Agree, Done
        <4>3. [call EXCEPT !.i = @ + 1] \in Calls /\ [call EXCEPT !.i = @ + 1].op = call.op
              /\ [call EXCEPT !.i = @ + 1].status = call.status
          BY <1>1 DEF Calls
        <4> QED
          BY <4>1, <4>2, <4>3, <2>3, <1>1 DEF Retry
      <3> QED
        BY <3>2, <3>3, <3>4
    <2>6. CASE call.req = "connection"
      <3>1. ConcludeConnection /\ UNCHANGED <<tail, state>>
        BY <1>12, <2>6, <1>1 DEF Conclude, ConcludeConnection, RequestsOfCall, Commands
      <3>2. Agree'
        BY <3>1, <2>1, <2>4, <2>6, <1>2 DEF Agree
      <3>3. [call EXCEPT !.i = 0, !.j = @ + 1] \in Calls
        BY <1>1, CallTypes
      <3>4. [call EXCEPT !.i = 0, !.j = @ + 1].op = call.op /\ [call EXCEPT !.i = 0, !.j = @ + 1].status = call.status
        BY <1>1 DEF Calls
      <3> QED
        BY <3>1, <3>2, <3>3, <3>4, <2>2, <2>3, <1>2 DEF ConcludeConnection
    <2>7. CASE call.op = "stop"
      <3>1. ConcludeStop /\ UNCHANGED tail /\ call.req = "suspend"
        BY <1>12, <2>7, <1>1 DEF Conclude, RequestsOfCall
      <3>2. Done => call.status = "SUCCESS"
        BY <3>1 DEF ConcludeStop, Return, Done
      <3>3. Agree'
        BY <3>1, <3>2, <2>1 DEF Agree, Told, ConcludeStop
      <3> QED
        BY <3>1, <3>3, <2>2, <1>2 DEF ConcludeStop
    <2>8. CASE call.op = "suspend"
      <3>1. ConcludeSuspend /\ call.req = "suspend"
        BY <1>12, <2>8, <1>1 DEF Conclude, RequestsOfCall
      <3>2. Done => call.status = "SUCCESS"
        BY <3>1 DEF ConcludeSuspend, Return, Done
      <3>3. tail' => ~bt'.started
        BY <3>1, <3>2, <2>1 DEF ConcludeSuspend, Told
      <3>4. ~tail' => Agree'
        BY <3>1, <2>1, <2>4, <1>2 DEF ConcludeSuspend, Done, Agree
      <3> QED
        BY <3>1, <3>3, <3>4, <2>1, CommandEnds DEF ConcludeSuspend, Return
    <2> QED
      BY <2>5, <2>6, <2>7, <2>8, <1>1 DEF RequestsOfCall, Commands
  <1> QED
    BY <1>5, <1>6, <1>7, <1>8, <1>9, <1>10, <1>11, <1>12 DEF CallStep

\* What an answer does: it takes the first request, unless it is PENDING, and the
\* stream of the stack follows it.
LEMMA AnswerForms ==
    ASSUME TypeOK, Answer
    PROVE  /\ UNCHANGED <<state, stack_cb, pc, call, tail, opened, misled>>
           /\ bt.asked # << >> /\ pc # "dead"
           /\ \A i \in 1..Len(bt'.asked) : \E j \in 1..Len(bt.asked) : bt'.asked[i].req = bt.asked[j].req
           /\ bt.asked[1].req \notin {"start", "suspend"} => bt'.started = bt.started
           /\ bt.asked[1].req \in {"start", "suspend", "connection"} =>
                /\ ack'.recvd /\ ack'.resp /\ ack'.status \notin {"UNKNOWN"}
                /\ ack'.status = "PENDING" =>
                     /\ ~bt.asked[1].pending /\ bt.asked[1].req # "connection" /\ bt'.started = bt.started
                     /\ Len(bt'.asked) = Len(bt.asked) /\ bt'.asked[1].req = bt.asked[1].req
                     /\ bt'.asked[1].pending
                /\ ack'.status # "PENDING" => bt'.asked = Tail(bt.asked)
                /\ ack'.status = "SUCCESS" /\ bt.asked[1].req = "start" => bt'.started
                /\ ack'.status = "SUCCESS" /\ bt.asked[1].req = "suspend" => ~bt'.started
                /\ ack'.status # "SUCCESS" => bt'.started = bt.started
  <1> DEFINE r == bt.asked[1]
  <1>1. bt.asked \in Seq(Asked) /\ bt.asked # << >> /\ bt.started \in BOOLEAN /\ Head(bt.asked) = r /\ r \in Asked
    BY DEF TypeOK, Answer
  <1>2. PICK st \in Statuses(r.req) :
          /\ st = "PENDING" => ~r.pending
          /\ bt_stack_on(r.req, st)
          /\ bt' = [asked |-> IF st = "PENDING" THEN [bt.asked EXCEPT ![1].pending = TRUE]
                              ELSE Tail(bt.asked),
                    started |-> IF st = "SUCCESS" /\ r.req \in {"start", "suspend"}
                                THEN r.req = "start" ELSE bt.started]
    BY <1>1 DEF Answer
  <1>3. bt'.started = IF st = "SUCCESS" /\ r.req \in {"start", "suspend"} THEN r.req = "start" ELSE bt.started
    BY <1>2
  <1>4. /\ st = "SUCCESS" /\ r.req = "start" => bt'.started
        /\ st = "SUCCESS" /\ r.req = "suspend" => ~bt'.started
        /\ st # "SUCCESS" \/ r.req \notin {"start", "suspend"} => bt'.started = bt.started
    BY <1>3
  <1>5. CASE st = "PENDING"
    <2>1. bt'.asked = [bt.asked EXCEPT ![1] = [r EXCEPT !.pending = TRUE]]
      BY <1>2, <1>5
    <2>2. Len(bt'.asked) = Len(bt.asked) /\ bt'.asked[1].req = r.req /\ bt'.asked[1].pending
          /\ \A i \in 1..Len(bt.asked) : bt'.asked[i].req = bt.asked[i].req
      BY <2>1, <1>1 DEF Asked
    <2>3. r.req # "connection" /\ ~r.pending
      BY <1>2, <1>5 DEF Statuses
    <2>4. r.req \in {"start", "suspend"} => ack'.recvd /\ ack'.resp /\ ack'.status = "PENDING"
      BY <1>2, <1>5 DEF bt_stack_on
    <2> QED
      BY <1>1, <1>4, <1>5, <2>2, <2>3, <2>4 DEF Answer
  <1>6. CASE st # "PENDING"
    <2>1. bt'.asked = Tail(bt.asked)
      BY <1>2, <1>6
    <2>2. \A i \in 1..Len(bt'.asked) : \E j \in 1..Len(bt.asked) : bt'.asked[i].req = bt.asked[j].req
      <3> SUFFICES ASSUME NEW i \in 1..Len(bt'.asked)
                   PROVE  \E j \in 1..Len(bt.asked) : bt'.asked[i].req = bt.asked[j].req
        OBVIOUS
      <3>1. i + 1 \in 1..Len(bt.asked) /\ bt'.asked[i] = bt.asked[i + 1]
        BY <1>1, <2>1
      <3> QED
        BY <3>1
    <2>3. r.req \in {"start", "suspend", "connection"} =>
            ack'.recvd /\ ack'.resp /\ ack'.status = st /\ st \notin {"UNKNOWN", "PENDING"}
      BY <1>2, <1>6 DEF bt_stack_on, Statuses
    <2> QED
      BY <1>1, <1>4, <1>6, <2>1, <2>2, <2>3 DEF Answer
  <1> QED
    BY <1>5, <1>6

\* After the only request nothing is left to answer.
LEMMA AskedLast ==
    ASSUME NEW s \in Seq(Asked), Len(s) = 1
    PROVE  Tail(s) = << >>
  <1>1. s # << >>
    <2>1. s = << >> => Len(s) = 0
      BY EmptySeq
    <2> QED
      BY <2>1
  <1>2. Tail(s) \in Seq(Asked) /\ Len(Tail(s)) = 0
    BY <1>1, HeadTailProperties
  <1> QED
    BY <1>2, EmptySeq

\* The answer to the command under way is its outcome, or PENDING and then its outcome.
LEMMA CommandAnswered ==
    ASSUME TypeOK, Answer, call.req \in {"start", "suspend", "connection"}, Asking, Agree
    PROVE  /\ ack'.recvd /\ ack'.resp
           /\ Final' \/ (~bt.asked[1].pending /\ Waiting')
  <1>1. Len(bt.asked) = 1 /\ bt.asked[1].req = call.req /\ call' = call /\ bt.asked \in Seq(Asked)
    BY AnswerForms DEF Asking, TypeOK
  <1>2. UNCHANGED <<state, opened>> /\ (bt'.started = bt.started => Agree')
    BY AnswerForms DEF Agree
  <1>3. CASE ack'.status = "PENDING"
    <2>1. Postponed'
      BY <1>1, <1>3, AnswerForms DEF Postponed, Asking
    <2> QED
      BY <1>1, <1>2, <1>3, <2>1, AnswerForms DEF Waiting
  <1>4. CASE ack'.status # "PENDING"
    <2>1. bt'.asked = << >>
      BY <1>1, <1>4, AnswerForms, AskedLast
    <2>2. Told(ack.status)'
      BY <1>1, <1>2, <1>4, AnswerForms DEF Told
    <2> QED
      BY <1>1, <1>4, <2>1, <2>2, AnswerForms DEF Final
  <1> QED
    BY <1>3, <1>4

\* An answer that comes while a command is under way.
LEMMA CommandFollowedAnswer ==
    ASSUME AgreeInv, call.op \in Commands, Answer, ~misled'
    PROVE  Followed'
  <1>1. TypeOK /\ RequestsOfCall /\ CommandFollowed /\ pc \in Points
    BY AnswerForms DEF AgreeInv, Followed, TypeOK
  <1>2. UNCHANGED <<pc, call, stack_cb, opened, state>> /\ bt.asked # << >> /\ pc # "dead" /\ pc # "idle"
    BY <1>1, AnswerForms DEF RequestsOfCall, Commands
  <1>3. call.req \in {"start", "suspend", "connection"}
    BY <1>1 DEF RequestsOfCall, Commands
  <1>4. ~Final
    BY <1>2 DEF Final
  <1>5. pc \notin {"ask", "gaveup", "conclude"}
    BY <1>1, <1>2 DEF CommandFollowed
  <1> SUFFICES CommandFollowed'
    BY <1>2 DEF Followed, Commands, Queries
  <1>6. ASSUME FirstAnswer PROVE FirstAnswer' /\ ack'.recvd
    <2>1. Asking /\ Agree
      BY <1>4, <1>6 DEF FirstAnswer, Unheard, Waiting, Postponed
    <2> QED
      BY <1>1, <1>3, <2>1, CommandAnswered DEF FirstAnswer
  <1>7. ASSUME SecondAnswer \/ Waiting PROVE Final' /\ ack'.recvd
    <2>1. Asking /\ Agree /\ bt.asked[1].pending
      BY <1>2, <1>4, <1>7 DEF SecondAnswer, Waiting, Postponed
    <2> QED
      BY <1>1, <1>3, <2>1, CommandAnswered
  <1>8. SecondAnswer => SecondAnswer'
    BY <1>2, <1>7 DEF SecondAnswer
  <1>9. CASE pc \in {"clear", "check"}
    BY <1>1, <1>2, <1>6, <1>9 DEF CommandFollowed
  <1>10. CASE pc \in {"enter", "wait", "verdict"}
    BY <1>1, <1>2, <1>6, <1>7, <1>8, <1>10 DEF CommandFollowed
  <1>11. CASE pc = "read"
    BY <1>1, <1>2, <1>4, <1>7, <1>11 DEF CommandFollowed
  <1>12. CASE pc = "settle"
    BY <1>1, <1>2, <1>8, <1>12 DEF CommandFollowed
  <1> QED
    BY <1>1, <1>2, <1>5, <1>9, <1>10, <1>11, <1>12 DEF Points

\* The stack answers, or drops a request.
LEMMA StackFollowed ==
    ASSUME AgreeInv, Answer \/ NeverAnswer, ~misled'
    PROVE  Followed'
  <1>1. TypeOK /\ RequestsOfCall /\ call \in Calls /\ bt \in [asked : Seq(Asked), started : BOOLEAN]
    BY DEF AgreeInv, TypeOK
  <1>2. /\ UNCHANGED <<pc, call, stack_cb, opened, state, tail>> /\ bt.asked # << >> /\ ~misled
        /\ \A i \in 1..Len(bt'.asked) : \E j \in 1..Len(bt.asked) : bt'.asked[i].req = bt.asked[j].req
    <2>1. CASE Answer
      BY <1>1, <2>1, AnswerForms
    <2>2. CASE NeverAnswer
      <3>1. bt'.asked = Tail(bt.asked) /\ bt.asked # << >> /\ bt.asked \in Seq(Asked)
        BY <1>1, <2>2 DEF NeverAnswer
      <3>2. \A i \in 1..Len(bt'.asked) : i + 1 \in 1..Len(bt.asked) /\ bt'.asked[i] = bt.asked[i + 1]
        BY <3>1
      <3>3. \A i \in 1..Len(bt'.asked) : \E j \in 1..Len(bt.asked) : bt'.asked[i].req = bt.asked[j].req
        BY <3>2
      <3> QED
        BY <2>2, <3>3 DEF NeverAnswer
    <2> QED
      BY <2>1, <2>2
  <1>3. Followed
    BY <1>2 DEF AgreeInv
  <1>4. pc # "idle"
    BY <1>2, <1>3 DEF Followed
  <1>5. CASE call.op \in Queries
    <2>1. Agree /\ \A i \in 1..Len(bt.asked) : bt.asked[i].req \in QueryRequests
      BY <1>3, <1>5 DEF Followed
    <2>2. bt.asked[1].req \in QueryRequests
      BY <1>1, <1>2, <2>1
    <2>3. bt'.started = bt.started
      BY <1>1, <2>2, AnswerForms DEF NeverAnswer, QueryRequests
    <2>4. Agree' /\ \A i \in 1..Len(bt'.asked) : bt'.asked[i].req \in QueryRequests
      BY <1>2, <2>1, <2>3 DEF Agree
    <2> QED
      BY <1>2, <1>4, <1>5, <2>4 DEF Followed, Commands, Queries
  <1>6. CASE call.op = "close"
    BY <1>2, <1>3, <1>4, <1>6 DEF Followed, Commands, Queries
  <1>7. CASE call.op \in Commands /\ NeverAnswer
    <2>1. CommandFollowed /\ bt'.asked = Tail(bt.asked) /\ UNCHANGED ack /\ bt'.started = bt.started
          /\ bt.asked \in Seq(Asked)
      BY <1>1, <1>3, <1>7 DEF Followed, NeverAnswer
    <2>2. Agree => Agree'
      BY <1>2, <2>1 DEF Agree
    <2>3. Asking => bt'.asked = << >>
      BY <1>2, <2>1, AskedLast DEF Asking
    <2>4. (Unheard => Unheard') /\ (Waiting => Waiting') /\ ~Final
      BY <1>2, <2>1, <2>2, <2>3 DEF Unheard, Waiting, Final, Postponed, Asking
    <2>5. (FirstAnswer => FirstAnswer') /\ (SecondAnswer => SecondAnswer')
      BY <1>2, <2>1, <2>2, <2>3, <2>4 DEF FirstAnswer, SecondAnswer, Postponed, Asking
    <2>6. CommandFollowed'
      BY <1>2, <2>1, <2>4, <2>5 DEF CommandFollowed
    <2> QED
      BY <1>2, <1>4, <1>7, <2>6 DEF Followed, Commands, Queries
  <1>8. CASE call.op \in Commands /\ Answer
    BY <1>8, CommandFollowedAnswer
  <1> QED
    BY <1>1, <1>4, <1>5, <1>6, <1>7, <1>8 DEF Calls, RequestsOfCall

\* A call begins, or ends after its lock is released; the stack comes or goes.
LEMMA OthersFollowed ==
    ASSUME AgreeInv, ~Overlap, ~misled',
           CallBegins \/ SuspendEnds \/ bt_stack_init \/ bt_stack_deinit
    PROVE  Followed'
  <1>1. TypeOK /\ RequestsOfCall /\ (tail => pc = "idle") /\ (~misled => Followed)
    BY DEF AgreeInv
  <1>2. CASE CallBegins
    <2>1. pc = "idle" /\ ~tail /\ ~tail' /\ UNCHANGED <<bt, ack>> /\ call = NoCall
      <3>1. pc = "idle" /\ (tail => Overlap) /\ UNCHANGED <<tail, bt, ack>>
        BY <1>2, CallBeginsForms
      <3> QED
        BY <1>1, <3>1 DEF RequestsOfCall
    <2>2. CASE pc' = "ask"
      <3>1. PICK op \in Commands \cup Queries \cup {"close"}, req \in Requests :
              /\ call' = [NoCall EXCEPT !.op = op, !.req = req]
              /\ op = "close" => state \notin {"STANDBY", "SUSPENDED"}
        BY <1>2, <2>1, <2>2, CallBeginsForms
      <3>2. UNCHANGED <<state, opened, misled>>
        BY <1>2, <2>1, <2>2, CallBeginsForms
      <3>3. bt.asked = << >> /\ Agree
        BY <1>1, <2>1, <3>2 DEF Followed
      <3>4. bt'.asked = << >> /\ Agree'
        BY <2>1, <3>2, <3>3 DEF Agree
      <3>5. call'.op = op /\ call'.status # "PENDING"
        BY <3>1 DEF NoCall
      <3>6. CommandFollowed'
        BY <2>2, <3>4, <3>5 DEF CommandFollowed
      <3> QED
        BY <2>2, <3>1, <3>2, <3>4, <3>5, <3>6 DEF Followed
    <2>3. CASE pc' # "ask"
      <3>1. UNCHANGED <<pc, call>>
        BY <1>2, <2>3, CallBeginsForms
      <3>2. bt.asked = << >>
        <4>1. CASE UNCHANGED misled
          BY <1>1, <2>1, <4>1 DEF Followed
        <4>2. CASE misled' = (bt.asked # << >>)
          BY <4>2
        <4> QED
          BY <1>2, <2>3, <4>1, <4>2, CallBeginsForms
      <3>3. Agree'
        <4>1. CASE state' = "STOPPED"
          BY <4>1 DEF Agree
        <4>2. CASE UNCHANGED <<state, opened, misled>>
          BY <1>1, <2>1, <4>2 DEF Followed, Agree
        <4> QED
          BY <1>2, <2>3, <4>1, <4>2, CallBeginsForms
      <3> QED
        BY <2>1, <3>1, <3>2, <3>3, CommandEnds
    <2> QED
      BY <2>2, <2>3
  <1>3. CASE SuspendEnds
    <2>1. pc = "idle" /\ tail /\ ~misled /\ call = NoCall /\ bt.asked = << >> /\ ~bt.started
      BY <1>1, <1>3 DEF SuspendEnds, RequestsOfCall, Followed
    <2>2. Agree' /\ pc' = "idle" /\ call' = NoCall /\ bt'.asked = << >> /\ ~tail'
      BY <1>3, <2>1 DEF SuspendEnds, Agree
    <2> QED
      BY <2>2, CommandEnds
  <1>4. CASE bt_stack_init
    <2>1. Followed /\ UNCHANGED <<state, ack, pc, call, tail, opened, bt>> /\ stack_cb'
      BY <1>1, <1>4 DEF bt_stack_init
    <2>2. /\ (Agree => Agree') /\ (Unheard => Unheard') /\ (Waiting => Waiting') /\ (Final => Final')
          /\ \A s : Told(s) => Told(s)'
      BY <2>1 DEF Agree, Unheard, Waiting, Final, Postponed, Asking, Told
    <2>3. (FirstAnswer => FirstAnswer') /\ (SecondAnswer => SecondAnswer')
      BY <2>1, <2>2 DEF FirstAnswer, SecondAnswer, Postponed, Asking
    <2>4. CommandFollowed => CommandFollowed'
      BY <2>1, <2>2, <2>3 DEF CommandFollowed
    <2> QED
      BY <2>1, <2>2, <2>4 DEF Followed
  <1>5. CASE bt_stack_deinit
    <2>1. pc = "idle" /\ state # "STARTED" /\ call = NoCall /\ ~misled
      BY <1>1, <1>5 DEF bt_stack_deinit, RequestsOfCall
    <2>2. bt'.asked = << >> /\ ~bt'.started /\ pc' = "idle" /\ call' = NoCall /\ state' = state
      BY <1>5, <2>1 DEF bt_stack_deinit
    <2>3. Agree'
      BY <2>1, <2>2 DEF Agree
    <2> QED
      BY <2>2, <2>3, CommandEnds
  <1> QED
    BY <1>2, <1>3, <1>4, <1>5

\* A suspension whose lock is released holds off the next call.
LEMMA TailStep ==
    ASSUME AgreeInv, ~Overlap, [Next]_btVars
    PROVE  tail' => pc' = "idle"
  <1>1. TypeOK /\ RequestsOfCall /\ (tail => pc = "idle")
    BY DEF AgreeInv
  <1>2. CASE CallBegins
    BY <1>2, CallBeginsForms
  <1>3. CASE CallStep
    <2>1. ~tail
      BY <1>1, <1>3, CallStepForms
    <2>2. CASE call.op = "suspend" /\ Conclude
      BY <1>1, <2>2 DEF Conclude, ConcludeSuspend, Return, RequestsOfCall
    <2>3. CASE ~(call.op = "suspend" /\ Conclude)
      <3>1. UNCHANGED tail
        BY <2>3, <1>1, <1>3, CallStepEffects DEF CallStep, Request, Clear, CheckResponse,
           wait_for_stack_response, Verdict, GiveUp, ReadStatus, Settle
      <3> QED
        BY <2>1, <3>1
    <2> QED
      BY <2>2, <2>3
  <1> QED
    BY <1>1, <1>2, <1>3 DEF Next, CallBegins, SuspendEnds, Answer, NeverAnswer, bt_stack_init,
       bt_stack_deinit, btVars

\* Between calls the state of the stream tells what the stack does, for any number of
\* retries and waits, whatever the stack answers, in whatever order with the steps of
\* the call, and however often it leaves; the three cases that misled marks aside.  The
\* hypothesis is that no call begins between the unlock at the end of
\* audio_suspend_stream and its assignment of SUSPENDED: nothing in the code ensures
\* it, and with such an overlap the state does not agree.
THEOREM StreamAlwaysAgrees == ~Overlap => (Spec => []StreamAgrees)
  <1> SUFFICES ASSUME ~Overlap PROVE Spec => []StreamAgrees
    OBVIOUS
  <1>1. Init => AgreeInv
    <2> SUFFICES ASSUME Init PROVE AgreeInv
      OBVIOUS
    <2>1. Followed
      BY DEF Init, Followed, Agree, NoCall, Commands, Queries
    <2> QED
      BY <2>1, TypesInit DEF Init, AgreeInv
  <1>2. AgreeInv /\ [Next]_btVars => AgreeInv'
    <2> SUFFICES ASSUME AgreeInv, [Next]_btVars PROVE AgreeInv'
      OBVIOUS
    <2>1. TypeOK /\ RequestsOfCall /\ call \in Calls
      BY DEF AgreeInv, TypeOK
    <2>2. ASSUME ~misled' PROVE Followed'
      <3>1. CASE UNCHANGED btVars
        BY <3>1, <2>2 DEF AgreeInv, btVars, Followed, CommandFollowed, FirstAnswer, SecondAnswer,
           Unheard, Waiting, Final, Postponed, Asking, Agree, Told
      <3>2. CASE CallStep
        <4>1. call.op # "none"
          BY <2>1, <3>2, CallStepForms
        <4> QED
          BY <2>1, <2>2, <3>2, <4>1, QueryFollowed, CloseFollowed, CommandFollowedStep DEF Calls
      <3>3. CASE Answer \/ NeverAnswer
        BY <2>2, <3>3, StackFollowed
      <3>4. CASE CallBegins \/ SuspendEnds \/ bt_stack_init \/ bt_stack_deinit
        BY <2>2, <3>4, OthersFollowed
      <3> QED
        BY <3>1, <3>2, <3>3, <3>4 DEF Next, CallBegins
    <2> QED
      BY <2>1, <2>2, TypesStep, TailStep DEF AgreeInv
  <1>3. AgreeInv => StreamAgrees
    BY DEF AgreeInv, Followed, Agree, StreamAgrees
  <1> QED
    BY <1>1, <1>2, <1>3, PTL DEF Spec
===============================================================================

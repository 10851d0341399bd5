-------------------------------- MODULE BtHost --------------------------------
(***************************************************************************)
(* bthost_ipc.c: the audio HAL's side of an A2DP stream that the Bluetooth *)
(* stack sets up.  A call of the audio HAL takes audio_stream.lock, asks   *)
(* the stack through a callback and waits on a condition variable for the  *)
(* stack to call back in turn; it gives up after CTRL_CHAN_RETRY_COUNT     *)
(* waits.  The stack may answer while it is being asked, later, too late,  *)
(* first PENDING and then the outcome, or never, and it may go away.       *)
(*                                                                         *)
(* A call is a record: the function, the request under way, the counters i *)
(* and j of the retry loops, the waits so far and the status read.  Each   *)
(* step of it reads or writes the words shared with the stack's thread     *)
(* once, or is a section under ack_lock.  The contents of the codec        *)
(* configuration and of the latency are left out.                          *)
(***************************************************************************)
EXTENDS Naturals, Sequences

CONSTANTS
    STREAM_START_MAX_RETRY_COUNT, STREAM_START_MAX_RETRY_LOOPER,
    CTRL_CHAN_RETRY_COUNT, CHECK_A2DP_READY_MAX_COUNT,
    Overlap,        \* a call may begin before audio_suspend_stream sets its state
    CALLS_MAX,      \* bound: calls of the audio HAL
    DEINIT_MAX      \* bound: times the stack goes away

ASSUME BtHostAssumption ==
    /\ STREAM_START_MAX_RETRY_COUNT \in Nat \ {0} /\ STREAM_START_MAX_RETRY_LOOPER \in Nat \ {0}
    /\ CTRL_CHAN_RETRY_COUNT \in Nat \ {0} /\ CHECK_A2DP_READY_MAX_COUNT \in Nat \ {0}
    /\ Overlap \in BOOLEAN /\ CALLS_MAX \in Nat /\ DEINIT_MAX \in Nat

VARIABLES
    hal_imp,    \* persist.bt.a2dp.hal.implementation
    stack_cb,   \* it is not NULL
    state,      \* audio_stream.state
    ack,        \* ack_status, ack_recvd, resp_received
    pc, call,   \* the call that holds audio_stream.lock
    tail,       \* audio_suspend_stream has unlocked and has yet to set its state
    fresh,      \* update_initial_sink_latency
    opened,     \* the audio HAL has opened the stream
    bt,         \* the stack: the requests it has yet to answer, its stream is started
    count,      \* calls and departures of the stack so far
    answered,   \* history: an answer has come since the request was made
    misled      \* history: state no longer tells what the stack does; see Return

btVars == <<hal_imp, stack_cb, state, ack, pc, call, tail, fresh, opened, bt, count, answered, misled>>

NoCall == [op |-> "none", req |-> "none", i |-> 0, j |-> 0, waits |-> 0, status |-> "UNKNOWN"]

Init ==
    /\ hal_imp \in BOOLEAN
    /\ stack_cb = FALSE /\ state = "STARTING" /\ opened = FALSE /\ fresh = FALSE /\ tail = FALSE
    /\ ack = [status |-> "SUCCESS", recvd |-> FALSE, resp |-> FALSE]
    /\ pc = "idle" /\ call = NoCall
    /\ bt = [asked |-> << >>, started |-> FALSE]
    /\ count = [calls |-> 0, deinits |-> 0]
    /\ answered = FALSE /\ misled = FALSE

(***************************************************************************)
(* The calls                                                               *)
(***************************************************************************)
MayCall ==
    /\ pc = "idle" /\ (tail => Overlap) /\ count.calls < CALLS_MAX
    /\ count' = [count EXCEPT !.calls = @ + 1]

\* The lock is taken and the first request is made, unless the state decides.
Enter(op, req) == pc' = "ask" /\ call' = [NoCall EXCEPT !.op = op, !.req = req]
Stay == UNCHANGED <<pc, call>>
Begin(op, req, wanted) ==
    /\ MayCall /\ opened
    /\ IF wanted THEN Enter(op, req) ELSE Stay
    /\ UNCHANGED <<hal_imp, stack_cb, ack, tail, fresh, opened, bt, answered, misled>>

audio_start_stream ==
    /\ Begin("start", "start", state # "SUSPENDED" /\ ~(hal_imp /\ state = "STARTED"))
    /\ UNCHANGED state
audio_stream_close ==
    /\ Begin("close", "suspend", stack_cb /\ state \in {"STARTED", "STOPPING"})
    /\ UNCHANGED state
\* A stop of a suspended stream, or without a stack, only forgets the state.
audio_stop_stream ==
    LET asks == stack_cb /\ state # "SUSPENDED"
    IN Begin("stop", "suspend", asks) /\ state' = IF asks THEN state ELSE "STOPPED"
audio_suspend_stream ==
    /\ Begin("suspend", "suspend", stack_cb /\ state # "SUSPENDED")
    /\ UNCHANGED state
audio_get_codec_config == Begin("config", "mcast", TRUE) /\ UNCHANGED state
audio_get_next_codec_config == Begin("next_config", "codec", TRUE) /\ UNCHANGED state
\* With the two properties set; what it makes of the configuration is its result only.
audio_is_scrambling_enabled == Begin("next_config", "codec", stack_cb) /\ UNCHANGED state
audio_check_a2dp_ready ==
    Begin("ready", "ready", ~(hal_imp /\ state = "SUSPENDED")) /\ UNCHANGED state
audio_get_a2dp_sink_latency == Begin("latency", "latency", fresh) /\ UNCHANGED state

SetState(s) ==
    /\ MayCall
    /\ state' = s
    /\ UNCHANGED <<hal_imp, stack_cb, ack, pc, call, tail, fresh, bt, answered>>

audio_stream_open ==
    /\ SetState("STOPPED")
    /\ opened' = TRUE
    /\ misled' = (bt.asked # << >>)
audio_handoff_triggered == opened /\ SetState("STOPPED") /\ UNCHANGED <<opened, misled>>
clear_a2dpsuspend_flag == state = "SUSPENDED" /\ SetState("STOPPED") /\ UNCHANGED <<opened, misled>>

(***************************************************************************)
(* The steps of a call                                                     *)
(***************************************************************************)
\* The call looks for the answer for the last time, or ends, with a request unanswered.
Unanswered == bt.asked # << >>
Return(m) == pc' = "idle" /\ call' = NoCall /\ misled' = (misled \/ m \/ Unanswered)
Again(req, c) == pc' = "ask" /\ call' = [c EXCEPT !.req = req] /\ UNCHANGED misled
Retry(limit, otherwise) ==
    IF call.i + 1 < limit THEN Again(call.req, [call EXCEPT !.i = @ + 1]) ELSE otherwise

\* stop and suspend forget the old answer before they ask, the others after;
\* audio_check_a2dp_ready asks under ack_lock and does not look at resp_received.
Ask ==
    LET first == call.op \in {"stop", "suspend", "ready"}
    IN /\ ack' = [status |-> IF call.req \in {"start", "connection", "suspend", "ready"} THEN "UNKNOWN" ELSE ack.status,
                  recvd |-> ack.recvd /\ ~first,
                  resp |-> ack.resp /\ call.op = "ready"]
       /\ pc' = IF call.op = "ready" THEN "enter" ELSE IF first THEN "check" ELSE "clear"

\* stack_cb is not looked at again before the connection status is asked for.
AskNobody ==
    /\ \/ call.req = "connection" /\ pc' = "dead" /\ UNCHANGED <<call, misled>>
       \/ call.req \in {"start", "suspend", "ready"} /\ Return(FALSE)
       \/ call.req \in {"mcast", "devices", "codec", "latency"}
          /\ pc' = "conclude" /\ call' = [call EXCEPT !.status = "FAILURE"] /\ UNCHANGED misled
    /\ state' = IF call.op = "stop" THEN "STOPPED" ELSE state
    /\ UNCHANGED <<ack, bt, answered>>

Request ==
    /\ pc = "ask"
    /\ IF stack_cb
       THEN /\ Ask
            /\ bt' = [bt EXCEPT !.asked = Append(@, [req |-> call.req, pending |-> FALSE])]
            /\ answered' = FALSE
            /\ UNCHANGED <<call, state, misled>>
       ELSE AskNobody
    /\ UNCHANGED <<tail, fresh>>

\* Mutant: the response, too, is forgotten after the request.
Clear_LateReset ==
    /\ pc = "clear"
    /\ ack' = [ack EXCEPT !.recvd = FALSE, !.resp = FALSE]
    /\ pc' = "check"
    /\ UNCHANGED <<state, call, tail, fresh, bt, answered, misled>>

\* ack_recvd = 0
Clear ==
    /\ pc = "clear"
    /\ ack' = [ack EXCEPT !.recvd = FALSE]
    /\ pc' = "check"
    /\ UNCHANGED <<state, call, tail, fresh, bt, answered, misled>>

CheckResponse ==
    /\ pc = "check"
    /\ pc' = IF ack.resp THEN "read" ELSE "enter"
    /\ UNCHANGED <<state, ack, call, tail, fresh, bt, answered, misled>>

\* Mutant: the waits are not counted.
WaitAgain_Uncounted == pc' = "wait" /\ UNCHANGED call

WaitAgain == pc' = "wait" /\ call' = [call EXCEPT !.waits = @ + 1]

\* wait_for_stack_response looks at stack_cb when it begins; each wait then ends
\* with a signal, in time or for no reason.
wait_for_stack_response ==
    /\ \/ pc = "enter" /\ stack_cb /\ pc' = "wait" /\ call' = [call EXCEPT !.waits = 0]
       \/ pc = "enter" /\ ~stack_cb /\ pc' = "verdict" /\ call' = [call EXCEPT !.waits = 0]
       \/ pc = "wait" /\ call.waits < CTRL_CHAN_RETRY_COUNT /\ ~ack.recvd /\ WaitAgain
       \/ /\ pc = "wait" /\ (call.waits = CTRL_CHAN_RETRY_COUNT \/ ack.recvd)
          /\ pc' = "verdict" /\ UNCHANGED call
    /\ UNCHANGED <<state, ack, tail, fresh, bt, answered, misled>>

\* After the second wait, for the outcome of what was PENDING, nobody gives up.
Verdict ==
    /\ pc = "verdict"
    /\ pc' = IF call.status = "PENDING" THEN "settle"
             ELSE IF /\ call.waits = CTRL_CHAN_RETRY_COUNT /\ ~ack.recvd
                     /\ call.op \in {"start", "stop", "suspend", "ready"}
             THEN "gaveup" ELSE "read"
    /\ misled' = (misled \/ (pc' = "gaveup" /\ Unanswered))
    /\ UNCHANGED <<state, ack, call, tail, fresh, bt, answered>>

GiveUp ==
    /\ pc = "gaveup"
    /\ Return(FALSE)
    /\ UNCHANGED <<state, ack, tail, fresh, bt, answered>>

ReadStatus ==
    LET commands == call.op \in {"start", "stop", "suspend"} /\ call.req # "connection"
        pending == commands /\ ack.status = "PENDING"
    IN /\ pc = "read"
       /\ call' = [call EXCEPT !.status = ack.status]
       /\ ack' = [ack EXCEPT !.status = IF commands \/ call.req \in {"connection", "codec"} THEN "UNKNOWN" ELSE @,
                             !.recvd = @ /\ ~pending]
       /\ pc' = IF pending THEN "enter" ELSE "conclude"
       /\ UNCHANGED <<state, tail, fresh, bt, answered, misled>>

\* With the audio HAL's own implementation, no word on a start is good news.
Settle ==
    LET assumed == call.op = "start" /\ hal_imp /\ ack.status = "UNKNOWN"
    IN /\ pc = "settle"
       /\ call' = [call EXCEPT !.status = IF assumed THEN "SUCCESS" ELSE ack.status]
       /\ ack' = [ack EXCEPT !.status = "UNKNOWN"]
       /\ misled' = (misled \/ assumed \/ Unanswered)
       /\ pc' = "conclude"
       /\ UNCHANGED <<state, tail, fresh, bt, answered>>

\* The stack says that an earlier command is still under way: taken for success.
Assumed == hal_imp /\ call.status = "PREVIOUS_COMMAND_PENDING"
Done == call.status = "SUCCESS" \/ Assumed

ConcludeStart ==
    IF Done THEN state' = "STARTED" /\ Return(Assumed)
    ELSE IF call.status \in {"UNSUPPORTED", "UNKNOWN"} THEN state' = "STOPPED" /\ Return(FALSE)
    ELSE UNCHANGED state /\ Retry(STREAM_START_MAX_RETRY_COUNT, Again("connection", call))

ConcludeConnection ==
    /\ IF call.status = "SUCCESS" /\ call.j + 1 < STREAM_START_MAX_RETRY_LOOPER
       THEN Again("start", [call EXCEPT !.i = 0, !.j = @ + 1]) ELSE Return(FALSE)
    /\ UNCHANGED state

ConcludeStop == state' = (IF Done THEN "STANDBY" ELSE "STOPPED") /\ Return(Assumed)

\* Mutant: a refused suspension counts.
ConcludeSuspend_Refused == tail' = TRUE /\ Return(Assumed) /\ UNCHANGED state

\* The lock is released before the state is set.
ConcludeSuspend == tail' = Done /\ Return(Assumed) /\ UNCHANGED state

ConcludeQuery ==
    /\ UNCHANGED state
    /\ CASE call.req = "mcast" -> \E multicast \in BOOLEAN : Again(IF multicast THEN "devices" ELSE "codec", call)
         [] call.req = "devices" -> Again("codec", call)
         [] call.req = "codec" -> IF call.status = "SUCCESS" THEN Return(FALSE)
                                  ELSE Retry(STREAM_START_MAX_RETRY_COUNT, Return(FALSE))
         [] call.req = "latency" -> Return(FALSE)

ConcludeReady ==
    /\ UNCHANGED state
    /\ IF call.status = "SUCCESS" THEN Return(FALSE) /\ UNCHANGED ack
       ELSE /\ Retry(CHECK_A2DP_READY_MAX_COUNT, Return(FALSE))
            /\ ack' = [ack EXCEPT !.status = IF pc' = "idle" THEN "UNKNOWN" ELSE @]

Conclude ==
    /\ pc = "conclude"
    /\ CASE call.req = "start" -> ConcludeStart
         [] call.req = "connection" -> ConcludeConnection
         [] call.op = "stop" -> ConcludeStop
         [] call.op = "suspend" -> ConcludeSuspend
         [] call.op = "close" -> Return(FALSE) /\ UNCHANGED state
         [] call.op = "ready" -> ConcludeReady
         [] OTHER -> ConcludeQuery
    /\ opened' = (opened /\ call.op # "close")
    /\ fresh' = IF call.req \in {"mcast", "devices"} THEN TRUE ELSE fresh /\ call.req # "latency"
    /\ (call.op # "suspend" => UNCHANGED tail) /\ (call.op # "ready" => UNCHANGED ack)
    /\ UNCHANGED <<bt, answered>>

CallStep ==
    /\ \/ (Request \/ Clear \/ CheckResponse \/ wait_for_stack_response \/ Verdict
           \/ GiveUp \/ ReadStatus \/ Settle) /\ UNCHANGED opened
       \/ Conclude
    /\ UNCHANGED <<hal_imp, stack_cb, count>>

SuspendEnds ==
    /\ tail /\ tail' = FALSE /\ state' = "SUSPENDED"
    /\ UNCHANGED <<hal_imp, stack_cb, ack, pc, call, fresh, opened, bt, count, answered, misled>>

(***************************************************************************)
(* The Bluetooth stack                                                     *)
(***************************************************************************)
Statuses(req) ==
    CASE req = "start" -> {"SUCCESS", "FAILURE", "UNSUPPORTED", "PENDING", "PREVIOUS_COMMAND_PENDING"}
      [] req = "suspend" -> {"SUCCESS", "FAILURE", "PENDING", "PREVIOUS_COMMAND_PENDING"}
      [] req = "codec" -> {"SUCCESS", "FAILURE", "PENDING"}
      [] OTHER -> {"SUCCESS", "FAILURE"}

\* bt_stack_on_stream_started and its like.  The answers to three of the queries
\* carry no status, and a PENDING configuration is not passed on.
bt_stack_on(req, s) ==
    IF req = "codec" /\ s = "PENDING" THEN UNCHANGED <<ack, answered>>
    ELSE /\ ack' = [status |-> IF req \in {"mcast", "devices", "latency"} THEN ack.status ELSE s,
                    recvd |-> TRUE, resp |-> TRUE]
         /\ answered' = (answered \/ pc # "gaveup")

Answer ==
    /\ pc # "dead" /\ bt.asked # << >>
    /\ LET r == Head(bt.asked)
       IN \E s \in Statuses(r.req) :
             /\ s = "PENDING" => ~r.pending
             /\ bt_stack_on(r.req, s)
             /\ bt' = [asked |-> IF s = "PENDING" THEN [bt.asked EXCEPT ![1].pending = TRUE] ELSE Tail(bt.asked),
                       started |-> IF s = "SUCCESS" /\ r.req \in {"start", "suspend"}
                                   THEN r.req = "start" ELSE bt.started]
    /\ UNCHANGED <<hal_imp, stack_cb, state, pc, call, tail, fresh, opened, count, misled>>

NeverAnswer ==
    /\ pc # "dead" /\ bt.asked # << >>
    /\ bt' = [bt EXCEPT !.asked = Tail(@)]
    /\ UNCHANGED <<hal_imp, stack_cb, state, ack, pc, call, tail, fresh, opened, count, answered, misled>>

bt_stack_init ==
    /\ pc # "dead" /\ ~stack_cb /\ stack_cb' = TRUE
    /\ UNCHANGED <<hal_imp, state, ack, pc, call, tail, fresh, opened, bt, count, answered, misled>>

\* The stream is gone with the stack; nobody tells the state.
bt_stack_deinit ==
    /\ pc # "dead" /\ stack_cb /\ count.deinits < DEINIT_MAX
    /\ stack_cb' = FALSE
    /\ ack' = [ack EXCEPT !.status = "SKT_DISCONNECTED", !.recvd = TRUE]
    /\ bt' = [asked |-> << >>, started |-> FALSE]
    /\ count' = [count EXCEPT !.deinits = @ + 1]
    /\ misled' = (misled \/ state = "STARTED" \/ pc # "idle")
    /\ UNCHANGED <<hal_imp, state, pc, call, tail, fresh, opened, answered>>

Next ==
    \/ audio_stream_open \/ audio_stream_close \/ audio_start_stream \/ audio_stop_stream
    \/ audio_suspend_stream \/ audio_get_codec_config \/ audio_get_next_codec_config
    \/ audio_is_scrambling_enabled
    \/ audio_check_a2dp_ready \/ audio_get_a2dp_sink_latency
    \/ audio_handoff_triggered \/ clear_a2dpsuspend_flag
    \/ CallStep \/ SuspendEnds
    \/ Answer \/ NeverAnswer \/ bt_stack_init \/ bt_stack_deinit

\* A thread of the audio HAL that is inside a call runs on, and its waits end.
Spec == Init /\ [][Next]_btVars /\ WF_btVars(CallStep) /\ WF_btVars(SuspendEnds)

----------------------------------------------------------------------------
(* Properties *)

\* Between calls the state tells what the stack does: a stream that is STARTED is
\* started, one that is SUSPENDED or in STANDBY is not - however the stack
\* answered, also if it said PENDING first, refused, or answered while it was still
\* being asked.  Not covered (misled): a call that ended while its request was still
\* unanswered, whose answer the next call takes for its own; an outcome the code
\* assumes without an answer; the stack's departure.
StreamAgrees ==
    pc = "idle" /\ ~tail /\ ~misled =>
        /\ state = "STARTED" /\ opened => bt.started
        /\ state \in {"STANDBY", "SUSPENDED"} => ~bt.started

\* No call gives up although the stack has answered in time: no order of the three
\* assignments around the request, of the answer and of the waits loses the answer.
AnswersHeard == pc = "gaveup" => ~answered

\* Every call of the audio HAL comes to an end, whatever the stack does: answers,
\* stays silent or goes away.  (It may end the process: AskNobody.)
CallsReturn == pc \notin {"idle", "dead"} ~> pc \in {"idle", "dead"}

===============================================================================

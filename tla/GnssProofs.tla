------------------------------ MODULE GnssProofs ------------------------------
(***************************************************************************)
(* The GNSS adapter's task under each of its loads, for every set of       *)
(* clients, requests, settings and intervals: the modem gets at most one   *)
(* answer to each network-initiated request, and it is its own; power and  *)
(* settings are in the end what was asked for last; and the modem's fix    *)
(* session runs at the smallest interval of the tracking sessions.         *)
(***************************************************************************)
EXTENDS Gnss, Integers, FiniteSetTheorems, WellFoundedInduction, TLAPS

(* Network-initiated requests *)

Verdicts == {"ACCEPT", "DENY", "NO_RESPONSE"}
Resps == Verdicts \cup {"none", "IGNORE"}

NotifyMsgs == [kind : {"Notify"}, r : Requests]
ResponseMsgs == [kind : {"Response"}, id : Nat, resp : UserChoices]
InformMsgs == [kind : {"Inform"}, r : Requests, resp : Verdicts]
Messages == NotifyMsgs \cup ResponseMsgs \cup InformMsgs
Stores == [s : NiSessions, resp : Verdicts \cup {"IGNORE"}]

NiRecords ==
    [queue : Seq(Messages),
     stores : Seq(Stores), reqIDCounter : Nat,
     rawRequest : [NiSessions -> Requests \cup {NONE}], reqID : [NiSessions -> Nat],
     resp : [NiSessions -> Resps], respRecvd : [NiSessions -> BOOLEAN],
     shown : [Requests -> Nat], taken : [Requests -> Requests \cup {NONE}],
     late : SUBSET NiSessions, misled : SUBSET Requests]

NiTypeOK ==
    /\ ni \in NiRecords
    /\ thread \in [Requests -> Resps \cup {"refused", "waiting", "ended", "dropped"}]
    /\ user \in [Requests -> UserChoices \cup {"none"}]
    /\ answer \in [Requests -> Seq(Verdicts)]
    /\ asks \in Seq({"normal", "es"}) /\ Len(asks) <= NI_MAX

\* An emergency request has been accepted.
EsAccepted == \E e \in 1..Len(asks) : asks[e] = "es" /\ user[e] = "ACCEPT"

\* The session holds a request exactly while its thread waits, under the id the user was
\* shown, unless the thread before has reset that.
SessionsHeld ==
    /\ \A s \in NiSessions : ni.rawRequest[s] # NONE =>
         LET r == ni.rawRequest[s] IN
         /\ r \in 1..Len(asks) /\ SessionFor(asks[r]) = s /\ thread[r] = "waiting"
         /\ ni.reqID[s] \in {0, ni.shown[r]}
    /\ \A r \in Requests : thread[r] = "waiting" =>
         r \in 1..Len(asks) /\ ni.rawRequest[SessionFor(asks[r])] = r

\* The ids the user was shown differ.
IdsDiffer ==
    /\ \A r \in Requests : ni.shown[r] <= ni.reqIDCounter
    /\ \A r, q \in Requests : ni.shown[r] = ni.shown[q] /\ ni.shown[r] > 0 => r = q

\* An answer is the user's to the request r, or drops it for an emergency.
OwnResp(r, resp) ==
    \/ user[r] = resp /\ resp # "none"
    \/ resp = "IGNORE" /\ EsAccepted

\* A message that waits: a request that has no thread yet; an answer of the user, with
\* the id he was shown; an answer to the modem, the first and after its thread.
MsgOwn(m) ==
    /\ m.kind = "Notify" => m.r \in 1..Len(asks) /\ thread[m.r] = "none" /\ ni.shown[m.r] = 0
    /\ m.kind = "Response" =>
         m.id > 0 /\ \E q \in 1..Len(asks) : ni.shown[q] = m.id /\ user[q] = m.resp
    /\ m.kind = "Inform" =>
         /\ thread[m.r] = "ended" /\ answer[m.r] = << >>
         /\ m.r \notin ni.misled => m.resp \in {"NO_RESPONSE", user[m.r]}

\* Two messages say the same of a request.
Repeats(m, n) == m.kind \in {"Notify", "Inform"} /\ n.kind = m.kind /\ n.r = m.r

QueueOwn ==
    /\ \A i \in 1..Len(ni.queue) : MsgOwn(ni.queue[i])
    /\ \A i, j \in 1..Len(ni.queue) : Repeats(ni.queue[i], ni.queue[j]) => i = j

\* A response that is about to be stored, or was stored in time, is for the request
\* its session holds.
StoreOwn(x) == ni.rawRequest[x.s] # NONE => OwnResp(ni.rawRequest[x.s], x.resp)

StoresOwn ==
    /\ \A i \in 1..Len(ni.stores) : StoreOwn(ni.stores[i])
    /\ \A s \in NiSessions : ni.respRecvd[s] =>
         /\ ni.resp[s] # "none"
         /\ s \in ni.late \/ (ni.rawRequest[s] # NONE /\ OwnResp(ni.rawRequest[s], ni.resp[s]))

\* What a thread took, and what the modem was told.
ThreadsOwn ==
    \A r \in Requests :
        /\ thread[r] \in Verdicts =>
             ni.taken[r] = r /\ (r \in ni.misled \/ thread[r] \in {"NO_RESPONSE", user[r]})
        /\ thread[r] = "IGNORE" => ni.taken[r] = NONE /\ (r \in ni.misled \/ EsAccepted)
        /\ thread[r] = "dropped" => r \in ni.misled \/ EsAccepted
        /\ thread[r] # "none" => r \in 1..Len(asks)
        /\ ni.shown[r] > 0 => r \in 1..Len(asks)
        /\ answer[r] # << >> => thread[r] = "ended" /\ Len(answer[r]) = 1
        /\ r \notin ni.misled => \A k \in DOMAIN answer[r] : answer[r][k] \in {"NO_RESPONSE", user[r]}

NiInv == NiTypeOK /\ SessionsHeld /\ IdsDiffer /\ QueueOwn /\ StoresOwn /\ ThreadsOwn


-----------------------------------------------------------------------------
THEOREM NiInitInv == NiInit => NiInv
<1> SUFFICES ASSUME NiInit PROVE NiInv
    OBVIOUS
<1> USE NiAssumption
<1>1. ni \in NiRecords
    BY DEF NiInit, NiRecords, Resps, NiSessions, NONE
<1>2. /\ ni.queue = << >> /\ ni.stores = << >> /\ ni.reqIDCounter = 0
      /\ ni.rawRequest = [s \in NiSessions |-> NONE]
      /\ ni.respRecvd = [s \in NiSessions |-> FALSE]
      /\ ni.shown = [r \in Requests |-> 0]
    BY DEF NiInit
<1>3. thread = [r \in Requests |-> "none"] /\ answer = [r \in Requests |-> << >>]
    BY DEF NiInit
<1>4. NiTypeOK
    BY <1>1 DEF NiTypeOK, NiInit, Resps
<1>5. SessionsHeld /\ IdsDiffer
    BY <1>2, <1>3 DEF SessionsHeld, IdsDiffer
<1>6. QueueOwn /\ StoresOwn
    BY <1>2 DEF QueueOwn, StoresOwn
<1>7. ThreadsOwn
    BY <1>2, <1>3 DEF ThreadsOwn, Verdicts
<1> QED
    BY <1>4, <1>5, <1>6, <1>7 DEF NiInv

LEMMA TailOf ==
    ASSUME NEW S, NEW q \in Seq(S), q # << >>
    PROVE  /\ Tail(q) \in Seq(S) /\ Head(q) \in S /\ Head(q) = q[1]
           /\ 1 \in 1..Len(q) /\ Len(Tail(q)) \in Nat /\ Len(Tail(q)) = Len(q) - 1
           /\ \A i \in 1..Len(Tail(q)) : i + 1 \in 1..Len(q) /\ Tail(q)[i] = q[i + 1]
OBVIOUS

LEMMA AppendOf ==
    ASSUME NEW S, NEW q \in Seq(S), NEW m \in S
    PROVE  /\ Append(q, m) \in Seq(S) /\ Len(Append(q, m)) = Len(q) + 1
           /\ \A i \in 1..Len(Append(q, m)) :
                (i \in 1..Len(q) /\ Append(q, m)[i] = q[i]) \/ (i = Len(q) + 1 /\ Append(q, m)[i] = m)
OBVIOUS

(* What is left of the queue when its first message is taken, or when one is added,  *)
(* in the terms the parts of the invariant need.                                     *)
QueueShrunk ==
    /\ ni'.queue \in Seq(Messages)
    /\ \A i \in 1..Len(ni'.queue) : i + 1 \in 2..Len(ni.queue) /\ ni'.queue[i] = ni.queue[i + 1]

QueueGrown(m) ==
    /\ ni'.queue \in Seq(Messages)
    /\ \A i \in 1..Len(ni'.queue) :
          (i \in 1..Len(ni.queue) /\ ni'.queue[i] = ni.queue[i]) \/ (i = Len(ni.queue) + 1 /\ ni'.queue[i] = m)

LEMMA NiFields ==
    ASSUME ni \in NiRecords
    PROVE  /\ ni.queue \in Seq(Messages) /\ ni.stores \in Seq(Stores) /\ ni.reqIDCounter \in Nat
           /\ ni.rawRequest \in [NiSessions -> Requests \cup {NONE}]
           /\ ni.reqID \in [NiSessions -> Nat] /\ ni.resp \in [NiSessions -> Resps]
           /\ ni.respRecvd \in [NiSessions -> BOOLEAN]
           /\ ni.shown \in [Requests -> Nat] /\ ni.taken \in [Requests -> Requests \cup {NONE}]
           /\ ni.late \in SUBSET NiSessions /\ ni.misled \in SUBSET Requests
BY DEF NiRecords

LEMMA MessageKinds ==
    ASSUME NEW m \in Messages
    PROVE  /\ m.kind = "Notify" => m.r \in Requests
           /\ m.kind = "Response" => m.id \in Nat /\ m.resp \in UserChoices
           /\ m.kind = "Inform" => m.r \in Requests /\ m.resp \in Verdicts
BY DEF Messages, NotifyMsgs, ResponseMsgs, InformMsgs

(* The queue stays sound when the messages that stay keep their meaning and a new one *)
(* repeats none of them.                                                              *)
LEMMA ShrunkOwn ==
    ASSUME QueueOwn, QueueShrunk, ni.queue \in Seq(Messages), ni.queue # << >>,
           \A n \in Messages : ~Repeats(ni.queue[1], n) /\ MsgOwn(n) => MsgOwn(n)'
    PROVE  QueueOwn'
<1>1. Len(ni.queue) \in Nat /\ 1 \in 1..Len(ni.queue) /\ Len(ni'.queue) \in Nat
    BY DEF QueueShrunk
<1>2. \A i \in 2..Len(ni.queue) : i \in 1..Len(ni.queue) /\ i # 1
    OBVIOUS
<1>3. ASSUME NEW i \in 1..Len(ni'.queue), NEW n, n = ni'.queue[i]
      PROVE  MsgOwn(n)'
  <2>1. i + 1 \in 2..Len(ni.queue) /\ n = ni.queue[i + 1]
      BY <1>3 DEF QueueShrunk
  <2>2. n \in Messages /\ MsgOwn(n) /\ ~Repeats(ni.queue[1], n)
      BY <2>1, <1>1, <1>2 DEF QueueOwn
  <2> QED
      BY <2>2
<1>4. \A i \in 1..Len(ni'.queue) : MsgOwn(ni.queue[i])'
    BY <1>3
<1>5. \A i, j \in 1..Len(ni'.queue) : Repeats(ni'.queue[i], ni'.queue[j]) => i = j
    BY <1>1, <1>2 DEF QueueOwn, QueueShrunk
<1> QED
    BY <1>4, <1>5 DEF QueueOwn, Repeats

LEMMA GrownOwn ==
    ASSUME NEW m \in Messages, QueueOwn, QueueGrown(m), ni.queue \in Seq(Messages), MsgOwn(m)',
           \A n \in Messages : MsgOwn(n) => MsgOwn(n)' /\ ~Repeats(m, n)
    PROVE  QueueOwn'
<1>1. Len(ni.queue) \in Nat /\ Len(ni'.queue) \in Nat
    BY DEF QueueGrown
<1>2. ASSUME NEW i \in 1..Len(ni'.queue), NEW n, n = ni'.queue[i]
      PROVE  MsgOwn(n)'
  <2>1. CASE i \in 1..Len(ni.queue) /\ n = ni.queue[i]
      BY <2>1 DEF QueueOwn
  <2>2. CASE n = m
      BY <2>2
  <2> QED
      BY <2>1, <2>2, <1>2 DEF QueueGrown
<1>3. \A i \in 1..Len(ni'.queue) : MsgOwn(ni.queue[i])'
    BY <1>2
<1>4. \A i \in 1..Len(ni.queue) : ~Repeats(m, ni.queue[i]) /\ ~Repeats(ni.queue[i], m)
    BY DEF QueueOwn, Repeats
<1>5. \A i, j \in 1..Len(ni'.queue) : Repeats(ni'.queue[i], ni'.queue[j]) => i = j
    BY <1>1, <1>4 DEF QueueOwn, QueueGrown
<1> QED
    BY <1>3, <1>5 DEF QueueOwn, Repeats

LEMMA InformStep ==
    ASSUME NiInv, informNiResponse
    PROVE  NiInv'
<1> USE NiAssumption
<1> DEFINE m == Message
<1>a. NiTypeOK /\ SessionsHeld /\ IdsDiffer /\ QueueOwn /\ StoresOwn /\ ThreadsOwn
    BY DEF NiInv
<1>b. ni \in NiRecords
    BY <1>a DEF NiTypeOK
<1>c. /\ ni.queue # << >> /\ m.kind = "Inform" /\ m = ni.queue[1] /\ 1 \in 1..Len(ni.queue)
      /\ m.r \in Requests /\ m.resp \in Verdicts
    BY <1>b, NiFields, TailOf, MessageKinds DEF informNiResponse, Receives, Message
<1>d. /\ thread' = thread /\ user' = user /\ asks' = asks
      /\ answer' = [answer EXCEPT ![m.r] = Append(@, m.resp)]
    BY DEF informNiResponse
<1>e. ni' = [ni EXCEPT !.queue = Tail(@)]
    BY DEF informNiResponse, Dequeued
<1>f. ni' \in NiRecords
    BY <1>b, <1>c, <1>e, NiFields, TailOf DEF NiRecords
<1>g. /\ ni'.stores = ni.stores /\ ni'.reqIDCounter = ni.reqIDCounter /\ ni'.rawRequest = ni.rawRequest
      /\ ni'.reqID = ni.reqID /\ ni'.resp = ni.resp /\ ni'.respRecvd = ni.respRecvd
      /\ ni'.shown = ni.shown /\ ni'.taken = ni.taken /\ ni'.late = ni.late /\ ni'.misled = ni.misled
      /\ ni'.queue = Tail(ni.queue)
    BY <1>b, <1>e DEF NiRecords
<1>h. QueueShrunk
    BY <1>b, <1>c, <1>g, NiFields, TailOf DEF QueueShrunk
<1>i. EsAccepted' = EsAccepted
    BY <1>d DEF EsAccepted
<1>j. answer[m.r] = << >> /\ thread[m.r] = "ended" /\ (m.r \notin ni.misled => m.resp \in {"NO_RESPONSE", user[m.r]})
    BY <1>a, <1>c DEF QueueOwn, MsgOwn
<1>k. answer' \in [Requests -> Seq(Verdicts)] /\ answer'[m.r] = <<m.resp>>
      /\ \A r \in Requests \ {m.r} : answer'[r] = answer[r]
    BY <1>a, <1>c, <1>d, <1>j DEF NiTypeOK
<1>1. NiTypeOK'
    BY <1>a, <1>d, <1>f, <1>k DEF NiTypeOK
<1>2. SessionsHeld' /\ IdsDiffer'
    BY <1>a, <1>d, <1>g DEF SessionsHeld, IdsDiffer
<1>3. QueueOwn'
  <2>1. \A n \in Messages : ~Repeats(m, n) /\ MsgOwn(n) => MsgOwn(n)'
      BY <1>c, <1>d, <1>g, <1>k, MessageKinds DEF MsgOwn, Repeats
  <2> QED
      BY <2>1, <1>a, <1>b, <1>c, <1>h, NiFields, ShrunkOwn
<1>4. StoresOwn'
    BY <1>a, <1>d, <1>g, <1>i DEF StoresOwn, StoreOwn, OwnResp
<1>5. ThreadsOwn'
    BY <1>a, <1>d, <1>g, <1>i, <1>j, <1>k, <1>c DEF ThreadsOwn
<1> QED
    BY <1>1, <1>2, <1>3, <1>4, <1>5 DEF NiInv

LEMMA NotifyStep ==
    ASSUME NiInv, requestNiNotify
    PROVE  NiInv'
<1> USE NiAssumption
<1> DEFINE m == Message
           r == m.r
           s == SessionFor(asks[r])
           id == ni.reqIDCounter + 1
<1>a. NiTypeOK /\ SessionsHeld /\ IdsDiffer /\ QueueOwn /\ StoresOwn /\ ThreadsOwn
    BY DEF NiInv
<1>b. ni \in NiRecords
    BY <1>a DEF NiTypeOK
<1>c. /\ ni.queue # << >> /\ m.kind = "Notify" /\ m = ni.queue[1] /\ 1 \in 1..Len(ni.queue)
      /\ r \in Requests /\ ni.stores = << >>
    BY <1>b, NiFields, TailOf, MessageKinds DEF requestNiNotify, Receives, Message, Idle
<1>d. user' = user /\ asks' = asks /\ answer' = answer
    BY DEF requestNiNotify
<1>e. r \in 1..Len(asks) /\ thread[r] = "none" /\ ni.shown[r] = 0
    BY <1>a, <1>c DEF QueueOwn, MsgOwn
<1>f. EsAccepted' = EsAccepted
    BY <1>d DEF EsAccepted
<1>g. Tail(ni.queue) \in Seq(Messages)
    BY <1>b, <1>c, NiFields, TailOf
<1>h. s \in NiSessions /\ id \in Nat /\ id > 0
    BY <1>b, NiFields DEF SessionFor, NiSessions
<1> HIDE DEF r, s, id
<1>1. CASE Refused(asks[r])
  <2>1. ni' = [ni EXCEPT !.queue = Tail(@)] /\ thread' = [thread EXCEPT ![r] = "refused"]
      BY <1>1 DEF requestNiNotify, Dequeued, r
  <2>2. ni' \in NiRecords
      BY <1>b, <1>g, <2>1 DEF NiRecords
  <2>3. /\ ni'.stores = ni.stores /\ ni'.reqIDCounter = ni.reqIDCounter /\ ni'.rawRequest = ni.rawRequest
        /\ ni'.reqID = ni.reqID /\ ni'.resp = ni.resp /\ ni'.respRecvd = ni.respRecvd
        /\ ni'.shown = ni.shown /\ ni'.taken = ni.taken /\ ni'.late = ni.late /\ ni'.misled = ni.misled
        /\ ni'.queue = Tail(ni.queue)
      BY <1>b, <2>1 DEF NiRecords
  <2>4. QueueShrunk
      BY <1>b, <1>c, <2>3, NiFields, TailOf DEF QueueShrunk
  <2>5. /\ thread' \in [Requests -> Resps \cup {"refused", "waiting", "ended", "dropped"}]
        /\ thread'[r] = "refused" /\ \A q \in Requests \ {r} : thread'[q] = thread[q]
      BY <1>a, <1>c, <2>1 DEF NiTypeOK, r
  <2>6. NiTypeOK'
      BY <1>a, <1>d, <2>2, <2>5 DEF NiTypeOK
  <2>7. SessionsHeld'
    <3>1. \A q \in Requests : thread'[q] = "waiting" <=> thread[q] = "waiting"
        BY <1>e, <2>5
    <3>2. \A x \in NiSessions : ni.rawRequest[x] # NONE => ni.rawRequest[x] \in Requests
        BY <1>b, NiFields
    <3> QED
        BY <3>1, <3>2, <1>a, <1>d, <2>3 DEF SessionsHeld
  <2>8. IdsDiffer'
      BY <1>a, <2>3 DEF IdsDiffer
  <2>9. QueueOwn'
    <3>1. \A n \in Messages : ~Repeats(m, n) /\ MsgOwn(n) => MsgOwn(n)'
        BY <1>c, <1>d, <1>e, <2>3, <2>5, MessageKinds DEF MsgOwn, Repeats, r
    <3> QED
        BY <3>1, <1>a, <1>b, <1>c, <2>4, NiFields, ShrunkOwn
  <2>10. StoresOwn'
      BY <1>a, <1>d, <1>f, <2>3 DEF StoresOwn, StoreOwn, OwnResp
  <2>11. ThreadsOwn'
      BY <1>a, <1>d, <1>e, <1>f, <2>3, <2>5 DEF ThreadsOwn, Verdicts
  <2> QED
      BY <2>6, <2>7, <2>8, <2>9, <2>10, <2>11 DEF NiInv
<1>2. CASE ~Refused(asks[r])
  <2>0. ni.rawRequest[s] = NONE
      BY <1>2 DEF Refused, Busy, s, SessionFor
  <2>1. /\ ni' = [ni EXCEPT !.queue = Tail(@), !.rawRequest[s] = r, !.reqID[s] = id,
                            !.reqIDCounter = id, !.shown[r] = id]
        /\ thread' = [thread EXCEPT ![r] = "waiting"]
    <3>1. /\ ni' = [Dequeued(ni) EXCEPT !.rawRequest[s] = r, !.reqID[s] = id,
                                        !.reqIDCounter = id, !.shown[r] = id]
          /\ thread' = [thread EXCEPT ![r] = "waiting"]
        BY <1>2 DEF requestNiNotify, r, s, id
    <3> QED
        BY <3>1, <1>b DEF Dequeued, NiRecords
  <2>2. /\ ni'.stores = ni.stores /\ ni'.reqIDCounter = id
        /\ ni'.rawRequest = [ni.rawRequest EXCEPT ![s] = r]
        /\ ni'.reqID = [ni.reqID EXCEPT ![s] = id] /\ ni'.resp = ni.resp /\ ni'.respRecvd = ni.respRecvd
        /\ ni'.shown = [ni.shown EXCEPT ![r] = id] /\ ni'.taken = ni.taken /\ ni'.late = ni.late
        /\ ni'.misled = ni.misled /\ ni'.queue = Tail(ni.queue)
      BY <1>b, <2>1 DEF NiRecords
  <2>3. ni' \in NiRecords
      BY <1>b, <1>c, <1>g, <1>h, <2>1 DEF NiRecords, r
  <2>4. QueueShrunk
      BY <1>b, <1>c, <2>2, NiFields, TailOf DEF QueueShrunk
  <2>5. /\ thread' \in [Requests -> Resps \cup {"refused", "waiting", "ended", "dropped"}]
        /\ thread'[r] = "waiting" /\ \A q \in Requests \ {r} : thread'[q] = thread[q]
      BY <1>a, <1>c, <2>1 DEF NiTypeOK, r
  <2>6. /\ ni'.shown[r] = id /\ \A q \in Requests \ {r} : ni'.shown[q] = ni.shown[q]
        /\ ni'.rawRequest[s] = r /\ ni'.reqID[s] = id
        /\ \A x \in NiSessions \ {s} : ni'.rawRequest[x] = ni.rawRequest[x] /\ ni'.reqID[x] = ni.reqID[x]
      BY <1>b, <1>c, <1>h, <2>2, NiFields DEF r
  <2>7. NiTypeOK'
      BY <1>a, <1>d, <2>3, <2>5 DEF NiTypeOK
  <2>8. SessionsHeld'
    <3>1. ASSUME NEW x \in NiSessions, ni'.rawRequest[x] # NONE, NEW q, q = ni'.rawRequest[x]
          PROVE  /\ q \in 1..Len(asks) /\ SessionFor(asks[q]) = x /\ thread'[q] = "waiting"
                 /\ ni'.reqID[x] \in {0, ni'.shown[q]}
      <4>1. CASE x = s
          BY <3>1, <4>1, <1>e, <2>5, <2>6 DEF s
      <4>2. CASE x # s
        <5>1. q = ni.rawRequest[x] /\ q # NONE /\ q \in Requests
            BY <3>1, <4>2, <1>b, <2>6, NiFields
        <5>2. /\ q \in 1..Len(asks) /\ SessionFor(asks[q]) = x /\ thread[q] = "waiting"
              /\ ni.reqID[x] \in {0, ni.shown[q]}
            BY <5>1, <1>a DEF SessionsHeld
        <5> QED
            BY <5>1, <5>2, <4>2, <1>e, <2>5, <2>6
      <4> QED
          BY <4>1, <4>2
    <3>2. ASSUME NEW q \in Requests, thread'[q] = "waiting"
          PROVE  q \in 1..Len(asks) /\ ni'.rawRequest[SessionFor(asks[q])] = q
      <4>1. CASE q = r
          BY <4>1, <1>e, <2>6 DEF s
      <4>2. CASE q # r
        <5>1. q \in 1..Len(asks) /\ ni.rawRequest[SessionFor(asks[q])] = q
            BY <3>2, <4>2, <2>5, <1>a DEF SessionsHeld
        <5>2. SessionFor(asks[q]) \in NiSessions \ {s}
            BY <5>1, <2>0 DEF SessionFor, NiSessions, NONE, Requests
        <5> QED
            BY <5>1, <5>2, <2>6
      <4> QED
          BY <4>1, <4>2
    <3> QED
        BY <3>1, <3>2, <1>d DEF SessionsHeld
  <2>9. IdsDiffer'
    <3>1. \A q \in Requests : ni.shown[q] \in Nat /\ ni.shown[q] < id
        BY <1>a, <1>b, NiFields DEF IdsDiffer, id
    <3> QED
        BY <3>1, <1>a, <1>h, <2>2, <2>6 DEF IdsDiffer
  <2>10. QueueOwn'
    <3>1. \A n \in Messages : ~Repeats(m, n) /\ MsgOwn(n) => MsgOwn(n)'
      <4> SUFFICES ASSUME NEW n \in Messages, ~Repeats(m, n), MsgOwn(n)
                   PROVE  MsgOwn(n)'
          OBVIOUS
      <4>1. n.kind = "Notify" => n.r \in Requests \ {r}
          BY <1>c, MessageKinds DEF Repeats, r
      <4>2. n.kind = "Inform" => n.r \in Requests \ {r}
          BY <1>e, MessageKinds DEF MsgOwn
      <4>3. \A q \in 1..Len(asks) : q \in Requests
          BY <1>a DEF NiTypeOK, Requests
      <4>4. n.kind = "Response" =>
              n.id > 0 /\ \E q \in 1..Len(asks) : ni'.shown[q] = n.id /\ user[q] = n.resp
          BY <1>e, <2>6, <4>3, MessageKinds DEF MsgOwn
      <4> QED
          BY <4>1, <4>2, <4>4, <1>d, <2>2, <2>5, <2>6 DEF MsgOwn
    <3> QED
        BY <3>1, <1>a, <1>b, <1>c, <2>4, NiFields, ShrunkOwn
  <2>11. StoresOwn'
    <3>1. \A x \in NiSessions : ni.respRecvd[x] =>
            /\ ni.resp[x] # "none"
            /\ x \in ni.late \/ (x # s /\ ni.rawRequest[x] # NONE /\ OwnResp(ni.rawRequest[x], ni.resp[x]))
        BY <1>a, <2>0 DEF StoresOwn
    <3>2. ni'.stores = << >>
        BY <1>c, <2>2
    <3> QED
        BY <3>1, <3>2, <1>d, <1>f, <2>2, <2>6 DEF StoresOwn, StoreOwn, OwnResp
  <2>12. ThreadsOwn'
      BY <1>a, <1>d, <1>e, <1>f, <2>2, <2>5, <2>6 DEF ThreadsOwn, Verdicts
  <2> QED
      BY <2>7, <2>8, <2>9, <2>10, <2>11, <2>12 DEF NiInv
<1> QED
    BY <1>1, <1>2

LEMMA ResponseStep ==
    ASSUME NiInv, gnssNiResponse
    PROVE  NiInv'
<1> USE NiAssumption
<1> DEFINE m == Message
           s == IF "sessionEs" \in Answers(m.id) THEN "sessionEs" ELSE "session"
           own == [s |-> s, resp |-> m.resp]
           drops == s = "sessionEs" /\ m.resp = "ACCEPT" /\ Busy("session")
           new == IF Answers(m.id) = {} THEN << >>
                  ELSE IF drops THEN <<[s |-> "session", resp |-> "IGNORE"], own>>
                  ELSE <<own>>
<1>a. NiTypeOK /\ SessionsHeld /\ IdsDiffer /\ QueueOwn /\ StoresOwn /\ ThreadsOwn
    BY DEF NiInv
<1>b. ni \in NiRecords
    BY <1>a DEF NiTypeOK
<1>c. /\ ni.queue # << >> /\ m.kind = "Response" /\ m = ni.queue[1] /\ 1 \in 1..Len(ni.queue)
      /\ m.id \in Nat /\ m.resp \in UserChoices
    BY <1>b, NiFields, TailOf, MessageKinds DEF gnssNiResponse, Receives, Message
<1>d. user' = user /\ asks' = asks /\ answer' = answer /\ thread' = thread
    BY DEF gnssNiResponse
<1>e. m.id > 0
    BY <1>a, <1>c DEF QueueOwn, MsgOwn
<1>f. PICK q \in 1..Len(asks) : ni.shown[q] = m.id /\ user[q] = m.resp
    BY <1>a, <1>c DEF QueueOwn, MsgOwn
<1>g. EsAccepted' = EsAccepted
    BY <1>d DEF EsAccepted
<1>h. Tail(ni.queue) \in Seq(Messages)
    BY <1>b, <1>c, NiFields, TailOf
<1>i. q \in Requests
    BY <1>a DEF NiTypeOK, Requests
<1>j. s \in NiSessions /\ (Answers(m.id) # {} => s \in Answers(m.id))
    BY DEF NiSessions, Answers
<1> HIDE DEF s
\* The session found by the id holds the request the user answered.
<1>k. Answers(m.id) # {} => ni.rawRequest[s] = q
  <2> SUFFICES ASSUME s \in Answers(m.id)
               PROVE  ni.rawRequest[s] = q
      BY <1>j
  <2>1. ni.reqID[s] = m.id /\ ni.rawRequest[s] # NONE /\ ni.rawRequest[s] \in Requests
      BY <1>b, <1>j, NiFields DEF Answers, Busy
  <2>2. ni.shown[ni.rawRequest[s]] = m.id
      BY <2>1, <1>a, <1>e, <1>j DEF SessionsHeld
  <2> QED
      BY <2>1, <2>2, <1>a, <1>e, <1>f, <1>i DEF IdsDiffer
<1>l. Answers(m.id) # {} /\ drops => EsAccepted
  <2> SUFFICES ASSUME Answers(m.id) # {}, drops
               PROVE  EsAccepted
      OBVIOUS
  <2>1. ni.rawRequest[s] = q /\ q # NONE
      BY <1>k, <1>i, <1>j DEF Answers, Busy
  <2>2. SessionFor(asks[q]) = s
      BY <2>1, <1>a, <1>j DEF SessionsHeld
  <2>3. asks[q] = "es" /\ user[q] = "ACCEPT"
      BY <2>2, <1>f DEF SessionFor
  <2> QED
      BY <2>3 DEF EsAccepted
<1>m. new \in Seq(Stores)
  <2>1. own \in Stores /\ [s |-> "session", resp |-> "IGNORE"] \in Stores
      BY <1>c, <1>j DEF Stores, Verdicts, NiSessions
  <2>2. \A a, b \in Stores : <<a>> \in Seq(Stores) /\ <<a, b>> \in Seq(Stores)
      OBVIOUS
  <2> HIDE DEF own, drops
  <2> QED
      BY <2>1, <2>2
<1>n. \A i \in 1..Len(new) : StoreOwn(new[i])
  <2>1. \A i \in 1..Len(new) :
          \/ Answers(m.id) # {} /\ new[i].s = s /\ new[i].resp = m.resp
          \/ Answers(m.id) # {} /\ drops /\ new[i].resp = "IGNORE"
      <3>1. CASE Answers(m.id) = {}
          BY <3>1
      <3>2. CASE Answers(m.id) # {} /\ drops
          BY <3>2
      <3>3. CASE Answers(m.id) # {} /\ ~drops
          BY <3>3
      <3> QED
          BY <3>1, <3>2, <3>3
  <2>2. m.resp # "none"
      BY <1>c
  <2> HIDE DEF new, drops
  <2> QED
      BY <2>1, <2>2, <1>f, <1>k, <1>l DEF OwnResp, StoreOwn
<1> HIDE DEF new
<1>1. ni' = [ni EXCEPT !.queue = Tail(@), !.stores = new]
  <2>1. ni' = [Dequeued(ni) EXCEPT !.stores = new]
      BY DEF gnssNiResponse, new, s
  <2> QED
      BY <2>1, <1>b DEF Dequeued, NiRecords
<1>2. /\ ni'.stores = new /\ ni'.reqIDCounter = ni.reqIDCounter /\ ni'.rawRequest = ni.rawRequest
      /\ ni'.reqID = ni.reqID /\ ni'.resp = ni.resp /\ ni'.respRecvd = ni.respRecvd
      /\ ni'.shown = ni.shown /\ ni'.taken = ni.taken /\ ni'.late = ni.late /\ ni'.misled = ni.misled
      /\ ni'.queue = Tail(ni.queue)
    BY <1>b, <1>1 DEF NiRecords
<1>3. ni' \in NiRecords
    BY <1>b, <1>h, <1>m, <1>1 DEF NiRecords
<1>4. QueueShrunk
    BY <1>b, <1>c, <1>2, NiFields, TailOf DEF QueueShrunk
<1>5. NiTypeOK'
    BY <1>a, <1>d, <1>3 DEF NiTypeOK
<1>6. SessionsHeld' /\ IdsDiffer'
    BY <1>a, <1>d, <1>2 DEF SessionsHeld, IdsDiffer
<1>7. QueueOwn'
  <2>1. \A n \in Messages : ~Repeats(m, n) /\ MsgOwn(n) => MsgOwn(n)'
      BY <1>d, <1>2 DEF MsgOwn
  <2> QED
      BY <2>1, <1>a, <1>b, <1>c, <1>4, NiFields, ShrunkOwn
<1>8. StoresOwn'
    BY <1>a, <1>d, <1>g, <1>n, <1>2 DEF StoresOwn, StoreOwn, OwnResp
<1>9. ThreadsOwn'
    BY <1>a, <1>d, <1>g, <1>2 DEF ThreadsOwn
<1> QED
    BY <1>5, <1>6, <1>7, <1>8, <1>9 DEF NiInv

LEMMA StoreStep ==
    ASSUME NiInv, StoreResponse
    PROVE  NiInv'
<1> USE NiAssumption
<1> DEFINE x == Head(ni.stores)
           z == x.s
           late == IF Busy(z) THEN ni.late ELSE ni.late \cup {z}
<1>a. NiTypeOK /\ SessionsHeld /\ IdsDiffer /\ QueueOwn /\ StoresOwn /\ ThreadsOwn
    BY DEF NiInv
<1>b. ni \in NiRecords
    BY <1>a DEF NiTypeOK
<1>c. /\ ni.stores # << >> /\ x \in Stores /\ x = ni.stores[1] /\ 1 \in 1..Len(ni.stores)
      /\ Tail(ni.stores) \in Seq(Stores)
    BY <1>b, NiFields, TailOf DEF StoreResponse, Idle
<1>d. user' = user /\ asks' = asks /\ answer' = answer /\ thread' = thread
    BY DEF StoreResponse
<1>e. z \in NiSessions /\ x.resp \in Resps /\ x.resp # "none" /\ late \in SUBSET NiSessions
    BY <1>b, <1>c, NiFields DEF Stores, Resps, Verdicts
<1>f. EsAccepted' = EsAccepted
    BY <1>d DEF EsAccepted
<1>g. ni.rawRequest[z] # NONE => OwnResp(ni.rawRequest[z], x.resp)
    BY <1>a, <1>c DEF StoresOwn, StoreOwn
<1>h. ni' = [ni EXCEPT !.stores = Tail(@), !.resp[z] = x.resp, !.respRecvd[z] = TRUE, !.late = late]
    BY <1>b DEF StoreResponse, NiRecords
<1>i. ni.rawRequest[z] = NONE => z \in late
    BY DEF Busy
<1>j. ni.late \subseteq late
    OBVIOUS
<1> HIDE DEF late, z
<1>1. /\ ni'.stores = Tail(ni.stores) /\ ni'.reqIDCounter = ni.reqIDCounter /\ ni'.rawRequest = ni.rawRequest
      /\ ni'.reqID = ni.reqID /\ ni'.resp = [ni.resp EXCEPT ![z] = x.resp]
      /\ ni'.respRecvd = [ni.respRecvd EXCEPT ![z] = TRUE]
      /\ ni'.shown = ni.shown /\ ni'.taken = ni.taken /\ ni'.late = late /\ ni'.misled = ni.misled
      /\ ni'.queue = ni.queue
    BY <1>b, <1>h DEF NiRecords
<1>2. ni' \in NiRecords
    BY <1>b, <1>c, <1>e, <1>h DEF NiRecords
<1>3. NiTypeOK'
    BY <1>a, <1>d, <1>2 DEF NiTypeOK
<1>4. SessionsHeld' /\ IdsDiffer'
    BY <1>a, <1>d, <1>1 DEF SessionsHeld, IdsDiffer
<1>5. QueueOwn'
    BY <1>a, <1>d, <1>1 DEF QueueOwn, MsgOwn, Repeats
<1>6. StoresOwn'
  <2>1. ASSUME NEW i \in 1..Len(ni'.stores)
        PROVE  StoreOwn(ni'.stores[i])
    <3>1. i + 1 \in 1..Len(ni.stores) /\ ni'.stores[i] = ni.stores[i + 1]
        BY <1>b, <1>c, <1>1, NiFields, TailOf
    <3> QED
        BY <3>1, <1>a DEF StoresOwn
  <2>2. \A y \in NiSessions : ni'.respRecvd[y] =>
          /\ ni'.resp[y] # "none"
          /\ y \in late \/ (ni.rawRequest[y] # NONE /\ OwnResp(ni.rawRequest[y], ni'.resp[y]))
    <3> SUFFICES ASSUME NEW y \in NiSessions, ni'.respRecvd[y]
                 PROVE  /\ ni'.resp[y] # "none"
                        /\ y \in late \/ (ni.rawRequest[y] # NONE /\ OwnResp(ni.rawRequest[y], ni'.resp[y]))
        OBVIOUS
    <3>1. CASE y = z
        BY <3>1, <1>b, <1>e, <1>g, <1>i, <1>1, NiFields
    <3>2. CASE y # z
        BY <3>2, <1>a, <1>b, <1>j, <1>1, NiFields DEF StoresOwn
    <3> QED
        BY <3>1, <3>2
  <2>3. (\A i \in 1..Len(ni.stores) : StoreOwn(ni.stores[i]))'
      BY <2>1, <1>d, <1>f, <1>1 DEF StoreOwn, OwnResp
  <2>4. (\A y \in NiSessions : ni.respRecvd[y] =>
           /\ ni.resp[y] # "none"
           /\ y \in ni.late \/ (ni.rawRequest[y] # NONE /\ OwnResp(ni.rawRequest[y], ni.resp[y])))'
    <3> SUFFICES ASSUME NEW y \in NiSessions, ni'.respRecvd[y]
                 PROVE  /\ ni'.resp[y] # "none"
                        /\ \/ y \in ni'.late
                           \/ ni'.rawRequest[y] # NONE /\ OwnResp(ni.rawRequest[y], ni.resp[y])'
        OBVIOUS
    <3> QED
        BY <2>2, <1>d, <1>f, <1>1 DEF OwnResp
  <2> QED
      BY <2>3, <2>4 DEF StoresOwn
<1>7. ThreadsOwn'
    BY <1>a, <1>d, <1>f, <1>1 DEF ThreadsOwn
<1> QED
    BY <1>3, <1>4, <1>5, <1>6, <1>7 DEF NiInv

LEMMA WakeStep ==
    ASSUME NiInv, NEW r \in 1..Len(asks), NEW timedOut \in BOOLEAN, Wake(r, timedOut)
    PROVE  NiInv'
<1> USE NiAssumption
<1> DEFINE s == SessionFor(asks[r])
           resp == IF timedOut THEN "NO_RESPONSE" ELSE ni.resp[s]
           took == IF resp = "IGNORE" THEN NONE ELSE ni.rawRequest[s]
           misled == IF s \in ni.late THEN ni.misled \cup {r} ELSE ni.misled
<1>a. NiTypeOK /\ SessionsHeld /\ IdsDiffer /\ QueueOwn /\ StoresOwn /\ ThreadsOwn
    BY DEF NiInv
<1>b. ni \in NiRecords /\ r \in Requests
    BY <1>a DEF NiTypeOK, Requests
<1>c. /\ thread[r] = "waiting" /\ (timedOut \/ ni.respRecvd[s])
      /\ thread' = [thread EXCEPT ![r] = resp]
      /\ user' = user /\ asks' = asks /\ answer' = answer
    BY DEF Wake
<1>d. ni.rawRequest[s] = r /\ s \in NiSessions
    BY <1>a, <1>b, <1>c DEF SessionsHeld, SessionFor, NiSessions
<1>e. EsAccepted' = EsAccepted
    BY <1>c DEF EsAccepted
<1>f. /\ resp \in Verdicts \cup {"IGNORE"}
      /\ s \in ni.late \/ timedOut \/ OwnResp(r, resp)
    BY <1>a, <1>b, <1>c, <1>d, NiFields DEF StoresOwn, Resps, Verdicts
<1>g. resp \in Resps /\ took \in {NONE, r} /\ misled \in SUBSET Requests /\ ni.misled \subseteq misled
    BY <1>b, <1>d, <1>f, NiFields DEF Resps
<1>h. /\ resp \in Verdicts => took = r /\ (r \in misled \/ resp \in {"NO_RESPONSE", user[r]})
      /\ resp = "IGNORE" => took = NONE /\ (r \in misled \/ EsAccepted)
  <2>1. user[r] # "IGNORE"
      BY <1>a, <1>b DEF NiTypeOK
  <2> QED
      BY <2>1, <1>d, <1>f DEF OwnResp, Verdicts
<1>i. misled \subseteq ni.misled \cup {r}
    OBVIOUS
<1>j. ni' = [ni EXCEPT !.resp[s] = resp, !.respRecvd[s] = FALSE, !.rawRequest[s] = NONE,
                       !.taken[r] = took, !.late = @ \ {s}, !.misled = misled]
    BY DEF Wake, TakeRequest
<1>s. s = SessionFor(asks[r])
    OBVIOUS
<1> HIDE DEF s, resp, took, misled
<1>1. /\ ni'.stores = ni.stores /\ ni'.reqIDCounter = ni.reqIDCounter
      /\ ni'.rawRequest = [ni.rawRequest EXCEPT ![s] = NONE]
      /\ ni'.reqID = ni.reqID /\ ni'.resp = [ni.resp EXCEPT ![s] = resp]
      /\ ni'.respRecvd = [ni.respRecvd EXCEPT ![s] = FALSE]
      /\ ni'.shown = ni.shown /\ ni'.taken = [ni.taken EXCEPT ![r] = took]
      /\ ni'.late = ni.late \ {s} /\ ni'.misled = misled /\ ni'.queue = ni.queue
    BY <1>b, <1>j DEF NiRecords
<1>2. ni' \in NiRecords
    BY <1>b, <1>d, <1>g, <1>j DEF NiRecords
<1>3. /\ thread' \in [Requests -> Resps \cup {"refused", "waiting", "ended", "dropped"}]
      /\ thread'[r] = resp /\ \A q \in Requests \ {r} : thread'[q] = thread[q]
    BY <1>a, <1>b, <1>c, <1>g DEF NiTypeOK
<1>4. /\ ni'.rawRequest[s] = NONE /\ ~ni'.respRecvd[s]
      /\ \A x \in NiSessions \ {s} : /\ ni'.rawRequest[x] = ni.rawRequest[x]
                                     /\ ni'.respRecvd[x] = ni.respRecvd[x] /\ ni'.resp[x] = ni.resp[x]
      /\ ni'.taken[r] = took /\ \A q \in Requests \ {r} : ni'.taken[q] = ni.taken[q]
    BY <1>b, <1>d, <1>1, NiFields
<1>5. NiTypeOK'
    BY <1>a, <1>c, <1>2, <1>3 DEF NiTypeOK
<1>6. SessionsHeld'
  <2>1. ASSUME NEW x \in NiSessions, ni'.rawRequest[x] # NONE, NEW q, q = ni'.rawRequest[x]
        PROVE  /\ q \in 1..Len(asks) /\ SessionFor(asks[q]) = x /\ thread'[q] = "waiting"
               /\ ni'.reqID[x] \in {0, ni'.shown[q]}
    <3>1. x # s /\ q = ni.rawRequest[x] /\ q \in Requests
        BY <2>1, <1>b, <1>4, NiFields
    <3>2. /\ q \in 1..Len(asks) /\ SessionFor(asks[q]) = x /\ thread[q] = "waiting"
          /\ ni.reqID[x] \in {0, ni.shown[q]}
        BY <3>1, <2>1, <1>a DEF SessionsHeld
    <3>3. q # r
        BY <3>1, <3>2, <1>s
    <3> QED
        BY <3>1, <3>2, <3>3, <1>1, <1>3
  <2>2. ASSUME NEW q \in Requests, thread'[q] = "waiting"
        PROVE  q \in 1..Len(asks) /\ ni'.rawRequest[SessionFor(asks[q])] = q
    <3>1. q # r
        BY <2>2, <1>3, <1>f DEF Verdicts
    <3>2. q \in 1..Len(asks) /\ ni.rawRequest[SessionFor(asks[q])] = q
        BY <3>1, <2>2, <1>a, <1>3 DEF SessionsHeld
    <3>3. SessionFor(asks[q]) \in NiSessions \ {s}
        BY <3>1, <3>2, <1>d DEF SessionFor, NiSessions
    <3> QED
        BY <3>2, <3>3, <1>4
  <2> QED
      BY <2>1, <2>2, <1>c DEF SessionsHeld
<1>7. IdsDiffer'
    BY <1>a, <1>1 DEF IdsDiffer
<1>8. QueueOwn'
  <2>1. \A n \in Messages : MsgOwn(n) => MsgOwn(n)'
    <3> SUFFICES ASSUME NEW n \in Messages, MsgOwn(n)
                 PROVE  MsgOwn(n)'
        OBVIOUS
    <3>1. n.kind \in {"Notify", "Inform"} => n.r \in Requests \ {r}
        BY <1>c, MessageKinds DEF MsgOwn
    <3> QED
        BY <3>1, <1>c, <1>g, <1>1, <1>3 DEF MsgOwn
  <2>2. \A i \in 1..Len(ni.queue) : ni.queue[i] \in Messages
      BY <1>b, NiFields
  <2> QED
      BY <2>1, <2>2, <1>a, <1>1 DEF QueueOwn, Repeats
<1>9. StoresOwn'
  <2>1. \A x \in Stores : StoreOwn(x) => StoreOwn(x)'
      BY <1>c, <1>e, <1>4 DEF StoreOwn, OwnResp, Stores
  <2>2. \A i \in 1..Len(ni.stores) : ni.stores[i] \in Stores
      BY <1>b, NiFields
  <2>3. \A i \in 1..Len(ni'.stores) : StoreOwn(ni.stores[i])'
      BY <2>1, <2>2, <1>a, <1>1 DEF StoresOwn
  <2>4. \A x \in NiSessions : ni'.respRecvd[x] =>
          /\ ni'.resp[x] # "none"
          /\ x \in ni'.late \/ (ni'.rawRequest[x] # NONE /\ OwnResp(ni'.rawRequest[x], ni'.resp[x]))
      BY <1>a, <1>1, <1>4 DEF StoresOwn
  <2> QED
      BY <2>3, <2>4, <1>c, <1>e DEF StoresOwn, OwnResp
<1>10. ThreadsOwn'
  <2>1. r \notin misled => r \notin ni.misled
      BY <1>g
  <2>2. \A q \in Requests \ {r} : q \in misled <=> q \in ni.misled
      BY <1>g, <1>i
  <2>3. answer[r] = << >> /\ (ni.shown[r] > 0 => r \in 1..Len(asks))
      BY <1>a, <1>b, <1>c DEF ThreadsOwn
  <2>4. \A k \in DOMAIN answer[r] : FALSE
      BY <2>3
  <2>5. ASSUME NEW q \in Requests
        PROVE  /\ thread'[q] \in Verdicts =>
                    ni'.taken[q] = q /\ (q \in misled \/ thread'[q] \in {"NO_RESPONSE", user[q]})
               /\ thread'[q] = "IGNORE" => ni'.taken[q] = NONE /\ (q \in misled \/ EsAccepted)
               /\ thread'[q] = "dropped" => q \in misled \/ EsAccepted
               /\ thread'[q] # "none" => q \in 1..Len(asks)
               /\ ni'.shown[q] > 0 => q \in 1..Len(asks)
               /\ answer[q] # << >> => thread'[q] = "ended" /\ Len(answer[q]) = 1
               /\ q \notin misled => \A k \in DOMAIN answer[q] : answer[q][k] \in {"NO_RESPONSE", user[q]}
    <3>1. CASE q = r
        BY <3>1, <2>3, <2>4, <1>f, <1>h, <1>3, <1>4 DEF Verdicts
    <3>2. CASE q # r
        BY <3>2, <2>2, <1>a, <1>1, <1>3, <1>4 DEF ThreadsOwn
    <3> QED
        BY <3>1, <3>2
  <2> QED
      BY <2>5, <1>c, <1>e, <1>1 DEF ThreadsOwn
<1> QED
    BY <1>5, <1>6, <1>7, <1>8, <1>9, <1>10 DEF NiInv

LEMMA ExitStep ==
    ASSUME NiInv, NEW r \in 1..Len(asks), ThreadExit(r)
    PROVE  NiInv'
<1> USE NiAssumption
<1> DEFINE s == SessionFor(asks[r])
           m == [kind |-> "Inform", r |-> ni.taken[r], resp |-> thread[r]]
           drop == ni.taken[r] = NONE
           queue == IF drop THEN ni.queue ELSE Append(ni.queue, m)
           end == IF drop THEN "dropped" ELSE "ended"
<1>a. NiTypeOK /\ SessionsHeld /\ IdsDiffer /\ QueueOwn /\ StoresOwn /\ ThreadsOwn
    BY DEF NiInv
<1>b. ni \in NiRecords /\ r \in Requests /\ s \in NiSessions
    BY <1>a DEF NiTypeOK, Requests, SessionFor, NiSessions
<1>c. /\ thread[r] \in Verdicts \cup {"IGNORE"} /\ thread' = [thread EXCEPT ![r] = end]
      /\ user' = user /\ asks' = asks /\ answer' = answer
    BY DEF ThreadExit, Verdicts
<1>d. ni' = [ni EXCEPT !.reqID[s] = 0, !.queue = queue]
    BY <1>b DEF ThreadExit, Enqueue, NiRecords
<1>e. EsAccepted' = EsAccepted
    BY <1>c DEF EsAccepted
<1>f. /\ drop => thread[r] = "IGNORE" /\ (r \in ni.misled \/ EsAccepted)
      /\ ~drop => /\ ni.taken[r] = r /\ thread[r] \in Verdicts
                  /\ r \in ni.misled \/ thread[r] \in {"NO_RESPONSE", user[r]}
  <2>1. r # NONE
      BY DEF NONE
  <2> QED
      BY <2>1, <1>a, <1>b, <1>c DEF ThreadsOwn
<1>g. answer[r] = << >>
    BY <1>a, <1>b, <1>c DEF ThreadsOwn, Verdicts
<1>h. ~drop => m \in Messages /\ m = [kind |-> "Inform", r |-> r, resp |-> thread[r]]
    BY <1>b, <1>f DEF Messages, InformMsgs
<1>i. queue \in Seq(Messages) /\ (drop => queue = ni.queue) /\ (~drop => queue = Append(ni.queue, m))
    BY <1>b, <1>h, NiFields, AppendOf
<1>j. end \in {"dropped", "ended"} /\ (drop <=> end = "dropped")
    OBVIOUS
<1> HIDE DEF s, m, drop, queue, end
<1>1. /\ ni'.stores = ni.stores /\ ni'.reqIDCounter = ni.reqIDCounter /\ ni'.rawRequest = ni.rawRequest
      /\ ni'.reqID = [ni.reqID EXCEPT ![s] = 0] /\ ni'.resp = ni.resp /\ ni'.respRecvd = ni.respRecvd
      /\ ni'.shown = ni.shown /\ ni'.taken = ni.taken /\ ni'.late = ni.late /\ ni'.misled = ni.misled
      /\ ni'.queue = queue
    BY <1>b, <1>d DEF NiRecords
<1>2. ni' \in NiRecords
    BY <1>b, <1>i, <1>d DEF NiRecords
<1>3. /\ thread' \in [Requests -> Resps \cup {"refused", "waiting", "ended", "dropped"}]
      /\ thread'[r] = end /\ \A q \in Requests \ {r} : thread'[q] = thread[q]
    BY <1>a, <1>b, <1>c, <1>j DEF NiTypeOK
<1>4. ni'.reqID[s] = 0 /\ \A x \in NiSessions \ {s} : ni'.reqID[x] = ni.reqID[x]
    BY <1>b, <1>1, NiFields
<1>5. NiTypeOK'
    BY <1>a, <1>c, <1>2, <1>3 DEF NiTypeOK
<1>6. SessionsHeld'
  <2>1. \A q \in Requests : thread'[q] = "waiting" <=> thread[q] = "waiting"
      BY <1>c, <1>j, <1>3 DEF Verdicts
  <2>2. \A x \in NiSessions : ni.rawRequest[x] # NONE => ni.rawRequest[x] \in Requests
      BY <1>b, NiFields
  <2>3. \A x \in NiSessions : ni'.reqID[x] \in {0, ni.reqID[x]}
      BY <1>4
  <2> QED
      BY <2>1, <2>2, <2>3, <1>a, <1>c, <1>1 DEF SessionsHeld
<1>7. IdsDiffer'
    BY <1>a, <1>1 DEF IdsDiffer
<1>8. \A n \in Messages : MsgOwn(n) => MsgOwn(n)' /\ (n.kind = "Inform" => n.r # r)
  <2> SUFFICES ASSUME NEW n \in Messages, MsgOwn(n)
               PROVE  MsgOwn(n)' /\ (n.kind = "Inform" => n.r # r)
      OBVIOUS
  <2>1. n.kind \in {"Notify", "Inform"} => n.r \in Requests \ {r}
      BY <1>c, MessageKinds DEF MsgOwn, Verdicts
  <2> QED
      BY <2>1, <1>c, <1>1, <1>3 DEF MsgOwn
<1>9. QueueOwn'
  <2>1. CASE drop
    <3>1. \A i \in 1..Len(ni.queue) : ni.queue[i] \in Messages
        BY <1>b, NiFields
    <3> QED
        BY <2>1, <3>1, <1>a, <1>i, <1>1, <1>8 DEF QueueOwn, Repeats
  <2>2. CASE ~drop
    <3>1. QueueGrown(m)
        BY <2>2, <1>b, <1>h, <1>i, <1>1, NiFields, AppendOf DEF QueueGrown
    <3>3. PICK n \in Messages : n = m /\ n.kind = "Inform" /\ n.r = r /\ n.resp = thread[r]
        BY <2>2, <1>h
    <3>4. MsgOwn(n)'
        BY <3>3, <2>2, <1>c, <1>f, <1>g, <1>j, <1>1, <1>3 DEF MsgOwn
    <3>5. \A k \in Messages : MsgOwn(k) => MsgOwn(k)' /\ ~Repeats(n, k)
        BY <3>3, <1>8 DEF Repeats
    <3>6. QueueGrown(n) /\ ni.queue \in Seq(Messages)
        BY <3>1, <3>3, <1>b, NiFields
    <3> QED
        BY <3>4, <3>5, <3>6, <1>a, GrownOwn
  <2> QED
      BY <2>1, <2>2
<1>10. StoresOwn'
    BY <1>a, <1>c, <1>e, <1>1 DEF StoresOwn, StoreOwn, OwnResp
<1>11. ThreadsOwn'
    BY <1>a, <1>c, <1>e, <1>f, <1>g, <1>j, <1>1, <1>3 DEF ThreadsOwn, Verdicts
<1> QED
    BY <1>5, <1>6, <1>7, <1>9, <1>10, <1>11 DEF NiInv

LEMMA AskStep ==
    ASSUME NiInv, NEW type \in {"normal", "es"}, NetworkAsks(type)
    PROVE  NiInv'
<1> USE NiAssumption
<1> DEFINE r == Len(asks) + 1
           m == [kind |-> "Notify", r |-> r]
<1>a. NiTypeOK /\ SessionsHeld /\ IdsDiffer /\ QueueOwn /\ StoresOwn /\ ThreadsOwn
    BY DEF NiInv
<1>b. ni \in NiRecords /\ asks \in Seq({"normal", "es"})
    BY <1>a DEF NiTypeOK
<1>c. /\ Len(asks) < NI_MAX /\ asks' = Append(asks, type)
      /\ user' = user /\ thread' = thread /\ answer' = answer
      /\ ni' = [ni EXCEPT !.queue = Append(@, m)]
    BY DEF NetworkAsks, Enqueue
<1>d. r \in Requests /\ r \notin 1..Len(asks)
    BY <1>b, <1>c DEF Requests
<1>e. /\ asks' \in Seq({"normal", "es"}) /\ Len(asks') = r /\ r \in 1..Len(asks')
      /\ \A q \in 1..Len(asks) : q \in 1..Len(asks') /\ asks'[q] = asks[q]
    BY <1>b, <1>c
<1>f. EsAccepted => EsAccepted'
    BY <1>c, <1>e DEF EsAccepted
<1>g. thread[r] = "none" /\ ni.shown[r] = 0
  <2>1. ni.shown[r] \in Nat
      BY <1>b, <1>d, NiFields
  <2> QED
      BY <2>1, <1>a, <1>d DEF ThreadsOwn
<1>h. m \in Messages /\ m.kind = "Notify" /\ m.r = r
    BY <1>d DEF Messages, NotifyMsgs
<1>i. Len(asks') <= NI_MAX
    BY <1>b, <1>c, <1>e
<1> HIDE DEF r, m
<1>1. /\ ni'.stores = ni.stores /\ ni'.reqIDCounter = ni.reqIDCounter /\ ni'.rawRequest = ni.rawRequest
      /\ ni'.reqID = ni.reqID /\ ni'.resp = ni.resp /\ ni'.respRecvd = ni.respRecvd
      /\ ni'.shown = ni.shown /\ ni'.taken = ni.taken /\ ni'.late = ni.late /\ ni'.misled = ni.misled
      /\ ni'.queue = Append(ni.queue, m)
    BY <1>b, <1>c DEF NiRecords
<1>2. QueueGrown(m)
    BY <1>b, <1>h, <1>1, NiFields, AppendOf DEF QueueGrown
<1>3. ni' \in NiRecords
    BY <1>b, <1>2, <1>c DEF NiRecords, QueueGrown
<1>4. NiTypeOK'
    BY <1>a, <1>c, <1>e, <1>i, <1>3 DEF NiTypeOK
<1>5. SessionsHeld'
    BY <1>a, <1>c, <1>e, <1>1 DEF SessionsHeld
<1>6. IdsDiffer'
    BY <1>a, <1>1 DEF IdsDiffer
<1>7. QueueOwn'
  <2>1. \A n \in Messages : MsgOwn(n) => MsgOwn(n)' /\ ~Repeats(m, n)
    <3> SUFFICES ASSUME NEW n \in Messages, MsgOwn(n)
                 PROVE  MsgOwn(n)' /\ ~Repeats(m, n)
        OBVIOUS
    <3>1. ~Repeats(m, n)
        BY <1>d, <1>h DEF Repeats, MsgOwn
    <3>2. n.kind = "Response" =>
            n.id > 0 /\ \E q \in 1..Len(asks') : ni.shown[q] = n.id /\ user[q] = n.resp
        BY <1>e DEF MsgOwn
    <3> QED
        BY <3>1, <3>2, <1>c, <1>e, <1>1 DEF MsgOwn
  <2>2. PICK n \in Messages : n = m /\ n.kind = "Notify" /\ n.r = r
      BY <1>h
  <2>3. MsgOwn(n)'
      BY <2>2, <1>c, <1>e, <1>g, <1>1 DEF MsgOwn
  <2> QED
      BY <2>1, <2>2, <2>3, <1>a, <1>b, <1>2, NiFields, GrownOwn
<1>8. StoresOwn'
  <2>1. \A q, resp : OwnResp(q, resp) => OwnResp(q, resp)'
      BY <1>c, <1>f DEF OwnResp
  <2> QED
      BY <2>1, <1>a, <1>1 DEF StoresOwn, StoreOwn
<1>9. ThreadsOwn'
    BY <1>a, <1>c, <1>e, <1>f, <1>1 DEF ThreadsOwn
<1> QED
    BY <1>4, <1>5, <1>6, <1>7, <1>8, <1>9 DEF NiInv

LEMMA RespondStep ==
    ASSUME NiInv, NEW r \in 1..Len(asks), gnssNiRespond(r)
    PROVE  NiInv'
<1> USE NiAssumption
<1>a. NiTypeOK /\ SessionsHeld /\ IdsDiffer /\ QueueOwn /\ StoresOwn /\ ThreadsOwn
    BY DEF NiInv
<1>b. ni \in NiRecords /\ r \in Requests
    BY <1>a DEF NiTypeOK, Requests
<1>c. PICK c \in UserChoices :
        /\ user' = [user EXCEPT ![r] = c]
        /\ ni' = locAPIGnssNiResponse(ni, ni.shown[r], c)
    BY DEF gnssNiRespond
<1> DEFINE m == [kind |-> "Response", id |-> ni.shown[r], resp |-> c]
<1>d. /\ ni.shown[r] > 0 /\ user[r] = "none" /\ thread' = thread /\ answer' = answer /\ asks' = asks
      /\ ni' = [ni EXCEPT !.queue = Append(@, m)]
    BY <1>c DEF gnssNiRespond, locAPIGnssNiResponse, Enqueue
<1>e. m \in Messages /\ m.kind = "Response" /\ m.id = ni.shown[r] /\ m.resp = c
    BY <1>b, NiFields DEF Messages, ResponseMsgs
<1>f. /\ user' \in [Requests -> UserChoices \cup {"none"}] /\ user'[r] = c /\ c \in Verdicts
      /\ \A q \in Requests \ {r} : user'[q] = user[q]
    BY <1>a, <1>b, <1>c DEF NiTypeOK, Verdicts
<1>g. \A q \in Requests : user[q] # "none" => user'[q] = user[q]
    BY <1>d, <1>f
<1>h. \A q \in 1..Len(asks) : q \in Requests
    BY <1>a DEF NiTypeOK, Requests
<1>i. EsAccepted => EsAccepted'
    BY <1>d, <1>g, <1>h DEF EsAccepted
<1> HIDE DEF m
<1>1. /\ ni'.stores = ni.stores /\ ni'.reqIDCounter = ni.reqIDCounter /\ ni'.rawRequest = ni.rawRequest
      /\ ni'.reqID = ni.reqID /\ ni'.resp = ni.resp /\ ni'.respRecvd = ni.respRecvd
      /\ ni'.shown = ni.shown /\ ni'.taken = ni.taken /\ ni'.late = ni.late /\ ni'.misled = ni.misled
      /\ ni'.queue = Append(ni.queue, m)
    BY <1>b, <1>d DEF NiRecords
<1>2. QueueGrown(m)
    BY <1>b, <1>e, <1>1, NiFields, AppendOf DEF QueueGrown
<1>3. ni' \in NiRecords
    BY <1>b, <1>2, <1>d DEF NiRecords, QueueGrown
<1>4. NiTypeOK'
    BY <1>a, <1>d, <1>f, <1>3 DEF NiTypeOK
<1>5. SessionsHeld' /\ IdsDiffer'
    BY <1>a, <1>d, <1>1 DEF SessionsHeld, IdsDiffer
<1>6. QueueOwn'
  <2>1. \A n \in Messages : MsgOwn(n) => MsgOwn(n)' /\ ~Repeats(m, n)
    <3> SUFFICES ASSUME NEW n \in Messages, MsgOwn(n)
                 PROVE  MsgOwn(n)' /\ ~Repeats(m, n)
        OBVIOUS
    <3>1. n.kind = "Response" =>
            n.id > 0 /\ \E q \in 1..Len(asks) : ni.shown[q] = n.id /\ user'[q] = n.resp
        BY <1>g, <1>h, MessageKinds DEF MsgOwn
    <3>2. n.kind = "Inform" => (n.r \notin ni.misled => n.resp \in {"NO_RESPONSE", user'[n.r]})
        BY <1>g, MessageKinds DEF MsgOwn, Verdicts
    <3> QED
        BY <3>1, <3>2, <1>d, <1>e, <1>1 DEF MsgOwn, Repeats
  <2>2. PICK n \in Messages : n = m /\ n.kind = "Response" /\ n.id = ni.shown[r] /\ n.resp = c
      BY <1>e
  <2>3. MsgOwn(n)'
      BY <2>2, <1>d, <1>f, <1>1 DEF MsgOwn
  <2> QED
      BY <2>1, <2>2, <2>3, <1>a, <1>b, <1>2, NiFields, GrownOwn
<1>7. StoresOwn'
  <2>1. \A q \in Requests : \A resp : OwnResp(q, resp) => OwnResp(q, resp)'
      BY <1>g, <1>i DEF OwnResp
  <2>2. \A x \in NiSessions : ni.rawRequest[x] # NONE => ni.rawRequest[x] \in Requests
      BY <1>b, NiFields
  <2>3. \A i \in 1..Len(ni.stores) : ni.stores[i].s \in NiSessions
    <3>1. \A i \in 1..Len(ni.stores) : ni.stores[i] \in Stores
        BY <1>b, NiFields
    <3> QED
        BY <3>1 DEF Stores
  <2> QED
      BY <2>1, <2>2, <2>3, <1>a, <1>1 DEF StoresOwn, StoreOwn
<1>8. ThreadsOwn'
  <2>1. \A q \in Requests : answer[q] \in Seq(Verdicts)
      BY <1>a DEF NiTypeOK
  <2>2. \A q \in Requests : \A k \in DOMAIN answer[q] :
          answer[q][k] \in {"NO_RESPONSE", user[q]} => answer[q][k] \in {"NO_RESPONSE", user'[q]}
    <3> SUFFICES ASSUME NEW q \in Requests, NEW k \in DOMAIN answer[q]
                 PROVE  answer[q][k] = user[q] => answer[q][k] = user'[q]
        OBVIOUS
    <3>1. answer[q][k] \in Verdicts
        BY <2>1
    <3> QED
        BY <3>1, <1>g DEF Verdicts
  <2>3. \A q \in Requests : thread[q] \in Verdicts /\ thread[q] = user[q] => thread[q] = user'[q]
      BY <1>g DEF Verdicts
  <2> QED
      BY <2>2, <2>3, <1>a, <1>d, <1>i, <1>1 DEF ThreadsOwn
<1> QED
    BY <1>4, <1>5, <1>6, <1>7, <1>8 DEF NiInv

LEMMA NiUnchanged ==
    ASSUME NiInv, UNCHANGED niVars
    PROVE  NiInv'
<1>1. ni' = ni /\ thread' = thread /\ user' = user /\ answer' = answer /\ asks' = asks
    BY DEF niVars
<1> QED
    BY <1>1 DEF NiInv, NiTypeOK, SessionsHeld, IdsDiffer, QueueOwn, MsgOwn, Repeats, StoresOwn,
                StoreOwn, OwnResp, ThreadsOwn, EsAccepted

THEOREM NiNextInv == NiInv /\ [NiNext]_niVars => NiInv'
<1> SUFFICES ASSUME NiInv, [NiNext]_niVars PROVE NiInv'
    OBVIOUS
<1>1. CASE NiHandler
    BY <1>1, NotifyStep, ResponseStep, StoreStep, InformStep DEF NiHandler
<1>2. ASSUME NEW r \in 1..Len(asks), Wake(r, TRUE) \/ Wake(r, FALSE) \/ ThreadExit(r) \/ gnssNiRespond(r)
      PROVE  NiInv'
  <2>1. CASE \E timedOut \in BOOLEAN : Wake(r, timedOut)
      BY <2>1, WakeStep
  <2>2. CASE ThreadExit(r)
      BY <2>2, ExitStep
  <2>3. CASE gnssNiRespond(r)
      BY <2>3, RespondStep
  <2> QED
      BY <1>2, <2>1, <2>2, <2>3
<1>3. ASSUME NEW type \in {"normal", "es"}, NetworkAsks(type)
      PROVE  NiInv'
    BY <1>3, AskStep
<1>4. CASE UNCHANGED niVars
    BY <1>4, NiUnchanged
<1> QED
    BY <1>1, <1>2, <1>3, <1>4 DEF NiNext

(* The inductive invariant of the network-initiated requests holds of the adapter      *)
(* whatever its load: a session is held exactly while its request's thread waits, ids  *)
(* are never reused, and every answer on its way belongs to the request it will reach. *)
THEOREM NiInvariant == Spec => []NiInv
<1>1. Init => NiInv
    BY NiInitInv DEF Init
<1>2. NiInv /\ [Next]_vars => NiInv'
  <2>1. [Next]_vars => [NiNext]_niVars
      BY DEF Next, Tracks, Controls, Notifies, Observes, vars
  <2> QED
      BY <2>1, NiNextInv
<1> QED
    BY <1>1, <1>2, PTL DEF Spec

(* NiAnswerOwn: the modem gets at most one answer to a request, the user's to that     *)
(* very request or the timeout's, however the adapter's task, the session threads, the *)
(* user and the network interleave between the locks of niThreadProc and               *)
(* gnssNiResponseCommand.                                                              *)
THEOREM NiAnswersAlwaysOwn == Spec => []NiAnswerOwn
<1>1. NiInv => NiAnswerOwn
  <2> SUFFICES ASSUME NiInv, NEW r \in Requests \ ni.misled
               PROVE  /\ Len(answer[r]) <= 1
                      /\ \A k \in DOMAIN answer[r] : answer[r][k] \in {"NO_RESPONSE", user[r]}
                      /\ thread[r] = "dropped" => EsAccepted
      BY DEF NiAnswerOwn, EsAccepted
  <2>1. answer[r] = << >> \/ Len(answer[r]) = 1
      BY DEF NiInv, ThreadsOwn
  <2>2. Len(answer[r]) <= 1
    <3>1. CASE answer[r] = << >>
      <4>1. Len(<< >>) = 0
          OBVIOUS
      <4> QED
          BY <3>1, <4>1
    <3>2. CASE Len(answer[r]) = 1
        BY <3>2
    <3> QED
        BY <2>1, <3>1, <3>2
  <2> QED
      BY <2>2 DEF NiInv, ThreadsOwn
<1> QED
    BY <1>1, NiInvariant, PTL

-----------------------------------------------------------------------------
(* Power and configuration *)

Configs == UNION {[D -> 0..2] : D \in SUBSET Items}
ControlMsgs ==
    [kind : {"Enable", "Disable"}, id : Nat] \cup [kind : {"Config"}, config : Configs]
    \cup [kind : {"SetConfig", "Capabilities"}]

ControlRecords ==
    [queue : Seq(ControlMsgs), conf : [Items -> Nat], mServerUrl : Nat, mPowerVoteId : Nat,
     mSessionIdCounter : Nat, api : BOOLEAN, mPendingConfig : Configs, mConfig : Configs,
     mEnabled : BOOLEAN, session : Nat, capabilities : Nat, refused : SUBSET Items]

\* A setting has a value of its range; the merged server's host is missing.
ConfigOK(config) ==
    \A i \in DOMAIN config : config[i] \in Values(i) \/ (i = "server" /\ config[i] = NOHOST)

MsgOK(m) == m.kind = "Config" => ConfigOK(m.config)

ControlTypeOK(t, w) ==
    /\ t \in ControlRecords /\ ConfigOK(t.mPendingConfig)
    /\ \A k \in 1..Len(t.queue) : MsgOK(t.queue[k])
    /\ w \in Configs /\ \A i \in DOMAIN w : w[i] \in Values(i)

ModemTypeOK == modem \in [up : BOOLEAN, told : [Items -> Nat]]

\* The votes as the queue is worked off: enables and disables alternate, a disable is of
\* the session that holds the vote, and the last leaves the vote the client wants.
Votes(t, v) ==
    /\ v[0] = t.mPowerVoteId
    /\ \A k \in 1..Len(t.queue) :
         LET m == t.queue[k] IN
         /\ m.kind = "Enable" => v[k - 1] = 0 /\ v[k] = m.id /\ m.id > 0
         /\ m.kind = "Disable" => v[k - 1] = m.id /\ v[k] = 0
         /\ m.kind \notin {"Enable", "Disable"} => v[k] = v[k - 1]
    /\ v[Len(t.queue)] = IF t.mEnabled THEN t.session ELSE 0

PowerQueued(t) ==
    /\ t.mEnabled => t.session > 0
    /\ t.session <= t.mSessionIdCounter
    /\ \E v \in [0..Len(t.queue) -> 0..t.mSessionIdCounter] : Votes(t, v)

\* A message sets the item; a host that is missing is passed over.
SetsItem(config, i) == i \in DOMAIN config /\ (i = "server" => config[i] # NOHOST)
Sets(m, i) == m.kind = "Config" /\ SetsItem(m.config, i)

\* The copy of gps.conf will hold x once the queue is empty.
Settles(t, i, x) ==
    \/ t.conf[i] = x /\ \A k \in 1..Len(t.queue) : ~Sets(t.queue[k], i)
    \/ \E k \in 1..Len(t.queue) :
         /\ Sets(t.queue[k], i) /\ toConf(i, t.queue[k].config[i]) = x
         /\ \A j \in 1..Len(t.queue) : j > k => ~Sets(t.queue[j], i)

\* Without the modem's configuration these are not kept at all.
IsKept(i) == AGPS_CONFIG_INJECT \/ i \notin Injected \cup {"server"}
Goal(w, i) == IF i \in DOMAIN w THEN toConf(i, w[i]) ELSE GPS_CONF[i]

\* What is still to be done leads to what the framework set last: by the queue once there
\* is a client, by the waiting settings before.
SettingsQueued(t, w) ==
    IF t.api
    THEN /\ \A i \in Items : IsKept(i) => Settles(t, i, Goal(w, i))
         /\ \A i \in DOMAIN t.mConfig : SetsItem(t.mConfig, i) => i \in DOMAIN w /\ w[i] = t.mConfig[i]
    ELSE /\ t.conf = GPS_CONF /\ t.mConfig = << >> /\ ~t.mEnabled
         /\ \A k \in 1..Len(t.queue) : t.queue[k].kind # "Config"
         /\ \A i \in DOMAIN t.mPendingConfig :
              IF i = "server" THEN t.mPendingConfig[i] = NOHOST
              ELSE i \in DOMAIN w /\ w[i] = t.mPendingConfig[i]
         /\ \A i \in DOMAIN w : i # "server" /\ i \in DOMAIN t.mPendingConfig

Pending(t, kind) == \E k \in 1..Len(t.queue) : t.queue[k].kind = kind

\* What the modem and the client were told follows the copy and the vote, but for what
\* the modem refused and what is about to be sent.
LockTold(t) ==
    "gpsLock" \notin t.refused /\ modem.told["gpsLock"] # UNKNOWN =>
        modem.told["gpsLock"] = IF t.mPowerVoteId > 0 THEN LOCK_NONE ELSE t.conf["gpsLock"]

SettingsTold(t) ==
    AGPS_CONFIG_INJECT /\ modem.up /\ ~Pending(t, "SetConfig") =>
        \A i \in (Injected \cup Protocols) \ t.refused : modem.told[i] = fromConf(i, t.conf[i])

ServerTold(t) ==
    /\ t.mServerUrl = t.conf["server"]
    /\ "server" \notin t.refused => modem.told["server"] \in {t.conf["server"], UNKNOWN}

ClientTold(t) ==
    t.api /\ ~Pending(t, "Capabilities") => t.capabilities = t.conf["suplMode"]

CoreInv(t, w) ==
    /\ ControlTypeOK(t, w) /\ PowerQueued(t)
    /\ LockTold(t) /\ SettingsTold(t) /\ ServerTold(t) /\ ClientTold(t)

CtlInv(t, w) == CoreInv(t, w) /\ SettingsQueued(t, w)

ControlInv == ModemTypeOK /\ CtlInv(ctl, want)

-----------------------------------------------------------------------------
LEMMA ConfigFacts ==
    /\ << >> \in Configs /\ DOMAIN << >> = {}
    /\ \A f \in Configs : /\ DOMAIN f \subseteq Items /\ \A i \in DOMAIN f : f[i] \in 0..2
                          /\ f = [i \in DOMAIN f |-> f[i]]
    /\ \A D \in SUBSET Items : \A f \in [D -> 0..2] : f \in Configs /\ DOMAIN f = D
<1>1. << >> \in [{} -> 0..2] /\ DOMAIN << >> = {}
    OBVIOUS
<1> QED
    BY <1>1 DEF Configs

LEMMA ControlFields ==
    ASSUME NEW t \in ControlRecords
    PROVE  /\ t.queue \in Seq(ControlMsgs) /\ t.conf \in [Items -> Nat] /\ t.mServerUrl \in Nat
           /\ t.mPowerVoteId \in Nat /\ t.mSessionIdCounter \in Nat /\ t.api \in BOOLEAN
           /\ t.mPendingConfig \in Configs /\ t.mConfig \in Configs /\ t.mEnabled \in BOOLEAN
           /\ t.session \in Nat /\ t.capabilities \in Nat /\ t.refused \in SUBSET Items
BY DEF ControlRecords

LEMMA ControlKinds ==
    ASSUME NEW m \in ControlMsgs
    PROVE  /\ m.kind \in {"Enable", "Disable"} => m.id \in Nat
           /\ m.kind = "Config" => m.config \in Configs
           /\ m.kind \in {"Enable", "Disable", "Config", "SetConfig", "Capabilities"}
BY DEF ControlMsgs

LEMMA ItemFacts ==
    /\ {"gpsLock", "server", "suplMode"} \subseteq Items
    /\ Injected \subseteq Items /\ Protocols \subseteq Items
    /\ \A i \in Items : /\ GPS_CONF[i] \in Nat
                        /\ \A x \in Values(i) : x \in 0..2 /\ toConf(i, x) \in Nat
                                                /\ fromConf(i, toConf(i, x)) = x
    /\ \A i \in {"gpsLock", "server", "suplMode"} :
         GPS_CONF[i] = 0 /\ \A x : toConf(i, x) = x /\ fromConf(i, x) = x
    /\ NOHOST \notin Values("server")
BY DEF Items, GPS_CONF, Values, toConf, fromConf, NOHOST

(* The queue is worked off by one message, or grows by one.                          *)
LEMMA PowerShrunk ==
    ASSUME NEW t \in ControlRecords, NEW u \in ControlRecords, t.queue # << >>, PowerQueued(t),
           u.queue = Tail(t.queue), u.mEnabled = t.mEnabled, u.session = t.session,
           u.mSessionIdCounter = t.mSessionIdCounter,
           t.queue[1].kind = "Enable" /\ t.mPowerVoteId = 0 => u.mPowerVoteId = t.queue[1].id,
           t.queue[1].kind = "Disable" /\ t.mPowerVoteId = t.queue[1].id => u.mPowerVoteId = 0,
           t.queue[1].kind \notin {"Enable", "Disable"} => u.mPowerVoteId = t.mPowerVoteId
    PROVE  PowerQueued(u)
<1> DEFINE n == Len(t.queue)
           c == t.mSessionIdCounter
<1>1. PICK v \in [0..n -> 0..c] : Votes(t, v)
    BY DEF PowerQueued
<1>2. /\ n \in Nat \ {0} /\ Len(u.queue) = n - 1
      /\ \A k \in 1..Len(u.queue) : k + 1 \in 1..n /\ u.queue[k] = t.queue[k + 1]
    BY ControlFields, TailOf
<1> DEFINE w == [k \in 0..Len(u.queue) |-> v[k + 1]]
<1>3. w \in [0..Len(u.queue) -> 0..c]
    BY <1>2
<1>4. v[1] = u.mPowerVoteId
  <2>1. 1 \in 1..n /\ v[1 - 1] = t.mPowerVoteId
      BY <1>1, <1>2 DEF Votes
  <2> QED
      BY <2>1, <1>1 DEF Votes
<1>5. w[0] = u.mPowerVoteId
    BY <1>2, <1>4
<1>6. ASSUME NEW k \in 1..Len(u.queue)
      PROVE  LET m == u.queue[k] IN
             /\ m.kind = "Enable" => w[k - 1] = 0 /\ w[k] = m.id /\ m.id > 0
             /\ m.kind = "Disable" => w[k - 1] = m.id /\ w[k] = 0
             /\ m.kind \notin {"Enable", "Disable"} => w[k] = w[k - 1]
  <2>1. k + 1 \in 1..n /\ u.queue[k] = t.queue[k + 1] /\ w[k] = v[k + 1] /\ w[k - 1] = v[k]
      BY <1>2
  <2>2. v[(k + 1) - 1] = v[k]
      OBVIOUS
  <2> QED
      BY <2>1, <2>2, <1>1 DEF Votes
<1>7. w[Len(u.queue)] = v[n]
    BY <1>2
<1>8. Votes(u, w)
    BY <1>1, <1>5, <1>6, <1>7 DEF Votes
<1> QED
    BY <1>3, <1>8 DEF PowerQueued

LEMMA PowerGrown ==
    ASSUME NEW t \in ControlRecords, NEW u \in ControlRecords, NEW m \in ControlMsgs, PowerQueued(t),
           u.queue = Append(t.queue, m), u.mPowerVoteId = t.mPowerVoteId,
           u.mSessionIdCounter >= t.mSessionIdCounter, u.session <= u.mSessionIdCounter,
           m.kind = "Enable" => ~t.mEnabled /\ u.mEnabled /\ u.session = m.id /\ m.id > 0,
           m.kind = "Disable" => t.mEnabled /\ ~u.mEnabled /\ m.id = t.session,
           m.kind \notin {"Enable", "Disable"} => u.mEnabled = t.mEnabled /\ u.session = t.session
    PROVE  PowerQueued(u)
<1> DEFINE n == Len(t.queue)
           c == u.mSessionIdCounter
           last == IF u.mEnabled THEN u.session ELSE 0
<1>1. PICK v \in [0..n -> 0..t.mSessionIdCounter] : Votes(t, v)
    BY DEF PowerQueued
<1>2. /\ n \in Nat /\ Len(u.queue) = n + 1 /\ u.queue[n + 1] = m
      /\ \A k \in 1..n : u.queue[k] = t.queue[k]
    BY ControlFields, AppendOf
<1>3. /\ t.mSessionIdCounter \in Nat /\ c \in Nat /\ u.session \in Nat /\ last \in 0..c
      /\ t.mEnabled => t.session > 0
    BY ControlFields DEF PowerQueued
<1> DEFINE w == [k \in 0..(n + 1) |-> IF k = n + 1 THEN last ELSE v[k]]
<1>4. w \in [0..(n + 1) -> 0..c]
  <2>1. \A k \in 0..n : v[k] \in 0..c
      BY <1>1, <1>3
  <2>2. \A k \in 0..(n + 1) : k = n + 1 \/ k \in 0..n
      BY <1>2
  <2> HIDE DEF last
  <2> QED
      BY <2>1, <2>2, <1>2, <1>3
<1>5. w[0] = v[0] /\ w[n + 1] = last /\ w[n] = v[n]
    BY <1>2
<1>6. v[0] = t.mPowerVoteId /\ v[n] = IF t.mEnabled THEN t.session ELSE 0
    BY <1>1 DEF Votes
<1>7. ASSUME NEW k \in 1..n
      PROVE  LET x == u.queue[k] IN
             /\ x.kind = "Enable" => w[k - 1] = 0 /\ w[k] = x.id /\ x.id > 0
             /\ x.kind = "Disable" => w[k - 1] = x.id /\ w[k] = 0
             /\ x.kind \notin {"Enable", "Disable"} => w[k] = w[k - 1]
  <2>1. u.queue[k] = t.queue[k] /\ w[k] = v[k] /\ w[k - 1] = v[k - 1]
      BY <1>2
  <2> QED
      BY <2>1, <1>1 DEF Votes
<1>8. /\ m.kind = "Enable" => v[n] = 0 /\ last = m.id /\ m.id > 0
      /\ m.kind = "Disable" => v[n] = m.id /\ last = 0
      /\ m.kind \notin {"Enable", "Disable"} => last = v[n]
    BY <1>6
<1>9. Votes(u, w)
  <2>1. \A k \in 1..(n + 1) : k \in 1..n \/ k = n + 1
      BY <1>2
  <2>2. (n + 1) - 1 = n
      BY <1>2
  <2> HIDE DEF w, last
  <2>3. w[Len(u.queue)] = IF u.mEnabled THEN u.session ELSE 0
      BY <1>2, <1>5 DEF last
  <2> QED
      BY <2>1, <2>2, <2>3, <1>2, <1>5, <1>6, <1>7, <1>8 DEF Votes
<1>10. u.mEnabled => u.session > 0
  <2>1. m.kind \in {"Enable", "Disable"} \/ m.kind \notin {"Enable", "Disable"}
      OBVIOUS
  <2> QED
      BY <2>1, <1>3
<1> QED
    BY <1>2, <1>4, <1>9, <1>10 DEF PowerQueued

LEMMA SettlesShrunk ==
    ASSUME NEW t \in ControlRecords, NEW u \in ControlRecords, t.queue # << >>,
           u.queue = Tail(t.queue), NEW i, NEW x, Settles(t, i, x),
           Sets(t.queue[1], i) => u.conf[i] = toConf(i, t.queue[1].config[i]),
           ~Sets(t.queue[1], i) => u.conf[i] = t.conf[i]
    PROVE  Settles(u, i, x)
<1> DEFINE n == Len(t.queue)
<1>2. /\ n \in Nat \ {0} /\ Len(u.queue) = n - 1
      /\ \A k \in 1..Len(u.queue) : k + 1 \in 1..n /\ u.queue[k] = t.queue[k + 1]
    BY ControlFields, TailOf
<1>3. CASE t.conf[i] = x /\ \A k \in 1..n : ~Sets(t.queue[k], i)
    BY <1>2, <1>3 DEF Settles
<1>4. CASE \E k \in 1..n : /\ Sets(t.queue[k], i) /\ toConf(i, t.queue[k].config[i]) = x
                           /\ \A j \in 1..n : j > k => ~Sets(t.queue[j], i)
  <2>1. PICK k \in 1..n : /\ Sets(t.queue[k], i) /\ toConf(i, t.queue[k].config[i]) = x
                          /\ \A j \in 1..n : j > k => ~Sets(t.queue[j], i)
      BY <1>4
  <2>2. CASE k = 1
    <3>1. \A j \in 1..Len(u.queue) : ~Sets(u.queue[j], i)
        BY <2>1, <2>2, <1>2
    <3> QED
        BY <3>1, <2>1, <2>2 DEF Settles
  <2>3. CASE k # 1
    <3>1. k - 1 \in 1..Len(u.queue) /\ u.queue[k - 1] = t.queue[k]
        BY <2>1, <2>3, <1>2
    <3>2. \A j \in 1..Len(u.queue) : j > k - 1 => ~Sets(u.queue[j], i)
        BY <2>1, <1>2
    <3> QED
        BY <3>1, <3>2, <2>1 DEF Settles
  <2> QED
      BY <2>2, <2>3
<1> QED
    BY <1>3, <1>4 DEF Settles

LEMMA SettlesGrown ==
    ASSUME NEW t \in ControlRecords, NEW u \in ControlRecords, NEW m \in ControlMsgs,
           u.queue = Append(t.queue, m), u.conf = t.conf, NEW i, NEW x, NEW y,
           ~Sets(m, i) => Settles(t, i, x) /\ y = x, Sets(m, i) => y = toConf(i, m.config[i])
    PROVE  Settles(u, i, y)
<1> DEFINE n == Len(t.queue)
<1>1. /\ n \in Nat /\ Len(u.queue) = n + 1 /\ u.queue[n + 1] = m
      /\ \A k \in 1..n : k \in 1..(n + 1) /\ u.queue[k] = t.queue[k]
      /\ \A k \in 1..(n + 1) : k \in 1..n \/ k = n + 1
    BY ControlFields, AppendOf
<1>2. CASE Sets(m, i)
    BY <1>1, <1>2 DEF Settles
<1>3. CASE ~Sets(m, i)
    BY <1>1, <1>3 DEF Settles
<1> QED
    BY <1>2, <1>3

(* A message is posted, of which only an enable or a disable changes what the client   *)
(* wants, and a client is created only with a question for the capabilities.           *)
Posted(t, u, m) ==
    /\ t \in ControlRecords /\ u \in ControlRecords /\ m \in ControlMsgs /\ MsgOK(m)
    /\ u.queue = Append(t.queue, m) /\ u.conf = t.conf /\ u.mServerUrl = t.mServerUrl
    /\ u.mPowerVoteId = t.mPowerVoteId /\ u.capabilities = t.capabilities /\ u.refused = t.refused
    /\ u.mPendingConfig = t.mPendingConfig
    /\ (u.api = t.api) \/ m.kind = "Capabilities"
    /\ u.mSessionIdCounter >= t.mSessionIdCounter /\ u.session <= u.mSessionIdCounter
    /\ m.kind = "Enable" => ~t.mEnabled /\ u.mEnabled /\ u.session = m.id /\ m.id > 0
    /\ m.kind = "Disable" => t.mEnabled /\ ~u.mEnabled /\ m.id = t.session
    /\ m.kind \notin {"Enable", "Disable"} => u.mEnabled = t.mEnabled /\ u.session = t.session

LEMMA CorePosted ==
    ASSUME NEW t, NEW u, NEW m, NEW w, CoreInv(t, w), Posted(t, u, m)
    PROVE  CoreInv(u, w)
<1>1. /\ \A k \in 1..Len(t.queue) : k \in 1..Len(u.queue) /\ u.queue[k] = t.queue[k]
      /\ \A k \in 1..Len(u.queue) : k \in 1..Len(t.queue) \/ u.queue[k] = m
      /\ \E k \in 1..Len(u.queue) : u.queue[k] = m
  <2>1. t.queue \in Seq(ControlMsgs) /\ m \in ControlMsgs /\ u.queue = Append(t.queue, m)
      BY ControlFields DEF Posted
  <2> HIDE DEF Posted
  <2> QED
      BY <2>1
<1>2. ControlTypeOK(u, w)
    BY <1>1 DEF CoreInv, ControlTypeOK, Posted
<1>3. PowerQueued(u)
    BY PowerGrown DEF CoreInv, Posted
<1>4. \A kind : Pending(t, kind) => Pending(u, kind)
    BY <1>1 DEF Pending
<1>5. Pending(u, m.kind)
    BY <1>1 DEF Pending
<1>6. LockTold(u) /\ ServerTold(u)
    BY DEF CoreInv, LockTold, ServerTold, Posted
<1>7. SettingsTold(u)
    BY <1>4 DEF CoreInv, SettingsTold, Posted
<1>8. ClientTold(u)
    BY <1>4, <1>5 DEF CoreInv, ClientTold, Posted
<1> QED
    BY <1>2, <1>3, <1>6, <1>7, <1>8 DEF CoreInv

LEMMA EnableInv ==
    ASSUME NEW t, NEW w, CtlInv(t, w), t.api
    PROVE  CtlInv(locAPIEnable(t), w)
<1> DEFINE id == t.mSessionIdCounter + 1
           m == [kind |-> "Enable", id |-> id]
           u == locAPIEnable(t)
<1>a. t \in ControlRecords /\ CoreInv(t, w) /\ PowerQueued(t)
    BY DEF CtlInv, CoreInv, ControlTypeOK
<1>1. CASE t.mEnabled
    BY <1>1 DEF locAPIEnable
<1>2. CASE ~t.mEnabled
  <2>1. id \in Nat /\ id > 0 /\ id >= t.mSessionIdCounter /\ m \in ControlMsgs /\ MsgOK(m) /\ m.kind = "Enable" /\ m.id = id
      BY <1>a, ControlFields DEF ControlMsgs, MsgOK
  <2>2. u = [t EXCEPT !.session = id, !.mEnabled = TRUE, !.mSessionIdCounter = id, !.queue = Append(@, m)]
      BY <1>2, <1>a DEF locAPIEnable, apiEnable, Post, ControlRecords
  <2> HIDE DEF id, m, u
  <2>3. /\ u.queue = Append(t.queue, m) /\ u.conf = t.conf /\ u.mServerUrl = t.mServerUrl
        /\ u.mPowerVoteId = t.mPowerVoteId /\ u.capabilities = t.capabilities /\ u.refused = t.refused
        /\ u.mPendingConfig = t.mPendingConfig /\ u.mConfig = t.mConfig /\ u.api = t.api
        /\ u.mSessionIdCounter = id /\ u.session = id /\ u.mEnabled = TRUE
      BY <2>2, <1>a DEF ControlRecords
  <2>4. Append(t.queue, m) \in Seq(ControlMsgs)
      BY <2>1, <1>a, ControlFields
  <2>5. u \in ControlRecords
      BY <2>1, <2>2, <2>4, <1>a DEF ControlRecords
  <2>6. Posted(t, u, m)
      BY <1>2, <1>a, <2>1, <2>3, <2>5, ControlFields DEF Posted
  <2>7. CoreInv(u, w)
      BY <1>a, <2>6, CorePosted
  <2>8. \A i : ~Sets(m, i)
      BY <2>1 DEF Sets
  <2>9. \A i \in Items : IsKept(i) => Settles(u, i, Goal(w, i))
      BY <2>1, <2>3, <2>5, <2>8, <1>a, SettlesGrown DEF CtlInv, SettingsQueued
  <2> QED
      BY <2>3, <2>7, <2>9 DEF CtlInv, SettingsQueued, u
<1> QED
    BY <1>1, <1>2

LEMMA DisableInv ==
    ASSUME NEW t, NEW w, CtlInv(t, w), t.mEnabled
    PROVE  CtlInv(locAPIDisable(t), w)
<1> DEFINE m == [kind |-> "Disable", id |-> t.session]
           u == locAPIDisable(t)
<1>a. t \in ControlRecords /\ CoreInv(t, w) /\ PowerQueued(t)
    BY DEF CtlInv, CoreInv, ControlTypeOK
<1>b. t.api
    BY DEF CtlInv, SettingsQueued
<1>1. m \in ControlMsgs /\ MsgOK(m) /\ m.kind = "Disable" /\ m.id = t.session
    BY <1>a, ControlFields DEF ControlMsgs, MsgOK
<1>2. u = [t EXCEPT !.mEnabled = FALSE, !.queue = Append(@, m)]
    BY <1>a DEF locAPIDisable, apiDisable, Post, ControlRecords
<1> HIDE DEF m, u
<1>3. /\ u.queue = Append(t.queue, m) /\ u.conf = t.conf /\ u.mServerUrl = t.mServerUrl
      /\ u.mPowerVoteId = t.mPowerVoteId /\ u.capabilities = t.capabilities /\ u.refused = t.refused
      /\ u.mPendingConfig = t.mPendingConfig /\ u.mConfig = t.mConfig /\ u.api = t.api
      /\ u.mSessionIdCounter = t.mSessionIdCounter /\ u.session = t.session /\ u.mEnabled = FALSE
    BY <1>2, <1>a DEF ControlRecords
<1>4. Append(t.queue, m) \in Seq(ControlMsgs)
    BY <1>1, <1>a, ControlFields
<1>5. u \in ControlRecords
    BY <1>1, <1>2, <1>4, <1>a DEF ControlRecords
<1>6. Posted(t, u, m)
  <2>1. t.mSessionIdCounter >= t.mSessionIdCounter /\ t.session <= t.mSessionIdCounter
      BY <1>a, ControlFields DEF PowerQueued
  <2> QED
      BY <2>1, <1>a, <1>1, <1>3, <1>5 DEF Posted
<1>7. CoreInv(u, w)
    BY <1>a, <1>6, CorePosted
<1>8. \A i : ~Sets(m, i)
    BY <1>1 DEF Sets
<1>9. \A i \in Items : IsKept(i) => Settles(u, i, Goal(w, i))
    BY <1>1, <1>3, <1>5, <1>8, <1>a, <1>b, SettlesGrown DEF CtlInv, SettingsQueued
<1> QED
    BY <1>3, <1>7, <1>9, <1>b DEF CtlInv, SettingsQueued, u

LEMMA ConfigPostInv ==
    ASSUME NEW t, NEW w, NEW w2, CoreInv(t, w), t.api, NEW config \in Configs, ConfigOK(config),
           w2 \in Configs, \A i \in DOMAIN w2 : w2[i] \in Values(i),
           \A i \in Items : IsKept(i) /\ SetsItem(config, i) => Goal(w2, i) = toConf(i, config[i]),
           \A i \in Items : IsKept(i) /\ ~SetsItem(config, i) => Settles(t, i, Goal(w2, i)),
           \A i \in DOMAIN config : SetsItem(config, i) => i \in DOMAIN w2 /\ w2[i] = config[i]
    PROVE  CtlInv(apiGnssUpdateConfig([t EXCEPT !.mConfig = config], config), w2)
<1> DEFINE m == [kind |-> "Config", config |-> config]
           u == apiGnssUpdateConfig([t EXCEPT !.mConfig = config], config)
<1>a. t \in ControlRecords /\ PowerQueued(t)
    BY DEF CoreInv, ControlTypeOK
<1>1. m \in ControlMsgs /\ MsgOK(m) /\ m.kind = "Config" /\ m.config = config
    BY <1>a, ControlFields DEF ControlMsgs, MsgOK
<1>2. u = [t EXCEPT !.mConfig = config, !.queue = Append(@, m)]
    BY <1>a DEF apiGnssUpdateConfig, Post, ControlRecords
<1> HIDE DEF m, u
<1>3. /\ u.queue = Append(t.queue, m) /\ u.conf = t.conf /\ u.mServerUrl = t.mServerUrl
      /\ u.mPowerVoteId = t.mPowerVoteId /\ u.capabilities = t.capabilities /\ u.refused = t.refused
      /\ u.mPendingConfig = t.mPendingConfig /\ u.mConfig = config /\ u.api = t.api
      /\ u.mSessionIdCounter = t.mSessionIdCounter /\ u.session = t.session /\ u.mEnabled = t.mEnabled
    BY <1>2, <1>a DEF ControlRecords
<1>4. Append(t.queue, m) \in Seq(ControlMsgs)
    BY <1>1, <1>a, ControlFields
<1>5. u \in ControlRecords
    BY <1>1, <1>2, <1>4, <1>a DEF ControlRecords
<1>6. Posted(t, u, m)
  <2>1. t.mSessionIdCounter >= t.mSessionIdCounter /\ t.session <= t.mSessionIdCounter
      BY <1>a, ControlFields DEF PowerQueued
  <2> QED
      BY <2>1, <1>a, <1>1, <1>3, <1>5 DEF Posted
<1>7. CoreInv(u, w2)
    BY <1>a, <1>6, CorePosted DEF CoreInv, ControlTypeOK
<1>8. \A i : Sets(m, i) <=> SetsItem(config, i)
    BY <1>1 DEF Sets
<1>9. \A i \in Items : IsKept(i) => Settles(u, i, Goal(w2, i))
    BY <1>1, <1>3, <1>5, <1>8, <1>a, SettlesGrown
<1> QED
    BY <1>3, <1>7, <1>9 DEF CtlInv, SettingsQueued, u

LEMMA GetApiInv ==
    ASSUME NEW t, NEW w, CtlInv(t, w)
    PROVE  CtlInv(getApi(t), w) /\ getApi(t).api
<1> DEFINE m == [kind |-> "Capabilities"]
           u == Post([t EXCEPT !.api = TRUE], m)
           config == t.mPendingConfig
<1>a. t \in ControlRecords /\ PowerQueued(t) /\ CoreInv(t, w)
    BY DEF CtlInv, CoreInv, ControlTypeOK
<1>1. CASE t.api
    BY <1>1 DEF getApi
<1>2. CASE ~t.api
  <2>a. /\ t.conf = GPS_CONF /\ t.mConfig = << >>
        /\ \A k \in 1..Len(t.queue) : t.queue[k].kind # "Config"
        /\ \A i \in DOMAIN config :
             IF i = "server" THEN config[i] = NOHOST ELSE i \in DOMAIN w /\ w[i] = config[i]
        /\ \A i \in DOMAIN w : i # "server" /\ i \in DOMAIN config
      BY <1>2 DEF CtlInv, SettingsQueued
  <2>1. m \in ControlMsgs /\ MsgOK(m) /\ m.kind = "Capabilities"
      BY DEF ControlMsgs, MsgOK
  <2>2. u = [t EXCEPT !.api = TRUE, !.queue = Append(@, m)]
      BY <1>a DEF Post, ControlRecords
  <2>b. getApi(t) = locAPIGnssUpdateConfig(u, config)
      BY <1>2 DEF getApi
  <2> HIDE DEF m, u, config
  <2>3. /\ u.queue = Append(t.queue, m) /\ u.conf = t.conf /\ u.mServerUrl = t.mServerUrl
        /\ u.mPowerVoteId = t.mPowerVoteId /\ u.capabilities = t.capabilities /\ u.refused = t.refused
        /\ u.mPendingConfig = t.mPendingConfig /\ u.mConfig = t.mConfig /\ u.api = TRUE
        /\ u.mSessionIdCounter = t.mSessionIdCounter /\ u.session = t.session /\ u.mEnabled = t.mEnabled
      BY <2>2, <1>a DEF ControlRecords
  <2>4. Append(t.queue, m) \in Seq(ControlMsgs)
      BY <2>1, <1>a, ControlFields
  <2>5. u \in ControlRecords
      BY <2>1, <2>2, <2>4, <1>a DEF ControlRecords
  <2>6. Posted(t, u, m)
    <3>1. t.mSessionIdCounter >= t.mSessionIdCounter /\ t.session <= t.mSessionIdCounter
        BY <1>a, ControlFields DEF PowerQueued
    <3> QED
        BY <3>1, <1>a, <2>1, <2>3, <2>5 DEF Posted
  <2>7. CoreInv(u, w) /\ u.api
      BY <1>a, <2>3, <2>6, CorePosted
  <2>8. \A i : ~Sets(m, i)
      BY <2>1 DEF Sets
  <2>9. \A i \in Items : Settles(u, i, GPS_CONF[i])
    <3>1. \A i \in Items : Settles(t, i, GPS_CONF[i])
        BY <2>a DEF Settles, Sets
    <3> QED
        BY <3>1, <2>1, <2>3, <2>5, <2>8, <1>a, SettlesGrown
  <2>10. /\ config \in Configs /\ ConfigOK(config) /\ w \in Configs
         /\ \A i \in DOMAIN w : w[i] \in Values(i)
      BY <1>a, ControlFields DEF CoreInv, ControlTypeOK, config
  <2>11. /\ \A i \in Items : SetsItem(config, i) => Goal(w, i) = toConf(i, config[i])
         /\ \A i \in Items : ~SetsItem(config, i) => Goal(w, i) = GPS_CONF[i]
         /\ \A i \in DOMAIN config : SetsItem(config, i) => i \in DOMAIN w /\ w[i] = config[i]
      BY <2>a DEF SetsItem, Goal
  <2>12. CASE config = << >>
    <3>1. getApi(t) = u
        BY <2>b, <2>12 DEF locAPIGnssUpdateConfig
    <3>2. \A i : ~SetsItem(config, i)
        BY <2>12 DEF SetsItem
    <3>3. \A i \in DOMAIN u.mConfig : FALSE
        BY <2>3, <2>a
    <3> QED
        BY <3>1, <3>2, <3>3, <2>3, <2>7, <2>9, <2>11 DEF CtlInv, SettingsQueued
  <2>13. CASE config # << >>
    <3>1. getApi(t) = apiGnssUpdateConfig([u EXCEPT !.mConfig = config], config)
        BY <2>b, <2>13, <2>3, <2>a DEF locAPIGnssUpdateConfig
    <3>2. CtlInv(getApi(t), w)
        BY <3>1, <2>7, <2>9, <2>10, <2>11, ConfigPostInv
    <3>3. getApi(t).api
        BY <3>1, <2>3, <2>5 DEF apiGnssUpdateConfig, Post, ControlRecords
    <3> QED
        BY <3>2, <3>3
  <2> QED
      BY <2>12, <2>13
<1> QED
    BY <1>1, <1>2

LEMMA SetterFacts ==
    ASSUME NEW config \in Setters
    PROVE  /\ config \in Configs /\ config # << >>
           /\ \A i \in DOMAIN config : config[i] \in Values(i) /\ SetsItem(config, i)
<1>1. PICK item \in Items : \E v \in Values(item) : config = [i \in {item} |-> v]
    BY DEF Setters
<1>b. PICK v \in Values(item) : config = [i \in {item} |-> v]
    BY <1>1
<1>2. v \in 0..2 /\ (item = "server" => v # NOHOST)
    BY ItemFacts
<1>3. config \in [{item} -> 0..2] /\ {item} \in SUBSET Items /\ DOMAIN config = {item} /\ config[item] = v
    BY <1>b, <1>2
<1>4. config \in Configs
    BY <1>3, ConfigFacts
<1>5. config # << >>
    BY <1>3, ConfigFacts
<1> QED
    BY <1>2, <1>3, <1>4, <1>5 DEF SetsItem

LEMMA UpdateStep ==
    ASSUME ControlInv, updateConfiguration
    PROVE  ControlInv'
<1>a. ModemTypeOK /\ CtlInv(ctl, want) /\ CoreInv(ctl, want) /\ SettingsQueued(ctl, want)
    BY DEF ControlInv, CtlInv
<1>b. /\ ctl \in ControlRecords /\ want \in Configs /\ \A i \in DOMAIN want : want[i] \in Values(i)
      /\ ConfigOK(ctl.mPendingConfig)
    BY <1>a DEF CoreInv, ControlTypeOK
<1>c. modem' = modem
    BY DEF updateConfiguration, Calls
<1>d. PICK config \in Setters :
        /\ ctl' = IF ctl.api THEN locAPIGnssUpdateConfig(ctl, config)
                  ELSE [ctl EXCEPT !.mPendingConfig = Merged(@, config)]
        /\ want' = IF "server" \in DOMAIN config /\ ~ctl.api THEN want
                   ELSE [i \in DOMAIN want \cup DOMAIN config |->
                            IF i \in DOMAIN config THEN config[i] ELSE want[i]]
    BY DEF updateConfiguration
<1>e. /\ config \in Configs /\ config # << >> /\ DOMAIN config \subseteq Items
      /\ \A i \in DOMAIN config : config[i] \in Values(i) /\ config[i] \in 0..2 /\ SetsItem(config, i)
    BY SetterFacts, ConfigFacts
<1> DEFINE w == [i \in DOMAIN want \cup DOMAIN config |-> IF i \in DOMAIN config THEN config[i] ELSE want[i]]
<1>f. DOMAIN want \subseteq Items /\ \A i \in DOMAIN want : want[i] \in 0..2
    BY <1>b, ConfigFacts
<1>g. /\ w \in Configs /\ DOMAIN w = DOMAIN want \cup DOMAIN config
      /\ \A i \in DOMAIN config : w[i] = config[i]
      /\ \A i \in DOMAIN want \ DOMAIN config : w[i] = want[i]
      /\ \A i \in DOMAIN w : w[i] \in Values(i)
  <2>1. w \in [DOMAIN want \cup DOMAIN config -> 0..2]
      BY <1>e, <1>f
  <2>2. DOMAIN want \cup DOMAIN config \in SUBSET Items
      BY <1>e, <1>f
  <2>3. w \in Configs
      BY <2>1, <2>2, ConfigFacts
  <2> QED
      BY <2>3, <1>b, <1>e
<1> HIDE DEF w
<1>1. CASE ctl.api
  <2>1. ctl' = locAPIGnssUpdateConfig(ctl, config) /\ want' = w
      BY <1>1, <1>d DEF w
  <2>2. CASE config = ctl.mConfig
    <3>1. ctl' = ctl
        BY <2>1, <2>2 DEF locAPIGnssUpdateConfig
    <3>2. \A i \in DOMAIN config : i \in DOMAIN want /\ want[i] = config[i]
        BY <2>2, <1>1, <1>a, <1>e DEF SettingsQueued
    <3>3. w = [i \in DOMAIN want |-> want[i]]
        BY <3>2 DEF w
    <3>4. w = want
        BY <3>3, <1>b, ConfigFacts
    <3>5. CtlInv(ctl, want)'
        BY <3>1, <3>4, <2>1, <1>a, <1>c DEF CtlInv, CoreInv, LockTold, SettingsTold, ServerTold, ClientTold
    <3> QED
        BY <3>5, <1>a, <1>c DEF ControlInv, ModemTypeOK
  <2>3. CASE config # ctl.mConfig
    <3>1. ctl' = apiGnssUpdateConfig([ctl EXCEPT !.mConfig = config], config)
        BY <2>1, <2>3, <1>e DEF locAPIGnssUpdateConfig
    <3>2. \A i \in Items : SetsItem(config, i) => Goal(w, i) = toConf(i, config[i])
        BY <1>g DEF Goal, SetsItem
    <3>3. \A i \in Items : IsKept(i) /\ ~SetsItem(config, i) => Settles(ctl, i, Goal(w, i))
      <4>1. \A i \in Items : ~SetsItem(config, i) => Goal(w, i) = Goal(want, i)
          BY <1>e, <1>g DEF Goal
      <4> QED
          BY <4>1, <1>1, <1>a DEF SettingsQueued
    <3>4. \A i \in DOMAIN config : i \in DOMAIN w /\ w[i] = config[i]
        BY <1>g
    <3>5. ConfigOK(config)
        BY <1>e DEF ConfigOK
    <3>6. CtlInv(apiGnssUpdateConfig([ctl EXCEPT !.mConfig = config], config), w)
        BY <3>2, <3>3, <3>4, <3>5, <1>1, <1>a, <1>e, <1>g, ConfigPostInv
    <3>7. CtlInv(ctl', want')
        BY <3>1, <3>6, <2>1
    <3> QED
        BY <3>7, <1>a, <1>c DEF ControlInv, ModemTypeOK, CtlInv, CoreInv, LockTold, SettingsTold, ServerTold,
                               ClientTold
  <2> QED
      BY <2>2, <2>3
<1>2. CASE ~ctl.api
  <2> DEFINE p == ctl.mPendingConfig
             q == Merged(p, config)
  <2>1. ctl' = [ctl EXCEPT !.mPendingConfig = q]
      BY <1>2, <1>d
  <2>2. p \in Configs /\ DOMAIN p \subseteq Items /\ \A i \in DOMAIN p : p[i] \in 0..2
      BY <1>b, ControlFields, ConfigFacts
  <2>3. /\ q \in [DOMAIN p \cup DOMAIN config -> 0..2] /\ DOMAIN p \cup DOMAIN config \in SUBSET Items
        /\ \A i \in DOMAIN config : q[i] = IF i = "server" THEN NOHOST ELSE config[i]
        /\ \A i \in DOMAIN p \ DOMAIN config : q[i] = p[i]
      BY <2>2, <1>e DEF Merged, NOHOST
  <2>4. q \in Configs /\ DOMAIN q = DOMAIN p \cup DOMAIN config /\ ConfigOK(q)
    <3>1. q \in Configs /\ DOMAIN q = DOMAIN p \cup DOMAIN config
        BY <2>3, ConfigFacts
    <3> QED
        BY <3>1, <2>3, <1>b, <1>e DEF ConfigOK
  <2> HIDE DEF q
  <2>5. /\ ctl'.queue = ctl.queue /\ ctl'.conf = ctl.conf /\ ctl'.mServerUrl = ctl.mServerUrl
        /\ ctl'.mPowerVoteId = ctl.mPowerVoteId /\ ctl'.mSessionIdCounter = ctl.mSessionIdCounter
        /\ ctl'.api = ctl.api /\ ctl'.mPendingConfig = q /\ ctl'.mConfig = ctl.mConfig
        /\ ctl'.mEnabled = ctl.mEnabled /\ ctl'.session = ctl.session
        /\ ctl'.capabilities = ctl.capabilities /\ ctl'.refused = ctl.refused
      BY <2>1, <1>b DEF ControlRecords
  <2>6. ctl' \in ControlRecords
      BY <2>1, <2>4, <1>b DEF ControlRecords
  <2>7. want' \in {want, w} /\ ("server" \in DOMAIN config => want' = want)
        /\ ("server" \notin DOMAIN config => want' = w)
      BY <1>2, <1>d DEF w
  <2>8. ControlTypeOK(ctl, want)'
      BY <2>4, <2>5, <2>6, <2>7, <1>a, <1>b, <1>g DEF CoreInv, ControlTypeOK
  <2>9. PowerQueued(ctl)'
      BY <2>5, <1>a DEF CoreInv, PowerQueued, Votes
  <2>10. LockTold(ctl)' /\ SettingsTold(ctl)' /\ ServerTold(ctl)' /\ ClientTold(ctl)'
      BY <2>5, <1>a, <1>c DEF CoreInv, LockTold, SettingsTold, ServerTold, ClientTold, Pending
  <2>11. SettingsQueued(ctl, want)'
    <3>1. /\ \A i \in DOMAIN p :
               IF i = "server" THEN p[i] = NOHOST ELSE i \in DOMAIN want /\ want[i] = p[i]
          /\ \A i \in DOMAIN want : i # "server" /\ i \in DOMAIN p
        BY <1>2, <1>a DEF SettingsQueued
    <3>2. "server" \in DOMAIN config => DOMAIN config = {"server"}
      <4>1. PICK item \in Items : \E v \in Values(item) : config = [i \in {item} |-> v]
          BY DEF Setters
      <4> QED
          BY <4>1
    <3>3. /\ \A i \in DOMAIN q :
               IF i = "server" THEN q[i] = NOHOST ELSE i \in DOMAIN want' /\ want'[i] = q[i]
          /\ \A i \in DOMAIN want' : i # "server" /\ i \in DOMAIN q
      <4>1. CASE "server" \in DOMAIN config
          BY <4>1, <3>1, <3>2, <2>3, <2>4, <2>7
      <4>2. CASE "server" \notin DOMAIN config
          BY <4>2, <3>1, <2>3, <2>4, <2>7, <1>g
      <4> QED
          BY <4>1, <4>2
    <3> QED
        BY <3>3, <2>5, <1>2, <1>a DEF SettingsQueued
  <2> QED
      BY <2>8, <2>9, <2>10, <2>11, <1>a, <1>c DEF ControlInv, CtlInv, CoreInv, ModemTypeOK
<1> QED
    BY <1>1, <1>2

(* What a command to the modem does: the settings it takes are told, those it refuses, *)
(* or does not hear, are marked, the others stay as they were.                         *)
LEMMA SendEffect ==
    ASSUME ModemTypeOK, NEW t \in ControlRecords, NEW values, NEW refuses, Send(t, values, refuses),
           DOMAIN values \subseteq Items, \A i \in DOMAIN values : values[i] \in Nat
    PROVE  /\ ModemTypeOK' /\ modem'.up = modem.up /\ ctl' \in ControlRecords
           /\ ctl'.queue = t.queue /\ ctl'.conf = t.conf /\ ctl'.mServerUrl = t.mServerUrl
           /\ ctl'.mPowerVoteId = t.mPowerVoteId /\ ctl'.mSessionIdCounter = t.mSessionIdCounter
           /\ ctl'.api = t.api /\ ctl'.mPendingConfig = t.mPendingConfig /\ ctl'.mConfig = t.mConfig
           /\ ctl'.mEnabled = t.mEnabled /\ ctl'.session = t.session
           /\ ctl'.capabilities = t.capabilities
           /\ \A i \in Items : i \in DOMAIN values /\ i \notin ctl'.refused => modem'.told[i] = values[i]
           /\ \A i \in Items \ DOMAIN values :
                modem'.told[i] = modem.told[i] /\ (i \in ctl'.refused <=> i \in t.refused)
<1> DEFINE heard == IF modem.up THEN DOMAIN values \ refuses ELSE {}
           told == [i \in Items |-> IF i \in heard THEN values[i] ELSE modem.told[i]]
           refused == (t.refused \ heard) \cup (DOMAIN values \ heard)
<1>1. modem' = [modem EXCEPT !.told = told] /\ ctl' = [t EXCEPT !.refused = refused]
    BY DEF Send
<1>2. heard \subseteq DOMAIN values /\ refused \in SUBSET Items
    BY ControlFields
<1>3. told \in [Items -> Nat]
    BY <1>2 DEF ModemTypeOK
<1>4. /\ \A i \in Items : i \in DOMAIN values /\ i \notin refused => told[i] = values[i]
      /\ \A i \in Items \ DOMAIN values : told[i] = modem.told[i] /\ (i \in refused <=> i \in t.refused)
    BY <1>2
<1> HIDE DEF told, refused, heard
<1>5. modem' \in [up : BOOLEAN, told : [Items -> Nat]] /\ modem'.up = modem.up /\ modem'.told = told
    BY <1>1, <1>3 DEF ModemTypeOK
<1>6. ctl' \in ControlRecords
    BY <1>1, <1>2 DEF ControlRecords
<1>7. /\ ctl'.queue = t.queue /\ ctl'.conf = t.conf /\ ctl'.mServerUrl = t.mServerUrl
      /\ ctl'.mPowerVoteId = t.mPowerVoteId /\ ctl'.mSessionIdCounter = t.mSessionIdCounter
      /\ ctl'.api = t.api /\ ctl'.mPendingConfig = t.mPendingConfig /\ ctl'.mConfig = t.mConfig
      /\ ctl'.mEnabled = t.mEnabled /\ ctl'.session = t.session
      /\ ctl'.capabilities = t.capabilities /\ ctl'.refused = refused
    BY <1>1 DEF ControlRecords
<1> QED
    BY <1>4, <1>5, <1>6, <1>7 DEF ModemTypeOK

(* The first message of the queue has been worked off: what the handlers share.        *)
Worked(t) ==
    /\ t \in ControlRecords /\ ctl.queue # << >> /\ t.queue = Tail(ctl.queue)
    /\ t.mSessionIdCounter = ctl.mSessionIdCounter /\ t.api = ctl.api /\ t.mConfig = ctl.mConfig
    /\ t.mPendingConfig = ctl.mPendingConfig /\ t.mEnabled = ctl.mEnabled /\ t.session = ctl.session
    /\ ctl.queue[1].kind = "Enable" /\ ctl.mPowerVoteId = 0 => t.mPowerVoteId = ctl.queue[1].id
    /\ ctl.queue[1].kind = "Disable" /\ ctl.mPowerVoteId = ctl.queue[1].id => t.mPowerVoteId = 0
    /\ ctl.queue[1].kind \notin {"Enable", "Disable"} => t.mPowerVoteId = ctl.mPowerVoteId
    /\ ctl.queue[1].kind # "Config" => t.conf = ctl.conf
    /\ \A i \in Items : IsKept(i) =>
         t.conf[i] = IF Sets(ctl.queue[1], i) THEN toConf(i, ctl.queue[1].config[i]) ELSE ctl.conf[i]

LEMMA WorkedInv ==
    ASSUME ControlInv, NEW t, Worked(t)
    PROVE  ControlTypeOK(t, want) /\ PowerQueued(t) /\ SettingsQueued(t, want)
<1>a. ctl \in ControlRecords /\ t \in ControlRecords /\ PowerQueued(ctl) /\ SettingsQueued(ctl, want)
    BY DEF ControlInv, CtlInv, CoreInv, ControlTypeOK, Worked
<1>1. /\ 1 \in 1..Len(ctl.queue)
      /\ \A k \in 1..Len(t.queue) : k + 1 \in 1..Len(ctl.queue) /\ t.queue[k] = ctl.queue[k + 1]
  <2>1. ctl.queue \in Seq(ControlMsgs) /\ ctl.queue # << >> /\ t.queue = Tail(ctl.queue)
      BY <1>a, ControlFields DEF Worked
  <2> QED
      BY <2>1, TailOf
<1>2. ControlTypeOK(t, want)
    BY <1>a, <1>1 DEF ControlInv, CtlInv, CoreInv, ControlTypeOK, Worked
<1>3. PowerQueued(t)
    BY <1>a, PowerShrunk DEF Worked
<1>4. SettingsQueued(t, want)
  <2>1. CASE ctl.api
    <3>1. \A i \in Items : IsKept(i) => Settles(t, i, Goal(want, i))
        BY <2>1, <1>a, SettlesShrunk DEF SettingsQueued, Worked
    <3> QED
        BY <3>1, <2>1, <1>a DEF SettingsQueued, Worked
  <2>2. CASE ~ctl.api
      BY <2>2, <1>a, <1>1 DEF SettingsQueued, Worked
  <2> QED
      BY <2>1, <2>2
<1> QED
    BY <1>2, <1>3, <1>4

LEMMA PendingWorked ==
    ASSUME ControlInv, NEW t, Worked(t), NEW kind, Pending(ctl, kind), ctl.queue[1].kind # kind
    PROVE  Pending(t, kind)
<1>1. ctl.queue \in Seq(ControlMsgs) /\ ctl.queue # << >> /\ t.queue = Tail(ctl.queue)
    BY ControlFields DEF ControlInv, CtlInv, CoreInv, ControlTypeOK, Worked
<1>2. PICK k \in 1..Len(ctl.queue) : ctl.queue[k].kind = kind
    BY DEF Pending
<1>3. k - 1 \in 1..Len(t.queue) /\ t.queue[k - 1] = ctl.queue[k]
    BY <1>1, <1>2
<1> QED
    BY <1>2, <1>3 DEF Pending

(* A handler that sends.                                                               *)
LEMMA SentInv ==
    ASSUME ControlInv, NEW t, Worked(t), NEW values, NEW refuses, Send(t, values, refuses),
           DOMAIN values \subseteq Items, \A i \in DOMAIN values : values[i] \in Nat, want' = want,
           t.refused = ctl.refused,
           LockTold(ctl)', SettingsTold(ctl)', ServerTold(ctl)', ClientTold(ctl)'
    PROVE  ControlInv'
<1>a. ModemTypeOK /\ t \in ControlRecords
    BY DEF ControlInv, Worked
<1>1. ControlTypeOK(t, want) /\ PowerQueued(t) /\ SettingsQueued(t, want)
    BY WorkedInv
<1>2. /\ ModemTypeOK' /\ ctl' \in ControlRecords
      /\ ctl'.queue = t.queue /\ ctl'.conf = t.conf
      /\ ctl'.mPowerVoteId = t.mPowerVoteId /\ ctl'.mSessionIdCounter = t.mSessionIdCounter
      /\ ctl'.api = t.api /\ ctl'.mPendingConfig = t.mPendingConfig /\ ctl'.mConfig = t.mConfig
      /\ ctl'.mEnabled = t.mEnabled /\ ctl'.session = t.session
    BY <1>a, SendEffect
<1>3. ControlTypeOK(ctl, want)'
    BY <1>1, <1>2 DEF ControlTypeOK
<1>4. PowerQueued(ctl)'
    BY <1>1, <1>2 DEF PowerQueued, Votes
<1>5. SettingsQueued(ctl, want)'
    BY <1>1, <1>2 DEF SettingsQueued, Settles
<1> QED
    BY <1>2, <1>3, <1>4, <1>5 DEF ControlInv, CtlInv, CoreInv

LEMMA FirstMessage ==
    ASSUME ControlInv, NEW kind, Takes(kind)
    PROVE  /\ ctl \in ControlRecords /\ ctl.queue # << >> /\ First = ctl.queue[1] /\ First.kind = kind
           /\ First \in ControlMsgs /\ MsgOK(First) /\ Tail(ctl.queue) \in Seq(ControlMsgs)
           /\ kind = "Enable" => ctl.mPowerVoteId = 0 /\ First.id > 0
           /\ kind = "Disable" => ctl.mPowerVoteId = First.id
<1>1. ctl \in ControlRecords /\ PowerQueued(ctl) /\ \A k \in 1..Len(ctl.queue) : MsgOK(ctl.queue[k])
    BY DEF ControlInv, CtlInv, CoreInv, ControlTypeOK
<1>2. ctl.queue \in Seq(ControlMsgs) /\ ctl.queue # << >> /\ First.kind = kind
    BY <1>1, ControlFields DEF Takes
<1>3. First = ctl.queue[1] /\ 1 \in 1..Len(ctl.queue) /\ First \in ControlMsgs /\ Tail(ctl.queue) \in Seq(ControlMsgs)
    BY <1>2, TailOf DEF First
<1>4. PICK v \in [0..Len(ctl.queue) -> 0..ctl.mSessionIdCounter] : Votes(ctl, v)
    BY <1>1 DEF PowerQueued
<1>5. v[1 - 1] = ctl.mPowerVoteId
    BY <1>4 DEF Votes
<1> QED
    BY <1>1, <1>2, <1>3, <1>4, <1>5 DEF Votes

LEMMA LockAside ==
    \A i \in Injected \cup Protocols : i \notin {"gpsLock", "server", "suplMode"} /\ i \in Items
BY ControlAssumption, ItemFacts

LEMMA EnableStep ==
    ASSUME ControlInv, enable
    PROVE  ControlInv'
<1> DEFINE t == [Rest(ctl) EXCEPT !.mPowerVoteId = First.id]
           values == [i \in {"gpsLock"} |-> LOCK_NONE]
<1>a. Takes("Enable") /\ want' = want
    BY DEF enable
<1>b. /\ ctl \in ControlRecords /\ ctl.queue # << >> /\ First = ctl.queue[1] /\ First.kind = "Enable"
      /\ First \in ControlMsgs /\ Tail(ctl.queue) \in Seq(ControlMsgs)
      /\ ctl.mPowerVoteId = 0 /\ First.id > 0 /\ First.id \in Nat
    BY <1>a, FirstMessage, ControlKinds
<1>c. PICK refuses : Send(t, values, refuses)
    BY <1>b DEF enable
<1>d. t = [ctl EXCEPT !.queue = Tail(@), !.mPowerVoteId = First.id]
    BY <1>b DEF Rest, ControlRecords
<1>e. values = [i \in {"gpsLock"} |-> LOCK_NONE]
    OBVIOUS
<1> HIDE DEF t, values
<1>f. DOMAIN values = {"gpsLock"} /\ values["gpsLock"] = LOCK_NONE /\ LOCK_NONE \in Nat /\ "gpsLock" \in Items
    BY <1>e, ItemFacts DEF LOCK_NONE
<1>1. /\ t.queue = Tail(ctl.queue) /\ t.mPowerVoteId = First.id /\ t.conf = ctl.conf
      /\ t.mServerUrl = ctl.mServerUrl /\ t.mSessionIdCounter = ctl.mSessionIdCounter /\ t.api = ctl.api
      /\ t.mConfig = ctl.mConfig /\ t.mPendingConfig = ctl.mPendingConfig /\ t.mEnabled = ctl.mEnabled
      /\ t.session = ctl.session /\ t.capabilities = ctl.capabilities /\ t.refused = ctl.refused
    BY <1>b, <1>d DEF ControlRecords
<1>2. t \in ControlRecords
    BY <1>b, <1>d DEF ControlRecords
<1>3. Worked(t)
    BY <1>b, <1>1, <1>2 DEF Worked, Sets
<1>4. /\ modem'.up = modem.up /\ ctl'.queue = t.queue /\ ctl'.conf = t.conf /\ ctl'.mServerUrl = t.mServerUrl
      /\ ctl'.mPowerVoteId = t.mPowerVoteId /\ ctl'.api = t.api /\ ctl'.capabilities = t.capabilities
      /\ "gpsLock" \notin ctl'.refused => modem'.told["gpsLock"] = LOCK_NONE
      /\ \A i \in Items \ {"gpsLock"} :
           modem'.told[i] = modem.told[i] /\ (i \in ctl'.refused <=> i \in t.refused)
    BY <1>c, <1>f, <1>2, SendEffect DEF ControlInv
<1>p. \A kind \in {"SetConfig", "Capabilities"} : Pending(ctl, kind) => Pending(ctl, kind)'
  <2>1. \A kind \in {"SetConfig", "Capabilities"} : Pending(ctl, kind) => Pending(t, kind)
      BY <1>b, <1>3, PendingWorked
  <2> QED
      BY <2>1, <1>4 DEF Pending
<1>o. LockTold(ctl) /\ SettingsTold(ctl) /\ ServerTold(ctl) /\ ClientTold(ctl)
    BY DEF ControlInv, CtlInv, CoreInv
<1>5. LockTold(ctl)'
    BY <1>b, <1>1, <1>4 DEF LockTold
<1>6. SettingsTold(ctl)'
    BY <1>o, <1>p, <1>1, <1>4, LockAside DEF SettingsTold
<1>7. ServerTold(ctl)' /\ ClientTold(ctl)'
    BY <1>o, <1>p, <1>1, <1>4, ItemFacts DEF ServerTold, ClientTold
<1> QED
    BY <1>a, <1>c, <1>f, <1>1, <1>3, <1>5, <1>6, <1>7, SentInv

LEMMA DisableStep ==
    ASSUME ControlInv, disable
    PROVE  ControlInv'
<1> DEFINE t == [Rest(ctl) EXCEPT !.mPowerVoteId = 0]
           values == [i \in {"gpsLock"} |-> ctl.conf["gpsLock"]]
<1>a. Takes("Disable") /\ want' = want
    BY DEF disable
<1>b. /\ ctl \in ControlRecords /\ ctl.queue # << >> /\ First = ctl.queue[1] /\ First.kind = "Disable"
      /\ First \in ControlMsgs /\ Tail(ctl.queue) \in Seq(ControlMsgs)
      /\ ctl.mPowerVoteId = First.id
    BY <1>a, FirstMessage
<1>c. PICK refuses : Send(t, values, refuses)
    BY <1>b DEF disable
<1>d. t = [ctl EXCEPT !.queue = Tail(@), !.mPowerVoteId = 0]
    BY <1>b DEF Rest, ControlRecords
<1>e. values = [i \in {"gpsLock"} |-> ctl.conf["gpsLock"]]
    OBVIOUS
<1> HIDE DEF t, values
<1>f. /\ DOMAIN values = {"gpsLock"} /\ values["gpsLock"] = ctl.conf["gpsLock"]
      /\ ctl.conf["gpsLock"] \in Nat /\ "gpsLock" \in Items
    BY <1>b, <1>e, ItemFacts, ControlFields
<1>1. /\ t.queue = Tail(ctl.queue) /\ t.mPowerVoteId = 0 /\ t.conf = ctl.conf
      /\ t.mServerUrl = ctl.mServerUrl /\ t.mSessionIdCounter = ctl.mSessionIdCounter /\ t.api = ctl.api
      /\ t.mConfig = ctl.mConfig /\ t.mPendingConfig = ctl.mPendingConfig /\ t.mEnabled = ctl.mEnabled
      /\ t.session = ctl.session /\ t.capabilities = ctl.capabilities /\ t.refused = ctl.refused
    BY <1>b, <1>d DEF ControlRecords
<1>2. t \in ControlRecords
    BY <1>b, <1>d DEF ControlRecords
<1>3. Worked(t)
    BY <1>b, <1>1, <1>2 DEF Worked, Sets
<1>4. /\ modem'.up = modem.up /\ ctl'.queue = t.queue /\ ctl'.conf = t.conf /\ ctl'.mServerUrl = t.mServerUrl
      /\ ctl'.mPowerVoteId = t.mPowerVoteId /\ ctl'.api = t.api /\ ctl'.capabilities = t.capabilities
      /\ "gpsLock" \notin ctl'.refused => modem'.told["gpsLock"] = ctl.conf["gpsLock"]
      /\ \A i \in Items \ {"gpsLock"} :
           modem'.told[i] = modem.told[i] /\ (i \in ctl'.refused <=> i \in t.refused)
    BY <1>c, <1>f, <1>2, SendEffect DEF ControlInv
<1>p. \A kind \in {"SetConfig", "Capabilities"} : Pending(ctl, kind) => Pending(ctl, kind)'
  <2>1. \A kind \in {"SetConfig", "Capabilities"} : Pending(ctl, kind) => Pending(t, kind)
      BY <1>b, <1>3, PendingWorked
  <2> QED
      BY <2>1, <1>4 DEF Pending
<1>o. LockTold(ctl) /\ SettingsTold(ctl) /\ ServerTold(ctl) /\ ClientTold(ctl)
    BY DEF ControlInv, CtlInv, CoreInv
<1>5. LockTold(ctl)'
    BY <1>1, <1>4 DEF LockTold
<1>6. SettingsTold(ctl)'
    BY <1>o, <1>p, <1>1, <1>4, LockAside DEF SettingsTold
<1>7. ServerTold(ctl)' /\ ClientTold(ctl)'
    BY <1>o, <1>p, <1>1, <1>4, ItemFacts DEF ServerTold, ClientTold
<1> QED
    BY <1>a, <1>c, <1>f, <1>1, <1>3, <1>5, <1>6, <1>7, SentInv

LEMMA SetConfigStep ==
    ASSUME ControlInv, setConfig
    PROVE  ControlInv'
<1> DEFINE t == Rest(ctl)
           sent == Protocols \cup IF AGPS_CONFIG_INJECT THEN Injected ELSE {}
           values == [i \in sent |-> fromConf(i, ctl.conf[i])]
<1>a. Takes("SetConfig") /\ want' = want
    BY DEF setConfig
<1>b. /\ ctl \in ControlRecords /\ ctl.queue # << >> /\ First = ctl.queue[1] /\ First.kind = "SetConfig"
      /\ First \in ControlMsgs /\ Tail(ctl.queue) \in Seq(ControlMsgs)
    BY <1>a, FirstMessage
<1>c. PICK refuses : Send(t, values, refuses)
    BY <1>b DEF setConfig
<1>d. t = [ctl EXCEPT !.queue = Tail(@)]
    BY DEF Rest
<1>e. values = [i \in sent |-> fromConf(i, ctl.conf[i])]
    OBVIOUS
<1>g. /\ sent \subseteq Injected \cup Protocols /\ (AGPS_CONFIG_INJECT => sent = Injected \cup Protocols)
      /\ sent \subseteq Items /\ sent \cap {"gpsLock", "server", "suplMode"} = {}
    BY LockAside
<1> HIDE DEF t, values, sent
<1>f. /\ DOMAIN values = sent /\ \A i \in sent : values[i] = fromConf(i, ctl.conf[i])
      /\ \A i \in sent : values[i] \in Nat
  <2>1. \A i \in Items : fromConf(i, ctl.conf[i]) \in Nat
      BY <1>b, ControlFields DEF fromConf
  <2> QED
      BY <2>1, <1>e, <1>g
<1>1. /\ t.queue = Tail(ctl.queue) /\ t.mPowerVoteId = ctl.mPowerVoteId /\ t.conf = ctl.conf
      /\ t.mServerUrl = ctl.mServerUrl /\ t.mSessionIdCounter = ctl.mSessionIdCounter /\ t.api = ctl.api
      /\ t.mConfig = ctl.mConfig /\ t.mPendingConfig = ctl.mPendingConfig /\ t.mEnabled = ctl.mEnabled
      /\ t.session = ctl.session /\ t.capabilities = ctl.capabilities /\ t.refused = ctl.refused
    BY <1>b, <1>d DEF ControlRecords
<1>2. t \in ControlRecords
    BY <1>b, <1>d DEF ControlRecords
<1>3. Worked(t)
    BY <1>b, <1>1, <1>2 DEF Worked, Sets
<1>4. /\ modem'.up = modem.up /\ ctl'.queue = t.queue /\ ctl'.conf = t.conf /\ ctl'.mServerUrl = t.mServerUrl
      /\ ctl'.mPowerVoteId = t.mPowerVoteId /\ ctl'.api = t.api /\ ctl'.capabilities = t.capabilities
      /\ \A i \in Items : i \in sent /\ i \notin ctl'.refused => modem'.told[i] = fromConf(i, ctl.conf[i])
      /\ \A i \in Items \ sent :
           modem'.told[i] = modem.told[i] /\ (i \in ctl'.refused <=> i \in t.refused)
    BY <1>c, <1>f, <1>g, <1>2, SendEffect DEF ControlInv
<1>p. Pending(ctl, "Capabilities") => Pending(ctl, "Capabilities")'
    BY <1>b, <1>3, <1>4, PendingWorked DEF Pending
<1>o. LockTold(ctl) /\ ServerTold(ctl) /\ ClientTold(ctl)
    BY DEF ControlInv, CtlInv, CoreInv
<1>5. LockTold(ctl)'
    BY <1>o, <1>g, <1>1, <1>4, ItemFacts DEF LockTold
<1>6. SettingsTold(ctl)'
    BY <1>g, <1>1, <1>4, LockAside DEF SettingsTold
<1>7. ServerTold(ctl)' /\ ClientTold(ctl)'
    BY <1>o, <1>p, <1>g, <1>1, <1>4, ItemFacts DEF ServerTold, ClientTold
<1> QED
    BY <1>a, <1>c, <1>f, <1>g, <1>1, <1>3, <1>5, <1>6, <1>7, SentInv

LEMMA SentCases ==
    ASSUME NEW config, NEW i
    PROVE  /\ i = "gpsLock" => (Sent(config, i) <=> ctl.mPowerVoteId = 0)
           /\ i \in Injected =>
                (Sent(config, i) <=> AGPS_CONFIG_INJECT /\ toConf(i, config[i]) # ctl.conf[i])
           /\ i \in Protocols \ Injected => (Sent(config, i) <=> toConf(i, config[i]) # ctl.conf[i])
           /\ i = "server" =>
                (Sent(config, i) <=> AGPS_CONFIG_INJECT /\ config[i] \notin {NOHOST, ctl.mServerUrl})
<1> USE ControlAssumption
<1>1. i = "gpsLock" => (Sent(config, i) <=> ctl.mPowerVoteId = 0)
    BY LockAside DEF Sent
<1>2. i \in Injected => (Sent(config, i) <=> AGPS_CONFIG_INJECT /\ toConf(i, config[i]) # ctl.conf[i])
  <2> SUFFICES ASSUME i \in Injected
               PROVE  Sent(config, i) <=> AGPS_CONFIG_INJECT /\ toConf(i, config[i]) # ctl.conf[i]
      OBVIOUS
  <2>1. i # "gpsLock" /\ i # "server"
      BY LockAside
  <2>2. CASE AGPS_CONFIG_INJECT = TRUE
      BY <2>1, <2>2 DEF Sent
  <2>3. CASE AGPS_CONFIG_INJECT = FALSE
      BY <2>1, <2>3 DEF Sent
  <2> QED
      BY <2>2, <2>3
<1>3. i \in Protocols \ Injected => (Sent(config, i) <=> toConf(i, config[i]) # ctl.conf[i])
    BY LockAside DEF Sent
<1>4. i = "server" =>
        (Sent(config, i) <=> AGPS_CONFIG_INJECT /\ config[i] \notin {NOHOST, ctl.mServerUrl})
    BY LockAside DEF Sent
<1> QED
    BY <1>1, <1>2, <1>3, <1>4

LEMMA UpdateConfigStep ==
    ASSUME ControlInv, gnssUpdateConfig
    PROVE  ControlInv'
<1> DEFINE config == First.config
           sent == {i \in DOMAIN config : Sent(config, i)}
           kept == {i \in DOMAIN config : Kept(config, i)}
           conf == [i \in Items |-> IF i \in kept THEN toConf(i, config[i]) ELSE ctl.conf[i]]
           told == IF conf["suplMode"] # ctl.conf["suplMode"] /\ ctl.api THEN conf["suplMode"] ELSE ctl.capabilities
           t == [Rest(ctl) EXCEPT !.conf = conf, !.mServerUrl = conf["server"],
                                  !.capabilities = IF conf["suplMode"] # ctl.conf["suplMode"] /\ ctl.api
                                                   THEN conf["suplMode"] ELSE @]
           values == Restrict(config, sent)
<1>a. Takes("Config") /\ want' = want
    BY DEF gnssUpdateConfig
<1>b. /\ ctl \in ControlRecords /\ ctl.queue # << >> /\ First = ctl.queue[1] /\ First.kind = "Config"
      /\ First \in ControlMsgs /\ Tail(ctl.queue) \in Seq(ControlMsgs) /\ MsgOK(First)
    BY <1>a, FirstMessage
<1>c. PICK refuses : Send(t, values, refuses)
    BY <1>b DEF gnssUpdateConfig
<1>d. t = [ctl EXCEPT !.queue = Tail(@), !.conf = conf, !.mServerUrl = conf["server"], !.capabilities = told]
    BY <1>b DEF Rest, ControlRecords
<1>e. values = [i \in sent |-> config[i]]
    BY DEF Restrict
<1>g. /\ config \in Configs /\ DOMAIN config \subseteq Items /\ \A i \in DOMAIN config : config[i] \in 0..2
      /\ \A i \in DOMAIN config : config[i] \in Values(i) \/ (i = "server" /\ config[i] = NOHOST)
    BY <1>b, ControlKinds, ConfigFacts DEF MsgOK, ConfigOK
<1>h. ctl.conf \in [Items -> Nat]
    BY <1>b, ControlFields
<1>i. \A i \in DOMAIN config : toConf(i, config[i]) \in Nat
    BY <1>g, ItemFacts DEF NOHOST
<1>j. conf \in [Items -> Nat] /\ conf["server"] \in Nat /\ conf["suplMode"] \in Nat
    BY <1>h, <1>i, ItemFacts
<1>k. told \in Nat
    BY <1>b, <1>j, ControlFields
<1>l. sent \subseteq DOMAIN config /\ DOMAIN values = sent /\ \A i \in sent : values[i] = config[i] /\ values[i] \in Nat
  <2>1. sent \subseteq DOMAIN config
      OBVIOUS
  <2> HIDE DEF sent, values, config
  <2> QED
      BY <2>1, <1>e, <1>g
\* What becomes of each item.
<1>m. \A i \in Items : conf[i] = IF i \in kept THEN toConf(i, config[i]) ELSE ctl.conf[i]
    OBVIOUS
<1>n. /\ \A i \in DOMAIN config : i \in sent <=> Sent(config, i)
      /\ \A i \in DOMAIN config : i \in kept <=> i \notin Injected \cup {"server"} \/ i \in sent
      /\ kept \subseteq DOMAIN config
    BY DEF Kept
<1>r. ctl.api => (conf["suplMode"] = ctl.conf["suplMode"] /\ told = ctl.capabilities) \/ told = conf["suplMode"]
    OBVIOUS
<1> HIDE DEF t, values, sent, kept, conf, told, config
<1>s. /\ "gpsLock" \in DOMAIN config => ("gpsLock" \in sent <=> ctl.mPowerVoteId = 0)
      /\ \A i \in DOMAIN config : i \in Injected =>
           (i \in sent <=> AGPS_CONFIG_INJECT /\ toConf(i, config[i]) # ctl.conf[i])
      /\ \A i \in DOMAIN config : i \in Protocols \ Injected =>
           (i \in sent <=> toConf(i, config[i]) # ctl.conf[i])
      /\ "server" \in DOMAIN config =>
           ("server" \in sent <=> AGPS_CONFIG_INJECT /\ config["server"] \notin {NOHOST, ctl.mServerUrl})
    BY <1>n, SentCases
<1>o. LockTold(ctl) /\ SettingsTold(ctl) /\ ServerTold(ctl) /\ ClientTold(ctl)
    BY DEF ControlInv, CtlInv, CoreInv
<1>1. /\ t.queue = Tail(ctl.queue) /\ t.mPowerVoteId = ctl.mPowerVoteId /\ t.conf = conf
      /\ t.mServerUrl = conf["server"] /\ t.mSessionIdCounter = ctl.mSessionIdCounter /\ t.api = ctl.api
      /\ t.mConfig = ctl.mConfig /\ t.mPendingConfig = ctl.mPendingConfig /\ t.mEnabled = ctl.mEnabled
      /\ t.session = ctl.session /\ t.capabilities = told /\ t.refused = ctl.refused
    BY <1>b, <1>d DEF ControlRecords
<1>2. t \in ControlRecords
    BY <1>b, <1>d, <1>j, <1>k DEF ControlRecords
<1>3. Worked(t)
  <2>1. \A i \in Items : IsKept(i) =>
          conf[i] = IF SetsItem(config, i) THEN toConf(i, config[i]) ELSE ctl.conf[i]
    <3> SUFFICES ASSUME NEW i \in Items, IsKept(i)
                 PROVE  conf[i] = IF SetsItem(config, i) THEN toConf(i, config[i]) ELSE ctl.conf[i]
        OBVIOUS
    <3>1. CASE i = "server"
      <4>1. AGPS_CONFIG_INJECT /\ ctl.mServerUrl = ctl.conf[i] /\ toConf(i, config[i]) = config[i]
          BY <3>1, <1>o, ItemFacts DEF IsKept, ServerTold
      <4> QED
          BY <4>1, <3>1, <1>m, <1>n, <1>s DEF SetsItem
    <3>2. CASE i # "server" /\ i \in Injected
        BY <3>2, <1>m, <1>n, <1>s DEF SetsItem, IsKept
    <3>3. CASE i # "server" /\ i \notin Injected
        BY <3>3, <1>m, <1>n DEF SetsItem
    <3> QED
        BY <3>1, <3>2, <3>3
  <2>2. \A i : Sets(First, i) <=> SetsItem(config, i)
      BY <1>b DEF Sets, config
  <2> QED
      BY <2>1, <2>2, <1>b, <1>1, <1>2 DEF Worked, config
<1>4. /\ modem'.up = modem.up /\ ctl'.queue = t.queue /\ ctl'.conf = t.conf /\ ctl'.mServerUrl = t.mServerUrl
      /\ ctl'.mPowerVoteId = t.mPowerVoteId /\ ctl'.api = t.api /\ ctl'.capabilities = t.capabilities
      /\ \A i \in Items : i \in sent /\ i \notin ctl'.refused => modem'.told[i] = config[i]
      /\ \A i \in Items \ sent :
           modem'.told[i] = modem.told[i] /\ (i \in ctl'.refused <=> i \in t.refused)
    BY <1>c, <1>l, <1>g, <1>2, SendEffect DEF ControlInv
<1>p. \A kind \in {"SetConfig", "Capabilities"} : Pending(ctl, kind) => Pending(ctl, kind)'
  <2>1. \A kind \in {"SetConfig", "Capabilities"} : Pending(ctl, kind) => Pending(t, kind)
      BY <1>b, <1>3, PendingWorked
  <2> QED
      BY <2>1, <1>4 DEF Pending
<1>5. LockTold(ctl)'
  <2>1. "gpsLock" \in Items /\ "gpsLock" \notin Injected \cup {"server"} /\ \A x : toConf("gpsLock", x) = x
      BY LockAside, ItemFacts
  <2>2. "gpsLock" \in DOMAIN config => conf["gpsLock"] = config["gpsLock"]
      BY <2>1, <1>m, <1>n
  <2>3. "gpsLock" \notin DOMAIN config => conf["gpsLock"] = ctl.conf["gpsLock"] /\ "gpsLock" \notin sent
      BY <2>1, <1>m, <1>n, <1>l
  <2>4. ctl.mPowerVoteId \in Nat
      BY <1>b, ControlFields
  <2> QED
      BY <2>1, <2>2, <2>3, <2>4, <1>o, <1>s, <1>1, <1>4 DEF LockTold
<1>6. SettingsTold(ctl)'
  <2> SUFFICES ASSUME AGPS_CONFIG_INJECT, modem'.up, ~Pending(ctl, "SetConfig")',
                      NEW i \in (Injected \cup Protocols) \ ctl'.refused
               PROVE  modem'.told[i] = fromConf(i, ctl'.conf[i])
      BY DEF SettingsTold
  <2>1. i \in Items /\ i \notin {"gpsLock", "server", "suplMode"}
      BY LockAside
  <2>2. CASE i \in sent
    <3>1. i \in DOMAIN config /\ i \in kept /\ config[i] \in Values(i)
        BY <2>1, <2>2, <1>g, <1>l, <1>n
    <3>2. conf[i] = toConf(i, config[i]) /\ fromConf(i, toConf(i, config[i])) = config[i]
        BY <3>1, <2>1, <1>m, ItemFacts
    <3> QED
        BY <3>2, <2>1, <2>2, <1>1, <1>4
  <2>3. CASE i \notin sent
    <3>1. modem'.told[i] = modem.told[i] /\ i \notin ctl.refused
        BY <2>1, <2>3, <1>1, <1>4
    <3>2. conf[i] = ctl.conf[i]
        BY <2>1, <2>3, <1>m, <1>n, <1>s
    <3>3. modem.told[i] = fromConf(i, ctl.conf[i])
        BY <3>1, <1>o, <1>p, <1>4 DEF SettingsTold
    <3> QED
        BY <3>1, <3>2, <3>3, <1>1, <1>4
  <2> QED
      BY <2>2, <2>3
<1>7. ServerTold(ctl)'
  <2>1. "server" \in Items /\ \A x : toConf("server", x) = x
      BY ItemFacts
  <2>2. "server" \in sent => conf["server"] = config["server"]
      BY <2>1, <1>l, <1>m, <1>n
  <2>3. "server" \notin sent => conf["server"] = ctl.conf["server"]
      BY <2>1, <1>m, <1>n
  <2> QED
      BY <2>1, <2>2, <2>3, <1>o, <1>1, <1>4 DEF ServerTold
<1>8. ClientTold(ctl)'
    BY <1>o, <1>p, <1>r, <1>1, <1>4 DEF ClientTold
<1> QED
    BY <1>a, <1>c, <1>g, <1>l, <1>1, <1>3, <1>5, <1>6, <1>7, <1>8, SentInv

LEMMA CapabilitiesStep ==
    ASSUME ControlInv, requestCapabilities
    PROVE  ControlInv'
<1> DEFINE mode == ctl.conf["suplMode"]
<1>a. Takes("Capabilities") /\ want' = want /\ modem' = modem
    BY DEF requestCapabilities
<1>b. /\ ctl \in ControlRecords /\ ctl.queue # << >> /\ First = ctl.queue[1] /\ First.kind = "Capabilities"
      /\ First \in ControlMsgs /\ Tail(ctl.queue) \in Seq(ControlMsgs)
    BY <1>a, FirstMessage
<1>c. mode \in Nat
    BY <1>b, ControlFields, ItemFacts
<1>d. ctl' = [ctl EXCEPT !.queue = Tail(@), !.capabilities = mode]
    BY <1>b DEF requestCapabilities, Rest, ControlRecords
<1>e. mode = ctl.conf["suplMode"]
    OBVIOUS
<1> HIDE DEF mode
<1>1. /\ ctl'.queue = Tail(ctl.queue) /\ ctl'.mPowerVoteId = ctl.mPowerVoteId /\ ctl'.conf = ctl.conf
      /\ ctl'.mServerUrl = ctl.mServerUrl /\ ctl'.mSessionIdCounter = ctl.mSessionIdCounter /\ ctl'.api = ctl.api
      /\ ctl'.mConfig = ctl.mConfig /\ ctl'.mPendingConfig = ctl.mPendingConfig /\ ctl'.mEnabled = ctl.mEnabled
      /\ ctl'.session = ctl.session /\ ctl'.capabilities = mode /\ ctl'.refused = ctl.refused
    BY <1>b, <1>d DEF ControlRecords
<1>2. ctl' \in ControlRecords
    BY <1>b, <1>c, <1>d DEF ControlRecords
<1>3. PICK t : t = ctl'
    OBVIOUS
<1>4. Worked(t)
    BY <1>b, <1>1, <1>2, <1>3 DEF Worked, Sets
<1>5. ControlTypeOK(t, want) /\ PowerQueued(t) /\ SettingsQueued(t, want)
    BY <1>4, WorkedInv
<1>6. Pending(ctl, "SetConfig") => Pending(t, "SetConfig")
    BY <1>b, <1>4, PendingWorked
<1>7. LockTold(ctl)' /\ ServerTold(ctl)' /\ ClientTold(ctl)'
    BY <1>a, <1>e, <1>1 DEF ControlInv, CtlInv, CoreInv, LockTold, ServerTold, ClientTold
<1>8. SettingsTold(ctl)'
    BY <1>a, <1>1, <1>3, <1>6 DEF ControlInv, CtlInv, CoreInv, SettingsTold, Pending
<1>9. (ControlTypeOK(ctl, want) /\ PowerQueued(ctl) /\ SettingsQueued(ctl, want))'
    BY <1>a, <1>3, <1>5 DEF ControlTypeOK, PowerQueued, Votes, SettingsQueued, Settles
<1> QED
    BY <1>a, <1>7, <1>8, <1>9 DEF ControlInv, CtlInv, CoreInv, ModemTypeOK

LEMMA DownStep ==
    ASSUME ControlInv, ModemDown
    PROVE  ControlInv'
<1>1. ctl' = ctl /\ want' = want /\ modem' = [up |-> FALSE, told |-> [i \in Items |-> UNKNOWN]]
    BY DEF ModemDown
<1>2. modem'.up = FALSE /\ \A i \in Items : modem'.told[i] = UNKNOWN
    BY <1>1
<1>3. ModemTypeOK'
    BY <1>1 DEF ModemTypeOK, UNKNOWN
<1>4. LockTold(ctl)' /\ SettingsTold(ctl)' /\ ServerTold(ctl)' /\ ClientTold(ctl)'
    BY <1>1, <1>2, ItemFacts DEF ControlInv, CtlInv, CoreInv, LockTold, SettingsTold, ServerTold, ClientTold,
                                 Pending
<1> QED
    BY <1>1, <1>3, <1>4 DEF ControlInv, CtlInv, CoreInv, ControlTypeOK, PowerQueued, Votes, SettingsQueued,
                            Settles

LEMMA UpStep ==
    ASSUME ControlInv, ModemUp
    PROVE  ControlInv'
<1> DEFINE m == [kind |-> "SetConfig"]
           u == Post(ctl, m)
<1>a. want' = want /\ modem' = [modem EXCEPT !.up = TRUE] /\ ctl' = u
    BY DEF ModemUp
<1>b. ctl \in ControlRecords /\ CoreInv(ctl, want) /\ PowerQueued(ctl) /\ ModemTypeOK /\ SettingsQueued(ctl, want)
    BY DEF ControlInv, CtlInv, CoreInv, ControlTypeOK
<1>c. m \in ControlMsgs /\ MsgOK(m) /\ m.kind = "SetConfig"
    BY DEF ControlMsgs, MsgOK
<1>d. u = [ctl EXCEPT !.queue = Append(@, m)]
    BY DEF Post
<1> HIDE DEF m, u
<1>1. /\ u.queue = Append(ctl.queue, m) /\ u.conf = ctl.conf /\ u.mServerUrl = ctl.mServerUrl
      /\ u.mPowerVoteId = ctl.mPowerVoteId /\ u.capabilities = ctl.capabilities /\ u.refused = ctl.refused
      /\ u.mPendingConfig = ctl.mPendingConfig /\ u.mConfig = ctl.mConfig /\ u.api = ctl.api
      /\ u.mSessionIdCounter = ctl.mSessionIdCounter /\ u.session = ctl.session /\ u.mEnabled = ctl.mEnabled
    BY <1>b, <1>d DEF ControlRecords
<1>2. Append(ctl.queue, m) \in Seq(ControlMsgs)
    BY <1>b, <1>c, ControlFields
<1>3. u \in ControlRecords
    BY <1>b, <1>c, <1>d, <1>2 DEF ControlRecords
<1>4. Posted(ctl, u, m)
  <2>1. ctl.mSessionIdCounter >= ctl.mSessionIdCounter /\ ctl.session <= ctl.mSessionIdCounter
      BY <1>b, ControlFields DEF PowerQueued
  <2> QED
      BY <2>1, <1>b, <1>c, <1>1, <1>3 DEF Posted
<1>5. CoreInv(u, want)
    BY <1>b, <1>4, CorePosted
<1>6. \A i : ~Sets(m, i)
    BY <1>c DEF Sets
<1>7. SettingsQueued(u, want)
  <2>1. CASE ctl.api
    <3>1. \A i \in Items : IsKept(i) => Settles(u, i, Goal(want, i))
        BY <2>1, <1>b, <1>c, <1>1, <1>3, <1>6, SettlesGrown DEF SettingsQueued
    <3> QED
        BY <3>1, <2>1, <1>b, <1>1 DEF SettingsQueued
  <2>2. CASE ~ctl.api
    <3>1. \A k \in 1..Len(u.queue) : u.queue[k].kind # "Config"
      <4>1. \A k \in 1..Len(ctl.queue) : ctl.queue[k].kind # "Config"
          BY <2>2, <1>b DEF SettingsQueued
      <4> QED
          BY <4>1, <1>b, <1>c, <1>1, ControlFields, AppendOf
    <3> QED
        BY <3>1, <2>2, <1>b, <1>1 DEF SettingsQueued
  <2> QED
      BY <2>1, <2>2
<1>8. Pending(u, "SetConfig")
  <2>1. Len(ctl.queue) + 1 \in 1..Len(u.queue) /\ u.queue[Len(ctl.queue) + 1] = m
      BY <1>b, <1>c, <1>1, ControlFields
  <2> QED
      BY <2>1, <1>c DEF Pending
<1>9. modem'.told = modem.told /\ ModemTypeOK'
    BY <1>a, <1>b DEF ModemTypeOK
<1>10. LockTold(u) /\ ServerTold(u) /\ ClientTold(u) /\ ControlTypeOK(u, want) /\ PowerQueued(u)
    BY <1>5 DEF CoreInv
<1>11. LockTold(ctl)' /\ ServerTold(ctl)' /\ ClientTold(ctl)'
    BY <1>10, <1>a, <1>9 DEF LockTold, ServerTold, ClientTold, Pending
<1>12. SettingsTold(ctl)'
    BY <1>8, <1>a DEF SettingsTold, Pending
<1>13. (ControlTypeOK(ctl, want) /\ PowerQueued(ctl) /\ SettingsQueued(ctl, want))'
    BY <1>7, <1>10, <1>a DEF ControlTypeOK, PowerQueued, Votes, SettingsQueued, Settles
<1> QED
    BY <1>9, <1>11, <1>12, <1>13 DEF ControlInv, CtlInv, CoreInv

(* The modem stays as it is while the HAL calls.                                       *)
LEMMA CallInv ==
    ASSUME ControlInv, modem' = modem, NEW t, ctl' = t, NEW w, want' = w, CtlInv(t, w)
    PROVE  ControlInv'
<1>1. ModemTypeOK'
    BY DEF ControlInv, ModemTypeOK
<1>2. LockTold(t) /\ SettingsTold(t) /\ ServerTold(t) /\ ClientTold(t) /\ ControlTypeOK(t, w) /\ PowerQueued(t)
      /\ SettingsQueued(t, w)
    BY DEF CtlInv, CoreInv
<1>3. LockTold(ctl)' /\ SettingsTold(ctl)' /\ ServerTold(ctl)' /\ ClientTold(ctl)'
    BY <1>2 DEF LockTold, SettingsTold, ServerTold, ClientTold, Pending
<1>4. (ControlTypeOK(ctl, want) /\ PowerQueued(ctl) /\ SettingsQueued(ctl, want))'
    BY <1>2 DEF ControlTypeOK, PowerQueued, Votes, SettingsQueued, Settles
<1> QED
    BY <1>1, <1>3, <1>4 DEF ControlInv, CtlInv, CoreInv

THEOREM ControlNextInv == ControlInv /\ [ControlNext]_controlVars => ControlInv'
<1> SUFFICES ASSUME ControlInv, [ControlNext]_controlVars PROVE ControlInv'
    OBVIOUS
<1>a. CtlInv(ctl, want)
    BY DEF ControlInv
<1>1. CASE ControlHandler
    BY <1>1, EnableStep, DisableStep, SetConfigStep, UpdateConfigStep, CapabilitiesStep DEF ControlHandler
<1>2. CASE ModemDown \/ ModemUp
    BY <1>2, DownStep, UpStep
<1>3. CASE setCallback
  <2>1. ctl' = locAPIEnable(getApi(ctl)) /\ want' = want /\ modem' = modem
      BY <1>3 DEF setCallback, Calls
  <2>2. CtlInv(getApi(ctl), want) /\ getApi(ctl).api
      BY <1>a, GetApiInv
  <2>3. CtlInv(locAPIEnable(getApi(ctl)), want)
      BY <2>2, EnableInv
  <2> QED
      BY <2>1, <2>3, CallInv
<1>4. CASE cleanup
  <2>1. ctl' = locAPIDisable(ctl) /\ want' = want /\ modem' = modem /\ ctl.mEnabled
      BY <1>4 DEF cleanup, Calls
  <2>2. CtlInv(locAPIDisable(ctl), want)
      BY <2>1, <1>a, DisableInv
  <2> QED
      BY <2>1, <2>2, CallInv
<1>5. CASE updateConfiguration
    BY <1>5, UpdateStep
<1>6. CASE UNCHANGED controlVars
  <2>1. ctl' = ctl /\ want' = want /\ modem' = modem
      BY <1>6 DEF controlVars
  <2> QED
      BY <2>1, <1>a, CallInv
<1> QED
    BY <1>1, <1>2, <1>3, <1>4, <1>5, <1>6 DEF ControlNext

THEOREM ControlInitInv == ControlInit => ControlInv
<1> SUFFICES ASSUME ControlInit PROVE ControlInv
    OBVIOUS
<1> DEFINE m == [kind |-> "SetConfig"]
<1>1. m \in ControlMsgs /\ m.kind = "SetConfig"
    BY DEF ControlMsgs
<1> HIDE DEF m
<1>2. /\ ctl.queue = <<m>> /\ ctl.conf = GPS_CONF /\ ctl.mServerUrl = NOHOST /\ ctl.mPowerVoteId = 0
      /\ ctl.mSessionIdCounter = 0 /\ ctl.api = FALSE /\ ctl.mPendingConfig = << >> /\ ctl.mConfig = << >>
      /\ ctl.mEnabled = FALSE /\ ctl.session = 0
    BY DEF ControlInit, m
<1>3. <<m>> \in Seq(ControlMsgs) /\ Len(<<m>>) = 1 /\ \A k \in 1..Len(<<m>>) : <<m>>[k] = m
    BY <1>1
<1>4. GPS_CONF \in [Items -> Nat] /\ << >> \in Configs
    BY ItemFacts, ConfigFacts DEF GPS_CONF
<1>5. ctl \in ControlRecords
    BY <1>3, <1>4 DEF ControlInit, ControlRecords, NOHOST, UNKNOWN, m
<1>6. want = << >> /\ modem.up = TRUE /\ \A i \in Items : modem.told[i] = UNKNOWN
    BY DEF ControlInit
<1>7. ModemTypeOK
    BY DEF ControlInit, ModemTypeOK, UNKNOWN
<1>8. ControlTypeOK(ctl, want)
    BY <1>1, <1>2, <1>3, <1>5, <1>6, ConfigFacts DEF ControlTypeOK, MsgOK, ConfigOK
<1>9. PowerQueued(ctl)
  <2> DEFINE v == [k \in 0..1 |-> 0]
  <2>1. v \in [0..1 -> 0..0] /\ v[0] = 0 /\ v[1] = 0 /\ \A k \in 1..1 : v[k] = v[k - 1]
      OBVIOUS
  <2> HIDE DEF v
  <2>2. Votes(ctl, v)
      BY <2>1, <1>1, <1>2, <1>3 DEF Votes
  <2> QED
      BY <2>1, <2>2, <1>2, <1>3 DEF PowerQueued
<1>10. SettingsQueued(ctl, want)
    BY <1>1, <1>2, <1>3, <1>6, ConfigFacts DEF SettingsQueued
<1>11. Pending(ctl, "SetConfig")
    BY <1>1, <1>2, <1>3 DEF Pending
<1>12. LockTold(ctl) /\ SettingsTold(ctl) /\ ServerTold(ctl) /\ ClientTold(ctl)
    BY <1>2, <1>6, <1>11, ItemFacts DEF LockTold, SettingsTold, ServerTold, ClientTold, NOHOST
<1> QED
    BY <1>7, <1>8, <1>9, <1>10, <1>12 DEF ControlInv, CtlInv, CoreInv

(* The inductive invariant of power and configuration: what is queued leads from what  *)
(* the adapter holds to what the HAL's client and the framework want, and the modem    *)
(* has been told what the adapter holds.                                               *)
THEOREM ControlInvariant == Spec => []ControlInv
<1>1. Init => ControlInv
    BY ControlInitInv DEF Init
<1>2. ControlInv /\ [Next]_vars => ControlInv'
  <2>1. [Next]_vars => [ControlNext]_controlVars
      BY DEF Next, Tracks, Controls, Notifies, Observes, vars
  <2> QED
      BY <2>1, ControlNextInv
<1> QED
    BY <1>1, <1>2, PTL DEF Spec

(* PowerAgrees: when the adapter's queue is empty the engine has exactly the vote of   *)
(* the client that enabled it and the modem the lock that goes with it, whatever       *)
(* enables, disables, settings, refusals and restarts came before.                     *)
THEOREM PowerAlwaysAgrees == Spec => []PowerAgrees
<1>1. ControlInv => PowerAgrees
  <2> SUFFICES ASSUME ControlInv, ctl.queue = << >>
               PROVE  /\ ctl.mPowerVoteId = IF ctl.mEnabled THEN ctl.session ELSE 0
                      /\ ctl.api /\ modem.told["gpsLock"] # UNKNOWN /\ "gpsLock" \notin ctl.refused
                          => modem.told["gpsLock"] =
                              IF ctl.mEnabled \/ "gpsLock" \notin DOMAIN want THEN LOCK_NONE
                              ELSE want["gpsLock"]
      BY DEF PowerAgrees
  <2>1. Len(ctl.queue) = 0
    <3>1. Len(<< >>) = 0
        OBVIOUS
    <3> QED
        BY <3>1
  <2>2. PICK v \in [0..0 -> 0..ctl.mSessionIdCounter] : Votes(ctl, v)
      BY <2>1 DEF ControlInv, CtlInv, CoreInv, PowerQueued
  <2>3. ctl.mPowerVoteId = IF ctl.mEnabled THEN ctl.session ELSE 0
      BY <2>1, <2>2 DEF Votes
  <2>4. ctl.mEnabled => ctl.session > 0
      BY DEF ControlInv, CtlInv, CoreInv, PowerQueued
  <2>5. "gpsLock" \in Items /\ IsKept("gpsLock")
      BY LockAside, ItemFacts DEF IsKept
  <2>6. ctl.api => ctl.conf["gpsLock"] = Goal(want, "gpsLock")
      BY <2>1, <2>5 DEF ControlInv, CtlInv, SettingsQueued, Settles
  <2>7. Goal(want, "gpsLock") = IF "gpsLock" \in DOMAIN want THEN want["gpsLock"] ELSE LOCK_NONE
      BY ItemFacts DEF Goal, LOCK_NONE
  <2>8. LockTold(ctl)
      BY DEF ControlInv, CtlInv, CoreInv
  <2> QED
      BY <2>3, <2>4, <2>6, <2>7, <2>8 DEF LockTold
<1> QED
    BY <1>1, ControlInvariant, PTL

(* SettingsArrive: when the queue is empty and the modem is up, every setting has the  *)
(* value the framework set last, in the copy of gps.conf, in the modem and in the      *)
(* capabilities the client was told.                                                   *)
THEOREM SettingsAlwaysArrive == Spec => []SettingsArrive
<1>1. ControlInv => SettingsArrive
  <2> SUFFICES ASSUME ControlInv, ctl.queue = << >>, ctl.api, modem.up, AGPS_CONFIG_INJECT
               PROVE  /\ \A i \in DOMAIN want :
                          /\ fromConf(i, ctl.conf[i]) = want[i]
                          /\ i \in (Injected \cup Protocols) \ ctl.refused => modem.told[i] = want[i]
                          /\ i = "server" /\ i \notin ctl.refused => modem.told[i] \in {want[i], UNKNOWN}
                      /\ ctl.capabilities = ctl.conf["suplMode"]
      BY DEF SettingsArrive
  <2>1. Len(ctl.queue) = 0
    <3>1. Len(<< >>) = 0
        OBVIOUS
    <3> QED
        BY <3>1
  <2>2. \A kind : ~Pending(ctl, kind)
      BY <2>1 DEF Pending
  <2>3. \A i \in Items : ctl.conf[i] = Goal(want, i)
      BY <2>1 DEF ControlInv, CtlInv, SettingsQueued, Settles, IsKept
  <2>4. DOMAIN want \subseteq Items /\ \A i \in DOMAIN want : want[i] \in Values(i)
      BY ConfigFacts DEF ControlInv, CtlInv, CoreInv, ControlTypeOK
  <2>5. \A i \in DOMAIN want : ctl.conf[i] = toConf(i, want[i]) /\ fromConf(i, ctl.conf[i]) = want[i]
      BY <2>3, <2>4, ItemFacts DEF Goal
  <2>6. "server" \in DOMAIN want => ctl.conf["server"] = want["server"]
      BY <2>5, ItemFacts
  <2>7. SettingsTold(ctl) /\ ServerTold(ctl) /\ ClientTold(ctl)
      BY DEF ControlInv, CtlInv, CoreInv
  <2> QED
      BY <2>2, <2>5, <2>6, <2>7 DEF SettingsTold, ServerTold, ClientTold
<1> QED
    BY <1>1, ControlInvariant, PTL

-----------------------------------------------------------------------------
(* Tracking *)

\* The record of the adapter, and the modem's; the callbacks and event masks are arbitrary.
AdapterShape(t) ==
    t = [queue |-> t.queue, mClientData |-> t.mClientData, mTrackingSessions |-> t.mTrackingSessions,
         mEvtMask |-> t.mEvtMask, mSessionIdCounter |-> t.mSessionIdCounter, client |-> t.client,
         failed |-> t.failed, orphaned |-> t.orphaned, lost |-> t.lost]

EngineOK(e) == e = [up |-> e.up, fix |-> e.fix, mask |-> e.mask] /\ e.up \in BOOLEAN /\ e.fix \in Nat

SessionsOK(x) ==
    /\ x = [k \in DOMAIN x |-> x[k]] /\ IsFiniteSet(DOMAIN x)
    /\ \A k \in DOMAIN x : x[k] \in Intervals

ClientsOK(client) ==
    /\ DOMAIN client = Clients
    /\ \A c \in Clients : /\ {"mLocationOptions", "session", "mTracking", "api", "cbs", "gone"} \subseteq DOMAIN client[c]
                          /\ client[c].mLocationOptions \in Intervals

\* A request carries an interval, and a start an id that has no session yet.
RequestOK(t, m) ==
    /\ m.kind \in {"Start", "Update"} => m.i \in Intervals
    /\ m.kind = "Start" => /\ m.id \in Nat /\ m.id <= t.mSessionIdCounter
                           /\ \A k \in Sessions(t) : k # <<m.c, m.id>>

SameStart(m, n) == m.kind = "Start" /\ n.kind = "Start" /\ n.id = m.id

\* A session that does not start has an id the counter has passed.
RequestsOK(t) ==
    /\ \E S : t.queue \in Seq(S)
    /\ t.mSessionIdCounter \in Nat
    /\ \A k \in 1..Len(t.queue) : RequestOK(t, t.queue[k])
    /\ \A k, j \in 1..Len(t.queue) : SameStart(t.queue[k], t.queue[j]) => k = j
    /\ \A k \in Sessions(t) : k[2] \in Nat /\ k[2] <= t.mSessionIdCounter

RestartPending(t) == \E k \in 1..Len(t.queue) : t.queue[k].kind = "Restart"

\* The modem's interval for the sessions x.
Pace(x) == IF DOMAIN x = {} THEN OFF ELSE Smallest(x)

\* It follows the sessions, provided that b.
Follows(x, e, b) ==
    /\ DOMAIN x = {} => e.fix = OFF
    /\ e.up /\ b => e.fix = Pace(x)


\* Everything about the adapter t but the modem.
AdapterOK(t) == AdapterShape(t) /\ SessionsOK(t.mTrackingSessions) /\ ClientsOK(t.client) /\ RequestsOK(t)

\* Nothing stands between the modem and the sessions.
InStep(t) == ~t.lost /\ ~RestartPending(t)

TrackOK(t, e) == AdapterOK(t) /\ EngineOK(e) /\ Follows(t.mTrackingSessions, e, InStep(t))

TrackingInv == TrackOK(g, engine)

\* The sessions with one entered, and with one erased.
With(x, key, i) == [k \in DOMAIN x \cup {key} |-> IF k = key THEN i ELSE x[k]]
Without(x, key) == [k \in DOMAIN x \ {key} |-> x[k]]

\* A set of naturals that is not empty has a least element.
LEMMA LeastNumber ==
    ASSUME NEW T \in SUBSET Nat, T # {}
    PROVE  \E x \in T : \A y \in T : x <= y
<1> DEFINE R == OpToRel(<, Nat)
<1>1. IsWellFoundedOn(R, Nat)
    BY NatLessThanWellFounded
<1>2. \A y, x \in Nat : <<y, x>> \in R <=> y < x
    BY DEF OpToRel
<1> HIDE DEF R
<1>3. PICK x \in T : \A y \in T : ~ (<<y, x>> \in R)
    BY <1>1, WFMin
<1>4. \A y \in T : x <= y
  <2> TAKE y \in T
  <2>1. y \in Nat /\ x \in Nat
      OBVIOUS
  <2>2. ~(y < x)
      BY <1>2, <1>3, <2>1
  <2> QED
      BY <2>1, <2>2
<1> QED
    BY <1>4

\* The smallest interval of the sessions is that of one of them.
LEMMA SmallestOf ==
    ASSUME NEW x, SessionsOK(x), DOMAIN x # {}
    PROVE  /\ Smallest(x) \in Nat /\ Smallest(x) # OFF
           /\ \A k \in DOMAIN x : Smallest(x) <= x[k]
           /\ \E k \in DOMAIN x : Smallest(x) = x[k]
<1> DEFINE T == {x[k] : k \in DOMAIN x}
<1>1. Range(x) = T
    BY DEF Range
<1>2. T \in SUBSET Nat /\ T # {} /\ \A y \in T : y # OFF
    BY TrackingAssumption DEF SessionsOK
<1>3. Smallest(x) = Min(T)
    BY <1>1 DEF Smallest
<1>4. Min(T) \in T /\ \A y \in T : Min(T) <= y
  <2> HIDE DEF T
  <2>1. \E z \in T : \A y \in T : z <= y
      BY <1>2, LeastNumber
  <2> QED
      BY <2>1 DEF Min
<1>5. Smallest(x) \in T /\ \A y \in T : Smallest(x) <= y
    BY <1>3, <1>4
<1>6. Smallest(x) \in Nat /\ Smallest(x) # OFF
    BY <1>2, <1>5
<1>7. \A k \in DOMAIN x : Smallest(x) <= x[k]
    BY <1>5
<1>8. \E k \in DOMAIN x : Smallest(x) = x[k]
    BY <1>5
<1> QED
    BY <1>6, <1>7, <1>8

\* It is the interval of any session that none is below.
LEMMA SmallestIs ==
    ASSUME NEW x, SessionsOK(x), NEW j \in DOMAIN x, \A k \in DOMAIN x : x[j] <= x[k]
    PROVE  Smallest(x) = x[j]
<1>1. \A k \in DOMAIN x : x[k] \in Nat
    BY TrackingAssumption DEF SessionsOK
<1>2. Smallest(x) <= x[j] /\ Smallest(x) \in Nat
    BY SmallestOf
<1>3. PICK k \in DOMAIN x : Smallest(x) = x[k]
    BY SmallestOf
<1> QED
    BY <1>1, <1>2, <1>3

LEMMA WithOK ==
    ASSUME NEW x, SessionsOK(x), NEW key, NEW i \in Intervals
    PROVE  /\ SessionsOK(With(x, key, i)) /\ DOMAIN With(x, key, i) = DOMAIN x \cup {key}
           /\ With(x, key, i)[key] = i
           /\ \A k \in DOMAIN x \ {key} : With(x, key, i)[k] = x[k]
<1>1. IsFiniteSet(DOMAIN x \cup {key})
    BY FS_AddElement DEF SessionsOK
<1> QED
    BY <1>1 DEF SessionsOK, With

LEMMA WithoutOK ==
    ASSUME NEW x, SessionsOK(x), NEW key
    PROVE  /\ SessionsOK(Without(x, key)) /\ DOMAIN Without(x, key) = DOMAIN x \ {key}
           /\ \A k \in DOMAIN x \ {key} : Without(x, key)[k] = x[k]
<1>1. IsFiniteSet(DOMAIN x \ {key})
    BY FS_RemoveElement DEF SessionsOK
<1> QED
    BY <1>1 DEF SessionsOK, Without

LEMMA OnlySession ==
    ASSUME NEW x, SessionsOK(x), NEW key \in DOMAIN x
    PROVE  Cardinality(DOMAIN x) = 1 <=> DOMAIN x = {key}
<1>1. IsFiniteSet(DOMAIN x)
    BY DEF SessionsOK
<1>2. (\E k : DOMAIN x = {k}) <=> Cardinality(DOMAIN x) = 1
    BY <1>1, FS_Singleton
<1> QED
    BY <1>2

\* What the tables' operators do.
LEMMA TableOps ==
    ASSUME NEW t, AdapterShape(t), NEW key, NEW i
    PROVE  /\ saveTrackingSession(t, key, i)
                = [t EXCEPT !.mTrackingSessions = With(t.mTrackingSessions, key, i)]
           /\ eraseTrackingSession(t, key)
                = [t EXCEPT !.mTrackingSessions = Without(t.mTrackingSessions, key)]
           /\ OthersThan(t, key) = Without(t.mTrackingSessions, key)
BY DEF saveTrackingSession, eraseTrackingSession, OthersThan, With, Without, Restrict, Sessions, AdapterShape

-----------------------------------------------------------------------------
(* Multiplexing keeps the pace *)

\* A session starts.
LEMMA StartPace ==
    ASSUME NEW t, AdapterShape(t), SessionsOK(t.mTrackingSessions), NEW e, EngineOK(e), NEW b,
           Follows(t.mTrackingSessions, e, b), NEW key, key \notin Sessions(t), NEW i \in Intervals,
           NEW cmd, cmd = startTrackingMultiplex(t, i), e.up \/ cmd = {}
    PROVE  Follows(With(t.mTrackingSessions, key, i), Obeys(e, cmd, TRUE), b) /\ EngineOK(Obeys(e, cmd, TRUE))
<1> DEFINE x == t.mTrackingSessions
           y == With(x, key, i)
           f == Obeys(e, cmd, TRUE)
<1> SUFFICES Follows(y, f, b) /\ EngineOK(f)
    OBVIOUS
<1>0. SessionsOK(x) /\ Follows(x, e, b)
    OBVIOUS
<1>1. SessionsOK(y) /\ DOMAIN y = DOMAIN x \cup {key} /\ y[key] = i /\ \A k \in DOMAIN x : y[k] = x[k]
  <2>1. key \notin DOMAIN x
      BY DEF Sessions
  <2> HIDE DEF x
  <2>2. /\ SessionsOK(y) /\ DOMAIN y = DOMAIN x \cup {key}
        /\ y[key] = i /\ \A k \in DOMAIN x \ {key} : y[k] = x[k]
      BY <1>0, WithOK
  <2> HIDE DEF y
  <2> QED
      BY <2>1, <2>2
<1>2. i \in Nat /\ \A k \in DOMAIN x : x[k] \in Nat
    BY TrackingAssumption DEF SessionsOK
<1>3. cmd = IF DOMAIN x = {} \/ i < Smallest(x) THEN {i} ELSE {}
    BY DEF startTrackingMultiplex, Sessions
<1>4. CASE DOMAIN x = {} \/ i < Smallest(x)
  <2>1. f = [e EXCEPT !.fix = i]
      BY <1>3, <1>4 DEF Obeys
  <2>2. \A k \in DOMAIN y : y[key] <= y[k]
    <3> SUFFICES ASSUME NEW k \in DOMAIN x
                 PROVE  i <= x[k]
        BY <1>1, <1>2
    <3>1. i < Smallest(x) /\ Smallest(x) <= x[k] /\ Smallest(x) \in Nat
        BY <1>4, SmallestOf
    <3> QED
        BY <3>1, <1>2
  <2>3. Smallest(y) = i
    <3> HIDE DEF y
    <3> QED
        BY <1>1, <2>2, SmallestIs
  <2> HIDE DEF x, y, f
  <2>4. f = [up |-> e.up, fix |-> i, mask |-> e.mask]
      BY <2>1 DEF EngineOK
  <2> QED
      BY <1>1, <1>2, <2>4, <2>3 DEF Follows, Pace, EngineOK
<1>5. CASE DOMAIN x # {} /\ ~(i < Smallest(x))
  <2>1. f = e
      BY <1>3, <1>5 DEF Obeys
  <2>2. PICK j \in DOMAIN x : Smallest(x) = x[j]
      BY <1>5, SmallestOf
  <2>3. \A k \in DOMAIN x : x[j] <= x[k]
      BY <1>5, <2>2, SmallestOf
  <2>4. \A k \in DOMAIN y : y[j] <= y[k]
      BY <1>1, <1>2, <1>5, <2>2, <2>3
  <2>5. Smallest(y) = x[j]
    <3>1. j \in DOMAIN y /\ y[j] = x[j]
        BY <1>1
    <3> HIDE DEF y
    <3> QED
        BY <1>1, <3>1, <2>4, SmallestIs
  <2> HIDE DEF x, y, f
  <2> QED
      BY <1>0, <1>1, <1>5, <2>1, <2>2, <2>5 DEF Follows, Pace
<1> QED
    BY <1>4, <1>5

\* The pace of the sessions other than one, and of all of them.
LEMMA OthersPace ==
    ASSUME NEW x, SessionsOK(x), NEW key \in DOMAIN x, DOMAIN x # {key}
    PROVE  LET s == Smallest(Without(x, key))
           IN  /\ s \in Nat /\ s # OFF /\ x[key] \in Nat
               /\ DOMAIN Without(x, key) # {}
               /\ Smallest(x) = IF x[key] < s THEN x[key] ELSE s
<1> DEFINE y == Without(x, key)
           s == Smallest(y)
<1>1. SessionsOK(y) /\ DOMAIN y = DOMAIN x \ {key} /\ \A k \in DOMAIN y : y[k] = x[k]
    BY WithoutOK
<1>2. DOMAIN y # {}
    BY <1>1
<1>3. \A k \in DOMAIN x : x[k] \in Nat
    BY TrackingAssumption DEF SessionsOK
<1> HIDE DEF y
<1>4. s \in Nat /\ s # OFF /\ \A k \in DOMAIN y : s <= y[k]
    BY <1>1, <1>2, SmallestOf
<1>5. PICK j \in DOMAIN y : s = y[j]
    BY <1>1, <1>2, SmallestOf
<1> HIDE DEF s
<1>6. CASE x[key] < s
  <2>1. \A k \in DOMAIN x : x[key] <= x[k]
      BY <1>1, <1>3, <1>4, <1>6
  <2>2. Smallest(x) = x[key]
      BY <2>1, SmallestIs
  <2> QED
      BY <1>2, <1>3, <1>4, <1>6, <2>2 DEF s, y
<1>7. CASE ~(x[key] < s)
  <2>1. j \in DOMAIN x /\ x[j] = s
      BY <1>1, <1>5
  <2>2. \A k \in DOMAIN x : x[j] <= x[k]
    <3> TAKE k \in DOMAIN x
    <3>1. CASE k = key
        BY <1>3, <1>4, <1>7, <2>1, <3>1
    <3>2. CASE k # key
        BY <1>1, <1>4, <2>1, <3>2
    <3> QED
        BY <3>1, <3>2
  <2>3. Smallest(x) = s
      BY <2>1, <2>2, SmallestIs
  <2> QED
      BY <1>2, <1>3, <1>4, <1>7, <2>3 DEF s, y
<1> QED
    BY <1>6, <1>7

\* A session ends.
LEMMA StopPace ==
    ASSUME NEW t, AdapterShape(t), SessionsOK(t.mTrackingSessions), NEW e, EngineOK(e), NEW b,
           Follows(t.mTrackingSessions, e, b), NEW key \in Sessions(t),
           NEW cmd, cmd = stopTrackingMultiplex(t, key), e.up \/ cmd = {}
    PROVE  Follows(Without(t.mTrackingSessions, key), Obeys(e, cmd, TRUE), b) /\ EngineOK(Obeys(e, cmd, TRUE))
<1> DEFINE x == t.mTrackingSessions
           y == Without(x, key)
           s == Smallest(y)
           f == Obeys(e, cmd, TRUE)
<1> SUFFICES Follows(y, f, b) /\ EngineOK(f)
    OBVIOUS
<1>0. SessionsOK(x) /\ Follows(x, e, b)
    OBVIOUS
<1>1. key \in DOMAIN x /\ (Cardinality(DOMAIN x) = 1 <=> DOMAIN x = {key})
    BY OnlySession DEF Sessions
<1>2. DOMAIN y = DOMAIN x \ {key}
    BY WithoutOK
<1>3. cmd = IF DOMAIN x = {key} THEN {OFF} ELSE IF x[key] < s THEN {s} ELSE {}
    BY <1>1, TableOps DEF stopTrackingMultiplex, Sessions
<1>4. CASE DOMAIN x = {key}
  <2>1. f = [e EXCEPT !.fix = OFF]
      BY <1>3, <1>4 DEF Obeys
  <2>2. f = [up |-> e.up, fix |-> OFF, mask |-> e.mask] /\ OFF \in Nat
      BY <2>1 DEF EngineOK, OFF
  <2> HIDE DEF x, y, f
  <2> QED
      BY <1>2, <1>4, <2>2 DEF Follows, Pace, EngineOK
<1>5. CASE DOMAIN x # {key}
  <2>1. /\ s \in Nat /\ s # OFF /\ x[key] \in Nat /\ DOMAIN y # {}
        /\ Smallest(x) = IF x[key] < s THEN x[key] ELSE s
      BY <1>1, <1>5, OthersPace
  <2>2. Pace(y) = s /\ Pace(x) = Smallest(x)
      BY <1>1, <2>1 DEF Pace
  <2>3. CASE x[key] < s
    <3>1. f = [e EXCEPT !.fix = s]
        BY <1>3, <1>5, <2>3 DEF Obeys
    <3> HIDE DEF x, y, s, f
    <3> QED
        BY <2>1, <2>2, <3>1 DEF Follows, EngineOK
  <2>4. CASE ~(x[key] < s)
    <3>1. f = e
        BY <1>3, <1>5, <2>4 DEF Obeys
    <3>2. Pace(x) = s
        BY <2>1, <2>2, <2>4
    <3> HIDE DEF x, y, s, f
    <3> QED
        BY <1>0, <2>1, <2>2, <3>1, <3>2 DEF Follows
  <2> QED
      BY <2>3, <2>4
<1> QED
    BY <1>4, <1>5

\* A session changes its interval.
LEMMA UpdatePace ==
    ASSUME NEW t, AdapterShape(t), SessionsOK(t.mTrackingSessions), NEW e, EngineOK(e), NEW b,
           Follows(t.mTrackingSessions, e, b), NEW key \in Sessions(t), NEW i \in Intervals,
           NEW cmd, cmd = updateTrackingMultiplex(t, key, i), e.up \/ cmd = {}
    PROVE  Follows(With(t.mTrackingSessions, key, i), Obeys(e, cmd, TRUE), b) /\ EngineOK(Obeys(e, cmd, TRUE))
<1> DEFINE x == t.mTrackingSessions
           y == With(x, key, i)
           s == Smallest(Without(x, key))
           f == Obeys(e, cmd, TRUE)
<1> SUFFICES Follows(y, f, b) /\ EngineOK(f)
    OBVIOUS
<1>0. SessionsOK(x) /\ Follows(x, e, b)
    OBVIOUS
<1>1. key \in DOMAIN x /\ (Cardinality(DOMAIN x) = 1 <=> DOMAIN x = {key})
    BY OnlySession DEF Sessions
<1>2. cmd = IF DOMAIN x = {key} THEN {i} ELSE IF i < s THEN {i} ELSE IF x[key] < s THEN {s} ELSE {}
    BY <1>1, TableOps DEF updateTrackingMultiplex, Sessions
<1>3. i \in Nat
    BY TrackingAssumption
<1> HIDE DEF x
<1>4. /\ SessionsOK(y) /\ DOMAIN y = DOMAIN x \cup {key}
      /\ y[key] = i /\ \A k \in DOMAIN x \ {key} : y[k] = x[k]
    BY <1>0, WithOK
<1>5. DOMAIN y = DOMAIN x /\ y[key] = i
    BY <1>1, <1>4
<1>6. Without(y, key) = Without(x, key)
  <2> HIDE DEF y
  <2>1. \A k \in DOMAIN x \ {key} : y[k] = x[k]
      BY <1>4
  <2> QED
      BY <1>5, <2>1 DEF Without
<1> HIDE DEF y
<1>7. CASE DOMAIN x = {key}
  <2>1. f = [e EXCEPT !.fix = i]
      BY <1>2, <1>7 DEF Obeys
  <2>2. f = [up |-> e.up, fix |-> i, mask |-> e.mask]
      BY <2>1 DEF EngineOK
  <2>3. \A k \in DOMAIN y : y[key] <= y[k]
      BY <1>3, <1>5, <1>7
  <2>4. Smallest(y) = i
      BY <1>1, <1>4, <1>5, <2>3, SmallestIs
  <2> HIDE DEF f
  <2> QED
      BY <1>1, <1>3, <1>5, <2>2, <2>4 DEF Follows, Pace, EngineOK
<1>8. CASE DOMAIN x # {key}
  <2>1. /\ s \in Nat /\ s # OFF /\ x[key] \in Nat
        /\ Smallest(x) = IF x[key] < s THEN x[key] ELSE s
      BY <1>0, <1>1, <1>8, OthersPace
  <2>2. Smallest(y) = IF y[key] < s THEN y[key] ELSE s
      BY <1>1, <1>4, <1>5, <1>6, <1>8, OthersPace
  <2>3. Pace(y) = Smallest(y) /\ Pace(x) = Smallest(x) /\ DOMAIN y # {}
      BY <1>1, <1>5 DEF Pace
  <2> HIDE DEF s
  <2>4. CASE i < s
    <3>1. f = [e EXCEPT !.fix = i]
        BY <1>2, <1>8, <2>4 DEF Obeys
    <3>2. f = [up |-> e.up, fix |-> i, mask |-> e.mask]
        BY <3>1 DEF EngineOK
    <3> HIDE DEF f
    <3> QED
        BY <1>3, <1>5, <2>2, <2>3, <2>4, <3>2 DEF Follows, EngineOK
  <2>5. CASE ~(i < s) /\ x[key] < s
    <3>1. f = [e EXCEPT !.fix = s]
        BY <1>2, <1>8, <2>5 DEF Obeys
    <3>2. f = [up |-> e.up, fix |-> s, mask |-> e.mask]
        BY <3>1 DEF EngineOK
    <3> HIDE DEF f
    <3> QED
        BY <1>5, <2>1, <2>2, <2>3, <2>5, <3>2 DEF Follows, EngineOK
  <2>6. CASE ~(i < s) /\ ~(x[key] < s)
    <3>1. f = e
        BY <1>2, <1>8, <2>6 DEF Obeys
    <3> HIDE DEF f
    <3> QED
        BY <1>0, <1>5, <2>1, <2>2, <2>3, <2>6, <3>1 DEF Follows
  <2> QED
      BY <2>4, <2>5, <2>6
<1> QED
    BY <1>7, <1>8

-----------------------------------------------------------------------------
(* The adapter's queue *)

\* What a request that waits says of the adapter's tables and the other requests.
LEMMA Waiting ==
    ASSUME NEW t, RequestsOK(t), t.queue # << >>
    PROVE  /\ Len(t.queue) \in Nat /\ Len(t.queue) > 0 /\ Len(Tail(t.queue)) = Len(t.queue) - 1
           /\ Head(t.queue) = t.queue[1]
           /\ \A k \in 1..Len(t.queue) - 1 : Tail(t.queue)[k] = t.queue[k + 1]
           /\ \E S : Tail(t.queue) \in Seq(S)
<1>1. PICK S : t.queue \in Seq(S)
    BY DEF RequestsOK
<1>2. /\ Len(t.queue) \in Nat /\ Len(t.queue) > 0 /\ Len(Tail(t.queue)) = Len(t.queue) - 1
      /\ Head(t.queue) = t.queue[1]
      /\ \A k \in 1..Len(t.queue) - 1 : Tail(t.queue)[k] = t.queue[k + 1]
      /\ Tail(t.queue) \in Seq(S)
    BY <1>1
<1> QED
    BY <1>2, Zenon

LEMMA Joining ==
    ASSUME NEW t, RequestsOK(t), NEW m
    PROVE  /\ Len(t.queue) \in Nat /\ Len(Append(t.queue, m)) = Len(t.queue) + 1
           /\ Append(t.queue, m)[Len(t.queue) + 1] = m
           /\ \A k \in 1..Len(t.queue) : Append(t.queue, m)[k] = t.queue[k]
           /\ \E S : Append(t.queue, m) \in Seq(S)
<1>1. PICK S : t.queue \in Seq(S)
    BY DEF RequestsOK
<1>2. t.queue \in Seq(S \cup {m}) /\ m \in S \cup {m}
    BY <1>1
<1>3. /\ Len(t.queue) \in Nat /\ Len(Append(t.queue, m)) = Len(t.queue) + 1
      /\ Append(t.queue, m)[Len(t.queue) + 1] = m
      /\ \A k \in 1..Len(t.queue) : Append(t.queue, m)[k] = t.queue[k]
      /\ Append(t.queue, m) \in Seq(S \cup {m})
    BY <1>2
<1> QED
    BY <1>3, Zenon

\* What no message by itself changes.
SameAside(u, t) ==
    /\ u.client = t.client /\ u.lost = t.lost /\ u.mTrackingSessions = t.mTrackingSessions
    /\ u.mSessionIdCounter = t.mSessionIdCounter

\* A message is added.
LEMMA SendOK ==
    ASSUME NEW t, AdapterOK(t), NEW m, RequestOK(t, m),
           \A k \in 1..Len(t.queue) : ~SameStart(t.queue[k], m)
    PROVE  /\ AdapterOK(sendMsg(t, m)) /\ SameAside(sendMsg(t, m), t)
           /\ RestartPending(sendMsg(t, m)) <=> RestartPending(t) \/ m.kind = "Restart"
<1> DEFINE u == sendMsg(t, m)
           n == Len(t.queue)
<1>1. u = [t EXCEPT !.queue = Append(t.queue, m)]
    BY DEF sendMsg, AdapterOK, AdapterShape
<1>2. /\ u.queue = Append(t.queue, m) /\ u.mTrackingSessions = t.mTrackingSessions /\ AdapterShape(u)
      /\ SameAside(u, t) /\ u.client = t.client /\ u.mSessionIdCounter = t.mSessionIdCounter
      /\ Sessions(u) = Sessions(t)
    BY <1>1 DEF AdapterOK, AdapterShape, Sessions, SameAside
<1>3. RequestsOK(t)
    BY DEF AdapterOK
<1>4. /\ n \in Nat /\ Len(u.queue) = n + 1 /\ u.queue[n + 1] = m
      /\ \A k \in 1..n : u.queue[k] = t.queue[k]
      /\ \E S : u.queue \in Seq(S)
  <2>1. /\ Len(t.queue) \in Nat /\ Len(Append(t.queue, m)) = Len(t.queue) + 1
        /\ Append(t.queue, m)[Len(t.queue) + 1] = m
        /\ \A k \in 1..Len(t.queue) : Append(t.queue, m)[k] = t.queue[k]
        /\ \E S : Append(t.queue, m) \in Seq(S)
      BY <1>3, Joining, Zenon
  <2> HIDE DEF u
  <2> QED
      BY <1>2, <2>1, Zenon
<1>5. \A x : RequestOK(u, x) <=> RequestOK(t, x)
    BY <1>2 DEF RequestOK
<1> HIDE DEF u, n
<1>6. \A k \in 1..n+1 : RequestOK(u, u.queue[k])
  <2> TAKE k \in 1..n+1
  <2>1. CASE k = n + 1
      BY <1>4, <1>5, <2>1
  <2>2. CASE k \in 1..n
    <3>1. RequestOK(t, t.queue[k])
        BY <1>3, <2>2 DEF RequestsOK, n
    <3> QED
        BY <1>4, <1>5, <2>2, <3>1
  <2> QED
      BY <1>4, <2>1, <2>2
<1>7. \A k, j \in 1..n+1 : SameStart(u.queue[k], u.queue[j]) => k = j
  <2> SUFFICES ASSUME NEW k \in 1..n+1, NEW j \in 1..n+1, SameStart(u.queue[k], u.queue[j])
               PROVE  k = j
      OBVIOUS
  <2>0. \A i \in 1..n : ~SameStart(t.queue[i], m) /\ ~SameStart(m, t.queue[i])
      BY DEF SameStart, n
  <2>1. CASE k \in 1..n /\ j \in 1..n
      BY <1>3, <1>4, <2>1 DEF RequestsOK, n
  <2>2. CASE k = n + 1 \/ j = n + 1
    <3>1. CASE k \in 1..n
        BY <1>4, <2>0, <2>2, <3>1
    <3>2. CASE j \in 1..n
        BY <1>4, <2>0, <2>2, <3>2
    <3> QED
        BY <1>4, <3>1, <3>2
  <2> QED
      BY <1>4, <2>1, <2>2
<1>8. RequestsOK(u)
    BY <1>2, <1>3, <1>4, <1>6, <1>7 DEF RequestsOK
<1>9. RestartPending(u) <=> RestartPending(t) \/ m.kind = "Restart"
  <2>1. RestartPending(u) <=> \E k \in 1..n+1 : u.queue[k].kind = "Restart"
      BY <1>4 DEF RestartPending
  <2>2. RestartPending(t) <=> \E k \in 1..n : t.queue[k].kind = "Restart"
      BY DEF RestartPending, n
  <2>3. \A k \in 1..n+1 : k \in 1..n \/ k = n + 1
      BY <1>4
  <2>4. \A k \in 1..n : k \in 1..n+1
      BY <1>4
  <2>5. n + 1 \in 1..n+1
      BY <1>4
  <2> QED
      BY <1>4, <2>1, <2>2, <2>3, <2>4, <2>5
<1> QED
    BY <1>2, <1>8, <1>9 DEF AdapterOK, u

\* The first message is taken.
LEMMA PopOK ==
    ASSUME NEW t, AdapterOK(t), t.queue # << >>
    PROVE  /\ AdapterOK(Popped(t)) /\ RequestOK(t, Head(t.queue))
           /\ SameAside(Popped(t), t)
           /\ \A k \in 1..Len(Popped(t).queue) : ~SameStart(Head(t.queue), Popped(t).queue[k])
           /\ RestartPending(t) <=> RestartPending(Popped(t)) \/ Head(t.queue).kind = "Restart"
<1> DEFINE u == Popped(t)
           n == Len(t.queue)
<1>1. u = [t EXCEPT !.queue = Tail(t.queue)]
    BY DEF Popped, AdapterOK, AdapterShape
<1>2. /\ u.queue = Tail(t.queue) /\ u.mTrackingSessions = t.mTrackingSessions /\ AdapterShape(u)
      /\ SameAside(u, t) /\ u.client = t.client /\ u.mSessionIdCounter = t.mSessionIdCounter
      /\ Sessions(u) = Sessions(t)
    BY <1>1 DEF AdapterOK, AdapterShape, Sessions, SameAside
<1>3. RequestsOK(t)
    BY DEF AdapterOK
<1>4. /\ n \in Nat /\ n > 0 /\ Len(u.queue) = n - 1 /\ Head(t.queue) = t.queue[1]
      /\ \A k \in 1..n-1 : u.queue[k] = t.queue[k + 1]
      /\ \E S : u.queue \in Seq(S)
  <2>1. /\ Len(t.queue) \in Nat /\ Len(t.queue) > 0 /\ Len(Tail(t.queue)) = Len(t.queue) - 1
        /\ Head(t.queue) = t.queue[1]
        /\ \A k \in 1..Len(t.queue) - 1 : Tail(t.queue)[k] = t.queue[k + 1]
        /\ \E S : Tail(t.queue) \in Seq(S)
      BY <1>3, Waiting, Zenon
  <2> HIDE DEF u
  <2> QED
      BY <1>2, <2>1, Zenon
<1>5. \A x : RequestOK(u, x) <=> RequestOK(t, x)
    BY <1>2 DEF RequestOK
<1> HIDE DEF u
<1>6. \A k \in 1..n-1 : k + 1 \in 1..n /\ k + 1 # 1 /\ 1 \in 1..n
    BY <1>4
<1>7. \A k \in 1..n-1 : RequestOK(u, u.queue[k])
    BY <1>3, <1>4, <1>5, <1>6 DEF RequestsOK
<1>8. \A k, j \in 1..n-1 : SameStart(u.queue[k], u.queue[j]) => k = j
  <2> SUFFICES ASSUME NEW k \in 1..n-1, NEW j \in 1..n-1, SameStart(u.queue[k], u.queue[j])
               PROVE  k = j
      OBVIOUS
  <2>1. k + 1 = j + 1
      BY <1>3, <1>4, <1>6 DEF RequestsOK
  <2> QED
      BY <2>1
<1>9. \A k \in 1..n-1 : ~SameStart(t.queue[1], u.queue[k])
    BY <1>3, <1>4, <1>6 DEF RequestsOK
<1>10. RequestOK(t, Head(t.queue))
    BY <1>3, <1>4 DEF RequestsOK
<1>11. RequestsOK(u)
    BY <1>2, <1>3, <1>4, <1>7, <1>8 DEF RequestsOK
<1>12. RestartPending(t) <=> RestartPending(u) \/ Head(t.queue).kind = "Restart"
  <2>1. RestartPending(u) <=> \E k \in 1..n-1 : u.queue[k].kind = "Restart"
      BY <1>4 DEF RestartPending
  <2>2. RestartPending(t) <=> \E k \in 1..n : t.queue[k].kind = "Restart"
      BY DEF RestartPending
  <2>3. \A k \in 1..n : k = 1 \/ (k - 1 \in 1..n-1 /\ t.queue[k] = u.queue[k - 1])
    <3> TAKE k \in 1..n
    <3>1. k # 1 => k - 1 \in 1..n-1 /\ (k - 1) + 1 = k
        BY <1>4
    <3> QED
        BY <1>4, <3>1
  <2>4. 1 \in 1..n
      BY <1>4
  <2> HIDE DEF n
  <2> QED
      BY <1>4, <1>6, <2>1, <2>2, <2>3, <2>4
<1> QED
    BY <1>2, <1>4, <1>9, <1>10, <1>11, <1>12 DEF AdapterOK, u

\* A session is entered whose start does not wait.
LEMMA SaveOK ==
    ASSUME NEW t, AdapterOK(t), NEW c, NEW id, NEW i \in Intervals,
           NEW u, u = saveTrackingSession(t, <<c, id>>, i),
           \/ <<c, id>> \in Sessions(t)
           \/ /\ id \in Nat /\ id <= t.mSessionIdCounter
              /\ \A k \in 1..Len(t.queue) : t.queue[k].kind = "Start" => t.queue[k].id # id
    PROVE  /\ AdapterOK(u)
           /\ u.mTrackingSessions = With(t.mTrackingSessions, <<c, id>>, i)
           /\ u.queue = t.queue /\ u.lost = t.lost
<1> DEFINE key == <<c, id>>
<1>1. u = [t EXCEPT !.mTrackingSessions = With(t.mTrackingSessions, <<c, id>>, i)]
    BY TableOps DEF AdapterOK
<1>2. /\ u.queue = t.queue /\ u.mTrackingSessions = With(t.mTrackingSessions, key, i) /\ AdapterShape(u)
      /\ u.client = t.client /\ u.mSessionIdCounter = t.mSessionIdCounter /\ u.lost = t.lost
    BY <1>1 DEF AdapterOK, AdapterShape
<1>3. SessionsOK(t.mTrackingSessions) /\ RequestsOK(t)
    BY DEF AdapterOK
<1>4. SessionsOK(u.mTrackingSessions) /\ Sessions(u) = Sessions(t) \cup {key}
  <2> DEFINE x == t.mTrackingSessions
  <2> HIDE DEF key, x
  <2>1. SessionsOK(With(x, key, i)) /\ DOMAIN With(x, key, i) = DOMAIN x \cup {key}
      BY <1>3, WithOK DEF x
  <2> QED
      BY <1>2, <2>1 DEF Sessions, x
<1>5. \A k \in Sessions(u) : k[2] \in Nat /\ k[2] <= u.mSessionIdCounter
    BY <1>2, <1>3, <1>4 DEF RequestsOK
<1>6. \A k \in 1..Len(t.queue) : RequestOK(u, t.queue[k])
  <2> TAKE k \in 1..Len(t.queue)
  <2>1. RequestOK(t, t.queue[k])
      BY <1>3 DEF RequestsOK
  <2>2. t.queue[k].kind = "Start" => key # <<t.queue[k].c, t.queue[k].id>>
    <3>1. CASE key \in Sessions(t)
        BY <2>1, <3>1 DEF RequestOK
    <3>2. CASE key \notin Sessions(t)
        BY <3>2
    <3> QED
        BY <3>1, <3>2
  <2> HIDE DEF key
  <2> QED
      BY <1>2, <1>4, <2>1, <2>2 DEF RequestOK
<1>7. RequestsOK(u)
    BY <1>2, <1>3, <1>5, <1>6 DEF RequestsOK
<1> QED
    BY <1>2, <1>4, <1>7 DEF AdapterOK

\* A session is erased.
LEMMA EraseOK ==
    ASSUME NEW t, AdapterOK(t), NEW key, NEW u, u = eraseTrackingSession(t, key)
    PROVE  /\ AdapterOK(u) /\ Sessions(u) = Sessions(t) \ {key}
           /\ u.mTrackingSessions = Without(t.mTrackingSessions, key)
           /\ u.queue = t.queue /\ u.lost = t.lost
<1>1. u = [t EXCEPT !.mTrackingSessions = Without(t.mTrackingSessions, key)]
    BY TableOps DEF AdapterOK
<1>2. /\ u.queue = t.queue /\ u.mTrackingSessions = Without(t.mTrackingSessions, key) /\ AdapterShape(u)
      /\ u.client = t.client /\ u.mSessionIdCounter = t.mSessionIdCounter /\ u.lost = t.lost
    BY <1>1 DEF AdapterOK, AdapterShape
<1>3. SessionsOK(t.mTrackingSessions) /\ RequestsOK(t)
    BY DEF AdapterOK
<1>4. SessionsOK(u.mTrackingSessions) /\ Sessions(u) = Sessions(t) \ {key}
  <2> DEFINE x == t.mTrackingSessions
  <2> HIDE DEF x
  <2>1. SessionsOK(Without(x, key)) /\ DOMAIN Without(x, key) = DOMAIN x \ {key}
      BY <1>3, WithoutOK DEF x
  <2> QED
      BY <1>2, <2>1 DEF Sessions, x
<1>5. \A k \in 1..Len(t.queue) : RequestOK(u, t.queue[k])
    BY <1>2, <1>3, <1>4 DEF RequestsOK, RequestOK
<1>6. RequestsOK(u)
    BY <1>2, <1>3, <1>4, <1>5 DEF RequestsOK
<1> QED
    BY <1>2, <1>4, <1>6 DEF AdapterOK

\* The fields that are in no table matter to nobody.
LEMMA SameTables ==
    ASSUME NEW t, AdapterOK(t), NEW u, AdapterShape(u), u.queue = t.queue, ClientsOK(u.client),
           u.mTrackingSessions = t.mTrackingSessions, u.mSessionIdCounter = t.mSessionIdCounter
    PROVE  AdapterOK(u) /\ (RestartPending(u) <=> RestartPending(t)) /\ Sessions(u) = Sessions(t)
<1>1. Sessions(u) = Sessions(t)
    BY DEF Sessions
<1>2. \A m : RequestOK(u, m) <=> RequestOK(t, m)
    BY <1>1 DEF RequestOK
<1>3. RequestsOK(u)
    BY <1>1, <1>2 DEF RequestsOK, AdapterOK
<1> QED
    BY <1>1, <1>3 DEF AdapterOK, RestartPending

LEMMA Reported ==
    ASSUME NEW t, AdapterOK(t), NEW c, NEW err, NEW u, u = reportResponse(t, c, err)
    PROVE  /\ AdapterOK(u) /\ (RestartPending(u) <=> RestartPending(t)) /\ u.lost = t.lost
           /\ u.mTrackingSessions = t.mTrackingSessions /\ u.mSessionIdCounter = t.mSessionIdCounter
<1>1. CASE err
  <2>1. u = [t EXCEPT !.failed = t.failed \cup {c}]
      BY <1>1 DEF reportResponse, AdapterOK, AdapterShape
  <2>2. /\ AdapterShape(u) /\ u.queue = t.queue /\ u.client = t.client /\ u.lost = t.lost
        /\ u.mTrackingSessions = t.mTrackingSessions /\ u.mSessionIdCounter = t.mSessionIdCounter
      BY <2>1 DEF AdapterOK, AdapterShape
  <2>3. ClientsOK(u.client)
      BY <2>2 DEF AdapterOK
  <2>4. AdapterOK(u) /\ (RestartPending(u) <=> RestartPending(t))
      BY <2>2, <2>3, SameTables
  <2> QED
      BY <2>2, <2>4
<1>2. CASE ~err
    BY <1>2 DEF reportResponse
<1> QED
    BY <1>1, <1>2

\* A handler that changes neither the sessions nor the modem's pace.
LEMMA Unmoved ==
    ASSUME NEW t, NEW e, TrackOK(t, e), t.queue # << >>, Head(t.queue).kind # "Restart",
           NEW u, NEW c, NEW err, u = reportResponse(Popped(t), c, err) \/ u = Popped(t)
    PROVE  TrackOK(u, e)
<1>0. AdapterOK(t) /\ EngineOK(e) /\ Follows(t.mTrackingSessions, e, InStep(t))
    BY DEF TrackOK
<1> DEFINE p == Popped(t)
<1>1. AdapterOK(p) /\ SameAside(p, t) /\ (RestartPending(t) <=> RestartPending(p))
    BY <1>0, PopOK
<1>2. p.mTrackingSessions = t.mTrackingSessions /\ p.lost = t.lost
    BY <1>1 DEF SameAside
<1> HIDE DEF p
<1>3. /\ AdapterOK(u) /\ (RestartPending(u) <=> RestartPending(p)) /\ u.lost = p.lost
      /\ u.mTrackingSessions = p.mTrackingSessions
  <2>1. CASE u = Popped(t)
      BY <1>1, <2>1 DEF p
  <2>2. CASE u = reportResponse(Popped(t), c, err)
      BY <1>1, <2>2, Reported DEF p
  <2> QED
      BY <2>1, <2>2
<1>4. InStep(u) => InStep(t)
    BY <1>1, <1>2, <1>3 DEF InStep
<1> QED
    BY <1>0, <1>2, <1>3, <1>4 DEF TrackOK, Follows

\* A handler that has entered or erased a session, the modem following.
LEMMA Moved ==
    ASSUME NEW t, AdapterOK(t), t.queue # << >>, Head(t.queue).kind # "Restart",
           NEW v, AdapterOK(v), v.queue = Popped(t).queue, v.lost = Popped(t).lost,
           NEW x, v.mTrackingSessions = x,
           NEW f, EngineOK(f), Follows(x, f, InStep(t)), NEW c, NEW err
    PROVE  TrackOK(reportResponse(v, c, err), f)
<1> DEFINE p == Popped(t)
           u == reportResponse(v, c, err)
<1>1. AdapterOK(p) /\ SameAside(p, t) /\ (RestartPending(t) <=> RestartPending(p))
    BY PopOK
<1>2. v.mTrackingSessions = x /\ v.lost = t.lost /\ v.queue = p.queue
    BY <1>1 DEF SameAside
<1> HIDE DEF p, u
<1>3. /\ AdapterOK(u) /\ (RestartPending(u) <=> RestartPending(v)) /\ u.lost = v.lost
      /\ u.mTrackingSessions = v.mTrackingSessions
    BY Reported DEF u
<1>4. RestartPending(v) <=> RestartPending(p)
    BY <1>2 DEF RestartPending
<1>5. InStep(u) => InStep(t)
    BY <1>1, <1>2, <1>3, <1>4 DEF InStep
<1> QED
    BY <1>2, <1>3, <1>5 DEF TrackOK, Follows, u

LEMMA TrackStart == TrackingInv /\ startTracking => TrackingInv'
<1> SUFFICES ASSUME TrackOK(g, engine), startTracking
             PROVE  TrackOK(g', engine')
    BY DEF TrackingInv
<1> DEFINE m == Msg
           key == <<m.c, m.id>>
           missing == Callbacks(g, m.c) \cap {"tracking", "measurements"} = {}
           cmd == IF missing THEN {} ELSE startTrackingMultiplex(g, m.i)
           p == Popped(g)
<1>0. AdapterOK(g) /\ EngineOK(engine) /\ Follows(g.mTrackingSessions, engine, InStep(g))
    BY DEF TrackOK
<1>1. g.queue # << >> /\ m = Head(g.queue) /\ m.kind = "Start"
    BY DEF startTracking, Handles, Msg
<1>2. PICK refused \in BOOLEAN :
        LET ok == ~missing /\ Accepts(engine, cmd, refused)
        IN  /\ engine' = Obeys(engine, cmd, ok)
            /\ g' = reportResponse(IF ok THEN saveTrackingSession(p, key, m.i) ELSE p, m.c, ~ok)
    BY Zenon DEF startTracking
<1> DEFINE ok == ~missing /\ Accepts(engine, cmd, refused)
<1>3. engine' = Obeys(engine, cmd, ok) /\ g' = reportResponse(IF ok THEN saveTrackingSession(p, key, m.i) ELSE p, m.c, ~ok)
    BY <1>2, Zenon
<1>4. AdapterOK(p) /\ SameAside(p, g) /\ RequestOK(g, m)
      /\ \A k \in 1..Len(p.queue) : ~SameStart(m, p.queue[k])
    BY <1>0, <1>1, PopOK
<1>5. CASE ok
  <2>1. cmd = startTrackingMultiplex(g, m.i) /\ (engine.up \/ cmd = {})
      BY <1>5 DEF Accepts
  <2> HIDE DEF m, cmd, ok, p
  <2>2. m.i \in Intervals /\ m.id \in Nat /\ m.id <= g.mSessionIdCounter /\ key \notin Sessions(g)
      BY <1>1, <1>4 DEF RequestOK
  <2>3. Follows(With(g.mTrackingSessions, key, m.i), Obeys(engine, cmd, TRUE), InStep(g))
        /\ EngineOK(Obeys(engine, cmd, TRUE))
    <3> HIDE DEF key
    <3> QED
        BY <1>0, <2>1, <2>2, StartPace DEF AdapterOK
  <2>4. engine' = Obeys(engine, cmd, TRUE)
      BY <1>3, <1>5 DEF Obeys
  <2>5. g' = reportResponse(saveTrackingSession(p, key, m.i), m.c, ~ok)
      BY <1>3, <1>5
  <2>6. p.mSessionIdCounter = g.mSessionIdCounter /\ p.mTrackingSessions = g.mTrackingSessions
      BY <1>4 DEF SameAside
  <2>7. \A k \in 1..Len(p.queue) : p.queue[k].kind = "Start" => p.queue[k].id # m.id
      BY <1>1, <1>4 DEF SameStart
  <2>8. /\ AdapterOK(saveTrackingSession(p, key, m.i))
        /\ saveTrackingSession(p, key, m.i).mTrackingSessions = With(g.mTrackingSessions, key, m.i)
        /\ saveTrackingSession(p, key, m.i).queue = p.queue /\ saveTrackingSession(p, key, m.i).lost = p.lost
    <3> DEFINE c == m.c
               id == m.id
               i == m.i
    <3> HIDE DEF c, id, i
    <3>1. /\ i \in Intervals /\ id \in Nat /\ id <= p.mSessionIdCounter
          /\ \A k \in 1..Len(p.queue) : p.queue[k].kind = "Start" => p.queue[k].id # id
        BY <2>2, <2>6, <2>7 DEF i, id
    <3>2. /\ AdapterOK(saveTrackingSession(p, <<c, id>>, i))
          /\ saveTrackingSession(p, <<c, id>>, i).mTrackingSessions = With(p.mTrackingSessions, <<c, id>>, i)
          /\ saveTrackingSession(p, <<c, id>>, i).queue = p.queue /\ saveTrackingSession(p, <<c, id>>, i).lost = p.lost
        BY <1>4, <3>1, SaveOK
    <3> QED
        BY <2>6, <3>2 DEF c, id, i
  <2> DEFINE v == saveTrackingSession(p, key, m.i)
             x == With(g.mTrackingSessions, key, m.i)
  <2> HIDE DEF key, v, x
  <2>9. Head(g.queue).kind # "Restart"
      BY <1>1
  <2>10. AdapterOK(v) /\ v.queue = Popped(g).queue /\ v.lost = Popped(g).lost /\ v.mTrackingSessions = x
      BY <2>8 DEF v, x, p
  <2>11. EngineOK(engine') /\ Follows(x, engine', InStep(g))
      BY <2>3, <2>4 DEF x
  <2>12. TrackOK(reportResponse(v, m.c, ~ok), engine')
      BY <1>0, <1>1, <2>9, <2>10, <2>11, Moved
  <2> QED
      BY <2>5, <2>12 DEF v
<1>6. CASE ~ok
  <2>1. engine' = engine /\ g' = reportResponse(p, m.c, ~ok)
      BY <1>3, <1>6 DEF Obeys
  <2> HIDE DEF m, ok
  <2>2. Head(g.queue).kind # "Restart"
      BY <1>1
  <2> QED
      BY <1>1, <2>1, <2>2, Unmoved
<1> QED
    BY <1>5, <1>6

LEMMA TrackUpdate == TrackingInv /\ updateTrackingOptions => TrackingInv'
<1> SUFFICES ASSUME TrackOK(g, engine), updateTrackingOptions
             PROVE  TrackOK(g', engine')
    BY DEF TrackingInv
<1> DEFINE m == Msg
           key == <<m.c, m.id>>
           known == key \in Sessions(g)
           cmd == IF known THEN updateTrackingMultiplex(g, key, m.i) ELSE {}
           p == Popped(g)
<1>0. AdapterOK(g) /\ EngineOK(engine) /\ Follows(g.mTrackingSessions, engine, InStep(g))
    BY DEF TrackOK
<1>1. g.queue # << >> /\ m = Head(g.queue) /\ m.kind = "Update"
    BY DEF updateTrackingOptions, Handles, Msg
<1>2. PICK refused \in BOOLEAN :
        LET ok == Accepts(engine, cmd, refused)
        IN  /\ engine' = Obeys(engine, cmd, ok)
            /\ g' = IF known THEN reportResponse(IF ok THEN saveTrackingSession(p, key, m.i) ELSE p, m.c, ~ok) ELSE p
    BY Zenon DEF updateTrackingOptions
<1> DEFINE ok == Accepts(engine, cmd, refused)
<1>3. /\ engine' = Obeys(engine, cmd, ok)
      /\ g' = IF known THEN reportResponse(IF ok THEN saveTrackingSession(p, key, m.i) ELSE p, m.c, ~ok) ELSE p
    BY <1>2, Zenon
<1>4. AdapterOK(p) /\ SameAside(p, g) /\ RequestOK(g, m)
    BY <1>0, <1>1, PopOK
<1>5. CASE known /\ ok
  <2>1. cmd = updateTrackingMultiplex(g, key, m.i) /\ (engine.up \/ cmd = {})
      BY <1>5 DEF Accepts
  <2>2. key \in Sessions(g)
      BY <1>5
  <2> HIDE DEF m, cmd, ok, p, known
  <2>3. m.i \in Intervals
      BY <1>1, <1>4 DEF RequestOK
  <2>4. Follows(With(g.mTrackingSessions, key, m.i), Obeys(engine, cmd, TRUE), InStep(g))
        /\ EngineOK(Obeys(engine, cmd, TRUE))
    <3> HIDE DEF key
    <3> QED
        BY <1>0, <2>1, <2>2, <2>3, UpdatePace DEF AdapterOK
  <2>5. engine' = Obeys(engine, cmd, TRUE)
      BY <1>3, <1>5 DEF Obeys
  <2>6. g' = reportResponse(saveTrackingSession(p, key, m.i), m.c, ~ok)
      BY <1>3, <1>5
  <2>7. p.mTrackingSessions = g.mTrackingSessions /\ Sessions(p) = Sessions(g)
      BY <1>4 DEF SameAside, Sessions
  <2>8. /\ AdapterOK(saveTrackingSession(p, key, m.i))
        /\ saveTrackingSession(p, key, m.i).mTrackingSessions = With(g.mTrackingSessions, key, m.i)
        /\ saveTrackingSession(p, key, m.i).queue = p.queue /\ saveTrackingSession(p, key, m.i).lost = p.lost
    <3> DEFINE c == m.c
               id == m.id
               i == m.i
    <3> HIDE DEF c, id, i
    <3>1. i \in Intervals /\ <<c, id>> \in Sessions(p)
        BY <2>2, <2>3, <2>7 DEF i, c, id
    <3>2. /\ AdapterOK(saveTrackingSession(p, <<c, id>>, i))
          /\ saveTrackingSession(p, <<c, id>>, i).mTrackingSessions = With(p.mTrackingSessions, <<c, id>>, i)
          /\ saveTrackingSession(p, <<c, id>>, i).queue = p.queue /\ saveTrackingSession(p, <<c, id>>, i).lost = p.lost
        BY <1>4, <3>1, SaveOK
    <3> QED
        BY <2>7, <3>2 DEF c, id, i
  <2> DEFINE v == saveTrackingSession(p, key, m.i)
             x == With(g.mTrackingSessions, key, m.i)
  <2> HIDE DEF key, v, x
  <2>9. Head(g.queue).kind # "Restart"
      BY <1>1
  <2>10. AdapterOK(v) /\ v.queue = Popped(g).queue /\ v.lost = Popped(g).lost /\ v.mTrackingSessions = x
      BY <2>8 DEF v, x, p
  <2>11. EngineOK(engine') /\ Follows(x, engine', InStep(g))
      BY <2>4, <2>5 DEF x
  <2>12. TrackOK(reportResponse(v, m.c, ~ok), engine')
      BY <1>0, <1>1, <2>9, <2>10, <2>11, Moved
  <2> QED
      BY <2>6, <2>12 DEF v
<1>6. CASE ~(known /\ ok)
  <2>1. engine' = engine
    <3>1. CASE ~known
      <4>1. cmd = {}
          BY <3>1
      <4> HIDE DEF cmd
      <4> QED
          BY <1>3, <4>1 DEF Obeys
    <3>2. CASE ~ok
        BY <1>3, <3>2 DEF Obeys
    <3> QED
        BY <1>6, <3>1, <3>2
  <2>2. g' = p \/ g' = reportResponse(p, m.c, ~ok)
      BY <1>3, <1>6
  <2> HIDE DEF m, ok
  <2>3. Head(g.queue).kind # "Restart"
      BY <1>1
  <2> QED
      BY <1>1, <2>1, <2>2, <2>3, Unmoved
<1> QED
    BY <1>5, <1>6

LEMMA TrackStop == TrackingInv /\ stopTracking => TrackingInv'
<1> SUFFICES ASSUME TrackOK(g, engine), stopTracking
             PROVE  TrackOK(g', engine')
    BY DEF TrackingInv
<1> DEFINE m == Msg
           key == <<m.c, m.id>>
           known == key \in Sessions(g)
           cmd == IF known THEN stopTrackingMultiplex(g, key) ELSE {}
           p == Popped(g)
<1>0. AdapterOK(g) /\ EngineOK(engine) /\ Follows(g.mTrackingSessions, engine, InStep(g))
    BY DEF TrackOK
<1>1. g.queue # << >> /\ m = Head(g.queue) /\ m.kind = "Stop"
    BY DEF stopTracking, Handles, Msg
<1>2. PICK refused \in BOOLEAN :
        LET ok == Accepts(engine, cmd, refused)
        IN  /\ engine' = Obeys(engine, cmd, ok)
            /\ g' = IF known THEN reportResponse(IF ok THEN eraseTrackingSession(p, key) ELSE p, m.c, ~ok) ELSE p
    BY Zenon DEF stopTracking
<1> DEFINE ok == Accepts(engine, cmd, refused)
<1>3. /\ engine' = Obeys(engine, cmd, ok)
      /\ g' = IF known THEN reportResponse(IF ok THEN eraseTrackingSession(p, key) ELSE p, m.c, ~ok) ELSE p
    BY <1>2, Zenon
<1>4. AdapterOK(p) /\ SameAside(p, g)
    BY <1>0, <1>1, PopOK
<1>5. CASE known /\ ok
  <2>1. cmd = stopTrackingMultiplex(g, key) /\ (engine.up \/ cmd = {})
      BY <1>5 DEF Accepts
  <2>2. key \in Sessions(g)
      BY <1>5
  <2> HIDE DEF m, cmd, ok, p, known
  <2>3. engine' = Obeys(engine, cmd, TRUE)
      BY <1>3, <1>5 DEF Obeys
  <2>4. g' = reportResponse(eraseTrackingSession(p, key), m.c, ~ok)
      BY <1>3, <1>5
  <2> DEFINE v == eraseTrackingSession(p, key)
             x == Without(g.mTrackingSessions, key)
  <2> HIDE DEF key
  <2>5. Follows(x, Obeys(engine, cmd, TRUE), InStep(g)) /\ EngineOK(Obeys(engine, cmd, TRUE))
      BY <1>0, <2>1, <2>2, StopPace DEF AdapterOK
  <2>6. AdapterOK(v) /\ v.queue = p.queue /\ v.lost = p.lost /\ v.mTrackingSessions = Without(p.mTrackingSessions, key)
      BY <1>4, EraseOK
  <2>7. Head(g.queue).kind # "Restart"
      BY <1>1
  <2> HIDE DEF v, x
  <2>8. AdapterOK(v) /\ v.queue = Popped(g).queue /\ v.lost = Popped(g).lost /\ v.mTrackingSessions = x
      BY <1>4, <2>6 DEF x, p, SameAside
  <2>9. EngineOK(engine') /\ Follows(x, engine', InStep(g))
      BY <2>3, <2>5
  <2>10. TrackOK(reportResponse(v, m.c, ~ok), engine')
      BY <1>0, <1>1, <2>7, <2>8, <2>9, Moved
  <2> QED
      BY <2>4, <2>10 DEF v
<1>6. CASE ~(known /\ ok)
  <2>1. engine' = engine
    <3>1. CASE ~known
      <4>1. cmd = {}
          BY <3>1
      <4> HIDE DEF cmd
      <4> QED
          BY <1>3, <4>1 DEF Obeys
    <3>2. CASE ~ok
        BY <1>3, <3>2 DEF Obeys
    <3> QED
        BY <1>6, <3>1, <3>2
  <2>2. g' = p \/ g' = reportResponse(p, m.c, ~ok)
      BY <1>3, <1>6
  <2> HIDE DEF m, ok
  <2>3. Head(g.queue).kind # "Restart"
      BY <1>1
  <2> QED
      BY <1>1, <2>1, <2>2, <2>3, Unmoved
<1> QED
    BY <1>5, <1>6

-----------------------------------------------------------------------------
(* The messages of clients and of the modem *)

LEMMA SameTrack ==
    ASSUME NEW t, NEW e, TrackOK(t, e), NEW u, AdapterShape(u), u.queue = t.queue, ClientsOK(u.client),
           u.mTrackingSessions = t.mTrackingSessions, u.mSessionIdCounter = t.mSessionIdCounter,
           u.lost = t.lost
    PROVE  TrackOK(u, e)
<1>1. AdapterOK(t)
    BY DEF TrackOK
<1>2. AdapterOK(u) /\ (RestartPending(u) <=> RestartPending(t))
    BY <1>1, SameTables
<1>3. InStep(u) <=> InStep(t)
    BY <1>2 DEF InStep
<1> QED
    BY <1>2, <1>3 DEF TrackOK, Follows

\* A message that is no restart is added.
LEMMA SendTrack ==
    ASSUME NEW t, NEW e, TrackOK(t, e), NEW m, RequestOK(t, m), m.kind # "Restart",
           \A k \in 1..Len(t.queue) : ~SameStart(t.queue[k], m)
    PROVE  TrackOK(sendMsg(t, m), e)
<1> DEFINE u == sendMsg(t, m)
<1>1. AdapterOK(t)
    BY DEF TrackOK
<1>2. AdapterOK(u) /\ SameAside(u, t) /\ (RestartPending(u) <=> RestartPending(t))
    BY <1>1, SendOK
<1> HIDE DEF u
<1>3. u.mTrackingSessions = t.mTrackingSessions /\ u.lost = t.lost
    BY <1>2 DEF SameAside
<1>4. InStep(u) <=> InStep(t)
    BY <1>2, <1>3 DEF InStep
<1> QED
    BY <1>2, <1>3, <1>4 DEF TrackOK, Follows, u

LEMMA MaskTrack ==
    ASSUME NEW t, NEW e, TrackOK(t, e)
    PROVE  TrackOK(updateClientsEventMask(t), e)
<1>1. PICK mask : updateClientsEventMask(t) = updateEvtMask(t, mask)
    BY Zenon DEF updateClientsEventMask
<1> DEFINE u == [t EXCEPT !.mEvtMask = mask]
           m == [kind |-> "Open", mask |-> mask]
<1>2. AdapterShape(t) /\ ClientsOK(t.client)
    BY DEF TrackOK, AdapterOK
<1>3. /\ AdapterShape(u) /\ u.queue = t.queue /\ u.client = t.client /\ u.lost = t.lost
      /\ u.mTrackingSessions = t.mTrackingSessions /\ u.mSessionIdCounter = t.mSessionIdCounter
    BY <1>2 DEF AdapterShape
<1>4. updateEvtMask(t, mask) = sendMsg(u, m)
    BY DEF updateEvtMask
<1>5. m.kind = "Open"
    OBVIOUS
<1> HIDE DEF u, m
<1>6. TrackOK(u, e)
    BY <1>2, <1>3, SameTrack
<1>7. RequestOK(u, m) /\ \A k \in 1..Len(u.queue) : ~SameStart(u.queue[k], m)
    BY <1>5 DEF RequestOK, SameStart
<1>8. TrackOK(sendMsg(u, m), e)
    BY <1>5, <1>6, <1>7, SendTrack
<1> QED
    BY <1>1, <1>4, <1>8

LEMMA ClientDataTrack ==
    ASSUME NEW t, NEW e, TrackOK(t, e), NEW data
    PROVE  TrackOK(updateClientsEventMask([t EXCEPT !.mClientData = data]), e)
<1> DEFINE u == [t EXCEPT !.mClientData = data]
<1>1. AdapterShape(t) /\ ClientsOK(t.client)
    BY DEF TrackOK, AdapterOK
<1>2. /\ AdapterShape(u) /\ u.queue = t.queue /\ u.client = t.client /\ u.lost = t.lost
      /\ u.mTrackingSessions = t.mTrackingSessions /\ u.mSessionIdCounter = t.mSessionIdCounter
    BY <1>1 DEF AdapterShape
<1> HIDE DEF u
<1>3. TrackOK(u, e)
    BY <1>1, <1>2, SameTrack
<1>4. TrackOK(updateClientsEventMask(u), e)
    BY <1>3, MaskTrack
<1> QED
    BY <1>4 DEF u

LEMMA TrackAdd == TrackingInv /\ addClient => TrackingInv'
<1> SUFFICES ASSUME TrackOK(g, engine), addClient
             PROVE  TrackOK(g', engine')
    BY DEF TrackingInv
<1> DEFINE p == Popped(g)
<1>1. g.queue # << >> /\ Head(g.queue).kind = "Add" /\ g' = saveClient(p, Msg.c, Msg.cbs) /\ engine' = engine
    BY DEF addClient, Handles, Msg
<1>2. Head(g.queue).kind # "Restart"
    BY <1>1
<1>3. TrackOK(p, engine)
    BY <1>1, <1>2, Unmoved
<1> HIDE DEF p
<1>4. AdapterShape(p)
    BY <1>3 DEF TrackOK, AdapterOK
<1>5. PICK data : saveClient(p, Msg.c, Msg.cbs) = updateClientsEventMask([p EXCEPT !.mClientData = data])
    BY Zenon DEF saveClient
<1>6. TrackOK(updateClientsEventMask([p EXCEPT !.mClientData = data]), engine)
    BY <1>3, ClientDataTrack
<1> QED
    BY <1>1, <1>5, <1>6

\* One turn of the loop of stopClientSessions, and the loop: f is the state after each.
SessionStop(s, c, id, refused) ==
    LET cmd == stopTrackingMultiplex(s.t, <<c, id>>)
        ok == Accepts(s.e, cmd, refused)
    IN  [t |-> IF ok THEN eraseTrackingSession(s.t, <<c, id>>) ELSE [s.t EXCEPT !.failed = @ \cup {c}],
         e |-> Obeys(s.e, cmd, ok)]

StopsOf(f, t, e, c, refused) ==
    f = [n \in 0..t.mSessionIdCounter |->
           IF n = 0 THEN [t |-> t, e |-> e]
           ELSE IF <<c, n>> \in Sessions(t) THEN SessionStop(f[n-1], c, n, refused) ELSE f[n-1]]

LEMMA StopsAreLoop ==
    ASSUME NEW t, NEW e, NEW c, NEW refused
    PROVE  stopClientSessions(t, e, c, refused)
             = (CHOOSE f : StopsOf(f, t, e, c, refused))[t.mSessionIdCounter]
BY Zenon DEF stopClientSessions, StopsOf, SessionStop

LEMMA StopsRun ==
    ASSUME NEW t, t.mSessionIdCounter \in Nat, NEW e, NEW c, NEW refused
    PROVE  \E f : StopsOf(f, t, e, c, refused)
<1> DEFINE st == [t |-> t, e |-> e]
           Turn(x, k) == IF <<c, k>> \in Sessions(t) THEN SessionStop(x, c, k, refused) ELSE x
           M == t.mSessionIdCounter
           Upto(n, f) == f = [k \in 0..n |-> IF k = 0 THEN st ELSE Turn(f[k-1], k)]
           T == {n \in 0..M : ~ \E f : Upto(n, f)}
<1>1. M \in Nat
    OBVIOUS
<1>2. T = {}
  <2> SUFFICES ASSUME T # {}
               PROVE  FALSE
      OBVIOUS
  <2>1. T \in SUBSET Nat
      BY <1>1
  <2> HIDE DEF Turn, M, st
  <2>2. PICK n \in T : \A m \in T : n <= m
    <3> HIDE DEF T
    <3> QED
        BY <2>1, LeastNumber
  <2>3. n \in Nat /\ n \in 0..M
      BY <1>1
  <2>4. n # 0
    <3>1. Upto(0, [k \in 0..0 |-> st])
        BY Z3
    <3> HIDE DEF Upto
    <3> QED
        BY <2>2, <3>1
  <2>5. n - 1 \in Nat /\ n - 1 \in 0..M /\ n - 1 \notin T
    <3> HIDE DEF T
    <3> QED
        BY <1>1, <2>2, <2>3, <2>4
  <2>6. PICK f : Upto(n - 1, f)
      BY <2>5
  <2> DEFINE h == [k \in 0..n |-> IF k = n THEN Turn(f[n-1], n) ELSE f[k]]
  <2>7. \A k \in 0..n-1 : h[k] = f[k] /\ f[k] = IF k = 0 THEN st ELSE Turn(f[k-1], k)
      BY <2>3, <2>4, <2>6
  <2>8. h[n] = Turn(f[n-1], n)
      BY <2>3
  <2>9. \A k \in 0..n : h[k] = IF k = 0 THEN st ELSE Turn(h[k-1], k)
    <3> TAKE k \in 0..n
    <3>1. CASE k = 0
      <4>1. 0 \in 0..n-1
          BY <2>3, <2>4
      <4>2. h[0] = st
          BY <4>1, <2>7
      <4> HIDE DEF h
      <4> QED
          BY <3>1, <4>2
    <3>2. CASE k # 0
      <4>1. k - 1 \in 0..n-1
          BY <3>2, <2>3
      <4>2. h[k-1] = f[k-1]
          BY <4>1, <2>7
      <4>3. h[k] = Turn(f[k-1], k)
        <5>1. CASE k = n
            BY <5>1, <2>8
        <5>2. CASE k # n
          <6>1. k \in 0..n-1
              BY <5>2, <2>3
          <6> QED
              BY <6>1, <3>2, <2>7
        <5> QED
            BY <5>1, <5>2
      <4> QED
          BY <3>2, <4>2, <4>3
    <3> QED
        BY <3>1, <3>2
  <2>10. h = [k \in 0..n |-> h[k]]
      OBVIOUS
  <2> HIDE DEF h
  <2>11. Upto(n, h)
      BY <2>9, <2>10
  <2> QED
      BY <2>2, <2>11
<1>3. \E f : Upto(M, f)
    BY <1>1, <1>2
<1> QED
    BY <1>3, Zenon DEF StopsOf

\* One turn keeps the pace, and the other sessions.
LEMMA SessionStopOK ==
    ASSUME NEW s, TrackOK(s.t, s.e), NEW c, NEW id, <<c, id>> \in Sessions(s.t), NEW refused \in BOOLEAN,
           NEW r, r = SessionStop(s, c, id, refused)
    PROVE  /\ TrackOK(r.t, r.e)
           /\ \A k \in Sessions(s.t) : k # <<c, id>> => k \in Sessions(r.t)
<1> DEFINE t == s.t
           e == s.e
           key == <<c, id>>
           cmd == stopTrackingMultiplex(t, key)
           ok == Accepts(e, cmd, refused)
<1>1. /\ r.t = IF ok THEN eraseTrackingSession(t, key) ELSE [t EXCEPT !.failed = @ \cup {c}]
      /\ r.e = Obeys(e, cmd, ok)
    BY DEF SessionStop
<1>2. AdapterOK(t) /\ EngineOK(e) /\ Follows(t.mTrackingSessions, e, InStep(t)) /\ key \in Sessions(t)
    BY DEF TrackOK
<1>3. CASE ok
  <2>1. e.up \/ cmd = {}
      BY <1>3 DEF Accepts
  <2> DEFINE v == eraseTrackingSession(t, key)
             x == Without(t.mTrackingSessions, key)
             f == Obeys(e, cmd, TRUE)
  <2>2. r.t = v /\ r.e = f
      BY <1>1, <1>3 DEF Obeys
  <2>3. cmd = stopTrackingMultiplex(t, key)
      OBVIOUS
  <2> HIDE DEF t, e, key, cmd, ok
  <2>4. Follows(x, f, InStep(t)) /\ EngineOK(f)
      BY <1>2, <2>1, <2>3, StopPace DEF AdapterOK
  <2>5. /\ AdapterOK(v) /\ v.queue = t.queue /\ v.lost = t.lost /\ v.mTrackingSessions = x
        /\ Sessions(v) = Sessions(t) \ {key}
      BY <1>2, EraseOK
  <2> HIDE DEF v, x, f
  <2>6. InStep(v) <=> InStep(t)
      BY <2>5 DEF InStep, RestartPending
  <2>7. TrackOK(v, f)
      BY <2>4, <2>5, <2>6 DEF TrackOK, Follows
  <2>8. \A k \in Sessions(t) : k # key => k \in Sessions(v)
      BY <2>5
  <2> QED
      BY <2>2, <2>7, <2>8 DEF t, e, key
<1>4. CASE ~ok
  <2>1. r.t = [t EXCEPT !.failed = @ \cup {c}] /\ r.e = e
      BY <1>1, <1>4 DEF Obeys
  <2> HIDE DEF t, e, key, cmd, ok
  <2>2. AdapterShape(t) /\ ClientsOK(t.client) /\ TrackOK(t, e)
      BY <1>2 DEF AdapterOK, TrackOK
  <2> DEFINE u == r.t
  <2>3. /\ AdapterShape(u) /\ u.queue = t.queue /\ u.client = t.client /\ u.lost = t.lost
        /\ u.mTrackingSessions = t.mTrackingSessions /\ u.mSessionIdCounter = t.mSessionIdCounter
      BY <2>1, <2>2 DEF AdapterShape
  <2> HIDE DEF u
  <2>4. TrackOK(u, e)
      BY <2>2, <2>3, SameTrack
  <2>5. Sessions(u) = Sessions(t)
      BY <2>3 DEF Sessions
  <2>6. r.e = e
      BY <2>1
  <2>7. TrackOK(r.t, r.e)
      BY <2>4, <2>6 DEF u
  <2> QED
      BY <2>5, <2>7 DEF u, t
<1> QED
    BY <1>3, <1>4

LEMMA StopsTrack ==
    ASSUME NEW t, NEW e, TrackOK(t, e), NEW c, NEW refused \in BOOLEAN,
           NEW r, r = stopClientSessions(t, e, c, refused)
    PROVE  TrackOK(r.t, r.e)
<1> DEFINE M == t.mSessionIdCounter
<1>1. M \in Nat
    BY DEF TrackOK, AdapterOK, RequestsOK
<1> DEFINE f == CHOOSE h : StopsOf(h, t, e, c, refused)
<1>2. r = f[M]
    BY StopsAreLoop
<1>3. StopsOf(f, t, e, c, refused)
  <2>1. \E h : StopsOf(h, t, e, c, refused)
      BY <1>1, StopsRun
  <2> QED
      BY <2>1, Zenon
<1> HIDE DEF f
<1>4. \A n \in 0..M : f[n] = IF n = 0 THEN [t |-> t, e |-> e]
                             ELSE IF <<c, n>> \in Sessions(t) THEN SessionStop(f[n-1], c, n, refused) ELSE f[n-1]
  <2>1. f = [n \in 0..M |-> IF n = 0 THEN [t |-> t, e |-> e]
                            ELSE IF <<c, n>> \in Sessions(t) THEN SessionStop(f[n-1], c, n, refused) ELSE f[n-1]]
      BY <1>3, Zenon DEF StopsOf
  <2> QED
      BY <2>1
<1> HIDE DEF M
<1> DEFINE Good(n) == /\ TrackOK(f[n].t, f[n].e)
                      /\ \A k \in 0..M : k > n /\ <<c, k>> \in Sessions(t) => <<c, k>> \in Sessions(f[n].t)
           T == {n \in 0..M : ~Good(n)}
<1>5. Good(0)
  <2>1. 0 \in 0..M
      BY <1>1
  <2>2. f[0] = [t |-> t, e |-> e]
      BY <1>4, <2>1
  <2>3. f[0].t = t /\ f[0].e = e
      BY <2>2
  <2> QED
      BY <2>3
<1>6. ASSUME NEW n \in 0..M, n # 0, Good(n - 1)
      PROVE  Good(n)
  <2> DEFINE s == f[n-1]
  <2>1. f[n] = IF <<c, n>> \in Sessions(t) THEN SessionStop(s, c, n, refused) ELSE s
      BY <1>4, <1>6
  <2>2. n - 1 \in Nat /\ n > n - 1 /\ \A k \in 0..M : k > n => k > n - 1 /\ k # n
      BY <1>1, <1>6
  <2>3. CASE <<c, n>> \in Sessions(t)
    <3>1. <<c, n>> \in Sessions(s.t) /\ TrackOK(s.t, s.e)
        BY <1>6, <2>2, <2>3
    <3>2. f[n] = SessionStop(s, c, n, refused)
        BY <2>1, <2>3
    <3>3. /\ TrackOK(f[n].t, f[n].e)
          /\ \A k \in Sessions(s.t) : k # <<c, n>> => k \in Sessions(f[n].t)
      <4> HIDE DEF s
      <4> QED
          BY <3>1, <3>2, SessionStopOK
    <3>4. \A k \in 0..M : k > n /\ <<c, k>> \in Sessions(t) => <<c, k>> \in Sessions(f[n].t)
      <4> TAKE k \in 0..M
      <4> HAVE k > n /\ <<c, k>> \in Sessions(t)
      <4>1. k > n - 1 /\ k # n
          BY <2>2
      <4>2. <<c, k>> \in Sessions(s.t)
          BY <1>6, <4>1
      <4>3. <<c, k>> # <<c, n>>
          BY <4>1
      <4> QED
          BY <3>3, <4>2, <4>3
    <3> QED
        BY <3>3, <3>4
  <2>4. CASE <<c, n>> \notin Sessions(t)
      BY <1>6, <2>1, <2>2, <2>4
  <2> QED
      BY <2>3, <2>4
<1>7. T = {}
  <2> SUFFICES ASSUME T # {}
               PROVE  FALSE
      OBVIOUS
  <2> HIDE DEF Good
  <2>1. T \in SUBSET Nat
      BY <1>1
  <2>2. PICK n \in T : \A m \in T : n <= m
    <3> HIDE DEF T
    <3> QED
        BY <2>1, LeastNumber
  <2>3. n \in 0..M /\ ~Good(n)
      OBVIOUS
  <2>4. n # 0
      BY <1>5, <2>3
  <2>5. n - 1 \in 0..M /\ ~(n <= n - 1)
      BY <1>1, <2>3, <2>4
  <2>6. Good(n - 1)
    <3>1. n - 1 \notin T
      <4> HIDE DEF T
      <4> QED
          BY <2>2, <2>5
    <3> QED
        BY <2>5, <3>1
  <2> QED
      BY <1>6, <2>3, <2>4, <2>6
<1>8. M \in 0..M
    BY <1>1
<1>9. Good(M)
  <2> HIDE DEF Good
  <2> QED
      BY <1>7, <1>8
<1> QED
    BY <1>2, <1>9

LEMMA TrackRemove == TrackingInv /\ removeClient => TrackingInv'
<1> SUFFICES ASSUME TrackOK(g, engine), removeClient
             PROVE  TrackOK(g', engine')
    BY DEF TrackingInv
<1> DEFINE p == Popped(g)
<1>1. g.queue # << >> /\ Head(g.queue).kind = "Remove"
    BY DEF removeClient, Handles, Msg
<1>2. PICK refused \in BOOLEAN :
        LET s == stopClientSessions(p, engine, Msg.c, refused)
        IN  engine' = s.e /\ g' = eraseClient(s.t, Msg.c)
    BY Zenon DEF removeClient
<1>3. PICK s : s = stopClientSessions(p, engine, Msg.c, refused)
    OBVIOUS
<1>4. engine' = s.e /\ g' = eraseClient(s.t, Msg.c)
    BY <1>2, <1>3, Zenon
<1>5. TrackOK(p, engine)
  <2>1. Head(g.queue).kind # "Restart"
      BY <1>1
  <2> QED
      BY <1>1, <2>1, Unmoved
<1> HIDE DEF p
<1>6. TrackOK(s.t, s.e)
    BY <1>3, <1>5, StopsTrack
<1>7. PICK u, e : u = s.t /\ e = s.e
    OBVIOUS
<1>8. PICK data : eraseClient(u, Msg.c) = updateClientsEventMask([u EXCEPT !.mClientData = data])
    BY Zenon DEF eraseClient
<1>9. TrackOK(updateClientsEventMask([u EXCEPT !.mClientData = data]), e)
    BY <1>6, <1>7, ClientDataTrack
<1> QED
    BY <1>4, <1>7, <1>8, <1>9

\* The event mask has nothing to do with the pace.
LEMMA MaskedTrack ==
    ASSUME NEW t, NEW e, TrackOK(t, e), NEW f, EngineOK(f), f.up = e.up, f.fix = e.fix
    PROVE  TrackOK(t, f)
BY DEF TrackOK, Follows

LEMMA TrackOpen == TrackingInv /\ (openEvents \/ LocSsrMsg) => TrackingInv'
<1> SUFFICES ASSUME TrackOK(g, engine), openEvents \/ LocSsrMsg
             PROVE  TrackOK(g', engine')
    BY DEF TrackingInv
<1>1. g.queue # << >> /\ Head(g.queue).kind # "Restart" /\ g' = Popped(g)
    BY DEF openEvents, LocSsrMsg, Handles, Msg
<1>2. PICK mask : engine' = IF engine.up THEN [engine EXCEPT !.mask = mask] ELSE engine
    BY Zenon DEF openEvents, LocSsrMsg
<1>3. EngineOK(engine)
    BY DEF TrackOK
<1>4. EngineOK(engine') /\ engine'.up = engine.up /\ engine'.fix = engine.fix
    BY <1>2, <1>3 DEF EngineOK
<1>5. TrackOK(Popped(g), engine)
    BY <1>1, Unmoved
<1>6. TrackOK(g', engine)
    BY <1>1, <1>5
<1> QED
    BY <1>4, <1>6, MaskedTrack

LEMMA TrackRestart == TrackingInv /\ restartSessions => TrackingInv'
<1> SUFFICES ASSUME TrackOK(g, engine), restartSessions
             PROVE  TrackOK(g', engine')
    BY DEF TrackingInv
<1> DEFINE x == g.mTrackingSessions
           cmd == IF Sessions(g) = {} THEN {} ELSE {Smallest(x)}
           p == Popped(g)
<1>0. AdapterOK(g) /\ EngineOK(engine) /\ Follows(x, engine, InStep(g))
    BY DEF TrackOK
<1>1. g.queue # << >>
    BY DEF restartSessions, Handles
<1>2. PICK refused \in BOOLEAN : /\ engine' = Obeys(engine, cmd, Accepts(engine, cmd, refused))
                                 /\ g' = [p EXCEPT !.lost = refused]
    BY Zenon DEF restartSessions
<1>3. AdapterOK(p) /\ SameAside(p, g)
    BY <1>0, <1>1, PopOK
<1>4. AdapterShape(p) /\ ClientsOK(p.client) /\ p.mTrackingSessions = x
    BY <1>3 DEF AdapterOK, SameAside
<1> HIDE DEF p
<1>5. /\ AdapterShape(g') /\ g'.queue = p.queue /\ g'.client = p.client /\ g'.lost = refused
      /\ g'.mTrackingSessions = p.mTrackingSessions /\ g'.mSessionIdCounter = p.mSessionIdCounter
    BY <1>2, <1>4 DEF AdapterShape
<1>6. AdapterOK(g')
    BY <1>3, <1>4, <1>5, SameTables
<1>7. CASE DOMAIN x = {}
  <2>1. cmd = {}
      BY <1>7 DEF Sessions
  <2> HIDE DEF cmd, x
  <2>2. engine' = engine
      BY <1>2, <2>1 DEF Obeys
  <2>3. Follows(x, engine, InStep(g'))
      BY <1>0, <1>7 DEF Follows, Pace
  <2> QED
      BY <1>0, <1>4, <1>5, <1>6, <2>2, <2>3 DEF TrackOK
<1>8. CASE DOMAIN x # {}
  <2>1. cmd = {Smallest(x)}
      BY <1>8 DEF Sessions
  <2>2. Smallest(x) \in Nat
      BY <1>0, <1>8, SmallestOf DEF AdapterOK
  <2> HIDE DEF cmd, x
  <2>3. CASE engine.up /\ ~refused
    <3>1. engine' = [engine EXCEPT !.fix = Smallest(x)]
        BY <1>2, <2>1, <2>3 DEF Obeys, Accepts
    <3>2. engine' = [up |-> engine.up, fix |-> Smallest(x), mask |-> engine.mask]
        BY <1>0, <3>1 DEF EngineOK
    <3>3. EngineOK(engine')
        BY <1>0, <2>2, <3>2 DEF EngineOK
    <3>4. Follows(x, engine', InStep(g'))
        BY <1>8, <3>2 DEF Follows, Pace
    <3> QED
        BY <1>4, <1>5, <1>6, <3>3, <3>4 DEF TrackOK
  <2>4. CASE ~(engine.up /\ ~refused)
    <3>1. engine' = engine
        BY <1>2, <2>1, <2>4 DEF Obeys, Accepts
    <3>2. ~(engine.up /\ InStep(g'))
        BY <1>5, <2>4 DEF InStep
    <3>3. Follows(x, engine, InStep(g'))
        BY <1>8, <3>2 DEF Follows
    <3> QED
        BY <1>0, <1>4, <1>5, <1>6, <3>1, <3>3 DEF TrackOK
  <2> QED
      BY <2>3, <2>4
<1> QED
    BY <1>7, <1>8

LEMMA TrackDown == TrackingInv /\ EngineDown => TrackingInv'
<1> SUFFICES ASSUME TrackOK(g, engine), EngineDown
             PROVE  TrackOK(g', engine')
    BY DEF TrackingInv
<1>1. engine' = [up |-> FALSE, fix |-> OFF, mask |-> {}] /\ g' = g
    BY DEF EngineDown
<1>2. EngineOK(engine') /\ ~engine'.up /\ engine'.fix = OFF
    BY <1>1 DEF EngineOK, OFF
<1>3. TrackOK(g, engine')
    BY <1>2 DEF TrackOK, Follows
<1> QED
    BY <1>1, <1>3

LEMMA TrackUp == TrackingInv /\ handleEngineUpEvent => TrackingInv'
<1> SUFFICES ASSUME TrackOK(g, engine), handleEngineUpEvent
             PROVE  TrackOK(g', engine')
    BY DEF TrackingInv
<1> DEFINE m == [kind |-> "Ssr"]
           n == [kind |-> "Restart"]
           t == sendMsg(g, m)
           u == sendMsg(t, n)
<1>1. engine' = [engine EXCEPT !.up = TRUE] /\ g' = u
    BY DEF handleEngineUpEvent, adapterHandleEngineUp
<1>2. AdapterOK(g) /\ EngineOK(engine) /\ Follows(g.mTrackingSessions, engine, InStep(g))
    BY DEF TrackOK
<1>3. m.kind = "Ssr" /\ n.kind = "Restart"
    OBVIOUS
<1> HIDE DEF m, n
<1>4. AdapterOK(t) /\ SameAside(t, g)
  <2>1. RequestOK(g, m) /\ \A k \in 1..Len(g.queue) : ~SameStart(g.queue[k], m)
      BY <1>3 DEF RequestOK, SameStart
  <2> QED
      BY <1>2, <2>1, SendOK
<1> HIDE DEF t
<1>5. AdapterOK(u) /\ SameAside(u, t) /\ RestartPending(u)
  <2>1. RequestOK(t, n) /\ \A k \in 1..Len(t.queue) : ~SameStart(t.queue[k], n)
      BY <1>3 DEF RequestOK, SameStart
  <2> QED
      BY <1>3, <1>4, <2>1, SendOK
<1> HIDE DEF u
<1>6. engine' = [up |-> TRUE, fix |-> engine.fix, mask |-> engine.mask]
    BY <1>1, <1>2 DEF EngineOK
<1>7. EngineOK(engine') /\ engine'.fix = engine.fix
    BY <1>2, <1>6 DEF EngineOK
<1>8. u.mTrackingSessions = g.mTrackingSessions
    BY <1>4, <1>5 DEF SameAside
<1>9. ~InStep(u)
    BY <1>5 DEF InStep
<1>10. TrackOK(u, engine')
    BY <1>2, <1>5, <1>7, <1>8, <1>9 DEF TrackOK, Follows
<1> QED
    BY <1>1, <1>10

-----------------------------------------------------------------------------
(* The clients' calls *)

\* A call changes the record of its client first.
LEMMA ClientChange ==
    ASSUME NEW t, NEW e, TrackOK(t, e), NEW c \in Clients, NEW r,
           {"mLocationOptions", "session", "mTracking", "api", "cbs", "gone"} \subseteq DOMAIN r, r.mLocationOptions \in Intervals,
           NEW u, AdapterShape(u), u.queue = t.queue, u.client = [t.client EXCEPT ![c] = r],
           u.mTrackingSessions = t.mTrackingSessions, u.mSessionIdCounter = t.mSessionIdCounter,
           u.lost = t.lost
    PROVE  TrackOK(u, e)
<1>1. ClientsOK(t.client)
    BY DEF TrackOK, AdapterOK
<1>2. ClientsOK(u.client)
  <2>1. DOMAIN u.client = Clients /\ u.client[c] = r /\ \A d \in Clients \ {c} : u.client[d] = t.client[d]
      BY <1>1 DEF ClientsOK
  <2> QED
      BY <1>1, <2>1 DEF ClientsOK
<1> QED
    BY <1>2, SameTrack

LEMMA SendPlain ==
    ASSUME NEW t, NEW e, TrackOK(t, e), NEW m, m.kind \notin {"Start", "Restart"},
           m.kind = "Update" => m.i \in Intervals
    PROVE  TrackOK(sendMsg(t, m), e)
<1>1. RequestOK(t, m) /\ m.kind # "Restart" /\ \A k \in 1..Len(t.queue) : ~SameStart(t.queue[k], m)
    BY DEF RequestOK, SameStart
<1> QED
    BY <1>1, SendTrack

\* The record of a client after one or two of its fields were set.
LEMMA ClientFields ==
    ASSUME NEW t, NEW e, TrackOK(t, e), NEW c \in Clients
    PROVE  LET r == t.client[c]
           IN  {"mLocationOptions", "session", "mTracking", "api", "cbs", "gone"} \subseteq DOMAIN r
               /\ r.mLocationOptions \in Intervals /\ DOMAIN t.client = Clients /\ AdapterShape(t)
BY DEF TrackOK, AdapterOK, ClientsOK

LEMMA TrackCallbacks ==
    ASSUME TrackingInv, NEW c \in Clients, locAPISetCallbacks(c)
    PROVE  TrackingInv'
<1> SUFFICES ASSUME TrackOK(g, engine)
             PROVE  TrackOK(g', engine')
    BY DEF TrackingInv
<1>1. PICK cbs \in CallbackSets(c) :
        g' = IF g.client[c].api THEN updateCallbacks(g, c, cbs) ELSE createInstance(g, c, cbs)
    BY DEF locAPISetCallbacks
<1>2. engine' = engine
    BY DEF locAPISetCallbacks
<1> DEFINE a == [g EXCEPT !.client[c].api = TRUE, !.client[c].cbs = cbs]
           b == [g EXCEPT !.client[c].cbs = cbs]
           o == [b EXCEPT !.orphaned = @ \cup {c}]
           m == [kind |-> "Add", c |-> c, cbs |-> cbs]
<1>3. g' \in {a, o, sendMsg(a, m), sendMsg(b, m)}
    BY <1>1 DEF updateCallbacks, createInstance
<1>4. LET r == g.client[c]
      IN  {"mLocationOptions", "session", "mTracking", "api", "cbs", "gone"} \subseteq DOMAIN r
          /\ r.mLocationOptions \in Intervals /\ DOMAIN g.client = Clients /\ AdapterShape(g)
    BY ClientFields
<1> DEFINE r == [g.client[c] EXCEPT !.cbs = cbs]
           s == [[g.client[c] EXCEPT !.api = TRUE] EXCEPT !.cbs = cbs]
<1>5. /\ {"mLocationOptions", "session", "mTracking", "api", "cbs", "gone"} \subseteq DOMAIN r
      /\ r.mLocationOptions \in Intervals
    BY <1>4
<1>6. /\ {"mLocationOptions", "session", "mTracking", "api", "cbs", "gone"} \subseteq DOMAIN s
      /\ s.mLocationOptions \in Intervals
    BY <1>4
<1>7. /\ AdapterShape(a) /\ a.queue = g.queue /\ a.client = [g.client EXCEPT ![c] = s] /\ a.lost = g.lost
      /\ a.mTrackingSessions = g.mTrackingSessions /\ a.mSessionIdCounter = g.mSessionIdCounter
  <2> DEFINE x == [g EXCEPT !.client[c].api = TRUE]
  <2>1. a = [x EXCEPT !.client[c].cbs = cbs]
      OBVIOUS
  <2>2. /\ AdapterShape(x) /\ x.queue = g.queue /\ x.client = [g.client EXCEPT ![c] = [g.client[c] EXCEPT !.api = TRUE]]
        /\ x.lost = g.lost
        /\ x.mTrackingSessions = g.mTrackingSessions /\ x.mSessionIdCounter = g.mSessionIdCounter
    <3> DEFINE cl == [g.client EXCEPT ![c] = [g.client[c] EXCEPT !.api = TRUE]]
    <3>1. x = [g EXCEPT !.client = cl]
        OBVIOUS
    <3> HIDE DEF x, cl
    <3>2. /\ AdapterShape(x) /\ x.queue = g.queue /\ x.client = cl /\ x.lost = g.lost
          /\ x.mTrackingSessions = g.mTrackingSessions /\ x.mSessionIdCounter = g.mSessionIdCounter
        BY <1>4, <3>1 DEF AdapterShape
    <3> QED
        BY <3>2 DEF cl
  <2> HIDE DEF a, x
  <2>3. /\ AdapterShape(a) /\ a.queue = x.queue /\ a.client = [x.client EXCEPT ![c] = [x.client[c] EXCEPT !.cbs = cbs]]
        /\ a.lost = x.lost
        /\ a.mTrackingSessions = x.mTrackingSessions /\ a.mSessionIdCounter = x.mSessionIdCounter
      BY <2>1, <2>2 DEF AdapterShape
  <2>4. x.client[c] = [g.client[c] EXCEPT !.api = TRUE]
      BY <1>4, <2>2
  <2>5. a.client = [g.client EXCEPT ![c] = s]
      BY <1>4, <2>2, <2>3, <2>4
  <2> QED
      BY <2>2, <2>3, <2>5
<1>8. /\ AdapterShape(b) /\ b.queue = g.queue /\ b.client = [g.client EXCEPT ![c] = r] /\ b.lost = g.lost
      /\ b.mTrackingSessions = g.mTrackingSessions /\ b.mSessionIdCounter = g.mSessionIdCounter
    BY <1>4 DEF AdapterShape
<1>9. m.kind = "Add"
    OBVIOUS
<1> HIDE DEF a, b, r, s, m
<1>10. /\ AdapterShape(o) /\ o.queue = b.queue /\ o.client = b.client /\ o.lost = b.lost
       /\ o.mTrackingSessions = b.mTrackingSessions /\ o.mSessionIdCounter = b.mSessionIdCounter
    BY <1>8 DEF AdapterShape
<1> HIDE DEF o
<1>11. TrackOK(a, engine) /\ TrackOK(b, engine)
    BY <1>5, <1>6, <1>7, <1>8, ClientChange
<1>12. TrackOK(o, engine)
  <2>1. ClientsOK(b.client)
      BY <1>11 DEF TrackOK, AdapterOK
  <2>2. ClientsOK(o.client)
      BY <1>10, <2>1
  <2> QED
      BY <1>10, <1>11, <2>2, SameTrack
<1>13. TrackOK(sendMsg(a, m), engine) /\ TrackOK(sendMsg(b, m), engine)
    BY <1>9, <1>11, SendPlain
<1> QED
    BY <1>2, <1>3, <1>11, <1>12, <1>13

LEMMA TrackCallStart ==
    ASSUME TrackingInv, NEW c \in Clients, locAPIStartTracking(c)
    PROVE  TrackingInv'
<1> SUFFICES ASSUME TrackOK(g, engine)
             PROVE  TrackOK(g', engine')
    BY DEF TrackingInv
<1> DEFINE id == g.mSessionIdCounter + 1
           i == g.client[c].mLocationOptions
           m == [kind |-> "Start", c |-> c, id |-> id, i |-> i]
           a == [g EXCEPT !.mSessionIdCounter = id]
           b == sendMsg(a, m)
<1>1. g' = [b EXCEPT !.client[c].session = id, !.client[c].mTracking = TRUE] /\ engine' = engine
    BY DEF locAPIStartTracking, apiStartTracking, generateSessionId
<1>2. LET r == g.client[c]
      IN  {"mLocationOptions", "session", "mTracking", "api", "cbs", "gone"} \subseteq DOMAIN r
          /\ r.mLocationOptions \in Intervals /\ DOMAIN g.client = Clients /\ AdapterShape(g)
    BY ClientFields
<1>3. AdapterOK(g) /\ RequestsOK(g) /\ g.mSessionIdCounter \in Nat
    BY DEF TrackOK, AdapterOK, RequestsOK
<1>4. id \in Nat /\ id > g.mSessionIdCounter /\ i \in Intervals
    BY <1>2, <1>3
<1>5. m.kind = "Start" /\ m.id = id /\ m.c = c /\ m.i = i
    OBVIOUS
<1> HIDE DEF id, i, m
<1>6. /\ AdapterShape(a) /\ a.queue = g.queue /\ a.client = g.client /\ a.lost = g.lost
      /\ a.mTrackingSessions = g.mTrackingSessions /\ a.mSessionIdCounter = id
    BY <1>2 DEF AdapterShape
<1> HIDE DEF a
<1>7. Sessions(a) = Sessions(g)
    BY <1>6 DEF Sessions
<1>8. \A n : RequestOK(g, n) => RequestOK(a, n)
  <2> SUFFICES ASSUME NEW n, RequestOK(g, n)
               PROVE  RequestOK(a, n)
      OBVIOUS
  <2> QED
      BY <1>3, <1>4, <1>6, <1>7 DEF RequestOK
<1>9. \A k \in Sessions(g) : k[2] \in Nat /\ k[2] <= g.mSessionIdCounter
    BY <1>3 DEF RequestsOK
<1>10. \A k \in 1..Len(g.queue) : g.queue[k].kind = "Start" => g.queue[k].id \in Nat /\ g.queue[k].id <= g.mSessionIdCounter
    BY <1>3 DEF RequestsOK, RequestOK
<1>11. TrackOK(a, engine)
  <2>1. RequestsOK(a)
    <3>1. \A k \in 1..Len(a.queue) : RequestOK(a, a.queue[k])
        BY <1>3, <1>6, <1>8 DEF RequestsOK
    <3>2. \A k \in Sessions(a) : k[2] \in Nat /\ k[2] <= id
      <4> TAKE k \in Sessions(a)
      <4>1. k[2] \in Nat /\ k[2] <= g.mSessionIdCounter
          BY <1>7, <1>9
      <4> QED
          BY <1>3, <1>4, <4>1 DEF id
    <3> QED
        BY <1>3, <1>4, <1>6, <3>1, <3>2 DEF RequestsOK
  <2>2. AdapterOK(a)
      BY <1>3, <1>6, <2>1 DEF AdapterOK
  <2>3. InStep(a) <=> InStep(g)
      BY <1>6 DEF InStep, RestartPending
  <2> QED
      BY <1>6, <2>2, <2>3 DEF TrackOK, Follows
<1>12. RequestOK(a, m)
  <2>1. \A k \in Sessions(a) : k # <<c, id>>
    <3> SUFFICES ASSUME <<c, id>> \in Sessions(g)
                 PROVE  FALSE
        BY <1>7
    <3>1. id <= g.mSessionIdCounter
        BY <1>9
    <3> QED
        BY <1>3, <1>4, <3>1
  <2> QED
      BY <1>4, <1>5, <1>6, <2>1 DEF RequestOK
<1>13. \A k \in 1..Len(a.queue) : ~SameStart(a.queue[k], m)
    BY <1>3, <1>4, <1>5, <1>6, <1>10 DEF SameStart
<1>14. TrackOK(b, engine)
    BY <1>5, <1>11, <1>12, <1>13, SendTrack
<1>15. AdapterOK(b) /\ SameAside(b, a)
    BY <1>11, <1>12, <1>13, SendOK DEF TrackOK
<1> HIDE DEF b
<1>16. b.client = g.client /\ AdapterShape(b)
    BY <1>6, <1>15 DEF SameAside, AdapterOK
<1> DEFINE r == [[g.client[c] EXCEPT !.session = id] EXCEPT !.mTracking = TRUE]
<1>17. /\ {"mLocationOptions", "session", "mTracking", "api", "cbs", "gone"} \subseteq DOMAIN r
       /\ r.mLocationOptions \in Intervals
    BY <1>2
<1>18. /\ AdapterShape(g') /\ g'.queue = b.queue /\ g'.client = [b.client EXCEPT ![c] = r] /\ g'.lost = b.lost
       /\ g'.mTrackingSessions = b.mTrackingSessions /\ g'.mSessionIdCounter = b.mSessionIdCounter
    BY <1>1, <1>2, <1>16 DEF AdapterShape
<1> HIDE DEF r
<1>19. TrackOK(g', engine)
    BY <1>14, <1>17, <1>18, ClientChange
<1> QED
    BY <1>1, <1>19

LEMMA TrackCallStop ==
    ASSUME TrackingInv, NEW c \in Clients, locAPIStopTracking(c)
    PROVE  TrackingInv'
<1> SUFFICES ASSUME TrackOK(g, engine)
             PROVE  TrackOK(g', engine')
    BY DEF TrackingInv
<1> DEFINE m == [kind |-> "Stop", c |-> c, id |-> g.client[c].session]
           b == sendMsg(g, m)
<1>1. g' = [b EXCEPT !.client[c].mTracking = FALSE] /\ engine' = engine
    BY DEF locAPIStopTracking, apiStopTracking
<1>2. LET r == g.client[c]
      IN  {"mLocationOptions", "session", "mTracking", "api", "cbs", "gone"} \subseteq DOMAIN r
          /\ r.mLocationOptions \in Intervals /\ DOMAIN g.client = Clients /\ AdapterShape(g)
    BY ClientFields
<1>3. m.kind = "Stop"
    OBVIOUS
<1> HIDE DEF m
<1>4. TrackOK(b, engine)
    BY <1>3, SendPlain
<1>5. SameAside(b, g) /\ AdapterOK(b)
  <2>1. RequestOK(g, m) /\ \A k \in 1..Len(g.queue) : ~SameStart(g.queue[k], m)
      BY <1>3 DEF RequestOK, SameStart
  <2> QED
      BY <2>1, SendOK DEF TrackOK
<1> HIDE DEF b
<1>6. b.client = g.client /\ AdapterShape(b)
    BY <1>5 DEF SameAside, AdapterOK
<1> DEFINE r == [g.client[c] EXCEPT !.mTracking = FALSE]
           cl == [b.client EXCEPT ![c] = r]
<1>7. /\ {"mLocationOptions", "session", "mTracking", "api", "cbs", "gone"} \subseteq DOMAIN r
      /\ r.mLocationOptions \in Intervals
    BY <1>2
<1>8. g' = [b EXCEPT !.client = cl]
    BY <1>1, <1>6
<1> HIDE DEF r, cl
<1>9. /\ AdapterShape(g') /\ g'.queue = b.queue /\ g'.client = cl /\ g'.lost = b.lost
      /\ g'.mTrackingSessions = b.mTrackingSessions /\ g'.mSessionIdCounter = b.mSessionIdCounter
    BY <1>6, <1>8 DEF AdapterShape
<1>10. g'.client = [b.client EXCEPT ![c] = r]
    BY <1>9 DEF cl
<1>11. TrackOK(g', engine)
    BY <1>4, <1>7, <1>9, <1>10, ClientChange
<1> QED
    BY <1>1, <1>11

LEMMA TrackCallMode ==
    ASSUME TrackingInv, NEW c \in Clients, gnssSetPositionMode(c)
    PROVE  TrackingInv'
<1> SUFFICES ASSUME TrackOK(g, engine)
             PROVE  TrackOK(g', engine')
    BY DEF TrackingInv
<1>1. PICK i \in Intervals :
        g' = locAPIUpdateTrackingOptions([g EXCEPT !.client[c].mLocationOptions = i], c, i)
    BY DEF gnssSetPositionMode
<1>2. engine' = engine
    BY DEF gnssSetPositionMode
<1> DEFINE r == [g.client[c] EXCEPT !.mLocationOptions = i]
           cl == [g.client EXCEPT ![c] = r]
           a == [g EXCEPT !.client = cl]
<1>3. LET q == g.client[c]
      IN  {"mLocationOptions", "session", "mTracking", "api", "cbs", "gone"} \subseteq DOMAIN q
          /\ q.mLocationOptions \in Intervals /\ DOMAIN g.client = Clients /\ AdapterShape(g)
    BY ClientFields
<1>4. g' = locAPIUpdateTrackingOptions(a, c, i)
    BY <1>1
<1>5. /\ {"mLocationOptions", "session", "mTracking", "api", "cbs", "gone"} \subseteq DOMAIN r
      /\ r.mLocationOptions \in Intervals
    BY <1>3
<1> HIDE DEF r, cl
<1>6. /\ AdapterShape(a) /\ a.queue = g.queue /\ a.client = cl /\ a.lost = g.lost
      /\ a.mTrackingSessions = g.mTrackingSessions /\ a.mSessionIdCounter = g.mSessionIdCounter
    BY <1>3 DEF AdapterShape
<1> HIDE DEF a
<1>7. a.client = [g.client EXCEPT ![c] = r]
    BY <1>6 DEF cl
<1>8. TrackOK(a, engine)
    BY <1>5, <1>6, <1>7, ClientChange
<1> DEFINE m == [kind |-> "Update", c |-> c, id |-> a.client[c].session, i |-> i]
<1>9. m.kind = "Update" /\ m.i \in Intervals
    OBVIOUS
<1>10. g' = a \/ g' = sendMsg(a, m)
    BY <1>4 DEF locAPIUpdateTrackingOptions, apiUpdateTrackingOptions
<1> HIDE DEF m
<1>11. TrackOK(sendMsg(a, m), engine)
    BY <1>8, <1>9, SendPlain
<1> QED
    BY <1>2, <1>8, <1>10, <1>11

LEMMA TrackDestroy ==
    ASSUME TrackingInv, NEW c \in Clients, destroy(c)
    PROVE  TrackingInv'
<1> SUFFICES ASSUME TrackOK(g, engine)
             PROVE  TrackOK(g', engine')
    BY DEF TrackingInv
<1> DEFINE r == [Client EXCEPT !.gone = TRUE]
           cl == [g.client EXCEPT ![c] = r]
           a == [g EXCEPT !.client = cl]
           m == [kind |-> "Remove", c |-> c]
<1>1. g' = a \/ g' = sendMsg(a, m)
    BY DEF destroy
<1>2. engine' = engine
    BY DEF destroy
<1>3. AdapterShape(g)
    BY DEF TrackOK, AdapterOK
<1>4. /\ {"mLocationOptions", "session", "mTracking", "api", "cbs", "gone"} \subseteq DOMAIN r
      /\ r.mLocationOptions = Min(Intervals)
    BY DEF Client
<1>5. Min(Intervals) \in Intervals
  <2>1. \E x \in Intervals : \A y \in Intervals : x <= y
      BY LeastNumber, TrackingAssumption
  <2> QED
      BY <2>1 DEF Min
<1>6. m.kind = "Remove"
    OBVIOUS
<1> HIDE DEF r, cl, m
<1>7. /\ AdapterShape(a) /\ a.queue = g.queue /\ a.client = cl /\ a.lost = g.lost
      /\ a.mTrackingSessions = g.mTrackingSessions /\ a.mSessionIdCounter = g.mSessionIdCounter
    BY <1>3 DEF AdapterShape
<1> HIDE DEF a
<1>8. a.client = [g.client EXCEPT ![c] = r]
    BY <1>7 DEF cl
<1>9. TrackOK(a, engine)
    BY <1>4, <1>5, <1>7, <1>8, ClientChange
<1>10. TrackOK(sendMsg(a, m), engine)
    BY <1>6, <1>9, SendPlain
<1> QED
    BY <1>1, <1>2, <1>9, <1>10

THEOREM TrackingInitInv == TrackingInit => TrackingInv
<1> SUFFICES ASSUME TrackingInit
             PROVE  TrackOK(g, engine)
    BY DEF TrackingInv
<1>1. /\ AdapterShape(g) /\ g.queue = << >> /\ g.mTrackingSessions = << >> /\ g.mSessionIdCounter = 0
      /\ g.client = [c \in Clients |-> Client] /\ g.lost = FALSE
    BY DEF TrackingInit, AdapterShape
<1>2. EngineOK(engine) /\ engine.fix = OFF
    BY DEF TrackingInit, EngineOK, OFF
<1>3. Min(Intervals) \in Intervals
  <2>1. \E x \in Intervals : \A y \in Intervals : x <= y
      BY LeastNumber, TrackingAssumption
  <2> QED
      BY <2>1 DEF Min
<1>4. ClientsOK(g.client)
  <2>1. /\ {"mLocationOptions", "session", "mTracking", "api", "cbs", "gone"} \subseteq DOMAIN Client
        /\ Client.mLocationOptions \in Intervals
      BY <1>3 DEF Client
  <2> QED
      BY <1>1, <2>1 DEF ClientsOK
<1>5. DOMAIN g.mTrackingSessions = {} /\ Len(g.queue) = 0 /\ g.queue \in Seq({})
  <2>1. DOMAIN << >> = {} /\ Len(<< >>) = 0 /\ << >> \in Seq({})
      OBVIOUS
  <2> QED
      BY <1>1, <2>1
<1>6. SessionsOK(g.mTrackingSessions)
  <2>1. << >> = [k \in {} |-> << >>[k]]
      OBVIOUS
  <2>2. IsFiniteSet({})
      BY FS_EmptySet
  <2> QED
      BY <1>1, <1>5, <2>1, <2>2 DEF SessionsOK
<1>7. RequestsOK(g)
    BY <1>1, <1>5 DEF RequestsOK, Sessions
<1>8. Follows(g.mTrackingSessions, engine, InStep(g))
    BY <1>2, <1>5 DEF Follows, Pace
<1> QED
    BY <1>1, <1>2, <1>4, <1>6, <1>7, <1>8 DEF TrackOK, AdapterOK

THEOREM TrackingNextInv == TrackingInv /\ [TrackingNext]_trackingVars => TrackingInv'
<1> SUFFICES ASSUME TrackingInv, [TrackingNext]_trackingVars
             PROVE  TrackingInv'
    OBVIOUS
<1>1. CASE UNCHANGED trackingVars
  <2>1. g' = g /\ engine' = engine
      BY <1>1 DEF trackingVars
  <2> QED
      BY <2>1 DEF TrackingInv
<1>2. CASE Handler
    BY <1>2, TrackAdd, TrackRemove, TrackStart, TrackUpdate, TrackStop, TrackOpen, TrackRestart DEF Handler
<1>3. CASE EngineDown
    BY <1>3, TrackDown
<1>4. CASE handleEngineUpEvent
    BY <1>4, TrackUp
<1>5. ASSUME NEW c \in Clients, \/ locAPISetCallbacks(c) \/ destroy(c)
                                \/ locAPIStartTracking(c) \/ locAPIStopTracking(c) \/ gnssSetPositionMode(c)
      PROVE  TrackingInv'
    BY <1>5, TrackCallbacks, TrackDestroy, TrackCallStart, TrackCallStop, TrackCallMode
<1> QED
    BY <1>1, <1>2, <1>3, <1>4, <1>5 DEF TrackingNext

(* The inductive invariant of tracking: the modem's interval is the smallest of the    *)
(* sessions' unless a restart is still to be handled or the resumption was refused, it *)
(* is off whenever there is no session, and a start that waits has an id of its own.   *)
THEOREM TrackingInvariant == Spec => []TrackingInv
<1>1. Init => TrackingInv
    BY TrackingInitInv DEF Init
<1>2. TrackingInv /\ [Next]_vars => TrackingInv'
  <2>1. [Next]_vars => [TrackingNext]_trackingVars
      BY DEF Next, Tracks, Controls, Notifies, Observes, vars
  <2> QED
      BY <2>1, TrackingNextInv
<1> QED
    BY <1>1, <1>2, PTL DEF Spec

(* FixFollowsSessions: the modem's one fix session runs at the smallest interval of    *)
(* the sessions the adapter holds, or not at all when it holds none, for any number of *)
(* clients, sessions, intervals, refusals and restarts.                                *)
THEOREM FixAlwaysFollows == Spec => []FixFollowsSessions
<1>1. TrackingInv => FixFollowsSessions
  <2> SUFFICES ASSUME TrackOK(g, engine), engine.up, ~g.lost,
                      ~(\E k \in DOMAIN g.queue : g.queue[k].kind = "Restart")
               PROVE  engine.fix = IF Sessions(g) = {} THEN OFF ELSE Smallest(g.mTrackingSessions)
      BY DEF TrackingInv, FixFollowsSessions
  <2>1. PICK S : g.queue \in Seq(S)
      BY DEF TrackOK, AdapterOK, RequestsOK
  <2>2. DOMAIN g.queue = 1..Len(g.queue)
      BY <2>1
  <2>3. InStep(g)
      BY <2>2 DEF InStep, RestartPending
  <2> QED
      BY <2>3 DEF TrackOK, Follows, Pace, Sessions
<1> QED
    BY <1>1, TrackingInvariant, PTL

(* The observers of data items *)

OsValues == ItemValues \cup {UNSET}
OsRequests ==
    [type : {"subscribe", "update", "requestData", "unsubscribe", "unsubscribeAll"},
     client : Observers, l : SUBSET DataItems]
OsNotices == [type : {"notify"}, values : UNION {[l -> ItemValues] : l \in SUBSET DataItems}]
OsMessages == OsRequests \cup OsNotices
ItemLists == [Observers -> SUBSET DataItems]

OsRecords ==
    [ready : BOOLEAN, subscribeReqCache : ItemLists, reqDataCache : ItemLists,
     dataItems : ItemLists, clients : [DataItems -> Seq(Observers)], cache : [DataItems -> OsValues],
     msgs : Seq(OsMessages), heard : [Observers -> [DataItems -> OsValues]],
     asked : SUBSET DataItems, wants : ItemLists, requested : SUBSET DataItems, calls : Nat]

\* An observer is in the index of every item it has in its own list, and the items with
\* an observer are subscribed to, unless somebody only requested them.
ItemsListed == \A c \in Observers : \A i \in os.dataItems[c] : Listed(os.clients[i], c)
ItemsAsked == \A i \in DataItems \ os.requested : os.clients[i] # << >> => i \in os.asked

\* The observer has heard what is cached of its items; of what is not cached it has
\* heard nothing.
ItemsHeard == \A c \in Observers : \A i \in os.dataItems[c] \ os.requested : os.heard[c][i] = os.cache[i]
UnsetUnheard == \A c \in Observers : \A i \in DataItems : os.cache[i] = UNSET => os.heard[c][i] = UNSET

\* What a message enters in, or takes from, an observer's list.
PutsItem(m, c, i) == m.type \in {"subscribe", "update", "requestData"} /\ m.client = c /\ i \in m.l
TakesItem(m, c, i) ==
    /\ m.type \in {"update", "unsubscribe", "unsubscribeAll"} /\ m.client = c
    /\ m.type = "update" => i \notin m.l
    /\ m.type = "unsubscribe" => i \in m.l

\* The item will be in the observer's list when the messages have been handled.
Untaken(q, k, c, i) == \A j \in k + 1..Len(q) : ~TakesItem(q[j], c, i)
Lasts(items, q, c, i) ==
    \/ i \in items[c] /\ Untaken(q, 0, c, i)
    \/ \E k \in 1..Len(q) : PutsItem(q[k], c, i) /\ Untaken(q, k, c, i)

WantsLast ==
    \A c \in Observers : \A i \in os.wants[c] :
        \/ os.ready /\ Lasts(os.dataItems, os.msgs, c, i)
        \/ ~os.ready /\ i \in os.subscribeReqCache[c]

RequestsNoted ==
    /\ \A c \in Observers : os.reqDataCache[c] \subseteq os.requested
    /\ \A k \in 1..Len(os.msgs) : os.msgs[k].type = "requestData" => os.msgs[k].l \subseteq os.requested

IndexesAgree == ItemsListed /\ ItemsAsked /\ ItemsHeard /\ UnsetUnheard
OsInv ==
    /\ os \in OsRecords /\ IndexesAgree
    /\ WantsLast /\ RequestsNoted /\ (~os.ready => os.msgs = << >>)

LEMMA ClientAdded ==
    ASSUME NEW clients \in [DataItems -> Seq(Observers)], NEW c \in Observers, NEW l,
           NEW added, added = AddClient(clients, c, l)
    PROVE  /\ added \in [DataItems -> Seq(Observers)]
           /\ \A i \in DataItems : \A d \in Observers : Listed(clients[i], d) => Listed(added[i], d)
           /\ \A i \in DataItems : i \in l => Listed(added[i], c)
           /\ \A i \in DataItems : i \notin l => added[i] = clients[i]
<1>1. ASSUME NEW i \in DataItems, NEW s \in Seq(Observers), s = clients[i]
      PROVE  /\ added[i] \in Seq(Observers)
             /\ \A d \in Observers : Listed(s, d) => Listed(added[i], d)
             /\ i \in l => Listed(added[i], c)
             /\ i \notin l => added[i] = s
  <2>1. added[i] = IF i \in l /\ ~Listed(s, c) THEN Append(s, c) ELSE s
      BY <1>1 DEF AddClient
  <2>2. CASE i \in l /\ ~Listed(s, c)
    <3>1. added[i] = Append(s, c)
        BY <2>1, <2>2
    <3>2. Len(Append(s, c)) = Len(s) + 1 /\ Append(s, c)[Len(s) + 1] = c /\ Append(s, c) \in Seq(Observers)
          /\ \A j \in 1..Len(s) : Append(s, c)[j] = s[j]
        OBVIOUS
    <3>3. Listed(Append(s, c), c)
        BY <3>2 DEF Listed
    <3>4. \A d \in Observers : Listed(s, d) => Listed(Append(s, c), d)
        BY <3>2 DEF Listed
    <3> QED
        BY <2>2, <3>1, <3>2, <3>3, <3>4
  <2>3. CASE ~(i \in l /\ ~Listed(s, c))
      BY <2>1, <2>3
  <2> QED
      BY <2>2, <2>3
<1>2. added = [i \in DataItems |-> added[i]]
    BY DEF AddClient
<1> QED
    BY <1>1, <1>2

LEMMA ClientErased ==
    ASSUME NEW s \in Seq(Observers), NEW c \in Observers, NEW k \in Removable(s, c)
    PROVE  /\ Erased(s, k) \in Seq(Observers)
           /\ \A d \in Observers : d # c /\ Listed(s, d) => Listed(Erased(s, k), d)
<1>1. k \in 1..Len(s) /\ s[k] = c /\ Len(s) \in Nat /\ \A j \in 1..Len(s) : s[j] \in Observers
    BY DEF Removable
<1>2. /\ Erased(s, k) \in [1..Len(s) - 1 -> Observers] /\ Len(s) - 1 \in Nat
      /\ \A j \in 1..Len(s) - 1 : Erased(s, k)[j] = IF j < k THEN s[j] ELSE s[j + 1]
    BY <1>1 DEF Erased
<1>3. Erased(s, k) \in Seq(Observers)
    BY <1>2
<1>4. ASSUME NEW d \in Observers, d # c, NEW j \in 1..Len(s), s[j] = d
      PROVE  Listed(Erased(s, k), d)
  <2>1. CASE j < k
    <3>1. j \in 1..Len(s) - 1 /\ Erased(s, k)[j] = d
        BY <1>1, <1>2, <1>4, <2>1
    <3> QED
        BY <1>2, <3>1 DEF Listed
  <2>2. CASE j > k
    <3>1. j - 1 \in 1..Len(s) - 1 /\ ~(j - 1 < k) /\ j - 1 + 1 = j
        BY <1>1, <2>2
    <3>2. Erased(s, k)[j - 1] = d
        BY <1>2, <1>4, <3>1
    <3> QED
        BY <1>2, <3>1, <3>2 DEF Listed
  <2> QED
      BY <1>1, <1>4, <2>1, <2>2
<1> QED
    BY <1>3, <1>4 DEF Listed

\* At most the observer c has been removed from the lists of the items l.
WithoutClient(left, clients, c, l) ==
    /\ left \in [DataItems -> Seq(Observers)]
    /\ \A i \in DataItems : \A d \in Observers : d # c /\ Listed(clients[i], d) => Listed(left[i], d)
    /\ \A i \in DataItems : i \notin l => left[i] = clients[i]
    /\ \A i \in DataItems : clients[i] = << >> => left[i] = << >>

LEMMA ClientRemoved ==
    ASSUME NEW clients \in [DataItems -> Seq(Observers)], NEW c \in Observers, NEW l,
           NEW left, left = RemoveClient(clients, c, l)
    PROVE  WithoutClient(left, clients, c, l)
<1>1. ASSUME NEW i \in DataItems, NEW s \in Seq(Observers), s = clients[i]
      PROVE  /\ left[i] \in Seq(Observers)
             /\ \A d \in Observers : d # c /\ Listed(s, d) => Listed(left[i], d)
             /\ i \notin l => left[i] = s
             /\ s = << >> => left[i] = << >>
  <2>1. left[i] = IF i \in l /\ Removable(s, c) # {}
                  THEN Erased(s, CHOOSE k \in Removable(s, c) : TRUE) ELSE s
      BY <1>1 DEF RemoveClient
  <2>2. CASE i \in l /\ Removable(s, c) # {}
    <3>1. PICK k \in Removable(s, c) : left[i] = Erased(s, k)
        BY <2>1, <2>2
    <3>2. s # << >>
        BY <3>1 DEF Removable
    <3> QED
        BY <2>2, <3>1, <3>2, ClientErased
  <2>3. CASE ~(i \in l /\ Removable(s, c) # {})
      BY <2>1, <2>3
  <2> QED
      BY <2>2, <2>3
<1>2. left = [i \in DataItems |-> left[i]]
    BY DEF RemoveClient
<1> QED
    BY <1>1, <1>2 DEF WithoutClient

LEMMA LastsPosted ==
    ASSUME NEW q \in Seq(OsMessages), NEW m \in OsMessages, NEW items, NEW c, NEW i,
           \/ Lasts(items, q, c, i) /\ ~TakesItem(m, c, i)
           \/ PutsItem(m, c, i)
    PROVE  Lasts(items, q \o <<m>>, c, i)
<1> DEFINE p == q \o <<m>>
<1>1. /\ Len(p) = Len(q) + 1 /\ p[Len(q) + 1] = m /\ Len(q) \in Nat
      /\ \A j \in 1..Len(q) : p[j] = q[j]
    OBVIOUS
<1> HIDE DEF p
<1>2. CASE PutsItem(m, c, i)
  <2>1. Untaken(p, Len(q) + 1, c, i)
      BY <1>1 DEF Untaken
  <2> QED
      BY <1>1, <1>2, <2>1 DEF Lasts, p
<1>3. CASE Lasts(items, q, c, i) /\ ~TakesItem(m, c, i)
  <2>1. ASSUME NEW k \in 0..Len(q), Untaken(q, k, c, i)
        PROVE  Untaken(p, k, c, i)
    <3>1. ASSUME NEW j \in k + 1..Len(p) PROVE ~TakesItem(p[j], c, i)
      <4>1. CASE j = Len(q) + 1
          BY <1>1, <1>3, <4>1
      <4>2. CASE j # Len(q) + 1
        <5>1. j \in k + 1..Len(q) /\ j \in 1..Len(q)
            BY <1>1, <4>2
        <5> QED
            BY <1>1, <2>1, <5>1 DEF Untaken
      <4> QED
          BY <4>1, <4>2
    <3> QED
        BY <3>1 DEF Untaken
  <2>2. CASE i \in items[c] /\ Untaken(q, 0, c, i)
      BY <1>1, <2>1, <2>2 DEF Lasts, p
  <2>3. CASE \E k \in 1..Len(q) : PutsItem(q[k], c, i) /\ Untaken(q, k, c, i)
    <3>1. PICK k \in 1..Len(q) : PutsItem(q[k], c, i) /\ Untaken(q, k, c, i)
        BY <2>3
    <3>2. k \in 1..Len(p) /\ PutsItem(p[k], c, i) /\ Untaken(p, k, c, i)
        BY <1>1, <2>1, <3>1
    <3> QED
        BY <3>2 DEF Lasts, p
  <2> QED
      BY <1>3, <2>2, <2>3 DEF Lasts
<1> QED
    BY <1>2, <1>3

LEMMA LastsHandled ==
    ASSUME NEW q \in Seq(OsMessages), q # << >>, NEW items, NEW left, NEW c, NEW i,
           Lasts(items, q, c, i),
           i \in items[c] /\ ~TakesItem(Head(q), c, i) => i \in left[c],
           PutsItem(Head(q), c, i) => i \in left[c]
    PROVE  Lasts(left, Tail(q), c, i)
<1> DEFINE p == Tail(q)
<1>1. /\ Len(q) \in Nat /\ Len(q) >= 1 /\ Len(p) = Len(q) - 1 /\ Head(q) = q[1]
      /\ \A j \in 1..Len(p) : p[j] = q[j + 1]
    OBVIOUS
<1> HIDE DEF p
<1>2. ASSUME NEW k \in 0..Len(p), Untaken(q, k + 1, c, i)
      PROVE  Untaken(p, k, c, i)
  <2>1. ASSUME NEW j \in k + 1..Len(p) PROVE ~TakesItem(p[j], c, i)
    <3>1. j + 1 \in k + 1 + 1..Len(q) /\ p[j] = q[j + 1]
        BY <1>1
    <3> QED
        BY <1>2, <3>1 DEF Untaken
  <2> QED
      BY <2>1 DEF Untaken
<1>3. CASE i \in items[c] /\ Untaken(q, 0, c, i)
  <2>1. ~TakesItem(q[1], c, i) /\ Untaken(q, 0 + 1, c, i)
      BY <1>1, <1>3 DEF Untaken
  <2> QED
      BY <1>1, <1>2, <1>3, <2>1 DEF Lasts, p
<1>4. CASE \E k \in 1..Len(q) : PutsItem(q[k], c, i) /\ Untaken(q, k, c, i)
  <2>1. PICK k \in 1..Len(q) : PutsItem(q[k], c, i) /\ Untaken(q, k, c, i)
      BY <1>4
  <2>2. Untaken(p, k - 1, c, i)
      BY <1>1, <1>2, <2>1
  <2>3. CASE k = 1
      BY <1>1, <2>1, <2>2, <2>3 DEF Lasts, p
  <2>4. CASE k # 1
    <3>1. k - 1 \in 1..Len(p) /\ p[k - 1] = q[k]
        BY <1>1, <2>4
    <3> QED
        BY <2>1, <2>2, <3>1 DEF Lasts, p
  <2> QED
      BY <2>3, <2>4
<1> QED
    BY <1>3, <1>4 DEF Lasts

OsIndexes == <<os.dataItems, os.clients, os.cache, os.heard, os.asked>>

LEMMA IndexesKept ==
    ASSUME os \in OsRecords, IndexesAgree, OsIndexes' = OsIndexes, os.requested \subseteq os'.requested
    PROVE  IndexesAgree'
<1>1. /\ os'.dataItems = os.dataItems /\ os'.clients = os.clients /\ os'.cache = os.cache
      /\ os'.heard = os.heard /\ os'.asked = os.asked
    BY DEF OsIndexes
<1>2. ItemsListed'
    BY <1>1 DEF IndexesAgree, ItemsListed
<1>3. ItemsAsked'
    BY <1>1 DEF IndexesAgree, ItemsAsked
<1>4. ItemsHeard'
    BY <1>1 DEF IndexesAgree, ItemsHeard
<1>5. UnsetUnheard'
    BY <1>1 DEF IndexesAgree, UnsetUnheard
<1> QED
    BY <1>2, <1>3, <1>4, <1>5 DEF IndexesAgree

\* A call that posts the message m.
LEMMA OsPosted ==
    ASSUME OsInv, os' \in OsRecords, OsIndexes' = OsIndexes, NEW m \in OsMessages,
           os.ready, os'.ready, os'.msgs = os.msgs \o <<m>>, os'.reqDataCache = os.reqDataCache,
           os.requested \subseteq os'.requested,
           m.type = "requestData" => m.l \subseteq os'.requested,
           \A c \in Observers : \A i \in os'.wants[c] :
               \/ i \in os.wants[c] /\ ~TakesItem(m, c, i)
               \/ PutsItem(m, c, i)
    PROVE  OsInv'
<1>1. os \in OsRecords /\ os.msgs \in Seq(OsMessages) /\ os'.dataItems = os.dataItems
    BY DEF OsInv, OsRecords, OsIndexes
<1>2. IndexesAgree'
    BY IndexesKept DEF OsInv
<1>3. WantsLast'
  <2>1. ASSUME NEW c \in Observers, NEW i \in os'.wants[c]
        PROVE  Lasts(os.dataItems, os.msgs \o <<m>>, c, i)
    <3>1. i \in os.wants[c] => Lasts(os.dataItems, os.msgs, c, i)
        BY DEF OsInv, WantsLast
    <3> QED
        BY <1>1, <2>1, <3>1, LastsPosted
  <2> QED
      BY <1>1, <2>1 DEF WantsLast
<1>4. RequestsNoted'
  <2>1. \A k \in 1..Len(os'.msgs) : os'.msgs[k] = m \/ (k \in 1..Len(os.msgs) /\ os'.msgs[k] = os.msgs[k])
      BY <1>1
  <2> QED
      BY <2>1 DEF OsInv, RequestsNoted
<1> QED
    BY <1>2, <1>3, <1>4 DEF OsInv

\* What a handler leaves of the fields it has nothing to do with.
OsAside == <<os.ready, os.subscribeReqCache, os.reqDataCache, os.wants, os.requested, os.calls>>

\* The handling of the message at the head of the queue.
LEMMA OsTaken ==
    ASSUME OsInv, os' \in OsRecords, IndexesAgree', OsAside' = OsAside,
           os.msgs # << >>, os'.msgs = Tail(os.msgs),
           \A c \in Observers : \A i \in DataItems :
               /\ i \in os.dataItems[c] /\ ~TakesItem(Head(os.msgs), c, i) => i \in os'.dataItems[c]
               /\ PutsItem(Head(os.msgs), c, i) => i \in os'.dataItems[c]
    PROVE  OsInv'
<1>1. /\ os \in OsRecords /\ os.msgs \in Seq(OsMessages)
      /\ os'.ready = os.ready /\ os'.wants = os.wants /\ os'.requested = os.requested
      /\ os'.reqDataCache = os.reqDataCache /\ os.wants \in ItemLists
    BY DEF OsInv, OsRecords, OsAside
<1>2. os.ready
    BY DEF OsInv
<1>3. WantsLast'
  <2>1. ASSUME NEW c \in Observers, NEW i \in os.wants[c]
        PROVE  Lasts(os'.dataItems, Tail(os.msgs), c, i)
    <3>1. Lasts(os.dataItems, os.msgs, c, i) /\ i \in DataItems
        BY <1>1, <1>2 DEF OsInv, WantsLast, ItemLists
    <3> QED
        BY <1>1, <3>1, LastsHandled
  <2> QED
      BY <1>1, <1>2, <2>1 DEF WantsLast
<1>4. RequestsNoted'
  <2>1. \A k \in 1..Len(os'.msgs) : k + 1 \in 1..Len(os.msgs) /\ os'.msgs[k] = os.msgs[k + 1]
      BY <1>1
  <2> QED
      BY <1>1, <2>1 DEF OsInv, RequestsNoted
<1> QED
    BY <1>1, <1>2, <1>3, <1>4 DEF OsInv

\* The handlers that put items in an observer's list: those that come, new, are told at
\* once, and those given up stay in the index by item.
Enters(c, l, new) ==
    /\ os'.cache = os.cache /\ os'.clients = AddClient(os.clients, c, l)
    /\ \A d \in Observers \ {c} : os'.dataItems[d] = os.dataItems[d] /\ os'.heard[d] = os.heard[d]
    /\ os'.dataItems[c] \subseteq os.dataItems[c] \cup l
    /\ new \subseteq l /\ l \ new \subseteq os.dataItems[c] \cup os.requested
    /\ \A i \in DataItems : os'.heard[c][i] = IF i \in new /\ os.cache[i] # UNSET
                                              THEN os.cache[i] ELSE os.heard[c][i]
    /\ os.asked \subseteq os'.asked
    /\ \A i \in l \ os.requested : os.clients[i] = << >> => i \in os'.asked

LEMMA OsEnters ==
    ASSUME os \in OsRecords, os' \in OsRecords, IndexesAgree, OsAside' = OsAside,
           NEW c \in Observers, NEW l \in SUBSET DataItems, NEW new, Enters(c, l, new)
    PROVE  IndexesAgree'
<1> USE DEF Enters
<1>1. /\ os'.requested = os.requested /\ os.clients \in [DataItems -> Seq(Observers)]
      /\ os.dataItems \in ItemLists /\ os'.dataItems \in ItemLists
    BY DEF OsRecords, OsAside
<1>2. /\ \A i \in DataItems : \A d \in Observers : Listed(os.clients[i], d) => Listed(os'.clients[i], d)
      /\ \A i \in DataItems : i \in l => Listed(os'.clients[i], c)
      /\ \A i \in DataItems : i \notin l => os'.clients[i] = os.clients[i]
    BY <1>1, ClientAdded
<1>3. ItemsListed'
  <2>1. ASSUME NEW d \in Observers, NEW i \in os'.dataItems[d]
        PROVE  Listed(os'.clients[i], d)
    <3>1. i \in DataItems
        BY <1>1 DEF ItemLists
    <3>2. i \in os.dataItems[d] => Listed(os.clients[i], d)
        BY DEF IndexesAgree, ItemsListed
    <3> QED
        BY <1>2, <3>1, <3>2
  <2> QED
      BY <2>1 DEF ItemsListed
<1>4. ItemsAsked'
    BY <1>1, <1>2 DEF IndexesAgree, ItemsAsked
<1>5. UnsetUnheard'
    BY DEF IndexesAgree, UnsetUnheard
<1>6. ItemsHeard'
  <2>1. ASSUME NEW d \in Observers, NEW i \in os'.dataItems[d], i \notin os.requested
        PROVE  os'.heard[d][i] = os.cache[i]
    <3>1. i \in DataItems
        BY <1>1 DEF ItemLists
    <3>2. i \in os.dataItems[d] => os.heard[d][i] = os.cache[i]
        BY <2>1 DEF IndexesAgree, ItemsHeard
    <3>3. os.cache[i] = UNSET => os.heard[d][i] = os.cache[i]
        BY <3>1 DEF IndexesAgree, UnsetUnheard
    <3>4. CASE d = c
      <4>1. i \in os.dataItems[c] \/ i \in new
          BY <2>1, <3>4
      <4> QED
          BY <3>1, <3>2, <3>3, <3>4, <4>1
    <3> QED
        BY <3>2, <3>4
  <2> QED
      BY <1>1, <2>1 DEF ItemsHeard
<1> QED
    BY <1>3, <1>4, <1>5, <1>6 DEF IndexesAgree

\* The record field by field.
OsShaped ==
    os = [ready |-> os.ready, subscribeReqCache |-> os.subscribeReqCache, reqDataCache |-> os.reqDataCache,
          dataItems |-> os.dataItems, clients |-> os.clients, cache |-> os.cache, msgs |-> os.msgs,
          heard |-> os.heard, asked |-> os.asked, wants |-> os.wants, requested |-> os.requested,
          calls |-> os.calls]
IndexTypes ==
    /\ os.dataItems \in ItemLists /\ os.clients \in [DataItems -> Seq(Observers)]
    /\ os.cache \in [DataItems -> OsValues] /\ os.heard \in [Observers -> [DataItems -> OsValues]]
    /\ os.asked \in SUBSET DataItems
AsideTypes ==
    /\ os.ready \in BOOLEAN /\ os.subscribeReqCache \in ItemLists /\ os.reqDataCache \in ItemLists
    /\ os.wants \in ItemLists /\ os.requested \in SUBSET DataItems /\ os.calls \in Nat

LEMMA OsFields ==
    os \in OsRecords <=> OsShaped /\ IndexTypes /\ AsideTypes /\ os.msgs \in Seq(OsMessages)
BY DEF OsRecords, OsShaped, IndexTypes, AsideTypes

\* A handler's result r, with the message taken from the queue.
OsStep(r) == os' = [r EXCEPT !.msgs = Tail(@)]

LEMMA OsStepTyped ==
    ASSUME os \in OsRecords, OsShaped', IndexTypes', OsAside' = OsAside,
           os.msgs # << >>, os'.msgs = Tail(os.msgs)
    PROVE  os' \in OsRecords
<1>1. AsideTypes /\ os.msgs \in Seq(OsMessages)
    BY OsFields
<1>2. AsideTypes'
    BY <1>1 DEF AsideTypes, OsAside
<1>3. os'.msgs \in Seq(OsMessages)
    BY <1>1
<1> QED
    BY <1>2, <1>3 DEF OsRecords, OsShaped, IndexTypes, AsideTypes

LEMMA ItemsEntered ==
    ASSUME NEW items \in ItemLists, NEW c \in Observers, NEW l \in SUBSET DataItems,
           NEW entered, entered = Entered(items, c, l)
    PROVE  /\ entered \in ItemLists /\ entered[c] = items[c] \cup l
           /\ \A d \in Observers \ {c} : entered[d] = items[d]
BY DEF Entered, ItemLists

LEMMA ItemsWithdrawn ==
    ASSUME NEW items \in ItemLists, NEW c \in Observers, NEW l,
           NEW left, left = Withdrawn(items, c, l)
    PROVE  /\ left \in ItemLists /\ left[c] = items[c] \ l
           /\ \A d \in Observers \ {c} : left[d] = items[d]
BY DEF Withdrawn, ItemLists

LEMMA ItemsTold ==
    ASSUME IndexTypes, NEW c \in Observers, NEW l \in SUBSET DataItems,
           NEW told, told = Told(c, Cached(l), os.cache)
    PROVE  /\ told \in [Observers -> [DataItems -> OsValues]]
           /\ \A d \in Observers \ {c} : told[d] = os.heard[d]
           /\ \A i \in DataItems : told[c][i] = IF i \in l /\ os.cache[i] # UNSET
                                                THEN os.cache[i] ELSE os.heard[c][i]
BY DEF Told, Cached, IndexTypes

LEMMA OsSubscribes ==
    ASSUME OsInv, NEW m \in OsRequests, m.type = "subscribe", os.msgs # << >>, m = Head(os.msgs),
           OsStep(HandleSubscribeReq(m))
    PROVE  OsInv'
<1>1. /\ os \in OsRecords /\ IndexesAgree /\ IndexTypes
      /\ m.client \in Observers /\ m.l \in SUBSET DataItems
    BY OsFields DEF OsInv, OsRequests
<1>2. /\ os'.dataItems = Entered(os.dataItems, m.client, m.l)
      /\ os'.heard = Told(m.client, Cached(m.l), os.cache)
      /\ os'.clients = AddClient(os.clients, m.client, m.l)
      /\ os'.asked = os.asked \cup YetToSubscribe(os.clients, m.l)
      /\ os'.cache = os.cache /\ os'.msgs = Tail(os.msgs) /\ OsAside' = OsAside
      /\ OsShaped'
    BY <1>1 DEF OsStep, HandleSubscribeReq, OsRecords, OsAside, OsShaped
<1>3. /\ os'.dataItems \in ItemLists
      /\ os'.dataItems[m.client] = os.dataItems[m.client] \cup m.l
      /\ \A d \in Observers \ {m.client} : os'.dataItems[d] = os.dataItems[d]
    BY <1>1, <1>2, ItemsEntered DEF IndexTypes
<1>4. /\ os'.heard \in [Observers -> [DataItems -> OsValues]]
      /\ \A d \in Observers \ {m.client} : os'.heard[d] = os.heard[d]
      /\ \A i \in DataItems : os'.heard[m.client][i] = IF i \in m.l /\ os.cache[i] # UNSET
                                                       THEN os.cache[i] ELSE os.heard[m.client][i]
    BY <1>1, <1>2, ItemsTold
<1>5. os'.clients \in [DataItems -> Seq(Observers)]
    BY <1>1, <1>2, ClientAdded DEF IndexTypes
<1>6. os'.asked \in SUBSET DataItems /\ os.asked \subseteq os'.asked
      /\ \A i \in m.l \ os.requested : os.clients[i] = << >> => i \in os'.asked
    BY <1>1, <1>2 DEF YetToSubscribe, IndexTypes
<1>7. os' \in OsRecords
  <2>1. IndexTypes'
      BY <1>1, <1>2, <1>3, <1>4, <1>5, <1>6 DEF IndexTypes
  <2> QED
      BY <1>1, <1>2, <2>1, OsStepTyped
<1>8. IndexesAgree'
  <2>1. Enters(m.client, m.l, m.l)
      BY <1>2, <1>3, <1>4, <1>6 DEF Enters
  <2> QED
      BY <1>1, <1>2, <1>7, <2>1, OsEnters
<1>9. \A c \in Observers : \A i \in DataItems :
          /\ i \in os.dataItems[c] /\ ~TakesItem(m, c, i) => i \in os'.dataItems[c]
          /\ PutsItem(m, c, i) => i \in os'.dataItems[c]
    BY <1>3 DEF PutsItem
<1> QED
    BY <1>2, <1>7, <1>8, <1>9, OsTaken

LEMMA OsUpdates ==
    ASSUME OsInv, NEW m \in OsRequests, m.type = "update", os.msgs # << >>, m = Head(os.msgs),
           OsStep(HandleUpdateSubscriptionReq(m))
    PROVE  OsInv'
<1> DEFINE old == os.dataItems[m.client]
           new == m.l \ old
<1>1. /\ os \in OsRecords /\ IndexesAgree /\ IndexTypes
      /\ m.client \in Observers /\ m.l \in SUBSET DataItems
    BY OsFields DEF OsInv, OsRequests
<1>2. /\ os'.dataItems = Withdrawn(Entered(os.dataItems, m.client, m.l), m.client, old \ m.l)
      /\ os'.heard = Told(m.client, Cached(new), os.cache)
      /\ os'.clients = AddClient(os.clients, m.client, m.l)
      /\ os'.asked = os.asked \cup YetToSubscribe(os.clients, m.l)
      /\ os'.cache = os.cache /\ os'.msgs = Tail(os.msgs) /\ OsAside' = OsAside
      /\ OsShaped'
    BY <1>1 DEF OsStep, HandleUpdateSubscriptionReq, OsRecords, OsAside, OsShaped
<1>3. /\ os'.dataItems \in ItemLists
      /\ os'.dataItems[m.client] = m.l
      /\ \A d \in Observers \ {m.client} : os'.dataItems[d] = os.dataItems[d]
  <2> DEFINE entered == Entered(os.dataItems, m.client, m.l)
             gone == old \ m.l
  <2>1. /\ entered \in ItemLists /\ entered[m.client] = old \cup m.l
        /\ \A d \in Observers \ {m.client} : entered[d] = os.dataItems[d]
      BY <1>1, ItemsEntered DEF IndexTypes
  <2>2. os'.dataItems = Withdrawn(entered, m.client, gone) /\ (old \cup m.l) \ gone = m.l
      BY <1>2
  <2> HIDE DEF entered, gone
  <2>3. /\ os'.dataItems \in ItemLists /\ os'.dataItems[m.client] = entered[m.client] \ gone
        /\ \A d \in Observers \ {m.client} : os'.dataItems[d] = entered[d]
      BY <1>1, <2>1, <2>2, ItemsWithdrawn
  <2> QED
      BY <2>1, <2>2, <2>3
<1>4. new \in SUBSET DataItems /\ new \in SUBSET m.l /\ m.l \ new \subseteq old
    BY <1>1
<1> HIDE DEF new
<1>5. /\ os'.heard \in [Observers -> [DataItems -> OsValues]]
      /\ \A d \in Observers \ {m.client} : os'.heard[d] = os.heard[d]
      /\ \A i \in DataItems : os'.heard[m.client][i] = IF i \in new /\ os.cache[i] # UNSET
                                                       THEN os.cache[i] ELSE os.heard[m.client][i]
    BY <1>1, <1>2, <1>4, ItemsTold
<1>6. os'.clients \in [DataItems -> Seq(Observers)]
    BY <1>1, <1>2, ClientAdded DEF IndexTypes
<1>7. os'.asked \in SUBSET DataItems /\ os.asked \subseteq os'.asked
      /\ \A i \in m.l \ os.requested : os.clients[i] = << >> => i \in os'.asked
    BY <1>1, <1>2 DEF YetToSubscribe, IndexTypes
<1>8. os' \in OsRecords
  <2>1. IndexTypes'
      BY <1>1, <1>2, <1>3, <1>5, <1>6, <1>7 DEF IndexTypes
  <2> QED
      BY <1>1, <1>2, <2>1, OsStepTyped
<1>9. IndexesAgree'
  <2>1. Enters(m.client, m.l, new)
      BY <1>2, <1>3, <1>4, <1>5, <1>7 DEF Enters
  <2> QED
      BY <1>1, <1>2, <1>8, <2>1, OsEnters
<1>10. \A c \in Observers : \A i \in DataItems :
           /\ i \in os.dataItems[c] /\ ~TakesItem(m, c, i) => i \in os'.dataItems[c]
           /\ PutsItem(m, c, i) => i \in os'.dataItems[c]
    BY <1>3 DEF PutsItem, TakesItem
<1> QED
    BY <1>2, <1>8, <1>9, <1>10, OsTaken

LEMMA OsRequestsData ==
    ASSUME OsInv, NEW m \in OsRequests, m.type = "requestData", os.msgs # << >>, m = Head(os.msgs),
           OsStep(HandleRequestData(m))
    PROVE  OsInv'
<1>1. /\ os \in OsRecords /\ IndexesAgree /\ IndexTypes
      /\ m.client \in Observers /\ m.l \in SUBSET DataItems
    BY OsFields DEF OsInv, OsRequests
<1>2. /\ os'.dataItems = Entered(os.dataItems, m.client, m.l)
      /\ os'.clients = AddClient(os.clients, m.client, m.l)
      /\ os'.heard = os.heard /\ os'.asked = os.asked
      /\ os'.cache = os.cache /\ os'.msgs = Tail(os.msgs) /\ OsAside' = OsAside
      /\ OsShaped'
    BY <1>1 DEF OsStep, HandleRequestData, OsRecords, OsAside, OsShaped
<1>3. /\ os'.dataItems \in ItemLists
      /\ os'.dataItems[m.client] = os.dataItems[m.client] \cup m.l
      /\ \A d \in Observers \ {m.client} : os'.dataItems[d] = os.dataItems[d]
    BY <1>1, <1>2, ItemsEntered DEF IndexTypes
<1>4. os'.clients \in [DataItems -> Seq(Observers)]
    BY <1>1, <1>2, ClientAdded DEF IndexTypes
<1>5. os' \in OsRecords
  <2>1. IndexTypes'
      BY <1>1, <1>2, <1>3, <1>4 DEF IndexTypes
  <2> QED
      BY <1>1, <1>2, <2>1, OsStepTyped
<1>6. m.l \subseteq os.requested
  <2>1. os.msgs \in Seq(OsMessages)
      BY <1>1, OsFields
  <2>2. 1 \in 1..Len(os.msgs) /\ m = os.msgs[1]
      BY <2>1
  <2> QED
      BY <2>2 DEF OsInv, RequestsNoted
<1>7. IndexesAgree'
  <2>1. Enters(m.client, m.l, {})
      BY <1>2, <1>3, <1>6 DEF Enters
  <2> QED
      BY <1>1, <1>2, <1>5, <2>1, OsEnters
<1>8. \A c \in Observers : \A i \in DataItems :
          /\ i \in os.dataItems[c] /\ ~TakesItem(m, c, i) => i \in os'.dataItems[c]
          /\ PutsItem(m, c, i) => i \in os'.dataItems[c]
    BY <1>3 DEF PutsItem
<1> QED
    BY <1>2, <1>5, <1>7, <1>8, OsTaken

LEMMA OsUnsubscribes ==
    ASSUME OsInv, NEW m \in OsRequests, m.type = "unsubscribe", os.msgs # << >>, m = Head(os.msgs),
           OsStep(HandleUnsubscribeReq(m))
    PROVE  OsInv'
<1>1. /\ os \in OsRecords /\ IndexesAgree /\ IndexTypes
      /\ m.client \in Observers /\ m.l \in SUBSET DataItems
    BY OsFields DEF OsInv, OsRequests
<1>2. /\ os'.dataItems = Withdrawn(os.dataItems, m.client, m.l)
      /\ os'.clients = RemoveClient(os.clients, m.client, m.l)
      /\ os'.asked = os.asked \ {i \in m.l : RemoveClient(os.clients, m.client, m.l)[i] = << >>}
      /\ os'.heard = os.heard /\ os'.cache = os.cache /\ os'.msgs = Tail(os.msgs)
      /\ OsAside' = OsAside /\ OsShaped'
    BY <1>1 DEF OsStep, HandleUnsubscribeReq, OsRecords, OsAside, OsShaped
<1>3. /\ os'.dataItems \in ItemLists
      /\ os'.dataItems[m.client] = os.dataItems[m.client] \ m.l
      /\ \A d \in Observers \ {m.client} : os'.dataItems[d] = os.dataItems[d]
    BY <1>1, <1>2, ItemsWithdrawn DEF IndexTypes
<1>4. /\ os'.clients \in [DataItems -> Seq(Observers)]
      /\ \A i \in DataItems : \A d \in Observers : d # m.client /\ Listed(os.clients[i], d) => Listed(os'.clients[i], d)
      /\ \A i \in DataItems : i \notin m.l => os'.clients[i] = os.clients[i]
      /\ \A i \in DataItems : os.clients[i] = << >> => os'.clients[i] = << >>
  <2>1. os.clients \in [DataItems -> Seq(Observers)] /\ m.client \in Observers
        /\ os'.clients = RemoveClient(os.clients, m.client, m.l)
      BY <1>1, <1>2 DEF IndexTypes
  <2>2. WithoutClient(os'.clients, os.clients, m.client, m.l)
      BY <2>1, ClientRemoved
  <2> QED
      BY <2>2 DEF WithoutClient
<1>5. os' \in OsRecords
  <2>1. IndexTypes'
      BY <1>1, <1>2, <1>3, <1>4 DEF IndexTypes
  <2> QED
      BY <1>1, <1>2, <2>1, OsStepTyped
<1>6. os'.requested = os.requested /\ os.dataItems \in ItemLists
    BY <1>1, <1>2 DEF OsAside, IndexTypes
<1>7. IndexesAgree'
  <2>1. ItemsListed'
    <3>1. ASSUME NEW d \in Observers, NEW i \in os'.dataItems[d]
          PROVE  Listed(os'.clients[i], d)
      <4>1. i \in DataItems /\ i \in os.dataItems[d] /\ (d = m.client => i \notin m.l)
          BY <1>3, <1>6 DEF ItemLists
      <4>2. Listed(os.clients[i], d)
          BY <1>1, <4>1 DEF IndexesAgree, ItemsListed
      <4> QED
          BY <1>4, <4>1, <4>2
    <3> QED
        BY <3>1 DEF ItemsListed
  <2>2. ItemsAsked'
      BY <1>1, <1>2, <1>4, <1>6 DEF IndexesAgree, ItemsAsked
  <2>3. ItemsHeard'
      BY <1>1, <1>2, <1>3, <1>6 DEF IndexesAgree, ItemsHeard
  <2>4. UnsetUnheard'
      BY <1>1, <1>2 DEF IndexesAgree, UnsetUnheard
  <2> QED
      BY <2>1, <2>2, <2>3, <2>4 DEF IndexesAgree
<1>8. \A c \in Observers : \A i \in DataItems :
          /\ i \in os.dataItems[c] /\ ~TakesItem(m, c, i) => i \in os'.dataItems[c]
          /\ PutsItem(m, c, i) => i \in os'.dataItems[c]
    BY <1>3 DEF PutsItem, TakesItem
<1> QED
    BY <1>2, <1>5, <1>7, <1>8, OsTaken

LEMMA OsUnsubscribesAll ==
    ASSUME OsInv, NEW m \in OsRequests, m.type = "unsubscribeAll", os.msgs # << >>, m = Head(os.msgs),
           OsStep(HandleUnsubscribeAllReq(m))
    PROVE  OsInv'
<1>1. /\ os \in OsRecords /\ IndexesAgree /\ IndexTypes /\ m.client \in Observers
    BY OsFields DEF OsInv, OsRequests
<1>2. /\ os'.dataItems = [os.dataItems EXCEPT ![m.client] = {}]
      /\ os'.clients = os.clients /\ os'.asked = os.asked
      /\ os'.heard = os.heard /\ os'.cache = os.cache /\ os'.msgs = Tail(os.msgs)
      /\ OsAside' = OsAside /\ OsShaped'
    BY <1>1 DEF OsStep, HandleUnsubscribeAllReq, OsRecords, OsAside, OsShaped
<1>3. /\ os'.dataItems \in ItemLists /\ os'.dataItems[m.client] = {}
      /\ \A d \in Observers \ {m.client} : os'.dataItems[d] = os.dataItems[d]
    BY <1>1, <1>2 DEF IndexTypes, ItemLists
<1>4. os' \in OsRecords
  <2>1. IndexTypes'
      BY <1>1, <1>2, <1>3 DEF IndexTypes
  <2> QED
      BY <1>1, <1>2, <2>1, OsStepTyped
<1>5. IndexesAgree'
  <2>1. os'.requested = os.requested
      BY <1>2 DEF OsAside
  <2> QED
      BY <1>1, <1>2, <1>3, <2>1 DEF IndexesAgree, ItemsListed, ItemsAsked, ItemsHeard, UnsetUnheard
<1>6. \A c \in Observers : \A i \in DataItems :
          /\ i \in os.dataItems[c] /\ ~TakesItem(m, c, i) => i \in os'.dataItems[c]
          /\ PutsItem(m, c, i) => i \in os'.dataItems[c]
    BY <1>3 DEF PutsItem, TakesItem
<1> QED
    BY <1>2, <1>4, <1>5, <1>6, OsTaken

\* The items of which HandleNotify tells the observer c.
SentTo(c, values) ==
    {i \in Changed(values) \cap os.dataItems[c] : \E j \in Changed(values) : Listed(os.clients[j], c)}

LEMMA OsNotifies ==
    ASSUME OsInv, NEW m \in OsNotices, os.msgs # << >>, m = Head(os.msgs), OsStep(HandleNotify(m))
    PROVE  OsInv'
<1> DEFINE changed == Changed(m.values)
<1>1. /\ os \in OsRecords /\ IndexesAgree /\ IndexTypes
      /\ changed \subseteq DataItems /\ \A i \in changed : m.values[i] \in ItemValues
    BY OsFields DEF OsInv, OsNotices, Changed
<1>2. /\ os'.cache = [i \in DataItems |-> IF i \in changed THEN m.values[i] ELSE os.cache[i]]
      /\ os'.heard = [c \in Observers |-> [i \in DataItems |->
                         IF i \in SentTo(c, m.values) THEN os'.cache[i] ELSE os.heard[c][i]]]
      /\ os'.dataItems = os.dataItems /\ os'.clients = os.clients /\ os'.asked = os.asked
      /\ os'.msgs = Tail(os.msgs) /\ OsAside' = OsAside /\ OsShaped'
    BY <1>1 DEF OsStep, HandleNotify, SentTo, OsRecords, OsAside, OsShaped
<1>3. \A c \in Observers : SentTo(c, m.values) = changed \cap os.dataItems[c]
    BY <1>1 DEF SentTo, IndexesAgree, ItemsListed
<1> HIDE DEF changed
<1>4. /\ os'.cache \in [DataItems -> OsValues]
      /\ \A i \in DataItems : i \in changed => os'.cache[i] = m.values[i]
      /\ \A i \in DataItems : i \notin changed => os'.cache[i] = os.cache[i]
    BY <1>1, <1>2 DEF IndexTypes, OsValues
<1>5. /\ os'.heard \in [Observers -> [DataItems -> OsValues]]
      /\ \A c \in Observers : \A i \in DataItems :
            /\ i \in changed /\ i \in os.dataItems[c] => os'.heard[c][i] = os'.cache[i]
            /\ ~(i \in changed /\ i \in os.dataItems[c]) => os'.heard[c][i] = os.heard[c][i]
  <2>1. os'.heard = [c \in Observers |-> [i \in DataItems |->
                        IF i \in changed /\ i \in os.dataItems[c] THEN os'.cache[i] ELSE os.heard[c][i]]]
      BY <1>2, <1>3
  <2>2. \A c \in Observers : \A i \in DataItems : os'.cache[i] \in OsValues /\ os.heard[c][i] \in OsValues
      BY <1>1, <1>4 DEF IndexTypes
  <2> QED
      BY <2>1, <2>2
<1>6. os' \in OsRecords
  <2>1. IndexTypes'
      BY <1>1, <1>2, <1>4, <1>5 DEF IndexTypes
  <2> QED
      BY <1>1, <1>2, <2>1, OsStepTyped
<1>7. IndexesAgree'
  <2>1. os'.requested = os.requested /\ os.dataItems \in ItemLists
      BY <1>1, <1>2 DEF OsAside, IndexTypes
  <2>2. ItemsListed' /\ ItemsAsked'
      BY <1>1, <1>2, <2>1 DEF IndexesAgree, ItemsListed, ItemsAsked
  <2>3. ItemsHeard'
    <3>1. ASSUME NEW c \in Observers, NEW i \in os.dataItems[c], i \notin os.requested
          PROVE  os'.heard[c][i] = os'.cache[i]
      <4>1. i \in DataItems /\ os.heard[c][i] = os.cache[i]
          BY <1>1, <2>1, <3>1 DEF ItemLists, IndexesAgree, ItemsHeard
      <4> QED
          BY <1>4, <1>5, <4>1
    <3> QED
        BY <1>2, <2>1, <3>1 DEF ItemsHeard
  <2>4. UnsetUnheard'
    <3>1. ASSUME NEW c \in Observers, NEW i \in DataItems, os'.cache[i] = UNSET
          PROVE  os'.heard[c][i] = UNSET
      <4>1. i \notin changed
          BY <1>1, <1>4, <3>1, OsObserverAssumption
      <4> QED
          BY <1>1, <1>4, <1>5, <3>1, <4>1 DEF IndexesAgree, UnsetUnheard
    <3> QED
        BY <3>1 DEF UnsetUnheard
  <2> QED
      BY <2>2, <2>3, <2>4 DEF IndexesAgree
<1>8. m.type = "notify"
    BY DEF OsNotices
<1>9. \A c \in Observers : \A i \in DataItems :
          /\ i \in os.dataItems[c] /\ ~TakesItem(m, c, i) => i \in os'.dataItems[c]
          /\ PutsItem(m, c, i) => i \in os'.dataItems[c]
    BY <1>2, <1>8 DEF PutsItem
<1> QED
    BY <1>2, <1>6, <1>7, <1>9, OsTaken

LEMMA OsTasks == OsInv /\ OsTask => OsInv'
<1> SUFFICES ASSUME OsInv, OsTask PROVE OsInv'
    OBVIOUS
<1>1. os.msgs \in Seq(OsMessages) /\ os.msgs # << >>
    BY OsFields DEF OsInv, OsTask
<1>2. PICK m \in OsMessages : m = Head(os.msgs)
    BY <1>1
<1>3. OsStep(Handled(m))
    BY <1>2 DEF OsTask, OsStep
<1>4. CASE m \in OsNotices
  <2>1. m.type = "notify"
      BY <1>4 DEF OsNotices
  <2>2. Handled(m) = HandleNotify(m)
      BY <2>1 DEF Handled
  <2> QED
      BY <1>1, <1>2, <1>3, <1>4, <2>2, OsNotifies
<1>5. CASE m \in OsRequests
  <2>1. CASE m.type = "subscribe"
      BY <1>1, <1>2, <1>3, <1>5, <2>1, OsSubscribes DEF Handled
  <2>2. CASE m.type = "update"
      BY <1>1, <1>2, <1>3, <1>5, <2>2, OsUpdates DEF Handled
  <2>3. CASE m.type = "requestData"
      BY <1>1, <1>2, <1>3, <1>5, <2>3, OsRequestsData DEF Handled
  <2>4. CASE m.type = "unsubscribe"
      BY <1>1, <1>2, <1>3, <1>5, <2>4, OsUnsubscribes DEF Handled
  <2>5. CASE m.type = "unsubscribeAll"
      BY <1>1, <1>2, <1>3, <1>5, <2>5, OsUnsubscribesAll DEF Handled
  <2>6. m.type \in {"subscribe", "update", "requestData", "unsubscribe", "unsubscribeAll"}
      BY <1>5 DEF OsRequests
  <2> QED
      BY <2>1, <2>2, <2>3, <2>4, <2>5, <2>6
<1> QED
    BY <1>2, <1>4, <1>5 DEF OsMessages

LEMMA OsCalls ==
    ASSUME OsInv, NEW c \in Observers, NEW l \in SUBSET DataItems,
           \/ subscribe(l, c) \/ updateSubscription(l, c) \/ requestData(l, c)
           \/ unsubscribe(l, c) \/ unsubscribeAll(c)
    PROVE  OsInv'
<1>1. os \in OsRecords /\ l \in SUBSET DataItems
    BY DEF OsInv
<1>2. AsideTypes /\ IndexTypes /\ os.msgs \in Seq(OsMessages)
    BY <1>1, OsFields
<1>3. ASSUME NEW m \in OsMessages, NEW w \in ItemLists, NEW r \in SUBSET DataItems,
             os' = OsPost([os EXCEPT !.wants = w, !.requested = r], <<m>>),
             os.ready, os.requested \subseteq r, m.type = "requestData" => m.l \subseteq r,
             \A d \in Observers : \A i \in w[d] :
                 \/ i \in os.wants[d] /\ ~TakesItem(m, d, i)
                 \/ PutsItem(m, d, i)
      PROVE  OsInv'
  <2>1. os.msgs \o <<m>> \in Seq(OsMessages) /\ os.calls + 1 \in Nat
      BY <1>2 DEF AsideTypes
  <2>2. /\ os'.wants = w /\ os'.requested = r /\ os'.msgs = os.msgs \o <<m>> /\ OsIndexes' = OsIndexes
        /\ os'.ready = os.ready /\ os'.reqDataCache = os.reqDataCache
        /\ os'.subscribeReqCache = os.subscribeReqCache /\ os'.calls = os.calls + 1 /\ OsShaped'
      BY <1>1, <1>3 DEF OsPost, OsRecords, OsIndexes, OsShaped
  <2>3. os' \in OsRecords
      BY <1>1, <1>3, <2>1 DEF OsPost, OsRecords
  <2> QED
      BY <1>3, <2>2, <2>3, OsPosted
<1>4. ASSUME NEW m, NEW t \in {"subscribe", "update", "requestData", "unsubscribe", "unsubscribeAll"},
             NEW k \in SUBSET DataItems, m = OsMsg(t, c, k)
      PROVE  m \in OsMessages /\ m.type = t /\ m.client = c /\ m.l = k
    BY <1>4 DEF OsMsg, OsMessages, OsRequests
<1>5. CASE subscribe(l, c) /\ os.ready
  <2> DEFINE m == OsMsg("subscribe", c, l)
             w == [os.wants EXCEPT ![c] = @ \cup l]
  <2>1. m \in OsMessages /\ m.type = "subscribe" /\ m.client = c /\ m.l = l
      BY <1>1, <1>4
  <2>2. w \in ItemLists /\ \A d \in Observers : \A i \in w[d] : i \in os.wants[d] \/ (d = c /\ i \in l)
      BY <1>1, <1>2 DEF AsideTypes, ItemLists
  <2>3. os' = OsPost([os EXCEPT !.wants = w, !.requested = os.requested], <<m>>)
      BY <1>1, <1>5 DEF subscribe, OsPost, OsRecords
  <2> HIDE DEF m, w
  <2>4. \A d \in Observers : \A i \in w[d] : (i \in os.wants[d] /\ ~TakesItem(m, d, i)) \/ PutsItem(m, d, i)
      BY <2>1, <2>2 DEF TakesItem, PutsItem
  <2> QED
      BY <1>2, <1>3, <1>5, <2>1, <2>2, <2>3, <2>4 DEF AsideTypes
<1>6. CASE requestData(l, c) /\ os.ready
  <2> DEFINE m == OsMsg("requestData", c, l)
             r == os.requested \cup l
  <2>1. m \in OsMessages /\ m.type = "requestData" /\ m.client = c /\ m.l = l
      BY <1>1, <1>4
  <2>2. r \in SUBSET DataItems /\ os.requested \subseteq r /\ l \subseteq r
      BY <1>1, <1>2 DEF AsideTypes
  <2>3. os' = OsPost([os EXCEPT !.wants = os.wants, !.requested = r], <<m>>)
      BY <1>1, <1>6 DEF requestData, OsPost, OsRecords
  <2> HIDE DEF m, r
  <2>4. \A d \in Observers : \A i \in os.wants[d] : (i \in os.wants[d] /\ ~TakesItem(m, d, i)) \/ PutsItem(m, d, i)
      BY <2>1 DEF TakesItem, PutsItem
  <2> QED
      BY <1>2, <1>3, <1>6, <2>1, <2>2, <2>3, <2>4 DEF AsideTypes
<1>7. CASE updateSubscription(l, c)
  <2> DEFINE m == OsMsg("update", c, l)
             w == [os.wants EXCEPT ![c] = l]
  <2>1. m \in OsMessages /\ m.type = "update" /\ m.client = c /\ m.l = l
      BY <1>1, <1>4
  <2>2. w \in ItemLists /\ \A d \in Observers : \A i \in w[d] : (d # c /\ i \in os.wants[d]) \/ (d = c /\ i \in l)
      BY <1>1, <1>2 DEF AsideTypes, ItemLists
  <2>3. os.ready /\ os' = OsPost([os EXCEPT !.wants = w, !.requested = os.requested], <<m>>)
      BY <1>1, <1>7 DEF updateSubscription, OsPost, OsRecords
  <2> HIDE DEF m, w
  <2>4. \A d \in Observers : \A i \in w[d] : (i \in os.wants[d] /\ ~TakesItem(m, d, i)) \/ PutsItem(m, d, i)
      BY <2>1, <2>2 DEF TakesItem, PutsItem
  <2> QED
      BY <1>2, <1>3, <2>1, <2>2, <2>3, <2>4 DEF AsideTypes
<1>8. CASE unsubscribe(l, c)
  <2> DEFINE m == OsMsg("unsubscribe", c, l)
             w == [os.wants EXCEPT ![c] = @ \ l]
  <2>1. m \in OsMessages /\ m.type = "unsubscribe" /\ m.client = c /\ m.l = l
      BY <1>1, <1>4
  <2>2. w \in ItemLists /\ \A d \in Observers : \A i \in w[d] : i \in os.wants[d] /\ (d = c => i \notin l)
      BY <1>1, <1>2 DEF AsideTypes, ItemLists
  <2>3. os.ready /\ os' = OsPost([os EXCEPT !.wants = w, !.requested = os.requested], <<m>>)
      BY <1>1, <1>8 DEF unsubscribe, OsPost, OsRecords
  <2> HIDE DEF m, w
  <2>4. \A d \in Observers : \A i \in w[d] : (i \in os.wants[d] /\ ~TakesItem(m, d, i)) \/ PutsItem(m, d, i)
      BY <2>1, <2>2 DEF TakesItem, PutsItem
  <2> QED
      BY <1>2, <1>3, <2>1, <2>2, <2>3, <2>4 DEF AsideTypes
<1>9. CASE unsubscribeAll(c)
  <2> DEFINE m == OsMsg("unsubscribeAll", c, {})
             w == [os.wants EXCEPT ![c] = {}]
  <2>1. m \in OsMessages /\ m.type = "unsubscribeAll" /\ m.client = c
      BY <1>1, <1>4
  <2>2. w \in ItemLists /\ \A d \in Observers : \A i \in w[d] : i \in os.wants[d] /\ d # c
      BY <1>1, <1>2 DEF AsideTypes, ItemLists
  <2>3. os.ready /\ os' = OsPost([os EXCEPT !.wants = w, !.requested = os.requested], <<m>>)
      BY <1>1, <1>9 DEF unsubscribeAll, OsPost, OsRecords
  <2> HIDE DEF m, w
  <2>4. \A d \in Observers : \A i \in w[d] : (i \in os.wants[d] /\ ~TakesItem(m, d, i)) \/ PutsItem(m, d, i)
      BY <2>1, <2>2 DEF TakesItem, PutsItem
  <2> QED
      BY <1>2, <1>3, <2>1, <2>2, <2>3, <2>4 DEF AsideTypes
<1> DEFINE Keeps(w, r, sc, rc) ==
               os' = OsPost([os EXCEPT !.wants = w, !.requested = r,
                                       !.subscribeReqCache = sc, !.reqDataCache = rc], << >>)
<1>10. ASSUME ~os.ready, NEW w \in ItemLists, NEW r \in SUBSET DataItems,
              NEW sc \in ItemLists, NEW rc \in ItemLists, Keeps(w, r, sc, rc),
              os.requested \subseteq r, \A d \in Observers : rc[d] \subseteq r,
              \A d \in Observers : w[d] \subseteq sc[d]
       PROVE  OsInv'
  <2>1. os.msgs \o << >> = os.msgs /\ os.calls + 1 \in Nat
      BY <1>2 DEF AsideTypes
  <2>2. /\ os'.wants = w /\ os'.requested = r /\ os'.msgs = os.msgs /\ OsIndexes' = OsIndexes
        /\ os'.ready = os.ready /\ os'.reqDataCache = rc /\ os'.subscribeReqCache = sc
      BY <1>1, <1>10, <2>1 DEF OsPost, OsRecords, OsIndexes
  <2>3. os' \in OsRecords
      BY <1>1, <1>10, <2>1 DEF OsPost, OsRecords
  <2>4. IndexesAgree'
      BY <1>10, <2>2, <2>3, IndexesKept DEF OsInv
  <2>5. os.msgs = << >>
      BY <1>10 DEF OsInv
  <2>6. WantsLast' /\ RequestsNoted'
      BY <1>10, <2>2, <2>5 DEF WantsLast, RequestsNoted
  <2> QED
      BY <2>2, <2>3, <2>4, <2>5, <2>6 DEF OsInv
<1>11. CASE subscribe(l, c) /\ ~os.ready
  <2> DEFINE w == [os.wants EXCEPT ![c] = @ \cup l]
             sc == [os.subscribeReqCache EXCEPT ![c] = @ \cup l]
  <2>1. \A d \in Observers : os.wants[d] \subseteq os.subscribeReqCache[d] /\ os.reqDataCache[d] \subseteq os.requested
      BY <1>11 DEF OsInv, WantsLast, RequestsNoted
  <2>2. w \in ItemLists /\ sc \in ItemLists /\ \A d \in Observers : w[d] \subseteq sc[d]
      BY <1>1, <1>2, <2>1 DEF AsideTypes, ItemLists
  <2>3. Keeps(w, os.requested, sc, os.reqDataCache)
      BY <1>1, <1>11 DEF subscribe, cacheObserverRequest, OsPost, OsRecords
  <2> HIDE DEF w, sc, Keeps
  <2> QED
      BY <1>2, <1>10, <1>11, <2>1, <2>2, <2>3 DEF AsideTypes
<1>12. CASE requestData(l, c) /\ ~os.ready
  <2> DEFINE r == os.requested \cup l
             rc == [os.reqDataCache EXCEPT ![c] = @ \cup l]
  <2>1. \A d \in Observers : os.wants[d] \subseteq os.subscribeReqCache[d] /\ os.reqDataCache[d] \subseteq os.requested
      BY <1>12 DEF OsInv, WantsLast, RequestsNoted
  <2>2. /\ rc \in ItemLists /\ r \in SUBSET DataItems /\ os.requested \subseteq r
        /\ \A d \in Observers : rc[d] \subseteq r
      BY <1>1, <1>2, <2>1 DEF AsideTypes, ItemLists
  <2>3. Keeps(os.wants, r, os.subscribeReqCache, rc)
      BY <1>1, <1>12 DEF requestData, cacheObserverRequest, OsPost, OsRecords
  <2> HIDE DEF r, rc, Keeps
  <2> QED
      BY <1>2, <1>10, <1>12, <2>1, <2>2, <2>3 DEF AsideTypes
<1> QED
    BY <1>5, <1>6, <1>7, <1>8, <1>9, <1>11, <1>12

LEMMA OsReported ==
    ASSUME OsInv, NEW v \in OsReports, notify(v)
    PROVE  OsInv'
<1> DEFINE m == [type |-> "notify", values |-> v]
<1>1. os \in OsRecords /\ OsShaped /\ IndexTypes /\ AsideTypes /\ os.msgs \in Seq(OsMessages)
    BY OsFields DEF OsInv
<1>2. PICK l \in Lists : v \in [l -> ItemValues]
    BY DEF OsReports
<1>3. l \in SUBSET DataItems
    BY OsObserverAssumption
<1>4. m \in OsMessages /\ m.type = "notify"
    BY <1>2, <1>3 DEF OsMessages, OsNotices
<1>5. os.ready /\ os' = OsPost(os, <<m>>)
    BY DEF notify
<1> HIDE DEF m
<1>6. os.msgs \o <<m>> \in Seq(OsMessages) /\ os.calls + 1 \in Nat
    BY <1>1, <1>4 DEF AsideTypes
<1>7. /\ os'.wants = os.wants /\ os'.requested = os.requested /\ os'.msgs = os.msgs \o <<m>>
      /\ OsIndexes' = OsIndexes /\ os'.ready = os.ready /\ os'.reqDataCache = os.reqDataCache
    BY <1>1, <1>5 DEF OsPost, OsRecords, OsIndexes
<1>8. os' \in OsRecords
    BY <1>1, <1>5, <1>6 DEF OsPost, OsRecords
<1>9. \A c \in Observers : \A i \in os'.wants[c] : i \in os.wants[c] /\ ~TakesItem(m, c, i)
    BY <1>4, <1>7 DEF TakesItem
<1> QED
    BY <1>4, <1>5, <1>7, <1>8, <1>9, OsPosted

\* The messages that ask again what was kept.
Again(type, cache, s) == [k \in DOMAIN s |-> OsMsg(type, s[k], cache[s[k]])]

AsksAgain(a, type, cache, S) ==
    /\ a \in Seq(OsMessages)
    /\ \A k \in 1..Len(a) : a[k].type = type /\ a[k].client \in Observers /\ a[k].l = cache[a[k].client]
    /\ \A c \in S : \E k \in 1..Len(a) : a[k].client = c

LEMMA AgainMessages ==
    ASSUME NEW type \in {"subscribe", "requestData"}, NEW cache \in ItemLists,
           NEW S \in SUBSET Observers, NEW s \in InOrder(S), NEW a, a = Again(type, cache, s)
    PROVE  AsksAgain(a, type, cache, S)
<1> DEFINE n == Cardinality(S)
<1>1. n \in Nat
  <2>1. IsFiniteSet(S)
      BY OsObserverAssumption, FS_Subset
  <2> QED
      BY <2>1, FS_CardinalityType
<1>2. s \in [1..n -> S] /\ \A c \in S : \E k \in 1..n : s[k] = c
    BY DEF InOrder, Listed
<1>3. a = [k \in 1..n |-> OsMsg(type, s[k], cache[s[k]])]
    BY <1>2 DEF Again
<1> HIDE DEF n
<1>4. \A k \in 1..n : /\ OsMsg(type, s[k], cache[s[k]]) \in OsMessages
                      /\ OsMsg(type, s[k], cache[s[k]]).type = type
                      /\ OsMsg(type, s[k], cache[s[k]]).client = s[k] /\ s[k] \in Observers
                      /\ OsMsg(type, s[k], cache[s[k]]).l = cache[s[k]]
    BY <1>2 DEF OsMsg, OsMessages, OsRequests, ItemLists
<1>5. a \in Seq(OsMessages) /\ Len(a) = n
    BY <1>1, <1>3, <1>4
<1>6. \A k \in 1..n : a[k].type = type /\ a[k].client = s[k] /\ s[k] \in Observers /\ a[k].l = cache[s[k]]
    BY <1>3, <1>4
<1> QED
    BY <1>2, <1>5, <1>6 DEF AsksAgain

LEMMA OsReady ==
    ASSUME OsInv, setSubscriptionObj
    PROVE  OsInv'
<1> DEFINE kept(cache) == {c \in Observers : cache[c] # {}}
           sc == os.subscribeReqCache
           rc == os.reqDataCache
<1>1. os \in OsRecords /\ IndexTypes /\ AsideTypes /\ ~os.ready /\ os.msgs = << >>
    BY OsFields DEF OsInv, setSubscriptionObj
<1>2. PICK s \in InOrder(kept(sc)), r \in InOrder(kept(rc)) :
          os' = [os EXCEPT !.ready = TRUE,
                           !.msgs = @ \o Again("subscribe", sc, s) \o Again("requestData", rc, r)]
    BY DEF setSubscriptionObj, Again
<1>3. PICK a, b : a = Again("subscribe", sc, s) /\ b = Again("requestData", rc, r)
    OBVIOUS
<1>4. sc \in ItemLists /\ rc \in ItemLists /\ kept(sc) \in SUBSET Observers /\ kept(rc) \in SUBSET Observers
    BY <1>1 DEF AsideTypes
<1> HIDE DEF kept
<1>5. /\ a \in Seq(OsMessages)
      /\ \A k \in 1..Len(a) : a[k].type = "subscribe" /\ a[k].client \in Observers /\ a[k].l = sc[a[k].client]
      /\ \A c \in kept(sc) : \E k \in 1..Len(a) : a[k].client = c
  <2>1. AsksAgain(a, "subscribe", sc, kept(sc))
      BY <1>2, <1>3, <1>4, AgainMessages
  <2> QED
      BY <2>1 DEF AsksAgain
<1>6. /\ b \in Seq(OsMessages)
      /\ \A k \in 1..Len(b) : b[k].type = "requestData" /\ b[k].client \in Observers /\ b[k].l = rc[b[k].client]
  <2>1. AsksAgain(b, "requestData", rc, kept(rc))
      BY <1>2, <1>3, <1>4, AgainMessages
  <2> QED
      BY <2>1 DEF AsksAgain
<1>7. << >> \o a \o b \in Seq(OsMessages)
    BY <1>5, <1>6
<1>8. /\ os'.ready /\ os'.msgs = << >> \o a \o b /\ OsIndexes' = OsIndexes /\ os' \in OsRecords
      /\ os'.wants = os.wants /\ os'.requested = os.requested /\ os'.reqDataCache = rc
    BY <1>1, <1>2, <1>3, <1>7 DEF OsRecords, OsIndexes
<1> DEFINE q == << >> \o a \o b
<1>9. /\ Len(q) = Len(a) + Len(b) /\ Len(a) \in Nat /\ Len(b) \in Nat
      /\ \A k \in 1..Len(a) : q[k] = a[k]
      /\ \A k \in 1..Len(q) : k \in 1..Len(a) \/ (k - Len(a) \in 1..Len(b) /\ q[k] = b[k - Len(a)])
    BY <1>5, <1>6
<1> HIDE DEF q
<1>10. \A k \in 1..Len(q) : /\ q[k].type \in {"subscribe", "requestData"}
                            /\ q[k].type = "requestData" => q[k].l \subseteq os.requested
  <2>1. \A k \in 1..Len(b) : b[k].l \subseteq os.requested
      BY <1>6 DEF OsInv, RequestsNoted
  <2> QED
      BY <1>5, <1>6, <1>9, <2>1
<1>11. WantsLast'
  <2>1. ASSUME NEW c \in Observers, NEW i \in os.wants[c]
        PROVE  Lasts(os'.dataItems, q, c, i)
    <3>1. i \in sc[c]
        BY <1>1 DEF OsInv, WantsLast
    <3>2. PICK k \in 1..Len(a) : a[k].client = c
        BY <1>5, <3>1 DEF kept
    <3>3. k \in 1..Len(q) /\ PutsItem(q[k], c, i)
        BY <1>5, <1>9, <3>1, <3>2 DEF PutsItem
    <3>4. Untaken(q, k, c, i)
      <4>1. ASSUME NEW j \in k + 1..Len(q) PROVE ~TakesItem(q[j], c, i)
        <5>1. j \in 1..Len(q)
            BY <3>3, <1>9
        <5>2. q[j].type \in {"subscribe", "requestData"}
            BY <1>10, <5>1
        <5> QED
            BY <5>2 DEF TakesItem
      <4> QED
          BY <4>1 DEF Untaken
    <3> QED
        BY <3>3, <3>4 DEF Lasts
  <2> QED
      BY <1>8, <2>1 DEF WantsLast, q
<1>12. RequestsNoted'
    BY <1>8, <1>10 DEF OsInv, RequestsNoted, q
<1>13. IndexesAgree'
    BY <1>1, <1>8, IndexesKept DEF OsInv
<1> QED
    BY <1>8, <1>11, <1>12, <1>13 DEF OsInv

(* Every call, every report and every message handled keeps the indexes of the         *)
(* observers in agreement, and no subscription is lost in the queue.                   *)
THEOREM OsNextInv == OsInv /\ [OsNext]_osVars => OsInv'
<1> SUFFICES ASSUME OsInv, [OsNext]_osVars PROVE OsInv'
    OBVIOUS
<1>1. CASE UNCHANGED osVars
  <2>1. os' = os
      BY <1>1 DEF osVars
  <2> QED
      BY <2>1 DEF OsInv, IndexesAgree, ItemsListed, ItemsAsked, ItemsHeard, UnsetUnheard, WantsLast, RequestsNoted
<1>2. ASSUME NEW c \in Observers, NEW l \in Lists,
             subscribe(l, c) \/ updateSubscription(l, c) \/ requestData(l, c) \/ unsubscribe(l, c)
      PROVE  OsInv'
  <2>1. l \in SUBSET DataItems
      BY OsObserverAssumption
  <2> QED
      BY <1>2, <2>1, OsCalls
<1>3. ASSUME NEW c \in Observers, unsubscribeAll(c)
      PROVE  OsInv'
  <2>1. PICK l : l \in SUBSET DataItems
      OBVIOUS
  <2> QED
      BY <1>3, <2>1, OsCalls
<1>4. CASE \E v \in OsReports : notify(v)
    BY <1>4, OsReported
<1>5. CASE setSubscriptionObj
    BY <1>5, OsReady
<1>6. CASE OsTask
    BY <1>6, OsTasks
<1> QED
    BY <1>1, <1>2, <1>3, <1>4, <1>5, <1>6 DEF OsNext

LEMMA OsInitInv == OsInit => OsInv
<1> SUFFICES ASSUME OsInit PROVE OsInv
    OBVIOUS
<1>1. PerObserver({}) \in ItemLists /\ \A c \in Observers : PerObserver({})[c] = {}
    BY DEF PerObserver, ItemLists
<1>2. PerObserver([i \in DataItems |-> UNSET]) \in [Observers -> [DataItems -> OsValues]]
      /\ \A c \in Observers : \A i \in DataItems : PerObserver([j \in DataItems |-> UNSET])[c][i] = UNSET
    BY DEF PerObserver, OsValues
<1>3. [i \in DataItems |-> << >>] \in [DataItems -> Seq(Observers)] /\ << >> \in Seq(OsMessages)
      /\ [i \in DataItems |-> UNSET] \in [DataItems -> OsValues]
    BY DEF OsValues
<1>4. os \in OsRecords
    BY <1>1, <1>2, <1>3 DEF OsInit, OsRecords
<1>5. /\ ~os.ready /\ os.dataItems = PerObserver({}) /\ os.reqDataCache = PerObserver({})
      /\ os.wants = PerObserver({}) /\ os.msgs = << >> /\ os.clients = [i \in DataItems |-> << >>]
      /\ os.heard = PerObserver([i \in DataItems |-> UNSET])
    BY DEF OsInit
<1>6. IndexesAgree
    BY <1>1, <1>2, <1>5 DEF IndexesAgree, ItemsListed, ItemsAsked, ItemsHeard, UnsetUnheard
<1>7. WantsLast /\ RequestsNoted
    BY <1>1, <1>5 DEF WantsLast, RequestsNoted
<1> QED
    BY <1>4, <1>5, <1>6, <1>7 DEF OsInv

(* The inductive invariant of the observers: the index by observer, the index by item, *)
(* the subscription with the operating system and what has been heard agree, and what  *)
(* an observer wants is in its list or will be once the queue is handled.              *)
THEOREM OsInvariant == Spec => []OsInv
<1>1. Init => OsInv
    BY OsInitInv DEF Init
<1>2. OsInv /\ [Next]_vars => OsInv'
  <2>1. [Next]_vars => [OsNext]_osVars
      BY DEF Next, Tracks, Controls, Notifies, Observes, vars
  <2> QED
      BY <2>1, OsNextInv
<1> QED
    BY <1>1, <1>2, PTL DEF Spec

(* ObserversServed: whatever the order of the calls of any number of observers, also   *)
(* before the subscription object is there, in the end every item an observer wants is *)
(* subscribed to with the operating system and the observer has heard its value.       *)
THEOREM ObserversAlwaysServed == Spec => []ObserversServed
<1>1. OsInv => ObserversServed
  <2> SUFFICES ASSUME OsInv, os.ready, os.msgs = << >>,
                      NEW c \in Observers, NEW i \in os.wants[c], i \notin os.requested
               PROVE  i \in os.asked /\ os.heard[c][i] = os.cache[i]
      BY DEF ObserversServed
  <2>1. Lasts(os.dataItems, << >>, c, i)
      BY DEF OsInv, WantsLast
  <2>2. i \in os.dataItems[c]
      BY <2>1 DEF Lasts
  <2>3. os.dataItems \in ItemLists
      BY OsFields DEF OsInv, IndexTypes
  <2>4. i \in DataItems
      BY <2>2, <2>3 DEF ItemLists
  <2>5. Listed(os.clients[i], c)
      BY <2>2 DEF OsInv, IndexesAgree, ItemsListed
  <2>6. os.clients[i] # << >>
      BY <2>5 DEF Listed
  <2> QED
      BY <2>2, <2>4, <2>6 DEF OsInv, IndexesAgree, ItemsAsked, ItemsHeard
<1> QED
    BY <1>1, OsInvariant, PTL

-----------------------------------------------------------------------------
(* The sessions the clients believe in *)

\* A message that ends session id of client c, one that sets its interval, one
\* that announces c, and one that is about c at all.
Kills(m, c, id) == m.c = c /\ ((m.kind = "Stop" /\ m.id = id) \/ m.kind = "Remove")
Paces(m, c, id) == m.c = c /\ m.kind \in {"Start", "Update"} /\ m.id = id
Announces(m, c) == m.kind = "Add" /\ m.c = c
Mentions(m, c) == m.kind \in {"Start", "Update", "Stop", "Remove", "Add"} /\ m.c = c

\* In what follows q is the queue, x the sessions, D the clients the adapter
\* knows, k the record of client c and n the counter of session ids.
Silent(q, D, c) == c \notin D /\ \A j \in 1..Len(q) : ~Announces(q[j], c)

IdsPassed(q, x, k, n, c) ==
    /\ k.session \in Nat /\ k.session <= n
    /\ \A j \in 1..Len(q) : q[j].c = c /\ q[j].kind \in {"Start", "Update", "Stop"}
                                => q[j].id \in Nat /\ q[j].id > 0 /\ q[j].id <= n
    /\ \A y \in DOMAIN x : y[1] = c => y = <<c, y[2]>> /\ y[2] \in Nat /\ y[2] > 0 /\ y[2] <= n

\* A client that tracks is there, and only one that has gone is removed.
Gone(q, k, c) ==
    /\ k.gone => ~k.api
    /\ k.mTracking => k.api /\ k.session > 0
    /\ \A j \in 1..Len(q) : q[j].kind = "Remove" /\ q[j].c = c => k.gone

\* A client without a callback of the adapter was never announced to it, and
\* one that was not announced has no session.
Unannounced(q, D, k, c) == ~k.gone /\ ~(k.api /\ isGnssClient(k.cbs)) => Silent(q, D, c)
Uncounted(x, D, c) == c \notin D => \A y \in DOMAIN x : y[1] # c

\* What the client does not believe in will end, or will not begin.
Ends(q, l, c, id) == \E j \in l..Len(q) : Kills(q[j], c, id)
Believes(k, id) == k.mTracking /\ id = k.session
StartsEnd(q, D, k, c) ==
    \A j \in 1..Len(q) : q[j].kind = "Start" /\ q[j].c = c /\ ~Believes(k, q[j].id)
        => Ends(q, j + 1, c, q[j].id) \/ (k.gone /\ Silent(q, D, c))
SessionsEnd(q, x, k, c) ==
    \A y \in DOMAIN x : y[1] = c /\ ~Believes(k, y[2]) => Ends(q, 1, c, y[2])

\* What it believes in goes on, at the interval set last.
GoesOn(q, c, id) == \A j \in 1..Len(q) : ~Kills(q[j], c, id)
Unpaced(q, l, c, id) == \A j \in l..Len(q) : ~Paces(q[j], c, id)
PacedLast(q, c, id, i) == \A j \in 1..Len(q) : Paces(q[j], c, id) /\ Unpaced(q, j + 1, c, id) => q[j].i = i
Settled(q, x, c, id, i) == Unpaced(q, 1, c, id) => <<c, id>> \in DOMAIN x /\ x[<<c, id>>] = i
StartsFirst(q, x, c, id) ==
    \A j \in 1..Len(q) : q[j].kind = "Update" /\ Paces(q[j], c, id)
        => <<c, id>> \in DOMAIN x \/ \E l \in 1..j-1 : q[l].kind = "Start" /\ Paces(q[l], c, id)
BelievedRuns(q, x, c, id, i) ==
    GoesOn(q, c, id) /\ PacedLast(q, c, id, i) /\ Settled(q, x, c, id, i) /\ StartsFirst(q, x, c, id)

ClientServed(q, x, D, k, n, c) ==
    /\ IdsPassed(q, x, k, n, c) /\ Gone(q, k, c)
    /\ Unannounced(q, D, k, c) /\ Uncounted(x, D, c)
    /\ StartsEnd(q, D, k, c) /\ SessionsEnd(q, x, k, c)
    /\ k.mTracking => BelievedRuns(q, x, c, k.session, k.mLocationOptions)

\* The inductive invariant: nothing is said of a client one of whose requests
\* failed or that withdrew its callbacks.
Served(t) ==
    \A c \in Clients \ (t.failed \cup t.orphaned) :
        ClientServed(t.queue, t.mTrackingSessions, DOMAIN t.mClientData, t.client[c], t.mSessionIdCounter, c)
ServedInv == Served(g)

\* What handling message m does to the sessions of c and to what the adapter knows.
HandledFor(m, x, y, D, E, c) ==
    /\ \A key \in DOMAIN y : key[1] = c =>
          \/ key \in DOMAIN x
          \/ m.kind = "Start" /\ m.c = c /\ key = <<c, m.id>> /\ c \in D
    /\ \A key \in DOMAIN x : key[1] = c => key \in DOMAIN y \/ Kills(m, c, key[2])
    /\ \A id : Kills(m, c, id) => <<c, id>> \notin DOMAIN y
    /\ \A id : <<c, id>> \in DOMAIN y => y[<<c, id>>] = IF Paces(m, c, id) THEN m.i ELSE x[<<c, id>>]
    /\ m.kind = "Start" /\ m.c = c => <<c, m.id>> \in DOMAIN y
    /\ c \in E => c \in D \/ Announces(m, c)
    /\ c \in D => c \in E \/ (m.kind = "Remove" /\ m.c = c)

IsQueue(q) == \E S : q \in Seq(S)

\* The queue without its first message.
TailQueue(q, p) ==
    /\ Len(q) \in Nat /\ Len(q) > 0 /\ Len(p) = Len(q) - 1
    /\ \A j \in 1..Len(p) : p[j] = q[j + 1]

\* The queue with a last message m.
LastQueue(q, p, m) ==
    /\ Len(q) \in Nat /\ Len(p) = Len(q) + 1 /\ p[Len(q) + 1] = m
    /\ \A j \in 1..Len(q) : p[j] = q[j]

LEMMA EndsTail ==
    ASSUME NEW q, NEW p, TailQueue(q, p), NEW c, NEW id, NEW l \in Nat, l >= 1
    PROVE  /\ Ends(q, l + 1, c, id) => Ends(p, l, c, id)
           /\ Ends(q, 1, c, id) => Ends(p, 1, c, id) \/ Kills(q[1], c, id)
           /\ Unpaced(p, l, c, id) => Unpaced(q, l + 1, c, id)
           /\ Unpaced(p, 1, c, id) /\ ~Paces(q[1], c, id) => Unpaced(q, 1, c, id)
<1>1. \A j \in 2..Len(q) : j - 1 \in 1..Len(p) /\ p[j - 1] = q[j]
  <2> TAKE j \in 2..Len(q)
  <2>1. j - 1 \in 1..Len(p) /\ (j - 1) + 1 = j
      BY DEF TailQueue
  <2> QED
      BY <2>1 DEF TailQueue
<1>2. Len(q) \in Nat /\ Len(p) \in Nat
    BY DEF TailQueue
<1>3. Ends(q, l + 1, c, id) => Ends(p, l, c, id)
  <2> SUFFICES ASSUME NEW j \in l+1..Len(q), Kills(q[j], c, id)
               PROVE  Ends(p, l, c, id)
      BY DEF Ends
  <2>1. j \in 2..Len(q) /\ j - 1 \in l..Len(p)
      BY DEF TailQueue
  <2>2. Kills(p[j - 1], c, id)
      BY <1>1, <2>1
  <2> QED
      BY <2>1, <2>2 DEF Ends
<1>4. Ends(q, 1, c, id) => Ends(p, 1, c, id) \/ Kills(q[1], c, id)
  <2> SUFFICES ASSUME NEW j \in 1..Len(q), Kills(q[j], c, id), j # 1
               PROVE  Ends(p, 1, c, id)
      BY DEF Ends
  <2>1. j \in 2..Len(q)
      BY <1>2
  <2>2. j - 1 \in 1..Len(p) /\ Kills(p[j - 1], c, id)
      BY <1>1, <2>1
  <2> QED
      BY <2>2 DEF Ends
<1>5. Unpaced(p, l, c, id) => Unpaced(q, l + 1, c, id)
  <2> SUFFICES ASSUME Unpaced(p, l, c, id), NEW j \in l+1..Len(q)
               PROVE  ~Paces(q[j], c, id)
      BY DEF Unpaced
  <2>1. j \in 2..Len(q) /\ j - 1 \in l..Len(p)
      BY DEF TailQueue
  <2> QED
      BY <1>1, <2>1 DEF Unpaced
<1>6. Unpaced(p, 1, c, id) /\ ~Paces(q[1], c, id) => Unpaced(q, 1, c, id)
  <2> SUFFICES ASSUME Unpaced(p, 1, c, id), ~Paces(q[1], c, id), NEW j \in 1..Len(q)
               PROVE  ~Paces(q[j], c, id)
      BY DEF Unpaced
  <2>1. CASE j = 1
      BY <2>1
  <2>2. CASE j # 1
    <3>1. j \in 2..Len(q)
        BY <1>2, <2>2
    <3> QED
        BY <1>1, <3>1 DEF Unpaced
  <2> QED
      BY <2>1, <2>2
<1> QED
    BY <1>3, <1>4, <1>5, <1>6

\* Handling a message keeps what is known of a client it does not fail.
LEMMA HandledServed ==
    ASSUME NEW q, NEW p, TailQueue(q, p), NEW x, NEW y, NEW D, NEW E, NEW k, NEW n, NEW c,
           ClientServed(q, x, D, k, n, c), HandledFor(q[1], x, y, D, E, c)
    PROVE  ClientServed(p, y, E, k, n, c)
<1> DEFINE m == q[1]
<1>0. /\ Len(q) \in Nat /\ Len(q) > 0 /\ Len(p) = Len(q) - 1 /\ 1 \in 1..Len(q)
      /\ \A j \in 1..Len(p) : p[j] = q[j + 1] /\ j + 1 \in 1..Len(q) /\ j \in Nat /\ j >= 1
    BY DEF TailQueue
<1>1. /\ IdsPassed(q, x, k, n, c) /\ Gone(q, k, c) /\ Unannounced(q, D, k, c) /\ Uncounted(x, D, c)
      /\ StartsEnd(q, D, k, c) /\ SessionsEnd(q, x, k, c)
      /\ k.mTracking => BelievedRuns(q, x, c, k.session, k.mLocationOptions)
    BY DEF ClientServed
<1>2. /\ \A key \in DOMAIN y : key[1] = c =>
          \/ key \in DOMAIN x
          \/ m.kind = "Start" /\ m.c = c /\ key = <<c, m.id>> /\ c \in D
      /\ \A key \in DOMAIN x : key[1] = c => key \in DOMAIN y \/ Kills(m, c, key[2])
      /\ \A id : Kills(m, c, id) => <<c, id>> \notin DOMAIN y
      /\ \A id : <<c, id>> \in DOMAIN y => y[<<c, id>>] = IF Paces(m, c, id) THEN m.i ELSE x[<<c, id>>]
      /\ m.kind = "Start" /\ m.c = c => <<c, m.id>> \in DOMAIN y
      /\ c \in E => c \in D \/ Announces(m, c)
      /\ c \in D => c \in E \/ (m.kind = "Remove" /\ m.c = c)
    BY DEF HandledFor
<1> HIDE DEF m
<1>3. m = q[1]
    BY DEF m
<1>4. Silent(q, D, c) => Silent(p, E, c)
    BY <1>0, <1>2, <1>3 DEF Silent
<1>5. IdsPassed(p, y, k, n, c)
  <2>1. \A j \in 1..Len(p) : p[j].c = c /\ p[j].kind \in {"Start", "Update", "Stop"} => p[j].id \in Nat /\ p[j].id > 0 /\ p[j].id <= n
      BY <1>0, <1>1 DEF IdsPassed
  <2>2. ASSUME NEW key \in DOMAIN y, key[1] = c
        PROVE  key = <<c, key[2]>> /\ key[2] \in Nat /\ key[2] > 0 /\ key[2] <= n
    <3>1. CASE key \in DOMAIN x
        BY <1>1, <2>2, <3>1 DEF IdsPassed
    <3>2. CASE m.kind = "Start" /\ m.c = c /\ key = <<c, m.id>>
      <4>1. m.id \in Nat /\ m.id > 0 /\ m.id <= n
          BY <1>0, <1>1, <1>3, <3>2 DEF IdsPassed
      <4> QED
          BY <3>2, <4>1
    <3> QED
        BY <1>2, <2>2, <3>1, <3>2
  <2> QED
      BY <1>1, <2>1, <2>2 DEF IdsPassed
<1>6. Gone(p, k, c)
    BY <1>0, <1>1 DEF Gone
<1>7. Unannounced(p, E, k, c)
    BY <1>1, <1>4 DEF Unannounced
<1>8. Uncounted(y, E, c)
  <2> SUFFICES ASSUME c \notin E, NEW key \in DOMAIN y, key[1] = c
               PROVE  FALSE
      BY DEF Uncounted
  <2>1. CASE c \in D
    <3>1. m.kind = "Remove" /\ m.c = c
        BY <1>2, <2>1
    <3>2. Kills(m, c, key[2])
        BY <3>1 DEF Kills
    <3>3. key = <<c, key[2]>>
        BY <1>5 DEF IdsPassed
    <3> QED
        BY <1>2, <3>2, <3>3
  <2>2. CASE c \notin D
    <3>1. key \in DOMAIN x
        BY <1>2, <2>2
    <3> QED
        BY <1>1, <2>2, <3>1 DEF Uncounted
  <2> QED
      BY <2>1, <2>2
<1>9. StartsEnd(p, E, k, c)
  <2> SUFFICES ASSUME NEW j \in 1..Len(p), p[j].kind = "Start", p[j].c = c, ~Believes(k, p[j].id)
               PROVE  Ends(p, j + 1, c, p[j].id) \/ (k.gone /\ Silent(p, E, c))
      BY DEF StartsEnd
  <2>1. p[j] = q[j + 1] /\ j + 1 \in 1..Len(q) /\ j + 1 \in Nat /\ j + 1 >= 1
      BY <1>0
  <2>2. Ends(q, (j + 1) + 1, c, p[j].id) \/ (k.gone /\ Silent(q, D, c))
      BY <1>1, <2>1 DEF StartsEnd
  <2> QED
      BY <1>4, <2>1, <2>2, EndsTail
<1>10. SessionsEnd(p, y, k, c)
  <2> SUFFICES ASSUME NEW key \in DOMAIN y, key[1] = c, ~Believes(k, key[2])
               PROVE  Ends(p, 1, c, key[2])
      BY DEF SessionsEnd
  <2>0. key = <<c, key[2]>>
      BY <1>5 DEF IdsPassed
  <2>1. CASE key \in DOMAIN x
    <3>1. Ends(q, 1, c, key[2])
        BY <1>1, <2>1 DEF SessionsEnd
    <3>2. ~Kills(m, c, key[2])
        BY <1>2, <2>0
    <3>3. Ends(q, 1, c, key[2]) => Ends(p, 1, c, key[2]) \/ Kills(q[1], c, key[2])
        BY EndsTail
    <3> QED
        BY <1>3, <3>1, <3>2, <3>3
  <2>2. CASE m.kind = "Start" /\ m.c = c /\ key = <<c, m.id>> /\ c \in D
    <3>1. key[2] = m.id
        BY <2>2
    <3>2. Ends(q, 1 + 1, c, m.id) \/ Silent(q, D, c)
        BY <1>0, <1>1, <1>3, <2>2, <3>1 DEF StartsEnd
    <3>3. Ends(q, 1 + 1, c, m.id)
        BY <2>2, <3>2 DEF Silent
    <3> QED
        BY <3>1, <3>3, EndsTail
  <2> QED
      BY <1>2, <2>1, <2>2
<1>11. ASSUME k.mTracking
       PROVE  BelievedRuns(p, y, c, k.session, k.mLocationOptions)
  <2> DEFINE id == k.session
             i == k.mLocationOptions
  <2>1. GoesOn(q, c, id) /\ PacedLast(q, c, id, i) /\ Settled(q, x, c, id, i) /\ StartsFirst(q, x, c, id)
      BY <1>1, <1>11 DEF BelievedRuns
  <2> HIDE DEF id, i
  <2>2. GoesOn(p, c, id)
      BY <1>0, <2>1 DEF GoesOn
  <2>3. ~Kills(m, c, id)
      BY <1>0, <1>3, <2>1 DEF GoesOn
  <2>4. \A l \in Nat : l >= 1 /\ Unpaced(p, l, c, id) => Unpaced(q, l + 1, c, id)
      BY EndsTail
  <2>5. Unpaced(p, 1, c, id) /\ ~Paces(m, c, id) => Unpaced(q, 1, c, id)
      BY EndsTail, <1>3
  <2>6. PacedLast(p, c, id, i)
    <3> SUFFICES ASSUME NEW j \in 1..Len(p), Paces(p[j], c, id), Unpaced(p, j + 1, c, id)
                 PROVE  p[j].i = i
        BY DEF PacedLast
    <3>1. p[j] = q[j + 1] /\ j + 1 \in 1..Len(q) /\ j + 1 \in Nat /\ j + 1 >= 1
        BY <1>0
    <3>2. Unpaced(q, (j + 1) + 1, c, id)
        BY <2>4, <3>1
    <3> QED
        BY <2>1, <3>1, <3>2 DEF PacedLast
  <2>7. <<c, id>> \in DOMAIN x => <<c, id>> \in DOMAIN y
    <3>1. <<c, id>>[1] = c /\ <<c, id>>[2] = id
        OBVIOUS
    <3> QED
        BY <1>2, <2>3, <3>1
  <2>8. Paces(m, c, id) => <<c, id>> \in DOMAIN y
    <3> SUFFICES ASSUME Paces(m, c, id)
                 PROVE  <<c, id>> \in DOMAIN y
        OBVIOUS
    <3>1. CASE m.kind = "Start"
        BY <1>2, <3>1 DEF Paces
    <3>2. CASE m.kind = "Update"
      <4>1. <<c, id>> \in DOMAIN x
        <5>1. ~ \E l \in 1..1-1 : TRUE
            OBVIOUS
        <5> QED
            BY <1>0, <1>3, <2>1, <3>2, <5>1 DEF StartsFirst
      <4> QED
          BY <2>7, <4>1
    <3> QED
        BY <3>1, <3>2 DEF Paces
  <2>9. Settled(p, y, c, id, i)
    <3> SUFFICES ASSUME Unpaced(p, 1, c, id)
                 PROVE  <<c, id>> \in DOMAIN y /\ y[<<c, id>>] = i
        BY DEF Settled
    <3>1. CASE Paces(m, c, id)
      <4>1. Unpaced(q, 1 + 1, c, id)
          BY <2>4
      <4>2. m.i = i
          BY <1>0, <1>3, <2>1, <3>1, <4>1 DEF PacedLast
      <4> QED
          BY <1>2, <2>8, <3>1, <4>2
    <3>2. CASE ~Paces(m, c, id)
      <4>1. <<c, id>> \in DOMAIN x /\ x[<<c, id>>] = i
          BY <2>1, <2>5, <3>2 DEF Settled
      <4> QED
          BY <1>2, <2>7, <3>2, <4>1
    <3> QED
        BY <3>1, <3>2
  <2>10. StartsFirst(p, y, c, id)
    <3> SUFFICES ASSUME NEW j \in 1..Len(p), p[j].kind = "Update", Paces(p[j], c, id), <<c, id>> \notin DOMAIN y
                 PROVE  \E l \in 1..j-1 : p[l].kind = "Start" /\ Paces(p[l], c, id)
        BY DEF StartsFirst
    <3>1. p[j] = q[j + 1] /\ j + 1 \in 1..Len(q)
        BY <1>0
    <3>2. PICK l \in 1..(j + 1)-1 : q[l].kind = "Start" /\ Paces(q[l], c, id)
        BY <2>1, <2>7, <3>1 DEF StartsFirst
    <3>3. l # 1
        BY <1>3, <2>8, <3>2
    <3>4. l - 1 \in 1..j-1 /\ l - 1 \in 1..Len(p) /\ (l - 1) + 1 = l
        BY <1>0, <3>3
    <3>5. p[l - 1] = q[l]
        BY <1>0, <3>4
    <3> QED
        BY <3>2, <3>4, <3>5
  <2> QED
      BY <2>2, <2>6, <2>9, <2>10 DEF BelievedRuns, id, i
<1> QED
    BY <1>5, <1>6, <1>7, <1>8, <1>9, <1>10, <1>11 DEF ClientServed

LEMMA EndsLast ==
    ASSUME NEW q, NEW p, NEW m, LastQueue(q, p, m), NEW c, NEW id, NEW l \in Nat, l >= 1
    PROVE  /\ Ends(q, l, c, id) => Ends(p, l, c, id)
           /\ Kills(m, c, id) /\ l <= Len(q) + 1 => Ends(p, l, c, id)
           /\ Unpaced(p, l, c, id) => Unpaced(q, l, c, id)
           /\ Unpaced(p, l, c, id) /\ l <= Len(q) + 1 => ~Paces(m, c, id)
<1>1. /\ Len(q) \in Nat /\ Len(p) = Len(q) + 1 /\ p[Len(q) + 1] = m
      /\ \A j \in 1..Len(q) : p[j] = q[j]
    BY DEF LastQueue
<1>2. \A j \in l..Len(q) : j \in l..Len(p) /\ p[j] = q[j]
    BY <1>1
<1>3. l <= Len(q) + 1 => Len(q) + 1 \in l..Len(p)
    BY <1>1
<1>4. Ends(q, l, c, id) => Ends(p, l, c, id)
    BY <1>2 DEF Ends
<1>5. Kills(m, c, id) /\ l <= Len(q) + 1 => Ends(p, l, c, id)
    BY <1>1, <1>3 DEF Ends
<1>6. Unpaced(p, l, c, id) => Unpaced(q, l, c, id)
    BY <1>2 DEF Unpaced
<1>7. Unpaced(p, l, c, id) /\ l <= Len(q) + 1 => ~Paces(m, c, id)
    BY <1>1, <1>3 DEF Unpaced
<1> QED
    BY <1>4, <1>5, <1>6, <1>7

\* What posting m does to client c, whose record k becomes h while the counter n
\* becomes i: what it no longer believes in ends, and what it believes in now
\* either ran before, at an interval that m changes, or starts with m.
StillBelieves(m, k, h, c) ==
    /\ k.mTracking /\ h.session = k.session /\ ~Kills(m, c, h.session)
    /\ IF Paces(m, c, h.session) THEN m.kind = "Update" /\ m.i = h.mLocationOptions
       ELSE h.mLocationOptions = k.mLocationOptions

StartsBelieving(m, k, h, n, c) ==
    /\ ~k.gone /\ h.session = n + 1 /\ m.kind = "Start" /\ m.c = c /\ m.id = n + 1
    /\ m.i = h.mLocationOptions

PostedBy(m, q, D, k, h, n, i, c) ==
    /\ n \in Nat /\ i \in Nat /\ n <= i
    /\ h.session \in Nat /\ h.session <= i
    /\ m.c = c /\ m.kind \in {"Start", "Update", "Stop"} => m.id \in Nat /\ m.id > 0 /\ m.id <= i
    /\ h.gone => ~h.api
    /\ h.mTracking => h.api /\ h.session > 0
    /\ k.gone => h.gone /\ ~Announces(m, c)
    /\ m.kind = "Remove" /\ m.c = c => h.gone
    /\ ~h.gone /\ ~(h.api /\ isGnssClient(h.cbs)) => ~(k.api /\ isGnssClient(k.cbs)) /\ ~Announces(m, c)
    /\ \A id : Believes(k, id) /\ ~Believes(h, id)
          => Kills(m, c, id) \/ (h.gone /\ Silent(q, D, c) /\ ~Announces(m, c))
    /\ m.kind = "Start" /\ m.c = c => Believes(h, m.id)
    /\ h.mTracking => StillBelieves(m, k, h, c) \/ StartsBelieving(m, k, h, n, c)

LEMMA PostedServed ==
    ASSUME NEW q, NEW p, NEW m, LastQueue(q, p, m), NEW x, NEW D, NEW k, NEW h, NEW n, NEW i, NEW c,
           ClientServed(q, x, D, k, n, c), PostedBy(m, q, D, k, h, n, i, c)
    PROVE  ClientServed(p, x, D, h, i, c)
<1>0. /\ Len(q) \in Nat /\ Len(p) = Len(q) + 1 /\ p[Len(q) + 1] = m
      /\ \A j \in 1..Len(q) : p[j] = q[j] /\ j \in Nat /\ j >= 1 /\ j + 1 <= Len(q) + 1
      /\ \A j \in 1..Len(p) : j \in 1..Len(q) \/ j = Len(q) + 1
    BY DEF LastQueue
<1>1. /\ IdsPassed(q, x, k, n, c) /\ Gone(q, k, c) /\ Unannounced(q, D, k, c) /\ Uncounted(x, D, c)
      /\ StartsEnd(q, D, k, c) /\ SessionsEnd(q, x, k, c)
      /\ k.mTracking => BelievedRuns(q, x, c, k.session, k.mLocationOptions)
    BY DEF ClientServed
<1>2. n \in Nat /\ i \in Nat /\ n <= i
    BY DEF PostedBy
<1>3. Silent(q, D, c) /\ ~Announces(m, c) => Silent(p, D, c)
    BY <1>0 DEF Silent
<1>4. IdsPassed(p, x, h, i, c)
  <2>1. ASSUME NEW j \in 1..Len(p), p[j].c = c, p[j].kind \in {"Start", "Update", "Stop"}
        PROVE  p[j].id \in Nat /\ p[j].id > 0 /\ p[j].id <= i
    <3>1. CASE j = Len(q) + 1
        BY <1>0, <2>1, <3>1 DEF PostedBy
    <3>2. CASE j \in 1..Len(q)
      <4>1. p[j].id \in Nat /\ p[j].id > 0 /\ p[j].id <= n
          BY <1>0, <1>1, <2>1, <3>2 DEF IdsPassed
      <4> QED
          BY <1>2, <4>1
    <3> QED
        BY <1>0, <3>1, <3>2
  <2>2. ASSUME NEW y \in DOMAIN x, y[1] = c
        PROVE  y = <<c, y[2]>> /\ y[2] \in Nat /\ y[2] > 0 /\ y[2] <= i
    <3>1. y = <<c, y[2]>> /\ y[2] \in Nat /\ y[2] > 0 /\ y[2] <= n
        BY <1>1, <2>2 DEF IdsPassed
    <3> QED
        BY <1>2, <3>1
  <2>3. h.session \in Nat /\ h.session <= i
      BY DEF PostedBy
  <2> QED
      BY <2>1, <2>2, <2>3 DEF IdsPassed
<1>5. Gone(p, h, c)
  <2>1. /\ h.gone => ~h.api
        /\ h.mTracking => h.api /\ h.session > 0
        /\ k.gone => h.gone
        /\ m.kind = "Remove" /\ m.c = c => h.gone
      BY DEF PostedBy
  <2>2. \A j \in 1..Len(p) : p[j].kind = "Remove" /\ p[j].c = c => h.gone
      BY <1>0, <1>1, <2>1 DEF Gone
  <2> QED
      BY <2>1, <2>2 DEF Gone
<1>6. Unannounced(p, D, h, c)
  <2>1. ~h.gone /\ ~(h.api /\ isGnssClient(h.cbs))
           => ~k.gone /\ ~(k.api /\ isGnssClient(k.cbs)) /\ ~Announces(m, c)
      BY DEF PostedBy
  <2> QED
      BY <1>1, <1>3, <2>1 DEF Unannounced
<1>7. \A id : Believes(k, id) /\ ~Believes(h, id)
                => Kills(m, c, id) \/ (h.gone /\ Silent(q, D, c) /\ ~Announces(m, c))
    BY DEF PostedBy
<1>8. StartsEnd(p, D, h, c)
  <2> SUFFICES ASSUME NEW j \in 1..Len(p), p[j].kind = "Start", p[j].c = c, ~Believes(h, p[j].id)
               PROVE  Ends(p, j + 1, c, p[j].id) \/ (h.gone /\ Silent(p, D, c))
      BY DEF StartsEnd
  <2>1. j \in 1..Len(q) /\ p[j] = q[j] /\ j + 1 \in Nat /\ j + 1 >= 1 /\ j + 1 <= Len(q) + 1
    <3>1. j # Len(q) + 1
        BY <1>0 DEF PostedBy
    <3> QED
        BY <1>0, <3>1
  <2>2. CASE Believes(k, p[j].id)
      BY <1>3, <1>7, <2>1, <2>2, EndsLast
  <2>3. CASE ~Believes(k, p[j].id)
    <3>1. Ends(q, j + 1, c, p[j].id) \/ (k.gone /\ Silent(q, D, c))
        BY <1>1, <2>1, <2>3 DEF StartsEnd
    <3>2. k.gone => h.gone /\ ~Announces(m, c)
        BY DEF PostedBy
    <3> QED
        BY <1>3, <2>1, <3>1, <3>2, EndsLast
  <2> QED
      BY <2>2, <2>3
<1>9. SessionsEnd(p, x, h, c)
  <2> SUFFICES ASSUME NEW y \in DOMAIN x, y[1] = c, ~Believes(h, y[2])
               PROVE  Ends(p, 1, c, y[2])
      BY DEF SessionsEnd
  <2>1. CASE Believes(k, y[2])
    <3>1. ~Silent(q, D, c)
        BY <1>1 DEF Uncounted, Silent
    <3>2. 1 <= Len(q) + 1
        BY <1>0
    <3> QED
        BY <1>7, <2>1, <3>1, <3>2, EndsLast
  <2>2. CASE ~Believes(k, y[2])
    <3>1. Ends(q, 1, c, y[2])
        BY <1>1, <2>2 DEF SessionsEnd
    <3> QED
        BY <3>1, EndsLast
  <2> QED
      BY <2>1, <2>2

<1>10. ASSUME h.mTracking, StillBelieves(m, k, h, c)
       PROVE  BelievedRuns(p, x, c, h.session, h.mLocationOptions)
  <2> DEFINE id == h.session
             old == k.mLocationOptions
             new == h.mLocationOptions
  <2>1. /\ GoesOn(q, c, id) /\ PacedLast(q, c, id, old) /\ Settled(q, x, c, id, old) /\ StartsFirst(q, x, c, id)
        /\ ~Kills(m, c, id)
        /\ IF Paces(m, c, id) THEN m.kind = "Update" /\ m.i = new ELSE new = old
      BY <1>1, <1>10 DEF BelievedRuns, StillBelieves
  <2> HIDE DEF id, old, new
  <2>2. GoesOn(p, c, id)
      BY <1>0, <2>1 DEF GoesOn
  <2>3. 1 <= Len(q) + 1 /\ \A l \in Nat : l >= 1 /\ l <= Len(q) + 1 /\ Unpaced(p, l, c, id)
                                             => Unpaced(q, l, c, id) /\ ~Paces(m, c, id)
      BY <1>0, EndsLast
  <2>4. PacedLast(p, c, id, new)
    <3> SUFFICES ASSUME NEW j \in 1..Len(p), Paces(p[j], c, id), Unpaced(p, j + 1, c, id)
                 PROVE  p[j].i = new
        BY DEF PacedLast
    <3>1. CASE j = Len(q) + 1
        BY <1>0, <2>1, <3>1
    <3>2. CASE j \in 1..Len(q)
      <4>1. Unpaced(q, j + 1, c, id) /\ ~Paces(m, c, id)
          BY <1>0, <2>3, <3>2
      <4> QED
          BY <1>0, <2>1, <3>2, <4>1 DEF PacedLast
    <3> QED
        BY <1>0, <3>1, <3>2
  <2>5. Settled(p, x, c, id, new)
      BY <2>1, <2>3 DEF Settled
  <2>6. <<c, id>> \in DOMAIN x \/ \E l \in 1..Len(q) : q[l].kind = "Start" /\ Paces(q[l], c, id)
    <3>1. CASE Unpaced(q, 1, c, id)
        BY <2>1, <3>1 DEF Settled
    <3>2. CASE ~Unpaced(q, 1, c, id)
      <4>1. PICK j \in 1..Len(q) : Paces(q[j], c, id)
          BY <3>2 DEF Unpaced
      <4>2. CASE q[j].kind = "Start"
          BY <4>1, <4>2
      <4>3. CASE q[j].kind = "Update"
        <5>1. <<c, id>> \in DOMAIN x \/ \E l \in 1..j-1 : q[l].kind = "Start" /\ Paces(q[l], c, id)
            BY <2>1, <4>1, <4>3 DEF StartsFirst
        <5>2. \A l \in 1..j-1 : l \in 1..Len(q)
            BY <1>0
        <5> QED
            BY <5>1, <5>2
      <4> QED
          BY <4>1, <4>2, <4>3 DEF Paces
    <3> QED
        BY <3>1, <3>2
  <2>7. StartsFirst(p, x, c, id)
    <3> SUFFICES ASSUME NEW j \in 1..Len(p), p[j].kind = "Update", Paces(p[j], c, id), <<c, id>> \notin DOMAIN x
                 PROVE  \E l \in 1..j-1 : p[l].kind = "Start" /\ Paces(p[l], c, id)
        BY DEF StartsFirst
    <3>1. PICK l \in 1..j-1 : l \in 1..Len(q) /\ q[l].kind = "Start" /\ Paces(q[l], c, id)
      <4>1. CASE j = Len(q) + 1
        <5>1. PICK l \in 1..Len(q) : q[l].kind = "Start" /\ Paces(q[l], c, id)
            BY <2>6
        <5>2. l \in 1..j-1
            BY <1>0, <4>1
        <5> QED
            BY <5>1, <5>2
      <4>2. CASE j \in 1..Len(q)
        <5>1. PICK l \in 1..j-1 : q[l].kind = "Start" /\ Paces(q[l], c, id)
            BY <1>0, <2>1, <4>2 DEF StartsFirst
        <5>2. l \in 1..Len(q)
            BY <1>0, <4>2
        <5> QED
            BY <5>1, <5>2
      <4> QED
          BY <1>0, <4>1, <4>2
    <3> QED
        BY <1>0, <3>1
  <2> QED
      BY <2>2, <2>4, <2>5, <2>7 DEF BelievedRuns, id, new
<1>11. ASSUME h.mTracking, StartsBelieving(m, k, h, n, c)
       PROVE  BelievedRuns(p, x, c, h.session, h.mLocationOptions)
  <2>1. /\ ~k.gone /\ m.kind = "Start" /\ m.c = c /\ m.id = n + 1 /\ h.session = n + 1
        /\ m.i = h.mLocationOptions
      BY <1>11 DEF StartsBelieving
  <2>2. \A j \in 1..Len(q) : ~Kills(q[j], c, n + 1) /\ ~Paces(q[j], c, n + 1)
    <3> TAKE j \in 1..Len(q)
    <3>1. q[j].c = c /\ q[j].kind \in {"Start", "Update", "Stop"} => q[j].id # n + 1
        BY <1>1, <1>2 DEF IdsPassed
    <3>2. ~(q[j].c = c /\ q[j].kind = "Remove")
        BY <1>1, <2>1 DEF Gone
    <3> QED
        BY <3>1, <3>2 DEF Kills, Paces
  <2>3. Paces(m, c, n + 1) /\ ~Kills(m, c, n + 1) /\ m.kind # "Update"
      BY <2>1 DEF Paces, Kills
  <2>4. GoesOn(p, c, n + 1)
      BY <1>0, <2>2, <2>3 DEF GoesOn
  <2>5. PacedLast(p, c, n + 1, h.mLocationOptions)
      BY <1>0, <2>1, <2>2 DEF PacedLast
  <2>6. ~Unpaced(p, 1, c, n + 1)
    <3>1. Len(q) + 1 \in 1..Len(p)
        BY <1>0
    <3> QED
        BY <1>0, <2>3, <3>1 DEF Unpaced
  <2>7. Settled(p, x, c, n + 1, h.mLocationOptions)
      BY <2>6 DEF Settled
  <2>8. StartsFirst(p, x, c, n + 1)
      BY <1>0, <2>2, <2>3 DEF StartsFirst
  <2> QED
      BY <2>1, <2>4, <2>5, <2>7, <2>8 DEF BelievedRuns
<1>12. h.mTracking => StillBelieves(m, k, h, c) \/ StartsBelieving(m, k, h, n, c)
    BY DEF PostedBy
<1> QED
    BY <1>1, <1>4, <1>5, <1>6, <1>8, <1>9, <1>10, <1>11, <1>12 DEF ClientServed

\* The client's record alone changes.
LEMMA RecordServed ==
    ASSUME NEW q, NEW x, NEW D, NEW k, NEW h, NEW n, NEW c, ClientServed(q, x, D, k, n, c),
           h.session \in Nat, h.session <= n, h.gone => ~h.api, k.gone => h.gone,
           ~h.gone /\ ~(h.api /\ isGnssClient(h.cbs)) => ~(k.api /\ isGnssClient(k.cbs)),
           h.mTracking => /\ h.api /\ k.mTracking /\ h.session = k.session
                          /\ h.mLocationOptions = k.mLocationOptions,
           k.mTracking /\ ~h.mTracking => h.gone /\ Silent(q, D, c)
    PROVE  ClientServed(q, x, D, h, n, c)
<1>1. /\ IdsPassed(q, x, k, n, c) /\ Gone(q, k, c) /\ Unannounced(q, D, k, c) /\ Uncounted(x, D, c)
      /\ StartsEnd(q, D, k, c) /\ SessionsEnd(q, x, k, c)
      /\ k.mTracking => BelievedRuns(q, x, c, k.session, k.mLocationOptions)
    BY DEF ClientServed
<1>2. IdsPassed(q, x, h, n, c)
    BY <1>1 DEF IdsPassed
<1>3. Gone(q, h, c)
    BY <1>1 DEF Gone
<1>4. Unannounced(q, D, h, c)
    BY <1>1 DEF Unannounced
<1>5. \A id : Believes(k, id) /\ ~Believes(h, id) => h.gone /\ Silent(q, D, c)
    BY DEF Believes
<1>6. StartsEnd(q, D, h, c)
    BY <1>1, <1>5 DEF StartsEnd
<1>7. SessionsEnd(q, x, h, c)
  <2> SUFFICES ASSUME NEW y \in DOMAIN x, y[1] = c, ~Believes(h, y[2])
               PROVE  Ends(q, 1, c, y[2])
      BY DEF SessionsEnd
  <2>1. ~Silent(q, D, c)
      BY <1>1 DEF Uncounted, Silent
  <2> QED
      BY <1>1, <1>5, <2>1 DEF SessionsEnd
<1> QED
    BY <1>1, <1>2, <1>3, <1>4, <1>6, <1>7 DEF ClientServed

\* A message that is not about c changes nothing for it.
LEMMA AsideServed ==
    ASSUME NEW q, NEW p, NEW m, LastQueue(q, p, m), NEW x, NEW D, NEW k, NEW n \in Nat, NEW i \in Nat, n <= i,
           NEW c, ClientServed(q, x, D, k, n, c), ~Mentions(m, c)
    PROVE  ClientServed(p, x, D, k, i, c)
<1>1. IdsPassed(q, x, k, n, c) /\ Gone(q, k, c)
    BY DEF ClientServed
<1>2. k.session \in Nat /\ k.session <= i
    BY <1>1 DEF IdsPassed
<1>3. (k.gone => ~k.api) /\ (k.mTracking => k.api /\ k.session > 0)
    BY <1>1 DEF Gone
<1>4. ~Announces(m, c) /\ \A id : ~Kills(m, c, id) /\ ~Paces(m, c, id)
    BY DEF Mentions, Announces, Kills, Paces
<1>5. k.mTracking => StillBelieves(m, k, k, c)
    BY <1>4 DEF StillBelieves
<1>6. PostedBy(m, q, D, k, k, n, i, c)
    BY <1>2, <1>3, <1>4, <1>5 DEF PostedBy, Mentions
<1> QED
    BY <1>6, PostedServed

LEMMA HandledAside ==
    ASSUME NEW m, NEW x, NEW D, NEW c, ~Mentions(m, c)
    PROVE  HandledFor(m, x, x, D, D, c)
BY DEF HandledFor, Mentions, Kills, Paces, Announces

LEMMA HandledStart ==
    ASSUME NEW m, m.kind = "Start", NEW x, NEW D, m.c \in D,
           NEW y, y = With(x, <<m.c, m.id>>, m.i), NEW c
    PROVE  HandledFor(m, x, y, D, D, c)
<1>1. DOMAIN y = DOMAIN x \cup {<<m.c, m.id>>}
      /\ \A key \in DOMAIN y : y[key] = IF key = <<m.c, m.id>> THEN m.i ELSE x[key]
    BY DEF With
<1>2. \A id : ~Kills(m, c, id)
    BY DEF Kills
<1>3. \A id : Paces(m, c, id) <=> <<c, id>> = <<m.c, m.id>>
    BY DEF Paces
<1>4. <<m.c, m.id>>[1] = m.c
    OBVIOUS
<1> QED
    BY <1>1, <1>2, <1>3, <1>4 DEF HandledFor

LEMMA HandledUpdate ==
    ASSUME NEW m, m.kind = "Update", NEW x, NEW D, <<m.c, m.id>> \in DOMAIN x,
           NEW y, y = With(x, <<m.c, m.id>>, m.i), NEW c
    PROVE  HandledFor(m, x, y, D, D, c)
<1>1. DOMAIN y = DOMAIN x
      /\ \A key \in DOMAIN y : y[key] = IF key = <<m.c, m.id>> THEN m.i ELSE x[key]
    BY DEF With
<1>2. \A id : ~Kills(m, c, id)
    BY DEF Kills
<1>3. \A id : Paces(m, c, id) <=> <<c, id>> = <<m.c, m.id>>
    BY DEF Paces
<1> QED
    BY <1>1, <1>2, <1>3 DEF HandledFor

LEMMA HandledStop ==
    ASSUME NEW m, m.kind = "Stop", NEW x, NEW D, NEW y, y = Without(x, <<m.c, m.id>>), NEW c
    PROVE  HandledFor(m, x, y, D, D, c)
<1>1. DOMAIN y = DOMAIN x \ {<<m.c, m.id>>} /\ \A key \in DOMAIN y : y[key] = x[key]
    BY DEF Without
<1>2. \A id : Kills(m, c, id) <=> <<c, id>> = <<m.c, m.id>>
    BY DEF Kills
<1>3. \A id : ~Paces(m, c, id)
    BY DEF Paces
<1>4. \A key \in DOMAIN x : key[1] = c => key \in DOMAIN y \/ Kills(m, c, key[2])
  <2> SUFFICES ASSUME NEW key \in DOMAIN x, key[1] = c, key \notin DOMAIN y
               PROVE  Kills(m, c, key[2])
      OBVIOUS
  <2>1. key = <<m.c, m.id>>
      BY <1>1
  <2>2. key[1] = m.c /\ key[2] = m.id
      BY <2>1
  <2> QED
      BY <2>2 DEF Kills
<1> QED
    BY <1>1, <1>2, <1>3, <1>4 DEF HandledFor

LEMMA HandledUnknown ==
    ASSUME NEW m, m.kind \in {"Update", "Stop"}, NEW x, NEW D, <<m.c, m.id>> \notin DOMAIN x, NEW c
    PROVE  HandledFor(m, x, x, D, D, c)
<1>1. \A id : Kills(m, c, id) => <<c, id>> = <<m.c, m.id>>
    BY DEF Kills
<1>2. \A id : Paces(m, c, id) => <<c, id>> = <<m.c, m.id>>
    BY DEF Paces
<1> QED
    BY <1>1, <1>2 DEF HandledFor

\* What a handler or a call leaves alone.
SameClients(u, t) == u.client = t.client /\ u.mSessionIdCounter = t.mSessionIdCounter
OnlyMoreOut(u, t) == t.failed \subseteq u.failed /\ t.orphaned \subseteq u.orphaned

LEMMA ServedHandled ==
    ASSUME NEW t, RequestsOK(t), t.queue # << >>, Served(t), NEW m, m = Head(t.queue),
           NEW u, u.queue = Tail(t.queue), SameClients(u, t), OnlyMoreOut(u, t),
           \A c \in Clients \ (u.failed \cup u.orphaned) :
              HandledFor(m, t.mTrackingSessions, u.mTrackingSessions, DOMAIN t.mClientData, DOMAIN u.mClientData, c)
    PROVE  Served(u)
<1>1. TailQueue(t.queue, u.queue) /\ m = t.queue[1]
  <2>1. /\ Len(t.queue) \in Nat /\ Len(t.queue) > 0 /\ Len(u.queue) = Len(t.queue) - 1
        /\ Head(t.queue) = t.queue[1]
        /\ \A k \in 1..Len(t.queue) - 1 : u.queue[k] = t.queue[k + 1]
      BY Waiting
  <2> QED
      BY <2>1 DEF TailQueue
<1> SUFFICES ASSUME NEW c \in Clients \ (u.failed \cup u.orphaned)
             PROVE  ClientServed(u.queue, u.mTrackingSessions, DOMAIN u.mClientData, u.client[c], u.mSessionIdCounter, c)
    BY DEF Served
<1>2. c \in Clients \ (t.failed \cup t.orphaned)
    BY DEF OnlyMoreOut
<1>3. ClientServed(t.queue, t.mTrackingSessions, DOMAIN t.mClientData, u.client[c], u.mSessionIdCounter, c)
    BY <1>2 DEF Served, SameClients
<1>4. HandledFor(t.queue[1], t.mTrackingSessions, u.mTrackingSessions, DOMAIN t.mClientData, DOMAIN u.mClientData, c)
    BY <1>1
<1> QED
    BY <1>1, <1>3, <1>4, HandledServed

LEMMA ServedAside ==
    ASSUME NEW t, RequestsOK(t), Served(t), NEW m, \A c \in Clients : ~Mentions(m, c),
           NEW u, u.queue = Append(t.queue, m), SameClients(u, t), OnlyMoreOut(u, t),
           u.mTrackingSessions = t.mTrackingSessions, DOMAIN u.mClientData = DOMAIN t.mClientData
    PROVE  Served(u)
<1>1. LastQueue(t.queue, u.queue, m)
    BY Joining DEF LastQueue
<1> SUFFICES ASSUME NEW c \in Clients \ (u.failed \cup u.orphaned)
             PROVE  ClientServed(u.queue, t.mTrackingSessions, DOMAIN t.mClientData, t.client[c], t.mSessionIdCounter, c)
    BY DEF Served, SameClients
<1>2. ClientServed(t.queue, t.mTrackingSessions, DOMAIN t.mClientData, t.client[c], t.mSessionIdCounter, c)
    BY DEF Served, OnlyMoreOut
<1>3. t.mSessionIdCounter \in Nat /\ t.mSessionIdCounter <= t.mSessionIdCounter /\ ~Mentions(m, c)
    BY DEF RequestsOK
<1> QED
    BY <1>1, <1>2, <1>3, AsideServed

\* The fields of the adapter after each of the steps a handler is made of.
SameNames(u, t) == u.mClientData = t.mClientData /\ u.orphaned = t.orphaned

LEMMA PoppedFields ==
    ASSUME NEW t, AdapterShape(t), NEW u, u = Popped(t)
    PROVE  /\ AdapterShape(u) /\ u.queue = Tail(t.queue) /\ u.mTrackingSessions = t.mTrackingSessions
           /\ SameClients(u, t) /\ SameNames(u, t) /\ u.failed = t.failed
<1>1. u = [t EXCEPT !.queue = Tail(t.queue)]
    BY DEF Popped, AdapterShape
<1> QED
    BY <1>1 DEF AdapterShape, SameClients, SameNames

LEMMA SavedFields ==
    ASSUME NEW t, AdapterShape(t), NEW key, NEW i, NEW u, u = saveTrackingSession(t, key, i)
    PROVE  /\ AdapterShape(u) /\ u.queue = t.queue /\ u.mTrackingSessions = With(t.mTrackingSessions, key, i)
           /\ SameClients(u, t) /\ SameNames(u, t) /\ u.failed = t.failed
<1>1. u = [t EXCEPT !.mTrackingSessions = With(t.mTrackingSessions, key, i)]
    BY TableOps
<1> QED
    BY <1>1 DEF AdapterShape, SameClients, SameNames

LEMMA ErasedFields ==
    ASSUME NEW t, AdapterShape(t), NEW key, NEW u, u = eraseTrackingSession(t, key)
    PROVE  /\ AdapterShape(u) /\ u.queue = t.queue /\ u.mTrackingSessions = Without(t.mTrackingSessions, key)
           /\ SameClients(u, t) /\ SameNames(u, t) /\ u.failed = t.failed
<1>1. u = [t EXCEPT !.mTrackingSessions = Without(t.mTrackingSessions, key)]
    BY TableOps
<1> QED
    BY <1>1 DEF AdapterShape, SameClients, SameNames

LEMMA ReportedFields ==
    ASSUME NEW t, AdapterShape(t), NEW c, NEW err, NEW u, u = reportResponse(t, c, err)
    PROVE  /\ AdapterShape(u) /\ u.queue = t.queue /\ u.mTrackingSessions = t.mTrackingSessions
           /\ SameClients(u, t) /\ SameNames(u, t) /\ t.failed \subseteq u.failed /\ (err => c \in u.failed)
<1>1. CASE err
  <2>1. u = [t EXCEPT !.failed = t.failed \cup {c}]
      BY <1>1 DEF reportResponse, AdapterShape
  <2> QED
      BY <2>1 DEF AdapterShape, SameClients, SameNames
<1>2. CASE ~err
    BY <1>2 DEF reportResponse, SameClients, SameNames
<1> QED
    BY <1>1, <1>2

LEMMA SentFields ==
    ASSUME NEW t, AdapterShape(t), NEW m, NEW u, u = sendMsg(t, m)
    PROVE  /\ AdapterShape(u) /\ u.queue = Append(t.queue, m) /\ u.mTrackingSessions = t.mTrackingSessions
           /\ SameClients(u, t) /\ SameNames(u, t) /\ u.failed = t.failed
<1>1. u = [t EXCEPT !.queue = Append(t.queue, m)]
    BY DEF sendMsg, AdapterShape
<1> QED
    BY <1>1 DEF AdapterShape, SameClients, SameNames

\* A request has been handled: it failed, or the sessions are y.
LEMMA ServedRequest ==
    ASSUME NEW t, AdapterOK(t), t.queue # << >>, Served(t), NEW m, m = Head(t.queue),
           NEW v, AdapterShape(v), v.queue = Tail(t.queue), SameClients(v, t), SameNames(v, t), v.failed = t.failed,
           NEW err, NEW u, u = reportResponse(v, m.c, err),
           \A c : HandledFor(m, t.mTrackingSessions, v.mTrackingSessions, DOMAIN t.mClientData, DOMAIN t.mClientData, c)
                  \/ (err /\ c = m.c)
    PROVE  Served(u)
<1>1. /\ u.queue = v.queue /\ u.mTrackingSessions = v.mTrackingSessions
      /\ SameClients(u, v) /\ SameNames(u, v) /\ v.failed \subseteq u.failed /\ (err => m.c \in u.failed)
    BY ReportedFields
<1>2. SameClients(u, t) /\ OnlyMoreOut(u, t) /\ u.mClientData = t.mClientData
    BY <1>1 DEF SameClients, SameNames, OnlyMoreOut
<1>3. \A c \in Clients \ (u.failed \cup u.orphaned) :
         HandledFor(m, t.mTrackingSessions, u.mTrackingSessions, DOMAIN t.mClientData, DOMAIN u.mClientData, c)
    BY <1>1, <1>2
<1>4. RequestsOK(t)
    BY DEF AdapterOK
<1> QED
    BY <1>1, <1>2, <1>3, <1>4, ServedHandled

LEMMA ServedStart == TrackingInv /\ ServedInv /\ startTracking => ServedInv'
<1> SUFFICES ASSUME TrackOK(g, engine), Served(g), startTracking
             PROVE  Served(g')
    BY DEF TrackingInv, ServedInv
<1> DEFINE m == Msg
           key == <<m.c, m.id>>
           missing == Callbacks(g, m.c) \cap {"tracking", "measurements"} = {}
           cmd == IF missing THEN {} ELSE startTrackingMultiplex(g, m.i)
           p == Popped(g)
<1>0. AdapterOK(g) /\ AdapterShape(g)
    BY DEF TrackOK, AdapterOK
<1>1. g.queue # << >> /\ m = Head(g.queue) /\ m.kind = "Start"
    BY DEF startTracking, Handles, Msg
<1>2. PICK refused \in BOOLEAN :
        LET ok == ~missing /\ Accepts(engine, cmd, refused)
        IN  g' = reportResponse(IF ok THEN saveTrackingSession(p, key, m.i) ELSE p, m.c, ~ok)
    BY Zenon DEF startTracking
<1> DEFINE ok == ~missing /\ Accepts(engine, cmd, refused)
<1>3. g' = reportResponse(IF ok THEN saveTrackingSession(p, key, m.i) ELSE p, m.c, ~ok)
    BY <1>2, Zenon
<1>4. /\ AdapterShape(p) /\ p.queue = Tail(g.queue) /\ p.mTrackingSessions = g.mTrackingSessions
      /\ SameClients(p, g) /\ SameNames(p, g) /\ p.failed = g.failed
    BY <1>0, PoppedFields
<1>5. CASE ok
  <2>1. m.c \in DOMAIN g.mClientData
      BY <1>5 DEF Callbacks
  <2> DEFINE v == saveTrackingSession(p, key, m.i)
  <2>2. g' = reportResponse(v, m.c, ~ok)
      BY <1>3, <1>5
  <2> HIDE DEF m, ok, p
  <2>3. /\ AdapterShape(v) /\ v.queue = p.queue /\ v.mTrackingSessions = With(p.mTrackingSessions, key, m.i)
        /\ SameClients(v, p) /\ SameNames(v, p) /\ v.failed = p.failed
    <3> HIDE DEF key
    <3> QED
        BY <1>4, SavedFields
  <2> HIDE DEF v
  <2>4. AdapterShape(v) /\ v.queue = Tail(g.queue) /\ SameClients(v, g) /\ SameNames(v, g) /\ v.failed = g.failed
      BY <1>4, <2>3 DEF SameClients, SameNames
  <2>5. \A c : HandledFor(m, g.mTrackingSessions, v.mTrackingSessions, DOMAIN g.mClientData, DOMAIN g.mClientData, c)
      BY <1>1, <1>4, <2>1, <2>3, HandledStart
  <2> QED
      BY <1>0, <1>1, <2>2, <2>4, <2>5, ServedRequest
<1>6. CASE ~ok
  <2>1. g' = reportResponse(p, m.c, ~ok)
      BY <1>3, <1>6
  <2> HIDE DEF m, ok, p
  <2>2. \A c : c # m.c => HandledFor(m, g.mTrackingSessions, p.mTrackingSessions, DOMAIN g.mClientData, DOMAIN g.mClientData, c)
      BY <1>4, HandledAside DEF Mentions
  <2> QED
      BY <1>0, <1>1, <1>4, <1>6, <2>1, <2>2, ServedRequest
<1> QED
    BY <1>5, <1>6

LEMMA ServedUpdate == TrackingInv /\ ServedInv /\ updateTrackingOptions => ServedInv'
<1> SUFFICES ASSUME TrackOK(g, engine), Served(g), updateTrackingOptions
             PROVE  Served(g')
    BY DEF TrackingInv, ServedInv
<1> DEFINE m == Msg
           key == <<m.c, m.id>>
           known == key \in Sessions(g)
           cmd == IF known THEN updateTrackingMultiplex(g, key, m.i) ELSE {}
           p == Popped(g)
<1>0. AdapterOK(g) /\ AdapterShape(g)
    BY DEF TrackOK, AdapterOK
<1>1. g.queue # << >> /\ m = Head(g.queue) /\ m.kind = "Update"
    BY DEF updateTrackingOptions, Handles, Msg
<1>2. PICK refused \in BOOLEAN :
        LET ok == Accepts(engine, cmd, refused)
        IN  g' = IF known THEN reportResponse(IF ok THEN saveTrackingSession(p, key, m.i) ELSE p, m.c, ~ok) ELSE p
    BY Zenon DEF updateTrackingOptions
<1> DEFINE ok == Accepts(engine, cmd, refused)
<1>3. g' = IF known THEN reportResponse(IF ok THEN saveTrackingSession(p, key, m.i) ELSE p, m.c, ~ok) ELSE p
    BY <1>2, Zenon
<1>4. /\ AdapterShape(p) /\ p.queue = Tail(g.queue) /\ p.mTrackingSessions = g.mTrackingSessions
      /\ SameClients(p, g) /\ SameNames(p, g) /\ p.failed = g.failed
    BY <1>0, PoppedFields
<1>5. CASE known /\ ok
  <2>1. key \in DOMAIN g.mTrackingSessions
      BY <1>5 DEF Sessions
  <2> DEFINE v == saveTrackingSession(p, key, m.i)
  <2>2. g' = reportResponse(v, m.c, ~ok)
      BY <1>3, <1>5
  <2> HIDE DEF m, ok, p
  <2>3. /\ AdapterShape(v) /\ v.queue = p.queue /\ v.mTrackingSessions = With(p.mTrackingSessions, key, m.i)
        /\ SameClients(v, p) /\ SameNames(v, p) /\ v.failed = p.failed
    <3> HIDE DEF key
    <3> QED
        BY <1>4, SavedFields
  <2> HIDE DEF v
  <2>4. AdapterShape(v) /\ v.queue = Tail(g.queue) /\ SameClients(v, g) /\ SameNames(v, g) /\ v.failed = g.failed
      BY <1>4, <2>3 DEF SameClients, SameNames
  <2>5. \A c : HandledFor(m, g.mTrackingSessions, v.mTrackingSessions, DOMAIN g.mClientData, DOMAIN g.mClientData, c)
      BY <1>1, <1>4, <2>1, <2>3, HandledUpdate
  <2> QED
      BY <1>0, <1>1, <2>2, <2>4, <2>5, ServedRequest
<1>6. CASE known /\ ~ok
  <2>1. g' = reportResponse(p, m.c, ~ok)
      BY <1>3, <1>6
  <2> HIDE DEF m, ok, p
  <2>2. \A c : c # m.c => HandledFor(m, g.mTrackingSessions, p.mTrackingSessions, DOMAIN g.mClientData, DOMAIN g.mClientData, c)
      BY <1>4, HandledAside DEF Mentions
  <2> QED
      BY <1>0, <1>1, <1>4, <1>6, <2>1, <2>2, ServedRequest
<1>7. CASE ~known
  <2>1. g' = p /\ key \notin DOMAIN g.mTrackingSessions
      BY <1>3, <1>7 DEF Sessions
  <2> HIDE DEF m, p
  <2>2. \A c : HandledFor(m, g.mTrackingSessions, p.mTrackingSessions, DOMAIN g.mClientData, DOMAIN p.mClientData, c)
      BY <1>1, <1>4, <2>1, HandledUnknown DEF SameNames
  <2>3. RequestsOK(g) /\ OnlyMoreOut(p, g)
      BY <1>0, <1>4 DEF AdapterOK, OnlyMoreOut, SameNames
  <2> QED
      BY <1>1, <1>4, <2>1, <2>2, <2>3, ServedHandled
<1> QED
    BY <1>5, <1>6, <1>7

LEMMA ServedStop == TrackingInv /\ ServedInv /\ stopTracking => ServedInv'
<1> SUFFICES ASSUME TrackOK(g, engine), Served(g), stopTracking
             PROVE  Served(g')
    BY DEF TrackingInv, ServedInv
<1> DEFINE m == Msg
           key == <<m.c, m.id>>
           known == key \in Sessions(g)
           cmd == IF known THEN stopTrackingMultiplex(g, key) ELSE {}
           p == Popped(g)
<1>0. AdapterOK(g) /\ AdapterShape(g)
    BY DEF TrackOK, AdapterOK
<1>1. g.queue # << >> /\ m = Head(g.queue) /\ m.kind = "Stop"
    BY DEF stopTracking, Handles, Msg
<1>2. PICK refused \in BOOLEAN :
        LET ok == Accepts(engine, cmd, refused)
        IN  g' = IF known THEN reportResponse(IF ok THEN eraseTrackingSession(p, key) ELSE p, m.c, ~ok) ELSE p
    BY Zenon DEF stopTracking
<1> DEFINE ok == Accepts(engine, cmd, refused)
<1>3. g' = IF known THEN reportResponse(IF ok THEN eraseTrackingSession(p, key) ELSE p, m.c, ~ok) ELSE p
    BY <1>2, Zenon
<1>4. /\ AdapterShape(p) /\ p.queue = Tail(g.queue) /\ p.mTrackingSessions = g.mTrackingSessions
      /\ SameClients(p, g) /\ SameNames(p, g) /\ p.failed = g.failed
    BY <1>0, PoppedFields
<1>5. CASE known /\ ok
  <2> DEFINE v == eraseTrackingSession(p, key)
  <2>2. g' = reportResponse(v, m.c, ~ok)
      BY <1>3, <1>5
  <2> HIDE DEF m, ok, p
  <2>3. /\ AdapterShape(v) /\ v.queue = p.queue /\ v.mTrackingSessions = Without(p.mTrackingSessions, key)
        /\ SameClients(v, p) /\ SameNames(v, p) /\ v.failed = p.failed
    <3> HIDE DEF key
    <3> QED
        BY <1>4, ErasedFields
  <2> HIDE DEF v
  <2>4. AdapterShape(v) /\ v.queue = Tail(g.queue) /\ SameClients(v, g) /\ SameNames(v, g) /\ v.failed = g.failed
      BY <1>4, <2>3 DEF SameClients, SameNames
  <2>5. \A c : HandledFor(m, g.mTrackingSessions, v.mTrackingSessions, DOMAIN g.mClientData, DOMAIN g.mClientData, c)
      BY <1>1, <1>4, <2>3, HandledStop
  <2> QED
      BY <1>0, <1>1, <2>2, <2>4, <2>5, ServedRequest
<1>6. CASE known /\ ~ok
  <2>1. g' = reportResponse(p, m.c, ~ok)
      BY <1>3, <1>6
  <2> HIDE DEF m, ok, p
  <2>2. \A c : c # m.c => HandledFor(m, g.mTrackingSessions, p.mTrackingSessions, DOMAIN g.mClientData, DOMAIN g.mClientData, c)
      BY <1>4, HandledAside DEF Mentions
  <2> QED
      BY <1>0, <1>1, <1>4, <1>6, <2>1, <2>2, ServedRequest
<1>7. CASE ~known
  <2>1. g' = p /\ key \notin DOMAIN g.mTrackingSessions
      BY <1>3, <1>7 DEF Sessions
  <2> HIDE DEF m, p
  <2>2. \A c : HandledFor(m, g.mTrackingSessions, p.mTrackingSessions, DOMAIN g.mClientData, DOMAIN p.mClientData, c)
      BY <1>1, <1>4, <2>1, HandledUnknown DEF SameNames
  <2>3. RequestsOK(g) /\ OnlyMoreOut(p, g)
      BY <1>0, <1>4 DEF AdapterOK, OnlyMoreOut, SameNames
  <2> QED
      BY <1>1, <1>4, <2>1, <2>2, <2>3, ServedHandled
<1> QED
    BY <1>5, <1>6, <1>7

\* The mask of events is told to the modem with a message of its own.
LEMMA ServedMask ==
    ASSUME NEW t, AdapterOK(t), Served(t)
    PROVE  Served(updateClientsEventMask(t))
<1>1. PICK mask : updateClientsEventMask(t) = updateEvtMask(t, mask)
    BY Zenon DEF updateClientsEventMask
<1> DEFINE m == [kind |-> "Open", mask |-> mask]
           u == sendMsg([t EXCEPT !.mEvtMask = mask], m)
<1>2. AdapterShape(t) /\ RequestsOK(t)
    BY DEF AdapterOK
<1>3. updateClientsEventMask(t) = u
    BY <1>1 DEF updateEvtMask
<1>4. u.queue = Append(t.queue, m) /\ u.mTrackingSessions = t.mTrackingSessions
      /\ SameClients(u, t) /\ SameNames(u, t) /\ u.failed = t.failed
    BY <1>2 DEF AdapterShape, sendMsg, SameClients, SameNames
<1>5. m.kind = "Open"
    OBVIOUS
<1> HIDE DEF m, u
<1>6. \A c \in Clients : ~Mentions(m, c)
    BY <1>5 DEF Mentions
<1>7. OnlyMoreOut(u, t) /\ DOMAIN u.mClientData = DOMAIN t.mClientData
    BY <1>4 DEF OnlyMoreOut, SameNames
<1>8. Served(u)
    BY <1>2, <1>4, <1>6, <1>7, ServedAside
<1> QED
    BY <1>3, <1>8

LEMMA ServedAdd == TrackingInv /\ ServedInv /\ addClient => ServedInv'
<1> SUFFICES ASSUME TrackOK(g, engine), Served(g), addClient
             PROVE  Served(g')
    BY DEF TrackingInv, ServedInv
<1> DEFINE m == Msg
           p == Popped(g)
<1>1. g.queue # << >> /\ m = Head(g.queue) /\ m.kind = "Add" /\ g' = saveClient(p, m.c, m.cbs)
    BY DEF addClient, Handles, Msg
<1>2. AdapterOK(g) /\ AdapterShape(g) /\ RequestsOK(g)
    BY DEF TrackOK, AdapterOK
<1>3. /\ AdapterShape(p) /\ p.queue = Tail(g.queue) /\ p.mTrackingSessions = g.mTrackingSessions
      /\ SameClients(p, g) /\ SameNames(p, g) /\ p.failed = g.failed
    BY <1>2, PoppedFields
<1>4. AdapterOK(p)
    BY <1>1, <1>2, PopOK
<1> HIDE DEF m, p
<1> DEFINE data == [z \in DOMAIN p.mClientData \cup {m.c} |-> IF z = m.c THEN m.cbs ELSE p.mClientData[z]]
           v == [p EXCEPT !.mClientData = data]
<1>5. g' = updateClientsEventMask(v)
    BY <1>1, <1>3 DEF saveClient
<1>6. DOMAIN data = DOMAIN g.mClientData \cup {m.c}
    BY <1>3 DEF SameNames
<1> HIDE DEF data
<1>7. /\ AdapterShape(v) /\ v.queue = Tail(g.queue) /\ v.mTrackingSessions = g.mTrackingSessions
      /\ SameClients(v, g) /\ v.failed = g.failed /\ v.orphaned = g.orphaned /\ v.mClientData = data
      /\ v.queue = p.queue /\ v.client = p.client /\ v.mTrackingSessions = p.mTrackingSessions
      /\ v.mSessionIdCounter = p.mSessionIdCounter
    BY <1>3 DEF AdapterShape, SameClients, SameNames
<1> HIDE DEF v
<1>8. AdapterOK(v)
  <2>1. ClientsOK(v.client)
      BY <1>4, <1>7 DEF AdapterOK
  <2> QED
      BY <1>4, <1>7, <2>1, SameTables
<1>9. \A c : HandledFor(m, g.mTrackingSessions, v.mTrackingSessions, DOMAIN g.mClientData, DOMAIN v.mClientData, c)
  <2> TAKE c
  <2>1. (\A id : ~Kills(m, c, id) /\ ~Paces(m, c, id)) /\ (Announces(m, c) <=> c = m.c)
      BY <1>1 DEF Kills, Paces, Announces
  <2> QED
      BY <1>1, <1>6, <1>7, <2>1 DEF HandledFor
<1>10. Served(v)
  <2>1. OnlyMoreOut(v, g)
      BY <1>7 DEF OnlyMoreOut
  <2> QED
      BY <1>1, <1>2, <1>7, <1>9, <2>1, ServedHandled
<1> QED
    BY <1>5, <1>8, <1>10, ServedMask

\* What the loop over the sessions of c has done when it has reached id n.
LoopDid(u, t, c, n) ==
    /\ AdapterShape(u) /\ u.queue = t.queue /\ SameClients(u, t) /\ SameNames(u, t) /\ t.failed \subseteq u.failed
    /\ DOMAIN u.mTrackingSessions \subseteq DOMAIN t.mTrackingSessions
    /\ \A key \in DOMAIN t.mTrackingSessions : key[1] # c => key \in DOMAIN u.mTrackingSessions
    /\ \A key \in DOMAIN u.mTrackingSessions : u.mTrackingSessions[key] = t.mTrackingSessions[key]
    /\ c \notin u.failed => \A j \in 1..n : <<c, j>> \notin DOMAIN u.mTrackingSessions

LEMMA LoopTurn ==
    ASSUME NEW s, NEW t, NEW c, NEW n \in Nat, n > 0, LoopDid(s.t, t, c, n - 1), NEW refused,
           NEW r, r = SessionStop(s, c, n, refused)
    PROVE  LoopDid(r.t, t, c, n)
<1> DEFINE ok == Accepts(s.e, stopTrackingMultiplex(s.t, <<c, n>>), refused)
           key == <<c, n>>
<1>1. r.t = IF ok THEN eraseTrackingSession(s.t, key) ELSE [s.t EXCEPT !.failed = @ \cup {c}]
    BY DEF SessionStop
<1>2. PICK u : u = s.t
    OBVIOUS
<1>3. LoopDid(u, t, c, n - 1) /\ AdapterShape(u)
    BY <1>2 DEF LoopDid
<1>4. \A j \in 1..n : j \in 1..n-1 \/ j = n
    OBVIOUS
<1>5. CASE ok
  <2>1. r.t = eraseTrackingSession(u, key)
      BY <1>1, <1>2, <1>5
  <2> HIDE DEF ok, key
  <2>2. PICK v : v = r.t
      OBVIOUS
  <2>3. /\ AdapterShape(v) /\ v.queue = u.queue /\ v.mTrackingSessions = Without(u.mTrackingSessions, key)
        /\ SameClients(v, u) /\ SameNames(v, u) /\ v.failed = u.failed
      BY <1>3, <2>1, <2>2, ErasedFields
  <2>4. /\ DOMAIN v.mTrackingSessions = DOMAIN u.mTrackingSessions \ {key}
        /\ \A z \in DOMAIN v.mTrackingSessions : v.mTrackingSessions[z] = u.mTrackingSessions[z]
      BY <2>3 DEF Without
  <2>5. key[1] = c /\ key = <<c, n>>
      BY DEF key
  <2>6. \A z \in DOMAIN t.mTrackingSessions : z[1] # c => z \in DOMAIN v.mTrackingSessions
      BY <1>3, <2>4, <2>5 DEF LoopDid
  <2>7. c \notin v.failed => \A j \in 1..n : <<c, j>> \notin DOMAIN v.mTrackingSessions
      BY <1>3, <1>4, <2>3, <2>4, <2>5 DEF LoopDid
  <2>8. /\ v.queue = t.queue /\ SameClients(v, t) /\ SameNames(v, t) /\ t.failed \subseteq v.failed
      BY <1>3, <2>3 DEF LoopDid, SameClients, SameNames
  <2>9. LoopDid(v, t, c, n)
      BY <1>3, <2>3, <2>4, <2>6, <2>7, <2>8 DEF LoopDid
  <2> QED
      BY <2>2, <2>9
<1>6. CASE ~ok
  <2>1. r.t = [u EXCEPT !.failed = u.failed \cup {c}]
      BY <1>1, <1>2, <1>6
  <2>2. PICK v : v = r.t
      OBVIOUS
  <2>3. /\ AdapterShape(v) /\ v.queue = u.queue /\ v.mTrackingSessions = u.mTrackingSessions
        /\ SameClients(v, u) /\ SameNames(v, u) /\ v.failed = u.failed \cup {c}
      BY <1>3, <2>1, <2>2 DEF AdapterShape, SameClients, SameNames
  <2>4. LoopDid(v, t, c, n)
      BY <1>3, <2>3 DEF LoopDid, SameClients, SameNames
  <2> QED
      BY <2>2, <2>4
<1> QED
    BY <1>5, <1>6

LEMMA LoopEnds ==
    ASSUME NEW t, AdapterOK(t), NEW e, NEW c, NEW refused,
           NEW r, r = stopClientSessions(t, e, c, refused)
    PROVE  LoopDid(r.t, t, c, t.mSessionIdCounter)
<1> DEFINE M == t.mSessionIdCounter
<1>0. AdapterShape(t)
    BY DEF AdapterOK
<1>1. M \in Nat
    BY DEF AdapterOK, RequestsOK
<1> DEFINE f == CHOOSE h : StopsOf(h, t, e, c, refused)
<1>2. r = f[M]
    BY StopsAreLoop
<1>3. StopsOf(f, t, e, c, refused)
  <2>1. \E h : StopsOf(h, t, e, c, refused)
      BY <1>1, StopsRun
  <2> QED
      BY <2>1, Zenon
<1> HIDE DEF f
<1>4. \A n \in 0..M : f[n] = IF n = 0 THEN [t |-> t, e |-> e]
                             ELSE IF <<c, n>> \in Sessions(t) THEN SessionStop(f[n-1], c, n, refused) ELSE f[n-1]
  <2>1. f = [n \in 0..M |-> IF n = 0 THEN [t |-> t, e |-> e]
                            ELSE IF <<c, n>> \in Sessions(t) THEN SessionStop(f[n-1], c, n, refused) ELSE f[n-1]]
      BY <1>3, Zenon DEF StopsOf
  <2> QED
      BY <2>1
<1> HIDE DEF M
<1> DEFINE Good(n) == LoopDid(f[n].t, t, c, n)
           T == {n \in 0..M : ~Good(n)}
<1>5. Good(0)
  <2>1. 0 \in 0..M
      BY <1>1
  <2>2. f[0] = [t |-> t, e |-> e]
      BY <1>4, <2>1
  <2>3. f[0].t = t
      BY <2>2
  <2>4. LoopDid(t, t, c, 0)
      BY <1>0 DEF LoopDid, SameClients, SameNames
  <2> QED
      BY <2>3, <2>4
<1>6. ASSUME NEW n \in 0..M, n # 0, Good(n - 1)
      PROVE  Good(n)
  <2>0. n \in Nat /\ n > 0
      BY <1>1, <1>6
  <2>1. f[n] = IF <<c, n>> \in Sessions(t) THEN SessionStop(f[n-1], c, n, refused) ELSE f[n-1]
      BY <1>4, <1>6
  <2>2. CASE <<c, n>> \in Sessions(t)
    <3>1. f[n] = SessionStop(f[n-1], c, n, refused)
        BY <2>1, <2>2
    <3> QED
        BY <1>6, <2>0, <3>1, LoopTurn
  <2>3. CASE <<c, n>> \notin Sessions(t)
    <3>1. f[n] = f[n-1]
        BY <2>1, <2>3
    <3>2. LoopDid(f[n].t, t, c, n - 1)
        BY <1>6, <3>1
    <3>3. \A j \in 1..n : j \in 1..n-1 \/ j = n
        BY <2>0
    <3> QED
        BY <2>3, <3>2, <3>3 DEF LoopDid, Sessions
  <2> QED
      BY <2>2, <2>3
<1>7. T = {}
  <2> SUFFICES ASSUME T # {}
               PROVE  FALSE
      OBVIOUS
  <2> HIDE DEF Good
  <2>1. T \in SUBSET Nat
      BY <1>1
  <2>2. PICK n \in T : \A j \in T : n <= j
    <3> HIDE DEF T
    <3> QED
        BY <2>1, LeastNumber
  <2>3. n \in 0..M /\ ~Good(n)
      OBVIOUS
  <2>4. n # 0
      BY <1>5, <2>3
  <2>5. n - 1 \in 0..M /\ ~(n <= n - 1)
      BY <1>1, <2>3, <2>4
  <2>6. Good(n - 1)
    <3>1. n - 1 \notin T
      <4> HIDE DEF T
      <4> QED
          BY <2>2, <2>5
    <3> QED
        BY <2>5, <3>1
  <2> QED
      BY <1>6, <2>3, <2>4, <2>6
<1>8. M \in 0..M
    BY <1>1
<1>9. Good(M)
  <2> HIDE DEF Good
  <2> QED
      BY <1>7, <1>8
<1> QED
    BY <1>2, <1>9 DEF M

LEMMA ServedRemove == TrackingInv /\ ServedInv /\ removeClient => ServedInv'
<1> SUFFICES ASSUME TrackOK(g, engine), Served(g), removeClient
             PROVE  Served(g')
    BY DEF TrackingInv, ServedInv
<1> DEFINE m == Msg
           p == Popped(g)
<1>1. g.queue # << >> /\ m = Head(g.queue) /\ m.kind = "Remove"
    BY DEF removeClient, Handles, Msg
<1>2. PICK refused \in BOOLEAN :
        LET s == stopClientSessions(p, engine, m.c, refused)
        IN  g' = eraseClient(s.t, m.c)
    BY Zenon DEF removeClient
<1>3. PICK s : s = stopClientSessions(p, engine, m.c, refused)
    OBVIOUS
<1>4. g' = eraseClient(s.t, m.c)
    BY <1>2, <1>3, Zenon
<1>5. AdapterOK(g) /\ AdapterShape(g) /\ RequestsOK(g)
    BY DEF TrackOK, AdapterOK
<1>6. /\ AdapterShape(p) /\ p.queue = Tail(g.queue) /\ p.mTrackingSessions = g.mTrackingSessions
      /\ SameClients(p, g) /\ SameNames(p, g) /\ p.failed = g.failed
    BY <1>5, PoppedFields
<1>7. AdapterOK(p) /\ TrackOK(p, engine)
  <2>1. Head(g.queue).kind # "Restart"
      BY <1>1
  <2> QED
      BY <1>1, <1>5, <2>1, Unmoved, PopOK
<1> HIDE DEF m, p
<1>8. LoopDid(s.t, p, m.c, p.mSessionIdCounter) /\ AdapterOK(s.t)
    BY <1>3, <1>7, LoopEnds, StopsTrack DEF TrackOK
<1>9. PICK u : u = s.t
    OBVIOUS
<1>10. LoopDid(u, p, m.c, p.mSessionIdCounter) /\ AdapterOK(u) /\ g' = eraseClient(u, m.c) /\ AdapterShape(u)
    BY <1>4, <1>8, <1>9 DEF AdapterOK
<1> DEFINE data == Restrict(u.mClientData, DOMAIN u.mClientData \ {m.c})
           v == [u EXCEPT !.mClientData = data]
<1>11. g' = updateClientsEventMask(v)
    BY <1>10 DEF eraseClient
<1>12. DOMAIN data = DOMAIN g.mClientData \ {m.c}
    BY <1>6, <1>10 DEF SameNames, LoopDid, Restrict
<1> HIDE DEF data
<1>13. /\ AdapterShape(v) /\ v.queue = u.queue /\ v.mTrackingSessions = u.mTrackingSessions
       /\ v.client = u.client /\ v.failed = u.failed /\ v.orphaned = u.orphaned /\ v.mClientData = data
       /\ v.mSessionIdCounter = u.mSessionIdCounter
    BY <1>10 DEF AdapterShape
<1> HIDE DEF v
<1>14. AdapterOK(v)
  <2>1. ClientsOK(v.client)
      BY <1>10, <1>13 DEF AdapterOK
  <2> QED
      BY <1>10, <1>13, <2>1, SameTables
<1>15. v.queue = Tail(g.queue) /\ SameClients(v, g) /\ OnlyMoreOut(v, g)
    BY <1>6, <1>10, <1>13 DEF LoopDid, SameClients, SameNames, OnlyMoreOut
<1> DEFINE x == g.mTrackingSessions
           y == v.mTrackingSessions
<1>16. /\ DOMAIN y \subseteq DOMAIN x
       /\ \A key \in DOMAIN x : key[1] # m.c => key \in DOMAIN y
       /\ \A key \in DOMAIN y : y[key] = x[key]
       /\ m.c \notin v.failed => \A j \in 1..g.mSessionIdCounter : <<m.c, j>> \notin DOMAIN y
    BY <1>6, <1>10, <1>13 DEF LoopDid, SameClients
<1>17. ASSUME NEW c \in Clients \ (v.failed \cup v.orphaned)
       PROVE  HandledFor(m, x, y, DOMAIN g.mClientData, DOMAIN v.mClientData, c)
  <2>1. ~Announces(m, c) /\ \A id : ~Paces(m, c, id) /\ (Kills(m, c, id) <=> c = m.c)
      BY <1>1 DEF Announces, Paces, Kills
  <2>2. CASE c # m.c
      BY <1>1, <1>12, <1>13, <1>16, <2>1, <2>2 DEF HandledFor
  <2>3. CASE c = m.c
    <3>1. IdsPassed(g.queue, g.mTrackingSessions, g.client[c], g.mSessionIdCounter, c)
      <4>1. c \in Clients \ (g.failed \cup g.orphaned)
          BY <1>15, <1>17 DEF OnlyMoreOut
      <4> QED
          BY <4>1 DEF Served, ClientServed
    <3>2. \A z \in DOMAIN x : z[1] = c => z = <<c, z[2]>> /\ z[2] \in Nat /\ z[2] > 0 /\ z[2] <= g.mSessionIdCounter
        BY <3>1 DEF IdsPassed
    <3>3. \A z \in DOMAIN y : z[1] # c
      <4> SUFFICES ASSUME NEW z \in DOMAIN y, z[1] = c
                   PROVE  FALSE
          OBVIOUS
      <4>1. z = <<c, z[2]>> /\ z[2] \in Nat /\ z[2] > 0 /\ z[2] <= g.mSessionIdCounter
          BY <1>16, <3>2
      <4>2. z[2] \in 1..g.mSessionIdCounter
          BY <1>5, <4>1 DEF RequestsOK
      <4> QED
          BY <1>16, <1>17, <2>3, <4>1, <4>2
    <3>4. \A id : <<c, id>> \notin DOMAIN y
      <4> TAKE id
      <4>1. <<c, id>>[1] = c
          OBVIOUS
      <4> QED
          BY <3>3, <4>1
    <3> QED
        BY <1>1, <1>12, <1>13, <2>1, <2>3, <3>3, <3>4 DEF HandledFor
  <2> QED
      BY <2>2, <2>3
<1>18. Served(v)
    BY <1>1, <1>5, <1>15, <1>17, ServedHandled
<1> QED
    BY <1>11, <1>14, <1>18, ServedMask

\* A message that mentions no client is handled.
LEMMA ServedOther ==
    ASSUME NEW t, AdapterOK(t), t.queue # << >>, Served(t), NEW m, m = Head(t.queue), \A c : ~Mentions(m, c),
           NEW u, u.queue = Tail(t.queue), SameClients(u, t), SameNames(u, t), u.failed = t.failed,
           u.mTrackingSessions = t.mTrackingSessions
    PROVE  Served(u)
<1>1. OnlyMoreOut(u, t) /\ RequestsOK(t) /\ u.mClientData = t.mClientData
    BY DEF OnlyMoreOut, SameNames, AdapterOK
<1>2. \A c : HandledFor(m, t.mTrackingSessions, u.mTrackingSessions, DOMAIN t.mClientData, DOMAIN u.mClientData, c)
    BY <1>1, HandledAside
<1> QED
    BY <1>1, <1>2, ServedHandled

LEMMA ServedModem ==
    TrackingInv /\ ServedInv /\ (openEvents \/ LocSsrMsg \/ restartSessions) => ServedInv'
<1> SUFFICES ASSUME TrackOK(g, engine), Served(g), openEvents \/ LocSsrMsg \/ restartSessions
             PROVE  Served(g')
    BY DEF TrackingInv, ServedInv
<1> DEFINE m == Msg
           p == Popped(g)
<1>1. AdapterOK(g) /\ AdapterShape(g)
    BY DEF TrackOK, AdapterOK
<1>2. /\ g.queue # << >> /\ m = Head(g.queue) /\ m.kind \in {"Open", "Ssr", "Restart"}
      /\ g' = p \/ \E refused \in BOOLEAN : g' = [p EXCEPT !.lost = refused]
    BY DEF openEvents, LocSsrMsg, restartSessions, Handles, Msg
<1>3. /\ AdapterShape(p) /\ p.queue = Tail(g.queue) /\ p.mTrackingSessions = g.mTrackingSessions
      /\ SameClients(p, g) /\ SameNames(p, g) /\ p.failed = g.failed
    BY <1>1, PoppedFields
<1> HIDE DEF m, p
<1>4. /\ g'.queue = Tail(g.queue) /\ g'.mTrackingSessions = g.mTrackingSessions
      /\ SameClients(g', g) /\ SameNames(g', g) /\ g'.failed = g.failed
    BY <1>2, <1>3 DEF AdapterShape, SameClients, SameNames
<1>5. \A c : ~Mentions(m, c)
    BY <1>2 DEF Mentions
<1> QED
    BY <1>1, <1>2, <1>4, <1>5, ServedOther

LEMMA ServedUp == TrackingInv /\ ServedInv /\ handleEngineUpEvent => ServedInv'
<1> SUFFICES ASSUME TrackOK(g, engine), Served(g), handleEngineUpEvent
             PROVE  Served(g')
    BY DEF TrackingInv, ServedInv
<1> DEFINE m == [kind |-> "Ssr"]
           o == [kind |-> "Restart"]
           a == sendMsg(g, m)
<1>1. AdapterOK(g) /\ AdapterShape(g) /\ RequestsOK(g)
    BY DEF TrackOK, AdapterOK
<1>2. g' = sendMsg(a, o)
    BY DEF handleEngineUpEvent, adapterHandleEngineUp
<1>3. m.kind = "Ssr" /\ o.kind = "Restart"
    OBVIOUS
<1> HIDE DEF m, o
<1>4. (\A c : ~Mentions(m, c)) /\ \A c : ~Mentions(o, c)
    BY <1>3 DEF Mentions
<1>5. AdapterOK(a)
  <2>1. RequestOK(g, m) /\ \A k \in 1..Len(g.queue) : ~SameStart(g.queue[k], m)
      BY <1>3 DEF RequestOK, SameStart
  <2> QED
      BY <1>1, <2>1, SendOK
<1>6. /\ a.queue = Append(g.queue, m) /\ a.mTrackingSessions = g.mTrackingSessions
      /\ SameClients(a, g) /\ SameNames(a, g) /\ a.failed = g.failed /\ AdapterShape(a)
    BY <1>1, SentFields
<1> HIDE DEF a
<1>7. /\ g'.queue = Append(a.queue, o) /\ g'.mTrackingSessions = a.mTrackingSessions
      /\ SameClients(g', a) /\ SameNames(g', a) /\ g'.failed = a.failed
    BY <1>2, <1>6, SentFields
<1>8. Served(a)
  <2>1. OnlyMoreOut(a, g) /\ DOMAIN a.mClientData = DOMAIN g.mClientData
      BY <1>6 DEF OnlyMoreOut, SameNames
  <2> QED
      BY <1>1, <1>4, <1>6, <2>1, ServedAside
<1>9. OnlyMoreOut(g', a) /\ DOMAIN g'.mClientData = DOMAIN a.mClientData /\ RequestsOK(a)
    BY <1>5, <1>7 DEF OnlyMoreOut, SameNames, AdapterOK
<1> QED
    BY <1>4, <1>7, <1>8, <1>9, ServedAside

\* Client b posts m, its record becoming h and the counter i.
LEMMA ServedPosted ==
    ASSUME NEW t, RequestsOK(t), ClientsOK(t.client), Served(t), NEW b \in Clients, NEW m,
           \A c : c # b => ~Mentions(m, c),
           NEW h, NEW i \in Nat, t.mSessionIdCounter <= i,
           NEW u, u.queue = Append(t.queue, m), u.client = [t.client EXCEPT ![b] = h], u.mSessionIdCounter = i,
           OnlyMoreOut(u, t), u.mTrackingSessions = t.mTrackingSessions, u.mClientData = t.mClientData,
           b \notin t.failed \cup t.orphaned
              => PostedBy(m, t.queue, DOMAIN t.mClientData, t.client[b], h, t.mSessionIdCounter, i, b)
    PROVE  Served(u)
<1>1. LastQueue(t.queue, u.queue, m)
    BY Joining DEF LastQueue
<1>2. DOMAIN t.client = Clients
    BY DEF ClientsOK
<1>3. u.client[b] = h /\ \A c \in Clients : c # b => u.client[c] = t.client[c]
    BY <1>2
<1>4. t.mSessionIdCounter \in Nat
    BY DEF RequestsOK
<1> SUFFICES ASSUME NEW c \in Clients \ (u.failed \cup u.orphaned)
             PROVE  ClientServed(u.queue, t.mTrackingSessions, DOMAIN t.mClientData, u.client[c], i, c)
    BY DEF Served
<1>5. c \notin t.failed \cup t.orphaned /\ c \in Clients
    BY DEF OnlyMoreOut
<1>6. ClientServed(t.queue, t.mTrackingSessions, DOMAIN t.mClientData, t.client[c], t.mSessionIdCounter, c)
    BY <1>5 DEF Served
<1>7. CASE c = b
    BY <1>1, <1>3, <1>5, <1>6, <1>7, PostedServed
<1>8. CASE c # b
    BY <1>1, <1>3, <1>4, <1>5, <1>6, <1>8, AsideServed
<1> QED
    BY <1>7, <1>8

\* The record of client b becomes h, and nothing is posted.
LEMMA ServedRecord ==
    ASSUME NEW t, ClientsOK(t.client), Served(t), NEW b \in Clients, NEW h,
           NEW u, u.queue = t.queue, u.client = [t.client EXCEPT ![b] = h],
           u.mSessionIdCounter = t.mSessionIdCounter,
           OnlyMoreOut(u, t), u.mTrackingSessions = t.mTrackingSessions, u.mClientData = t.mClientData,
           b \notin u.failed \cup u.orphaned
              => ClientServed(t.queue, t.mTrackingSessions, DOMAIN t.mClientData, h, t.mSessionIdCounter, b)
    PROVE  Served(u)
<1>1. DOMAIN t.client = Clients
    BY DEF ClientsOK
<1>2. u.client[b] = h /\ \A c \in Clients : c # b => u.client[c] = t.client[c]
    BY <1>1
<1> SUFFICES ASSUME NEW c \in Clients \ (u.failed \cup u.orphaned)
             PROVE  ClientServed(u.queue, t.mTrackingSessions, DOMAIN t.mClientData, u.client[c], t.mSessionIdCounter, c)
    BY DEF Served
<1>3. c \notin t.failed \cup t.orphaned /\ c \in Clients
    BY DEF OnlyMoreOut
<1>4. ClientServed(t.queue, t.mTrackingSessions, DOMAIN t.mClientData, t.client[c], t.mSessionIdCounter, c)
    BY <1>3 DEF Served
<1> QED
    BY <1>2, <1>4

\* What is known of a client that is served, before it calls.
LEMMA ClientFacts ==
    ASSUME NEW t, Served(t), AdapterOK(t), NEW b \in Clients, b \notin t.failed \cup t.orphaned,
           NEW k, k = t.client[b], NEW n, n = t.mSessionIdCounter
    PROVE  /\ ClientServed(t.queue, t.mTrackingSessions, DOMAIN t.mClientData, k, n, b)
           /\ k.session \in Nat /\ k.session <= n /\ n \in Nat
           /\ (k.gone => ~k.api) /\ (k.mTracking => k.api /\ k.session > 0)
           /\ ~k.gone /\ ~(k.api /\ isGnssClient(k.cbs)) => Silent(t.queue, DOMAIN t.mClientData, b)
<1>1. ClientServed(t.queue, t.mTrackingSessions, DOMAIN t.mClientData, k, n, b)
    BY DEF Served
<1>2. n \in Nat
    BY DEF AdapterOK, RequestsOK
<1> QED
    BY <1>1, <1>2 DEF ClientServed, IdsPassed, Gone, Unannounced

LEMMA ServedCallbacks ==
    ASSUME TrackingInv, ServedInv, NEW c \in Clients, locAPISetCallbacks(c)
    PROVE  ServedInv'
<1> SUFFICES ASSUME AdapterOK(g), Served(g)
             PROVE  Served(g')
    BY DEF TrackingInv, ServedInv, TrackOK
<1>1. PICK cbs \in CallbackSets(c) :
        g' = IF g.client[c].api THEN updateCallbacks(g, c, cbs) ELSE createInstance(g, c, cbs)
    BY DEF locAPISetCallbacks
<1>2. ~g.client[c].gone
    BY DEF locAPISetCallbacks
<1> DEFINE k == g.client[c]
           r == [k EXCEPT !.cbs = cbs]
           s == [[k EXCEPT !.api = TRUE] EXCEPT !.cbs = cbs]
           h == IF k.api THEN r ELSE s
           cl == [g.client EXCEPT ![c] = h]
           a == [g EXCEPT !.client = cl]
           o == [a EXCEPT !.orphaned = a.orphaned \cup {c}]
           m == [kind |-> "Add", c |-> c, cbs |-> cbs]
<1>3. AdapterShape(g) /\ RequestsOK(g) /\ ClientsOK(g.client) /\ DOMAIN g.client = Clients
      /\ {"mLocationOptions", "session", "mTracking", "api", "cbs", "gone"} \subseteq DOMAIN k
    BY DEF AdapterOK, ClientsOK
<1>4. /\ h.cbs = cbs /\ h.session = k.session /\ h.mTracking = k.mTracking /\ h.gone = k.gone
      /\ h.mLocationOptions = k.mLocationOptions /\ (h.api <=> TRUE \/ k.api)
  <2>1. CASE k.api
      BY <1>3, <2>1
  <2>2. CASE ~k.api
      BY <1>3, <2>2
  <2> QED
      BY <2>1, <2>2
<1>5. g' = IF isGnssClient(cbs) THEN sendMsg(a, m) ELSE IF k.api THEN o ELSE a
  <2>1. CASE k.api
    <3>1. [g EXCEPT !.client[c].cbs = cbs] = a
        BY <1>3, <2>1
    <3> HIDE DEF a
    <3>2. g' = IF isGnssClient(cbs) THEN sendMsg(a, m) ELSE [a EXCEPT !.orphaned = @ \cup {c}]
        BY <1>1, <2>1, <3>1 DEF updateCallbacks
    <3>3. a = [queue |-> a.queue, mClientData |-> a.mClientData, mTrackingSessions |-> a.mTrackingSessions,
               mEvtMask |-> a.mEvtMask, mSessionIdCounter |-> a.mSessionIdCounter, client |-> a.client,
               failed |-> a.failed, orphaned |-> a.orphaned, lost |-> a.lost]
      <4>1. a = [g EXCEPT !.client = cl]
          BY DEF a
      <4> HIDE DEF cl
      <4> QED
          BY <1>3, <4>1 DEF AdapterShape
    <3>4. [a EXCEPT !.orphaned = @ \cup {c}] = [a EXCEPT !.orphaned = a.orphaned \cup {c}]
        BY <3>3
    <3> QED
        BY <2>1, <3>2, <3>4
  <2>2. CASE ~k.api
    <3>1. [g EXCEPT !.client[c].api = TRUE, !.client[c].cbs = cbs] = a
      <4> DEFINE cy == [g.client EXCEPT ![c] = [k EXCEPT !.api = TRUE]]
                 y == [g EXCEPT !.client = cy]
      <4>1. [g EXCEPT !.client[c].api = TRUE, !.client[c].cbs = cbs] = [y EXCEPT !.client[c].cbs = cbs]
          BY <1>3 DEF AdapterShape
      <4>2. cy[c] = [k EXCEPT !.api = TRUE] /\ [cy EXCEPT ![c] = s] = cl
          BY <1>3, <2>2
      <4>3. y.client = cy /\ AdapterShape(y)
        <5> HIDE DEF cy
        <5> QED
            BY <1>3 DEF AdapterShape
      <4>4. [y EXCEPT !.client[c].cbs = cbs] = [y EXCEPT !.client = [cy EXCEPT ![c] = s]]
        <5> HIDE DEF cy, y
        <5>1. [y EXCEPT !.client[c].cbs = cbs] = [y EXCEPT !.client = [y.client EXCEPT ![c] = [y.client[c] EXCEPT !.cbs = cbs]]]
            BY <4>3 DEF AdapterShape
        <5> QED
            BY <4>2, <4>3, <5>1
      <4>5. [y EXCEPT !.client = cl] = a
        <5> HIDE DEF cl, cy
        <5> QED
            BY <1>3 DEF AdapterShape
      <4> QED
          BY <4>1, <4>2, <4>4, <4>5
    <3> HIDE DEF a, m
    <3> QED
        BY <1>1, <2>2, <3>1 DEF createInstance, m
  <2> QED
      BY <2>1, <2>2
<1> HIDE DEF h, cl
<1>6. /\ AdapterShape(a) /\ a.queue = g.queue /\ a.client = cl /\ a.mSessionIdCounter = g.mSessionIdCounter
      /\ a.mTrackingSessions = g.mTrackingSessions /\ SameNames(a, g) /\ a.failed = g.failed
    BY <1>3 DEF AdapterShape, SameNames
<1> HIDE DEF a
<1>7. a.client = [g.client EXCEPT ![c] = h]
    BY <1>6 DEF cl
<1>8. m.kind = "Add" /\ m.c = c
    OBVIOUS
<1> HIDE DEF m, r, s
<1>9. CASE isGnssClient(cbs)
  <2>1. g' = sendMsg(a, m)
      BY <1>5, <1>9
  <2>2. /\ g'.queue = Append(g.queue, m) /\ g'.client = [g.client EXCEPT ![c] = h] /\ OnlyMoreOut(g', g)
        /\ g'.mTrackingSessions = g.mTrackingSessions /\ g'.mClientData = g.mClientData
        /\ g'.mSessionIdCounter = g.mSessionIdCounter
      BY <1>6, <1>7, <2>1, SentFields DEF SameClients, SameNames, OnlyMoreOut
  <2>3. \A b : b # c => ~Mentions(m, b)
      BY <1>8 DEF Mentions
  <2>4. ASSUME c \notin g.failed \cup g.orphaned
        PROVE  PostedBy(m, g.queue, DOMAIN g.mClientData, k, h, g.mSessionIdCounter, g.mSessionIdCounter, c)
    <3>0. PICK n : n = g.mSessionIdCounter
        OBVIOUS
    <3>1. /\ k.session \in Nat /\ k.session <= n /\ n \in Nat
          /\ (k.gone => ~k.api) /\ (k.mTracking => k.api /\ k.session > 0)
        BY <2>4, <3>0, ClientFacts
    <3>2. (\A id : ~Kills(m, c, id) /\ ~Paces(m, c, id))
        BY <1>8 DEF Kills, Paces
    <3>3. h.mTracking => StillBelieves(m, k, h, c)
        BY <1>4, <3>2 DEF StillBelieves
    <3>4. \A id : Believes(k, id) <=> Believes(h, id)
        BY <1>4 DEF Believes
    <3>5. PostedBy(m, g.queue, DOMAIN g.mClientData, k, h, n, n, c)
        BY <1>2, <1>4, <1>8, <1>9, <3>1, <3>3, <3>4 DEF PostedBy
    <3> QED
        BY <3>0, <3>5
  <2>5. g.mSessionIdCounter \in Nat /\ g.mSessionIdCounter <= g.mSessionIdCounter
      BY <1>3 DEF RequestsOK
  <2> HIDE DEF k
  <2>6. c \notin g.failed \cup g.orphaned
              => PostedBy(m, g.queue, DOMAIN g.mClientData, g.client[c], h, g.mSessionIdCounter, g.mSessionIdCounter, c)
      BY <2>4 DEF k
  <2>7. PICK u, i : u = g' /\ i = g.mSessionIdCounter
      OBVIOUS
  <2>8. Served(u)
    <3>1. /\ u.queue = Append(g.queue, m) /\ u.client = [g.client EXCEPT ![c] = h] /\ OnlyMoreOut(u, g)
          /\ u.mTrackingSessions = g.mTrackingSessions /\ u.mClientData = g.mClientData
          /\ u.mSessionIdCounter = i /\ i \in Nat /\ g.mSessionIdCounter <= i
        BY <2>2, <2>5, <2>7
    <3>2. c \notin g.failed \cup g.orphaned
              => PostedBy(m, g.queue, DOMAIN g.mClientData, g.client[c], h, g.mSessionIdCounter, i, c)
        BY <2>6, <2>7
    <3>3. RequestsOK(g) /\ ClientsOK(g.client)
        BY <1>3
    <3> QED
        BY <2>3, <3>1, <3>2, <3>3, ServedPosted
  <2> QED
      BY <2>7, <2>8
<1>10. CASE ~isGnssClient(cbs)
  <2>1. g' = IF k.api THEN o ELSE a
      BY <1>5, <1>10
  <2>2. /\ g'.queue = g.queue /\ g'.client = [g.client EXCEPT ![c] = h] /\ OnlyMoreOut(g', g)
        /\ g'.mTrackingSessions = g.mTrackingSessions /\ g'.mClientData = g.mClientData
        /\ g'.mSessionIdCounter = g.mSessionIdCounter
        /\ (k.api => c \in g'.orphaned)
    <3>1. CASE k.api
      <4>1. g' = o
          BY <2>1, <3>1
      <4> QED
          BY <1>6, <1>7, <4>1 DEF AdapterShape, SameNames, OnlyMoreOut
    <3>2. CASE ~k.api
        BY <1>6, <1>7, <2>1, <3>2 DEF SameNames, OnlyMoreOut
    <3> QED
        BY <3>1, <3>2
  <2>3. ASSUME c \notin g'.failed \cup g'.orphaned
        PROVE  ClientServed(g.queue, g.mTrackingSessions, DOMAIN g.mClientData, h, g.mSessionIdCounter, c)
    <3>0. PICK n : n = g.mSessionIdCounter
        OBVIOUS
    <3>1. c \notin g.failed \cup g.orphaned /\ ~k.api
        BY <2>2, <2>3 DEF OnlyMoreOut
    <3>2. /\ ClientServed(g.queue, g.mTrackingSessions, DOMAIN g.mClientData, k, n, c)
          /\ k.session \in Nat /\ k.session <= n /\ n \in Nat
          /\ (k.gone => ~k.api) /\ (k.mTracking => k.api /\ k.session > 0)
        BY <3>0, <3>1, ClientFacts
    <3> HIDE DEF k
    <3>3. ~h.mTracking /\ ~k.mTracking /\ ~h.gone /\ ~(k.api /\ isGnssClient(k.cbs))
        BY <1>2, <1>4, <3>1, <3>2 DEF k
    <3>4. h.session \in Nat /\ h.session <= n /\ ~k.gone
        BY <1>2, <1>4, <3>2 DEF k
    <3>5. ClientServed(g.queue, g.mTrackingSessions, DOMAIN g.mClientData, h, n, c)
        BY <3>2, <3>3, <3>4, RecordServed
    <3> QED
        BY <3>0, <3>5
  <2> QED
      BY <1>3, <2>2, <2>3, ServedRecord
<1> QED
    BY <1>9, <1>10

\* A call of client c: what it posts, and its record after it.
LEMMA ServedCall ==
    ASSUME AdapterOK(g), Served(g), NEW c \in Clients, NEW m, m.c = c, NEW h, NEW i \in Nat, g.mSessionIdCounter <= i,
           NEW u, u.queue = Append(g.queue, m), u.client = [g.client EXCEPT ![c] = h], u.mSessionIdCounter = i,
           SameNames(u, g), u.failed = g.failed, u.mTrackingSessions = g.mTrackingSessions,
           NEW k, k = g.client[c],
           c \notin g.failed \cup g.orphaned
              => PostedBy(m, g.queue, DOMAIN g.mClientData, k, h, g.mSessionIdCounter, i, c)
    PROVE  Served(u)
<1>1. RequestsOK(g) /\ ClientsOK(g.client)
    BY DEF AdapterOK
<1>2. \A b : b # c => ~Mentions(m, b)
    BY DEF Mentions
<1>3. OnlyMoreOut(u, g) /\ u.mClientData = g.mClientData
    BY DEF OnlyMoreOut, SameNames
<1>4. c \notin g.failed \cup g.orphaned
         => PostedBy(m, g.queue, DOMAIN g.mClientData, g.client[c], h, g.mSessionIdCounter, i, c)
    OBVIOUS
<1>5. /\ u.queue = Append(g.queue, m) /\ u.client = [g.client EXCEPT ![c] = h] /\ u.mSessionIdCounter = i
      /\ u.mTrackingSessions = g.mTrackingSessions /\ i \in Nat /\ g.mSessionIdCounter <= i
    OBVIOUS
<1>6. PICK t : t = g
    OBVIOUS
<1>7. RequestsOK(t) /\ ClientsOK(t.client) /\ Served(t)
    BY <1>1, <1>6
<1>8. /\ u.queue = Append(t.queue, m) /\ u.client = [t.client EXCEPT ![c] = h] /\ u.mSessionIdCounter = i
      /\ u.mTrackingSessions = t.mTrackingSessions /\ u.mClientData = t.mClientData /\ OnlyMoreOut(u, t)
      /\ i \in Nat /\ t.mSessionIdCounter <= i
    BY <1>3, <1>5, <1>6
<1>9. c \notin t.failed \cup t.orphaned
         => PostedBy(m, t.queue, DOMAIN t.mClientData, t.client[c], h, t.mSessionIdCounter, i, c)
    BY <1>4, <1>6
<1> QED
    BY ONLY <1>2, <1>7, <1>8, <1>9, ServedPosted, c \in Clients

LEMMA ServedCallStart ==
    ASSUME TrackingInv, ServedInv, NEW c \in Clients, locAPIStartTracking(c)
    PROVE  ServedInv'
<1> SUFFICES ASSUME AdapterOK(g), Served(g)
             PROVE  Served(g')
    BY DEF TrackingInv, ServedInv, TrackOK
<1> DEFINE n == g.mSessionIdCounter
           id == n + 1
           k == g.client[c]
           i == k.mLocationOptions
           m == [kind |-> "Start", c |-> c, id |-> id, i |-> i]
           a == [g EXCEPT !.mSessionIdCounter = id]
           b == sendMsg(a, m)
           h == [[k EXCEPT !.session = id] EXCEPT !.mTracking = TRUE]
<1>1. g' = [b EXCEPT !.client[c].session = id, !.client[c].mTracking = TRUE] /\ k.api /\ ~k.mTracking
    BY DEF locAPIStartTracking, apiStartTracking, generateSessionId, Live
<1>2. AdapterShape(g) /\ RequestsOK(g) /\ n \in Nat /\ DOMAIN g.client = Clients
      /\ {"mLocationOptions", "session", "mTracking", "api", "cbs", "gone"} \subseteq DOMAIN k
    BY DEF AdapterOK, RequestsOK, ClientsOK
<1>3. m.kind = "Start" /\ m.id = id /\ m.c = c /\ m.i = i
    OBVIOUS
<1>4. /\ h.session = id /\ h.mTracking = TRUE /\ h.api = k.api /\ h.cbs = k.cbs /\ h.gone = k.gone
      /\ h.mLocationOptions = i
    BY <1>2
<1> HIDE DEF m
<1>5. /\ AdapterShape(a) /\ a.queue = g.queue /\ a.client = g.client /\ a.mTrackingSessions = g.mTrackingSessions
      /\ a.mSessionIdCounter = id /\ SameNames(a, g) /\ a.failed = g.failed
    BY <1>2 DEF AdapterShape, SameNames
<1> HIDE DEF a
<1>6. /\ AdapterShape(b) /\ b.queue = Append(g.queue, m) /\ b.client = g.client
      /\ b.mTrackingSessions = g.mTrackingSessions
      /\ b.mSessionIdCounter = id /\ SameNames(b, g) /\ b.failed = g.failed
    BY <1>5, SentFields DEF SameClients, SameNames
<1> HIDE DEF b
<1>7. /\ g'.queue = b.queue /\ g'.client = [b.client EXCEPT ![c] = h]
      /\ g'.mTrackingSessions = b.mTrackingSessions /\ g'.mSessionIdCounter = b.mSessionIdCounter
      /\ SameNames(g', b) /\ g'.failed = b.failed
    BY <1>1, <1>2, <1>6 DEF AdapterShape, SameNames
<1> HIDE DEF h
<1>8. PICK u : u = g'
    OBVIOUS
<1>9. /\ u.queue = Append(g.queue, m) /\ u.client = [g.client EXCEPT ![c] = h]
      /\ u.mTrackingSessions = g.mTrackingSessions /\ u.mSessionIdCounter = id
      /\ SameNames(u, g) /\ u.failed = g.failed
    BY <1>6, <1>7, <1>8 DEF SameNames
<1>10. ASSUME c \notin g.failed \cup g.orphaned
       PROVE  PostedBy(m, g.queue, DOMAIN g.mClientData, k, h, n, id, c)
  <2>1. /\ k.session \in Nat /\ k.session <= n /\ n \in Nat
        /\ (k.gone => ~k.api) /\ (k.mTracking => k.api /\ k.session > 0)
      BY <1>10, ClientFacts
  <2> HIDE DEF k, n, i
  <2>2. id \in Nat /\ id > 0 /\ n <= id /\ ~k.gone /\ ~h.gone /\ h.api /\ h.session = id /\ h.mTracking /\ ~k.mTracking
      BY <1>1, <1>4, <2>1
  <2>3. StartsBelieving(m, k, h, n, c)
      BY <1>3, <1>4, <2>2 DEF StartsBelieving, id
  <2>4. Believes(h, m.id) /\ \A z : ~Believes(k, z)
      BY <1>3, <2>2 DEF Believes
  <2>5. ~Announces(m, c)
      BY <1>3 DEF Announces
  <2> HIDE DEF id
  <2> QED
      BY <1>3, <1>4, <2>1, <2>2, <2>3, <2>4, <2>5 DEF PostedBy
<1>11. id \in Nat /\ n <= id
    BY <1>2
<1>12. Served(u)
  <2> HIDE DEF k, id, i
  <2>1. k = g.client[c]
      BY DEF k
  <2> QED
      BY <1>3, <1>9, <1>10, <1>11, <2>1, ServedCall
<1> QED
    BY <1>8, <1>12

LEMMA ServedCallStop ==
    ASSUME TrackingInv, ServedInv, NEW c \in Clients, locAPIStopTracking(c)
    PROVE  ServedInv'
<1> SUFFICES ASSUME AdapterOK(g), Served(g)
             PROVE  Served(g')
    BY DEF TrackingInv, ServedInv, TrackOK
<1> DEFINE n == g.mSessionIdCounter
           k == g.client[c]
           m == [kind |-> "Stop", c |-> c, id |-> k.session]
           b == sendMsg(g, m)
           h == [k EXCEPT !.mTracking = FALSE]
           cl == [b.client EXCEPT ![c] = h]
<1>1. g' = [b EXCEPT !.client[c].mTracking = FALSE] /\ k.api /\ k.session > 0
    BY DEF locAPIStopTracking, apiStopTracking, Live, HasSession
<1>2. AdapterShape(g) /\ RequestsOK(g) /\ n \in Nat /\ DOMAIN g.client = Clients
      /\ {"mLocationOptions", "session", "mTracking", "api", "cbs", "gone"} \subseteq DOMAIN k
    BY DEF AdapterOK, RequestsOK, ClientsOK
<1>3. m.kind = "Stop" /\ m.id = k.session /\ m.c = c
    OBVIOUS
<1>4. /\ h.session = k.session /\ h.mTracking = FALSE /\ h.api = k.api /\ h.cbs = k.cbs /\ h.gone = k.gone
    BY <1>2
<1> HIDE DEF m
<1>6. /\ AdapterShape(b) /\ b.queue = Append(g.queue, m) /\ b.client = g.client
      /\ b.mTrackingSessions = g.mTrackingSessions
      /\ b.mSessionIdCounter = n /\ SameNames(b, g) /\ b.failed = g.failed
    BY <1>2, SentFields DEF SameClients, SameNames
<1> HIDE DEF b
<1>5. g' = [b EXCEPT !.client = cl]
    BY <1>1, <1>6
<1> HIDE DEF h, cl
<1>7. /\ g'.queue = b.queue /\ g'.client = cl
      /\ g'.mTrackingSessions = b.mTrackingSessions /\ g'.mSessionIdCounter = b.mSessionIdCounter
      /\ SameNames(g', b) /\ g'.failed = b.failed
    BY <1>5, <1>6 DEF AdapterShape, SameNames
<1>8. PICK u : u = g'
    OBVIOUS
<1>9. /\ u.queue = Append(g.queue, m) /\ u.client = [g.client EXCEPT ![c] = h]
      /\ u.mTrackingSessions = g.mTrackingSessions /\ u.mSessionIdCounter = n
      /\ SameNames(u, g) /\ u.failed = g.failed
    BY <1>6, <1>7, <1>8 DEF SameNames, cl
<1>10. ASSUME c \notin g.failed \cup g.orphaned
       PROVE  PostedBy(m, g.queue, DOMAIN g.mClientData, k, h, n, n, c)
  <2>1. /\ k.session \in Nat /\ k.session <= n /\ n \in Nat
        /\ (k.gone => ~k.api) /\ (k.mTracking => k.api /\ k.session > 0)
      BY <1>10, ClientFacts
  <2> HIDE DEF k, n
  <2>2. ~k.gone /\ ~h.gone /\ h.api /\ h.session = k.session /\ ~h.mTracking
      BY <1>1, <1>4, <2>1
  <2>3. \A z : Believes(k, z) => Kills(m, c, z)
      BY <1>3 DEF Believes, Kills
  <2>4. ~Announces(m, c)
      BY <1>3 DEF Announces
  <2> QED
      BY <1>1, <1>3, <1>4, <2>1, <2>2, <2>3, <2>4 DEF PostedBy
<1>11. n \in Nat /\ n <= n
    BY <1>2
<1>12. Served(u)
  <2> HIDE DEF k
  <2>1. k = g.client[c]
      BY DEF k
  <2> QED
      BY <1>3, <1>9, <1>10, <1>11, <2>1, ServedCall
<1> QED
    BY <1>8, <1>12

LEMMA ServedCallMode ==
    ASSUME TrackingInv, ServedInv, NEW c \in Clients, gnssSetPositionMode(c)
    PROVE  ServedInv'
<1> SUFFICES ASSUME AdapterOK(g), Served(g)
             PROVE  Served(g')
    BY DEF TrackingInv, ServedInv, TrackOK
<1>1. PICK i \in Intervals :
        g' = locAPIUpdateTrackingOptions([g EXCEPT !.client[c].mLocationOptions = i], c, i)
    BY DEF gnssSetPositionMode
<1> DEFINE n == g.mSessionIdCounter
           k == g.client[c]
           h == [k EXCEPT !.mLocationOptions = i]
           cl == [g.client EXCEPT ![c] = h]
           a == [g EXCEPT !.client = cl]
           m == [kind |-> "Update", c |-> c, id |-> k.session, i |-> i]
<1>2. AdapterShape(g) /\ RequestsOK(g) /\ ClientsOK(g.client) /\ n \in Nat /\ DOMAIN g.client = Clients
      /\ {"mLocationOptions", "session", "mTracking", "api", "cbs", "gone"} \subseteq DOMAIN k
    BY DEF AdapterOK, RequestsOK, ClientsOK
<1>3. /\ h.session = k.session /\ h.mTracking = k.mTracking /\ h.api = k.api /\ h.cbs = k.cbs /\ h.gone = k.gone
      /\ h.mLocationOptions = i
    BY <1>2
<1>4. cl[c] = h
    BY <1>2
<1>5. g' = locAPIUpdateTrackingOptions(a, c, i)
    BY <1>1
<1> HIDE DEF h, cl
<1>6. /\ AdapterShape(a) /\ a.queue = g.queue /\ a.client = cl
      /\ a.mTrackingSessions = g.mTrackingSessions
      /\ a.mSessionIdCounter = n /\ SameNames(a, g) /\ a.failed = g.failed
    BY <1>2 DEF AdapterShape, SameNames
<1> HIDE DEF a
<1>7. m.kind = "Update" /\ m.id = k.session /\ m.c = c /\ m.i = i
    OBVIOUS
<1>8. g' = IF k.session > 0 THEN sendMsg(a, m) ELSE a
    BY <1>3, <1>4, <1>5, <1>6 DEF locAPIUpdateTrackingOptions, apiUpdateTrackingOptions, HasSession
<1> HIDE DEF m
<1>9. PICK u : u = g'
    OBVIOUS
<1>10. CASE k.session > 0
  <2>1. /\ u.queue = Append(g.queue, m) /\ u.client = [g.client EXCEPT ![c] = h]
        /\ u.mTrackingSessions = g.mTrackingSessions /\ u.mSessionIdCounter = n
        /\ SameNames(u, g) /\ u.failed = g.failed
      BY <1>6, <1>8, <1>9, <1>10, SentFields DEF SameClients, SameNames, cl
  <2>2. ASSUME c \notin g.failed \cup g.orphaned
        PROVE  PostedBy(m, g.queue, DOMAIN g.mClientData, k, h, n, n, c)
    <3>1. /\ k.session \in Nat /\ k.session <= n /\ n \in Nat
          /\ (k.gone => ~k.api) /\ (k.mTracking => k.api /\ k.session > 0)
        BY <2>2, ClientFacts
    <3> HIDE DEF k, n
    <3>2. \A z : Believes(k, z) <=> Believes(h, z)
        BY <1>3 DEF Believes
    <3>3. ~Announces(m, c) /\ \A z : ~Kills(m, c, z)
        BY <1>7 DEF Announces, Kills
    <3>4. h.mTracking => StillBelieves(m, k, h, c)
        BY <1>3, <1>7, <3>3 DEF StillBelieves, Paces
    <3> QED
        BY <1>3, <1>7, <1>10, <3>1, <3>2, <3>3, <3>4 DEF PostedBy
  <2>3. n \in Nat /\ n <= n
      BY <1>2
  <2>4. Served(u)
    <3> HIDE DEF k
    <3>1. k = g.client[c]
        BY DEF k
    <3> QED
        BY <1>7, <2>1, <2>2, <2>3, <3>1, ServedCall
  <2> QED
      BY <1>9, <2>4
<1>11. CASE ~(k.session > 0)
  <2>1. /\ u.queue = g.queue /\ u.client = [g.client EXCEPT ![c] = h]
        /\ u.mTrackingSessions = g.mTrackingSessions /\ u.mSessionIdCounter = n
        /\ OnlyMoreOut(u, g) /\ u.mClientData = g.mClientData /\ u.failed = g.failed /\ u.orphaned = g.orphaned
      BY <1>6, <1>8, <1>9, <1>11 DEF SameNames, OnlyMoreOut, cl
  <2>2. ASSUME c \notin u.failed \cup u.orphaned
        PROVE  ClientServed(g.queue, g.mTrackingSessions, DOMAIN g.mClientData, h, n, c)
    <3>1. c \notin g.failed \cup g.orphaned
        BY <2>1, <2>2
    <3>2. /\ ClientServed(g.queue, g.mTrackingSessions, DOMAIN g.mClientData, k, n, c)
          /\ k.session \in Nat /\ k.session <= n /\ n \in Nat
          /\ (k.gone => ~k.api) /\ (k.mTracking => k.api /\ k.session > 0)
        BY <3>1, ClientFacts
    <3> HIDE DEF k, n
    <3> QED
        BY <1>3, <1>11, <3>2, RecordServed
  <2>3. Served(u)
      BY <1>2, <2>1, <2>2, ServedRecord
  <2> QED
      BY <1>9, <2>3
<1> QED
    BY <1>10, <1>11

LEMMA ServedDestroy ==
    ASSUME TrackingInv, ServedInv, NEW c \in Clients, destroy(c)
    PROVE  ServedInv'
<1> SUFFICES ASSUME AdapterOK(g), Served(g)
             PROVE  Served(g')
    BY DEF TrackingInv, ServedInv, TrackOK
<1> DEFINE n == g.mSessionIdCounter
           k == g.client[c]
           h == [Client EXCEPT !.gone = TRUE]
           cl == [g.client EXCEPT ![c] = h]
           a == [g EXCEPT !.client = cl]
           m == [kind |-> "Remove", c |-> c]
<1>1. g' = (IF isGnssClient(k.cbs) THEN sendMsg(a, m) ELSE a) /\ k.api
    BY DEF destroy, Live
<1>2. AdapterShape(g) /\ RequestsOK(g) /\ ClientsOK(g.client) /\ n \in Nat
    BY DEF AdapterOK, RequestsOK
<1>3. h.session = 0 /\ h.mTracking = FALSE /\ h.api = FALSE /\ h.gone = TRUE
    BY DEF Client
<1> HIDE DEF h, cl
<1>4. /\ AdapterShape(a) /\ a.queue = g.queue /\ a.client = cl
      /\ a.mTrackingSessions = g.mTrackingSessions
      /\ a.mSessionIdCounter = n /\ SameNames(a, g) /\ a.failed = g.failed
    BY <1>2 DEF AdapterShape, SameNames
<1> HIDE DEF a
<1>5. m.kind = "Remove" /\ m.c = c
    OBVIOUS
<1> HIDE DEF m
<1>6. PICK u : u = g'
    OBVIOUS
<1>7. CASE isGnssClient(k.cbs)
  <2>1. /\ u.queue = Append(g.queue, m) /\ u.client = [g.client EXCEPT ![c] = h]
        /\ u.mTrackingSessions = g.mTrackingSessions /\ u.mSessionIdCounter = n
        /\ SameNames(u, g) /\ u.failed = g.failed
      BY <1>1, <1>4, <1>6, <1>7, SentFields DEF SameClients, SameNames, cl
  <2>2. ASSUME c \notin g.failed \cup g.orphaned
        PROVE  PostedBy(m, g.queue, DOMAIN g.mClientData, k, h, n, n, c)
    <3>1. /\ k.session \in Nat /\ k.session <= n /\ n \in Nat
          /\ (k.gone => ~k.api) /\ (k.mTracking => k.api /\ k.session > 0)
        BY <2>2, ClientFacts
    <3> HIDE DEF k, n
    <3>2. ~Announces(m, c) /\ \A z : Kills(m, c, z)
        BY <1>5 DEF Announces, Kills
    <3>3. 0 \in Nat /\ 0 <= n
        BY <3>1
    <3> QED
        BY <1>3, <1>5, <3>1, <3>2, <3>3 DEF PostedBy
  <2>3. n \in Nat /\ n <= n
      BY <1>2
  <2>4. Served(u)
    <3> HIDE DEF k
    <3>1. k = g.client[c]
        BY DEF k
    <3> QED
        BY <1>5, <2>1, <2>2, <2>3, <3>1, ServedCall
  <2> QED
      BY <1>6, <2>4
<1>8. CASE ~isGnssClient(k.cbs)
  <2>1. /\ u.queue = g.queue /\ u.client = [g.client EXCEPT ![c] = h]
        /\ u.mTrackingSessions = g.mTrackingSessions /\ u.mSessionIdCounter = n
        /\ OnlyMoreOut(u, g) /\ u.mClientData = g.mClientData /\ u.failed = g.failed /\ u.orphaned = g.orphaned
      BY <1>1, <1>4, <1>6, <1>8 DEF SameNames, OnlyMoreOut, cl
  <2>2. ASSUME c \notin u.failed \cup u.orphaned
        PROVE  ClientServed(g.queue, g.mTrackingSessions, DOMAIN g.mClientData, h, n, c)
    <3>1. c \notin g.failed \cup g.orphaned
        BY <2>1, <2>2
    <3>2. /\ ClientServed(g.queue, g.mTrackingSessions, DOMAIN g.mClientData, k, n, c)
          /\ k.session \in Nat /\ k.session <= n /\ n \in Nat
          /\ (k.gone => ~k.api) /\ (k.mTracking => k.api /\ k.session > 0)
          /\ ~k.gone /\ ~(k.api /\ isGnssClient(k.cbs)) => Silent(g.queue, DOMAIN g.mClientData, c)
        BY <3>1, ClientFacts
    <3> HIDE DEF k, n
    <3>3. h.session \in Nat /\ h.session <= n
        BY <1>3, <3>2
    <3> QED
        BY <1>1, <1>3, <1>8, <3>2, <3>3, RecordServed
  <2>3. Served(u)
      BY <1>2, <2>1, <2>2, ServedRecord
  <2> QED
      BY <1>6, <2>3
<1> QED
    BY <1>7, <1>8

LEMMA ServedInitInv == TrackingInit => ServedInv
<1> SUFFICES ASSUME TrackingInit, NEW c \in Clients
             PROVE  ClientServed(g.queue, g.mTrackingSessions, DOMAIN g.mClientData, g.client[c], g.mSessionIdCounter, c)
    BY DEF ServedInv, Served
<1>1. /\ g.queue = << >> /\ g.mTrackingSessions = << >> /\ g.mClientData = << >>
      /\ g.mSessionIdCounter = 0 /\ g.client[c] = Client
    BY DEF TrackingInit
<1>2. Client.session = 0 /\ Client.gone = FALSE /\ Client.api = FALSE /\ Client.mTracking = FALSE
    BY DEF Client
<1>3. DOMAIN << >> = {} /\ Len(<< >>) = 0 /\ 1..0 = {}
    OBVIOUS
<1> HIDE DEF Client
<1>4. IdsPassed(<< >>, << >>, Client, 0, c)
    BY <1>2, <1>3 DEF IdsPassed
<1>5. Gone(<< >>, Client, c) /\ Unannounced(<< >>, {}, Client, c) /\ Uncounted(<< >>, {}, c)
    BY <1>2, <1>3 DEF Gone, Unannounced, Uncounted, Silent
<1>6. StartsEnd(<< >>, {}, Client, c) /\ SessionsEnd(<< >>, << >>, Client, c)
    BY <1>2, <1>3 DEF StartsEnd, SessionsEnd
<1>7. ClientServed(<< >>, << >>, {}, Client, 0, c)
    BY <1>2, <1>4, <1>5, <1>6 DEF ClientServed
<1> QED
    BY <1>1, <1>3, <1>7

THEOREM ServedNextInv == TrackingInv /\ ServedInv /\ [TrackingNext]_trackingVars => ServedInv'
<1> SUFFICES ASSUME TrackingInv, ServedInv, [TrackingNext]_trackingVars
             PROVE  ServedInv'
    OBVIOUS
<1>1. CASE g' = g
    BY <1>1 DEF ServedInv
<1>2. UNCHANGED trackingVars \/ EngineDown => g' = g
    BY DEF trackingVars, EngineDown
<1>3. CASE Handler
    BY <1>3, ServedAdd, ServedRemove, ServedStart, ServedUpdate, ServedStop, ServedModem DEF Handler
<1>4. CASE handleEngineUpEvent
    BY <1>4, ServedUp
<1>5. ASSUME NEW c \in Clients, \/ locAPISetCallbacks(c) \/ destroy(c)
                                \/ locAPIStartTracking(c) \/ locAPIStopTracking(c) \/ gnssSetPositionMode(c)
      PROVE  ServedInv'
    BY <1>5, ServedCallbacks, ServedDestroy, ServedCallStart, ServedCallStop, ServedCallMode
<1> QED
    BY <1>1, <1>2, <1>3, <1>4, <1>5 DEF TrackingNext

(* The inductive invariant behind SessionsTracked: whatever waits in the adapter's     *)
(* queue, the session a client believes in is there or will be started, none of its    *)
(* messages ends it and the last one carries the interval it set, and every other      *)
(* session or start of the client has its end waiting behind it.                       *)
THEOREM ServedInvariant == Spec => []ServedInv
<1>1. Init => ServedInv
    BY ServedInitInv DEF Init
<1>2. TrackingInv /\ ServedInv /\ [Next]_vars => ServedInv'
  <2>1. [Next]_vars => [TrackingNext]_trackingVars
      BY DEF Next, Tracks, Controls, Notifies, Observes, vars
  <2> QED
      BY <2>1, ServedNextInv
<1> QED
    BY <1>1, <1>2, TrackingInvariant, PTL DEF Spec

(* SessionsTracked: when the adapter has handled everything, it holds for each client  *)
(* exactly the session the client believes in, at the interval the client set last,    *)
(* and nothing for a client that has gone, for any clients, callbacks, intervals and   *)
(* numbers of calls, refusals and restarts.                                            *)
THEOREM SessionsAlwaysTracked == Spec => []SessionsTracked
<1>1. TrackingInv /\ ServedInv => SessionsTracked
  <2> SUFFICES ASSUME AdapterOK(g), Served(g), g.queue = << >>, NEW c \in Clients \ (g.failed \cup g.orphaned)
               PROVE  {z \in Sessions(g) \X Intervals : z[1][1] = c /\ z[2] = g.mTrackingSessions[z[1]]}
                        = IF g.client[c].mTracking
                          THEN {<<<<c, g.client[c].session>>, g.client[c].mLocationOptions>>} ELSE {}
      BY DEF TrackingInv, ServedInv, SessionsTracked, TrackOK
  <2> DEFINE x == g.mTrackingSessions
             k == g.client[c]
             q == g.queue
  <2>1. ClientServed(q, x, DOMAIN g.mClientData, k, g.mSessionIdCounter, c)
      BY DEF Served
  <2>2. 1..Len(q) = {}
      OBVIOUS
  <2>3. Sessions(g) = DOMAIN x /\ k.mLocationOptions \in Intervals
      BY DEF Sessions, AdapterOK, ClientsOK
  <2> HIDE DEF x, k, q
  <2>4. \A y \in DOMAIN x : y[1] = c => y = <<c, y[2]>> /\ k.mTracking /\ y[2] = k.session
      BY <2>1, <2>2 DEF ClientServed, IdsPassed, SessionsEnd, Ends, Believes
  <2>5. k.mTracking => <<c, k.session>> \in DOMAIN x /\ x[<<c, k.session>>] = k.mLocationOptions
      BY <2>1, <2>2 DEF ClientServed, BelievedRuns, Settled, Unpaced
  <2>6. {z \in (DOMAIN x) \X Intervals : z[1][1] = c /\ z[2] = x[z[1]]}
            = IF k.mTracking THEN {<<<<c, k.session>>, k.mLocationOptions>>} ELSE {}
    <3>1. CASE k.mTracking
      <4>1. ASSUME NEW z \in (DOMAIN x) \X Intervals, z[1][1] = c, z[2] = x[z[1]]
            PROVE  z = <<<<c, k.session>>, k.mLocationOptions>>
        <5>1. z = <<z[1], z[2]>> /\ z[1] \in DOMAIN x
            OBVIOUS
        <5>2. z[1] = <<c, k.session>>
            BY <2>4, <4>1, <5>1
        <5> QED
            BY <2>5, <3>1, <4>1, <5>1, <5>2
      <4>2. ASSUME NEW z, z = <<<<c, k.session>>, k.mLocationOptions>>
            PROVE  z \in (DOMAIN x) \X Intervals /\ z[1][1] = c /\ z[2] = x[z[1]]
          BY <2>3, <2>5, <3>1, <4>2
      <4> QED
          BY <3>1, <4>1, <4>2
    <3>2. CASE ~k.mTracking
      <4>1. ASSUME NEW z \in (DOMAIN x) \X Intervals, z[1][1] = c
            PROVE  FALSE
        <5>1. z[1] \in DOMAIN x
            OBVIOUS
        <5> QED
            BY <2>4, <3>2, <4>1, <5>1
      <4> QED
          BY <3>2, <4>1
    <3> QED
        BY <3>1, <3>2
  <2> QED
      BY <2>3, <2>6 DEF x, k
<1> QED
    BY <1>1, TrackingInvariant, ServedInvariant, PTL
===============================================================================

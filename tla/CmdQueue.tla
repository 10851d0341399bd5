------------------------------- MODULE CmdQueue -------------------------------
(***************************************************************************)
(* The command queue of IPACM: MessageQueue (IPACM_CmdQueue.cpp) and       *)
(* IPACM_EvtDispatcher::PostEvt.  Two linked lists of Message share one    *)
(* mutex and one condition variable; every thread posts, one thread        *)
(* (MessageQueue::Process) dequeues and runs the callbacks, and a callback *)
(* may itself post.  Messages are addresses: new takes a free one and      *)
(* delete gives it back, so a stale pointer may come alive again.          *)
(* The state starts after both singletons have been created.               *)
(***************************************************************************)
EXTENDS Naturals, Sequences

CONSTANTS
    Posters,    \* the threads that post: netlink, driver notifier, HAL, ...
    Consumer,   \* the thread of MessageQueue::Process
    Msgs,       \* addresses a Message can have
    NULL,       \* the null pointer
    None        \* no thread

ASSUME ConstantsAssumption ==
    /\ Consumer \notin Posters
    /\ None \notin Posters \cup {Consumer}
    /\ NULL \notin Msgs

VARIABLES
    head, tail,     \* MessageQueue::Head and Tail of each instance
    next,           \* Message::m_next
    live,           \* the addresses that hold a Message
    mutex,          \* the thread that holds the mutex
    waiting,        \* threads blocked in pthread_cond_wait
    pc,             \* where each thread is
    item,           \* the Message a thread is posting
    dest,           \* the queue it posts to
    cur,            \* the Message Process has dequeued
    fifo            \* history: posted and not yet dequeued, in order

vars == <<head, tail, next, live, mutex, waiting, pc, item, dest, cur, fifo>>

Threads == Posters \cup {Consumer}
Queues == {"internal", "external"}

\* Where a thread is when it is not inside PostEvt and may call it.
Home(t) == IF t = Consumer THEN "callback" ELSE "idle"

PostPCs == {"lock", "enqueue", "signal", "unlock"}
ConsumerPCs == {"top", "dequeue", "wait", "waiting", "woken", "release", "callback"}

Init ==
    /\ head = [q \in Queues |-> NULL]
    /\ tail = [q \in Queues |-> NULL]
    /\ next = [m \in Msgs |-> NULL]
    /\ live = {}
    /\ mutex = None
    /\ waiting = {}
    /\ pc = [t \in Threads |-> IF t = Consumer THEN "top" ELSE "idle"]
    /\ item = [t \in Threads |-> NULL]
    /\ dest = [t \in Threads |-> "external"]
    /\ cur = NULL
    /\ fifo = [q \in Queues |-> << >>]

----------------------------------------------------------------------------
(* PostEvt, a step per line that another thread can observe. *)

\* Chooses the queue from the event id and allocates the message.
PostNew(t, q, m) ==
    /\ pc[t] = Home(t)
    /\ m \in Msgs \ live
    /\ live' = live \cup {m}
    /\ next' = [next EXCEPT ![m] = NULL]
    /\ item' = [item EXCEPT ![t] = m]
    /\ dest' = [dest EXCEPT ![t] = q]
    /\ pc' = [pc EXCEPT ![t] = "lock"]
    /\ UNCHANGED <<head, tail, mutex, waiting, cur, fifo>>

PostLock(t) ==
    /\ pc[t] = "lock"
    /\ mutex = None
    /\ mutex' = t
    /\ pc' = [pc EXCEPT ![t] = "enqueue"]
    /\ UNCHANGED <<head, tail, next, live, waiting, item, dest, cur, fifo>>

\* MessageQueue::enqueue on queue q.  Tail is not reset when the queue runs
\* empty, so only Head tells whether Tail may be followed.
enqueue(q, m) ==
    /\ tail' = [tail EXCEPT ![q] = m]
    /\ IF head[q] = NULL
       THEN /\ head' = [head EXCEPT ![q] = m]
            /\ UNCHANGED next
       ELSE /\ next' = [next EXCEPT ![IF tail[q] = NULL THEN head[q] ELSE tail[q]] = m]
            /\ UNCHANGED head

PostEnqueue(t) ==
    /\ pc[t] = "enqueue"
    /\ enqueue(dest[t], item[t])
    /\ fifo' = [fifo EXCEPT ![dest[t]] = Append(@, item[t])]
    /\ pc' = [pc EXCEPT ![t] = "signal"]
    /\ UNCHANGED <<live, mutex, waiting, item, dest, cur>>

\* Mutant: the signal is forgotten.
PostSignal_Forgotten(t) ==
    /\ pc[t] = "signal"
    /\ pc' = [pc EXCEPT ![t] = "unlock"]
    /\ UNCHANGED <<head, tail, next, live, mutex, waiting, item, dest, cur, fifo>>

\* pthread_cond_signal; the consumer is the only thread that ever waits.
PostSignal(t) ==
    /\ pc[t] = "signal"
    /\ waiting' = {}
    /\ pc' = [pc EXCEPT ![t] = "unlock"]
    /\ UNCHANGED <<head, tail, next, live, mutex, item, dest, cur, fifo>>

PostUnlock(t) ==
    /\ pc[t] = "unlock"
    /\ mutex' = None
    /\ pc' = [pc EXCEPT ![t] = Home(t)]
    /\ item' = [item EXCEPT ![t] = NULL]
    /\ dest' = [dest EXCEPT ![t] = "external"]
    /\ UNCHANGED <<head, tail, next, live, waiting, cur, fifo>>

----------------------------------------------------------------------------
(* MessageQueue::Process *)

ProcessLock ==
    /\ pc[Consumer] = "top"
    /\ mutex = None
    /\ mutex' = Consumer
    /\ pc' = [pc EXCEPT ![Consumer] = "dequeue"]
    /\ UNCHANGED <<head, tail, next, live, waiting, item, dest, cur, fifo>>

\* MessageQueue::dequeue on the queue Process looks into.
dequeue(q) ==
    /\ cur' = head[q]
    /\ head' = [head EXCEPT ![q] = next[head[q]]]
    /\ fifo' = [fifo EXCEPT ![q] = Tail(@)]

\* Mutant: the external queue is served first.
ProcessDequeue_ExternalFirst ==
    /\ pc[Consumer] = "dequeue"
    /\ \/ /\ head["external"] # NULL
          /\ dequeue("external")
          /\ pc' = [pc EXCEPT ![Consumer] = "release"]
       \/ /\ head["external"] = NULL
          /\ head["internal"] # NULL
          /\ dequeue("internal")
          /\ pc' = [pc EXCEPT ![Consumer] = "release"]
       \/ /\ head["internal"] = NULL
          /\ head["external"] = NULL
          /\ pc' = [pc EXCEPT ![Consumer] = "wait"]
          /\ UNCHANGED <<head, cur, fifo>>
    /\ UNCHANGED <<tail, next, live, mutex, waiting, item, dest>>

\* Mutant: Process waits as soon as the internal queue is empty.
ProcessDequeue_InternalOnly ==
    /\ pc[Consumer] = "dequeue"
    /\ \/ /\ head["internal"] # NULL
          /\ dequeue("internal")
          /\ pc' = [pc EXCEPT ![Consumer] = "release"]
       \/ /\ head["internal"] = NULL
          /\ pc' = [pc EXCEPT ![Consumer] = "wait"]
          /\ UNCHANGED <<head, cur, fifo>>
    /\ UNCHANGED <<tail, next, live, mutex, waiting, item, dest>>

\* The internal queue first, the external queue if that one is empty.
ProcessDequeue ==
    /\ pc[Consumer] = "dequeue"
    /\ \/ /\ head["internal"] # NULL
          /\ dequeue("internal")
          /\ pc' = [pc EXCEPT ![Consumer] = "release"]
       \/ /\ head["internal"] = NULL
          /\ head["external"] # NULL
          /\ dequeue("external")
          /\ pc' = [pc EXCEPT ![Consumer] = "release"]
       \/ /\ head["internal"] = NULL
          /\ head["external"] = NULL
          /\ pc' = [pc EXCEPT ![Consumer] = "wait"]
          /\ UNCHANGED <<head, cur, fifo>>
    /\ UNCHANGED <<tail, next, live, mutex, waiting, item, dest>>

\* pthread_cond_wait gives the mutex up and blocks in one step ...
CondWait ==
    /\ pc[Consumer] = "wait"
    /\ mutex' = None
    /\ waiting' = waiting \cup {Consumer}
    /\ pc' = [pc EXCEPT ![Consumer] = "waiting"]
    /\ UNCHANGED <<head, tail, next, live, item, dest, cur, fifo>>

\* ... may return without a signal ...
SpuriousWakeup ==
    /\ Consumer \in waiting
    /\ waiting' = waiting \ {Consumer}
    /\ UNCHANGED <<head, tail, next, live, mutex, pc, item, dest, cur, fifo>>

\* ... and takes the mutex again before it returns.
CondReturn ==
    /\ pc[Consumer] = "waiting"
    /\ Consumer \notin waiting
    /\ mutex = None
    /\ mutex' = Consumer
    /\ pc' = [pc EXCEPT ![Consumer] = "woken"]
    /\ UNCHANGED <<head, tail, next, live, waiting, item, dest, cur, fifo>>

\* After a wait Process unlocks and starts over, after a dequeue it unlocks
\* and runs the callback.
ProcessUnlock ==
    /\ pc[Consumer] \in {"woken", "release"}
    /\ mutex' = None
    /\ pc' = [pc EXCEPT ![Consumer] = IF @ = "woken" THEN "top" ELSE "callback"]
    /\ UNCHANGED <<head, tail, next, live, waiting, item, dest, cur, fifo>>

\* The callback returns and the message is deleted.
ProcessDelete ==
    /\ pc[Consumer] = "callback"
    /\ live' = live \ {cur}
    /\ cur' = NULL
    /\ pc' = [pc EXCEPT ![Consumer] = "top"]
    /\ UNCHANGED <<head, tail, next, mutex, waiting, item, dest, fifo>>

----------------------------------------------------------------------------
PostEvt(t) ==
    \/ \E q \in Queues, m \in Msgs : PostNew(t, q, m)
    \/ PostLock(t)
    \/ PostEnqueue(t)
    \/ PostSignal(t)
    \/ PostUnlock(t)

Process ==
    \/ ProcessLock
    \/ ProcessDequeue
    \/ CondWait
    \/ SpuriousWakeup
    \/ CondReturn
    \/ ProcessUnlock
    \/ ProcessDelete

Next ==
    \/ \E t \in Threads : PostEvt(t)
    \/ Process

Spec == Init /\ [][Next]_vars

\* A thread inside PostEvt runs on, and Process runs on whenever it is not
\* waiting; a mutex that is free again and again is obtained.  Nothing makes
\* a thread post, and nothing makes pthread_cond_wait return by itself.
Fairness ==
    /\ \A t \in Threads : /\ SF_vars(PostLock(t))
                          /\ WF_vars(PostEnqueue(t) \/ PostSignal(t) \/ PostUnlock(t))
    /\ SF_vars(ProcessLock)
    /\ SF_vars(CondReturn)
    /\ WF_vars(ProcessDequeue \/ CondWait \/ ProcessUnlock \/ ProcessDelete)

FairSpec == Spec /\ Fairness

----------------------------------------------------------------------------
(* Properties *)

TypeOK ==
    /\ head \in [Queues -> Msgs \cup {NULL}]
    /\ tail \in [Queues -> Msgs \cup {NULL}]
    /\ next \in [Msgs -> Msgs \cup {NULL}]
    /\ live \subseteq Msgs
    /\ mutex \in Threads \cup {None}
    /\ waiting \subseteq {Consumer}
    /\ pc \in [Threads -> PostPCs \cup ConsumerPCs \cup {"idle"}]
    /\ \A t \in Posters : pc[t] \in PostPCs \cup {"idle"}
    /\ pc[Consumer] # "idle"
    /\ item \in [Threads -> Msgs \cup {NULL}]
    /\ dest \in [Threads -> Queues]
    /\ cur \in Msgs \cup {NULL}
    /\ fifo \in [Queues -> Seq(Msgs)]

\* The list that starts at Head and is linked by m_next is the queue: it holds
\* exactly the events posted and not yet taken, in posting order, and Tail is
\* its last message whenever the list is not empty.  So enqueue, which trusts
\* a Tail that dequeue never resets, appends behind the youngest message and
\* never writes through a stale pointer (IPACM_CmdQueue.cpp 81-117).
ListIsFifo ==
    \A q \in Queues :
        LET n == Len(fifo[q]) IN
        /\ n = 0 => head[q] = NULL
        /\ n > 0 => /\ head[q] = fifo[q][1]
                    /\ tail[q] = fifo[q][n]
                    /\ next[fifo[q][n]] = NULL
        /\ \A i \in 1..n : i < n => next[fifo[q][i]] = fifo[q][i + 1]

\* No message is deleted while a queue, a poster or the running callback still
\* refers to it, and no message is in two of these places: an address that is
\* used again cannot bring an old message back to life.
Posting(t) == pc[t] \in {"lock", "enqueue"}

MessagesDisjoint ==
    /\ \A q \in Queues : \A i \in 1..Len(fifo[q]) :
        /\ fifo[q][i] \in live
        /\ fifo[q][i] # cur
        /\ \A r \in Queues : \A j \in 1..Len(fifo[r]) :
              fifo[q][i] = fifo[r][j] => q = r /\ i = j
        /\ \A t \in Threads : Posting(t) => item[t] # fifo[q][i]
    /\ \A t \in Threads : Posting(t) =>
        /\ item[t] \in live
        /\ item[t] # cur
        /\ \A u \in Threads : Posting(u) /\ item[t] = item[u] => t = u
    /\ cur # NULL => cur \in live

\* The waiting consumer and a queued message exclude each other as soon as the
\* mutex is free: there is no lost wake-up between PostEvt and Process.
NoLostWakeup ==
    (Consumer \in waiting /\ mutex = None) => \A q \in Queues : head[q] = NULL

\* What holds between the steps of PostEvt and Process: the lists are the queues,
\* nobody refers to a freed message, and the consumer is never left asleep.
QueueSound == TypeOK /\ ListIsFifo /\ MessagesDisjoint /\ NoLostWakeup

\* The linked lists implement two FIFO queues of which the internal one is
\* served first (IPACM_CmdQueue.cpp 152-156).
Abstract == INSTANCE EventQueues WITH queue <- fifo, handling <- cur

ImplementsEventQueues == Abstract!ASpec

InQueue(q, m) == \E i \in 1..Len(fifo[q]) : fifo[q][i] = m

InternalServed ==
    \A m \in Msgs : InQueue("internal", m) ~> (cur = m)

ExternalServed ==
    []<>(pc[Consumer] = "dequeue" /\ head["internal"] = NULL)
        => \A m \in Msgs : InQueue("external", m) ~> (cur = m)

\* Every event is handled: one of the internal queue always, one of the external
\* queue unless the internal queue is never again found empty by Process
\* (IPACM_CmdQueue.cpp 152-156).
EventsServed == InternalServed /\ ExternalServed
==============================================================================

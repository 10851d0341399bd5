----------------------------- MODULE EventQueues -----------------------------
(***************************************************************************)
(* What the IPACM command queue promises its users: two FIFO queues, one   *)
(* handler running at a time, and an event of the external queue taken     *)
(* only while the internal queue is empty.  CmdQueue implements it.        *)
(***************************************************************************)
EXTENDS Naturals, Sequences

CONSTANTS
    Msgs,       \* the messages
    NULL        \* no message

VARIABLES
    queue,      \* queue[q]: the events posted to q and not yet taken
    handling    \* the event whose callback runs, or NULL

avars == <<queue, handling>>

Queues == {"internal", "external"}

InUse == {handling} \cup UNION {{queue[q][i] : i \in 1..Len(queue[q])} : q \in Queues}

AInit ==
    /\ queue = [q \in Queues |-> << >>]
    /\ handling = NULL

\* A thread, or the running handler itself, posts m to q.
APost(q, m) ==
    /\ m \notin InUse
    /\ queue' = [queue EXCEPT ![q] = Append(@, m)]
    /\ UNCHANGED handling

\* The command-queue thread takes the oldest event of q.
ATake(q) ==
    /\ handling = NULL
    /\ queue[q] # << >>
    /\ q = "external" => queue["internal"] = << >>
    /\ handling' = Head(queue[q])
    /\ queue' = [queue EXCEPT ![q] = Tail(@)]

\* The handler has returned and the event is gone.
ADone ==
    /\ handling # NULL
    /\ handling' = NULL
    /\ UNCHANGED queue

ANext ==
    \/ \E q \in Queues, m \in Msgs : APost(q, m)
    \/ \E q \in Queues : ATake(q)
    \/ ADone

ASpec == AInit /\ [][ANext]_avars
==============================================================================

---------------------------- MODULE CmdQueueProofs ----------------------------
(***************************************************************************)
(* For every set of posting threads and of addresses: the linked lists of  *)
(* the command queue are the FIFO queues they stand for, no message is in  *)
(* two places, no wake-up is lost, and CmdQueue implements EventQueues.    *)
(***************************************************************************)
EXTENDS CmdQueue, SequenceTheorems, TLAPS

(* What Append and Tail return, in the form the steps below use. *)

\* An appended element comes last and leaves the others where they are.
LEMMA AppendIndexed ==
    ASSUME NEW S, NEW s \in Seq(S), NEW e \in S
    PROVE  /\ Append(s, e) \in Seq(S)
           /\ Len(Append(s, e)) = Len(s) + 1
           /\ \A i \in 1..Len(s) : Append(s, e)[i] = s[i]
           /\ Append(s, e)[Len(s) + 1] = e
  OBVIOUS

\* Tail drops the first element and moves the others one place down.
LEMMA TailIndexed ==
    ASSUME NEW S, NEW s \in Seq(S), Len(s) > 0
    PROVE  /\ Tail(s) \in Seq(S)
           /\ Len(Tail(s)) = Len(s) - 1
           /\ \A i \in 1..(Len(s) - 1) : Tail(s)[i] = s[i + 1]
           /\ Head(s) = s[1]
  OBVIOUS

----------------------------------------------------------------------------
(* The inductive invariant *)

HoldsMutex(t) ==
    pc[t] \in {"enqueue", "signal", "unlock", "dequeue", "wait", "woken", "release"}

\* The mutex is held by the thread that is in a critical section.
Control ==
    \A t \in Threads : HoldsMutex(t) <=> mutex = t

\* Process holds a message exactly between a dequeue and the delete.
CurInv ==
    (cur = NULL) <=> pc[Consumer] \in {"top", "dequeue", "wait", "waiting", "woken"}

\* Whoever has filled a queue while the consumer waits is about to signal.
WakeupInv ==
    /\ Consumer \in waiting => pc[Consumer] = "waiting"
    /\ pc[Consumer] = "wait" => \A q \in Queues : fifo[q] = << >>
    /\ (Consumer \in waiting /\ \E q \in Queues : fifo[q] # << >>)
          => \E t \in Posters : pc[t] = "signal"

\* A message that is being posted has no successor yet.
FreshLinks ==
    \A t \in Threads : Posting(t) => next[item[t]] = NULL

IInv ==
    /\ TypeOK
    /\ Control
    /\ CurInv
    /\ ListIsFifo
    /\ MessagesDisjoint
    /\ FreshLinks
    /\ WakeupInv

----------------------------------------------------------------------------
\* The initial state satisfies the inductive invariant.
LEMMA InitIInv == Init => IInv
  <1> USE ConstantsAssumption
  <1> SUFFICES ASSUME Init PROVE IInv
    OBVIOUS
  <1>1. TypeOK
    BY DEF Init, TypeOK, Threads, Queues, PostPCs, ConsumerPCs
  <1>2. Control /\ CurInv
    BY DEF Init, Control, CurInv, HoldsMutex, Threads, PostPCs
  <1>3. \A q \in Queues : fifo[q] = << >> /\ Len(fifo[q]) = 0
    BY DEF Init
  <1>4. ListIsFifo
    BY <1>3 DEF Init, ListIsFifo
  <1>5. MessagesDisjoint
    <2>1. \A q \in Queues : 1..Len(fifo[q]) = {}
      BY <1>3
    <2>2. \A t \in Threads : ~Posting(t)
      BY DEF Init, Posting
    <2> QED
      BY <2>1, <2>2, Zenon DEF Init, MessagesDisjoint
  <1>7. FreshLinks
    BY DEF Init, FreshLinks, Posting
  <1>6. WakeupInv
    BY <1>3 DEF Init, WakeupInv, Threads
  <1> QED
    BY <1>1, <1>2, <1>4, <1>5, <1>6, <1>7 DEF IInv

----------------------------------------------------------------------------
(* The steps that leave every list alone: they move a thread, the mutex and *)
(* the wait set.                                                            *)

\* A step that keeps the lists, the messages and who is posting them keeps
\* the invariants about them.
LEMMA ListsUnchanged ==
    ASSUME IInv, UNCHANGED <<head, tail, next, live, item, cur, fifo>>,
           \A t \in Threads : Posting(t)' <=> Posting(t)
    PROVE  ListIsFifo' /\ MessagesDisjoint' /\ FreshLinks'
  BY DEF IInv, ListIsFifo, MessagesDisjoint, FreshLinks, Posting

\* Taking and releasing the mutex, and waking from the wait, move only program counters and the lock.
LEMMA LockSteps ==
    ASSUME IInv,
           \/ \E t \in Threads : PostLock(t) \/ PostSignal(t)
           \/ ProcessLock \/ CondWait \/ SpuriousWakeup \/ CondReturn \/ ProcessUnlock
    PROVE  IInv'
  <1> USE ConstantsAssumption
  <1>1. CASE \E t \in Threads : PostLock(t)
    <2> PICK t \in Threads : PostLock(t)
      BY <1>1
    <2>1. TypeOK' /\ Control' /\ CurInv' /\ WakeupInv'
      BY DEF IInv, PostLock, TypeOK, Control, CurInv, WakeupInv, HoldsMutex,
             Threads, PostPCs, ConsumerPCs
    <2>2. \A u \in Threads : Posting(u)' <=> Posting(u)
      BY DEF IInv, TypeOK, PostLock, Posting
    <2> QED
      BY <2>1, <2>2, ListsUnchanged DEF IInv, PostLock
  <1>2. CASE \E t \in Threads : PostSignal(t)
    <2> PICK t \in Threads : PostSignal(t)
      BY <1>2
    <2>1. TypeOK' /\ Control' /\ CurInv' /\ WakeupInv'
      BY DEF IInv, PostSignal, TypeOK, Control, CurInv, WakeupInv, HoldsMutex,
             Threads, PostPCs, ConsumerPCs
    <2>2. \A u \in Threads : Posting(u)' <=> Posting(u)
      BY DEF IInv, TypeOK, PostSignal, Posting
    <2> QED
      BY <2>1, <2>2, ListsUnchanged DEF IInv, PostSignal
  <1>3. CASE ProcessLock
    <2>1. TypeOK' /\ Control' /\ CurInv' /\ WakeupInv'
      BY <1>3 DEF IInv, ProcessLock, TypeOK, Control, CurInv, WakeupInv, HoldsMutex,
             Threads, PostPCs, ConsumerPCs
    <2>2. \A u \in Threads : Posting(u)' <=> Posting(u)
      BY <1>3 DEF IInv, TypeOK, ProcessLock, Posting, Threads
    <2> QED
      BY <1>3, <2>1, <2>2, ListsUnchanged DEF IInv, ProcessLock
  <1>4. CASE CondWait
    <2>1. TypeOK' /\ Control' /\ CurInv' /\ WakeupInv'
      BY <1>4 DEF IInv, CondWait, TypeOK, Control, CurInv, WakeupInv, HoldsMutex,
             Threads, PostPCs, ConsumerPCs
    <2>2. \A u \in Threads : Posting(u)' <=> Posting(u)
      BY <1>4 DEF IInv, TypeOK, CondWait, Posting, Threads
    <2> QED
      BY <1>4, <2>1, <2>2, ListsUnchanged DEF IInv, CondWait
  <1>5. CASE SpuriousWakeup
    <2>1. TypeOK' /\ Control' /\ CurInv' /\ WakeupInv'
      BY <1>5 DEF IInv, SpuriousWakeup, TypeOK, Control, CurInv, WakeupInv, HoldsMutex,
             Threads, PostPCs, ConsumerPCs
    <2> QED
      BY <1>5, <2>1, ListsUnchanged DEF IInv, SpuriousWakeup, Posting
  <1>6. CASE CondReturn
    <2>1. TypeOK' /\ Control' /\ CurInv' /\ WakeupInv'
      BY <1>6 DEF IInv, CondReturn, TypeOK, Control, CurInv, WakeupInv, HoldsMutex,
             Threads, PostPCs, ConsumerPCs
    <2>2. \A u \in Threads : Posting(u)' <=> Posting(u)
      BY <1>6 DEF IInv, TypeOK, CondReturn, Posting, Threads
    <2> QED
      BY <1>6, <2>1, <2>2, ListsUnchanged DEF IInv, CondReturn
  <1>7. CASE ProcessUnlock
    <2>1. TypeOK' /\ Control' /\ CurInv' /\ WakeupInv'
      BY <1>7 DEF IInv, ProcessUnlock, TypeOK, Control, CurInv, WakeupInv, HoldsMutex,
             Threads, PostPCs, ConsumerPCs
    <2>2. \A u \in Threads : Posting(u)' <=> Posting(u)
      BY <1>7 DEF IInv, TypeOK, ProcessUnlock, Posting, Threads
    <2> QED
      BY <1>7, <2>1, <2>2, ListsUnchanged DEF IInv, ProcessUnlock
  <1> QED
    BY <1>1, <1>2, <1>3, <1>4, <1>5, <1>6, <1>7

----------------------------------------------------------------------------
(* The steps that allocate, link, unlink and free messages. *)

\* PostEvt allocating its message keeps the invariant: the new message is fresh.
LEMMA PostNewStep ==
    ASSUME IInv, NEW t \in Threads, NEW q \in Queues, NEW m \in Msgs, PostNew(t, q, m)
    PROVE  IInv'
  <1> USE ConstantsAssumption
  <1>1. TypeOK' /\ Control' /\ CurInv' /\ WakeupInv'
    BY DEF IInv, PostNew, TypeOK, Control, CurInv, WakeupInv, HoldsMutex, Home,
           Threads, PostPCs, ConsumerPCs
  <1>2. ListIsFifo'
    BY DEF IInv, PostNew, TypeOK, ListIsFifo, MessagesDisjoint
  <1>3. MessagesDisjoint'
    BY DEF IInv, PostNew, TypeOK, MessagesDisjoint, Posting, Home
  <1>4. FreshLinks'
    BY DEF IInv, PostNew, TypeOK, FreshLinks, MessagesDisjoint, Posting, Home
  <1> QED
    BY <1>1, <1>2, <1>3, <1>4 DEF IInv

\* PostEvt linking its message at the tail keeps the invariant, also when the list is empty and Tail dangles.
LEMMA PostEnqueueStep ==
    ASSUME IInv, NEW t \in Threads, PostEnqueue(t)
    PROVE  IInv'
  <1> USE ConstantsAssumption
  <1> DEFINE q == dest[t]
             m == item[t]
             n == Len(fifo[q])
  <1>0. q \in Queues /\ m \in Msgs /\ fifo[q] \in Seq(Msgs) /\ n \in Nat /\ m \in live
    BY DEF IInv, TypeOK, PostEnqueue, MessagesDisjoint, Posting
  <1>1. /\ fifo'[q] \in Seq(Msgs)
        /\ Len(fifo'[q]) = n + 1
        /\ \A i \in 1..n : fifo'[q][i] = fifo[q][i]
        /\ fifo'[q][n + 1] = m
        /\ \A r \in Queues : r # q => fifo'[r] = fifo[r]
    BY <1>0, AppendIndexed DEF IInv, TypeOK, PostEnqueue
  <1>2. fifo' \in [Queues -> Seq(Msgs)]
    BY <1>0, <1>1 DEF IInv, TypeOK, PostEnqueue
  <1>3. TypeOK'
    <2>1. pc' \in [Threads -> PostPCs \cup ConsumerPCs \cup {"idle"}]
          /\ (\A u \in Posters : pc'[u] \in PostPCs \cup {"idle"}) /\ pc'[Consumer] # "idle"
      BY DEF IInv, TypeOK, PostEnqueue, Threads, PostPCs
    <2> QED
      BY <1>0, <1>2, <2>1 DEF IInv, TypeOK, PostEnqueue, enqueue
  <1>4. Control' /\ CurInv'
    BY DEF IInv, PostEnqueue, TypeOK, Control, CurInv, HoldsMutex, Threads, PostPCs
  <1>5. WakeupInv'
    BY DEF IInv, PostEnqueue, TypeOK, Control, WakeupInv, HoldsMutex, Threads, PostPCs
  <1>6. /\ next[m] = NULL
        /\ n = 0 => head[q] = NULL
        /\ n > 0 => head[q] = fifo[q][1] /\ head[q] # NULL /\ tail[q] = fifo[q][n]
        /\ \A r \in Queues : \A i \in 1..Len(fifo[r]) :
              fifo[r][i] # m /\ fifo[r][i] \in Msgs
    BY <1>0 DEF IInv, TypeOK, PostEnqueue, ListIsFifo, MessagesDisjoint, FreshLinks, Posting
  <1>7. /\ head'[q] = fifo'[q][1] /\ tail'[q] = m /\ next'[m] = NULL
        /\ \A r \in Queues : r # q => head'[r] = head[r] /\ tail'[r] = tail[r]
        /\ n > 0 => next'[fifo[q][n]] = m
        /\ \A x \in Msgs : n = 0 \/ x # fifo[q][n] => next'[x] = next[x]
    BY <1>0, <1>1, <1>6 DEF IInv, TypeOK, PostEnqueue, enqueue
  <1>7a. \A u \in Threads : Posting(u)' <=> (Posting(u) /\ u # t)
    BY DEF IInv, TypeOK, PostEnqueue, Posting
  <1>7b. n = Len(fifo[q]) /\ m = item[t]
    OBVIOUS
  <1> HIDE DEF q, m, n
  <1>8. ListIsFifo'
    <2> SUFFICES ASSUME NEW r \in Queues
                 PROVE  LET k == Len(fifo'[r]) IN
                        /\ k = 0 => head'[r] = NULL
                        /\ k > 0 => /\ head'[r] = fifo'[r][1]
                                    /\ tail'[r] = fifo'[r][k]
                                    /\ next'[fifo'[r][k]] = NULL
                        /\ \A i \in 1..k : i < k => next'[fifo'[r][i]] = fifo'[r][i + 1]
      BY DEF ListIsFifo
    <2>1. CASE r = q
      <3>1. \A i \in 1..n : i < n => next'[fifo[q][i]] = fifo[q][i + 1]
        BY <1>0, <1>6, <1>7, <1>7b DEF IInv, ListIsFifo, MessagesDisjoint
      <3>2. ASSUME NEW i \in 1..(n + 1), i < n + 1
            PROVE  next'[fifo'[q][i]] = fifo'[q][i + 1]
        <4>1. CASE i = n
          BY <1>0, <1>1, <1>7, <4>1
        <4>2. CASE i < n
          <5>1. i \in 1..n /\ i + 1 \in 1..n
            BY <1>0, <4>2
          <5> QED
            BY <1>1, <3>1, <4>2, <5>1
        <4> QED
          BY <1>0, <3>2, <4>1, <4>2
      <3> QED
        BY <1>0, <1>1, <1>7, <2>1, <3>2
    <2>2. CASE r # q
      <3>1. \A i \in 1..Len(fifo[r]) : next'[fifo[r][i]] = next[fifo[r][i]]
        BY <1>0, <1>6, <1>7, <1>7b, <2>2 DEF IInv, MessagesDisjoint
      <3>2. Len(fifo[r]) \in Nat
        BY DEF IInv, TypeOK
      <3> QED
        BY <1>1, <1>7, <2>2, <3>1, <3>2 DEF IInv, ListIsFifo
    <2> QED
      BY <2>1, <2>2
  <1>9. FreshLinks'
    <2> SUFFICES ASSUME NEW u \in Threads, Posting(u), u # t
                 PROVE  next'[item[u]] = NULL
      BY <1>7a DEF FreshLinks, PostEnqueue
    <2>1. item[u] \in Msgs /\ next[item[u]] = NULL
      BY DEF IInv, TypeOK, FreshLinks, MessagesDisjoint
    <2>2. n = 0 \/ item[u] # fifo[q][n]
      BY <1>0, <1>7b DEF IInv, MessagesDisjoint
    <2> QED
      BY <1>7, <2>1, <2>2
  <1>10. MessagesDisjoint'
    <2>1. \A r \in Queues : \A i \in 1..Len(fifo'[r]) :
             \/ r = q /\ i = n + 1 /\ fifo'[r][i] = m
             \/ i \in 1..Len(fifo[r]) /\ fifo'[r][i] = fifo[r][i]
      <3> SUFFICES ASSUME NEW r \in Queues, NEW i \in 1..Len(fifo'[r])
                   PROVE  \/ r = q /\ i = n + 1 /\ fifo'[r][i] = m
                          \/ i \in 1..Len(fifo[r]) /\ fifo'[r][i] = fifo[r][i]
        OBVIOUS
      <3>1. CASE r # q
        BY <1>1, <3>1
      <3>2. CASE r = q /\ i = n + 1
        BY <1>1, <3>2
      <3>3. CASE r = q /\ i # n + 1
        <4>1. i \in 1..n
          BY <1>0, <1>1, <3>3
        <4> QED
          BY <1>1, <1>7b, <3>3, <4>1
      <3> QED
        BY <3>1, <3>2, <3>3
    <2>3. Posting(t) /\ m # cur
      BY <1>7b DEF IInv, PostEnqueue, MessagesDisjoint, Posting
    <2>4. \A r \in Queues : \A i \in 1..Len(fifo'[r]) :
             /\ fifo'[r][i] \in live
             /\ fifo'[r][i] # cur
             /\ \A u \in Threads : Posting(u)' => item[u] # fifo'[r][i]
      BY <1>0, <1>7a, <1>7b, <2>1, <2>3 DEF IInv, MessagesDisjoint
    <2>5. \A r \in Queues : \A i \in 1..Len(fifo'[r]) :
             \A p \in Queues : \A j \in 1..Len(fifo'[p]) :
                fifo'[r][i] = fifo'[p][j] => r = p /\ i = j
      <3> SUFFICES ASSUME NEW r \in Queues, NEW i \in 1..Len(fifo'[r]),
                          NEW p \in Queues, NEW j \in 1..Len(fifo'[p]),
                          fifo'[r][i] = fifo'[p][j]
                   PROVE  r = p /\ i = j
        OBVIOUS
      <3>1. CASE r = q /\ i = n + 1 /\ fifo'[r][i] = m
        BY <1>6, <2>1, <3>1
      <3>2. CASE i \in 1..Len(fifo[r]) /\ fifo'[r][i] = fifo[r][i]
        <4>1. fifo[r][i] # m
          BY <1>6, <3>2
        <4>2. j \in 1..Len(fifo[p]) /\ fifo'[p][j] = fifo[p][j]
          BY <2>1, <3>2, <4>1
        <4>3. fifo[r][i] = fifo[p][j]
          BY <3>2, <4>2
        <4> QED
          BY <3>2, <4>2, <4>3, Zenon DEF IInv, MessagesDisjoint
      <3> QED
        BY <2>1, <3>1, <3>2
    <2>6. \A u \in Threads : Posting(u)' =>
             /\ item[u] \in live
             /\ item[u] # cur
             /\ \A w \in Threads : Posting(w)' /\ item[u] = item[w] => u = w
      BY <1>7a DEF IInv, MessagesDisjoint
    <2>7. cur # NULL => cur \in live
      BY DEF IInv, MessagesDisjoint
    <2> QED
      BY <2>4, <2>5, <2>6, <2>7 DEF PostEnqueue, MessagesDisjoint
  <1> QED
    BY <1>3, <1>4, <1>5, <1>8, <1>9, <1>10 DEF IInv

\* PostEvt signalling and releasing the mutex keeps the invariant.
LEMMA PostUnlockStep ==
    ASSUME IInv, NEW t \in Threads, PostUnlock(t)
    PROVE  IInv'
  <1> USE ConstantsAssumption
  <1>0. TypeOK'
    BY DEF IInv, PostUnlock, TypeOK, Home, Threads, Queues, PostPCs, ConsumerPCs
  <1>1. Control' /\ CurInv'
    BY DEF IInv, PostUnlock, TypeOK, Control, CurInv, HoldsMutex, Home, Threads, PostPCs
  <1>1a. WakeupInv'
    <2>1. \A u \in Posters : pc[u] = "signal" => pc'[u] = "signal"
      BY DEF IInv, PostUnlock, TypeOK, Threads
    <2>2. pc'[Consumer] # "wait" /\ (pc[Consumer] = "waiting" => pc'[Consumer] = "waiting")
      BY DEF IInv, PostUnlock, TypeOK, Control, HoldsMutex, Home, Threads
    <2> QED
      BY <2>1, <2>2 DEF IInv, PostUnlock, WakeupInv
  <1>2. \A u \in Threads : Posting(u)' <=> (Posting(u) /\ u # t)
    BY DEF IInv, TypeOK, PostUnlock, Posting, Home
  <1>3. ListIsFifo'
    BY DEF IInv, PostUnlock, ListIsFifo
  <1>4. MessagesDisjoint' /\ FreshLinks'
    <2>1. \A u \in Threads : Posting(u)' => Posting(u) /\ item'[u] = item[u]
      BY <1>2 DEF IInv, TypeOK, PostUnlock
    <2>2. UNCHANGED <<fifo, live, cur, next>>
      BY DEF PostUnlock
    <2>3. MessagesDisjoint'
      BY <2>1, <2>2 DEF IInv, MessagesDisjoint
    <2>4. FreshLinks'
      BY <2>1, <2>2 DEF IInv, FreshLinks
    <2> QED
      BY <2>3, <2>4
  <1> QED
    BY <1>0, <1>1, <1>1a, <1>3, <1>4 DEF IInv

\* Process taking the head of the internal, else the external list keeps the invariant.
LEMMA ProcessDequeueStep ==
    ASSUME IInv, ProcessDequeue
    PROVE  IInv'
  <1> USE ConstantsAssumption
  <1>1. CASE \E q \in Queues : head[q] # NULL /\ dequeue(q)
             /\ pc' = [pc EXCEPT ![Consumer] = "release"]
    <2> PICK q \in Queues : head[q] # NULL /\ dequeue(q)
                            /\ pc' = [pc EXCEPT ![Consumer] = "release"]
      BY <1>1
    <2>1. fifo[q] \in Seq(Msgs) /\ Len(fifo[q]) \in Nat /\ Len(fifo[q]) > 0
      BY DEF IInv, TypeOK, ListIsFifo
    <2>2. /\ fifo'[q] \in Seq(Msgs)
          /\ Len(fifo'[q]) = Len(fifo[q]) - 1
          /\ \A i \in 1..(Len(fifo[q]) - 1) : fifo'[q][i] = fifo[q][i + 1]
          /\ \A r \in Queues : r # q => fifo'[r] = fifo[r]
      BY <2>1, TailIndexed DEF IInv, TypeOK, dequeue
    <2>3. fifo' \in [Queues -> Seq(Msgs)]
      BY <2>1, <2>2 DEF IInv, TypeOK, dequeue
    <2>4. cur' = fifo[q][1] /\ cur' \in live /\ cur' \in Msgs
      BY <2>1 DEF IInv, TypeOK, ListIsFifo, MessagesDisjoint, dequeue
    <2>5. TypeOK'
      BY <2>3, <2>4 DEF IInv, TypeOK, ProcessDequeue, dequeue, Threads, ConsumerPCs
    <2>6. Control' /\ CurInv'
      BY <2>4 DEF IInv, ProcessDequeue, TypeOK, Control, CurInv, HoldsMutex, Threads, PostPCs
    <2>7. WakeupInv'
      BY DEF IInv, ProcessDequeue, TypeOK, WakeupInv, Threads
    <2>8. \A u \in Threads : Posting(u)' <=> Posting(u)
      BY DEF IInv, TypeOK, ProcessDequeue, Posting, Threads
    <2>9. \A r \in Queues : \A i \in 1..Len(fifo'[r]) :
             \/ r # q /\ i \in 1..Len(fifo[r]) /\ fifo'[r][i] = fifo[r][i]
             \/ r = q /\ i + 1 \in 1..Len(fifo[r]) /\ fifo'[r][i] = fifo[r][i + 1]
      <3> SUFFICES ASSUME NEW r \in Queues, NEW i \in 1..Len(fifo'[r])
                   PROVE  \/ r # q /\ i \in 1..Len(fifo[r]) /\ fifo'[r][i] = fifo[r][i]
                          \/ r = q /\ i + 1 \in 1..Len(fifo[r]) /\ fifo'[r][i] = fifo[r][i + 1]
        OBVIOUS
      <3>1. CASE r # q
        BY <2>2, <3>1
      <3>2. CASE r = q
        BY <2>1, <2>2, <3>2
      <3> QED
        BY <3>1, <3>2
    <2>10. ListIsFifo'
      <3> SUFFICES ASSUME NEW r \in Queues
                   PROVE  LET k == Len(fifo'[r]) IN
                          /\ k = 0 => head'[r] = NULL
                          /\ k > 0 => /\ head'[r] = fifo'[r][1]
                                      /\ tail'[r] = fifo'[r][k]
                                      /\ next'[fifo'[r][k]] = NULL
                          /\ \A i \in 1..k : i < k => next'[fifo'[r][i]] = fifo'[r][i + 1]
        BY DEF ListIsFifo
      <3>0. next' = next /\ tail' = tail
        BY DEF ProcessDequeue
      <3>1. CASE r # q
        BY <2>2, <3>0, <3>1 DEF IInv, TypeOK, ListIsFifo, dequeue
      <3>2. CASE r = q
        <4> DEFINE n == Len(fifo[q])
        <4>1. head[q] = fifo[q][1] /\ head'[q] = next[fifo[q][1]]
          BY <2>1 DEF IInv, TypeOK, ListIsFifo, dequeue
        <4>2. n = 1 => head'[q] = NULL
          BY <2>1, <4>1 DEF IInv, ListIsFifo
        <4>3. n > 1 => /\ head'[q] = fifo[q][2]
                       /\ tail[q] = fifo[q][n]
                       /\ next[fifo[q][n]] = NULL
          BY <2>1, <4>1 DEF IInv, ListIsFifo
        <4>4. \A i \in 1..n : i < n => next[fifo[q][i]] = fifo[q][i + 1]
          BY DEF IInv, ListIsFifo
        <4> HIDE DEF n
        <4>5. n \in Nat /\ n > 0 /\ Len(fifo'[q]) = n - 1
              /\ \A i \in 1..(n - 1) : fifo'[q][i] = fifo[q][i + 1]
          BY <2>1, <2>2 DEF n
        <4>6. ASSUME NEW i \in 1..(n - 1), i < n - 1
              PROVE  next[fifo'[q][i]] = fifo'[q][i + 1]
          <5>1. i + 1 \in 1..(n - 1) /\ i + 1 \in 1..n /\ i + 1 < n
            BY <4>5, <4>6
          <5>2. fifo'[q][i] = fifo[q][i + 1] /\ fifo'[q][i + 1] = fifo[q][(i + 1) + 1]
            BY <4>5, <5>1
          <5> QED
            BY <4>4, <5>1, <5>2
        <4>7. n > 1 => fifo'[q][1] = fifo[q][2] /\ fifo'[q][n - 1] = fifo[q][n]
          BY <4>5
        <4> QED
          BY <3>0, <3>2, <4>2, <4>3, <4>5, <4>6, <4>7
      <3> QED
        BY <3>1, <3>2
    <2>11. FreshLinks'
      BY <2>8 DEF IInv, FreshLinks, ProcessDequeue
    <2>12. MessagesDisjoint'
      <3>1. \A r \in Queues : \A i \in 1..Len(fifo'[r]) :
               /\ fifo'[r][i] \in live
               /\ \A u \in Threads : Posting(u) => item[u] # fifo'[r][i]
        BY <2>9 DEF IInv, MessagesDisjoint
      <3>2. \A r \in Queues : \A i \in 1..Len(fifo'[r]) : fifo'[r][i] # cur'
        <4>1. 1 \in 1..Len(fifo[q])
          BY <2>1
        <4> QED
          BY <2>4, <2>9, <4>1 DEF IInv, MessagesDisjoint
      <3>3. ASSUME NEW r \in Queues, NEW i \in 1..Len(fifo'[r]),
                   NEW p \in Queues, NEW j \in 1..Len(fifo'[p]), fifo'[r][i] = fifo'[p][j]
            PROVE  r = p /\ i = j
        <4>1. i \in Int /\ j \in Int
          BY <2>2, <2>3
        <4> QED
          BY <2>9, <3>3, <4>1 DEF IInv, MessagesDisjoint
      <3>4. \A u \in Threads : Posting(u) =>
               /\ item[u] \in live
               /\ item[u] # cur'
               /\ \A w \in Threads : Posting(w) /\ item[u] = item[w] => u = w
        BY <2>1, <2>4 DEF IInv, MessagesDisjoint
      <3> QED
        BY <2>4, <2>8, <3>1, <3>2, <3>3, <3>4 DEF ProcessDequeue, MessagesDisjoint
    <2> QED
      BY <2>5, <2>6, <2>7, <2>10, <2>11, <2>12 DEF IInv
  <1>2. CASE /\ head["internal"] = NULL
             /\ head["external"] = NULL
             /\ pc' = [pc EXCEPT ![Consumer] = "wait"]
             /\ UNCHANGED <<head, cur, fifo>>
    <2>1. \A q \in Queues : head[q] = NULL /\ fifo[q] \in Seq(Msgs)
      BY <1>2 DEF Queues, IInv, TypeOK
    <2>2. ASSUME NEW q \in Queues PROVE Len(fifo[q]) = 0
      <3>1. Len(fifo[q]) \in Nat /\ (Len(fifo[q]) > 0 => fifo[q][1] \in Msgs)
        BY <2>1
      <3>2. Len(fifo[q]) > 0 => head[q] = fifo[q][1]
        BY DEF IInv, ListIsFifo
      <3> QED
        BY <2>1, <3>1, <3>2
    <2>3. \A q \in Queues : fifo[q] = << >>
      BY <2>1, <2>2
    <2>4. TypeOK' /\ Control' /\ CurInv' /\ WakeupInv'
      BY <1>2, <2>3 DEF IInv, ProcessDequeue, TypeOK, Control, CurInv, WakeupInv, HoldsMutex,
             Threads, PostPCs, ConsumerPCs
    <2>5. \A u \in Threads : Posting(u)' <=> Posting(u)
      BY <1>2 DEF IInv, TypeOK, ProcessDequeue, Posting, Threads
    <2> QED
      BY <1>2, <2>4, <2>5, ListsUnchanged DEF IInv, ProcessDequeue
  <1> QED
    BY <1>1, <1>2 DEF ProcessDequeue, Queues

\* Process freeing the message it has handled keeps the invariant: no list names it.
LEMMA ProcessDeleteStep ==
    ASSUME IInv, ProcessDelete
    PROVE  IInv'
  <1> USE ConstantsAssumption
  <1>1. TypeOK' /\ Control' /\ CurInv' /\ WakeupInv'
    BY DEF IInv, ProcessDelete, TypeOK, Control, CurInv, WakeupInv, HoldsMutex,
           Threads, PostPCs, ConsumerPCs
  <1>2. \A u \in Threads : Posting(u)' <=> Posting(u)
    BY DEF IInv, TypeOK, ProcessDelete, Posting, Threads
  <1>3. ListIsFifo' /\ FreshLinks'
    BY <1>2 DEF IInv, ProcessDelete, ListIsFifo, FreshLinks
  <1>4. MessagesDisjoint'
    BY <1>2 DEF IInv, TypeOK, ProcessDelete, MessagesDisjoint
  <1> QED
    BY <1>1, <1>3, <1>4 DEF IInv

----------------------------------------------------------------------------
(* The results *)

\* Every step of the specification keeps the inductive invariant.
LEMMA StepIInv == IInv /\ [Next]_vars => IInv'
  <1> SUFFICES ASSUME IInv, [Next]_vars PROVE IInv'
    OBVIOUS
  <1>1. CASE UNCHANGED vars
    BY <1>1 DEF vars, IInv, TypeOK, Control, CurInv, ListIsFifo, MessagesDisjoint,
                FreshLinks, WakeupInv, HoldsMutex, Posting
  <1>2. CASE \E t \in Threads : PostEvt(t)
    BY <1>2, LockSteps, PostNewStep, PostEnqueueStep, PostUnlockStep DEF PostEvt
  <1>3. CASE Process
    BY <1>3, LockSteps, ProcessDequeueStep, ProcessDeleteStep DEF Process
  <1> QED
    BY <1>1, <1>2, <1>3 DEF Next

\* The inductive invariant holds in every reachable state.
THEOREM Invariance == Spec => []IInv
  BY InitIInv, StepIInv, PTL DEF Spec

\* The variables keep their types.
THEOREM TypeCorrect == Spec => []TypeOK
  BY Invariance, PTL DEF IInv

\* The pointer lists of MessageQueue are the FIFO queues of posted events.
THEOREM ListsAreFifos == Spec => []ListIsFifo
  BY Invariance, PTL DEF IInv

\* A message is in one place at a time and is freed only when it is in none.
THEOREM NoMessageTwice == Spec => []MessagesDisjoint
  BY Invariance, PTL DEF IInv

\* The consumer never sleeps on a non-empty queue once the mutex is free.
THEOREM WakeupsAreKept == Spec => []NoLostWakeup
  <1>1. IInv => NoLostWakeup
    <2> SUFFICES ASSUME IInv, Consumer \in waiting, mutex = None, NEW q \in Queues
                 PROVE  head[q] = NULL
      BY DEF NoLostWakeup
    <2>1. \A t \in Posters : pc[t] # "signal"
      <3> SUFFICES ASSUME NEW t \in Posters, pc[t] = "signal" PROVE FALSE
        OBVIOUS
      <3>1. t \in Threads /\ HoldsMutex(t)
        BY DEF HoldsMutex, Threads
      <3>2. mutex = t
        BY <3>1, Zenon DEF IInv, Control
      <3> QED
        BY <3>2, ConstantsAssumption
    <2>2. fifo[q] = << >>
      BY <2>1, Zenon DEF IInv, WakeupInv
    <2>3. Len(fifo[q]) = 0
      BY <2>2
    <2> QED
      BY <2>3 DEF IInv, ListIsFifo
  <1> QED
    BY <1>1, Invariance, PTL

\* All of it together, for any number of threads, messages and events.
THEOREM QueueStaysSound == Spec => []QueueSound
  <1> QED
    BY TypeCorrect, ListsAreFifos, NoMessageTwice, WakeupsAreKept, PTL DEF QueueSound

----------------------------------------------------------------------------
(* CmdQueue implements EventQueues: enqueue maps to APost, dequeue to ATake, *)
(* the delete to ADone, every other step to a stutter.                       *)

\* Linking a message is a Post of the abstract queues.
LEMMA EnqueueIsPost ==
    ASSUME IInv, NEW t \in Threads, PostEnqueue(t)
    PROVE  Abstract!APost(dest[t], item[t]) /\ item[t] \in Msgs /\ dest[t] \in Queues
  <1>1. Posting(t) /\ item[t] \in Msgs /\ dest[t] \in Queues /\ item[t] # cur
    BY DEF IInv, TypeOK, PostEnqueue, MessagesDisjoint, Posting
  <1>2. \A q \in Queues : \A i \in 1..Len(fifo[q]) : item[t] # fifo[q][i]
    BY <1>1 DEF IInv, MessagesDisjoint
  <1>3. item[t] \notin Abstract!InUse
    BY <1>1, <1>2 DEF Abstract!InUse, Abstract!Queues, Queues
  <1> QED
    BY <1>1, <1>3 DEF Abstract!APost, PostEnqueue

\* Unlinking a message is a Take of the abstract queues, internal events first.
LEMMA DequeueIsTake ==
    ASSUME IInv, ProcessDequeue
    PROVE  (\E q \in Queues : Abstract!ATake(q)) \/ UNCHANGED <<fifo, cur>>
  <1> USE ConstantsAssumption
  <1>1. \A q \in Queues : /\ fifo[q] \in Seq(Msgs)
                          /\ head[q] # NULL => fifo[q] # << >> /\ head[q] = Head(fifo[q])
                          /\ head[q] = NULL => fifo[q] = << >>
    <2> SUFFICES ASSUME NEW q \in Queues
                 PROVE  /\ fifo[q] \in Seq(Msgs)
                        /\ head[q] # NULL => fifo[q] # << >> /\ head[q] = Head(fifo[q])
                        /\ head[q] = NULL => fifo[q] = << >>
      OBVIOUS
    <2>1. fifo[q] \in Seq(Msgs) /\ Len(fifo[q]) \in Nat
      BY DEF IInv, TypeOK
    <2>2. Len(fifo[q]) = 0 => head[q] = NULL
      BY DEF IInv, ListIsFifo
    <2>3. Len(fifo[q]) > 0 => head[q] = fifo[q][1]
      BY DEF IInv, ListIsFifo
    <2>4. Len(fifo[q]) > 0 => fifo[q][1] \in Msgs /\ fifo[q][1] = Head(fifo[q])
      BY <2>1
    <2>5. Len(fifo[q]) = 0 <=> fifo[q] = << >>
      BY <2>1
    <2> QED
      BY <2>1, <2>2, <2>3, <2>4, <2>5
  <1>2. cur = NULL
    BY DEF IInv, CurInv, ProcessDequeue
  <1>3. CASE head["internal"] # NULL /\ dequeue("internal")
    <2>1. Abstract!ATake("internal")
      BY <1>1, <1>2, <1>3 DEF Abstract!ATake, dequeue, Queues
    <2> QED
      BY <2>1 DEF Queues
  <1>4. CASE head["internal"] = NULL /\ head["external"] # NULL /\ dequeue("external")
    <2>1. Abstract!ATake("external")
      BY <1>1, <1>2, <1>4 DEF Abstract!ATake, dequeue, Queues
    <2> QED
      BY <2>1 DEF Queues
  <1> QED
    BY <1>3, <1>4 DEF ProcessDequeue

\* The command queue behaves as two FIFO queues of which the internal one has
\* priority, whatever the threads and the interleaving of their steps.
THEOREM Refinement == Spec => ImplementsEventQueues
  <1>1. Init => Abstract!AInit
    BY DEF Init, Abstract!AInit, Abstract!Queues, Queues
  <1>2. IInv /\ [Next]_vars => [Abstract!ANext]_(Abstract!avars)
    <2> SUFFICES ASSUME IInv, [Next]_vars
                 PROVE  [Abstract!ANext]_(Abstract!avars)
      OBVIOUS
    <2>1. CASE \E t \in Threads : PostEnqueue(t)
      BY <2>1, EnqueueIsPost DEF Abstract!ANext, Abstract!Queues, Queues
    <2>2. CASE ProcessDequeue
      BY <2>2, DequeueIsTake DEF Abstract!ANext, Abstract!avars, Abstract!Queues, Queues
    <2>3. CASE ProcessDelete
      <3>1. cur # NULL
        BY <2>3 DEF IInv, CurInv, ProcessDelete
      <3> QED
        BY <2>3, <3>1 DEF ProcessDelete, Abstract!ANext, Abstract!ADone
    <2>4. CASE UNCHANGED vars
      BY <2>4 DEF vars, Abstract!avars
    <2>5. CASE \E t \in Threads : \/ \E q \in Queues, m \in Msgs : PostNew(t, q, m)
                                 \/ PostLock(t) \/ PostSignal(t) \/ PostUnlock(t)
      BY <2>5 DEF PostNew, PostLock, PostSignal, PostUnlock, Abstract!avars
    <2>6. CASE ProcessLock \/ CondWait \/ SpuriousWakeup \/ CondReturn \/ ProcessUnlock
      BY <2>6 DEF ProcessLock, CondWait, SpuriousWakeup, CondReturn, ProcessUnlock, Abstract!avars
    <2> QED
      BY <2>1, <2>2, <2>3, <2>4, <2>5, <2>6 DEF Next, PostEvt, Process
  <1> QED
    BY <1>1, <1>2, Invariance, PTL DEF Spec, ImplementsEventQueues, Abstract!ASpec
==============================================================================

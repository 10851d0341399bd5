---------------------------- MODULE PowerHalProofs ----------------------------
(***************************************************************************)
(* The power HAL: the INTERACTION boost and the modes.                     *)
(***************************************************************************)
EXTENDS PowerHal, SequenceTheorems, TLAPS

(***************************************************************************)
(* The boost.  For every set of durations and every choice of the          *)
(* handler's limits: the hint follows the state, aborts are neither lost   *)
(* nor left over, and a boost lasts as long as it was asked for.           *)
(***************************************************************************)

(* The inductive invariant *)

\* The event fd is written once per wait, and once more by Exit; the state is
\* WAITING only during a wait.
AbortCount ==
    /\ mState # "UNINITIALIZED" => eventfd <= 1
    /\ owner = "running" <=> mState # "UNINITIALIZED"
    /\ mState = "WAITING" => Waiting

\* What is left of the promise is covered by the boost on record.
PromiseRecorded ==
    /\ promised = 0 \/ promised + elapsed <= mDurationMs
    /\ mState = "IDLE" => promised = 0

\* A wait that nothing has overtaken lasts at least as long as that boost.
WaitLongEnough ==
    mState = "WAITING" =>
    /\ pc \in {"first_poll", "pread", "second_poll"} => timeout_ms = mDurationMs
    /\ pc = "second_poll" => mDurationMs <= elapsed + left
    /\ pc = "release" => ended \in {"idle", "timeout"}
    /\ pc = "release" /\ ended = "timeout" => mDurationMs <= elapsed

IInv ==
    /\ TypeOK
    /\ HintMatchesState
    /\ AbortsExact
    /\ AbortCount
    /\ PromiseRecorded
    /\ WaitLongEnough

\* Every duration is cut to the limits.
LEMMA FinalDurationInTimes ==
    ASSUME NEW d \in Durations
    PROVE  FinalDuration(d) \in Times
  BY InteractionAssumption DEF FinalDuration, Times

\* The thread starts idle, with nothing promised.
LEMMA InitIInv == Init => IInv
  <1> SUFFICES ASSUME Init PROVE IInv
    OBVIOUS
  <1>1. TypeOK
    <2>1. hint \in BOOLEAN /\ idle \in BOOLEAN
      BY Zenon DEF Init
    <2>2. /\ 0 \in Times /\ mMaxDurationMs \in Times /\ 0 \in Waits
      BY InteractionAssumption DEF Times, Waits
    <2> QED
      BY <2>1, <2>2 DEF Init, TypeOK, States
  <1>2. HintMatchesState
    BY Zenon DEF Init, HintMatchesState
  <1>3. AbortsExact /\ AbortCount
    BY DEF Init, AbortsExact, AbortCount, Waiting
  <1>4. PromiseRecorded /\ WaitLongEnough
    BY DEF Init, PromiseRecorded, WaitLongEnough
  <1> QED
    BY <1>1, <1>2, <1>3, <1>4 DEF IInv

\* A request that is not covered is longer than what is left of the promise,
\* so the promise becomes exactly the boost that is recorded.
LEMMA AcquireStep ==
    ASSUME IInv, NEW d \in Durations, Acquire(d)
    PROVE  IInv'
  <1> DEFINE f == FinalDuration(d)
  <1>1. /\ f \in Times /\ f \in Nat
        /\ mMaxDurationMs \in Nat /\ mWaitMs \in Nat
    BY FinalDurationInTimes, InteractionAssumption DEF Times
  <1>2. /\ promised \in Nat /\ elapsed \in Nat /\ mDurationMs \in Nat /\ promised \in Times
    BY <1>1 DEF IInv, TypeOK, Times
  <1> HIDE DEF f
  <1>3. CASE Covered(d)
    <2>1. f <= mDurationMs /\ elapsed <= mDurationMs - f /\ mState # "IDLE"
      BY <1>3 DEF Covered, f
    <2>2. /\ promised' = AtLeast(promised, f)
          /\ UNCHANGED <<mState, mDurationMs, elapsed, eventfd, hint, pc, timeout_ms, left,
                         idle, ended, owner>>
      BY <1>3 DEF Acquire, f
    <2>3. promised' \in Times
      BY <2>2, <1>1, <1>2 DEF AtLeast
    <2>4. PromiseRecorded'
      BY <2>1, <2>2, <1>1, <1>2 DEF IInv, PromiseRecorded, AtLeast
    <2>5. TypeOK'
      BY <2>2, <2>3 DEF IInv, TypeOK
    <2> QED
      BY <2>2, <2>4, <2>5
         DEF IInv, HintMatchesState, AbortsExact, AbortCount, WaitLongEnough, Waiting
  <1>4. CASE ~Covered(d)
    <2>1. mState = "IDLE" \/ ~(f <= mDurationMs) \/ ~(elapsed <= mDurationMs - f)
      BY <1>4 DEF Covered, f
    <2>2. promised <= f
      BY <2>1, <1>1, <1>2 DEF IInv, PromiseRecorded
    <2>3. /\ promised' = f /\ elapsed' = 0 /\ mDurationMs' = f
          /\ eventfd' = IF mState = "WAITING" THEN eventfd + 1 ELSE eventfd
          /\ hint' = (hint \/ mState = "IDLE")
          /\ mState' = "INTERACTION"
          /\ pc' = IF pc = "sleep" THEN "check" ELSE pc
          /\ mState # "UNINITIALIZED" /\ owner = "running"
          /\ UNCHANGED <<timeout_ms, left, idle, ended, owner>>
      BY <2>2, <1>4, <1>1, <1>2 DEF Acquire, AtLeast, Notify, f
    <2>4. TypeOK'
      BY <2>3, <1>1 DEF IInv, TypeOK, Times, States
    <2>5. HintMatchesState'
      BY <2>3 DEF IInv, TypeOK, HintMatchesState, States
    <2>6. AbortCount' /\ eventfd' <= 1 /\ eventfd \in Nat
      BY <2>3 DEF IInv, TypeOK, AbortsExact, AbortCount, Waiting, States
    <2>8. AbortsExact'
      <3>1. CASE Waiting
        BY <3>1, <2>3, <2>6 DEF IInv, AbortsExact, Waiting
      <3>2. CASE ~Waiting
        BY <3>2, <2>3, <2>6 DEF IInv, AbortsExact, AbortCount, Waiting
      <3> QED
        BY <3>1, <3>2
    <2>7. PromiseRecorded' /\ WaitLongEnough'
      BY <2>3, <1>1 DEF PromiseRecorded, WaitLongEnough
    <2> QED
      BY <2>4, <2>5, <2>6, <2>7, <2>8 DEF IInv
  <1> QED
    BY <1>3, <1>4

\* Exit, and the steps of the destructor that follow it.
LEMMA ExitSteps ==
    ASSUME IInv, Exit \/ ExitNotify \/ ExitJoin
    PROVE  IInv'
  <1>1. CASE Exit
    BY <1>1, InteractionAssumption
       DEF Exit, IInv, TypeOK, HintMatchesState, AbortsExact, AbortCount, PromiseRecorded,
           WaitLongEnough, Waiting, States
  <1>2. CASE ExitNotify
    BY <1>2
       DEF ExitNotify, Notify, IInv, TypeOK, HintMatchesState, AbortsExact, AbortCount,
           PromiseRecorded, WaitLongEnough, Waiting, States
  <1>3. CASE ExitJoin
    BY <1>3
       DEF ExitJoin, IInv, TypeOK, HintMatchesState, AbortsExact, AbortCount,
           PromiseRecorded, WaitLongEnough, Waiting, States
  <1> QED
    BY <1>1, <1>2, <1>3

\* The steps of Routine up to the end of a wait.
LEMMA WaitSteps ==
    ASSUME IInv,
           Check \/ SpuriousWakeup \/ WaitForIdle \/ FirstPoll \/ ReadIdle \/ SecondPoll
    PROVE  IInv'
  <1> USE InteractionAssumption
  <1>1. CASE Check
    BY <1>1
       DEF Check, IInv, TypeOK, HintMatchesState, AbortsExact, AbortCount, PromiseRecorded,
           WaitLongEnough, Waiting, States
  <1>2. CASE SpuriousWakeup
    BY <1>2
       DEF SpuriousWakeup, IInv, TypeOK, HintMatchesState, AbortsExact, AbortCount,
           PromiseRecorded, WaitLongEnough, Waiting, States
  <1>3. CASE WaitForIdle
    BY <1>3
       DEF WaitForIdle, IInv, TypeOK, HintMatchesState, AbortsExact, AbortCount,
           PromiseRecorded, WaitLongEnough, Waiting, States, Times, Waits
  <1>4. CASE FirstPoll
    BY <1>4
       DEF FirstPoll, EndWait, IInv, TypeOK, HintMatchesState, AbortsExact, AbortCount,
           PromiseRecorded, WaitLongEnough, Waiting, States
  <1>5. CASE ReadIdle
    BY <1>5
       DEF ReadIdle, EndWait, IInv, TypeOK, HintMatchesState, AbortsExact, AbortCount,
           PromiseRecorded, WaitLongEnough, Waiting, States, Times, Waits
  <1>6. CASE SecondPoll
    BY <1>6
       DEF SecondPoll, EndWait, IInv, TypeOK, HintMatchesState, AbortsExact, AbortCount,
           PromiseRecorded, WaitLongEnough, Waiting, States, Times, Waits
  <1> QED
    BY <1>1, <1>2, <1>3, <1>4, <1>5, <1>6

\* A release either ends the boost or takes the abort note of it.
LEMMA ReleaseStep ==
    ASSUME IInv, Release
    PROVE  IInv'
  <1>1. TypeOK'
    <2>1. mState' \in States /\ eventfd' \in Nat
      BY DEF Release, IInv, TypeOK, States
    <2>3. hint' \in BOOLEAN
      <3>1. hint' = FALSE \/ hint' = hint
        BY Zenon DEF Release
      <3> QED
        BY <3>1, Zenon DEF IInv, TypeOK
    <2>2. promised' \in Times
      <3>1. promised' = promised \/ promised' = 0
        BY Zenon DEF Release
      <3> QED
        BY <3>1, InteractionAssumption DEF IInv, TypeOK, Times
    <2> QED
      BY <2>1, <2>2, <2>3 DEF Release, IInv, TypeOK
  <1>2. HintMatchesState'
    BY DEF Release, IInv, TypeOK, HintMatchesState, States
  <1>3. AbortsExact' /\ AbortCount'
    BY DEF Release, IInv, TypeOK, AbortsExact, AbortCount, Waiting, States
  <1>4. PromiseRecorded' /\ WaitLongEnough'
    BY DEF Release, IInv, TypeOK, HintMatchesState, PromiseRecorded, WaitLongEnough, Waiting, States
  <1> QED
    BY <1>1, <1>2, <1>3, <1>4 DEF IInv

\* The display changes nothing of this; time uses up the promise and the wait
\* at the same rate.
LEMMA EnvironmentSteps ==
    ASSUME IInv, Display \/ Tick
    PROVE  IInv'
  <1>1. CASE Display
    BY <1>1
       DEF Display, IInv, TypeOK, HintMatchesState, AbortsExact, AbortCount,
           PromiseRecorded, WaitLongEnough, Waiting
  <1>2. CASE Tick
    <2>1. /\ mMaxDurationMs \in Nat /\ mWaitMs \in Nat
          /\ promised \in 0..mMaxDurationMs /\ elapsed \in 0..mMaxDurationMs
          /\ mDurationMs \in 0..mMaxDurationMs /\ left \in 0..(mMaxDurationMs + mWaitMs)
      BY InteractionAssumption DEF IInv, TypeOK, Times, Waits
    <2>2. /\ elapsed' = IF elapsed + 1 < mMaxDurationMs THEN elapsed + 1 ELSE mMaxDurationMs
          /\ left' = IF left = 0 THEN 0 ELSE left - 1
          /\ promised' = IF promised = 0 THEN 0 ELSE promised - 1
          /\ UNCHANGED <<mState, mDurationMs, eventfd, hint, pc, timeout_ms, idle, ended, owner>>
      BY <1>2 DEF Tick, AtMost, Earlier
    <2>3. /\ elapsed' \in 0..mMaxDurationMs /\ promised' \in 0..mMaxDurationMs
          /\ left' \in 0..(mMaxDurationMs + mWaitMs)
      BY <2>1, <2>2
    <2>4. TypeOK'
      BY <2>2, <2>3 DEF IInv, TypeOK, Times, Waits
    <2>5. PromiseRecorded'
      BY <2>1, <2>2 DEF IInv, PromiseRecorded
    <2>6. WaitLongEnough'
      BY <2>1, <2>2 DEF IInv, WaitLongEnough
    <2> QED
      BY <2>2, <2>4, <2>5, <2>6
         DEF IInv, HintMatchesState, AbortsExact, AbortCount, Waiting
  <1> QED
    BY <1>1, <1>2

\* Every step preserves the invariant.
LEMMA StepIInv == IInv /\ [Next]_vars => IInv'
  <1> SUFFICES ASSUME IInv, [Next]_vars PROVE IInv'
    OBVIOUS
  <1>1. ASSUME NEW d \in Durations, Acquire(d) PROVE IInv'
    BY <1>1, AcquireStep
  <1>2. CASE Exit \/ ExitNotify \/ ExitJoin
    BY <1>2, ExitSteps
  <1>3. CASE Check \/ SpuriousWakeup \/ WaitForIdle \/ FirstPoll \/ ReadIdle \/ SecondPoll
    BY <1>3, WaitSteps
  <1>4. CASE Release
    BY <1>4, ReleaseStep
  <1>5. CASE Display \/ Tick
    BY <1>5, EnvironmentSteps
  <1>6. CASE UNCHANGED vars
    BY <1>6
       DEF vars, IInv, TypeOK, HintMatchesState, AbortsExact, AbortCount, PromiseRecorded,
           WaitLongEnough, Waiting
  <1> QED
    BY <1>1, <1>2, <1>3, <1>4, <1>5, <1>6 DEF Next, RoutineStep

\* The invariant holds in every reachable state.
LEMMA Invariance == Spec => []IInv
  BY InitIInv, StepIInv, PTL DEF Spec

\* Type correctness, for every set of durations and all limits.
THEOREM TypeCorrect == Spec => []TypeOK
  <1>1. IInv => TypeOK
    BY DEF IInv
  <1> QED
    BY <1>1, Invariance, PTL

\* The INTERACTION hint is active exactly in the states INTERACTION and WAITING.
THEOREM HintFollowsState == Spec => []HintMatchesState
  <1>1. IInv => HintMatchesState
    BY DEF IInv
  <1> QED
    BY <1>1, Invariance, PTL

\* The event fd aborts the wait that an Acquire or Exit has overtaken, and no
\* other.
THEOREM AbortsAreExact == Spec => []AbortsExact
  <1>1. IInv => AbortsExact
    BY DEF IInv
  <1> QED
    BY <1>1, Invariance, PTL

\* The hint, the state and the event fd agree, for every duration and bound.
THEOREM HandlerStaysSound == Spec => []HandlerSound
  <1> QED
    BY TypeCorrect, HintFollowsState, AbortsAreExact, PTL DEF HandlerSound

\* Release drops the boost only when the display was idle or when every
\* request, covered ones included, has had its time.
THEOREM BoostsLast == Spec => BoostLasts
  <1>1. IInv /\ [Next]_vars => [hint /\ ~hint' => ended = "idle" \/ promised = 0]_vars
    <2> SUFFICES ASSUME IInv, Next, hint, ~hint'
                 PROVE  ended = "idle" \/ promised = 0
      BY Zenon DEF vars
    <2>1. ASSUME NEW d \in Durations, Acquire(d) PROVE FALSE
      BY <2>1 DEF Acquire
    <2>2. CASE Release
      <3>1. mState = "WAITING" /\ pc = "release"
        BY <2>2 DEF Release
      <3>2. ended \in {"idle", "timeout"} /\ (ended = "timeout" => mDurationMs <= elapsed)
        BY <3>1 DEF IInv, WaitLongEnough
      <3> QED
        BY <3>2, InteractionAssumption DEF IInv, TypeOK, PromiseRecorded, Times
    <2> QED
      BY <2>1, <2>2
         DEF Next, RoutineStep, Exit, ExitNotify, ExitJoin, Check, SpuriousWakeup,
             WaitForIdle, FirstPoll, ReadIdle, SecondPoll, Display, Tick
  <1> QED
    BY <1>1, Invariance, PTL DEF Spec, BoostLasts

(***************************************************************************)
(* The modes, over any sequence of calls, expiries and deaths.  A call in  *)
(* progress is a sequence of operations, so what holds between calls is    *)
(* stated during one as what the rest of it leads to: performing an        *)
(* operation moves towards that and does not change it.                    *)
(***************************************************************************)

AllHints == Modes!ModeHints \cup Modes!Timed \cup {"VIDEO_ENCODE", "AUDIO_LOW_LATENCY"}
StateProps == Modes!ModeHints \cup {"", "VIDEO_ENCODE"}
AudioProps == {"", "LOW_LATENCY"}

Op == ({"DoHint", "EndHint"} \X AllHints)
      \cup ({"state"} \X StateProps) \cup ({"audio"} \X AudioProps)
      \cup ({"vr", "sustained", "encoder", "ready"} \X BOOLEAN)

(* Where the operations s lead to *)

\* Hint h is active after s, if the hints H are active before.
HintAfter(s, H, h) ==
    \/ \E i \in 1..Len(s) :
        s[i] = Modes!Do(h) /\ \A j \in (i + 1)..Len(s) : s[j] # Modes!End(h)
    \/ h \in H /\ \A i \in 1..Len(s) : s[i] # Modes!End(h)

\* What the operations of kind k set is v after s, if it is now before.
LeadsTo(s, k, now, v) ==
    \/ \E i \in 1..Len(s) : s[i] = <<k, v>> /\ \A j \in (i + 1)..Len(s) : s[j][1] # k
    \/ now = v /\ \A i \in 1..Len(s) : s[i][1] # k

\* The modes that a value of vendor.powerhal.state stands for.
Remembered(st) ==
    CASE st = "VR_MODE" -> <<TRUE, FALSE>>
      [] st = "SUSTAINED_PERFORMANCE" -> <<FALSE, TRUE>>
      [] st = "VR_SUSTAINED_PERFORMANCE" -> <<TRUE, TRUE>>
      [] OTHER -> <<FALSE, FALSE>>

HintsOf(vr, su) ==
    IF vr /\ su THEN {"VR_SUSTAINED_PERFORMANCE"}
    ELSE IF vr THEN {"VR_MODE"} ELSE IF su THEN {"SUSTAINED_PERFORMANCE"} ELSE {}

(* The inductive invariant: what holds of the operations s that are left to do, and
   of the modes A that a restart may bring back *)

\* The flags are set at the end of a call, and ready at the end of a restart.
FlagsLast(s) ==
    \A i \in 1..Len(s) :
        s[i][1] = "ready" \/ (mReady /\ s[i][1] \in {"vr", "sustained"}) => i = Len(s)

\* A death at any point of them brings back modes that are allowed.
DeathSafe(s, A) ==
    /\ Remembered(state_prop) \in A
    /\ \A i \in 1..Len(s) : s[i][1] = "state" => Remembered(s[i][2]) \in A

\* They lead to flags, a hint and a property that agree on the modes.
ModesAgree(s, A, vr, su, st) ==
    /\ LeadsTo(s, "vr", mVRModeOn, vr) /\ LeadsTo(s, "sustained", mSustainedPerfModeOn, su)
    /\ LeadsTo(s, "state", state_prop, st)
    /\ Remembered(st) = <<vr, su>> /\ <<vr, su>> \in A
    /\ \A h \in Modes!ModeHints : HintAfter(s, hints, h) <=> h \in HintsOf(vr, su)

AudioAgree(s) ==
    HintAfter(s, hints, "AUDIO_LOW_LATENCY") <=> LeadsTo(s, "audio", audio_prop, "LOW_LATENCY")

Prepared(s, A) ==
    /\ s \in Seq(Op) /\ Len(s) <= 5
    /\ FlagsLast(s)
    /\ DeathSafe(s, A)
    /\ \E vr, su \in BOOLEAN, st \in StateProps : ModesAgree(s, A, vr, su, st)
    /\ AudioAgree(s)

ModesInv == Modes!TypeOK /\ Prepared(todo, allowed)

\* s may be followed by an operation that has to be the last one.
NotYet(s) ==
    \A i \in 1..Len(s) :
        s[i][1] # "ready" /\ (mReady => s[i][1] \notin {"vr", "sustained"})

----------------------------------------------------------------------------
(* Where operations lead to, one operation at a time *)

\* The empty sequence leads nowhere.
LEMMA AfterNothing ==
    ASSUME NEW H, NEW h, NEW k, NEW now, NEW v
    PROVE  /\ HintAfter(<< >>, H, h) <=> h \in H
           /\ LeadsTo(<< >>, k, now, v) <=> now = v
  BY DEF HintAfter, LeadsTo

\* Indices of the tail of a sequence.
LEMMA TailFacts ==
    ASSUME NEW S, NEW s \in Seq(S), s # << >>
    PROVE  /\ Head(s) = s[1] /\ Head(s) \in S
           /\ Tail(s) \in Seq(S)
           /\ Len(s) \in Nat /\ Len(s) >= 1
           /\ Len(Tail(s)) = Len(s) - 1
           /\ \A i \in 1..Len(s) : s[i] \in S
           /\ \A i \in 1..Len(Tail(s)) : Tail(s)[i] = s[i + 1]
           /\ Len(s) = 1 => Tail(s) = << >>
  <1>1. Len(s) \in Nat /\ Len(s) # 0 /\ \A i \in 1..Len(s) : s[i] \in S
    OBVIOUS
  <1>2. /\ Head(s) = s[1] /\ Tail(s) \in Seq(S) /\ Len(Tail(s)) = Len(s) - 1
        /\ \A i \in 1..Len(Tail(s)) : Tail(s)[i] = s[i + 1]
    OBVIOUS
  <1>3. \A r \in Seq(S) : Len(r) = 0 => r = << >>
    BY EmptySeq
  <1>4. ASSUME Len(s) = 1 PROVE Tail(s) = << >>
    <2>1. Len(Tail(s)) = 0
      BY <1>2, <1>4
    <2> QED
      BY <1>2, <1>3, <2>1, Zenon
  <1> QED
    BY <1>1, <1>2, <1>4

\* An operation on a hint comes first, or the rest of the operations decides.
LEMMA HintAfterStep ==
    ASSUME NEW s \in Seq(Op), s # << >>, NEW H, NEW K, NEW h,
           IF Head(s) = Modes!Do(h) THEN h \in K
           ELSE IF Head(s) = Modes!End(h) THEN h \notin K ELSE h \in K <=> h \in H
    PROVE  HintAfter(s, H, h) <=> HintAfter(Tail(s), K, h)
  <1> DEFINE t == Tail(s)
             n == Len(s)
  <1>1. /\ n \in Nat /\ n >= 1 /\ Len(t) = n - 1 /\ Head(s) = s[1]
        /\ \A i \in 1..Len(t) : t[i] = s[i + 1]
    BY TailFacts
  <1>2. Modes!Do(h) # Modes!End(h)
    BY DEF Modes!Do, Modes!End
  <1> HIDE DEF t, n
  <1>3. \A i \in 2..n : i - 1 \in 1..Len(t) /\ t[i - 1] = s[i]
    BY <1>1
  <1>4. ASSUME HintAfter(s, H, h) PROVE HintAfter(t, K, h)
    <2>1. CASE h \in H /\ \A i \in 1..n : s[i] # Modes!End(h)
      <3>1. h \in K
        BY <2>1, <1>1
      <3>2. \A i \in 1..Len(t) : t[i] # Modes!End(h)
        BY <2>1, <1>1
      <3> QED
        BY <3>1, <3>2 DEF HintAfter
    <2>2. ASSUME NEW i \in 1..n, s[i] = Modes!Do(h),
                 \A j \in (i + 1)..n : s[j] # Modes!End(h)
          PROVE  HintAfter(t, K, h)
      <3>1. CASE i = 1
        <4>1. h \in K
          BY <2>2, <3>1, <1>1
        <4>2. \A j \in 1..Len(t) : t[j] # Modes!End(h)
          BY <2>2, <3>1, <1>1
        <4> QED
          BY <4>1, <4>2 DEF HintAfter
      <3>2. CASE i # 1
        <4>1. i - 1 \in 1..Len(t) /\ t[i - 1] = Modes!Do(h)
          BY <2>2, <3>2, <1>1, <1>3
        <4>2. \A j \in ((i - 1) + 1)..Len(t) : t[j] # Modes!End(h)
          BY <2>2, <3>2, <1>1
        <4> QED
          BY <4>1, <4>2 DEF HintAfter
      <3> QED
        BY <3>1, <3>2
    <2> QED
      BY <2>1, <2>2, <1>4 DEF HintAfter, n
  <1>5. ASSUME HintAfter(t, K, h) PROVE HintAfter(s, H, h)
    <2>1. CASE h \in K /\ \A i \in 1..Len(t) : t[i] # Modes!End(h)
      <3>1. \A i \in 2..n : s[i] # Modes!End(h)
        BY <2>1, <1>3
      <3>2. CASE s[1] = Modes!Do(h)
        <4>1. 1 \in 1..n /\ \A j \in (1 + 1)..n : s[j] # Modes!End(h)
          BY <3>1, <1>1
        <4> QED
          BY <4>1, <3>2 DEF HintAfter, n
      <3>3. CASE s[1] # Modes!Do(h)
        <4>1. h \in H /\ s[1] # Modes!End(h)
          BY <2>1, <3>3, <1>1
        <4>2. \A i \in 1..n : s[i] # Modes!End(h)
          BY <3>1, <4>1, <1>1
        <4> QED
          BY <4>1, <4>2 DEF HintAfter, n
      <3> QED
        BY <3>2, <3>3
    <2>2. ASSUME NEW i \in 1..Len(t), t[i] = Modes!Do(h),
                 \A j \in (i + 1)..Len(t) : t[j] # Modes!End(h)
          PROVE  HintAfter(s, H, h)
      <3>1. i + 1 \in 1..n /\ s[i + 1] = Modes!Do(h)
        BY <2>2, <1>1
      <3>2. ASSUME NEW j \in ((i + 1) + 1)..n PROVE s[j] # Modes!End(h)
        <4>1. j - 1 \in (i + 1)..Len(t) /\ s[j] = t[j - 1]
          BY <1>1, <1>3
        <4> QED
          BY <2>2, <4>1
      <3> QED
        BY <3>1, <3>2 DEF HintAfter, n
    <2> QED
      BY <2>1, <2>2, <1>5 DEF HintAfter
  <1>6. HintAfter(s, H, h) <=> HintAfter(t, K, h)
    BY <1>4, <1>5
  <1> QED
    BY <1>6 DEF t

\* The same for what an operation of kind k sets.
LEMMA LeadsToStep ==
    ASSUME NEW s \in Seq(Op), s # << >>, NEW k, NEW now, NEW then, NEW v,
           IF Head(s)[1] = k THEN then = Head(s)[2] ELSE then = now
    PROVE  LeadsTo(s, k, now, v) <=> LeadsTo(Tail(s), k, then, v)
  <1> DEFINE t == Tail(s)
             n == Len(s)
  <1>1. /\ n \in Nat /\ n >= 1 /\ Len(t) = n - 1 /\ Head(s) = s[1]
        /\ \A i \in 1..Len(t) : t[i] = s[i + 1]
    BY TailFacts
  <1>2. s[1] = <<s[1][1], s[1][2]>>
    <2>1. s[1] \in Op
      BY <1>1, TailFacts
    <2> QED
      BY <2>1 DEF Op
  <1> HIDE DEF t, n
  <1>3. \A i \in 2..n : i - 1 \in 1..Len(t) /\ t[i - 1] = s[i]
    BY <1>1
  <1>4. ASSUME LeadsTo(s, k, now, v) PROVE LeadsTo(t, k, then, v)
    <2>1. CASE now = v /\ \A i \in 1..n : s[i][1] # k
      <3>1. then = v
        BY <2>1, <1>1
      <3>2. \A i \in 1..Len(t) : t[i][1] # k
        BY <2>1, <1>1
      <3> QED
        BY <3>1, <3>2 DEF LeadsTo
    <2>2. ASSUME NEW i \in 1..n, s[i] = <<k, v>>, \A j \in (i + 1)..n : s[j][1] # k
          PROVE  LeadsTo(t, k, then, v)
      <3>1. CASE i = 1
        <4>1. then = v
          BY <2>2, <3>1, <1>1
        <4>2. \A j \in 1..Len(t) : t[j][1] # k
          BY <2>2, <3>1, <1>1
        <4> QED
          BY <4>1, <4>2 DEF LeadsTo
      <3>2. CASE i # 1
        <4>1. i - 1 \in 1..Len(t) /\ t[i - 1] = <<k, v>>
          BY <2>2, <3>2, <1>1, <1>3
        <4>2. \A j \in ((i - 1) + 1)..Len(t) : t[j][1] # k
          BY <2>2, <3>2, <1>1
        <4> QED
          BY <4>1, <4>2 DEF LeadsTo
      <3> QED
        BY <3>1, <3>2
    <2> QED
      BY <2>1, <2>2, <1>4 DEF LeadsTo, n
  <1>5. ASSUME LeadsTo(t, k, then, v) PROVE LeadsTo(s, k, now, v)
    <2>1. CASE then = v /\ \A i \in 1..Len(t) : t[i][1] # k
      <3>1. \A i \in 2..n : s[i][1] # k
        BY <2>1, <1>3
      <3>2. CASE s[1][1] = k
        <4>1. 1 \in 1..n /\ \A j \in (1 + 1)..n : s[j][1] # k
          BY <3>1, <1>1
        <4>2. s[1] = <<k, v>>
          BY <3>2, <2>1, <1>1, <1>2
        <4> QED
          BY <4>1, <4>2 DEF LeadsTo, n
      <3>3. CASE s[1][1] # k
        <4>1. now = v
          BY <2>1, <3>3, <1>1
        <4>2. \A i \in 1..n : s[i][1] # k
          BY <3>1, <3>3, <1>1
        <4> QED
          BY <4>1, <4>2 DEF LeadsTo, n
      <3> QED
        BY <3>2, <3>3
    <2>2. ASSUME NEW i \in 1..Len(t), t[i] = <<k, v>>, \A j \in (i + 1)..Len(t) : t[j][1] # k
          PROVE  LeadsTo(s, k, now, v)
      <3>1. i + 1 \in 1..n /\ s[i + 1] = <<k, v>>
        BY <2>2, <1>1
      <3>2. ASSUME NEW j \in ((i + 1) + 1)..n PROVE s[j][1] # k
        <4>1. j - 1 \in (i + 1)..Len(t) /\ s[j] = t[j - 1]
          BY <1>1, <1>3
        <4> QED
          BY <2>2, <4>1
      <3> QED
        BY <3>1, <3>2 DEF LeadsTo, n
    <2> QED
      BY <2>1, <2>2, <1>5 DEF LeadsTo
  <1>6. LeadsTo(s, k, now, v) <=> LeadsTo(t, k, then, v)
    BY <1>4, <1>5
  <1> QED
    BY <1>6 DEF t

\* One more operation at the end has the last word on what it sets.
LEMMA OneMore ==
    ASSUME NEW s \in Seq(Op), NEW o \in Op
    PROVE  LET t == s \o <<o>>
           IN  /\ t \in Seq(Op) /\ Len(t) = Len(s) + 1 /\ t[Len(t)] = o
               /\ \A i \in 1..Len(s) : t[i] = s[i]
               /\ \A H, h : HintAfter(t, H, h) <=>
                    o = Modes!Do(h) \/ (o # Modes!End(h) /\ HintAfter(s, H, h))
               /\ \A k, now, v : LeadsTo(t, k, now, v) <=>
                    IF o[1] = k THEN o[2] = v ELSE LeadsTo(s, k, now, v)
  <1> DEFINE t == s \o <<o>>
             n == Len(s)
  <1>1. /\ t \in Seq(Op) /\ n \in Nat /\ Len(t) = n + 1 /\ t[n + 1] = o
        /\ \A i \in 1..n : t[i] = s[i]
    OBVIOUS
  <1>2. o = <<o[1], o[2]>>
    BY DEF Op
  <1> HIDE DEF t, n
  <1>3. 1..Len(t) = 1..n \cup {n + 1} /\ (n + 1) + 1..Len(t) = {}
    BY <1>1
  <1>4. \A i \in 1..n : (i + 1)..Len(t) = (i + 1)..n \cup {n + 1}
    BY <1>1
  <1>5. \A i \in 1..n : \A j \in (i + 1)..n : j \in 1..n
    BY <1>1
  <1>6. ASSUME NEW H, NEW h
        PROVE  HintAfter(t, H, h) <=>
                 o = Modes!Do(h) \/ (o # Modes!End(h) /\ HintAfter(s, H, h))
    <2>1. Modes!Do(h) # Modes!End(h)
      BY DEF Modes!Do, Modes!End
    <2>2. CASE o = Modes!Do(h)
      <3>1. n + 1 \in 1..Len(t) /\ t[n + 1] = Modes!Do(h)
            /\ \A j \in (n + 1) + 1..Len(t) : t[j] # Modes!End(h)
        BY <2>2, <1>1, <1>3
      <3> QED
        BY <3>1, <2>2 DEF HintAfter
    <2>3. CASE o = Modes!End(h)
      <3>1. ~ HintAfter(t, H, h)
        BY <2>1, <2>3, <1>1, <1>3, <1>4, Zenon DEF HintAfter
      <3> QED
        BY <3>1, <2>1, <2>3
    <2>4. CASE o # Modes!Do(h) /\ o # Modes!End(h)
      <3>1. (\A i \in 1..Len(t) : t[i] # Modes!End(h)) <=> \A i \in 1..n : s[i] # Modes!End(h)
        BY <2>4, <1>1, <1>3
      <3>2. \A i \in 1..n : (\A j \in (i + 1)..Len(t) : t[j] # Modes!End(h))
                             <=> \A j \in (i + 1)..n : s[j] # Modes!End(h)
        BY <2>4, <1>1, <1>4, <1>5
      <3>3. HintAfter(t, H, h) <=> HintAfter(s, H, h)
        BY <3>1, <3>2, <2>4, <1>1, <1>3 DEF HintAfter, n
      <3> QED
        BY <3>3, <2>4
    <2> QED
      BY <2>2, <2>3, <2>4
  <1>7. ASSUME NEW k, NEW now, NEW v
        PROVE  LeadsTo(t, k, now, v) <=> IF o[1] = k THEN o[2] = v ELSE LeadsTo(s, k, now, v)
    <2>1. CASE o[1] = k /\ o[2] = v
      <3>1. n + 1 \in 1..Len(t) /\ t[n + 1] = <<k, v>>
            /\ \A j \in (n + 1) + 1..Len(t) : t[j][1] # k
        BY <2>1, <1>1, <1>2, <1>3
      <3> QED
        BY <3>1, <2>1 DEF LeadsTo
    <2>2. CASE o[1] = k /\ o[2] # v
      <3>1. o # <<k, v>>
        BY <2>2
      <3>2. ~ LeadsTo(t, k, now, v)
        BY <3>1, <2>2, <1>1, <1>3, <1>4, Zenon DEF LeadsTo
      <3> QED
        BY <3>2, <2>2
    <2>3. CASE o[1] # k
      <3>1. o # <<k, v>>
        BY <2>3
      <3>2. (\A i \in 1..Len(t) : t[i][1] # k) <=> \A i \in 1..n : s[i][1] # k
        BY <2>3, <1>1, <1>3
      <3>3. \A i \in 1..n : (\A j \in (i + 1)..Len(t) : t[j][1] # k)
                             <=> \A j \in (i + 1)..n : s[j][1] # k
        BY <2>3, <1>1, <1>4, <1>5
      <3>4. LeadsTo(t, k, now, v) <=> LeadsTo(s, k, now, v)
        BY <3>1, <3>2, <3>3, <2>3, <1>1, <1>3 DEF LeadsTo, n
      <3> QED
        BY <3>4, <2>3
    <2> QED
      BY <2>1, <2>2, <2>3
  <1> QED
    BY <1>1, <1>6, <1>7 DEF t, n

\* One more operation keeps the order of the flags and the safety of deaths.
LEMMA OneMoreSafe ==
    ASSUME NEW s \in Seq(Op), NEW o \in Op, NEW A, NotYet(s), DeathSafe(s, A),
           o[1] = "state" => Remembered(o[2]) \in A
    PROVE  /\ FlagsLast(s \o <<o>>) /\ DeathSafe(s \o <<o>>, A)
           /\ o[1] # "ready" /\ (mReady => o[1] \notin {"vr", "sustained"})
                => NotYet(s \o <<o>>)
  <1> DEFINE t == s \o <<o>>
             n == Len(s)
  <1>1. /\ n \in Nat /\ Len(t) = n + 1 /\ t[n + 1] = o /\ \A i \in 1..n : t[i] = s[i]
    OBVIOUS
  <1> HIDE DEF t, n
  <1>2. 1..Len(t) = 1..n \cup {n + 1}
    BY <1>1
  <1>3. FlagsLast(t)
    BY <1>1, <1>2 DEF FlagsLast, NotYet, n
  <1>4. DeathSafe(t, A)
    BY <1>1, <1>2 DEF DeathSafe, n
  <1>5. o[1] # "ready" /\ (mReady => o[1] \notin {"vr", "sustained"}) => NotYet(t)
    BY <1>1, <1>2 DEF NotYet, n
  <1> QED
    BY <1>3, <1>4, <1>5 DEF t

\* The sequences of the model, one operation after the other.
LEMMA TwoOps ==
    ASSUME NEW a, NEW b
    PROVE  (<< >> \o <<a>>) \o <<b>> = <<a, b>>
  <1> DEFINE S == {a, b}
             x == <<a, b>>
             y == (<< >> \o <<a>>) \o <<b>>
  <1>1. x \in Seq(S) /\ y \in Seq(S) /\ Len(x) = 2 /\ Len(y) = 2
    OBVIOUS
  <1>2. x[1] = a /\ x[2] = b /\ y[1] = a /\ y[2] = b
    OBVIOUS
  <1>3. \A i \in 1..Len(x) : x[i] = y[i]
    BY <1>1, <1>2
  <1> HIDE DEF x, y, S
  <1>4. x = y
    BY <1>1, <1>3, SeqEqual
  <1> QED
    BY <1>4 DEF x, y

\* The same with three operations.
LEMMA ThreeOps ==
    ASSUME NEW a, NEW b, NEW c
    PROVE  /\ ((<< >> \o <<a>>) \o <<b>>) \o <<c>> = <<a, b, c>>
           /\ <<a, b>> \o <<c>> = <<a, b, c>>
  <1> DEFINE S == {a, b, c}
             x == <<a, b, c>>
             y == <<a, b>> \o <<c>>
  <1>1. x \in Seq(S) /\ y \in Seq(S) /\ Len(x) = 3 /\ Len(y) = 3
    OBVIOUS
  <1>2. x[1] = a /\ x[2] = b /\ x[3] = c /\ y[1] = a /\ y[2] = b /\ y[3] = c
    OBVIOUS
  <1>3. \A i \in 1..Len(x) : x[i] = y[i]
    BY <1>1, <1>2
  <1> HIDE DEF x, y, S
  <1>4. x = y
    BY <1>1, <1>3, SeqEqual
  <1> QED
    BY <1>4, TwoOps, Zenon DEF x, y


----------------------------------------------------------------------------
(* The calls and the restart, built operation by operation *)

Tracked == Modes!ModeHints \cup {"AUDIO_LOW_LATENCY"}

\* The operations s lead to flags vr and su, properties st and au, and of the hints
\* that count to those in M.
Outcome(s, A, vr, su, st, au, M) ==
    /\ s \in Seq(Op) /\ FlagsLast(s) /\ DeathSafe(s, A)
    /\ \A v : LeadsTo(s, "vr", mVRModeOn, v) <=> v = vr
    /\ \A v : LeadsTo(s, "sustained", mSustainedPerfModeOn, v) <=> v = su
    /\ \A v : LeadsTo(s, "state", state_prop, v) <=> v = st
    /\ \A v : LeadsTo(s, "audio", audio_prop, v) <=> v = au
    /\ \A h \in Tracked : HintAfter(s, hints, h) <=> h \in M

\* The same, when more operations may be added.
Effect(s, A, vr, su, st, au, M) == NotYet(s) /\ Outcome(s, A, vr, su, st, au, M)

\* A whole call leads to modes and audio that agree.
Agrees(A, vr, su, st, au, M) ==
    /\ vr \in BOOLEAN /\ su \in BOOLEAN /\ st \in StateProps
    /\ Remembered(st) = <<vr, su>> /\ <<vr, su>> \in A
    /\ M \cap Modes!ModeHints = HintsOf(vr, su)
    /\ "AUDIO_LOW_LATENCY" \in M <=> au = "LOW_LATENCY"

\* Nothing to do leads nowhere.
LEMMA NoEffect ==
    ASSUME NEW A, Remembered(state_prop) \in A
    PROVE  Effect(<< >>, A, mVRModeOn, mSustainedPerfModeOn, state_prop, audio_prop, hints)
  <1>1. << >> \in Seq(Op) /\ Len(<< >>) = 0
    OBVIOUS
  <1>2. NotYet(<< >>) /\ FlagsLast(<< >>) /\ DeathSafe(<< >>, A)
    BY <1>1 DEF NotYet, FlagsLast, DeathSafe
  <1> QED
    BY <1>1, <1>2, AfterNothing DEF Effect, Outcome

\* An operation on hints changes the hints that count.
LEMMA HintEffect ==
    ASSUME NEW s, NEW A, NEW vr, NEW su, NEW st, NEW au, NEW M, NEW h \in AllHints,
           Effect(s, A, vr, su, st, au, M)
    PROVE  /\ Effect(s \o <<Modes!Do(h)>>, A, vr, su, st, au, M \cup {h})
           /\ Effect(s \o <<Modes!End(h)>>, A, vr, su, st, au, M \ {h})
  <1>1. /\ Modes!Do(h) \in Op /\ Modes!Do(h)[1] = "DoHint" /\ Modes!Do(h)[2] = h
        /\ Modes!End(h) \in Op /\ Modes!End(h)[1] = "EndHint" /\ Modes!End(h)[2] = h
    BY DEF Op, Modes!Do, Modes!End
  <1>2. \A g, f : /\ (Modes!Do(g) = Modes!Do(f) <=> g = f) /\ Modes!Do(g) # Modes!End(f)
                  /\ (Modes!End(g) = Modes!End(f) <=> g = f)
    BY DEF Modes!Do, Modes!End
  <1>3. s \in Seq(Op) /\ NotYet(s) /\ DeathSafe(s, A)
    BY DEF Effect, Outcome
  <1>4. Effect(s \o <<Modes!Do(h)>>, A, vr, su, st, au, M \cup {h})
    <2> DEFINE o == Modes!Do(h)
               t == s \o <<o>>
    <2>1. t \in Seq(Op) /\ NotYet(t) /\ FlagsLast(t) /\ DeathSafe(t, A)
      BY <1>1, <1>3, OneMore, OneMoreSafe
    <2>2. \A k, now, v : k # "DoHint" => (LeadsTo(t, k, now, v) <=> LeadsTo(s, k, now, v))
      BY <1>1, <1>3, OneMore
    <2>3. \A g \in Tracked : HintAfter(t, hints, g) <=> g = h \/ HintAfter(s, hints, g)
      BY <1>1, <1>2, <1>3, OneMore
    <2> HIDE DEF t
    <2>4. Effect(t, A, vr, su, st, au, M \cup {h})
      BY <2>1, <2>2, <2>3 DEF Effect, Outcome
    <2> QED
      BY <2>4 DEF t
  <1>5. Effect(s \o <<Modes!End(h)>>, A, vr, su, st, au, M \ {h})
    <2> DEFINE o == Modes!End(h)
               t == s \o <<o>>
    <2>1. t \in Seq(Op) /\ NotYet(t) /\ FlagsLast(t) /\ DeathSafe(t, A)
      BY <1>1, <1>3, OneMore, OneMoreSafe
    <2>2. \A k, now, v : k # "EndHint" => (LeadsTo(t, k, now, v) <=> LeadsTo(s, k, now, v))
      BY <1>1, <1>3, OneMore
    <2>3. \A g \in Tracked : HintAfter(t, hints, g) <=> g # h /\ HintAfter(s, hints, g)
      BY <1>1, <1>2, <1>3, OneMore
    <2> HIDE DEF t
    <2>4. Effect(t, A, vr, su, st, au, M \ {h})
      BY <2>1, <2>2, <2>3 DEF Effect, Outcome
    <2> QED
      BY <2>4 DEF t
  <1> QED
    BY <1>4, <1>5

\* The other operations set a property or a flag, and leave the hints alone.
LEMMA SetEffect ==
    ASSUME NEW s, NEW A, NEW vr, NEW su, NEW st, NEW au, NEW M,
           NEW k \in {"vr", "sustained", "encoder", "ready", "state", "audio"}, NEW x,
           <<k, x>> \in Op, k = "state" => Remembered(x) \in A,
           Effect(s, A, vr, su, st, au, M)
    PROVE  LET t == s \o <<(<<k, x>>)>>
               then(f, y) == IF k = f THEN x ELSE y
           IN  /\ Outcome(t, A, then("vr", vr), then("sustained", su), then("state", st),
                          then("audio", au), M)
               /\ k # "ready" /\ (mReady => k \notin {"vr", "sustained"}) => NotYet(t)
  <1> DEFINE o == <<k, x>>
             t == s \o <<o>>
             then(f, y) == IF k = f THEN x ELSE y
  <1>1. o \in Op /\ o[1] = k /\ o[2] = x
    OBVIOUS
  <1>2. \A h : o # Modes!Do(h) /\ o # Modes!End(h)
    BY DEF Modes!Do, Modes!End
  <1>3. s \in Seq(Op) /\ NotYet(s) /\ DeathSafe(s, A)
    BY DEF Effect, Outcome
  <1> HIDE DEF o
  <1>4. /\ t \in Seq(Op) /\ FlagsLast(t) /\ DeathSafe(t, A)
        /\ k # "ready" /\ (mReady => k \notin {"vr", "sustained"}) => NotYet(t)
    BY <1>1, <1>3, OneMore, OneMoreSafe
  <1>5. \A f, now, v : LeadsTo(t, f, now, v) <=> IF k = f THEN x = v ELSE LeadsTo(s, f, now, v)
    BY <1>1, <1>3, OneMore
  <1>6. \A h \in Tracked : HintAfter(t, hints, h) <=> HintAfter(s, hints, h)
    BY <1>1, <1>2, <1>3, OneMore
  <1> HIDE DEF t
  <1>7. Outcome(t, A, then("vr", vr), then("sustained", su), then("state", st),
                then("audio", au), M)
    BY <1>4, <1>5, <1>6 DEF Effect, Outcome
  <1> QED
    BY <1>4, <1>7 DEF t, o

\* Setting a property or a flag, with more to follow.
LEMMA MidEffect ==
    ASSUME NEW s, NEW A, NEW vr, NEW su, NEW st, NEW au, NEW M,
           Effect(s, A, vr, su, st, au, M)
    PROVE  /\ \A v \in StateProps : Remembered(v) \in A =>
                Effect(s \o <<Modes!Set(v)>>, A, vr, su, v, au, M)
           /\ \A v \in AudioProps :
                Effect(s \o <<Modes!SetAudio(v)>>, A, vr, su, st, v, M)
           /\ \A b \in BOOLEAN :
                /\ Effect(s \o <<Modes!Flag("encoder", b)>>, A, vr, su, st, au, M)
                /\ ~mReady => /\ Effect(s \o <<Modes!Flag("vr", b)>>, A, b, su, st, au, M)
                              /\ Effect(s \o <<Modes!Flag("sustained", b)>>, A, vr, b, st, au, M)
  <1>1. /\ \A v \in StateProps : <<"state", v>> \in Op
        /\ \A v \in AudioProps : <<"audio", v>> \in Op
        /\ \A b \in BOOLEAN : <<"encoder", b>> \in Op /\ <<"vr", b>> \in Op /\ <<"sustained", b>> \in Op
    BY DEF Op
  <1>2. ASSUME NEW v \in StateProps, Remembered(v) \in A
        PROVE  Effect(s \o <<(<<"state", v>>)>>, A, vr, su, v, au, M)
    <2>1. NotYet(s \o <<(<<"state", v>>)>>)
      BY <1>1, <1>2, SetEffect
    <2>2. Outcome(s \o <<(<<"state", v>>)>>, A, vr, su, v, au, M)
      BY <1>1, <1>2, SetEffect
    <2> QED
      BY <2>1, <2>2 DEF Effect
  <1>3. ASSUME NEW v \in AudioProps
        PROVE  Effect(s \o <<(<<"audio", v>>)>>, A, vr, su, st, v, M)
    <2>1. NotYet(s \o <<(<<"audio", v>>)>>)
      BY <1>1, SetEffect
    <2>2. Outcome(s \o <<(<<"audio", v>>)>>, A, vr, su, st, v, M)
      BY <1>1, SetEffect
    <2> QED
      BY <2>1, <2>2 DEF Effect
  <1>4. ASSUME NEW b \in BOOLEAN
        PROVE  Effect(s \o <<(<<"encoder", b>>)>>, A, vr, su, st, au, M)
    <2>1. NotYet(s \o <<(<<"encoder", b>>)>>)
      BY <1>1, SetEffect
    <2>2. Outcome(s \o <<(<<"encoder", b>>)>>, A, vr, su, st, au, M)
      BY <1>1, SetEffect
    <2> QED
      BY <2>1, <2>2 DEF Effect
  <1>5. ASSUME NEW b \in BOOLEAN, ~mReady
        PROVE  Effect(s \o <<(<<"vr", b>>)>>, A, b, su, st, au, M)
    <2>1. NotYet(s \o <<(<<"vr", b>>)>>)
      BY <1>1, <1>5, SetEffect
    <2>2. Outcome(s \o <<(<<"vr", b>>)>>, A, b, su, st, au, M)
      BY <1>1, <1>5, SetEffect
    <2> QED
      BY <2>1, <2>2 DEF Effect
  <1>6. ASSUME NEW b \in BOOLEAN, ~mReady
        PROVE  Effect(s \o <<(<<"sustained", b>>)>>, A, vr, b, st, au, M)
    <2>1. NotYet(s \o <<(<<"sustained", b>>)>>)
      BY <1>1, <1>6, SetEffect
    <2>2. Outcome(s \o <<(<<"sustained", b>>)>>, A, vr, b, st, au, M)
      BY <1>1, <1>6, SetEffect
    <2> QED
      BY <2>1, <2>2 DEF Effect
  <1> QED
    BY <1>2, <1>3, <1>4, <1>5, <1>6 DEF Modes!Set, Modes!SetAudio, Modes!Flag

\* Operations whose effects agree may be the rest of a call.
LEMMA OutcomePrepared ==
    ASSUME NEW s, NEW A, NEW vr, NEW su, NEW st, NEW au, NEW M, Len(s) <= 5,
           Outcome(s, A, vr, su, st, au, M), Agrees(A, vr, su, st, au, M)
    PROVE  Prepared(s, A)
  <1>1. ModesAgree(s, A, vr, su, st)
    BY DEF Outcome, Agrees, ModesAgree, Tracked
  <1>2. AudioAgree(s)
    BY DEF Outcome, Agrees, AudioAgree, Tracked
  <1> QED
    BY <1>1, <1>2 DEF Outcome, Agrees, Prepared

\* The same when the last of them sets a mode flag or ends a restart.
LEMMA LastPrepared ==
    ASSUME NEW s, NEW A, NEW vr, NEW su, NEW st, NEW au, NEW M, NEW b \in BOOLEAN,
           Len(s) <= 4, Effect(s, A, vr, su, st, au, M)
    PROVE  /\ Agrees(A, b, su, st, au, M) => Prepared(s \o <<Modes!Flag("vr", b)>>, A)
           /\ Agrees(A, vr, b, st, au, M) => Prepared(s \o <<Modes!Flag("sustained", b)>>, A)
           /\ Agrees(A, vr, su, st, au, M) => Prepared(s \o <<Modes!Flag("ready", b)>>, A)
  <1>1. ASSUME NEW k \in {"vr", "sustained", "ready"}, NEW y, NEW z,
               y = (IF k = "vr" THEN b ELSE vr), z = (IF k = "sustained" THEN b ELSE su),
               Agrees(A, y, z, st, au, M)
        PROVE  Prepared(s \o <<(<<k, b>>)>>, A)
    <2> DEFINE t == s \o <<(<<k, b>>)>>
    <2>1. <<k, b>> \in Op
      BY DEF Op
    <2>2. s \in Seq(Op)
      BY DEF Effect, Outcome
    <2>3. Len(t) <= 5
      BY <2>1, <2>2
    <2>4. Outcome(t, A, y, z, st, au, M)
      BY <2>1, <1>1, SetEffect
    <2> QED
      BY <2>3, <2>4, <1>1, OutcomePrepared
  <1> QED
    BY <1>1 DEF Modes!Flag

\* The sequences that switch a mode, before the flag.
LEMMA SwitchEffects ==
    ASSUME NEW A, NEW vr, NEW su, NEW st, NEW au, NEW M,
           NEW g \in AllHints, NEW h \in AllHints, NEW i \in AllHints, NEW v \in StateProps,
           Remembered(v) \in A, Effect(<< >>, A, vr, su, st, au, M)
    PROVE  /\ Effect(<<Modes!Do(h), Modes!Set(v)>>, A, vr, su, v, au, M \cup {h})
           /\ Effect(<<Modes!End(g), Modes!Do(h), Modes!Set(v)>>, A, vr, su, v, au,
                     (M \ {g}) \cup {h})
           /\ Effect(<<Modes!End(g), Modes!End(h)>> \o <<Modes!Set(v)>>, A, vr, su, v, au,
                     (M \ {g}) \ {h})
           /\ Effect(<<Modes!End(g), Modes!End(h)>> \o <<Modes!Do(i), Modes!Set(v)>>,
                     A, vr, su, v, au, ((M \ {g}) \ {h}) \cup {i})
  <1> DEFINE d == << >> \o <<Modes!Do(h)>>
             e == << >> \o <<Modes!End(g)>>
  <1>1. /\ Effect(d, A, vr, su, st, au, M \cup {h})
        /\ Effect(e, A, vr, su, st, au, M \ {g})
    BY HintEffect
  <1>2. /\ Effect(e \o <<Modes!Do(h)>>, A, vr, su, st, au, (M \ {g}) \cup {h})
        /\ Effect(e \o <<Modes!End(h)>>, A, vr, su, st, au, (M \ {g}) \ {h})
    BY <1>1, HintEffect
  <1>3. Effect((e \o <<Modes!End(h)>>) \o <<Modes!Do(i)>>, A, vr, su, st, au,
               ((M \ {g}) \ {h}) \cup {i})
    BY <1>2, HintEffect
  <1>4. Effect(d \o <<Modes!Set(v)>>, A, vr, su, v, au, M \cup {h})
    BY <1>1, MidEffect
  <1>5. Effect((e \o <<Modes!Do(h)>>) \o <<Modes!Set(v)>>, A, vr, su, v, au, (M \ {g}) \cup {h})
    BY <1>2, MidEffect
  <1>6. Effect((e \o <<Modes!End(h)>>) \o <<Modes!Set(v)>>, A, vr, su, v, au, (M \ {g}) \ {h})
    BY <1>2, MidEffect
  <1>7. Effect(((e \o <<Modes!End(h)>>) \o <<Modes!Do(i)>>) \o <<Modes!Set(v)>>,
               A, vr, su, v, au, ((M \ {g}) \ {h}) \cup {i})
    BY <1>3, MidEffect
  <1>8. d \o <<Modes!Set(v)>> = <<Modes!Do(h), Modes!Set(v)>>
    BY TwoOps, Zenon
  <1>9. (e \o <<Modes!Do(h)>>) \o <<Modes!Set(v)>> = <<Modes!End(g), Modes!Do(h), Modes!Set(v)>>
    BY ThreeOps, Zenon
  <1>10. (e \o <<Modes!End(h)>>) \o <<Modes!Set(v)>>
            = <<Modes!End(g), Modes!End(h)>> \o <<Modes!Set(v)>>
    BY TwoOps, Zenon
  <1>11. ((e \o <<Modes!End(h)>>) \o <<Modes!Do(i)>>) \o <<Modes!Set(v)>>
            = <<Modes!End(g), Modes!End(h)>> \o <<Modes!Do(i), Modes!Set(v)>>
    <2>1. (e \o <<Modes!End(h)>>) \o <<Modes!Do(i)>>
             = <<Modes!End(g), Modes!End(h), Modes!Do(i)>>
      BY ThreeOps, Zenon
    <2> DEFINE p == Modes!End(g)
               q == Modes!End(h)
               u == Modes!Do(i)
               w == Modes!Set(v)
               x == <<p, q, u>> \o <<w>>
               y == <<p, q>> \o <<u, w>>
               S == {p, q, u, w}
    <2> HIDE DEF p, q, u, w
    <2>2. x \in Seq(S) /\ y \in Seq(S) /\ Len(x) = 4 /\ Len(y) = 4
      OBVIOUS
    <2>3. x[1] = p /\ x[2] = q /\ x[3] = u /\ x[4] = w
      OBVIOUS
    <2>4. y[1] = p /\ y[2] = q /\ y[3] = u /\ y[4] = w
      OBVIOUS
    <2>5. \A j \in 1..Len(x) : x[j] = y[j]
      BY <2>2, <2>3, <2>4
    <2> HIDE DEF x, y, S
    <2>6. x = y
      BY <2>2, <2>5, SeqEqual
    <2> QED
      BY <2>1, <2>6, Zenon DEF x, y, p, q, u, w
  <1> QED
    BY <1>4, <1>5, <1>6, <1>7, <1>8, <1>9, <1>10, <1>11, Zenon

\* Between calls the modes, the properties and the hints agree.
LEMMA BetweenCalls ==
    ASSUME ModesInv, todo = << >>
    PROVE  Agrees(allowed, mVRModeOn, mSustainedPerfModeOn, state_prop, audio_prop, hints)
  <1>1. PICK vr \in BOOLEAN, su \in BOOLEAN, st \in StateProps :
             ModesAgree(<< >>, allowed, vr, su, st)
    BY DEF ModesInv, Prepared
  <1>2. mVRModeOn = vr /\ mSustainedPerfModeOn = su /\ state_prop = st
    BY <1>1, AfterNothing DEF ModesAgree
  <1>3. \A h \in Modes!ModeHints : h \in hints <=> h \in HintsOf(vr, su)
    BY <1>1, AfterNothing DEF ModesAgree
  <1>4. HintsOf(vr, su) \subseteq Modes!ModeHints
    BY DEF HintsOf, Modes!ModeHints
  <1>5. "AUDIO_LOW_LATENCY" \in hints <=> audio_prop = "LOW_LATENCY"
    BY AfterNothing DEF ModesInv, Prepared, AudioAgree
  <1>6. hints \cap Modes!ModeHints = HintsOf(vr, su)
    BY <1>3, <1>4
  <1> QED
    BY <1>1, <1>2, <1>5, <1>6 DEF Agrees, ModesAgree

\* The modes that the values of the property stand for.
LEMMA RememberedValues ==
    /\ Remembered("") = <<FALSE, FALSE>>
    /\ Remembered("VIDEO_ENCODE") = <<FALSE, FALSE>>
    /\ Remembered("VR_MODE") = <<TRUE, FALSE>>
    /\ Remembered("SUSTAINED_PERFORMANCE") = <<FALSE, TRUE>>
    /\ Remembered("VR_SUSTAINED_PERFORMANCE") = <<TRUE, TRUE>>
  BY DEF Remembered

\* Sustained performance mode, with and without VR mode.
LEMMA SustainedPrepared ==
    ASSUME ModesInv, todo = << >>, NEW on \in BOOLEAN
    PROVE  Prepared(Modes!SustainedPerformance(on),
                    {<<mVRModeOn, mSustainedPerfModeOn>>, <<mVRModeOn, on>>})
  <1> DEFINE A == {<<mVRModeOn, mSustainedPerfModeOn>>, <<mVRModeOn, on>>}
             VR == "VR_MODE"
             SU == "SUSTAINED_PERFORMANCE"
             VS == "VR_SUSTAINED_PERFORMANCE"
             b == mVRModeOn
             x == mSustainedPerfModeOn
             s == Modes!SustainedPerformance(on)
  <1>1. Agrees(allowed, b, x, state_prop, audio_prop, hints)
    BY BetweenCalls
  <1>2. Remembered(state_prop) \in A
    BY <1>1 DEF Agrees
  <1>3. Effect(<< >>, A, b, x, state_prop, audio_prop, hints)
    BY <1>2, NoEffect
  <1>4. VR \in AllHints /\ SU \in AllHints /\ VS \in AllHints
    BY DEF AllHints, Modes!ModeHints
  <1>5. VR \in StateProps /\ SU \in StateProps /\ VS \in StateProps /\ "" \in StateProps
    BY DEF StateProps, Modes!ModeHints
  <1>6. b \in BOOLEAN /\ x \in BOOLEAN
    BY <1>1 DEF Agrees
  <1>7. CASE on /\ ~x /\ b
    <2> DEFINE r == <<Modes!End(VR), Modes!Do(VS), Modes!Set(VS)>>
               M == (hints \ {VR}) \cup {VS}
    <2>1. Remembered(VS) \in A
      BY <1>6, <1>7, RememberedValues
    <2>2. Effect(r, A, b, x, VS, audio_prop, M)
      BY <2>1, <1>3, <1>4, <1>5, SwitchEffects
    <2>3. Agrees(A, b, TRUE, VS, audio_prop, M)
      BY <2>1, <1>1, <1>5, <1>6, <1>7, RememberedValues DEF Agrees, HintsOf, Modes!ModeHints
    <2>4. s = r \o <<Modes!Flag("sustained", TRUE)>> /\ Len(r) <= 4 /\ TRUE \in BOOLEAN
      BY <1>7 DEF Modes!SustainedPerformance
    <2> QED
      BY <2>2, <2>3, <2>4, LastPrepared, Zenon
  <1>8. CASE on /\ ~x /\ ~b
    <2> DEFINE r == <<Modes!Do(SU), Modes!Set(SU)>>
               M == hints \cup {SU}
    <2>1. Remembered(SU) \in A
      BY <1>6, <1>8, RememberedValues
    <2>2. Effect(r, A, b, x, SU, audio_prop, M)
      BY <2>1, <1>3, <1>4, <1>5, SwitchEffects
    <2>3. Agrees(A, b, TRUE, SU, audio_prop, M)
      BY <2>1, <1>1, <1>5, <1>6, <1>8, RememberedValues DEF Agrees, HintsOf, Modes!ModeHints
    <2>4. s = r \o <<Modes!Flag("sustained", TRUE)>> /\ Len(r) <= 4 /\ TRUE \in BOOLEAN
      BY <1>8 DEF Modes!SustainedPerformance
    <2> QED
      BY <2>2, <2>3, <2>4, LastPrepared, Zenon
  <1>9. CASE ~on /\ x /\ b
    <2> DEFINE r == <<Modes!End(VS), Modes!End(SU)>> \o <<Modes!Do(VR), Modes!Set(VR)>>
               M == ((hints \ {VS}) \ {SU}) \cup {VR}
    <2>1. Remembered(VR) \in A
      BY <1>6, <1>9, RememberedValues
    <2>2. Effect(r, A, b, x, VR, audio_prop, M)
      BY <2>1, <1>3, <1>4, <1>5, SwitchEffects
    <2>3. Agrees(A, b, FALSE, VR, audio_prop, M)
      BY <2>1, <1>1, <1>5, <1>6, <1>9, RememberedValues DEF Agrees, HintsOf, Modes!ModeHints
    <2>4. s = r \o <<Modes!Flag("sustained", FALSE)>> /\ Len(r) <= 4 /\ FALSE \in BOOLEAN
      BY <1>9 DEF Modes!SustainedPerformance
    <2> QED
      BY <2>2, <2>3, <2>4, LastPrepared, Zenon
  <1>10. CASE ~on /\ x /\ ~b
    <2> DEFINE r == <<Modes!End(VS), Modes!End(SU)>> \o <<Modes!Set("")>>
               M == (hints \ {VS}) \ {SU}
    <2>1. Remembered("") \in A
      BY <1>6, <1>10, RememberedValues
    <2>2. Effect(r, A, b, x, "", audio_prop, M)
      BY <2>1, <1>3, <1>4, <1>5, SwitchEffects
    <2>3. Agrees(A, b, FALSE, "", audio_prop, M)
      BY <2>1, <1>1, <1>5, <1>6, <1>10, RememberedValues DEF Agrees, HintsOf, Modes!ModeHints
    <2>5. Len(r) <= 4 /\ FALSE \in BOOLEAN
      OBVIOUS
    <2>4. s = r \o <<Modes!Flag("sustained", FALSE)>>
      BY <1>10 DEF Modes!SustainedPerformance
    <2> QED
      BY <2>2, <2>3, <2>4, <2>5, LastPrepared, Zenon
  <1>11. CASE on = x
    <2>1. s = << >> /\ Len(<< >>) <= 5
      BY <1>6, <1>11 DEF Modes!SustainedPerformance
    <2>2. Agrees(A, b, x, state_prop, audio_prop, hints)
      BY <1>1 DEF Agrees
    <2> QED
      BY <2>1, <2>2, <1>3, OutcomePrepared DEF Effect
  <1> QED
    BY <1>6, <1>7, <1>8, <1>9, <1>10, <1>11

\* VR mode, with and without sustained performance mode.
LEMMA VRPrepared ==
    ASSUME ModesInv, todo = << >>, NEW on \in BOOLEAN
    PROVE  Prepared(Modes!VRMode(on),
                    {<<mVRModeOn, mSustainedPerfModeOn>>, <<on, mSustainedPerfModeOn>>})
  <1> DEFINE A == {<<mVRModeOn, mSustainedPerfModeOn>>, <<on, mSustainedPerfModeOn>>}
             VR == "VR_MODE"
             SU == "SUSTAINED_PERFORMANCE"
             VS == "VR_SUSTAINED_PERFORMANCE"
             b == mVRModeOn
             x == mSustainedPerfModeOn
             s == Modes!VRMode(on)
  <1>1. Agrees(allowed, b, x, state_prop, audio_prop, hints)
    BY BetweenCalls
  <1>2. Remembered(state_prop) \in A
    BY <1>1 DEF Agrees
  <1>3. Effect(<< >>, A, b, x, state_prop, audio_prop, hints)
    BY <1>2, NoEffect
  <1>4. VR \in AllHints /\ SU \in AllHints /\ VS \in AllHints
    BY DEF AllHints, Modes!ModeHints
  <1>5. VR \in StateProps /\ SU \in StateProps /\ VS \in StateProps /\ "" \in StateProps
    BY DEF StateProps, Modes!ModeHints
  <1>6. b \in BOOLEAN /\ x \in BOOLEAN
    BY <1>1 DEF Agrees
  <1>7. CASE on /\ ~b /\ x
    <2> DEFINE r == <<Modes!End(SU), Modes!Do(VS), Modes!Set(VS)>>
               M == (hints \ {SU}) \cup {VS}
    <2>1. Remembered(VS) \in A
      BY <1>6, <1>7, RememberedValues
    <2>2. Effect(r, A, b, x, VS, audio_prop, M)
      BY <2>1, <1>3, <1>4, <1>5, SwitchEffects
    <2>3. Agrees(A, TRUE, x, VS, audio_prop, M)
      BY <2>1, <1>1, <1>5, <1>6, <1>7, RememberedValues DEF Agrees, HintsOf, Modes!ModeHints
    <2>4. s = r \o <<Modes!Flag("vr", TRUE)>> /\ Len(r) <= 4 /\ TRUE \in BOOLEAN
      BY <1>7 DEF Modes!VRMode
    <2> QED
      BY <2>2, <2>3, <2>4, LastPrepared, Zenon
  <1>8. CASE on /\ ~b /\ ~x
    <2> DEFINE r == <<Modes!Do(VR), Modes!Set(VR)>>
               M == hints \cup {VR}
    <2>1. Remembered(VR) \in A
      BY <1>6, <1>8, RememberedValues
    <2>2. Effect(r, A, b, x, VR, audio_prop, M)
      BY <2>1, <1>3, <1>4, <1>5, SwitchEffects
    <2>3. Agrees(A, TRUE, x, VR, audio_prop, M)
      BY <2>1, <1>1, <1>5, <1>6, <1>8, RememberedValues DEF Agrees, HintsOf, Modes!ModeHints
    <2>4. s = r \o <<Modes!Flag("vr", TRUE)>> /\ Len(r) <= 4 /\ TRUE \in BOOLEAN
      BY <1>8 DEF Modes!VRMode
    <2> QED
      BY <2>2, <2>3, <2>4, LastPrepared, Zenon
  <1>9. CASE ~on /\ b /\ x
    <2> DEFINE r == <<Modes!End(VS), Modes!End(VR)>> \o <<Modes!Do(SU), Modes!Set(SU)>>
               M == ((hints \ {VS}) \ {VR}) \cup {SU}
    <2>1. Remembered(SU) \in A
      BY <1>6, <1>9, RememberedValues
    <2>2. Effect(r, A, b, x, SU, audio_prop, M)
      BY <2>1, <1>3, <1>4, <1>5, SwitchEffects
    <2>3. Agrees(A, FALSE, x, SU, audio_prop, M)
      BY <2>1, <1>1, <1>5, <1>6, <1>9, RememberedValues DEF Agrees, HintsOf, Modes!ModeHints
    <2>4. s = r \o <<Modes!Flag("vr", FALSE)>> /\ Len(r) <= 4 /\ FALSE \in BOOLEAN
      BY <1>9 DEF Modes!VRMode
    <2> QED
      BY <2>2, <2>3, <2>4, LastPrepared, Zenon
  <1>10. CASE ~on /\ b /\ ~x
    <2> DEFINE r == <<Modes!End(VS), Modes!End(VR)>> \o <<Modes!Set("")>>
               M == (hints \ {VS}) \ {VR}
    <2>1. Remembered("") \in A
      BY <1>6, <1>10, RememberedValues
    <2>2. Effect(r, A, b, x, "", audio_prop, M)
      BY <2>1, <1>3, <1>4, <1>5, SwitchEffects
    <2>3. Agrees(A, FALSE, x, "", audio_prop, M)
      BY <2>1, <1>1, <1>5, <1>6, <1>10, RememberedValues DEF Agrees, HintsOf, Modes!ModeHints
    <2>5. Len(r) <= 4 /\ FALSE \in BOOLEAN
      OBVIOUS
    <2>4. s = r \o <<Modes!Flag("vr", FALSE)>>
      BY <1>10 DEF Modes!VRMode
    <2> QED
      BY <2>2, <2>3, <2>4, <2>5, LastPrepared, Zenon
  <1>11. CASE on = b
    <2>1. s = << >> /\ Len(<< >>) <= 5
      BY <1>6, <1>11 DEF Modes!VRMode
    <2>2. Agrees(A, b, x, state_prop, audio_prop, hints)
      BY <1>1 DEF Agrees
    <2> QED
      BY <2>1, <2>2, <1>3, OutcomePrepared DEF Effect
  <1> QED
    BY <1>6, <1>7, <1>8, <1>9, <1>10, <1>11

\* The calls that switch no mode.
LEMMA OthersPrepared ==
    ASSUME ModesInv, todo = << >>, NEW on \in BOOLEAN
    PROVE  /\ Prepared(Modes!VideoEncode(on), allowed)
           /\ Prepared(Modes!AudioLowLatency(on), allowed)
           /\ \A h \in {"LAUNCH", "AUDIO_STREAMING"} : Prepared(Modes!IfNotExclusive(h, on), allowed)
           /\ \A h \in Modes!CameraHints : Prepared(Modes!Camera(h, on), allowed)
  <1> DEFINE b == mVRModeOn
             x == mSustainedPerfModeOn
             p == state_prop
             a == audio_prop
             AL == "AUDIO_LOW_LATENCY"
             VE == "VIDEO_ENCODE"
  <1>1. Agrees(allowed, b, x, p, a, hints)
    BY BetweenCalls
  <1>2. Effect(<< >>, allowed, b, x, p, a, hints)
    BY NoEffect DEF ModesInv, Prepared, DeathSafe
  <1>3. Prepared(<< >>, allowed)
    BY <1>1, <1>2, OutcomePrepared DEF Effect
  <1>4. ASSUME NEW h \in Modes!Timed
        PROVE  Prepared(<<Modes!Do(h)>>, allowed) /\ Prepared(<<Modes!End(h)>>, allowed)
    <2>1. h \in AllHints /\ h \notin Tracked
      BY DEF AllHints, Tracked, Modes!Timed, Modes!CameraHints, Modes!ModeHints
    <2>2. /\ Effect(<< >> \o <<Modes!Do(h)>>, allowed, b, x, p, a, hints \cup {h})
          /\ Effect(<< >> \o <<Modes!End(h)>>, allowed, b, x, p, a, hints \ {h})
      BY <2>1, <1>2, HintEffect
    <2>3. /\ Effect(<<Modes!Do(h)>>, allowed, b, x, p, a, hints \cup {h})
          /\ Effect(<<Modes!End(h)>>, allowed, b, x, p, a, hints \ {h})
      BY <2>2
    <2>4. Agrees(allowed, b, x, p, a, hints \cup {h}) /\ Agrees(allowed, b, x, p, a, hints \ {h})
      BY <2>1, <1>1 DEF Agrees, Tracked
    <2>5. Len(<<Modes!Do(h)>>) <= 5 /\ Len(<<Modes!End(h)>>) <= 5
      OBVIOUS
    <2> QED
      BY <2>3, <2>4, <2>5, OutcomePrepared, Zenon DEF Effect
  <1>5. ASSUME NEW h \in Modes!Timed
        PROVE  Prepared(<<Modes!Do(h), Modes!Do("LAUNCH")>>, allowed)
    <2>1. h \in AllHints /\ h \notin Tracked /\ "LAUNCH" \in AllHints /\ "LAUNCH" \notin Tracked
      BY DEF AllHints, Tracked, Modes!Timed, Modes!CameraHints, Modes!ModeHints
    <2>2. Effect(<< >> \o <<Modes!Do(h)>>, allowed, b, x, p, a, hints \cup {h})
      BY <2>1, <1>2, HintEffect
    <2>3. Effect((<< >> \o <<Modes!Do(h)>>) \o <<Modes!Do("LAUNCH")>>, allowed, b, x, p, a,
                 (hints \cup {h}) \cup {"LAUNCH"})
      BY <2>1, <2>2, HintEffect
    <2>4. (<< >> \o <<Modes!Do(h)>>) \o <<Modes!Do("LAUNCH")>> = <<Modes!Do(h), Modes!Do("LAUNCH")>>
      BY TwoOps, Zenon
    <2>5. Agrees(allowed, b, x, p, a, (hints \cup {h}) \cup {"LAUNCH"})
      BY <2>1, <1>1 DEF Agrees, Tracked
    <2>6. Len(<<Modes!Do(h), Modes!Do("LAUNCH")>>) <= 5
      OBVIOUS
    <2> QED
      BY <2>3, <2>4, <2>5, <2>6, OutcomePrepared, Zenon DEF Effect
  <1>6. Prepared(Modes!AudioLowLatency(on), allowed)
    <2>1. AL \in AllHints /\ "LOW_LATENCY" \in AudioProps /\ "" \in AudioProps
      BY DEF AllHints, AudioProps
    <2>2. /\ Effect(<< >> \o <<Modes!Do(AL)>>, allowed, b, x, p, a, hints \cup {AL})
          /\ Effect(<< >> \o <<Modes!End(AL)>>, allowed, b, x, p, a, hints \ {AL})
      BY <2>1, <1>2, HintEffect
    <2>3. /\ Effect((<< >> \o <<Modes!Do(AL)>>) \o <<Modes!SetAudio("LOW_LATENCY")>>,
                    allowed, b, x, p, "LOW_LATENCY", hints \cup {AL})
          /\ Effect((<< >> \o <<Modes!End(AL)>>) \o <<Modes!SetAudio("")>>,
                    allowed, b, x, p, "", hints \ {AL})
      BY <2>1, <2>2, MidEffect
    <2>4. /\ (<< >> \o <<Modes!Do(AL)>>) \o <<Modes!SetAudio("LOW_LATENCY")>>
                = <<Modes!Do(AL), Modes!SetAudio("LOW_LATENCY")>>
          /\ (<< >> \o <<Modes!End(AL)>>) \o <<Modes!SetAudio("")>>
                = <<Modes!End(AL), Modes!SetAudio("")>>
      BY TwoOps, Zenon
    <2>5. /\ Agrees(allowed, b, x, p, "LOW_LATENCY", hints \cup {AL})
          /\ Agrees(allowed, b, x, p, "", hints \ {AL})
      BY <1>1 DEF Agrees, Modes!ModeHints
    <2>6. /\ Len(<<Modes!Do(AL), Modes!SetAudio("LOW_LATENCY")>>) <= 5
          /\ Len(<<Modes!End(AL), Modes!SetAudio("")>>) <= 5
      OBVIOUS
    <2>7. /\ Prepared(<<Modes!Do(AL), Modes!SetAudio("LOW_LATENCY")>>, allowed)
          /\ Prepared(<<Modes!End(AL), Modes!SetAudio("")>>, allowed)
      BY <2>3, <2>4, <2>5, <2>6, OutcomePrepared, Zenon DEF Effect
    <2> QED
      BY <2>7 DEF Modes!AudioLowLatency
  <1>7. Prepared(Modes!VideoEncode(on), allowed)
    <2>1. CASE Modes!Exclusive
      BY <2>1, <1>3 DEF Modes!VideoEncode
    <2>2. CASE ~Modes!Exclusive
      <3>1. b = FALSE /\ x = FALSE /\ VE \in AllHints /\ VE \in StateProps /\ "" \in StateProps
        BY <2>2, <1>1 DEF Agrees, Modes!Exclusive, AllHints, StateProps
      <3>2. <<FALSE, FALSE>> \in allowed /\ Remembered("") \in allowed /\ Remembered(VE) \in allowed
        BY <3>1, <1>1, RememberedValues DEF Agrees
      <3>3. Effect(<<Modes!Do(VE), Modes!Set(VE)>>, allowed, b, x, VE, a, hints \cup {VE})
        BY <3>1, <3>2, <1>2, SwitchEffects
      <3>4. Effect(<< >> \o <<Modes!End(VE)>>, allowed, b, x, p, a, hints \ {VE})
        BY <3>1, <1>2, HintEffect
      <3>5. Effect((<< >> \o <<Modes!End(VE)>>) \o <<Modes!Set("")>>, allowed, b, x, "", a,
                   hints \ {VE})
        BY <3>1, <3>2, <3>4, MidEffect
      <3>6. /\ Effect(<<Modes!Do(VE), Modes!Set(VE)>> \o <<Modes!Flag("encoder", TRUE)>>,
                      allowed, b, x, VE, a, hints \cup {VE})
            /\ Effect(((<< >> \o <<Modes!End(VE)>>) \o <<Modes!Set("")>>)
                         \o <<Modes!Flag("encoder", FALSE)>>,
                      allowed, b, x, "", a, hints \ {VE})
        BY <3>3, <3>5, MidEffect
      <3>7. /\ <<Modes!Do(VE), Modes!Set(VE)>> \o <<Modes!Flag("encoder", TRUE)>>
                 = <<Modes!Do(VE), Modes!Set(VE), Modes!Flag("encoder", TRUE)>>
            /\ ((<< >> \o <<Modes!End(VE)>>) \o <<Modes!Set("")>>) \o <<Modes!Flag("encoder", FALSE)>>
                 = <<Modes!End(VE), Modes!Set(""), Modes!Flag("encoder", FALSE)>>
        BY ThreeOps, Zenon
      <3>8. /\ Agrees(allowed, b, x, VE, a, hints \cup {VE})
            /\ Agrees(allowed, b, x, "", a, hints \ {VE})
        BY <3>1, <3>2, <1>1, RememberedValues DEF Agrees, Modes!ModeHints
      <3>9. /\ Len(<<Modes!Do(VE), Modes!Set(VE), Modes!Flag("encoder", TRUE)>>) <= 5
            /\ Len(<<Modes!End(VE), Modes!Set(""), Modes!Flag("encoder", FALSE)>>) <= 5
        OBVIOUS
      <3>10. /\ Prepared(<<Modes!Do(VE), Modes!Set(VE), Modes!Flag("encoder", TRUE)>>, allowed)
             /\ Prepared(<<Modes!End(VE), Modes!Set(""), Modes!Flag("encoder", FALSE)>>, allowed)
        BY <3>6, <3>7, <3>8, <3>9, OutcomePrepared, Zenon DEF Effect
      <3> QED
        BY <2>2, <3>10 DEF Modes!VideoEncode
    <2> QED
      BY <2>1, <2>2
  <1>8. ASSUME NEW h \in {"LAUNCH", "AUDIO_STREAMING"}
        PROVE  Prepared(Modes!IfNotExclusive(h, on), allowed)
    BY <1>3, <1>4 DEF Modes!IfNotExclusive, Modes!Timed
  <1>9. ASSUME NEW h \in Modes!CameraHints PROVE Prepared(Modes!Camera(h, on), allowed)
    BY <1>4, <1>5 DEF Modes!Camera, Modes!Timed
  <1> QED
    BY <1>6, <1>7, <1>8, <1>9

\* A process that starts over.
Started ==
    /\ mReady = FALSE /\ mVRModeOn = FALSE /\ mSustainedPerfModeOn = FALSE
    /\ mEncoderModeOn = FALSE /\ hints = {}
    /\ state_prop \in StateProps /\ audio_prop \in AudioProps
    /\ allowed \subseteq BOOLEAN \X BOOLEAN
    /\ Remembered(state_prop) \in allowed
    /\ todo = Modes!Restore

\* The init thread leads to what the properties remember.
LEMMA RestartPrepared == Started => ModesInv
  <1> SUFFICES ASSUME Started PROVE ModesInv
    OBVIOUS
  <1> DEFINE A == allowed
             p == state_prop
             a == audio_prop
             VR == "VR_MODE"
             SU == "SUSTAINED_PERFORMANCE"
             VS == "VR_SUSTAINED_PERFORMANCE"
             VE == "VIDEO_ENCODE"
             AL == "AUDIO_LOW_LATENCY"
             modes == CASE p = VE -> <<Modes!Do(VE), Modes!Flag("encoder", TRUE)>>
                        [] p = SU -> <<Modes!Do(SU), Modes!Flag("sustained", TRUE)>>
                        [] p = VR -> <<Modes!Do(VR), Modes!Flag("vr", TRUE)>>
                        [] p = VS -> <<Modes!Do(VS), Modes!Flag("sustained", TRUE),
                                       Modes!Flag("vr", TRUE)>>
                        [] OTHER -> << >>
             audio == IF a = "LOW_LATENCY" THEN <<Modes!Do(AL)>> ELSE << >>
             Fine(vr, su, M) == /\ Effect(modes, A, vr, su, p, a, M) /\ Len(modes) <= 3
                                /\ Remembered(p) = <<vr, su>>
                                /\ M \cap Modes!ModeHints = HintsOf(vr, su) /\ AL \notin M
  <1>1. Effect(<< >>, A, FALSE, FALSE, p, a, {})
    BY NoEffect DEF Started
  <1>2. VR \in AllHints /\ SU \in AllHints /\ VS \in AllHints /\ VE \in AllHints /\ AL \in AllHints
    BY DEF AllHints, Modes!ModeHints
  <1>3. ASSUME NEW h \in AllHints
        PROVE  /\ Effect(<<Modes!Do(h), Modes!Flag("encoder", TRUE)>>, A, FALSE, FALSE, p, a, {h})
               /\ Effect(<<Modes!Do(h), Modes!Flag("sustained", TRUE)>>, A, FALSE, TRUE, p, a, {h})
               /\ Effect(<<Modes!Do(h), Modes!Flag("vr", TRUE)>>, A, TRUE, FALSE, p, a, {h})
               /\ Effect(<<Modes!Do(h), Modes!Flag("sustained", TRUE), Modes!Flag("vr", TRUE)>>,
                         A, TRUE, TRUE, p, a, {h})
    <2> DEFINE d == << >> \o <<Modes!Do(h)>>
    <2>1. Effect(d, A, FALSE, FALSE, p, a, {} \cup {h})
      BY <1>1, HintEffect
    <2>2. Effect(d, A, FALSE, FALSE, p, a, {h}) /\ ~mReady /\ TRUE \in BOOLEAN
      BY <2>1 DEF Started
    <2>3. /\ Effect(d \o <<Modes!Flag("encoder", TRUE)>>, A, FALSE, FALSE, p, a, {h})
          /\ Effect(d \o <<Modes!Flag("sustained", TRUE)>>, A, FALSE, TRUE, p, a, {h})
          /\ Effect(d \o <<Modes!Flag("vr", TRUE)>>, A, TRUE, FALSE, p, a, {h})
      BY <2>2, MidEffect, Zenon
    <2>4. Effect((d \o <<Modes!Flag("sustained", TRUE)>>) \o <<Modes!Flag("vr", TRUE)>>,
                 A, TRUE, TRUE, p, a, {h})
      BY <2>2, <2>3, MidEffect, Zenon
    <2> QED
      BY <2>3, <2>4, TwoOps, ThreeOps, Zenon
  <1>4. PICK vr, su, M : vr \in BOOLEAN /\ su \in BOOLEAN /\ Fine(vr, su, M)
    <2>1. CASE p = VE
      <3>1. modes = <<Modes!Do(VE), Modes!Flag("encoder", TRUE)>>
        BY <2>1
      <3> HIDE DEF modes
      <3>2. Effect(modes, A, FALSE, FALSE, p, a, {VE})
        BY <3>1, <1>2, <1>3
      <3>3. Len(modes) <= 3
        BY <3>1
      <3>4. Remembered(p) = <<FALSE, FALSE>>
        BY <2>1, RememberedValues
      <3>5. {VE} \cap Modes!ModeHints = HintsOf(FALSE, FALSE) /\ AL \notin {VE}
        BY DEF HintsOf, Modes!ModeHints
      <3>6. Fine(FALSE, FALSE, {VE}) /\ TRUE \in BOOLEAN /\ FALSE \in BOOLEAN
        BY <3>2, <3>3, <3>4, <3>5
      <3> HIDE DEF Fine
      <3> QED
        BY <3>6, Zenon
    <2>2. CASE p = SU
      <3>1. modes = <<Modes!Do(SU), Modes!Flag("sustained", TRUE)>>
        BY <2>2
      <3> HIDE DEF modes
      <3>2. Effect(modes, A, FALSE, TRUE, p, a, {SU})
        BY <3>1, <1>2, <1>3
      <3>3. Len(modes) <= 3
        BY <3>1
      <3>4. Remembered(p) = <<FALSE, TRUE>>
        BY <2>2, RememberedValues
      <3>5. {SU} \cap Modes!ModeHints = HintsOf(FALSE, TRUE) /\ AL \notin {SU}
        BY DEF HintsOf, Modes!ModeHints
      <3>6. Fine(FALSE, TRUE, {SU}) /\ TRUE \in BOOLEAN /\ FALSE \in BOOLEAN
        BY <3>2, <3>3, <3>4, <3>5
      <3> HIDE DEF Fine
      <3> QED
        BY <3>6, Zenon
    <2>3. CASE p = VR
      <3>1. modes = <<Modes!Do(VR), Modes!Flag("vr", TRUE)>>
        BY <2>3
      <3> HIDE DEF modes
      <3>2. Effect(modes, A, TRUE, FALSE, p, a, {VR})
        BY <3>1, <1>2, <1>3
      <3>3. Len(modes) <= 3
        BY <3>1
      <3>4. Remembered(p) = <<TRUE, FALSE>>
        BY <2>3, RememberedValues
      <3>5. {VR} \cap Modes!ModeHints = HintsOf(TRUE, FALSE) /\ AL \notin {VR}
        BY DEF HintsOf, Modes!ModeHints
      <3>6. Fine(TRUE, FALSE, {VR}) /\ TRUE \in BOOLEAN /\ FALSE \in BOOLEAN
        BY <3>2, <3>3, <3>4, <3>5
      <3> HIDE DEF Fine
      <3> QED
        BY <3>6, Zenon
    <2>4. CASE p = VS
      <3>1. modes = <<Modes!Do(VS), Modes!Flag("sustained", TRUE), Modes!Flag("vr", TRUE)>>
        BY <2>4
      <3> HIDE DEF modes
      <3>2. Effect(modes, A, TRUE, TRUE, p, a, {VS})
        BY <3>1, <1>2, <1>3
      <3>3. Len(modes) <= 3
        BY <3>1
      <3>4. Remembered(p) = <<TRUE, TRUE>>
        BY <2>4, RememberedValues
      <3>5. {VS} \cap Modes!ModeHints = HintsOf(TRUE, TRUE) /\ AL \notin {VS}
        BY DEF HintsOf, Modes!ModeHints
      <3>6. Fine(TRUE, TRUE, {VS}) /\ TRUE \in BOOLEAN /\ FALSE \in BOOLEAN
        BY <3>2, <3>3, <3>4, <3>5
      <3> HIDE DEF Fine
      <3> QED
        BY <3>6, Zenon
    <2>5. CASE p = ""
      <3>1. modes = << >>
        BY <2>5
      <3> HIDE DEF modes
      <3>2. Effect(modes, A, FALSE, FALSE, p, a, {})
        BY <3>1, <1>2, <1>1
      <3>3. Len(modes) <= 3
        BY <3>1
      <3>4. Remembered(p) = <<FALSE, FALSE>>
        BY <2>5, RememberedValues
      <3>5. {} \cap Modes!ModeHints = HintsOf(FALSE, FALSE) /\ AL \notin {}
        BY DEF HintsOf, Modes!ModeHints
      <3>6. Fine(FALSE, FALSE, {}) /\ TRUE \in BOOLEAN /\ FALSE \in BOOLEAN
        BY <3>2, <3>3, <3>4, <3>5
      <3> HIDE DEF Fine
      <3> QED
        BY <3>6, Zenon
    <2> HIDE DEF Fine
    <2> QED
      BY <2>1, <2>2, <2>3, <2>4, <2>5 DEF Started, StateProps, Modes!ModeHints
  <1> HIDE DEF modes
  <1>5. PICK N : /\ Effect(modes \o audio, A, vr, su, p, a, N) /\ Agrees(A, vr, su, p, a, N)
                 /\ Len(modes \o audio) <= 4
    <2>1. modes \in Seq(Op)
      BY <1>4 DEF Effect, Outcome
    <2>2. CASE a = "LOW_LATENCY"
      <3>1. Effect(modes \o <<Modes!Do(AL)>>, A, vr, su, p, a, M \cup {AL})
        BY <1>2, <1>4, HintEffect
      <3>2. Len(modes \o <<Modes!Do(AL)>>) <= 4
        BY <2>1, <1>4
      <3>3. Agrees(A, vr, su, p, a, M \cup {AL})
        BY <2>2, <1>4 DEF Agrees, Started, Modes!ModeHints
      <3> QED
        BY <3>1, <3>2, <3>3, <2>2
    <2>3. CASE a # "LOW_LATENCY"
      <3>1. modes \o << >> = modes
        BY <2>1
      <3>2. Agrees(A, vr, su, p, a, M)
        BY <2>3, <1>4 DEF Agrees, Started
      <3> QED
        BY <3>1, <3>2, <2>1, <2>3, <1>4
    <2> QED
      BY <2>2, <2>3
  <1>6. Prepared((modes \o audio) \o <<Modes!Flag("ready", TRUE)>>, A)
    <2>1. TRUE \in BOOLEAN
      OBVIOUS
    <2> HIDE DEF audio
    <2> QED
      BY <2>1, <1>5, LastPrepared, Zenon
  <1>7. Modes!Restore = (modes \o audio) \o <<Modes!Flag("ready", TRUE)>>
    BY DEF Modes!Restore, modes
  <1>8. Prepared(todo, allowed)
    BY <1>6, <1>7 DEF Started
  <1>9. Modes!TypeOK
    BY <1>8 DEF Started, Prepared, Modes!TypeOK, StateProps, AudioProps
  <1> QED
    BY <1>8, <1>9 DEF ModesInv

----------------------------------------------------------------------------
(* The steps *)

\* An operation moves towards where the call leads, and changes nothing about that.
LEMMA PerformStep ==
    ASSUME ModesInv, Modes!Perform
    PROVE  ModesInv'
  <1> DEFINE t == Tail(todo)
             o == Head(todo)
             flags == o[1] \in {"sustained", "vr"} /\ mReady
  <1>1. /\ todo \in Seq(Op) /\ todo # << >> /\ FlagsLast(todo) /\ DeathSafe(todo, allowed)
        /\ Len(todo) <= 5 /\ AudioAgree(todo)
    BY DEF ModesInv, Prepared, Modes!Perform
  <1>2. /\ o = todo[1] /\ o \in Op /\ t \in Seq(Op) /\ Len(todo) \in Nat /\ Len(todo) >= 1
        /\ Len(t) = Len(todo) - 1 /\ (Len(todo) = 1 => t = << >>)
        /\ \A i \in 1..Len(t) : t[i] = todo[i + 1]
    BY <1>1, TailFacts
  <1>3. PICK vr \in BOOLEAN, su \in BOOLEAN, st \in StateProps :
             ModesAgree(todo, allowed, vr, su, st)
    BY DEF ModesInv, Prepared
  <1>4. /\ hints' = CASE o[1] = "DoHint" -> hints \cup {o[2]}
                      [] o[1] = "EndHint" -> hints \ {o[2]}
                      [] OTHER -> hints
        /\ state_prop' = IF o[1] = "state" THEN o[2] ELSE state_prop
        /\ audio_prop' = IF o[1] = "audio" THEN o[2] ELSE audio_prop
        /\ mVRModeOn' = IF o[1] = "vr" THEN o[2] ELSE mVRModeOn
        /\ mSustainedPerfModeOn' = IF o[1] = "sustained" THEN o[2] ELSE mSustainedPerfModeOn
        /\ mEncoderModeOn' = IF o[1] = "encoder" THEN o[2] ELSE mEncoderModeOn
        /\ mReady' = (mReady \/ o[1] = "ready")
        /\ allowed' = IF flags THEN {<<mVRModeOn', mSustainedPerfModeOn'>>} ELSE allowed
        /\ todo' = t
    BY Zenon DEF Modes!Perform
  <1> HIDE DEF t, o
  <1>5. /\ LeadsTo(t, "vr", mVRModeOn', vr) /\ LeadsTo(t, "sustained", mSustainedPerfModeOn', su)
        /\ LeadsTo(t, "state", state_prop', st)
    BY <1>1, <1>3, <1>4, LeadsToStep DEF ModesAgree, t, o
  <1>6. ASSUME NEW h
        PROVE  HintAfter(todo, hints, h) <=> HintAfter(t, hints', h)
    <2>1. IF o = Modes!Do(h) THEN h \in hints'
          ELSE IF o = Modes!End(h) THEN h \notin hints' ELSE h \in hints' <=> h \in hints
      <3>1. o[1] = "DoHint" /\ o[2] = h => o = Modes!Do(h)
        BY <1>2 DEF Op, Modes!Do
      <3>2. o[1] = "EndHint" /\ o[2] = h => o = Modes!End(h)
        BY <1>2 DEF Op, Modes!End
      <3>3. /\ Modes!Do(h)[1] = "DoHint" /\ Modes!Do(h)[2] = h
            /\ Modes!End(h)[1] = "EndHint" /\ Modes!End(h)[2] = h
        BY DEF Modes!Do, Modes!End
      <3> QED
        BY <3>1, <3>2, <3>3, <1>4
    <2> QED
      BY <2>1, <1>1, HintAfterStep DEF t, o
  <1>7. LeadsTo(todo, "audio", audio_prop, "LOW_LATENCY")
          <=> LeadsTo(t, "audio", audio_prop', "LOW_LATENCY")
    BY <1>1, <1>4, LeadsToStep DEF t, o
  <1>8. flags => t = << >> /\ mVRModeOn' = vr /\ mSustainedPerfModeOn' = su /\ state_prop' = st
    <2> SUFFICES ASSUME flags PROVE t = << >> /\ mVRModeOn' = vr
                                    /\ mSustainedPerfModeOn' = su /\ state_prop' = st
      OBVIOUS
    <2>1. 1 \in 1..Len(todo) /\ mReady /\ todo[1][1] \in {"vr", "sustained"}
      BY <1>2
    <2>2. 1 = Len(todo)
      BY <2>1, <1>1 DEF FlagsLast
    <2>3. t = << >>
      BY <2>2, <1>2
    <2> QED
      BY <2>3, <1>5, AfterNothing
  <1>9. <<vr, su>> \in allowed' /\ Remembered(st) = <<vr, su>>
    BY <1>3, <1>4, <1>8 DEF ModesAgree
  <1>10. FlagsLast(todo)'
    <2> SUFFICES ASSUME NEW i \in 1..Len(t),
                        t[i][1] = "ready" \/ (mReady' /\ t[i][1] \in {"vr", "sustained"})
                 PROVE  i = Len(t)
      BY <1>4 DEF FlagsLast
    <2>1. i + 1 \in 1..Len(todo) /\ t[i] = todo[i + 1]
      BY <1>2
    <2>2. o[1] # "ready"
      <3>1. 1 \in 1..Len(todo) /\ 1 # Len(todo)
        BY <2>1, <1>2
      <3> QED
        BY <3>1, <1>1, <1>2 DEF FlagsLast
    <2>3. i + 1 = Len(todo)
      BY <2>1, <2>2, <1>1, <1>4 DEF FlagsLast
    <2> QED
      BY <2>3, <1>2
  <1>11. DeathSafe(todo, allowed)'
    <2>1. CASE flags
      <3>1. Remembered(state_prop') \in allowed'
        BY <2>1, <1>8, <1>9
      <3>2. todo' = << >>
        BY <2>1, <1>8, <1>4
      <3> QED
        BY <3>1, <3>2 DEF DeathSafe
    <2>2. CASE ~flags
      <3>1. allowed' = allowed
        BY <2>2, <1>4
      <3>2. Remembered(state_prop') \in allowed'
        BY <3>1, <1>1, <1>2, <1>4 DEF DeathSafe
      <3>3. \A i \in 1..Len(t) : t[i][1] = "state" => Remembered(t[i][2]) \in allowed'
        BY <3>1, <1>1, <1>2 DEF DeathSafe
      <3> QED
        BY <3>2, <3>3, <1>4 DEF DeathSafe
    <2> QED
      BY <2>1, <2>2
  <1>12. ModesAgree(todo, allowed, vr, su, st)'
    BY <1>3, <1>4, <1>5, <1>6, <1>9 DEF ModesAgree
  <1>13. AudioAgree(todo)'
    BY <1>1, <1>4, <1>6, <1>7 DEF AudioAgree
  <1>14. Prepared(todo, allowed)'
    <2>1. todo' \in Seq(Op) /\ Len(todo') <= 5
      BY <1>1, <1>2, <1>4
    <2> QED
      BY <2>1, <1>3, <1>10, <1>11, <1>12, <1>13, Zenon DEF Prepared
  <1>15. Modes!TypeOK'
    <2>1. Modes!TypeOK
      BY DEF ModesInv
    <2>2. /\ o[1] \in {"DoHint", "EndHint"} => o[2] \in AllHints
          /\ o[1] = "state" => o[2] \in StateProps
          /\ o[1] = "audio" => o[2] \in AudioProps
          /\ o[1] \in {"vr", "sustained", "encoder"} => o[2] \in BOOLEAN
      BY <1>2 DEF Op
    <2>3. hints' \subseteq AllHints /\ state_prop' \in StateProps /\ audio_prop' \in AudioProps
      BY <2>1, <2>2, <1>4 DEF Modes!TypeOK, AllHints, StateProps, AudioProps
    <2>4. mVRModeOn' \in BOOLEAN /\ mSustainedPerfModeOn' \in BOOLEAN /\ mEncoderModeOn' \in BOOLEAN
      BY <2>1, <2>2, <1>4, Zenon DEF Modes!TypeOK
    <2>5. mReady' \in BOOLEAN
      BY <1>4
    <2>6. allowed' \subseteq BOOLEAN \X BOOLEAN
      <3>1. <<mVRModeOn', mSustainedPerfModeOn'>> \in BOOLEAN \X BOOLEAN
        BY <2>4
      <3>2. allowed' \in {{<<mVRModeOn', mSustainedPerfModeOn'>>}, allowed}
        BY <1>4
      <3> QED
        BY <3>1, <3>2, <2>1 DEF Modes!TypeOK
    <2>7. Len(todo') <= 5
      BY <1>14 DEF Prepared
    <2> QED
      BY <2>3, <2>4, <2>5, <2>6, <2>7 DEF Modes!TypeOK, AllHints, StateProps, AudioProps
  <1> QED
    BY <1>14, <1>15 DEF ModesInv

\* A call that begins leaves everything as it is but the operations to do.
LEMMA BeginStep ==
    ASSUME ModesInv, NEW ops, Modes!Begin(ops), Prepared(ops, allowed'),
           allowed' \subseteq BOOLEAN \X BOOLEAN
    PROVE  ModesInv'
  <1>1. /\ todo' = ops
        /\ UNCHANGED <<mReady, mVRModeOn, mSustainedPerfModeOn, mEncoderModeOn, hints,
                       state_prop, audio_prop>>
    BY DEF Modes!Begin
  <1>2. Prepared(todo, allowed)'
    BY <1>1 DEF Prepared, FlagsLast, DeathSafe, ModesAgree, AudioAgree
  <1>3. Modes!TypeOK'
    BY <1>1 DEF ModesInv, Modes!TypeOK, Prepared
  <1> QED
    BY <1>2, <1>3 DEF ModesInv

\* No timed hint counts.
LEMMA ExpireStep ==
    ASSUME ModesInv, NEW h \in Modes!Timed, Modes!Expire(h)
    PROVE  ModesInv'
  <1>1. /\ hints' = hints \ {h}
        /\ UNCHANGED <<mReady, mVRModeOn, mSustainedPerfModeOn, mEncoderModeOn, state_prop,
                       audio_prop, todo, allowed>>
    BY DEF Modes!Expire
  <1>2. \A g \in Tracked : HintAfter(todo, hints', g) <=> HintAfter(todo, hints, g)
    BY <1>1 DEF HintAfter, Tracked, Modes!Timed, Modes!CameraHints, Modes!ModeHints
  <1>3. Prepared(todo, allowed)'
    <2>1. FlagsLast(todo)' /\ DeathSafe(todo, allowed)'
      BY <1>1 DEF ModesInv, Prepared, FlagsLast, DeathSafe
    <2>2. \A vr, su \in BOOLEAN, st \in StateProps :
            ModesAgree(todo, allowed, vr, su, st) => ModesAgree(todo, allowed, vr, su, st)'
      BY <1>1, <1>2 DEF ModesAgree, Tracked
    <2>3. AudioAgree(todo)'
      BY <1>1, <1>2 DEF ModesInv, Prepared, AudioAgree, Tracked
    <2> QED
      BY <2>1, <2>2, <2>3, <1>1 DEF ModesInv, Prepared
  <1>4. Modes!TypeOK'
    BY <1>1 DEF ModesInv, Modes!TypeOK
  <1> QED
    BY <1>3, <1>4 DEF ModesInv

\* Every death starts a process over, from properties a restart may bring back.
LEMMA DeathStep ==
    ASSUME ModesInv,
           Modes!Crash \/ Modes!FrameworkDied \/ Modes!CameraDied \/ Modes!AudioDied
    PROVE  Started' \/ UNCHANGED modeVars
  <1>1. /\ state_prop \in StateProps /\ audio_prop \in AudioProps
        /\ allowed \subseteq BOOLEAN \X BOOLEAN /\ Remembered(state_prop) \in allowed
    BY DEF ModesInv, Modes!TypeOK, Prepared, DeathSafe, StateProps, AudioProps
  <1>2. "" \in StateProps /\ "" \in AudioProps /\ Remembered("") = <<FALSE, FALSE>>
        /\ Remembered("VIDEO_ENCODE") = <<FALSE, FALSE>>
    BY RememberedValues DEF StateProps, AudioProps
  <1>3. CASE Modes!Crash
    BY <1>1, <1>3 DEF Modes!Crash, Modes!Restart, Started
  <1>4. CASE Modes!FrameworkDied
    <2>1. /\ state_prop' = "" /\ audio_prop' = "" /\ allowed' = {<<FALSE, FALSE>>}
          /\ Modes!Restart
      BY <1>4 DEF Modes!FrameworkDied
    <2>2. allowed' \subseteq BOOLEAN \X BOOLEAN
      <3>1. <<FALSE, FALSE>> \in BOOLEAN \X BOOLEAN
        OBVIOUS
      <3> QED
        BY <3>1, <2>1
    <2>3. Remembered(state_prop') \in allowed'
      BY <2>1, <1>2
    <2> QED
      BY <2>1, <2>2, <2>3, <1>2, Zenon DEF Modes!Restart, Started
  <1>5. CASE Modes!CameraDied /\ state_prop = "VIDEO_ENCODE"
    BY <1>1, <1>2, <1>5 DEF Modes!CameraDied, Modes!Restart, Started
  <1>6. CASE Modes!CameraDied /\ state_prop # "VIDEO_ENCODE"
    BY <1>6 DEF Modes!CameraDied, modeVars
  <1>7. CASE Modes!AudioDied
    BY <1>1, <1>2, <1>7 DEF Modes!AudioDied, Modes!Restart, Started
  <1> QED
    BY <1>3, <1>4, <1>5, <1>6, <1>7

\* Every step of either part of the power HAL keeps the invariant.
LEMMA ModesStep == ModesInv /\ [Boosts \/ Switches]_halVars => ModesInv'
  <1> SUFFICES ASSUME ModesInv, [Boosts \/ Switches]_halVars PROVE ModesInv'
    OBVIOUS
  <1>1. CASE UNCHANGED modeVars
    <2>1. /\ UNCHANGED mReady /\ UNCHANGED mVRModeOn /\ UNCHANGED mSustainedPerfModeOn
          /\ UNCHANGED mEncoderModeOn /\ UNCHANGED hints /\ UNCHANGED state_prop
          /\ UNCHANGED audio_prop /\ UNCHANGED todo /\ UNCHANGED allowed
      BY <1>1 DEF modeVars
    <2>2. Modes!TypeOK'
      BY <2>1 DEF ModesInv, Modes!TypeOK
    <2> QED
      BY <2>1, <2>2 DEF ModesInv, Prepared, FlagsLast, DeathSafe, ModesAgree, AudioAgree
  <1>2. CASE Modes!powerHint
    <2>1. PICK on \in BOOLEAN :
            \/ Modes!CallOther(Modes!VideoEncode(on))
            \/ Modes!CallMode(Modes!SustainedPerformance(on), mVRModeOn, on)
            \/ Modes!CallMode(Modes!VRMode(on), on, mSustainedPerfModeOn)
            \/ Modes!CallOther(Modes!IfNotExclusive("LAUNCH", on))
      BY <1>2 DEF Modes!powerHint
    <2>2. /\ allowed \subseteq BOOLEAN \X BOOLEAN
          /\ <<mVRModeOn, mSustainedPerfModeOn>> \in BOOLEAN \X BOOLEAN
          /\ <<mVRModeOn, on>> \in BOOLEAN \X BOOLEAN
          /\ <<on, mSustainedPerfModeOn>> \in BOOLEAN \X BOOLEAN
      BY DEF ModesInv, Modes!TypeOK
    <2>3. todo = << >>
      BY <2>1 DEF Modes!CallOther, Modes!CallMode, Modes!Begin
    <2>4. CASE Modes!CallOther(Modes!VideoEncode(on))
      BY <2>2, <2>3, <2>4, OthersPrepared, BeginStep DEF Modes!CallOther
    <2>5. CASE Modes!CallOther(Modes!IfNotExclusive("LAUNCH", on))
      BY <2>2, <2>3, <2>5, OthersPrepared, BeginStep DEF Modes!CallOther
    <2>6. CASE Modes!CallMode(Modes!SustainedPerformance(on), mVRModeOn, on)
      <3>1. /\ Modes!Begin(Modes!SustainedPerformance(on))
            /\ allowed' = {<<mVRModeOn, mSustainedPerfModeOn>>, <<mVRModeOn, on>>}
        BY <2>6 DEF Modes!CallMode
      <3> QED
        BY <3>1, <2>2, <2>3, SustainedPrepared, BeginStep
    <2>7. CASE Modes!CallMode(Modes!VRMode(on), on, mSustainedPerfModeOn)
      <3>1. /\ Modes!Begin(Modes!VRMode(on))
            /\ allowed' = {<<mVRModeOn, mSustainedPerfModeOn>>, <<on, mSustainedPerfModeOn>>}
        BY <2>7 DEF Modes!CallMode
      <3> QED
        BY <3>1, <2>2, <2>3, VRPrepared, BeginStep
    <2> QED
      BY <2>1, <2>4, <2>5, <2>6, <2>7
  <1>3. CASE Modes!powerHintAsync_1_2
    <2>1. PICK on \in BOOLEAN :
            \/ Modes!CallOther(Modes!AudioLowLatency(on))
            \/ Modes!CallOther(Modes!IfNotExclusive("AUDIO_STREAMING", on))
            \/ \E h \in Modes!CameraHints : Modes!CallOther(Modes!Camera(h, on))
      BY <1>3 DEF Modes!powerHintAsync_1_2
    <2>2. allowed \subseteq BOOLEAN \X BOOLEAN
      BY DEF ModesInv, Modes!TypeOK
    <2>3. todo = << >>
      BY <2>1 DEF Modes!CallOther, Modes!Begin
    <2>4. CASE Modes!CallOther(Modes!AudioLowLatency(on))
      BY <2>2, <2>3, <2>4, OthersPrepared, BeginStep DEF Modes!CallOther
    <2>5. CASE Modes!CallOther(Modes!IfNotExclusive("AUDIO_STREAMING", on))
      BY <2>2, <2>3, <2>5, OthersPrepared, BeginStep DEF Modes!CallOther
    <2>6. ASSUME NEW h \in Modes!CameraHints, Modes!CallOther(Modes!Camera(h, on))
          PROVE  ModesInv'
      BY <2>2, <2>3, <2>6, OthersPrepared, BeginStep DEF Modes!CallOther
    <2> QED
      BY <2>1, <2>4, <2>5, <2>6
  <1>4. CASE Modes!Perform
    BY <1>4, PerformStep
  <1>5. CASE \E h \in Modes!Timed : Modes!Expire(h)
    BY <1>5, ExpireStep
  <1>6. CASE Modes!Crash \/ Modes!FrameworkDied \/ Modes!CameraDied \/ Modes!AudioDied
    <2>1. Started' => ModesInv'
      BY RestartPrepared, PTL
    <2> QED
      BY <2>1, <1>1, <1>6, DeathStep
  <1>7. UNCHANGED modeVars \/ Modes!Next
    BY DEF Boosts, Switches, halVars
  <1> QED
    BY <1>1, <1>2, <1>3, <1>4, <1>5, <1>6, <1>7 DEF Modes!Next

\* Whatever calls of powerHint, expiries and deaths led there, what is left of the
\* call in progress leads to modes, hints and properties that agree, and a death at any
\* point of it to modes that may come back.
THEOREM ModesInvariant == HalSpec => []ModesInv
  <1>1. HalInit => ModesInv
    <2> SUFFICES ASSUME HalInit PROVE ModesInv
      OBVIOUS
    <2>1. Modes!Init
      BY DEF HalInit
    <2>2. <<FALSE, FALSE>> \in BOOLEAN \X BOOLEAN
      OBVIOUS
    <2>3. Started
      BY <2>1, <2>2, RememberedValues DEF Modes!Init, Started, StateProps, AudioProps
    <2> QED
      BY <2>3, RestartPrepared
  <1> QED
    BY <1>1, ModesStep, PTL DEF HalSpec

\* Between calls exactly the hint of the current combination of VR and sustained mode
\* is active, and the audio hint exactly while its property is set: the hints of
\* HintManager never drift from the flags of Power.cpp.
THEOREM ModeHintsAlwaysExact == HalSpec => []ModeHintsExact
  <1>1. ModesInv => ModeHintsExact
    <2> SUFFICES ASSUME ModesInv, Modes!Quiet
                 PROVE  /\ hints \cap Modes!ModeHints = Modes!ModeHint
                        /\ "AUDIO_LOW_LATENCY" \in hints <=> audio_prop = "LOW_LATENCY"
      BY DEF ModeHintsExact, Modes!ModeHintsExact, Modes!AudioAgrees
    <2>1. Agrees(allowed, mVRModeOn, mSustainedPerfModeOn, state_prop, audio_prop, hints)
      BY BetweenCalls DEF Modes!Quiet
    <2> QED
      BY <2>1 DEF Agrees, HintsOf, Modes!ModeHint
  <1> QED
    BY <1>1, ModesInvariant, PTL

\* After a death, also one in the middle of a call, the modes that come back are those
\* before or those after that call.
THEOREM ModesAlwaysSurvive == HalSpec => []ModesSurvive
  <1>1. ModesInv => ModesSurvive
    <2> SUFFICES ASSUME ModesInv, Modes!Quiet
                 PROVE  <<mVRModeOn, mSustainedPerfModeOn>> \in allowed
      BY DEF ModesSurvive, Modes!ModesSurvive
    <2>1. Agrees(allowed, mVRModeOn, mSustainedPerfModeOn, state_prop, audio_prop, hints)
      BY BetweenCalls DEF Modes!Quiet
    <2> QED
      BY <2>1 DEF Agrees
  <1> QED
    BY <1>1, ModesInvariant, PTL
===============================================================================

------------------------------ MODULE Interaction ------------------------------
(***************************************************************************)
(* The power HAL's INTERACTION boost (InteractionHandler.cpp).  The binder *)
(* thread acquires the boost; the handler's own thread (Routine) sleeps    *)
(* until there is one, waits for the display to become idle or for the     *)
(* boost's time to pass, and releases it.  An acquire in the meantime      *)
(* aborts that wait through an event fd.                                   *)
(*                                                                         *)
(* A section under mLock is one step.  Time is relative: a clock tick      *)
(* moves every pending time on by one.  The calls poll, read and open do   *)
(* not fail.                                                               *)
(***************************************************************************)
EXTENDS Naturals

CONSTANTS
    Durations,          \* what powerHint passes to Acquire, plus 650 ms
    mWaitMs,            \* the first wait, without a look at the display
    mMinDurationMs, mMaxDurationMs

ASSUME InteractionAssumption ==
    /\ Durations \subseteq Nat
    /\ mWaitMs \in Nat
    /\ mMinDurationMs \in Nat /\ mMaxDurationMs \in Nat
    /\ mMinDurationMs <= mMaxDurationMs

VARIABLES
    mState, mDurationMs,
    elapsed,        \* the time since mLastTimespec, up to mMaxDurationMs
    eventfd,        \* the counter of mEventFd
    hint,           \* the hint INTERACTION is active in HintManager
    pc,             \* of Routine
    timeout_ms, left,   \* WaitForIdle's argument; the rest of the current poll
    idle,           \* the display's idle_state
    ended,          \* how the last WaitForIdle ended
    owner,          \* of the handler: "running", "exiting", "joining" or "closed"
    promised        \* the time for which the boost under way has been asked

vars == <<mState, mDurationMs, elapsed, eventfd, hint, pc, timeout_ms, left,
          idle, ended, owner, promised>>

Times == 0..mMaxDurationMs
Waits == 0..(mMaxDurationMs + mWaitMs)

\* Init(): the thread starts with the state IDLE.
Init ==
    /\ mState = "IDLE" /\ mDurationMs = 0 /\ elapsed = mMaxDurationMs
    /\ eventfd = 0 /\ hint = FALSE
    /\ pc = "check" /\ timeout_ms = 0 /\ left = 0
    /\ idle = FALSE /\ ended = "none"
    /\ owner = "running" /\ promised = 0

AtMost(a, b) == IF a < b THEN a ELSE b
AtLeast(a, b) == IF a > b THEN a ELSE b

----------------------------------------------------------------------------
(* The binder thread *)

FinalDuration(d) ==
    IF d > mMaxDurationMs THEN mMaxDurationMs
    ELSE IF d > mMinDurationMs THEN d ELSE mMinDurationMs

\* Mutant: the time that has passed is not subtracted.
Covered_NotElapsed(d) ==
    mState # "IDLE" /\ FinalDuration(d) <= mDurationMs

\* The boost already under way lasts as long as this one.
Covered(d) ==
    /\ mState # "IDLE"
    /\ FinalDuration(d) <= mDurationMs
    /\ elapsed <= mDurationMs - FinalDuration(d)

\* notify_one and notify_all: Routine is the only waiter.
Notify == pc' = IF pc = "sleep" THEN "check" ELSE pc

\* Mutant: Routine is not notified.
Acquire_NotNotified(d) ==
    /\ owner = "running" /\ mState # "UNINITIALIZED"
    /\ promised' = AtLeast(promised, FinalDuration(d))
    /\ IF Covered(d)
       THEN UNCHANGED <<mState, mDurationMs, elapsed, eventfd, hint>>
       ELSE /\ elapsed' = 0
            /\ mDurationMs' = FinalDuration(d)
            /\ eventfd' = IF mState = "WAITING" THEN eventfd + 1 ELSE eventfd
            /\ hint' = (hint \/ mState = "IDLE")
            /\ mState' = "INTERACTION"
    /\ UNCHANGED <<pc, timeout_ms, left, idle, ended, owner>>

Acquire(d) ==
    /\ owner = "running" /\ mState # "UNINITIALIZED"
    /\ promised' = AtLeast(promised, FinalDuration(d))
    /\ IF Covered(d)
       THEN UNCHANGED <<mState, mDurationMs, elapsed, eventfd, hint, pc>>
       ELSE /\ elapsed' = 0
            /\ mDurationMs' = FinalDuration(d)
            /\ eventfd' = IF mState = "WAITING" THEN eventfd + 1 ELSE eventfd
            /\ hint' = (hint \/ mState = "IDLE")
            /\ mState' = "INTERACTION"
            /\ Notify
    /\ UNCHANGED <<timeout_ms, left, idle, ended, owner>>

\* Exit(), up to the unlock.
Exit ==
    /\ owner = "running"
    /\ eventfd' = eventfd + 1
    /\ mState' = "UNINITIALIZED"
    /\ owner' = "exiting"
    /\ UNCHANGED <<mDurationMs, elapsed, hint, pc, timeout_ms, left, idle, ended, promised>>

ExitNotify ==
    /\ owner = "exiting"
    /\ Notify
    /\ owner' = "joining"
    /\ UNCHANGED <<mState, mDurationMs, elapsed, eventfd, hint, timeout_ms, left, idle,
                   ended, promised>>

\* join returns and the file descriptors are closed.
ExitJoin ==
    /\ owner = "joining" /\ pc = "exited"
    /\ owner' = "closed"
    /\ UNCHANGED <<mState, mDurationMs, elapsed, eventfd, hint, pc, timeout_ms, left, idle,
                   ended, promised>>

----------------------------------------------------------------------------
(* Routine *)

\* The predicate of mCond.wait, and what follows up to the unlock.
Check ==
    /\ pc = "check"
    /\ \/ mState = "IDLE" /\ pc' = "sleep" /\ UNCHANGED mState
       \/ mState = "UNINITIALIZED" /\ pc' = "exited" /\ UNCHANGED mState
       \/ mState \in {"INTERACTION", "WAITING"} /\ pc' = "call" /\ mState' = "WAITING"
    /\ UNCHANGED <<mDurationMs, elapsed, eventfd, hint, timeout_ms, left, idle, ended,
                   owner, promised>>

SpuriousWakeup ==
    /\ pc = "sleep"
    /\ pc' = "check"
    /\ UNCHANGED <<mState, mDurationMs, elapsed, eventfd, hint, timeout_ms, left, idle,
                   ended, owner, promised>>

\* The arguments of WaitForIdle are read without the lock.
WaitForIdle ==
    /\ pc = "call"
    /\ timeout_ms' = mDurationMs
    /\ left' = mWaitMs
    /\ pc' = "first_poll"
    /\ UNCHANGED <<mState, mDurationMs, elapsed, eventfd, hint, idle, ended, owner, promised>>

EndWait(reason) == pc' = "release" /\ ended' = reason

\* poll(pfd, 1, wait_ms), on the event fd alone
FirstPoll ==
    /\ pc = "first_poll"
    /\ \/ eventfd > 0 /\ EndWait("abort")
       \/ eventfd = 0 /\ left = 0 /\ pc' = "pread" /\ UNCHANGED ended
    /\ UNCHANGED <<mState, mDurationMs, elapsed, eventfd, hint, timeout_ms, left, idle,
                   owner, promised>>

\* pread of idle_state
ReadIdle ==
    /\ pc = "pread"
    /\ IF idle
       THEN EndWait("idle") /\ UNCHANGED left
       ELSE pc' = "second_poll" /\ left' = timeout_ms /\ UNCHANGED ended
    /\ UNCHANGED <<mState, mDurationMs, elapsed, eventfd, hint, timeout_ms, idle, owner, promised>>

\* poll(pfd, 2, timeout_ms)
SecondPoll ==
    /\ pc = "second_poll"
    /\ \/ eventfd > 0 /\ EndWait("abort")
       \/ eventfd = 0 /\ idle /\ EndWait("idle")
       \/ eventfd = 0 /\ ~idle /\ left = 0 /\ EndWait("timeout")
    /\ UNCHANGED <<mState, mDurationMs, elapsed, eventfd, hint, timeout_ms, left, idle,
                   owner, promised>>

\* Mutant: the state stays WAITING.
Release_StateKept ==
    /\ pc = "release"
    /\ IF mState = "WAITING"
       THEN hint' = FALSE /\ UNCHANGED eventfd
       ELSE eventfd' = 0 /\ UNCHANGED hint
    /\ pc' = "check"
    /\ promised' = IF hint' THEN promised ELSE 0
    /\ UNCHANGED <<mState, mDurationMs, elapsed, timeout_ms, left, idle, ended, owner>>

Release ==
    /\ pc = "release"
    /\ IF mState = "WAITING"
       THEN hint' = FALSE /\ mState' = "IDLE" /\ UNCHANGED eventfd
       ELSE eventfd' = 0 /\ UNCHANGED <<hint, mState>>
    /\ pc' = "check"
    /\ promised' = IF hint' THEN promised ELSE 0
    /\ UNCHANGED <<mDurationMs, elapsed, timeout_ms, left, idle, ended, owner>>

----------------------------------------------------------------------------
Display ==
    /\ idle' = ~idle
    /\ UNCHANGED <<mState, mDurationMs, elapsed, eventfd, hint, pc, timeout_ms, left, ended,
                   owner, promised>>

Earlier(t) == IF t = 0 THEN 0 ELSE t - 1

Tick ==
    /\ elapsed' = AtMost(elapsed + 1, mMaxDurationMs)
    /\ left' = Earlier(left)
    /\ promised' = Earlier(promised)
    /\ UNCHANGED <<mState, mDurationMs, eventfd, hint, pc, timeout_ms, idle, ended, owner>>

RoutineStep == Check \/ WaitForIdle \/ FirstPoll \/ ReadIdle \/ SecondPoll \/ Release

Next ==
    \/ \E d \in Durations : Acquire(d)
    \/ Exit \/ ExitNotify \/ ExitJoin
    \/ RoutineStep \/ SpuriousWakeup
    \/ Display \/ Tick

Spec == Init /\ [][Next]_vars

\* Routine and a destructor that has begun run on, and time passes.
FairSpec ==
    /\ Spec
    /\ WF_vars(RoutineStep)
    /\ WF_vars(ExitNotify) /\ WF_vars(ExitJoin)
    /\ WF_vars(Tick)

----------------------------------------------------------------------------
(* Properties *)

States == {"UNINITIALIZED", "IDLE", "INTERACTION", "WAITING"}

\* Type invariant of the handler, its worker and its owner.
TypeOK ==
    /\ mState \in States
    /\ mDurationMs \in Times /\ elapsed \in Times /\ promised \in Times
    /\ eventfd \in Nat
    /\ hint \in BOOLEAN /\ idle \in BOOLEAN
    /\ pc \in {"check", "sleep", "call", "first_poll", "pread", "second_poll", "release", "exited"}
    /\ timeout_ms \in Times /\ left \in Waits
    /\ ended \in {"none", "abort", "idle", "timeout"}
    /\ owner \in {"running", "exiting", "joining", "closed"}

\* The hint is active exactly while the state machine says so.
HintMatchesState ==
    mState # "UNINITIALIZED" => (hint <=> mState \in {"INTERACTION", "WAITING"})

Waiting == pc \in {"call", "first_poll", "pread", "second_poll", "release"}

\* The event fd is set exactly when the wait in progress has been overtaken by
\* an Acquire or by Exit: no abort is lost, and none is left over to cut the
\* next wait short.
AbortsExact ==
    /\ Waiting => (eventfd > 0 <=> mState # "WAITING")
    /\ ~Waiting /\ mState # "UNINITIALIZED" => eventfd = 0
    /\ eventfd <= 2

\* The hint, the state and the event fd of the handler agree.
HandlerSound == TypeOK /\ HintMatchesState /\ AbortsExact

\* A boost is dropped before its time only because the display was idle, also
\* when the request was answered with the remark that an earlier one covers it.
BoostLasts == [][hint /\ ~hint' => ended = "idle" \/ promised = 0]_vars

\* Once nobody asks any more the boost is released.
BoostEnds ==
    <>[][~\E d \in Durations : Acquire(d)]_vars => (hint ~> (~hint \/ mState = "UNINITIALIZED"))

\* The destructor's join returns.
ExitReturns == owner = "exiting" ~> owner = "closed"

\* The worker lets go: of the boost, and of the thread that waits for its end.
WorkerLetsGo == BoostEnds /\ ExitReturns
==============================================================================

------------------------------ MODULE PowerHints ------------------------------
(***************************************************************************)
(* The modes of the power HAL (Power.cpp).  A call of powerHint or         *)
(* powerHintAsync_1_2 is a sequence of operations on HintManager, on the   *)
(* system properties that survive the process, and on the mode flags; the  *)
(* service has one binder thread, so calls do not overlap.  The process    *)
(* may die between any two operations; its init thread restores the modes  *)
(* from the properties.  init itself restarts the service when one of its  *)
(* clients has died (the .rc file).                                        *)
(*                                                                         *)
(* SetProperty and the hints of HintManager do not fail, and a restarted   *)
(* HintManager starts without hints (ResetOnInit in powerhint.json).  The  *)
(* INTERACTION hint is the module Interaction.                             *)
(***************************************************************************)
EXTENDS Naturals, Sequences

VARIABLES
    mReady, mVRModeOn, mSustainedPerfModeOn, mEncoderModeOn,
    hints,          \* the hints active in HintManager
    state_prop,     \* vendor.powerhal.state
    audio_prop,     \* vendor.powerhal.audio
    todo,           \* the rest of the call, or of the init thread's work
    allowed         \* the modes a restart may bring back: <<VR, sustained>>

vars == <<mReady, mVRModeOn, mSustainedPerfModeOn, mEncoderModeOn, hints, state_prop,
          audio_prop, todo, allowed>>

Do(h) == <<"DoHint", h>>
End(h) == <<"EndHint", h>>
Set(v) == <<"state", v>>
SetAudio(v) == <<"audio", v>>
Flag(f, b) == <<f, b>>

\* The init thread: the hints of the state that the properties remember.
Restore ==
    (CASE state_prop = "VIDEO_ENCODE" -> <<Do("VIDEO_ENCODE"), Flag("encoder", TRUE)>>
       [] state_prop = "SUSTAINED_PERFORMANCE" ->
            <<Do("SUSTAINED_PERFORMANCE"), Flag("sustained", TRUE)>>
       [] state_prop = "VR_MODE" -> <<Do("VR_MODE"), Flag("vr", TRUE)>>
       [] state_prop = "VR_SUSTAINED_PERFORMANCE" ->
            <<Do("VR_SUSTAINED_PERFORMANCE"), Flag("sustained", TRUE), Flag("vr", TRUE)>>
       [] OTHER -> << >>)
    \o (IF audio_prop = "LOW_LATENCY" THEN <<Do("AUDIO_LOW_LATENCY")>> ELSE << >>)
    \o <<Flag("ready", TRUE)>>

Init ==
    /\ mReady = FALSE
    /\ mVRModeOn = FALSE /\ mSustainedPerfModeOn = FALSE /\ mEncoderModeOn = FALSE
    /\ hints = {} /\ state_prop = "" /\ audio_prop = ""
    /\ todo = Restore
    /\ allowed = {<<FALSE, FALSE>>}

----------------------------------------------------------------------------
(* The operations of each hint; on is data # 0. *)

Exclusive == mVRModeOn \/ mSustainedPerfModeOn

VideoEncode(on) ==
    IF Exclusive THEN << >>
    ELSE IF on THEN <<Do("VIDEO_ENCODE"), Set("VIDEO_ENCODE"), Flag("encoder", TRUE)>>
    ELSE <<End("VIDEO_ENCODE"), Set(""), Flag("encoder", FALSE)>>

\* Mutant: the mode is switched as if VR mode did not exist.
SustainedPerformance_NoVR(on) ==
    IF on /\ ~mSustainedPerfModeOn
    THEN <<Do("SUSTAINED_PERFORMANCE"), Set("SUSTAINED_PERFORMANCE"), Flag("sustained", TRUE)>>
    ELSE IF ~on /\ mSustainedPerfModeOn
    THEN <<End("SUSTAINED_PERFORMANCE"), Set(""), Flag("sustained", FALSE)>>
    ELSE << >>

SustainedPerformance(on) ==
    IF on /\ ~mSustainedPerfModeOn
    THEN (IF mVRModeOn
          THEN <<End("VR_MODE"), Do("VR_SUSTAINED_PERFORMANCE"), Set("VR_SUSTAINED_PERFORMANCE")>>
          ELSE <<Do("SUSTAINED_PERFORMANCE"), Set("SUSTAINED_PERFORMANCE")>>)
         \o <<Flag("sustained", TRUE)>>
    ELSE IF ~on /\ mSustainedPerfModeOn
    THEN <<End("VR_SUSTAINED_PERFORMANCE"), End("SUSTAINED_PERFORMANCE")>>
         \o (IF mVRModeOn THEN <<Do("VR_MODE"), Set("VR_MODE")>> ELSE <<Set("")>>)
         \o <<Flag("sustained", FALSE)>>
    ELSE << >>

\* Mutant: back to sustained mode without its property.
VRMode_Forgets(on) ==
    IF on /\ ~mVRModeOn
    THEN (IF mSustainedPerfModeOn
          THEN <<End("SUSTAINED_PERFORMANCE"), Do("VR_SUSTAINED_PERFORMANCE"),
                 Set("VR_SUSTAINED_PERFORMANCE")>>
          ELSE <<Do("VR_MODE"), Set("VR_MODE")>>)
         \o <<Flag("vr", TRUE)>>
    ELSE IF ~on /\ mVRModeOn
    THEN <<End("VR_SUSTAINED_PERFORMANCE"), End("VR_MODE")>>
         \o (IF mSustainedPerfModeOn THEN <<Do("SUSTAINED_PERFORMANCE")>> ELSE << >>)
         \o <<Set(""), Flag("vr", FALSE)>>
    ELSE << >>

VRMode(on) ==
    IF on /\ ~mVRModeOn
    THEN (IF mSustainedPerfModeOn
          THEN <<End("SUSTAINED_PERFORMANCE"), Do("VR_SUSTAINED_PERFORMANCE"),
                 Set("VR_SUSTAINED_PERFORMANCE")>>
          ELSE <<Do("VR_MODE"), Set("VR_MODE")>>)
         \o <<Flag("vr", TRUE)>>
    ELSE IF ~on /\ mVRModeOn
    THEN <<End("VR_SUSTAINED_PERFORMANCE"), End("VR_MODE")>>
         \o (IF mSustainedPerfModeOn
             THEN <<Do("SUSTAINED_PERFORMANCE"), Set("SUSTAINED_PERFORMANCE")>> ELSE <<Set("")>>)
         \o <<Flag("vr", FALSE)>>
    ELSE << >>

\* LAUNCH and AUDIO_STREAMING
IfNotExclusive(h, on) ==
    IF Exclusive THEN << >> ELSE IF on THEN <<Do(h)>> ELSE <<End(h)>>

AudioLowLatency(on) ==
    IF on THEN <<Do("AUDIO_LOW_LATENCY"), SetAudio("LOW_LATENCY")>>
    ELSE <<End("AUDIO_LOW_LATENCY"), SetAudio("")>>

\* CAMERA_LAUNCH, CAMERA_STREAMING and CAMERA_SHOT, for a time
Camera(h, on) ==
    IF ~on THEN <<End(h)>>
    ELSE IF h = "CAMERA_LAUNCH" THEN <<Do(h), Do("LAUNCH")>> ELSE <<Do(h)>>

CameraHints == {"CAMERA_LAUNCH", "CAMERA_STREAMING", "CAMERA_SHOT"}
Timed == {"LAUNCH", "AUDIO_STREAMING"} \cup CameraHints

----------------------------------------------------------------------------
\* A call begins only when the binder thread is free, and does nothing before
\* the init thread is done.
Begin(ops) ==
    /\ mReady /\ todo = << >>
    /\ todo' = ops
    /\ UNCHANGED <<mReady, mVRModeOn, mSustainedPerfModeOn, mEncoderModeOn, hints,
                   state_prop, audio_prop>>

\* If the process dies during the call its outcome is open.
CallMode(ops, vr, sustained) ==
    /\ Begin(ops)
    /\ allowed' = {<<mVRModeOn, mSustainedPerfModeOn>>, <<vr, sustained>>}

CallOther(ops) ==
    /\ Begin(ops)
    /\ UNCHANGED allowed

powerHint ==
    \E on \in BOOLEAN :
        \/ CallOther(VideoEncode(on))
        \/ CallMode(SustainedPerformance(on), mVRModeOn, on)
        \/ CallMode(VRMode(on), on, mSustainedPerfModeOn)
        \/ CallOther(IfNotExclusive("LAUNCH", on))

powerHintAsync_1_2 ==
    \E on \in BOOLEAN :
        \/ CallOther(AudioLowLatency(on))
        \/ CallOther(IfNotExclusive("AUDIO_STREAMING", on))
        \/ \E h \in CameraHints : CallOther(Camera(h, on))

\* One operation of the call in progress.
Perform ==
    /\ todo # << >>
    /\ LET op == Head(todo)[1]
           x == Head(todo)[2]
       IN  /\ hints' = CASE op = "DoHint" -> hints \cup {x}
                         [] op = "EndHint" -> hints \ {x}
                         [] OTHER -> hints
           /\ state_prop' = IF op = "state" THEN x ELSE state_prop
           /\ audio_prop' = IF op = "audio" THEN x ELSE audio_prop
           /\ mVRModeOn' = IF op = "vr" THEN x ELSE mVRModeOn
           /\ mSustainedPerfModeOn' = IF op = "sustained" THEN x ELSE mSustainedPerfModeOn
           /\ mEncoderModeOn' = IF op = "encoder" THEN x ELSE mEncoderModeOn
           /\ mReady' = (mReady \/ op = "ready")
           /\ allowed' = IF op \in {"sustained", "vr"} /\ mReady
                         THEN {<<mVRModeOn', mSustainedPerfModeOn'>>} ELSE allowed
    /\ todo' = Tail(todo)

\* HintManager ends a hint with a duration by itself.
Expire(h) ==
    /\ h \in hints
    /\ hints' = hints \ {h}
    /\ UNCHANGED <<mReady, mVRModeOn, mSustainedPerfModeOn, mEncoderModeOn, state_prop,
                   audio_prop, todo, allowed>>

----------------------------------------------------------------------------
(* Deaths.  The new process starts over, with the properties as they are. *)

Restart ==
    /\ mReady' = FALSE
    /\ mVRModeOn' = FALSE /\ mSustainedPerfModeOn' = FALSE /\ mEncoderModeOn' = FALSE
    /\ hints' = {}
    /\ todo' = Restore'

Crash ==
    /\ UNCHANGED <<state_prop, audio_prop, allowed>>
    /\ Restart

\* "restart powerHAL when framework died"
FrameworkDied ==
    /\ state_prop' = "" /\ audio_prop' = ""
    /\ Restart
    /\ allowed' = {<<FALSE, FALSE>>}

\* "restart powerHAL when cameraHAL died", if the state is VIDEO_ENCODE
CameraDied ==
    /\ UNCHANGED allowed
    /\ IF state_prop = "VIDEO_ENCODE"
       THEN state_prop' = "" /\ audio_prop' = "" /\ Restart
       ELSE UNCHANGED <<mReady, mVRModeOn, mSustainedPerfModeOn, mEncoderModeOn, hints,
                        state_prop, audio_prop, todo>>

\* "restart powerHAL when audioHAL died", if it had asked for low latency
AudioDied ==
    /\ audio_prop = "LOW_LATENCY"
    /\ audio_prop' = ""
    /\ UNCHANGED <<state_prop, allowed>>
    /\ Restart

Next ==
    \/ powerHint
    \/ powerHintAsync_1_2
    \/ Perform
    \/ \E h \in Timed : Expire(h)
    \/ Crash \/ FrameworkDied \/ CameraDied \/ AudioDied

Spec == Init /\ [][Next]_vars

----------------------------------------------------------------------------
(* Properties *)

ModeHints == {"SUSTAINED_PERFORMANCE", "VR_MODE", "VR_SUSTAINED_PERFORMANCE"}
Quiet == mReady /\ todo = << >>

\* The power HAL, its properties and the pending calls of one handler.
TypeOK ==
    /\ mReady \in BOOLEAN
    /\ mVRModeOn \in BOOLEAN /\ mSustainedPerfModeOn \in BOOLEAN /\ mEncoderModeOn \in BOOLEAN
    /\ hints \subseteq ModeHints \cup Timed \cup {"VIDEO_ENCODE", "AUDIO_LOW_LATENCY"}
    /\ state_prop \in ModeHints \cup {"", "VIDEO_ENCODE"}
    /\ audio_prop \in {"", "LOW_LATENCY"}
    /\ Len(todo) <= 5
    /\ allowed \subseteq BOOLEAN \X BOOLEAN

ModeHint ==
    IF mVRModeOn /\ mSustainedPerfModeOn THEN {"VR_SUSTAINED_PERFORMANCE"}
    ELSE IF mVRModeOn THEN {"VR_MODE"}
    ELSE IF mSustainedPerfModeOn THEN {"SUSTAINED_PERFORMANCE"} ELSE {}

\* Between calls exactly the hint of the current combination of VR and
\* sustained mode is active, whatever calls and deaths led there.
ModeHintsExact == Quiet => hints \cap ModeHints = ModeHint

\* Modes survive the process: after a death, also one in the middle of a call,
\* the modes are those before or those after that call, and after the death of
\* the framework there are none.
ModesSurvive == Quiet => <<mVRModeOn, mSustainedPerfModeOn>> \in allowed

\* The audio hint and the property that is to restore it agree between calls.
AudioAgrees == Quiet => ("AUDIO_LOW_LATENCY" \in hints <=> audio_prop = "LOW_LATENCY")
==============================================================================

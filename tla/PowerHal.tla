------------------------------- MODULE PowerHal -------------------------------
(***************************************************************************)
(* The two parts of the power HAL that keep state: the INTERACTION boost   *)
(* with its own thread, and the modes.  powerHint passes a boost on to the *)
(* handler unless a mode excludes it, and that is all they have to do with *)
(* each other; Interaction lets a boost be asked for at any time.  A       *)
(* behaviour here is one of either part.                                   *)
(***************************************************************************)
EXTENDS Interaction

VARIABLES mReady, mVRModeOn, mSustainedPerfModeOn, mEncoderModeOn, hints, state_prop,
          audio_prop, todo, allowed, part

Modes == INSTANCE PowerHints

modeVars == <<mReady, mVRModeOn, mSustainedPerfModeOn, mEncoderModeOn, hints, state_prop,
              audio_prop, todo, allowed>>
halVars == <<vars, modeVars, part>>

HalInit == Init /\ Modes!Init /\ part \in {"interaction", "modes"}

Boosts == part = "interaction" /\ Next /\ UNCHANGED <<modeVars, part>>
Switches == part = "modes" /\ Modes!Next /\ UNCHANGED <<vars, part>>

\* The fairness of Interaction, in the behaviours that are its own.
Runs(A) == part = "interaction" /\ A /\ UNCHANGED <<modeVars, part>>
HalSpec ==
    /\ HalInit /\ [][Boosts \/ Switches]_halVars
    /\ WF_halVars(Runs(RoutineStep))
    /\ WF_halVars(Runs(ExitNotify)) /\ WF_halVars(Runs(ExitJoin))
    /\ WF_halVars(Runs(Tick))

----------------------------------------------------------------------------
\* Between calls exactly the hint of the current combination of VR and sustained
\* mode is active in HintManager, and the audio hint exactly while the property that
\* is to restore it is set, whatever calls of powerHint and deaths led there.
ModeHintsExact == Modes!ModeHintsExact /\ Modes!AudioAgrees

\* Modes survive the process: after a death, also one in the middle of a call of
\* powerHint, the modes are those before or those after that call.
ModesSurvive == Modes!ModesSurvive
===============================================================================

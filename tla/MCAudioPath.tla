---------------------------- MODULE MCAudioPath ----------------------------
(* SamplePath, Activation and DeviceMonitor for TLC.  The first two meet in *)
(* the broadcast of frames only, where neither waits for the other, and the *)
(* third on a thread of its own with neither: the run explores each of the  *)
(* three with the others at rest.                                           *)
EXTENDS SamplePath, Activation, DeviceMonitor

CONSTANTS d1, d2

VARIABLE part

pathVars == <<part, sampleVars, activationVars, vars>>

ChannelsDef ==
    [d \in Inputs |-> CASE d = "mono48" -> 1 [] d = "stereo16" -> 2
                      [] d = "three16" -> 3]

OfSamples(A) ==
    part = "samples" /\ A /\ UNCHANGED <<part, activationVars, vars>>
OfTrigger(A) ==
    part = "trigger" /\ A /\ UNCHANGED <<part, sampleVars, vars>>
OfMonitor(A) ==
    part = "monitor" /\ A /\ UNCHANGED <<part, sampleVars, activationVars>>

\* What those at rest would choose is chosen for them.
PathInit ==
    /\ part \in {"samples", "trigger", "monitor"}
    /\ SamplesInit /\ ActivationInit /\ Init
    /\ part # "samples" => device = "mono48"
    /\ part # "monitor" => plugged = {}

PathNext ==
    \/ OfSamples(SamplesNext)
    \/ OfTrigger(ActivationNext)
    \/ OfMonitor(Next)

PathSpec ==
    /\ PathInit /\ [][PathNext]_pathVars
    /\ WF_pathVars(OfSamples(Subscribe)) /\ WF_pathVars(OfSamples(Idle))
    /\ WF_pathVars(OfSamples(ApplyConfigs))
    /\ WF_pathVars(OfSamples(ReadFrame))
    /\ WF_pathVars(OfTrigger(TickClock)) /\ WF_pathVars(OfTrigger(Sent))
    /\ WF_pathVars(OfTrigger(FanOut)) /\ WF_pathVars(OfTrigger(Broadcast))
    /\ SF_pathVars(OfTrigger(ProcessFrame))
    /\ WF_pathVars(OfTrigger(Overtaken))
    /\ SF_pathVars(OfTrigger(TakePress)) /\ SF_pathVars(OfTrigger(TakeRelease))
    /\ WF_pathVars(OfMonitor(Scan)) /\ WF_pathVars(OfMonitor(StartMonitoring))
    /\ WF_pathVars(OfMonitor(ListAges))
=============================================================================

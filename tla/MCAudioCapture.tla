-------------------------- MODULE MCAudioCapture ---------------------------
(* AudioCapture and DeviceChoice for TLC: the threads of the capture, and   *)
(* the devices one of them opens.  The run explores each with the other at  *)
(* rest.                                                                    *)
EXTENDS AudioCapture, DeviceChoice

VARIABLE part

audioVars == <<part, vars, choiceVars>>

\* Names are compared without their case: "default" is in both.
ContainingDef ==
    [n \in Devices \union Fragments |->
        CASE n = "default"    -> Devices
          [] n = "microphone" -> {"Default Microphone"}
          [] OTHER            -> {n}]
LikenessDef ==
    [d \in Devices |-> IF d = "Default Microphone" THEN 2 ELSE 0]

OfThreads(A) == part = "threads" /\ A /\ UNCHANGED <<part, choiceVars>>
OfChoice(A) == part = "choice" /\ A /\ UNCHANGED <<part, vars>>

\* What the one at rest would choose is chosen for it.  Of the two devices one
\* works for certain.
AudioInit ==
    /\ part \in {"threads", "choice"}
    /\ Init /\ ChoiceInit
    /\ part = "threads" => plugged = {} /\ sound = {} /\ asked = NoDevice
    /\ part = "choice" =>
         monitor = "off" /\ sound \in {{"default"}, {"Default Microphone"}}

AudioNext == OfThreads(Next) \/ OfChoice(ChoiceNext)

AudioSpec ==
    /\ AudioInit /\ [][AudioNext]_audioVars
    /\ WF_audioVars(OfThreads(CaptureStep))
    /\ WF_audioVars(OfThreads(WatchdogDecides))
    /\ WF_audioVars(OfThreads(WatchdogTriggers))
    /\ WF_audioVars(OfThreads(WatchdogExits))
    /\ WF_audioVars(OfThreads(MonitorExits))
    /\ WF_audioVars(OfThreads(StopReturns))
    /\ WF_audioVars(OfThreads(Tick))
=============================================================================

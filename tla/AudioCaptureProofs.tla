------------------------ MODULE AudioCaptureProofs -------------------------
(* Theorems of AudioCapture, for any number of candidate devices and any   *)
(* watchdog timeout, with the device monitor and without it; and of        *)
(* DeviceChoice, for any devices and names and any time for which a list   *)
(* is kept.                                                                *)
EXTENDS AudioCapture, DeviceChoice, TLAPS

USE CaptureAssumption DEF CaptureAssumption

LEMMA TypeInit == ASSUME Init PROVE TypeOK
BY DEF Init, TypeOK, Stopped

LEMMA TypeStep == ASSUME TypeOK, [Next]_vars PROVE TypeOK'
<1> USE DEF TypeOK, Stopped, captureVars, streamVars, watchdogVars
<1>1. CASE SpawnReturns \/ StopCapture \/ StopReturns
  BY <1>1 DEF SpawnReturns, StopCapture, StopReturns
<1>2. CASE CaptureStep
  <2>1. CASE Start
    BY <2>1 DEF Start, Untried
  <2>2. CASE OpenOk
    BY <2>2 DEF OpenOk
  <2>3. CASE OpenErr \/ OutOfCandidates
    BY <2>3 DEF OpenErr, OutOfCandidates
  <2>4. CASE Preflight
    BY <2>4 DEF Preflight
  <2>5. CASE Check \/ Pass
    BY <2>5 DEF Check, Pass, StopsStream
  <2>6. CASE Stop
    BY <2>6 DEF Stop
  <2>7. CASE JoinWatchdog
    BY <2>7 DEF JoinWatchdog
  <2>8. QED
    BY <1>2, <2>1, <2>2, <2>3, <2>4, <2>5, <2>6, <2>7 DEF CaptureStep
<1>3. CASE Callback \/ StreamError \/ DeviceStalls
  BY <1>3 DEF Callback, StreamError, DeviceStalls
<1>4. CASE WatchdogStep
  BY <1>4 DEF WatchdogStep, WatchdogDecides, WatchdogTriggers, WatchdogExits
<1>5. CASE MonitorExits
  BY <1>5 DEF MonitorExits
<1>6. CASE Tick
  BY <1>6 DEF Tick
<1>7. CASE UNCHANGED vars
  BY <1>7 DEF vars
<1>8. QED
  BY <1>1, <1>2, <1>3, <1>4, <1>5, <1>6, <1>7 DEF Next

\* Every variable keeps its type: no counter leaves its range.
THEOREM TypeCorrect == Spec => []TypeOK
<1>1. QED
  BY TypeInit, TypeStep, PTL DEF Spec

(***************************************************************************)
(* The strengthening.  Between streams everything the last one used has    *)
(* been put down: no stream is open, the watchdog is stopped, its flag is  *)
(* down and so is its clock.  What makes it inductive is that the capture  *)
(* thread drops the stream first (so no callback touches the watchdog),    *)
(* then joins the watchdog (so it does not set the flag), then resets both.*)
(***************************************************************************)
AtRest == stream = "none" /\ wd = "none" /\ triggered = "no" /\ age = Stopped

IInv ==
    /\ pc \in {"start", "open", "gone"} => AtRest
    /\ pc = "join" => stream = "none"

LEMMA InvInit == ASSUME Init PROVE IInv
BY DEF Init, IInv, AtRest, Stopped

LEMMA InvStep == ASSUME TypeOK, IInv, [Next]_vars PROVE IInv'
<1> USE DEF IInv, AtRest, captureVars, streamVars, watchdogVars
<1>0. Stopped' = Stopped
  BY DEF Stopped
<1>1. CASE SpawnReturns \/ StopCapture \/ StopReturns \/ MonitorExits
  BY <1>0, <1>1 DEF SpawnReturns, StopCapture, StopReturns, MonitorExits
<1>2. CASE CaptureStep
  <2>1. CASE Start \/ OpenErr \/ OutOfCandidates
    BY <1>0, <2>1 DEF Start, OpenErr, OutOfCandidates
  <2>2. CASE OpenOk \/ Preflight \/ Check \/ Pass
    BY <1>0, <2>2 DEF OpenOk, Preflight, Check, Pass, StopsStream
  <2>3. CASE Stop
    BY <2>3 DEF Stop
  <2>4. CASE JoinWatchdog
    BY <1>0, <2>4 DEF JoinWatchdog, Joined
  <2>5. QED
    BY <1>2, <2>1, <2>2, <2>3, <2>4 DEF CaptureStep
<1>3. CASE Callback \/ StreamError \/ DeviceStalls
  BY <1>0, <1>3 DEF Callback, StreamError, DeviceStalls
<1>4. CASE WatchdogStep
  BY <1>0, <1>4
  DEF WatchdogStep, WatchdogDecides, WatchdogTriggers, WatchdogExits
<1>5. CASE Tick
  BY <1>0, <1>5 DEF Tick, Stopped
<1>6. CASE UNCHANGED vars
  BY <1>0, <1>6 DEF vars
<1>7. QED
  BY <1>1, <1>2, <1>3, <1>4, <1>5, <1>6 DEF Next

\* Between two streams nothing of the last one is left.
THEOREM Invariant == Spec => []IInv
<1>1. QED
  BY InvInit, InvStep, TypeCorrect, PTL DEF Spec

\* No stream is opened while the watchdog of an earlier one could still set
\* the flag that restarts it.
THEOREM WatchdogJoined == Spec => []OpensClean
<1>1. IInv => OpensClean
  BY DEF IInv, AtRest, OpensClean
<1>2. QED
  BY <1>1, Invariant, PTL

\* A capture thread that has ended leaves no stream and no watchdog behind.
THEOREM NothingLeftBehind == Spec => []EndsQuiet
<1>1. IInv => EndsQuiet
  BY DEF IInv, AtRest, EndsQuiet
<1>2. QED
  BY <1>1, Invariant, PTL

-----------------------------------------------------------------------------
(* The choice of a device                                                  *)

HIDE CaptureAssumption DEF CaptureAssumption
USE DeviceAssumption, ChoiceAssumption DEF DeviceAssumption, ChoiceAssumption

\* The devices that work and have been there all the time.
Dependable == steady \intersect sound

\* What is there is what has been there; a device that has been there for
\* longer than the list is old is in the list.
ThereInv ==
    /\ \A d \in Devices : upFor[d] > 0 => d \in plugged
    /\ steady \subseteq plugged
    /\ phase = "new" => ~Fresh
    /\ Fresh => \A d \in Devices : upFor[d] > cacheAge => d \in cached

\* A dependable device has not been tried, or is being tried; the requested
\* one is tried before it.
TriedInv ==
    /\ Trying => Dependable \subseteq untried
    /\ phase = "starting" /\ asked \in Dependable => "requested" \in untried
    /\ phase = "preflight" =>
         /\ Dependable \subseteq untried \union {opened}
         /\ opened \in steady => playing = "open"
         /\ \A d \in Dependable : Rank(current, likely) <= Rank(d, likely)
         /\ current \in Dependable => opened = current
         /\ asked \in Dependable => opened = asked

LEMMA ChoiceTypeInit == ASSUME ChoiceInit PROVE ChoiceTypeOK
BY DEF ChoiceInit, ChoiceTypeOK, DeviceInit, DeviceTypeOK

\* What an attempt may open is a device that is there.
LEMMA OpensPlugged ==
    ASSUME ChoiceTypeOK,
           NEW a \in untried
    PROVE  Opens(a) \subseteq Devices
<1>1. Opens(a) \subseteq Devices \/ a = "requested"
  BY DEF Opens, Named, HostDecides, Likeliest, ChoiceTypeOK, DeviceTypeOK
<1>2. QED
  BY <1>1 DEF Opens, Named, ChoiceTypeOK, DeviceTypeOK

LEMMA ListsTyped ==
    ASSUME ChoiceTypeOK, ListDevices \/ UNCHANGED <<cacheVars, marked>>
    PROVE  /\ cached' \subseteq Devices /\ cacheAge' \in 0 .. CacheTtl
           /\ marked' \in Devices \union {NoDevice}
BY DEF ChoiceTypeOK, DeviceTypeOK, ListDevices, EnumerateDevices, Listed,
       Fresh, DefaultListed, cacheVars

LEMMA ChoiceTypeStep == ASSUME ChoiceTypeOK, [ChoiceNext]_choiceVars
                  PROVE  ChoiceTypeOK'
<1> USE DEF ChoiceTypeOK, DeviceTypeOK, cacheVars, attemptVars, openVars,
            hostVars, choiceOnlyVars
<1>1. ASSUME NEW d \in Devices, Arrive(d) \/ Leave(d) \/ ChooseDefault(d)
      PROVE  ChoiceTypeOK'
  BY <1>1 DEF Arrive, Leave, ChooseDefault, Plugged, Unplugged
<1>2. CASE TimePasses
  BY <1>2 DEF TimePasses, ListOlder, Fresh
<1>3. CASE ListAttempts
  <2>1. DefaultName \in Devices \union {NoDevice}
    BY DEF DefaultName, DefaultListed
  <2>2. AttemptList(DefaultName) \subseteq Devices \union {"host"}
    BY <2>1 DEF AttemptList, Candidates, Listed
  <2>3. Requested \subseteq {"requested"}
    BY DEF Requested
  <2>4. untried' \subseteq Devices \union {"requested", "host"}
    BY <1>3, <2>2, <2>3, ZenonT(30) DEF ListAttempts
  <2>5. steady' \subseteq Devices
    BY <1>3 DEF ListAttempts
  <2>6. phase' \in {"starting", "restarting"}
    BY <1>3 DEF ListAttempts
  <2>7. DeviceTypeOK' /\ marked' \in Devices \union {NoDevice}
    BY <1>3, ListsTyped DEF ListAttempts
  <2>8. QED
    BY <1>3, <2>1, <2>4, <2>5, <2>6, <2>7 DEF ListAttempts
<1>4. ASSUME NEW a \in Devices \union {"requested", "host"}, TryFails(a)
      PROVE  ChoiceTypeOK'
  BY <1>4, ListsTyped DEF TryFails, Lists
<1>5. ASSUME NEW a \in Devices \union {"requested", "host"}, TryOpens(a)
      PROVE  ChoiceTypeOK'
  <2>1. opened' \in Devices
    BY <1>5, OpensPlugged DEF TryOpens, First
  <2>2. QED BY <1>5, <2>1, ListsTyped DEF TryOpens, Lists
<1>6. CASE FramesArrive \/ NoFrames \/ GiveUp
  BY <1>6 DEF FramesArrive, NoFrames, GiveUp
<1>7. CASE UNCHANGED choiceVars
  BY <1>7 DEF choiceVars
<1>8. QED
  BY <1>1, <1>2, <1>3, <1>4, <1>5, <1>6, <1>7 DEF ChoiceNext

\* The names tried are the requested one, the candidates and "host".
THEOREM ChoiceTypeCorrect == ChoiceSpec => []ChoiceTypeOK
<1>1. QED
  BY ChoiceTypeInit, ChoiceTypeStep, PTL DEF ChoiceSpec

-----------------------------------------------------------------------------
(* What has been there is listed.                                          *)

LEMMA ThereStep ==
    ASSUME ChoiceTypeOK, ThereInv, [ChoiceNext]_choiceVars
    PROVE  ThereInv'
<1> USE DEF ChoiceTypeOK, DeviceTypeOK, ThereInv, cacheVars, attemptVars,
            openVars, hostVars, choiceOnlyVars, Fresh
<1>1. ASSUME NEW d \in Devices, Arrive(d) \/ Leave(d) \/ ChooseDefault(d)
      PROVE  ThereInv'
  BY <1>1 DEF Arrive, Leave, ChooseDefault, Plugged, Unplugged
<1>2. CASE TimePasses
  BY <1>2 DEF TimePasses, ListOlder
<1>3. ASSUME UNCHANGED <<plugged, upFor>>, steady' \subseteq plugged,
             phase' # "new",
             ListDevices \/ UNCHANGED <<cacheVars, marked>>
      PROVE  ThereInv'
  BY <1>3 DEF ListDevices, EnumerateDevices, Listed
<1>4. CASE ListAttempts
  BY <1>3, <1>4 DEF ListAttempts
<1>5. ASSUME NEW a \in Devices \union {"requested", "host"},
             TryFails(a) \/ TryOpens(a)
      PROVE  ThereInv'
  BY <1>3, <1>5 DEF TryFails, TryOpens, Lists, Trying
<1>6. CASE FramesArrive \/ NoFrames \/ GiveUp
  BY <1>6 DEF FramesArrive, NoFrames, GiveUp, Trying
<1>7. CASE UNCHANGED choiceVars
  BY <1>7 DEF choiceVars
<1>8. QED
  BY <1>1, <1>2, <1>4, <1>5, <1>6, <1>7 DEF ChoiceNext

-----------------------------------------------------------------------------
(* A dependable device is opened when its turn comes.                      *)

LEMMA DependableListed ==
    ASSUME ChoiceTypeOK, ThereInv, ListAttempts
    PROVE  steady' \subseteq untried'
BY DEF ListAttempts, ThereInv, AttemptList, Candidates, Listed, Fresh,
       ChoiceTypeOK, DeviceTypeOK

\* The name of a device that is there opens it and no other.
LEMMA OpensItself ==
    ASSUME ChoiceTypeOK, NEW d \in plugged
    PROVE  Opens(d) = {d} /\ (asked = d => Opens("requested") = {d})
BY DEF Opens, Named, ChoiceTypeOK, DeviceTypeOK

LEMMA DependableStays ==
    ASSUME ChoiceTypeOK, ThereInv, TriedInv,
           NEW a \in Devices \union {"requested", "host"}, TryFails(a)
    PROVE  a \notin Dependable
           /\ (asked \in Dependable => a # "requested")
BY OpensItself DEF TryFails, Dependable, ThereInv, ChoiceTypeOK

\* Nothing comes before the requested name.
LEMMA RequestedFirst ==
    ASSUME NEW n, NEW e
    PROVE  /\ Rank("requested", e) = 0
           /\ n # "requested" => Rank(n, e) \in 1 .. 5
BY DEF Rank

LEMMA TriedStep ==
    ASSUME ChoiceTypeOK, ThereInv, TriedInv, [ChoiceNext]_choiceVars
    PROVE  TriedInv'
<1> USE DEF TriedInv, Dependable, Trying
<1>1. ASSUME NEW d \in Devices, Arrive(d) \/ Leave(d) \/ ChooseDefault(d)
      PROVE  TriedInv'
  BY <1>1 DEF Arrive, Leave, ChooseDefault, choiceOnlyVars, hostVars,
              attemptVars, openVars, ChoiceTypeOK
<1>2. CASE TimePasses
  BY <1>2 DEF TimePasses, hostVars, attemptVars, openVars
<1>3. CASE ListAttempts
  <2>1. phase' = "starting" /\ asked \in Devices => "requested" \in untried'
    BY <1>3 DEF ListAttempts, Requested
  <2>2. QED
    BY <1>3, <2>1, DependableListed DEF ListAttempts, ChoiceTypeOK
<1>4. ASSUME NEW a \in Devices \union {"requested", "host"}, TryFails(a)
      PROVE  TriedInv'
  BY <1>4, DependableStays DEF TryFails, openVars
<1>5. ASSUME NEW a \in Devices \union {"requested", "host"}, TryOpens(a)
      PROVE  TriedInv'
  <2> USE <1>5 DEF TryOpens
  <2>1. CASE phase = "restarting"
    BY <2>1
  <2>2. CASE phase = "starting"
    <3>1. \A d \in Dependable : Rank(a, likely) <= Rank(d, likely)
      BY <2>2 DEF First
    <3>2. a \in Dependable => opened' = a
      BY OpensItself DEF ThereInv
    <3>3. asked \in Dependable => opened' = asked
      <4> SUFFICES ASSUME asked \in Dependable PROVE opened' = asked
        OBVIOUS
      <4>1. Rank(a, likely) <= Rank("requested", likely)
        BY <2>2 DEF First
      <4>2. a = "requested"
        BY <4>1, RequestedFirst
      <4>3. asked \in plugged
        BY DEF ThereInv
      <4>4. Opens("requested") = {asked}
        BY <4>3, OpensItself
      <4>5. QED BY <4>2, <4>4
    <3>4. Dependable \subseteq untried' \union {opened'}
      BY <2>2, <3>2
    <3>5. QED BY <2>2, <3>1, <3>2, <3>3, <3>4
  <2>3. QED BY <2>1, <2>2
<1>6. CASE FramesArrive
  BY <1>6 DEF FramesArrive, hostVars
<1>7. CASE NoFrames
  <2>1. opened \notin Dependable
    BY <1>7 DEF NoFrames, ChoiceTypeOK
  <2>2. asked \in Dependable => opened = asked
    BY <1>7 DEF NoFrames
  <2>3. QED BY <1>7, <2>1, <2>2 DEF NoFrames, hostVars
<1>8. CASE GiveUp
  BY <1>8 DEF GiveUp, hostVars
<1>9. CASE UNCHANGED choiceVars
  BY <1>9 DEF choiceVars, choiceOnlyVars, hostVars, attemptVars, openVars
<1>10. QED
  BY <1>1, <1>2, <1>3, <1>4, <1>5, <1>6, <1>7, <1>8, <1>9 DEF ChoiceNext

-----------------------------------------------------------------------------
(* The two properties                                                      *)

ChoiceInv == ChoiceTypeOK /\ ThereInv /\ TriedInv

LEMMA ChoiceInvHolds == ChoiceSpec => []ChoiceInv
<1>1. ChoiceInit => ThereInv /\ TriedInv
  BY DEF ChoiceInit, DeviceInit, ThereInv, TriedInv, Fresh, Trying
<1>2. QED
  BY <1>1, ChoiceTypeInit, ChoiceTypeStep, ThereStep, TriedStep, PTL
  DEF ChoiceSpec, ChoiceInv

LEMMA GivesUpStep ==
    ASSUME ChoiceInv, GivesUpWithoutDevice, [ChoiceNext]_choiceVars
    PROVE  GivesUpWithoutDevice'
<1> USE DEF ChoiceInv, GivesUpWithoutDevice, Trying
<1>1. ASSUME NEW d \in Devices, Arrive(d) \/ Leave(d) \/ ChooseDefault(d)
      PROVE  GivesUpWithoutDevice'
  BY <1>1 DEF Arrive, Leave, ChooseDefault, choiceOnlyVars, hostVars,
              attemptVars
<1>2. CASE TimePasses
  BY <1>2 DEF TimePasses, hostVars, attemptVars
<1>3. CASE GiveUp
  BY <1>3 DEF GiveUp, hostVars, TriedInv, Dependable
<1>4. CASE ListAttempts \/ FramesArrive \/ NoFrames
  BY <1>4 DEF ListAttempts, FramesArrive, NoFrames
<1>5. ASSUME NEW a \in Devices \union {"requested", "host"},
             TryFails(a) \/ TryOpens(a)
      PROVE  GivesUpWithoutDevice'
  BY <1>5 DEF TryFails, TryOpens
<1>6. CASE UNCHANGED choiceVars
  BY <1>6 DEF choiceVars, choiceOnlyVars, hostVars, attemptVars
<1>7. QED
  BY <1>1, <1>2, <1>3, <1>4, <1>5, <1>6 DEF ChoiceNext

\* Whatever devices come and go, a device that works and stays is found.
THEOREM GivesUpOnlyWithoutDevice == ChoiceSpec => []GivesUpWithoutDevice
<1>1. ChoiceInit => GivesUpWithoutDevice
  BY DEF ChoiceInit, GivesUpWithoutDevice
<1>2. QED
  BY <1>1, GivesUpStep, ChoiceInvHolds, PTL DEF ChoiceSpec

LEMMA FirstStep ==
    ASSUME ChoiceInv, FirstIsUsed, [ChoiceNext]_choiceVars
    PROVE  FirstIsUsed'
<1> USE DEF ChoiceInv, FirstIsUsed, Trying
<1>1. ASSUME NEW d \in Devices, Arrive(d) \/ Leave(d) \/ ChooseDefault(d)
      PROVE  FirstIsUsed'
  BY <1>1 DEF Arrive, Leave, ChooseDefault, choiceOnlyVars, hostVars,
              attemptVars, openVars
<1>2. CASE TimePasses
  BY <1>2 DEF TimePasses, hostVars, attemptVars, openVars
<1>3. ASSUME NEW a \in Devices \union {"requested", "host"}, TryOpens(a)
      PROVE  FirstIsUsed'
  <2> USE <1>3 DEF TryOpens
  <2>1. phase = "restarting" =>
          \A d \in Dependable : Rank(a, likely) <= Rank(d, likely)
    BY DEF First, TriedInv
  <2>2. a \in Dependable => opened' = a
    BY OpensItself DEF ThereInv, Dependable
  <2>3. QED BY <2>1, <2>2 DEF Dependable
<1>4. CASE FramesArrive
  BY <1>4 DEF FramesArrive, hostVars, TriedInv, Dependable
<1>5. CASE ListAttempts \/ NoFrames \/ GiveUp
  BY <1>5 DEF ListAttempts, NoFrames, GiveUp
<1>6. ASSUME NEW a \in Devices \union {"requested", "host"}, TryFails(a)
      PROVE  FirstIsUsed'
  BY <1>6 DEF TryFails
<1>7. CASE UNCHANGED choiceVars
  BY <1>7 DEF choiceVars, choiceOnlyVars, hostVars, attemptVars, openVars
<1>8. QED
  BY <1>1, <1>2, <1>3, <1>4, <1>5, <1>6, <1>7 DEF ChoiceNext

\* The device opened is the first in order of those that work and stay.
THEOREM FirstDeviceIsUsed == ChoiceSpec => []FirstIsUsed
<1>1. ChoiceInit => FirstIsUsed
  BY DEF ChoiceInit, FirstIsUsed
<1>2. QED
  BY <1>1, FirstStep, ChoiceInvHolds, PTL DEF ChoiceSpec
=============================================================================

--------------------------- MODULE AudioCapture ----------------------------
(***************************************************************************)
(* The audio capture thread of crates/coldvox-audio/src/capture.rs, its    *)
(* watchdog (watchdog.rs), the device monitor's thread (monitor.rs) and    *)
(* the thread that starts and stops them.                                  *)
(*                                                                         *)
(* All four share one flag, `running'.  AudioCaptureThread::stop clears it *)
(* to end them; AudioCapture::stop clears it to end the watchdog of one    *)
(* stream, and AudioCapture::start sets it again, when the stream is only  *)
(* being replaced.  A cpal callback runs while a stream delivers audio.    *)
(* One action stands for the code between two accesses of shared state.    *)
(***************************************************************************)
EXTENDS Naturals

CONSTANTS
    Attempts,     \* number of candidate devices a start or restart tries
    Timeout       \* the watchdog's timeout, in ticks

ASSUME CaptureAssumption ==
    /\ Attempts \in Nat \ {0}
    /\ Timeout \in Nat

VARIABLES
    caller,     \* the thread that calls spawn() and AudioCaptureThread::stop
    running,    \* the shared flag: "yes" or "no"
    pc,         \* how far the capture thread has got
    why,        \* what it stops or starts a stream for
    left,       \* the candidates it has not tried yet
    cfg,        \* "set" once the device configuration is known
    stream,     \* none; open and "live" or, delivering nothing, "silent"
    restart,    \* restart_needed
    frames,     \* "some" once a callback has captured a frame
    wd,         \* the watchdog thread
    triggered,  \* its flag: "yes" or "no"
    age,        \* ticks since it was fed, Stopped when it is stopped
    monitor     \* the device monitor's thread; off: enable_device_monitor is
                \* not set

captureVars  == <<pc, why, left, cfg>>
streamVars   == <<stream, restart, frames>>
watchdogVars == <<wd, triggered, age>>
vars == <<caller, running, captureVars, streamVars, watchdogVars, monitor>>

Stopped == Timeout + 2

TypeOK ==
    /\ caller \in {"waiting", "up", "failed", "stopping", "stopped"}
    /\ running \in {"yes", "no"}
    /\ pc \in {"start", "open", "preflight", "stop", "join", "loop",
              "body", "gone"}
    /\ why \in {"preflight", "restart", "exit"}
    /\ left \in 0 .. Attempts
    /\ cfg \in {"unset", "set"}
    /\ stream \in {"none", "live", "silent"}
    /\ restart \in {"yes", "no"}
    /\ frames \in {"none", "some"}
    /\ wd \in {"none", "alive", "late", "exited"}
    /\ triggered \in {"yes", "no"}
    /\ age \in 0 .. Stopped
    /\ monitor \in {"off", "alive", "gone"}

Init ==
    /\ caller = "waiting" /\ running = "yes"
    /\ pc = "start" /\ why = "preflight" /\ left = Attempts /\ cfg = "unset"
    /\ stream = "none" /\ restart = "no" /\ frames = "none"
    /\ wd = "none" /\ triggered = "no" /\ age = Stopped
    /\ monitor \in {"off", "alive"}

-----------------------------------------------------------------------------
(* The thread that calls AudioCaptureThread::spawn and stop                *)

\* spawn() waits for the configuration of a device for three seconds, and gives
\* up then although the thread goes on.
SpawnReturns ==
    /\ caller = "waiting"
    /\ caller' = IF cfg = "set" THEN "up" ELSE "failed"
    /\ UNCHANGED <<running, captureVars, streamVars, watchdogVars, monitor>>

StopCapture ==
    /\ caller = "up"
    /\ caller' = "stopping"
    /\ running' = "no"
    /\ UNCHANGED <<captureVars, streamVars, watchdogVars, monitor>>

\* Both threads have been joined.
StopReturns ==
    /\ caller = "stopping"
    /\ pc = "gone"
    /\ monitor # "alive"
    /\ caller' = "stopped"
    /\ UNCHANGED <<running, captureVars, streamVars, watchdogVars, monitor>>

-----------------------------------------------------------------------------
(* The capture thread                                                      *)

\* Is there a candidate to try?
Untried == left > 0

\* AudioCapture::start sets the flag before it tries to open a device.
Start ==
    /\ pc = "start"
    /\ Untried
    /\ running' = "yes"
    /\ left' = left - 1
    /\ pc' = "open"
    /\ UNCHANGED <<caller, why, cfg, streamVars, watchdogVars, monitor>>

\* A stream plays, and the watchdog is armed for it.
OpenOk ==
    /\ pc = "open"
    /\ stream' \in {"live", "silent"}
    /\ wd' = "alive" /\ age' = 0
    /\ pc' = IF why = "preflight" THEN "preflight" ELSE "loop"
    /\ UNCHANGED <<caller, running, why, left, cfg, restart, frames, triggered,
                   monitor>>

OpenErr ==
    /\ pc = "open"
    /\ pc' = "start"
    /\ UNCHANGED <<caller, running, why, left, cfg, streamVars, watchdogVars,
                   monitor>>

\* No candidate is left: a thread that is starting ends, and one that was
\* restarting goes on without a stream.
OutOfCandidates ==
    /\ pc = "start"
    /\ ~Untried
    /\ pc' = IF why = "preflight" THEN "gone" ELSE "loop"
    /\ UNCHANGED <<caller, running, why, left, cfg, streamVars, watchdogVars,
                   monitor>>

\* Frames have arrived within the preflight timeout, or have not.
Preflight ==
    /\ pc = "preflight"
    /\ \/ frames = "some" /\ pc' = "loop" /\ cfg' = "set"
       \/ frames = "none" /\ pc' = "stop" /\ UNCHANGED cfg
    /\ UNCHANGED <<caller, running, why, left, streamVars, watchdogVars,
                   monitor>>

\* What stops the stream next, for good or to open another.
StopsStream == "stop"

\* A pass of the loop begins with the flag ...
RunsOn == TRUE
Running == running = "yes"

Check ==
    /\ pc = "loop"
    /\ IF Running
       THEN pc' = "body" /\ UNCHANGED <<why, left>>
       ELSE why' = "exit" /\ left' = 0 /\ pc' = StopsStream
    /\ UNCHANGED <<caller, running, cfg, streamVars, watchdogVars, monitor>>

\* ... and goes on to the monitor's channel, which ends it when it is closed,
\* and to the reasons for a restart.
Ends == monitor = "gone"
NeedsRestart == triggered = "yes" \/ restart = "yes"

Pass ==
    /\ pc = "body"
    /\ \/ Ends
          /\ why' = "exit" /\ left' = 0 /\ pc' = StopsStream
       \/ ~Ends /\ NeedsRestart
          /\ why' = "restart" /\ left' = Attempts /\ pc' = StopsStream
       \/ ~Ends /\ ~NeedsRestart
          /\ pc' = "loop" /\ UNCHANGED <<why, left>>
    /\ UNCHANGED <<caller, running, cfg, streamVars, watchdogVars, monitor>>

\* AudioCapture::stop clears the flag, drops the stream ...
Stop ==
    /\ pc = "stop"
    /\ running' = "no"
    /\ stream' = "none"
    /\ pc' = "join"
    /\ UNCHANGED <<caller, why, left, cfg, restart, frames, watchdogVars,
                   monitor>>

\* ... waits for the watchdog to notice the flag, and resets it.
NoJoin == TRUE
Joined == wd \in {"none", "exited"}

JoinWatchdog ==
    /\ pc = "join"
    /\ Joined
    /\ wd' = IF wd = "exited" THEN "none" ELSE wd
    /\ triggered' = "no" /\ age' = Stopped
    /\ restart' = IF why = "restart" THEN "no" ELSE restart
    /\ pc' = IF why = "exit" THEN "gone" ELSE "start"
    /\ UNCHANGED <<caller, running, why, left, cfg, stream, frames, monitor>>

-----------------------------------------------------------------------------
(* The callbacks of a stream, and the device behind it                     *)

\* A frame arrives and feeds the watchdog.
Callback ==
    /\ stream = "live"
    /\ running = "yes"
    /\ frames' = "some"
    /\ age' = 0 /\ triggered' = "no"
    /\ UNCHANGED <<caller, running, captureVars, stream, restart, wd, monitor>>

StreamError ==
    /\ stream # "none"
    /\ restart' = "yes"
    /\ UNCHANGED <<caller, running, captureVars, stream, frames, watchdogVars,
                   monitor>>

DeviceStalls ==
    /\ stream = "live"
    /\ stream' = "silent"
    /\ UNCHANGED <<caller, running, captureVars, restart, frames, watchdogVars,
                   monitor>>

-----------------------------------------------------------------------------
(* The watchdog's thread, the device monitor's thread, and time            *)

ExpiredLater(a) == a > Timeout + 1
Expired(a) == a > Timeout

\* The decision and the store are two steps: a frame may come in between.
WatchdogDecides ==
    /\ wd = "alive"
    /\ age # Stopped
    /\ Expired(age) /\ triggered = "no"
    /\ wd' = "late"
    /\ UNCHANGED <<caller, running, captureVars, streamVars, triggered, age,
                   monitor>>

WatchdogTriggers ==
    /\ wd = "late"
    /\ triggered' = "yes"
    /\ wd' = "alive"
    /\ UNCHANGED <<caller, running, captureVars, streamVars, age, monitor>>

WatchdogExits ==
    /\ wd = "alive"
    /\ running = "no"
    /\ wd' = "exited"
    /\ UNCHANGED <<caller, running, captureVars, streamVars, triggered, age,
                   monitor>>

\* It looks at the flag between two scans, and its channel closes with it.
MonitorExits ==
    /\ monitor = "alive"
    /\ running = "no"
    /\ monitor' = "gone"
    /\ UNCHANGED <<caller, running, captureVars, streamVars, watchdogVars>>

Tick ==
    /\ age <= Timeout
    /\ age' = age + 1
    /\ UNCHANGED <<caller, running, captureVars, streamVars, wd, triggered,
                   monitor>>

-----------------------------------------------------------------------------
CaptureStep ==
    \/ Start \/ OpenOk \/ OpenErr \/ OutOfCandidates \/ Preflight
    \/ Check \/ Pass \/ Stop \/ JoinWatchdog

WatchdogStep == WatchdogDecides \/ WatchdogTriggers \/ WatchdogExits

Next ==
    \/ SpawnReturns \/ StopCapture \/ StopReturns
    \/ CaptureStep
    \/ Callback \/ StreamError \/ DeviceStalls
    \/ WatchdogStep
    \/ MonitorExits
    \/ Tick

Spec == Init /\ [][Next]_vars

(***************************************************************************)
(* Fairness: every thread is scheduled.  The threads look at `running'     *)
(* only now and then, so one that could see it cleared may also miss it.   *)
(***************************************************************************)
Fairness ==
    /\ WF_vars(CaptureStep)
    /\ WF_vars(WatchdogDecides) /\ WF_vars(WatchdogTriggers)
    /\ WF_vars(WatchdogExits) /\ WF_vars(MonitorExits)
    /\ WF_vars(StopReturns)
    /\ WF_vars(Tick)

FairSpec == Spec /\ Fairness

-----------------------------------------------------------------------------
(* Safety                                                                  *)

\* A stream is opened with no watchdog of an earlier one alive: none that
\* could set the flag afterwards and have the new stream restarted, and none
\* that a second one would join (AudioCapture::stop, WatchdogTimer::stop).
OpensClean == pc \in {"start", "open"} => wd = "none" /\ triggered = "no"

\* When the capture thread has ended its stream and its watchdog have too.
EndsQuiet == pc = "gone" => stream = "none" /\ wd = "none"

-----------------------------------------------------------------------------
(* Liveness                                                                *)

\* "The system shall restart the capture stream automatically when no audio
\* data is observed for the watchdog interval": a stream that has gone
\* silent is closed, whatever the threads are doing meanwhile.
SilenceEndsStream == stream = "silent" ~> stream # "silent"

\* A stop ends the threads, unless a start() under way sets the flag again:
\* nothing else can keep AudioCaptureThread::stop from returning.
StopReturnsOrOverwritten ==
    caller = "stopping" ~> caller = "stopped" \/ running = "yes"

-----------------------------------------------------------------------------
(* What comments and documents say, and the code does not do               *)

\* "Gracefully stop the pipeline and wait for shutdown" (runtime.rs): a stop
\* returns.
StopAlwaysReturns == caller = "stopping" ~> caller = "stopped"

\* "The device monitor thread stays alive until we explicitly stop via
\* stop()" (AudioCaptureThread::spawn).
MonitorStaysAlive == monitor = "gone" => caller \in {"stopping", "stopped"}

\* The watchdog restarts the capture: a stream comes back.
CaptureComesBack ==
    caller = "up" /\ stream = "none" ~> caller # "up" \/ stream # "none"
=============================================================================

---------------------------- MODULE DeviceChoice ----------------------------
(***************************************************************************)
(* Which device the capture thread opens: the lists of candidates of       *)
(* AudioCaptureThread::spawn, at the start and at a restart (crates/       *)
(* coldvox-audio/src/capture.rs), and DeviceManager::open_device, which    *)
(* finds the device for a name (device.rs).  Devices come and go between   *)
(* any two attempts.                                                       *)
(*                                                                         *)
(* The threads and the flag they share are AudioCapture's.                 *)
(***************************************************************************)
EXTENDS DeviceManager

CONSTANTS
    Fragments,   \* names somebody may ask for that are no device's
    Containing,  \* the devices whose names contain a name, its case aside
    Likeness     \* find_preferred_hardware's score of a device, 0 for none

ASSUME ChoiceAssumption ==
    /\ Devices \intersect Fragments = {}
    /\ {"requested", "host"} \intersect (Devices \union Fragments) = {}
    /\ NoDevice \notin Fragments
    /\ Containing \in [Devices \union Fragments -> SUBSET Devices]
    /\ \A d \in Devices : d \in Containing[d]
    /\ Likeness \in [Devices -> Nat]

VARIABLES
    sound,       \* the devices that, plugged in, open and deliver frames
    osDefault,   \* the default input device the system names
    marked,      \* the default device as the list kept has it
    asked,       \* the device name of the settings, or NoDevice
    phase,       \* how far the thread has got
    untried,     \* the attempts left
    likely,      \* the default device as the attempts have it
    current,     \* current_device_name: the attempt that was taken
    opened,      \* the device the stream is of
    playing,     \* none, open, or dead: its device has gone
    captured     \* "some" once frames_captured is positive

\* History variables: how many ticks each device has been there, and the
\* devices that were when the attempts were listed, and have been since.
VARIABLES upFor, steady

attemptVars == <<phase, untried, likely, current>>
openVars == <<opened, playing, captured>>
hostVars == <<sound, osDefault, marked, asked>>
choiceOnlyVars == <<hostVars, attemptVars, openVars, upFor, steady>>
choiceVars == <<plugged, cacheVars, choiceOnlyVars>>

ChoiceTypeOK ==
    /\ DeviceTypeOK
    /\ sound \subseteq Devices
    /\ {osDefault, marked, likely, opened} \subseteq Devices \union {NoDevice}
    /\ asked \in Devices \union Fragments \union {NoDevice}
    /\ phase \in {"new", "starting", "preflight", "up", "failed",
                  "restarting", "back", "down"}
    /\ untried \subseteq Devices \union {"requested", "host"}
    /\ current \in Devices \union {"requested", "host", NoDevice}
    /\ playing \in {"none", "open", "dead"}
    /\ captured \in {"none", "some"}
    /\ upFor \in [Devices -> 0 .. CacheTtl]
    /\ steady \subseteq Devices

ChoiceInit ==
    /\ DeviceInit /\ sound \in SUBSET Devices
    /\ osDefault \in plugged \union {NoDevice} /\ marked = NoDevice
    /\ asked \in Devices \union Fragments \union {NoDevice}
    /\ phase = "new" /\ untried = {} /\ likely = NoDevice
    /\ current = NoDevice /\ opened = NoDevice /\ playing = "none"
    /\ captured = "none"
    /\ upFor = [d \in Devices |-> 0] /\ steady = {}

-----------------------------------------------------------------------------
(* The system: its devices, its default one, and time                      *)

Arrive(d) ==
    /\ Plugged(d)
    /\ UNCHANGED <<cacheVars, choiceOnlyVars>>

\* A stream does not survive its device.
Leave(d) ==
    /\ Unplugged(d)
    /\ osDefault' = IF osDefault = d THEN NoDevice ELSE osDefault
    /\ playing' = IF opened = d THEN "dead" ELSE playing
    /\ upFor' = [upFor EXCEPT ![d] = 0]
    /\ steady' = steady \ {d}
    /\ UNCHANGED <<cacheVars, sound, marked, asked, attemptVars, opened,
                   captured>>

ChooseDefault(d) ==
    /\ d \in plugged
    /\ osDefault' = d
    /\ UNCHANGED <<plugged, cacheVars, sound, marked, asked, attemptVars,
                   openVars, upFor, steady>>

TimePasses ==
    /\ ListOlder
    /\ upFor' = [d \in Devices |->
                   IF d \in plugged /\ upFor[d] < CacheTtl
                   THEN upFor[d] + 1 ELSE upFor[d]]
    /\ UNCHANGED <<plugged, cached, hostVars, attemptVars, openVars, steady>>

-----------------------------------------------------------------------------
(* The attempts, in their order                                            *)

DefaultListed == IF Fresh THEN marked ELSE osDefault
\* The default device as listed, or else as it is now.
DefaultName ==
    IF DefaultListed \in Listed THEN DefaultListed ELSE osDefault

\* candidate_device_names
Candidates(default) == Listed \union ({default} \ {NoDevice})

Rank(name, default) ==
    IF name = "requested" THEN 0
    ELSE IF name = "default" THEN 1
    ELSE IF name = "pipewire" THEN 2
    ELSE IF name = default THEN 3
    ELSE IF name = "host" THEN 5
    ELSE 4

First(name, names, default) ==
    /\ name \in names
    /\ \A n \in names : Rank(name, default) <= Rank(n, default)

\* The list is kept with the default device it marks.
ListDevices == EnumerateDevices /\ marked' = DefaultListed

Requested == IF asked = NoDevice THEN {} ELSE {"requested"}
AttemptList(default) == Candidates(default) \union {"host"}

\* The requested name is tried before the candidates, and only at the start.
\* The new thread has no list yet, so what is there now is what it lists.
ListAttempts ==
    /\ \/ /\ phase = "new" /\ phase' = "starting"
          /\ untried' = Requested \union AttemptList(DefaultName)
          /\ steady' = plugged
       \/ /\ phase \in {"up", "back"} /\ phase' = "restarting"
          /\ untried' = AttemptList(DefaultName)
          /\ steady' = {d \in plugged : upFor[d] = CacheTtl}
    /\ ListDevices
    /\ likely' = DefaultName
    /\ opened' = NoDevice /\ playing' = "none"
    /\ UNCHANGED <<plugged, sound, osDefault, asked, current, captured, upFor>>

-----------------------------------------------------------------------------
(* One attempt                                                             *)

\* open_device(Some(name)): the device of that name, or one containing it;
\* it looks at what is plugged in now, not at the list.
SubstringFirst(name) == Containing[name] \intersect plugged
Named(name) ==
    IF name \in plugged THEN {name}
    ELSE Containing[name] \intersect plugged

\* open_device(None): the first of the candidates that is still there, or
\* else the likeliest hardware, or else the default device of the system.
Likeliest ==
    {d \in plugged :
        /\ d \notin {"default", "sysdefault", "pipewire"}
        /\ Likeness[d] > 0
        /\ \A e \in plugged :
             e \in {"default", "sysdefault", "pipewire"}
               \/ Likeness[e] <= Likeness[d]}
HostDecides ==
    LET there == Candidates(DefaultName) \intersect plugged
    IN  IF there # {} THEN {d \in there : First(d, there, DefaultName)}
        ELSE IF Likeliest # {} THEN Likeliest
        ELSE {osDefault} \ {NoDevice}

Opens(attempt) ==
    CASE attempt = "requested" -> Named(asked)
      [] attempt = "host"      -> HostDecides
      [] OTHER                 -> Named(attempt)

Lists(attempt) ==
    IF attempt = "host" THEN ListDevices ELSE UNCHANGED <<cacheVars, marked>>

Trying == phase \in {"starting", "restarting"}

\* Not found, or found and of no use: no configuration, a format that is not
\* supported, a stream that is refused.
TryFails(attempt) ==
    /\ Trying /\ First(attempt, untried, likely)
    /\ Opens(attempt) = {} \/ Opens(attempt) \ sound # {}
    /\ untried' = untried \ {attempt}
    /\ Lists(attempt)
    /\ UNCHANGED <<plugged, sound, osDefault, asked, phase, likely, current,
                   openVars, upFor, steady>>

\* A restart takes the first stream that plays; a start waits for frames.
TryOpens(attempt) ==
    /\ Trying /\ First(attempt, untried, likely)
    /\ opened' \in Opens(attempt)
    /\ playing' = "open" /\ current' = attempt
    /\ IF phase = "starting"
       THEN phase' = "preflight" /\ untried' = untried \ {attempt}
       ELSE phase' = "back" /\ untried' = {}
    /\ Lists(attempt)
    /\ UNCHANGED <<plugged, sound, osDefault, asked, likely, captured, upFor,
                   steady>>

\* The count of frames is of all streams so far: a frame that a stream of an
\* earlier attempt captured too late is taken for one of this.
FramesArrive ==
    /\ phase = "preflight"
    /\ playing = "open" \/ captured = "some"
    /\ captured' = "some" /\ phase' = "up" /\ untried' = {}
    /\ UNCHANGED <<plugged, cacheVars, hostVars, likely, current, opened,
                   playing, upFor, steady>>

NoFrames ==
    /\ phase = "preflight"
    /\ captured = "none"
    /\ playing = "dead" \/ opened \notin sound
    /\ captured' \in IF playing = "open" THEN {"none", "some"} ELSE {"none"}
    /\ opened' = NoDevice /\ playing' = "none"
    /\ phase' = "starting"
    /\ UNCHANGED <<plugged, cacheVars, hostVars, untried, likely, current,
                   upFor, steady>>

\* The thread that was starting ends; the one that was restarting goes on
\* with no stream, and tries no more.
GiveUp ==
    /\ Trying /\ untried = {}
    /\ phase' = IF phase = "starting" THEN "failed" ELSE "down"
    /\ UNCHANGED <<plugged, cacheVars, hostVars, untried, likely, current,
                   openVars, upFor, steady>>

ChoiceNext ==
    \/ \E d \in Devices : Arrive(d) \/ Leave(d) \/ ChooseDefault(d)
    \/ TimePasses
    \/ ListAttempts
    \/ \E a \in Devices \union {"requested", "host"} :
          TryFails(a) \/ TryOpens(a)
    \/ FramesArrive \/ NoFrames
    \/ GiveUp

ChoiceSpec == ChoiceInit /\ [][ChoiceNext]_choiceVars

-----------------------------------------------------------------------------
\* The thread gives up, for good, only if no device that works has been there
\* since it listed its attempts, and, at a restart, for as long before as the
\* list it reads may be old (spawn, candidate_device_names).
GivesUpWithoutDevice ==
    phase \in {"failed", "down"} => steady \intersect sound = {}

\* The stream is of the first working device, in the order of the attempts,
\* of those that have been there all the time, and is opened by its own name
\* whatever other names contain it; at the start the device of the settings
\* comes before all others (candidate_device_names, open_device).
FirstIsUsed ==
    /\ phase \in {"up", "back"} =>
         /\ \A d \in steady \intersect sound :
              Rank(current, likely) <= Rank(d, likely)
         /\ current \in steady \intersect sound => opened = current
    /\ phase = "up" /\ asked \in steady \intersect sound => opened = asked
=============================================================================

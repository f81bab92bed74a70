--------------------------- MODULE DeviceMonitor ---------------------------
(***************************************************************************)
(* The device monitor of crates/coldvox-audio/src/monitor.rs: a thread     *)
(* that enumerates the input devices every two seconds and broadcasts what *)
(* came and what went.  AudioCapture models the life of the thread; this   *)
(* module models what its scans find and say.                              *)
(***************************************************************************)
EXTENDS DeviceManager

CONSTANT
    Threshold    \* REMOVAL_THRESHOLD

ASSUME MonitorAssumption == Threshold \in Nat \ {0}

VARIABLES
    started,     \* "no" until start_monitoring has taken the monitor
    current,     \* current_device
    seen,        \* the keys of last_devices: what the last scan listed
    missing,     \* missing_count, 0 for a device that has no entry
    removed,     \* the devices the last scan reported removed
    lost,        \* those of them it reported as the current one
    absent,      \* how many scans in a row have not listed a device
    known        \* the devices there are to one who follows the events

eventVars == <<removed, lost, known>>
scanVars == <<started, current, seen, missing, absent, eventVars>>
vars == <<plugged, cacheVars, scanVars>>

TypeOK ==
    /\ DeviceTypeOK
    /\ started \in {"no", "yes"}
    /\ current \in Devices \cup {NoDevice}
    /\ seen \subseteq Devices
    /\ missing \in [Devices -> 0 .. Threshold - 1]
    /\ removed \subseteq Devices
    /\ lost \subseteq Devices
    /\ absent \in [Devices -> 0 .. Threshold]
    /\ known \subseteq Devices

Init ==
    /\ DeviceInit
    /\ started = "no"
    /\ current = NoDevice
    /\ seen = {} /\ removed = {} /\ lost = {} /\ known = {}
    /\ missing = [d \in Devices |-> 0]
    /\ absent = [d \in Devices |-> 0]

-----------------------------------------------------------------------------
Plug(d) == Plugged(d) /\ UNCHANGED <<cacheVars, scanVars>>
Unplug(d) == Unplugged(d) /\ UNCHANGED <<cacheVars, scanVars>>
ListAges == ListOlder /\ UNCHANGED <<plugged, cached, scanVars>>

\* set_current_device needs the monitor that start_monitoring consumes; no
\* device has been listed before that, so no status needs correcting.
SetCurrentDevice(d) ==
    /\ started = "no"
    /\ current' = d
    /\ UNCHANGED <<plugged, cacheVars, started, seen, missing, absent,
                   eventVars>>

StartMonitoring ==
    /\ started = "no"
    /\ started' = "yes"
    /\ UNCHANGED <<plugged, cacheVars, current, seen, missing, absent,
                   eventVars>>

\* scan_and_update_devices sees the list its device manager keeps.
Added == Listed \ seen
Gone == seen \ Listed
CountedAnyway == {d \in Devices : missing[d] + 1 >= Threshold}
OverThreshold == {d \in Gone : missing[d] + 1 >= Threshold}
Reappeared == seen \cap Listed

Scan ==
    /\ started = "yes"
    /\ EnumerateDevices
    /\ removed' = OverThreshold
    /\ lost' = OverThreshold \cap {current}
    /\ missing' = [d \in Devices |->
                     IF d \in OverThreshold \cup Reappeared THEN 0
                     ELSE IF d \in Gone THEN missing[d] + 1
                     ELSE missing[d]]
    /\ seen' = Listed
    /\ known' = (known \cup Added) \ OverThreshold
    /\ absent' = [d \in Devices |->
                    IF d \in Listed THEN 0
                    ELSE IF absent[d] < Threshold THEN absent[d] + 1
                    ELSE Threshold]
    /\ UNCHANGED <<plugged, started, current>>

Next ==
    \/ \E d \in Devices : Plug(d) \/ Unplug(d) \/ SetCurrentDevice(d)
    \/ StartMonitoring
    \/ Scan
    \/ ListAges

Spec == Init /\ [][Next]_vars

\* The monitor's thread is scheduled as long as it runs, and time passes.
FairSpec ==
    Spec /\ WF_vars(Scan) /\ WF_vars(StartMonitoring) /\ WF_vars(ListAges)

-----------------------------------------------------------------------------
(* Safety and liveness                                                     *)

\* One who follows the events knows every device the last scan listed, and
\* every device whose absences are being counted: a device that is back after
\* it was reported removed is reported again, whatever its count was, and no
\* removal is reported twice.
FollowersKnowSeen ==
    /\ seen \subseteq known
    /\ \A d \in Devices : missing[d] > 0 => d \in known

\* A device that stays plugged in is known in the end, however it flapped
\* before.
ArrivalIsReported ==
    \A d \in Devices : <>[](d \in plugged) => <>[](d \in known)

-----------------------------------------------------------------------------
(* What comments and documents say, and the code does not do               *)

\* "Device must be missing for 3 consecutive scans" (REMOVAL_THRESHOLD).
RemovalIsDebounced == \A d \in removed : absent[d] >= Threshold

\* "Monitors for device changes and restarts streams on disconnection"
\* (crates/coldvox-audio/README.md): the loss of the device in use is noticed.
DisconnectionIsReported ==
    \A d \in Devices :
        <>[](d = current /\ d \notin plugged) => <>[](d \notin known)
=============================================================================

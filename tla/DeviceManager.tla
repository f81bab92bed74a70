---------------------------- MODULE DeviceManager ----------------------------
(***************************************************************************)
(* The DeviceManager of crates/coldvox-audio/src/device.rs as far as it    *)
(* remembers: the list of input devices it keeps for a while.  The capture *)
(* thread has one and the device monitor has one, each with its own list.  *)
(*                                                                         *)
(* A device stands for all that have its name, and is listed if it has a   *)
(* configuration; one that has none comes and goes like one unplugged.     *)
(***************************************************************************)
EXTENDS Naturals

CONSTANTS
    Devices,     \* the device names
    NoDevice,    \* not one of them
    CacheTtl     \* DEVICE_CACHE_TTL, in ticks

ASSUME DeviceAssumption ==
    /\ NoDevice \notin Devices
    /\ CacheTtl \in Nat \ {0}

VARIABLES
    plugged,     \* the devices the system would list
    cached,      \* the devices of the list kept
    cacheAge     \* ticks since it was made; CacheTtl: too old, or none

cacheVars == <<cached, cacheAge>>

DeviceTypeOK ==
    /\ plugged \subseteq Devices
    /\ cached \subseteq Devices
    /\ cacheAge \in 0 .. CacheTtl

DeviceInit ==
    /\ plugged \in SUBSET Devices
    /\ cached = {} /\ cacheAge = CacheTtl

\* A device comes or goes, or an enumeration glitch makes it look so.
Plugged(d) == d \notin plugged /\ plugged' = plugged \union {d}
Unplugged(d) == d \in plugged /\ plugged' = plugged \ {d}

Fresh == cacheAge < CacheTtl

KeptForGood == IF Fresh \/ cached # {} THEN cached ELSE plugged
\* enumerate_devices: the list kept, or else a new one, which is kept.
Listed == IF Fresh THEN cached ELSE plugged
EnumerateDevices ==
    /\ cached' = Listed
    /\ cacheAge' = IF Fresh THEN cacheAge ELSE 0

ListOlder == cacheAge' = IF Fresh THEN cacheAge + 1 ELSE CacheTtl
=============================================================================

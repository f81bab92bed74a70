------------------------ MODULE PluginManagerProofs ------------------------
(***************************************************************************)
(* Proofs about PluginManager, for every set of plugins, fallback order,   *)
(* threshold, cooldown, time to live and set of collectors.                *)
(***************************************************************************)
EXTENDS PluginManager, TLAPS

\* The ends of the ranges the counters and clocks move in.
LEMMA RangeEnds ==
    /\ 0 \in 0 .. Threshold
    /\ 0 \in 0 .. Ttl + 1
    /\ Cooldown \in 0 .. Cooldown
BY LimitsAssumption DEF LimitsAssumption

\* Counting an error keeps the counter in its range.
LEMMA CountInRange ==
    ASSUME NEW n \in 0 .. Threshold
    PROVE  AtMost(n + 1, Threshold) \in 0 .. Threshold
BY LimitsAssumption DEF LimitsAssumption, AtMost

LEMMA TypeInit == Init => TypeOK
BY LimitsAssumption DEF LimitsAssumption, Init, TypeOK, CallPcs, GcPcs

LEMMA TypeStep == TypeOK /\ [Next]_vars => TypeOK'
<1> USE LimitsAssumption DEF LimitsAssumption
<1> SUFFICES ASSUME TypeOK, [Next]_vars PROVE TypeOK'
  OBVIOUS
<1> USE DEF TypeOK, CallPcs, GcPcs, gcVars
<1>1. ASSUME NEW p \in Plugins, Initialize(p) PROVE TypeOK'
  BY <1>1 DEF Initialize, Select
<1>2. ASSUME NEW p \in Targets, SwitchPlugin(p) PROVE TypeOK'
  BY <1>2, PluginsAssumption DEF SwitchPlugin, Select, PluginsAssumption
<1>3. CASE RecordSelection
  BY <1>3, RangeEnds DEF RecordSelection, Return
<1>4. CASE ApplyTranscriptionConfig
  BY <1>4 DEF ApplyTranscriptionConfig
<1>5. CASE UnloadPlugin
  BY <1>5 DEF UnloadPlugin
<1>6. CASE BeginAudio
  BY <1>6 DEF BeginAudio
<1>7. CASE TouchActivity
  BY <1>7, RangeEnds DEF TouchActivity
<1>8. CASE TranscribeOk
  BY <1>8, RangeEnds DEF TranscribeOk, Return
<1>9. CASE TranscribeErr
  BY <1>9, CountInRange DEF TranscribeErr, Return, DropLock
<1>10. CASE FailOver
  BY <1>10, RangeEnds DEF FailOver, Select
<1>11. CASE FailOverFails
  BY <1>11 DEF FailOverFails, Return
<1>12. CASE RetryOk
  BY <1>12 DEF RetryOk, Return
<1>13. CASE RetryErr
  BY <1>13, CountInRange DEF RetryErr, Return
<1>14. ASSUME NEW g \in Collectors, GcBegin(g) PROVE TypeOK'
  BY <1>14 DEF GcBegin, Stale
<1>15. ASSUME NEW g \in Collectors, GcScan(g) PROVE TypeOK'
  BY <1>15 DEF GcScan, Inactive
<1>16. ASSUME NEW g \in Collectors, NEW p \in Plugins, GcSweep(g, p)
       PROVE TypeOK'
  BY <1>16 DEF GcSweep
<1>17. ASSUME NEW g \in Collectors, GcForget(g) PROVE TypeOK'
  BY <1>17 DEF GcForget
<1>18. ASSUME NEW g \in Collectors, RestartGcTask(g) PROVE TypeOK'
  BY <1>18 DEF RestartGcTask
<1>19. CASE Tick
  BY <1>19 DEF Tick, AtMost, OneLess
<1>20. CASE UNCHANGED vars
  BY <1>20 DEF vars
<1>21. QED
  BY <1>1, <1>2, <1>3, <1>4, <1>5, <1>6, <1>7, <1>8, <1>9, <1>10, <1>11,
     <1>12, <1>13, <1>14, <1>15, <1>16, <1>17, <1>18, <1>19, <1>20
     DEF Next, CallStep, GcStep

\* Every variable keeps to its type: counters and clocks saturate at their
\* bounds, and an unload or a failover leaves a plugin or None selected.
THEOREM TypeCorrect == Spec => []TypeOK
BY TypeInit, TypeStep, PTL DEF Spec

-----------------------------------------------------------------------------
(***************************************************************************)
(* The inductive invariant.  The write lock tells who may be at work       *)
(* (Locked); the call works on the selected plugin until it drops the lock *)
(* to fail over, and then only a collector can come between (Working); the *)
(* error count of a plugin nobody selects by hand never exceeds what this  *)
(* instance has failed in a row (Counted).                                 *)
(***************************************************************************)
Starting ==
    pc = "starting" =>
        /\ current = None
        /\ \A p \in Plugins : errors[p] = 0 /\ cooldown[p] = 0

Locked ==
    /\ pc \in {"touch", "transcribe", "record"} => holder = "call"
    /\ \A g \in Collectors : gcpc[g] = "forget" => holder = g

Working ==
    /\ pc \in {"touch", "transcribe", "failover"} => subject \in Plugins
    /\ pc \in {"touch", "transcribe"} => current = subject
    /\ pc = "failover" => current \in {subject, None}

Counted ==
    /\ current \in Plugins \ Targets => errors[current] <= streak
    /\ pc = "retry" /\ current \in Plugins => errors[current] = 0

IInv ==
    /\ TypeOK
    /\ Starting
    /\ Locked
    /\ Working
    /\ Counted
    /\ GcSparesSettledSelection
    /\ CoolingPluginRests
    /\ FailoverIsEarned

LEMMA InvariantInit == Init => IInv
<1> SUFFICES ASSUME Init PROVE IInv
  OBVIOUS
<1>1. TypeOK
  BY TypeInit
<1>2. GcSparesSettledSelection /\ Locked
  BY DEF Init, GcSparesSettledSelection, Locked
<1>3. Starting /\ Working /\ CoolingPluginRests /\ FailoverIsEarned
  BY DEF Init, Starting, Working, CoolingPluginRests, FailoverIsEarned
<1>4. Counted
  BY PluginsAssumption DEF PluginsAssumption, Init, Counted
<1>5. QED
  BY <1>1, <1>2, <1>3, <1>4 DEF IInv

LEMMA InvariantStep == IInv /\ [Next]_vars => IInv'
<1> SUFFICES ASSUME IInv, [Next]_vars PROVE IInv'
  OBVIOUS
<1> DEFINE Rest == Starting /\ Locked /\ Working /\ Counted
                   /\ GcSparesSettledSelection /\ CoolingPluginRests
                   /\ FailoverIsEarned
<1>t. TypeOK /\ TypeOK'
  BY TypeStep DEF IInv
<1>n. None \notin Plugins /\ Targets \subseteq Plugins
  BY PluginsAssumption DEF PluginsAssumption
<1>c. "call" \notin Collectors /\ "nobody" \notin Collectors
  BY CollectorsAssumption DEF CollectorsAssumption
<1> USE <1>t, <1>n, <1>c
    DEF IInv, Starting, Locked, Working, Counted, GcSparesSettledSelection,
        CoolingPluginRests, FailoverIsEarned, TypeOK, gcVars
<1>1. ASSUME NEW p \in Plugins, Initialize(p) PROVE Rest'
  BY <1>1 DEF Initialize, Select
<1>2. ASSUME NEW p \in Targets, SwitchPlugin(p) PROVE Rest'
  BY <1>2 DEF SwitchPlugin, Select
<1>3. CASE RecordSelection
  BY <1>3 DEF RecordSelection, Return
<1>4. CASE ApplyTranscriptionConfig
  BY <1>4 DEF ApplyTranscriptionConfig
<1>5. CASE UnloadPlugin
  BY <1>5 DEF UnloadPlugin
<1>6. CASE BeginAudio
  BY <1>6 DEF BeginAudio
<1>7. CASE TouchActivity
  BY <1>7 DEF TouchActivity
<1>8. CASE TranscribeOk
  BY <1>8 DEF TranscribeOk, Return
<1>9. CASE TranscribeErr
  <2> DEFINE count == AtMost(errors[subject] + 1, Threshold)
  <2>1. /\ pc = "transcribe" /\ current = subject /\ subject \in Plugins
        /\ errors' = [errors EXCEPT ![subject] = count]
        /\ streak' = AtMost(streak + 1, Threshold)
    BY <1>9 DEF TranscribeErr
  <2>2. errors[subject] \in 0 .. Threshold /\ errors'[subject] = count
    BY <2>1
  <2>3. current \notin Targets =>
          count <= streak' /\ (count >= Threshold => streak' = Threshold)
    BY <2>1, <2>2, LimitsAssumption DEF LimitsAssumption, AtMost
  <2>4. Counted'
    BY <1>9, <2>1, <2>2, <2>3 DEF TranscribeErr, ShouldFailover
  <2>5. FailoverIsEarned'
    BY <1>9, <2>1, <2>3 DEF TranscribeErr, ShouldFailover
  <2>6. Starting' /\ Locked' /\ Working'
    BY <1>9, <2>1 DEF TranscribeErr, DropLock
  <2>7. GcSparesSettledSelection' /\ CoolingPluginRests'
    BY <1>9 DEF TranscribeErr
  <2>8. QED
    BY <2>4, <2>5, <2>6, <2>7
<1>10. CASE FailOver
  BY <1>10 DEF FailOver, Select, IsFirst, FailoverCandidates
<1>11. CASE FailOverFails
  BY <1>11 DEF FailOverFails, Return
<1>12. CASE RetryOk
  BY <1>12 DEF RetryOk, Return
<1>13. CASE RetryErr
  BY <1>13 DEF RetryErr, Return, AtMost
<1>14. ASSUME NEW g \in Collectors, GcBegin(g) PROVE Rest'
  BY <1>14 DEF GcBegin
<1>15. ASSUME NEW g \in Collectors, GcScan(g) PROVE Rest'
  BY <1>15 DEF GcScan, Inactive
<1>16. ASSUME NEW g \in Collectors, NEW p \in Plugins, GcSweep(g, p)
       PROVE Rest'
  BY <1>16 DEF GcSweep
<1>17. ASSUME NEW g \in Collectors, GcForget(g) PROVE Rest'
  <2>1. holder = g /\ pc \notin {"touch", "transcribe", "record"}
    BY <1>17 DEF GcForget
  <2>2. \A h \in Collectors : gcpc'[h] # "forget"
    BY <1>17, <2>1 DEF GcForget
  <2>3. Locked'
    BY <1>17, <2>1, <2>2 DEF GcForget
  <2>4. GcSparesSettledSelection'
    BY <1>17 DEF GcForget
  <2>5. Starting' /\ Working' /\ Counted' /\ CoolingPluginRests'
        /\ FailoverIsEarned'
    BY <1>17 DEF GcForget
  <2>6. QED
    BY <2>3, <2>4, <2>5
<1>18. ASSUME NEW g \in Collectors, RestartGcTask(g) PROVE Rest'
  BY <1>18 DEF RestartGcTask
<1>19. CASE Tick
  BY <1>19 DEF Tick, OneLess
<1>20. CASE UNCHANGED vars
  BY <1>20 DEF vars
<1>21. Rest'
  BY <1>1, <1>2, <1>3, <1>4, <1>5, <1>6, <1>7, <1>8, <1>9, <1>10, <1>11,
     <1>12, <1>13, <1>14, <1>15, <1>16, <1>17, <1>18, <1>19, <1>20
     DEF Next, CallStep, GcStep
<1>22. QED
  BY <1>21

THEOREM Invariant == Spec => []IInv
BY InvariantInit, InvariantStep, PTL DEF Spec

\* A selection that does not change is never collected, whatever the call in
\* progress, the other collectors and the restarts of the task do between a
\* collector's scan and its sweep.
THEOREM SettledSelectionSpared == Spec => []GcSparesSettledSelection
BY Invariant, PTL DEF IInv

\* No sequence of failovers, collections and expiring cooldowns brings a
\* plugin back before its cooldown is over, unless the user selects it.
THEOREM CooldownRespected == Spec => []CoolingPluginRests
BY Invariant, PTL DEF IInv

\* A plugin loses its place only for Threshold errors in a row of the
\* instance in use, unless the user selects it.
THEOREM FailoverEarned == Spec => []FailoverIsEarned
BY Invariant, PTL DEF IInv

-----------------------------------------------------------------------------
(* Refinement.  Only FailOver benches a plugin; a tick may let some go.    *)

LEMMA SelectionInit == Init => Selection!Init
BY DEF Init, Selection!Init

LEMMA SelectionStep ==
    ASSUME Cooldown > 0, IInv, [Next]_vars
    PROVE  [Selection!Next]_<<current, {p \in Plugins : cooldown[p] > 0}>>
<1> DEFINE bench == {p \in Plugins : cooldown[p] > 0}
<1>t. /\ current \in Plugins \union {None} /\ subject \in Plugins \union {None}
      /\ cooldown \in [Plugins -> 0 .. Cooldown]
      /\ Targets \subseteq Plugins /\ Cooldown \in Nat /\ None \notin Plugins
  BY PluginsAssumption, LimitsAssumption
     DEF IInv, TypeOK, PluginsAssumption, LimitsAssumption
<1> USE DEF Selection!Next
<1>1. ASSUME NEW p \in Plugins, Initialize(p) PROVE Selection!Start(p)
  <2>1. current = None /\ bench = {}
    BY <1>1 DEF Initialize, IInv, Starting
  <2>2. current' = p /\ bench' = bench
    BY <1>1 DEF Initialize, Select
  <2>3. QED
    BY <2>1, <2>2 DEF Selection!Start
<1>2. ASSUME NEW p \in Targets, SwitchPlugin(p) PROVE Selection!Choose(p)
  BY <1>2 DEF SwitchPlugin, Select, Selection!Choose
<1>3. ASSUME FailOver PROVE \E p \in Plugins : Selection!FailOver(subject, p)
  <2>1. subject \in Plugins /\ current \in {subject, None}
    BY <1>3 DEF FailOver, IInv, Working
  <2>2. PICK p \in Plugins : current' = p /\ p \in FailoverCandidates
    BY <1>3 DEF FailOver, IsFirst, Select
  <2>3. p \notin bench \union {subject}
    BY <2>2, <1>t DEF FailoverCandidates
  <2>4. bench' = bench \union {subject}
    <3>1. cooldown' = [cooldown EXCEPT ![subject] = Cooldown]
      BY <1>3 DEF FailOver
    <3>2. QED
      BY <3>1, <2>1, <1>t
  <2>5. QED
    BY <2>1, <2>2, <2>3, <2>4 DEF Selection!FailOver
<1>4. ASSUME FailOver PROVE Selection!Next
  <2>1. subject \in Plugins
    BY <1>4 DEF FailOver, IInv, Working
  <2>2. QED
    BY <1>3, <1>4, <2>1
<1>5. CASE UnloadPlugin
  BY <1>5 DEF UnloadPlugin, Selection!Deselect
<1>6. ASSUME NEW g \in Collectors, NEW p \in Plugins, GcSweep(g, p)
      PROVE  Selection!Deselect \/ UNCHANGED <<current, cooldown>>
  BY <1>6, <1>t DEF GcSweep, Selection!Deselect
<1>7. CASE Tick
  <2>1. current' = current /\ bench' \in SUBSET bench
    BY <1>7, <1>t DEF Tick, OneLess
  <2>2. QED
    BY <2>1 DEF Selection!Recover
<1>8. CASE RecordSelection \/ ApplyTranscriptionConfig \/ BeginAudio
           \/ TouchActivity \/ TranscribeOk \/ TranscribeErr
           \/ FailOverFails \/ RetryOk \/ RetryErr
  BY <1>8 DEF RecordSelection, ApplyTranscriptionConfig, BeginAudio,
              TouchActivity, TranscribeOk, TranscribeErr, FailOverFails,
              RetryOk, RetryErr
<1>9. ASSUME NEW g \in Collectors,
             GcBegin(g) \/ GcScan(g) \/ GcForget(g) \/ RestartGcTask(g)
      PROVE  UNCHANGED <<current, cooldown>>
  BY <1>9 DEF GcBegin, GcScan, GcForget, RestartGcTask
<1>10. CASE UNCHANGED vars
  BY <1>10 DEF vars
<1>11. QED
  BY <1>1, <1>2, <1>4, <1>5, <1>6, <1>7, <1>8, <1>9, <1>10
     DEF Next, CallStep, GcStep

\* The manager implements PluginSelection: forgetting locks, clocks, error
\* counts and collectors, a failed plugin is benched and no failover picks a
\* benched plugin or the one that has just failed, even when a collector
\* deselects it first.
THEOREM SelectionImplemented ==
    ASSUME Cooldown > 0
    PROVE  Spec => ImplementsSelection
<1>1. Init => Selection!Init
  BY SelectionInit
<1>2. IInv /\ [Next]_vars
        => [Selection!Next]_<<current, {p \in Plugins : cooldown[p] > 0}>>
  BY SelectionStep
<1>3. QED
  BY <1>1, <1>2, Invariant, PTL DEF Spec, ImplementsSelection, Selection!Spec
=============================================================================

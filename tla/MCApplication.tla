--------------------------- MODULE MCApplication ---------------------------
(* UtteranceProcessor, Persistence, Lifecycle, Dashboard, AudioDump and     *)
(* Configuration for TLC.  They share no state: the run explores each with  *)
(* the others at rest.                                                      *)
EXTENDS UtteranceProcessor, Persistence, Lifecycle, Dashboard, AudioDump,
        Configuration

VARIABLE part

applicationVars ==
    <<part, utteranceVars, persistenceVars, lifecycleVars, dashboardVars,
      dumpVars, configurationVars>>

OfUtterances(A) ==
    part = "utterances" /\ A
        /\ UNCHANGED <<part, persistenceVars, lifecycleVars, dashboardVars,
                       dumpVars, configurationVars>>
OfWriter(A) ==
    part = "writer" /\ A
        /\ UNCHANGED <<part, utteranceVars, lifecycleVars, dashboardVars,
                       dumpVars, configurationVars>>
OfProgram(A) ==
    part = "program" /\ A
        /\ UNCHANGED <<part, utteranceVars, persistenceVars, dashboardVars,
                       dumpVars, configurationVars>>
OfDashboard(A) ==
    part = "dashboard" /\ A
        /\ UNCHANGED <<part, utteranceVars, persistenceVars, lifecycleVars,
                       dumpVars, configurationVars>>
OfRecorder(A) ==
    part = "recorder" /\ A
        /\ UNCHANGED <<part, utteranceVars, persistenceVars, lifecycleVars,
                       dashboardVars, configurationVars>>
OfSettings(A) ==
    part = "settings" /\ A
        /\ UNCHANGED <<part, utteranceVars, persistenceVars, lifecycleVars,
                       dashboardVars, dumpVars>>

\* A profile with a mode in another case, one with a selection that is
\* refused, and two with an error beside a mode and alone.
SettingsTextsDef ==
    {[stt |-> [preferred |-> "parakeet", fallbacks |-> {}],
      activation_mode |-> "Hotkey", resampler_quality |-> "FAST"],
     [stt |-> [preferred |-> "http-remote", fallbacks |-> {"mock"}],
      keystroke_rate_cps |-> "excessive"],
     [activation_mode |-> "hotkey", cooldown_initial_ms |-> "zero"],
     [payload |-> "less", base_url |-> "https"]}
OverridesDef == {<<>>, [activation_mode |-> "hotkey", blocklist |-> "some"]}
SelectionsDef ==
    {[preferred |-> "moonshine", fallbacks |-> {"parakeet"}],
     [preferred |-> "mock", fallbacks |-> {"noop"}]}

\* What those at rest would choose is chosen for them.  The files of a text
\* and of the audio are written one after the other: one format is enough
\* where both are.
ApplicationInit ==
    /\ part \in {"utterances", "writer", "program", "dashboard", "recorder",
                 "settings"}
    /\ UtteranceInit /\ PersistenceInit /\ LifecycleInit /\ DashboardInit
    /\ DumpInit /\ ConfigurationInit
    /\ part # "utterances" => engine = "noop"
    /\ part # "writer" => saving = "nothing" /\ format = "csv"
    /\ part = "writer" => saving = "text" \/ format = "json"
    /\ part # "recorder" => dumpFormat = "pcm"
    /\ part # "dashboard" => wanted = "Vad"
    /\ part # "program" => program = "coldvox" /\ asked = "Vad"

ApplicationNext ==
    \/ OfUtterances(UtteranceNext)
    \/ OfWriter(PersistenceNext)
    \/ OfProgram(LifecycleNext)
    \/ OfDashboard(DashboardNext)
    \/ OfRecorder(DumpNext)
    \/ OfSettings(ConfigurationNext)

\* The tasks of the pipeline, the threads that end them and main are
\* scheduled; nobody need press a key, speak or send a signal.
ApplicationSpec ==
    /\ ApplicationInit /\ [][ApplicationNext]_applicationVars
    /\ WF_applicationVars(OfProgram(NotifyWaiters))
    /\ WF_applicationVars(OfProgram(StopWaiting))
    /\ WF_applicationVars(OfProgram(StopCapture))
    /\ WF_applicationVars(OfProgram(AbortTasks))
    /\ SF_applicationVars(OfProgram(UnloadPlugins))
    /\ WF_applicationVars(OfProgram(CallEnds))
    /\ WF_applicationVars(OfProgram(TaskEnds))
    /\ WF_applicationVars(OfProgram(ShutdownReturns))
    /\ WF_applicationVars(OfProgram(Exit))
=============================================================================

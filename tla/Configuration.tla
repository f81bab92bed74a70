--------------------------- MODULE Configuration ---------------------------
(***************************************************************************)
(* What a program is configured with, from one start to the next:          *)
(* Settings of crates/app/src/lib.rs, which main.rs builds from defaults,  *)
(* one file and the environment and turns into the options of the runtime; *)
(* and the plugin selection, which SttPluginManager reads from one file    *)
(* and writes back when the runtime gives it another.                      *)
(*                                                                         *)
(* A setting stands for all that are treated like it: a name or a number   *)
(* that validate() repairs, a number or a text that it refuses, a relation *)
(* of two.  A number is "zero", "fine" or "excessive".  A user edits the   *)
(* files between two steps, and a program may be killed at any of its own. *)
(***************************************************************************)
EXTENDS FiniteSets, Sequences, SequencesExt

CONSTANTS
    SettingsTexts,      \* what a settings file may say: partial records
    Overrides,          \* what COLDVOX__ variables say, likewise
    Selections,         \* selections a user writes into a plugin file
    MaxLaunches,        \* bound: starts of a program
    MaxEdits            \* bound: edits of a file

VARIABLES
    settingsFiles,  \* the files of settings
    pluginFiles,    \* the copies of plugins.json
    edits, launches

VARIABLES
    binary,         \* the program that was started last
    stage,          \* where it is
    surroundings,   \* its working directory and environment
    settings,       \* Settings
    configPath,     \* SttPluginManager::config_path
    selection,      \* SttPluginManager::selection_config
    inUse           \* what the pipeline got of the settings

\* History variable: the file and the environment the settings are of.
VARIABLE sources

fileVars == <<settingsFiles, pluginFiles, edits>>
launchVars == <<settings, configPath, selection, inUse, sources>>
runVars == <<binary, surroundings, launchVars>>
configurationVars == <<fileVars, runVars, launches, stage>>

-----------------------------------------------------------------------------
(* Defaults                                                                *)

NoSelection == [preferred |-> "none", fallbacks |-> {}]

\* build_config's set_default calls.
BuilderDefaults ==
    [resampler_quality |-> "balanced", activation_mode |-> "vad",
     keystroke_rate_cps |-> "fine", cooldown_initial_ms |-> "fine",
     blocklist |-> "empty", base_url |-> "http", payload |-> "fine",
     stt |-> NoSelection]

\* Settings::default() leaves the two names to the builder.
StructDefaults ==
    [BuilderDefaults EXCEPT !.resampler_quality = "",
                            !.activation_mode = ""]

InjectionKeys == {"keystroke_rate_cps", "cooldown_initial_ms", "blocklist"}

\* The service of the registered plugins, whatever stt.remote says.
BuiltinService == "canonical"

Whole(x) == [state |-> "whole", holds |-> x]
Absent == [state |-> "absent", holds |-> <<>>]
Garbled == [state |-> "garbled", holds |-> <<>>]

-----------------------------------------------------------------------------
(* Which file                                                              *)

\* An override that is no number ends the load like a file that is no TOML.
\* Inside the repository cargo finds what is found without it.
Surroundings ==
    {w \in [directory : {"root", "app", "elsewhere"}, cargo : {"yes", "no"},
             profile : {"unset", "set"}, plugins : {"unset", "set"},
             overrides : {Whole(o) : o \in Overrides} \union {Garbled}] :
        w.cargo = "yes" => w.directory = "elsewhere"}

There(files, f) == files[f].state # "absent"
FirstOf(files, order) ==
    LET there == SelectSeq(order, LAMBDA f : There(files, f))
    IN  IF there = <<>> THEN "none" ELSE Head(there)

If(condition, files) == IF condition THEN files ELSE <<>>

InRepository(w) == w.directory # "elsewhere"

\* A profile that is not there is passed over in silence.
DiscoverConfigPath(w) ==
    FirstOf(settingsFiles,
            If(w.profile = "set", <<"profile">>)
            \o If(w.cargo = "yes" \/ InRepository(w), <<"default">>)
            \o <<"user">>)

ExplicitStartup(w) ==
    w.profile = "set" /\ There(settingsFiles, "profile")

\* The copy under crates/app is passed over.
DiscoverPluginConfig(w) ==
    IF w.plugins = "set" THEN FirstOf(pluginFiles, <<"custom">>)
    ELSE IF ExplicitStartup(w) THEN "none"
    ELSE FirstOf(pluginFiles,
                 If(w.cargo = "yes" \/ InRepository(w), <<"canonical">>)
                 \o If(~InRepository(w), <<"stray">>))

\* config/plugins.json, from the working directory.
RelativePath ==
    [root |-> "canonical", app |-> "legacy", elsewhere |-> "stray"]

ManagerPath(w) ==
    LET found == DiscoverPluginConfig(w)
    IN  IF found = "none" THEN RelativePath[w.directory] ELSE found

-----------------------------------------------------------------------------
(* Settings                                                                *)

\* Sources that come later win.
Overlaid(base, layer) ==
    [k \in DOMAIN base \union DOMAIN layer |->
        IF k \in DOMAIN layer THEN layer[k] ELSE base[k]]

BuildConfig(file, w) ==
    Overlaid(Overlaid(BuilderDefaults, file.holds), w.overrides.holds)

Lowercase(name) ==
    CASE name = "Hotkey" -> "hotkey" [] name = "FAST" -> "fast"
      [] OTHER -> name

Accepted ==
    [resampler_quality |-> {"fast", "balanced", "quality"},
     activation_mode |-> {"vad", "hotkey"},
     keystroke_rate_cps |-> {"fine"}]

\* Clamped, with a warning: names and numbers out of range.
Repaired(s) ==
    [k \in DOMAIN s |->
        IF k \in DOMAIN Accepted /\ Lowercase(s[k]) \notin Accepted[k]
        THEN BuilderDefaults[k] ELSE s[k]]

\* Refused: numbers that must be positive, the address of the service, and
\* a payload limit below that of the audio in it.
Errors(s) ==
    {k \in {"cooldown_initial_ms"} : s[k] = "zero"}
    \union {k \in {"base_url"} : s[k] # "http"}
    \union {k \in {"payload"} : s[k] = "less"}

\* Mutant: the errors are logged like the warnings.
LoadedAnyway(file, w) ==
    IF file.state = "garbled" \/ w.overrides.state = "garbled" THEN {}
    ELSE {Repaired(BuildConfig(file, w))}

\* What Settings::new answers, as a set: empty for an error.
Loaded(file, w) ==
    IF file.state = "garbled" \/ w.overrides.state = "garbled" THEN {}
    ELSE {s \in {Repaired(BuildConfig(file, w))} : Errors(s) = {}}

FileAt(f) == IF f = "none" THEN Absent ELSE settingsFiles[f]

\* main looks for the mode as it is written, and for the quality in lower
\* case; anything else is the default.
Mode(s) == IF s.activation_mode = "hotkey" THEN "hotkey" ELSE "vad"
Quality(s) ==
    IF Lowercase(s.resampler_quality) \in {"fast", "quality"}
    THEN Lowercase(s.resampler_quality) ELSE "balanced"

\* InjectionOptions has no room for the others, which keep their defaults.
PassedOn == {"cooldown_initial_ms"}

Options(s) ==
    [mode |-> Mode(s), quality |-> Quality(s), service |-> BuiltinService,
     injection |-> [k \in InjectionKeys |->
                       IF k \in PassedOn THEN s[k] ELSE BuilderDefaults[k]]]

\* validate_runtime_policy
Permitted(sel) ==
    /\ "noop" \notin sel.fallbacks
    /\ ~(sel.preferred = "http-remote" /\ "mock" \in sel.fallbacks)

-----------------------------------------------------------------------------
(* The user                                                                *)

Checkout ==
    /\ settingsFiles = [profile |-> Absent, user |-> Absent,
           default |-> Whole([stt |->
               [preferred |-> "mock", fallbacks |-> {}]])]
    /\ pluginFiles = [custom |-> Absent, legacy |-> Absent, stray |-> Absent,
           canonical |-> Whole([preferred |-> "http-remote",
                                fallbacks |-> {}])]

Bare == [directory |-> "root", cargo |-> "no", profile |-> "unset",
         plugins |-> "unset", overrides |-> Whole(<<>>)]

ConfigurationInit ==
    /\ Checkout
    /\ edits = 0 /\ launches = 0
    /\ binary = "coldvox" /\ stage = "off" /\ surroundings = Bare
    /\ settings = StructDefaults /\ configPath = "none"
    /\ selection = NoSelection /\ inUse = Options(StructDefaults)
    /\ sources = Absent

\* What a process had in memory ends with it.
Over ==
    /\ stage' = "off" /\ binary' = "coldvox" /\ surroundings' = Bare
    /\ settings' = StructDefaults /\ configPath' = "none"
    /\ selection' = NoSelection /\ inUse' = Options(StructDefaults)
    /\ sources' = Absent

Variants(texts) == {Whole(t) : t \in texts} \union {Absent, Garbled}

EditSettings(f) ==
    /\ edits < MaxEdits /\ edits' = edits + 1
    /\ \E text \in Variants(SettingsTexts) :
            settingsFiles' = [settingsFiles EXCEPT ![f] = text]
    /\ UNCHANGED <<pluginFiles, runVars, launches, stage>>

EditPlugins(f) ==
    /\ edits < MaxEdits /\ edits' = edits + 1
    /\ \E text \in Variants(Selections) :
            pluginFiles' = [pluginFiles EXCEPT ![f] = text]
    /\ UNCHANGED <<settingsFiles, runVars, launches, stage>>

-----------------------------------------------------------------------------
(* A start                                                                 *)

\* The dashboard has options of its own and reads no settings.
Launch(program, w) ==
    /\ stage = "off" /\ launches < MaxLaunches
    /\ program # "coldvox" => w.overrides = Whole(<<>>)
    /\ launches' = launches + 1
    /\ binary' = program /\ surroundings' = w
    /\ stage' = IF program = "coldvox" THEN "settings" ELSE "manager"
    /\ UNCHANGED <<fileVars, launchVars>>

\* Settings::new().unwrap_or_else(default): an error in one setting loses
\* them all.
LoadSettings ==
    /\ stage = "settings"
    /\ LET file == FileAt(DiscoverConfigPath(surroundings))
           loaded == Loaded(file, surroundings)
       IN  /\ settings' =
                IF loaded = {} THEN StructDefaults
                ELSE CHOOSE s \in loaded : TRUE
           /\ sources' = file
    /\ inUse' = Options(settings')
    /\ stage' = "manager"
    /\ UNCHANGED <<fileVars, binary, surroundings, configPath, selection,
                   launches>>

\* What load_config_sync makes of the file; an error is a warning.
Read(file, before) ==
    IF file.state = "whole" /\ Permitted(file.holds) THEN file.holds
    ELSE before

NewManager ==
    /\ stage = "manager"
    /\ configPath' = ManagerPath(surroundings)
    /\ selection' = Read(pluginFiles[configPath'], NoSelection)
    /\ stage' = "selection"
    /\ UNCHANGED <<fileVars, binary, surroundings, settings, inUse, sources,
                   launches>>

\* Mutant: what the settings leave out is taken from the plugin file.
SelectionMerged ==
    IF binary = "coldvox" /\ settings.stt # NoSelection THEN settings.stt
    ELSE selection

\* stt_selection of the options: the dashboard gives its own default.
SelectionOf ==
    IF binary = "coldvox" THEN settings.stt ELSE NoSelection

SetSelectionConfig ==
    /\ stage = "selection"
    /\ IF Permitted(SelectionOf)
       THEN /\ selection' = SelectionOf /\ stage' = "saving"
            /\ UNCHANGED <<binary, surroundings, settings, configPath, inUse,
                           sources>>
       ELSE Over
    /\ UNCHANGED <<fileVars, launches>>

Write(text) == pluginFiles' = [pluginFiles EXCEPT ![configPath] = text]

\* fs::write empties the file before it fills it.
SaveBegins ==
    /\ stage = "saving" /\ stage' = "writing" /\ Write(Garbled)
    /\ UNCHANGED <<settingsFiles, edits, runVars, launches>>

SaveEnds ==
    /\ stage = "writing" /\ stage' = "selecting" /\ Write(Whole(selection))
    /\ UNCHANGED <<settingsFiles, edits, runVars, launches>>

\* A directory or a file that cannot be written is a warning.
SaveFails ==
    /\ stage \in {"saving", "writing"} /\ stage' = "selecting"
    /\ UNCHANGED <<fileVars, runVars, launches>>

\* initialize() looks at the policy again and may find no plugin.
SelectPlugin ==
    /\ stage = "selecting"
    /\ \/ /\ Permitted(selection) /\ stage' = "running"
          /\ UNCHANGED runVars
       \/ Over
    /\ UNCHANGED <<fileVars, launches>>

Quit ==
    /\ stage # "off" /\ Over
    /\ UNCHANGED <<fileVars, launches>>

ConfigurationNext ==
    \/ \E f \in DOMAIN settingsFiles : EditSettings(f)
    \/ \E f \in DOMAIN pluginFiles : EditPlugins(f)
    \/ \E p \in {"coldvox", "tui_dashboard"}, w \in Surroundings :
            Launch(p, w)
    \/ LoadSettings \/ NewManager \/ SetSelectionConfig
    \/ SaveBegins \/ SaveEnds \/ SaveFails \/ SelectPlugin \/ Quit

ConfigurationSpec ==
    ConfigurationInit /\ [][ConfigurationNext]_configurationVars

-----------------------------------------------------------------------------
(* Properties                                                              *)

\* What the user asked for when main loaded its settings.
Asked == BuildConfig(sources, surroundings)
IsSound ==
    /\ "garbled" \notin {sources.state, surroundings.overrides.state}
    /\ Errors(Asked) = {}

\* "config/plugins.json remains plugin-manager persistence and does not
\* replace this file" (config/windows-parakeet.toml:5): main runs with the
\* selection of its settings, whatever a copy of plugins.json holds, whoever
\* wrote it and wherever the program was killed before; and with the default
\* one if the settings have any error.
ProfileDecides ==
    stage = "running" /\ binary = "coldvox" =>
        selection = IF IsSound THEN Asked.stt ELSE StructDefaults.stt

\* No setting that validate() refuses reaches the pipeline, and none that
\* came together with it: a pipeline has repaired settings of one file and
\* one environment, or only defaults.  A mode that is accepted and written in
\* lower case is the one it starts in.
SettingsAreOfOnePiece ==
    stage = "running" /\ binary = "coldvox" =>
        /\ inUse.injection.cooldown_initial_ms # "zero"
        /\ ~IsSound => inUse = Options(BuilderDefaults)
        /\ IsSound /\ Asked.activation_mode \in {"vad", "hotkey"}
                => inUse.mode = Asked.activation_mode
=============================================================================

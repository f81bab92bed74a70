# Formal models of ColdVox

ColdVox listens to a microphone, decides when somebody speaks, has the speech
transcribed by a plugin, and types the text into the application that has the
focus. This directory holds TLA+ models of the parts of it whose correctness
depends on the order in which things happen: threads, tasks, timers, bounded
channels, locks, fallbacks, cooldowns, files that are written while something
fails, and settings that come from several places. TLC checks them on small
instances; TLAPS proves every safety property those runs check for all values of
the parameters.

`PROJECT.json` is the index: the components, the runs, the mutants that show
each checked property to depend on the code, the source lines each definition
translates, the hazards, the findings and the theorems.

    tlasany M.tla                                    parse
    tlc -workers 2 -config PmFailover.cfg MCPluginManager.tla    check
    tlapm PluginManagerProofs.tla                    prove


## 1. The system

Paths are under `src/crates/`. Audio flows from top to bottom:

    device --cpal callback--> ring buffer -> FrameReader -> AudioChunker
                                                        | broadcast of frames
              watchdog, device monitor                  +--> VadProcessor --+
                                                        |      or hotkey    | trigger
                                                        v                   v
                                            PluginSttProcessor <-- session events
                                               | SttPluginManager (locks, failover, GC)
                                               v
                                            event stream -> forwarder -> UI channel
                                                               |
                                                               v
                                   text-injection task: session -> StrategyManager
                                                               -> AT-SPI, clipboard, ...

| Component | State it keeps | Operations | Hard because of | Correct when | Module |
|---|---|---|---|---|---|
| STT plugin manager (`app/src/stt/plugin_manager.rs`) | selected plugin, per-plugin error counts, last activity, cooldowns; two inner RwLocks | initialize, switch, unload, process_audio with failover, collection of inactive plugins (a task and a method) | lock order; a selection read under one lock and used under another; counters and clocks that gate failover | a selection is not collected under its user, failover is earned and respects cooldowns, every call returns | PluginManager |
| STT pipeline (`app/src/stt/processor.rs`, `app/src/runtime.rs`) | utterance state, spawned tasks, four bounded channels, activation mode | session start and end, frame, finalize, forward, set_activation_mode | spawned tasks that reset shared state; one consumer of a fan-out that does not read; replacement of a running trigger | one finalization at a time, results in spoken order, each delivered, the processor always comes back to Idle | SttPipeline |
| Audio capture and watchdog (`coldvox-audio/src/capture.rs`, `watchdog.rs`) | a flag shared by four threads, the stream, the watchdog's clock and trigger | spawn, preflight, restart, stop, callback, stream error | one flag with two meanings; a decision and a store that are not atomic; stop against restart | no stream opened beside an old watchdog, silence is noticed, nothing survives the thread, stop returns | AudioCapture |
| Audio devices (`coldvox-audio/src/device.rs`, `capture.rs`) | a list of devices up to five seconds old | list, order the candidates, open by name | a stale list against the devices there are; names that contain each other | the first candidate that works is opened, a start fails only without one | DeviceManager, DeviceChoice |
| Device monitor (`coldvox-audio/src/monitor.rs`) | last listed devices, absence counts, current device | scan, start, set current | events over a history of scans of a cached list | events tell a follower what exists | DeviceMonitor |
| Sample path (`coldvox-audio/src/ring_buffer.rs`, `frame_reader.rs`, `chunker.rs`, `resampler.rs`) | ring, device configuration, samples short of a chunk and of a frame | all-or-nothing writes, reads, mix-down, resampling, reconfiguration | a full ring, a reader that lags, a change of channels and rate in mid-frame | no sample twice or out of order; an instant's channels stay together | SamplePath |
| Trigger: VAD and hotkey (`coldvox-vad-silero`, `app/src/audio/vad_processor.rs`, `app/src/hotkey`) | debounce timers, speech state; pressed state, D-Bus connection | process a frame; press, release, reconnect; replace one by the other | a broadcast receiver that lags; two streams of signals; a connection lost between press and release | starts and ends alternate; a session ends with the speech | Activation |
| Utterance processor and STT plugins (`coldvox-stt/src`) | audio of the utterance, the engine's buffer, utterance ids | start, frame, end, process, finalize, reset | a failed or refused utterance left in an engine's buffer; lags | an engine holds one utterance's audio; an id is one utterance's | UtteranceProcessor |
| Persistence (`app/src/stt/persistence.rs`) | session in memory; wavs, text files and manifest on disk | audio, speech boundary, transcript, finalize, cleanup | three channels in any order; any write may fail | wavs are of one utterance; the manifest catches up | Persistence |
| Text-injection session and loop (`coldvox-text-injection/src/session.rs`, `processor.rs`) | buffered texts, session state, time of the last text | add, check for a pause, take the buffer, inject | texts that arrive while another is injected; timers restarted by every text; abort | nothing lost, repeated or reordered; what is buffered gets injected | InjectionProcessor, TextInjection |
| Strategy manager (`coldvox-text-injection/src/manager.rs`) | cooldown and back-off level per application and method, failure counts, the call's clock | inject and its fallback loop | cooldowns that end during the loop; failures in several applications; a budget | every method that could serve is tried; waits are earned and end | StrategyManager |
| Injectors, orchestrator, confirmation (`coldvox-text-injection/src`) | clipboard backup, spawned restores | inject_text, paste, restore, confirm | a delayed restore in a task of its own; an insert that times out after it was carried out; stages cut at any await | the user's clipboard comes back; only the text is pasted, once; Ok means entered | Injectors |
| Start, shutdown, signals (`app/src/runtime.rs`, `main.rs`, both dashboards, `coldvox-foundation/src`) | the threads and tasks of a pipeline, the manager's lock, application state, shutdown notification | start, shutdown, restart, signal, quit, switch of mode | a start that fails half way; a signal before somebody waits for it; tasks aborted and awaited in order, or neither; a lock held by a task nobody can abort | stopped means stopped; a signal ends the program unless the shutdown hangs | Lifecycle |
| What a dashboard shows (`app/src/bin/tui_dashboard.rs`, `app/src/runtime.rs`) | is_speaking, two queues of events | forward, show, switch the mode | a broadcast that overtakes its reader; a trigger replaced in mid-speech | it shows the state of the trigger it was told of last | Dashboard |
| Dashboard's recording (`app/src/bin/tui_dashboard.rs`) | a file and the buffer in front of it | open, write a frame, skip what was missed, flush | a broadcast that overtakes its reader; writes and flushes that fail; an end in between | what is missing before the last flush was reported | AudioDump |
| Configuration (`app/src/lib.rs`, `main.rs`, `plugin_manager.rs`) | settings files, plugins.json, environment | discover, merge, validate, pass on, read and write the selection | several copies, edits and kills between steps; validation in pieces | the profile decides; settings are of one piece | Configuration |
| Telemetry, audio quality, probes, GUI | counters, measures, views | | no protocol of their own | | none |

How they interact. The capture thread calls nothing downstream: a cpal callback
writes to a lock-free ring. The chunker broadcasts frames, so a slow receiver
loses frames and learns it (`Lagged`). The trigger, VAD or hotkey, sends session
events through a bounded channel; the processor owns no lock while it handles
them and spawns what may wait. Plugin calls go through the manager's outer
RwLock and two inner ones. Results pass two more bounded channels, the forwarder
between them, to the text-injection task, which is the only caller of its own
strategy manager. `AppHandle::shutdown` stops the capture threads, aborts the
tasks it has handles of, waits for the manager's lock to unload the plugins, and
awaits the tasks, but not the forwarder; finalizations and restores are tasks it
has no handle of. The settings are read once at the start;
the plugin selection is read from plugins.json, replaced by that of the settings
and written back.

Facts met on the way that shape the models:

- *Pipeline.* `HotkeyBehavior` has one variant, Incremental, under which no
  audio reaches a plugin; `SessionEvent::Abort` is handled but never sent.
- *Injection.* `fail_fast` and pausing are constants off; `force_inject` and
  `clear` cannot be called once `run()` has consumed the processor; the task's
  own shutdown channel is never used, because its sender lives as long as the
  task. The application id is the bus name of the focused AT-SPI object; the
  overview in the documents speaks of a window class.
- *Devices.* A restart does not ask for the device of the settings again. A
  device newer than the cached list may be missed, and a restart that failed
  is not repeated. `current_device_name` is the name that was tried, which
  need not be that of the device it led to. `frames_captured` counts over all
  streams. `request_device_switch` cannot find a device before monitoring
  starts and has no caller after it.
- *Trigger.* The VAD task takes a lag for the end of the frames and stops.
- *Desktop.* The restore of the unified clipboard calls the Wayland library
  whatever the backend is, so on X11 it always fails.
- *Sample path.* A read asks for 4096 samples, and what is over after the last
  whole instant of them is dropped: with three channels or six a full read
  shifts the channels of what follows.
- *Persistence.* A day's directory is removed when its first hour is
  `retention_days` old, also with saving disabled. A transcript that comes late
  is given the start and the audio of the next utterance. No binary spawns the
  handler, nor coldvox-stt's `SttProcessor`.
- *Start and stop.* A start that fails after the capture has begun leaves
  capture and chunker, and perhaps the trigger, to themselves. A signal that
  comes before `wait()` is lost and the handler takes no second one. A
  dashboard's `while let Ok` takes a lag for the end of the events, while its
  recording goes on. After a switch of mode in mid-speech it shows speech until
  the new trigger has spoken and stopped. A recording passes a BufWriter, whose
  last flush may fail: `let _ = writer.flush()`, and then "Audio dump stopped". The keys L, W and U of tui_dashboard name the plugins
  "mock" and "noop", which no binary registers, so these switches always fail
  and are announced all the same.
- *Configuration.* allowlist, blocklist, redact_logs and stt.remote of the
  settings are validated but reach no part of the pipeline. require_local,
  max_memory_mb and required_language of a selection are consulted by nothing,
  although plugin.rs says so. A mode written in capitals passes validation and
  is then taken for VAD. A COLDVOX_CONFIG_PATH or COLDVOX_PLUGIN_CONFIG_PATH
  that names no file is passed over. default.toml prefers "mock", which only
  tests register. With the feature moonshine, `register_builtin_plugins`
  repeats a block with a variable that is out of scope and does not compile.


## 2. The modules

Each component has a module (state, Init, one action per step between two points
at which its thread or task can be interrupted). MC modules give TLC small
instances. Proofs modules hold the theorems: one for a component, or one for
several that share no state and so can be extended together. QueueTheorems holds
the lemmas on sequences they share. Parameters are CONSTANTS with named
assumptions. Actions carry the names of the functions they translate where
TLA+ permits; `map` in PROJECT.json gives the lines of each.

**PluginManager.** The manager lives in an outer RwLock, so at most one `&mut
self` call is in progress; `pc` and `subject` are how far it has got and with
which plugin. Collectors are the background task and callers of
gc_inactive_models; they share with the call the two inner RwLocks, `holder`
(writer of current_plugin) and `readers` (of last_activity). process_audio is
BeginAudio (take the plugin lock), TouchActivity (the second lock), TranscribeOk
or TranscribeErr, and, past the threshold, FailOver or FailOverFails, and the
retry on the new plugin. A collection is GcBegin, GcScan, then GcSweep and
GcForget per victim. Clocks are counters that Tick moves and that saturate where
the code only compares.

**PluginSelection.** The abstract specification: a plugin that failed is
benched, and a failover picks neither a benched plugin nor the failed one.
`PluginManager!Selection` instantiates it with `plugin <- current` and
`benched <-` the plugins whose cooldown is not over.

**SttPipeline.** The trigger and the session queue, the processor's state
(`state`, `utt`), the tasks it spawns for each utterance (`begin`, `task`), the
event stream, the forwarder (`forwarding`, `fwpc`), the injection and UI
channels and set_activation_mode. An utterance is its number; queues have small
capacities. `reader` is what becomes of the UI channel's receiver: something
reads it, it is kept and never read, or it has been dropped. `injector` is the
injection loop: it waits for a text, buffers some, or injects, which may never
end, and then it receives nothing. Calls of the plugin manager return here:
PluginManager says when they do not.

**AudioCapture.** Four threads and one flag: the capture thread (`pc`, `why` it
stops or starts a stream, `left` candidates), its watchdog (`wd`, `triggered`,
`age` of the last feed), the device monitor (`monitor`), and the caller of spawn
and stop. A pass of the capture loop is two steps, Check and Pass, because the
flag may change between them; so are the watchdog's decision and its store.

**DeviceManager.** What capture and monitor have in common: the devices there
are (`plugged`), the list that is kept (`cached`, `cacheAge`) and when it is
made anew. DeviceChoice and DeviceMonitor extend it.

**DeviceChoice.** What a start and a restart try: `untried` holds the attempts
left, Rank orders them as the code lists them, TryOpens and TryFails take the
next, looked up by its name or a part of it among the devices there are then.
`sound` is the set of devices that deliver, `osDefault` the one the system
names. Devices come and go between any two steps. `steady` is a history
variable: the devices that have been there since the list was made.

**DeviceMonitor.** What the scans see (the cached list), remember (`seen`,
`missing`) and report (`removed`, `lost`). `known` is a history variable: the
devices that exist to one who follows the events. `absent` is what the
documentation means by consecutive absences.

**SamplePath.** A device is its configuration. The callback writes whole blocks
or nothing into `ring`; the worker applies the announced configurations, reads,
mixes down, resamples (`residue` is what the resampler holds back) and sends
frames (`last`). A device sample is its instant, its channel and its device, so
that a mono sample can tell what it was made from.

**Activation.** Both triggers and set_activation_mode. The VAD is its backlog of
frames, its two timers (`onset`, `quiet`) and `speech`; the listener is its two
signal streams and `pressed`, from detection to a lost connection. `sending` is
the event whose send() waits for room in the channel. `owing` and `orphan` are
history variables: the trigger owes the end of what it started, or one that did
is gone.

**SessionTrigger.** The abstract specification between Activation and
SttPipeline: of one trigger starts and ends alternate, through a bounded channel,
and a trigger may be lost with the end it owes. Both modules instantiate it.
Activation's trigger is in speech from the start it sent until its end is sent
(Sender); SttPipeline's is its variable `trigger`, which is lost in the ways that
Activation spells out (ReplaceTrigger, LoseTrigger).

**UtteranceProcessor.** The select! over frames and VAD events, with both lags,
the hand-over of an utterance (FeedChunk, FinalizeEnd) through the adapter with
its ids, and five engines. What an engine does with a call is a set of outcomes
(the buffer it keeps, the answer), one operator for each engine and call.

**Persistence.** The task with its three channels, the writer's memory and the
disk. Each write is a step of its own and may fail before, during (TornManifest)
or after it changed the disk; a crash is a state that comes last.

**InjectionProcessor.** The run loop (`loop`), its channel (`inbox`, with how
each text ends), the session (`state`, `buffer`, `age`) and the text that is
being injected (`batch`). Texts are numbered round and round, so order and
identity can be stated with finitely many numbers as long as fewer than Ids are
unsettled. should_inject and take_buffer happen in one step, as in
prepare_injection; the injection itself is a separate state in which nothing is
received.

**StrategyManager.** One call of inject(): the focus, the application's id and
whether the patterns allow it, then the loop over MethodOrder with Skip,
RunOutOfBudget, Try, Succeed, Fail, GiveUp. `rest`, `level` and `fails` are kept
per application and method, as the code keys them. From the third failure on one
failure applies the cooldown twice, because the success record and the loop both
do; Fail does both in its one step. `tried` and `waited` are history variables:
the methods that failed in this call, and those that were cooling down when
their turn came.

**TextInjection.** InjectionProcessor extended, and StrategyManager instantiated
under it: HandOver takes the buffer and begins the call in one step, Work is any
step of the call, RecordResult collects the answer. The two clocks tick
independently: one interval of the session is many of the manager's, or none.

**Injectors.** What an injection does to the desktop. `caller` is the strategy
manager, the orchestrator, or somebody who uses one of the two clipboard
injectors by itself. The clipboard (`clip`) is written by injections, by spawned
`restores` and by the user; the application takes its `requests` in order, when
it gets to them. A timeout may cut a stage at any await and leave its request.
`excuses` is a history variable: what has happened since all was quiet. It names
the causes under which the properties allow for an exception.

**Lifecycle.** Three programs (main and the two dashboards), the steps of
runtime::start and of AppHandle::shutdown, set_activation_mode, StateManager's
table and the handler of signals. `running` has the threads and tasks with the
number of the start they are of, `aborted` those that have been told to end.
Tasks are those the handle keeps and aborts, Awaited those it awaits; Dropped are
told to end and awaited by nobody (the forwarder, the manager's collector, a
trigger that was replaced); Detached are those nobody has a handle of (what the
processor spawns to begin, cancel or finalize an utterance, and the restores of
an injection). `lock` is a finalization's hold of the manager's outer lock,
which it may keep for ever. A join that never ends and an unload that never ends
are outcomes of the steps that wait for them.

**Dashboard.** From the trigger to the screen: the trigger and the one it
replaced, the fan-out's broadcast, the forwarding task, the channel to the loop,
and the loop, which serves nothing while it awaits a start or a switch of mode.
`teller` is a history variable: which trigger spoke last.

**AudioDump.** The dashboard's recording task, the broadcast it reads, which
forgets the oldest frames, and the BufWriter: a frame is `buffered` first, a
full buffer is written before the next is taken, and a write may fail after any
part of it. The last flush, that of the writer's Drop included, may fail; 'q'
ends the process at any await of the task.

**Configuration.** Which files are found from which directory and environment,
how Settings are merged, repaired or refused, what main makes of them, and the
plugin selection, over several starts with edits and kills between any two
steps. A setting stands for all that are treated like it.

The MC modules MCAudioCapture, MCAudioPath and MCApplication extend several
modules that share no state; a variable `part` says which of them a behaviour
explores, the others stay at rest.


## 3. The runs

Each property has in PROJECT.json a mutant, a plausible bug in a definition that
translates code, under which the same run finds the property violated.

| Run | Checks | Instance, and why it is large enough |
|---|---|---|
| pm_failover | GcSparesSettledSelection, CoolingPluginRests; refinement of PluginSelection | Three plugins, one lazily initialized, one the user may select; threshold, cooldown 2, time-to-live 1, the background collector. Three plugins are the fewest of which two can cool down while a third is selected. 712 000 states |
| pm_liveness | CallReturnsOrCycle, FailingPluginReplaced | Two plugins, two collectors: the fewest with which a collector can wait for another. 68 000 states |
| pm_deadlock | ProcessAudioReturns, violated | One plugin, one collector |
| sp_pipeline | OneFinalization, InSpokenOrder, StallsOnlyBehindConsumers, ResultIsInjected | Five utterances through channels of one, every kind of consumer, and a mode switch among the first two (LastSwitch). Every queue can be full at once with an utterance to spare, behind either consumer. 225 000 states |
| sp_stall | FinalizationEnds, violated | Four utterances fill the three queues after the finalization |
| sp_audio | AudioIsSubmitted, violated | One utterance is enough |
| ac_capture | OpensClean, SilenceEndsStream, StopReturnsOrOverwritten; GivesUpWithoutDevice, FirstIsUsed | Threads: two attempts (a fallback exists and can fail), a timeout of 2 ticks, with and without the monitor. Devices: two, whose names contain each other's, and a fragment, of which one works; a list that is old after a tick. 337 000 states |
| ap_audio | SamplesAreRead, ReaderCatchesUp; SessionEnds, refinement of SessionTrigger; FollowersKnowSeen, ArrivalIsReported | Samples: inputs of one, two and three channels, one of them resampled, a ring of seven samples (neither two nor three divide it) and reads of four (of which three leave a remainder), two changes. Trigger: a channel of one, two frames of backlog, two signals, so that either can be overtaken. Monitor: two devices, the code's threshold 3, a list that is old after two ticks. 125 000 states |
| sm_methods | TriedEverything, WaitsWithinLevel, CooldownsEnd | Two methods and two applications: the fewest with which a cooldown in one application can follow on that in another; two back-off levels before the maximum, budget of one tick. 459 000 states |
| ti_pipeline | NothingLost, EveryTextIsSettled | Up to three unsettled texts of four numbers, channel of one, buffer limit one, an application that is refused and one that is not. 34 000 states |
| in_desktop | ClipboardComesBack, PastesItsText, EntersOnce, OkMeansEntered | Two texts, so that the second injection can meet what the first one left; one copy of the user's; all four callers, every order of methods. 3 396 000 states |
| ap_tasks | UtteranceKept, IdsTellUtterancesApart; RecordingsAreRight, ManifestCatchesUp; StoppedMeansStopped, OrphansAreOfFailedStarts, ShowsWhoSpeaks, SignalEnds; RecordingIsAccountedFor; ProfileDecides, SettingsAreOfOnePiece | Utterances: five engines, two utterances of four frames, channels of one or two. Writer: two utterances, two ids (so that an id can come again), every write failing, in both formats with text files and in JSON with audio as well. Program: two starts, two signals, any switches of mode. Dashboard: five events of speech, three switches, a broadcast of two. Recorder: six frames, two of which the broadcast keeps and two the BufWriter. Settings: two starts, one edit, profiles that are whole, repaired, refused and garbled. 1 000 000 states |

Bounds. Clocks and counters saturate one past the largest value they are
compared with, so saturation forgets nothing. What is counted instead (utterances
and switches of SttPipeline, instants and changes of SamplePath, texts and
copies of Injectors, everything of ap_tasks) has a constant Max...; those runs
stop when it is reached and say CHECK_DEADLOCK FALSE, and so do those of
AudioCapture and Lifecycle, where everything ends after a stop.
InjectionProcessor bounds the texts not yet settled (MaxBacklog); beyond it
texts still arrive and change the session's state and timer (ReceiveMore) but
are not told apart, so the liveness property is checked against a speaker who
never stops. In pm_failover, pm_liveness, sm_methods and ti_pipeline TLC checks
for deadlock. Where a run explores several parts each has its own bounds; that
the parts are explored one at a time loses nothing, because they share no state
and no property speaks of two.

### What the passing runs show

- *Plugin manager.* A collector unloads the selected plugin only when it was
  selected after the collector's scan: the filter in the scan works for a
  selection that does not change. No failover brings a plugin back while it
  cools down. Every call returns unless the two inner locks are taken in
  opposite orders, and that is the only exception. A plugin at its threshold
  does not stay selected and failing for ever.
- *Pipeline.* The finalization task that resets the processor's state without
  looking at it can only reset its own utterance's. Results reach the injection
  in spoken order and once, through spawned tasks and three queues. Two things
  can hold a finalization up: a full UI channel nobody reads, and an injection
  that never ends, behind which the injection's channel is full.
- *Capture.* Streams are opened with nothing of the last one alive; a silent
  stream is closed whatever happens at the same time; the one reason why stop
  may not return is that start() sets the flag again.
- *Devices.* A start or a restart gives up only if no working device has been
  there since its list was made, and takes the first that works in the order of
  the code, by its own name even if another's contains it.
- *Monitor.* Whoever follows the events knows all that the last scan listed, and
  a device that stays is reported though the list is cached.
- *Sample path.* However often the device changes and whatever a full ring or a
  reset resampler drops, samples keep their order and none comes twice. Channels
  are mixed wrongly only until the ring is empty, after a change or after a full
  read that is not a whole number of instants (4096 samples of three channels or
  six), whose remainder is dropped. The reader ends
  up with the right configuration unless the change came before it subscribed.
- *Trigger.* Starts and ends alternate across mode switches, lost connections
  and both debounce timers: only when a trigger is lost with the end it owes may
  the next event be a start again; a session ends with the speech but for the four causes SessionEnds
  lists.
- *Strategy manager.* "All methods failed" is answered only when every
  registered method of the order has failed in this call or was still cooling
  down when its turn came. No method waits longer than its level says. A cooldown ends
  for all applications, although the check looks at all of them: while the
  method cools down anywhere it is tried nowhere, so no new cooldown can start.
- *Injection as a whole.* Channel, buffer and batch are exactly the texts since
  the last settled one. Every text is settled whatever failed before it.
- *Desktop.* When all is quiet the clipboard is the user's, except after the
  user copied during an injection, a second injection within the restore's
  delay, a stage that was cut before its restore, or a restore that failed, as
  every one does on X11. Something else is pasted
  only after an overlap, a copy, an application slower than the delay, or
  through Enigo, for which nobody sets the clipboard. A text enters twice only
  if a method is counted as failed although its text goes in. Ok without a text
  is the best-effort mode's or noop's.
- *Utterances.* An engine never carries audio of one utterance into the next,
  whether the service refuses, fails or is late; ids stay apart.
- *Persistence.* A wav holds samples between one start and the next, never two
  utterances'; the manifest lists all transcripts as soon as one is saved to the
  end, whatever failed before.
- *Start and stop.* After a shutdown the capture threads, the chunker, the
  trigger, the fan-out, the processor and the injection of its start are over.
  What may be left has been told to end and is not awaited (forwarder, collector,
  a replaced trigger), or is a task nobody has a handle of. What runs without an
  owner is always of a failed start. A signal that meets main waiting ends the
  program unless the shutdown hangs, behind a capture thread that does not end, a
  plugin that does not unload or a finalization that keeps the manager's lock;
  nothing else can hold it up.
- *Dashboard.* One that has been told everything shows whether the trigger that
  spoke last is in mid-speech, unless its forwarder was overtaken; after a
  switch of mode that holds as soon as the new trigger has spoken.
- *Recording.* What the file has is in order and once. Until the audio ends every
  frame waits, is buffered or in the file, was reported as dropped or refused
  with an error; only the last flush can lose what was taken, which a WAV's
  finalize() tells and a raw file does not.
- *Configuration.* The selection of the settings decides, whatever a
  plugins.json says and whenever a program was killed while writing it; one
  refused setting takes all those that came with it along.

### What the violated runs show

- *pm_deadlock.* process_audio takes last_activity while it holds
  current_plugin; the collection takes them the other way round. Both stop.
- *sp_stall.* In the main binary nobody reads the UI channel and its receiver
  stays alive: after 100 events the forwarder waits for ever, then the event
  stream fills and the processor stays in Finalizing.
- *sp_audio.* Under the only hotkey behaviour there is, no audio is buffered or
  given to the plugin.

### Stated, not run

The modules also state what comments promise and the code does not do, where
the reason is plain from the definitions; a run for each would repeat them.

| Module | Property | Why it does not hold |
|---|---|---|
| PluginManager | NeverGcSelected | a selection made between scan and sweep is collected |
| | ReplacementUsable | a plugin installed by a failover or a switch was never initialized |
| SttPipeline | NextUtteranceStarts | a Start during a finalization is dropped |
| | PreparedBeforeFinalize | the two spawned tasks may run in either order |
| | PluginComesBack, ModeHasTrigger | set_activation_mode unloads the plugins for good, and aborts the old trigger before it knows the new one starts |
| AudioCapture | StopAlwaysReturns | a stop that falls into a restart is overwritten by start(), and the caller joins a thread that goes on |
| | MonitorStaysAlive | a restart clears the flag the monitor obeys |
| | CaptureComesBack | a restart that fails everywhere is not retried |
| DeviceMonitor | DisconnectionIsReported | each scan forgets the devices it did not find, so one that is gone is counted missing once, and a removal needs three counts |
| | RemovalIsDebounced | absences need not be consecutive |
| StrategyManager | CooldownIsPerApp | the check looks at the cooldowns of all applications |
| | StartsAtInitial | the count of failures is never reset, so after three of them a method restarts one level up |
| | StaysWithinBudget | the budget is looked at between methods only |
| Activation | EndsWithSenderOnly | a lag ends the VAD's loop as well |
| SamplePath | ChannelsStayAligned | a full read of three channels leaves a remainder, and what follows begins in mid-instant |
| Dashboard | ShowsOnlySpeech | a trigger that is replaced in mid-speech tells no end |
| AudioDump | LossIsTold | the error of a raw file's last flush is discarded |
| Injectors | ClipboardIsSetForEnigo | the strategy manager sets no clipboard before Enigo pastes |


## 4. Fairness

- *PluginManager.* Strong fairness of the call's and each collector's steps:
  tokio's RwLock serves waiters in order, so one that finds its lock free again
  and again obtains it. Taken for granted: the plugin's own calls return,
  audio keeps coming (BeginAudio), time passes (Tick). Nothing makes the user
  switch or unload.
- *SttPipeline.* Weak fairness of the processor's handlers, of each utterance's
  finalization steps, of the forwarder and of the consumers there are: a tokio
  task that can run is polled. The plugin's calls are assumed to return
  (PluginManager). An injection that is answered ends, but any may be the one
  that never is, because inject() is awaited without a timeout; the properties
  have that case. None for speaker, user, audio or begin_utterance.
- *AudioCapture.* Weak fairness of each thread's steps. The threads look at the
  flag only between sleeps, so weak fairness lets them miss a flag that is
  cleared and set again. None for callbacks. DeviceChoice has safety properties
  only.
- *DeviceMonitor.* Weak fairness of the start of monitoring, of the scan and of
  the list's age; none for the devices.
- *SamplePath.* Weak fairness of the worker's steps (subscribing, applying a
  configuration, reading, sleeping); none for callbacks and changes.
- *Activation.* Weak fairness of time, of frames, of the fan-out and of a send
  that has room. Strong fairness of processing a frame and of taking a press or
  a release: a frame makes the step possible anew, and select! polls its streams
  in random order, so a stream that is ready again and again is taken. None for
  speaker, user, D-Bus or mode switches.
- *StrategyManager.* Time alone. Injectors may never answer, and CooldownsEnd
  holds all the same.
- *InjectionProcessor, TextInjection.* Time, the interval and the receiving arm
  of select!. EveryTextIsSettled also assumes that the injectors and the desktop
  answer. The code does not make them: most of their calls have a timeout, some
  (the query for the application, the clipboard commands) have none. No other
  run assumes it.
- *Lifecycle.* Weak fairness of main's steps, of the end of an aborted task,
  which it meets at its next await, of shutdown's steps and of a finalization's
  call that is not the one that hangs. Strong fairness of UnloadPlugins: the
  manager's lock is taken and released by finalizations again and again, and
  tokio's RwLock is FIFO. That the capture thread ends, that the plugins unload
  and that a call returns is not assumed. None for keys, speech or signals.
- *The other modules* have safety properties only.


## 5. The proofs

`tlapm` proves every obligation of the seven Proofs modules and of QueueTheorems
for all constants that satisfy the modules' assumptions. Theorems of safety have
the form Spec => []P and rest on an invariant that is initially true and kept by
every step. TLC checked each of these invariants on the runs' instances before
it was proved.

| Module | Theorems | Argument |
|---|---|---|
| PluginManagerProofs | TypeCorrect; Invariant; SettledSelectionSpared; CooldownRespected; FailoverEarned; SelectionImplemented | IInv adds to the properties: nothing has failed before initialize (Starting); a call in touch, transcribe or record, and a collector in forget, hold the plugin lock (Locked); the call works on the selected plugin until it drops the lock, and then only a collector comes between (Working); the error count of a plugin nobody selects by hand is at most the streak of the instance (Counted). Refinement: initial states map to initial states, each step to a step of PluginSelection or a stutter |
| SttPipelineProofs | TypeCorrect; FinalizationsExclusive; ResultsInOrder; TriggerAssumed | OneFinalization is inductive beside the types: a Start is accepted in Idle only, where no finalization can be under way, an End begins one in SpeechActive, where none can be either, and the step that leaves Finalizing is the last of its task. ResultsInOrder: what has been injected, the injection channel, the text in the forwarder's hand and the event stream make one ascending line (LineInv), of which the forwarder drops one or, once its receiver is gone, all that are left (RestLeaves), and none of it is of an utterance later than the current one or of one that has yet to send its result (Sent). TriggerAssumed: the trigger, with the length of the session queue, makes steps of SessionTrigger or none |
| AudioCaptureProofs | TypeCorrect; Invariant; WatchdogJoined; NothingLeftBehind; ChoiceTypeCorrect; GivesUpOnlyWithoutDevice; FirstDeviceIsUsed | Threads: the order of stop(). The stream goes first, so no callback feeds the watchdog; then the watchdog is joined, so it cannot set its flag; then both are reset. IInv follows that order through pc. Devices: one that has been there for longer than the list is old is in the list (ThereInv); one that works and has been there all the time is still to be tried or being tried, and what is being tried ranks no later (TriedInv). An attempt on such a device does not fail, so the attempts do not run out, and the first to succeed is the first of them |
| AudioPathProofs | SamplesReadRight; SessionsAlternate; TriggerImplemented; TypeCorrect; EventsComplete | Samples: the last frame, the buffer, the residue and the ring, the ring's samples taken as pairs, are one line in order, none of it later than the callback's clock (SamplesFlow); a read cuts the ring between groups of samples, a group becomes one sample of that place, and what is dropped only leaves gaps. While the ring holds one device's samples and no read has left a remainder, it holds whole instants of them (RingWhole). Triggers: a trigger that has told a start owes the end (SessionOwed), and at most one of the two runs (TriggersApart). Refinement: with SenderRuns, an event waits only with a task that sends it, each step is one of SessionTrigger or a stutter. Monitor: FollowersKnowSeen is inductive given the types |
| TextInjectionProofs | TypeCorrect; NoTextLost; Composed; NoTextLostInSystem; ClipboardRestored; OwnTextPasted; TextEntersOnce; OkIsEntered | Session: NothingLost is inductive once the batch is known to be empty exactly when nothing is being injected; lemmas say what a receive, a take and a settlement do to the concatenation of batch, buffer and channel. Composed: every step of TextInjection is a step of each part or leaves its variables alone, so it implements both InjectionProcessor and StrategyManager, and their theorems carry over. Desktop: the user's clip is in the clipboard, in the backup of the injection under way or in a restore that waits, and nothing else is ever restored (ClipInv); pastes the application has yet to carry out are of the text in the clipboard (PasteInv); a text has entered at most once, is then not among the requests, and no two requests are of one text (OnceInv, with LastIsInsert for an insert that times out); a text answered with Ok has entered or is among the requests (OkInv, with ToldBefore). Each with the property's own exceptions |
| StrategyManagerProofs | TypeCorrect; CooldownIsEarned; NoMethodForgotten | CooldownIsEarned: a failure imposes CooldownAt(l) or, twice applied, CooldownAt(l + 1), which is what the level reached has earned (lemma Earned). NoMethodForgotten: every registered method before the loop's position has failed in this call or was cooling down when the loop came to it (Progress) |
| ApplicationProofs | UtterancesHandedOver; IdsApart | HandedOver: while an utterance is fed, what the engine holds and what is left to feed are together the utterance's buffer (in moonshine's case up to its limit), and when nothing is fed the engine is empty. FramesPlaced: what is missing between the end of the buffer and the frames still in the channel was dropped by the broadcast. IdsInOrder: ids given are below the next one, and those given with the current id are the current utterance's |
| | ManifestComplete; WavsHoldTheirAudio | Persistence. RecordsCounted: every transcript is in the session, or is the one whose wav is being written. AudioInOrder: the samples in memory are one stretch after one start, and before all in the channel; WavsAreBehind: every sample in a wav is before those in memory, so the next wav shares none with the others |
| | ShutdownStops; OrphansExplained | Lifecycle. Phases ties main's position to the steps of a start and of a shutdown. PartsAccounted: each running part is of a failed start, of the start in progress, of the pipeline in use, or, once a shutdown is done, one it does not await (NotAwaited); the capture is over from the step that stops it, and every task that runs after AbortTasks has been told to end |
| | DashboardShowsSpeech | Told: while the trigger there is spoke last and the forwarder lives, the last event that waits for the forwarder, else for the screen, else what is shown, says whether it is in mid-speech (LastTold); a switch of mode makes the trigger there was the replaced one |
| | RecordingsAccounted | DumpLine: the file, the buffer and what waits to be read ascend; DumpAccounts: until the last flush each frame sent is in the file, buffered, refused, missed or waiting, and after it what the flush lost is the rest |
| | SettingsSelectThePlugin; PipelineSettings | ConfigurationInv: from the load on, main's settings are those asked for, repaired, or the defaults when they are not sound, the pipeline's options are made of them, and from the selection on the manager's is theirs. The lemma RepairKeeps says that repair hides no error and changes neither the selection nor a valid mode |
| QueueTheorems | lemmas | What taking the head, adding at the end, cutting in two, moving one along and dropping a segment do to a sequence, to a concatenation, to its range and to its order (Ascending). HeadTaken, LastAdded, MovedOn, ConcatParts, AscendingConcat, OneLeaves, OneJoins, FirstLeaves, SegmentLeaves and a few more |

So each invariant, each action property and each refinement a passing run checks
is a theorem. Proved and not run are: SessionsAlternate (a start after a start is
that of a new trigger, when the task that owed the end is gone), TriggerAssumed,
FailoverEarned (a failover follows Threshold errors in a row of the instance in
use) and NothingLeftBehind (nothing of a capture is alive when its thread has
ended).

Assumptions on constants are those of the code's types and defaults: limits are
naturals, thresholds and capacities positive, None is not a plugin, a device's
name contains itself, the buffer limit is below the backlog. LevelsAssumption of
StrategyManager says that the cooldown has reached its maximum at the level from
which levels are not told apart; with the code's defaults (10 s, doubled, at
most 300 s) that is so from the fifth level on. Bounds such as MaxUtterances or
MaxInstants are any naturals, so the theorems hold however far behaviours are
followed.

Two habits of the provers show in the modules. An operator may be named only to
be kept closed in a proof (Joined of ApplicationProofs, Then of AudioPathProofs,
both concatenation). Configuration overlays functions with an operator of its
own, Overlaid, because the provers know nothing of `@@`.

Only model-checked are the liveness properties, which rest on fairness and on
ENABLED and are out of the prover's reach: CallReturnsOrCycle and
FailingPluginReplaced; StallsOnlyBehindConsumers and ResultIsInjected;
SilenceEndsStream and StopReturnsOrOverwritten; CooldownsEnd;
EveryTextIsSettled, which does not follow from the parts' and is checked on the
composition; ReaderCatchesUp, SessionEnds and ArrivalIsReported; SignalEnds.
Nothing here needed induction over data or a recursive operator.


## 6. Not modelled, and abstractions

Data are model values: texts, samples, plugin answers, device names. Logging,
metrics and wording are left out. Durations are ticks; what is checked does not
depend on their ratio. Failures of allocation and poisoned mutexes are left out.
Time read twice within one step is read once. The source list of each component
is in PROJECT.json, and beside it what of the component is left out.

Not modelled, because nothing they do depends on an order or is depended on:
telemetry and metrics; the measures of audio quality and of silence; the neural
networks, encodings of WAV and HTTP, and where models are looked for; the
conversion of sample formats; the suppression of ALSA's messages; the drawing of
the user interfaces; the probes, which run one component each; error types, the
environment report, clocks.

Not modelled, because the program does not get there: prewarming (no session is
given to the strategy manager, and the orchestrator's own never buffers); the
focus backend, which answers Unknown; chunked and paced entry; the health
monitor, with which nothing is registered; the energy-based VAD, which no binary
builds; helpers.rs of coldvox-stt, which is in no module; tui.rs, whose feature
does not compile; the GUI's crate, whose state uses a module there is not.

Left out of the modules, and named where it matters: a clipboard write on a
thread of its own (spawn_blocking) that is carried out after its stage was cut;
the dashboard's keys that load and unload plugins; an AppHandle with several
references, whose shutdown() only logs; the feature tui.

Not modelled, and worth it: request_device_switch and the preferences of the
device monitor, which have no caller yet.


## 7. Plan

What is there was built in this order: the plugin manager, the pipeline, the
capture and the injection's loop with their proofs; then the devices and their
proofs, the sample path and the triggers, the injectors, the utterance
processor, the persistence, start and stop, the recording and the configuration;
then the proofs of all the safety properties, and the abstract trigger between
Activation and SttPipeline. What is left, in order of
importance:

1. A queue of samples that may lose blocks as the abstract specification of
   SamplePath, and a queue of texts as that of InjectionProcessor: the
   invariants SamplesFlow and NothingLost hold what the refinements need.
2. The pipeline composed with the plugin manager, so that a call that does not
   return is seen to hold up the finalization.

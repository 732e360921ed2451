# Verification of the device tree of Xiaomi rova

The repository is a device tree: configuration, the HALs of the device (many of
them Qualcomm's, carried in source) and a few programs of its own. Three parts
with much control and many threads are modelled: **7SIM** (`src/7SIM`), which
disables and enables SIM cards by hand and on weekly repeat schedules; the
**power HAL** (`src/power-libperfmgr`); and the core of the **camera HAL**
(`src/camera/QCamera2`): its state machine, and the matching of frames in
mm-camera-interface. The models are checked with TLC and partly proved with
TLAPS.

## Inventory

| Part | State it keeps | Operations | What makes it hard | What makes it correct |
|---|---|---|---|---|
| Calendar arithmetic (`DaysOfWeek`, `SubscriptionSchedulesDao`, `SubscriptionScheduler`) | table of weekly schedules | nearest schedule before/after a date-time, expected state of a SIM | week boundary, same minute, later on the same day | the nearest occurrence is found, none is skipped |
| `SubscriptionScheduler`, `AlarmReceiver`, `DirectBootAwareBroadcastReceiver`, `PhoneCallEndObserverService` | the table, one alarm, postponed tasks, times of the user's last switch | sync all/one, set next alarm, edit, boot, alarm, call end | order of user, schedule, edit, reboot and call; one alarm for all SIMs; edits and worker on different threads | each SIM is in the state of the latest event; no occurrence is slept through; a call is never cut |
| `TelephonyController` | metadata bundle shared by all requests, persisted record | `setSimState`, the modem's callback or status broadcasts, revert | concurrent callers, lost, late and foreign answers, deadline, early persist | record, power and listeners agree when all is settled; every call returns |
| `Subscriptions`, `SubscriptionsImplLegacy` | system properties (lost on reboot), database rows, blocking flag | iterate, persist, `syncSubscriptions` | a SIM powered down looks like one pulled out; hot swap; sync against request | a card powered down stays listed; only real alterations by others change the user's preference |
| `ForegroundService` | worker queue, start ids, wake lock, timeout | `startAction`, `onCreate`, `onStartCommand`, `onDestroy`, timeout, worker | redelivery after death, overlap of instances, tasks that hang | every request served once, or given up; stops only when done; awake while working |
| `SimPinFeeder`, `PinStorage` | PINs at hand, the SIMs seen, rows with their marks | feed, cancel; store, delete, mark, decrypt | SIMs that lock late, the user at the keyguard, redelivery after a death; a wrong PIN costs an attempt | one attempt at most is wasted; no locked SIM is missed; marks say how the last try ended |
| `UserAuthenticationObserverService` | tasks until the user unlocks | start, unlock, worker | the wake lock is released at once | tasks run after the unlock |
| Power HAL: `InteractionHandler` | state of the boost, event descriptor | `Acquire`, `Release`, DispIdle thread, `Exit` | thread against binder calls, a duration read without the lock | a boost ends, and not before its time |
| Power HAL: `Power`, `PowerExt` | two modes, hints under way, properties that outlive a crash | `setMode`, `setBoost`, constructor | modes that suppress others, `endAllHints` behind the handler's back, restarts | no mode and no boost is left on |
| Power HAL: `PowerHintSession`, `PowerSessionManager` | sessions, threads of each, uclamp values, timers | create, report, hint, pause, resume, close | timer thread against binder calls | (inert on this device, see "Not modelled") |
| Camera: `QCameraStateMachine` with `QCamera2HardwareInterface`, notifier, post-processor | state, channels, modes to commit, delayed messages, api results | API calls that post and wait, events, notifier, JPEG and snapshot threads | two queues, results matched by name, locks given away inside `set_parameters`, failing starts, a daemon that dies | one answer per call; the state agrees with the channels; pictures end |
| Camera: channel of mm-camera-interface | super buffer queue, requests, flash flags, reference counts | frames, requests, flush, start, stop, giving buffers back | four threads; streams that lack frames; eviction; loops that wait for a count | no buffer lost, order kept, kernel never starved, stop returns |
| PocketJudge | sensor, safe-door thread, in-pocket flag | sensor, screen and unlock events | thread started and stopped by events | the screen is never left blocked outside a pocket |
| XiaomiParts smart charging | reason of the last stop, alarm | plug, battery update, preference, dismissal | state survives unplugging | charging resumes, and stops at its limits |
| Thermal, lights, touch, charger LED, subsystem notifier, init | sysfs values | reads and writes | little | (not planned before the rest) |
| the rest of the camera (HAL3, parameters, JPEG), audio, display, media, gps, FM radio, shims, overlays, sepolicy, configuration | - | - | - | not modelled, see below |

How the parts of 7SIM interact: broadcast receivers (alarm, boot, carrier
configuration) start `ForegroundService` with an intent; its single worker
thread calls `SubscriptionScheduler`, which reads the table through the DAO and
the SIMs through `Subscriptions`, and changes SIMs through
`TelephonyController` (legacy RIL) or `SubscriptionController`. The user
interface calls the same classes on threads of its own. Listeners of
`Subscriptions` are notified at the end of requests and syncs.

In the power HAL both AIDL interfaces are served by one binder thread; `setBoost`
calls `InteractionHandler::Acquire`, whose DispIdle thread ends the boost; both
go to HintManager, as do the modes. In the camera, a call of the framework runs
on the caller's thread, posts to the state machine's thread and sleeps until its
result is in a list; the state machine runs HWI functions that start and stop
channels; frames come up from mm-camera-interface through the super buffer queue
to the post-processor, whose result the notifier thread delivers.

## Modules

| Module | Models | Extends |
|---|---|---|
| `WeeklySchedule` | pure operators: days of the week, the DAO's `ORDER BY`, date-times of occurrences, the expected state | - |
| `MCWeeklySchedule` | a table being edited and a clock, compared with an enumeration of minutes | `WeeklySchedule` |
| `TelephonyController` | `setSimState` on several threads, the modem, answers, listeners | - |
| `TelephonyControllerProofs` | its theorems | `TelephonyController` |
| `SubscriptionsLegacy` | the list of SIMs on a legacy RIL, `syncSubscriptions` in steps, `setSimState` around it, hands and other applications | - |
| `SubscriptionsLegacyProofs` | its theorems | `SubscriptionsLegacy` |
| `SimScheduler` | scheduler, receivers, worker's tasks, user, calls, power button, using the operators of `WeeklySchedule` | `WeeklySchedule` |
| `SimSchedulerProofs` | the theorems of the calendar and of the scheduler | `SimScheduler`, `MCWeeklySchedule` |
| `ForegroundService` | service, worker, wake lock, activity manager, crashes | - |
| `ForegroundServiceProofs` | its theorems | `ForegroundService` |
| `SimPinFeeder` | the feeder's thread, its task, SIMs and keyguard, marks of `PinStorage` | - |
| `SimPinFeederProofs` | its theorems | `SimPinFeeder` |
| `InteractionBoost` | what the INTERACTION boost promises (abstract) | - |
| `InteractionHandler` | `Acquire`, `Exit`, the DispIdle thread step by step; `Boost` is the refinement mapping | - |
| `PowerModes` | `Power` and `PowerExt` on top of the handler, deaths of service and framework | `InteractionHandler` |
| `PowerModesProofs` | the theorems of both, refinement included | `PowerModes` |
| `CameraStateMachine` | the state machine, the API calls, and the threads that post to it | - |
| `CameraStateMachineProofs` | its theorems | `CameraStateMachine` |
| `SuperbufQueue` | one channel: matching, requests, flush, start, stop, reference counts | - |
| `SuperbufQueueProofs` | its theorems | `SuperbufQueue` |
| `MCPowerModes` | the handler by itself and the modes, in one run (`part`) | `PowerModes`, `InteractionBoost` |
| `MCCameraStateMachine`, `MCSuperbufQueue`, `MCTelephonyController`, `MCSubscriptionsLegacy`, `MCSimScheduler` | values of the constants | the module named |

State and code:

* `WeeklySchedule`. A date-time is a number of minutes from a Sunday 00:00, a
  Java `Optional` is a set of at most one element, `days_of_week_bits` is a set
  of days. `findNearest` returns every row `LIMIT 1` could pick.
* `TelephonyController`. `monitor` is the thread inside `synchronized(this)`;
  the wait inside releases only the bundle's monitor. `meta` is
  `mRequestMetadata`, with two history fields telling which request its code
  answers. A power request goes through `modem[slot]`, its answer through
  `answers`; a change of power raises `rilEvent`; `OtherCardChanges` is the
  status broadcast of a card in a slot without a subscription, at most one of
  them under way. `Call` is the part of
  `setSimState` before the lock, `Abort`/`StartRequest` the part up to the
  wait, `FinishRequest` the end of the wait with the whole of
  `handleOnSetSimPowerStateForSlotFinished`. `prior` and `misled` are history: the
  record before the request, and the slots whose last request was ended by an
  answer to another one.
* `SubscriptionsLegacy`. `slotProp`, `subState`, `usable` are the system
  properties, `pref` abstracts the two date-times of a row to which of them is
  set (the row of a SIM never switched has neither), `visible` is what
  `SubscriptionManager` shows, `blocked` the flag. `SyncBegin`, one `SyncSlot`
  per slot and `SyncEnd` are `syncSubscriptions`; `SetBegin` and
  `SetSucceeds`/`SetFails` are `setSimState` before and after the modem.
  `cause` and `synced` are history: alterations by somebody else that no sync
  has seen yet, and whether a sync has ended since the boot.
* `SimScheduler`. A task of the worker is a record with the date-time captured
  when it was queued; reading (`Decide`, `ComputeNext`) and writing (`Apply`,
  `SetAlarm`) are separate steps. An edit is the whole of
  `doScheduleDatabaseRequest`. `want` is a history variable: the state after
  the latest schedule, switch or edit.
* `ForegroundService`. `main` is the queue of the main thread, `tasks` the
  worker's. `acked` is the activity manager's knowledge: start requests up to this
  id need no other delivery. `done`, `marked`, `dropped` are history.
* `SimPinFeeder`. `feeder[i].pc` follows `run`: `sims` is the loop over the cache,
  `count` before the number of attempts is read, `supply` the loop of three tries,
  `accepted` and `refused` before the mark, `wait` the ten seconds. A PIN is "right"
  or "wrong" for its SIM; the bundle of a task is any set of PINs, because the
  alarm may carry old ones; a task that died is delivered again with the same
  bundle (`again`). `tried` and `spent` are history. The feeder is a task of
  `ForegroundService`'s worker, whose unsafe end is `Cancel`.
* `InteractionHandler`. Time is in ticks. `age` is the time since
  `mLastTimespec`, `timer` what is left of the poll, `mEventFd` whether the
  descriptor can be read. `hint` is what HintManager has on; it is `timed` when a
  handler without a thread leaves the end to HintManager. `pc` follows `Routine`:
  `args` is between the unlock and the read of `mDurationMs`, `wait` and `idle`
  are the two polls, `release` is before `Release`. The sum of duration and
  offset wraps at `Modulus`, because it is compared with unsigned limits.
* `PowerModes`. `hints` are the modes' hints that are on, `asked` (history) what
  clients asked for last. `Restored` are the modes whose hint sets a property
  that the constructor reads; `ServiceDies` keeps them, `FrameworkDies` is init's
  clearing of the properties.
* `CameraStateMachine`. `ch` is what each channel is (none, idle, on), `prm` the
  modes in force and to commit, `msg` the delayed message, `shot` the picture in
  flight, `live` the live-snapshot thread, `cbq` and `notifier` the notifier.
  `Call` and `Wake` are an API call up to `waitAPIResult` and after it; `SmApi`
  and `SmEvt` take one event and run the whole handler of its state. A STOP of the
  notifier flushes the matching nodes and leaves their commands, which then find
  nothing ("EMPTY_JOB").
* `SuperbufQueue`. A buffer is named by the frame it carries; a node of the queue
  is a frame number with the streams that have it. `ch` is what the command
  thread owns, `buf_refcnt` and `queued_buffer_count` what all threads share,
  `held` what the client has. `ProcessStreamBuf` is one command from dequeue to
  the end of the dispatch loop. The loops on `match_cnt` that do not look at the
  dequeued node set `spins` when they would not end. Metadata comes with `news`;
  `HandleMetadata` is `Divert`, `Prepare` (preparation of the flash), `ChooseRange`
  (good frames) and `LedOff` (the end of a lit burst), in the order of the code.
  Requests, metadata, `SwitchZsl` and `HandOver` share the flags of the flash:
  `needLEDFlash`, `bracketingState`, `startZSl` (`startZSlSnapshotCalled`),
  `stopZslSnapshot` and `burstSnapNum`.

## What the runs check

| Run | Shows | Bounds |
|---|---|---|
| `schedules` | `NearestIsFound`: query and date arithmetic against enumeration | real weeks of seven days, days of three minutes, two rows over every set of days |
| `tcS` | `RecordMatchesPower`, `RequestIsExclusive`, `AnswerMatchesRequest`, `ListenersAreUpToDate` on Android 12 and later, for a modem that answers in time | two threads, two SIMs and an empty slot, three calls |
| `tcOld` | `DisabledMeansPoweredDown`, `AnswerMatchesSlot`, `EveryCallReturns` before Android 12, for a modem that may ignore requests | two threads, a SIM and an empty slot, four calls |
| `slAll` | `PoweredDownCardIsListed`, `QuietIsSynced`, `NoPhantomAlteration` on phones where all work is on the worker thread; `NoSyncStartsDuringRequest` also with requests from the screen and a lagging `SubscriptionManager` | two slots, three cards, one slot hot-plugged; both kinds of phone in `Phones`, the second slot of the wilder one empty |
| `feeder` | `OneAttemptIsWasted`, `NoLockedSimIsMissed`, `MarkMatchesLastTry` | two SIMs, one of them (`UserSims`) also in the user's hands, one feeder |
| `schEdits` | `SchedulesAreFollowed`, `AlarmIsEarliest` on a modern RIL with edits and power-offs of any length | weeks of two days of three minutes, two SIMs, three rows out of four, one week |
| `schLegacy` | `SchedulesAreFollowed` on a legacy RIL with short reboots, and `NoDisableDuringCall` with calls | the same, without edits |
| `fgsAll` | `StopsOnlyWhenDone`, `CompletedIsNotRepeated`, `EveryTaskRuns`, `ServiceIsRecycled` | four start requests, two deaths |
| `camPic` | `OneAnswerPerCall`, `PreviewAgrees`, `EveryCallReturns`, `PictureEnds` with two threads, one of them in `set_parameters` | one call per thread at a time, no fault, no flash |
| `camFaults` | `ChannelsFollowState`, `NothingIsForgotten` with every call, refused starts and a daemon that dies | one thread; `MaxPending` commands waiting when a picture is asked for |
| `power` | the handler implements `InteractionBoost` (`TouchesAreBoosted`), `WaitIsForLastTouch`, `ExitReturns`; `NoStuckMode`, `NoLeakedBoost` with the modes and crashes | durations of up to three ticks, an int of four bits, a request that wraps, two modes and one of `PowerExt` |
| `sbBurst` | `NoBufferIsLost`, `LoopsFindTheirNodes`, `FramesAreInOrder`, `StreamsDoNotStarve`, `FlashFollowsRequest`, `StoppedIsEmpty`, and that stop and flush return | metadata and one watched stream, four buffers, four frames, news from the metadata in the first (a later frame needed) and the second (flash prepared, or the next frame good and the one after it diverted), bursts of two with one picture from the past, cancellation, flushes |

Why the bounds are enough. The interesting cases of the calendar are relations
of two rows and a time (before, at, after, on the same day, over the boundary),
and all of them occur with two rows; minutes count only by their order. In
`TelephonyController` a request interacts with the one before it, the one
waiting and a revert: three calls on two threads, and a fourth to find what a
request ended by a foreign answer leaves behind. A slot of
`SubscriptionsLegacy` interacts with the others only through the common sync,
and a hot swap needs two cards for one slot. A shortened week has an enabling
and a disabling schedule on each and on a single day, at different and at the
same minutes. Four starts are two overlapping instances with two tasks each.
Three ticks distinguish a touch that is covered, one that prolongs and one that
is shorter. Four frames with one stream ahead of the other fill the queue beyond
`max_unmatched_frames`, so that frames are evicted, skipped and joined late; the flags
of the flash change in two steps, a flash asked for, then a range or the
LED-off end, hence the two frames with news;
other instances (`Continuous = TRUE`; every news in every frame, without a watched
stream; every news in two frames; two waiting commands, with three frames) were run by
hand and pass.
Every bound is a named constant, or a set given by the MC module
(`Times`, `HotSlots`, `Home`, `Rows`, `NewsOf`); each bounds environment events, never
the code's own steps (`MaxFrame`, `MaxCommands`, `MaxHeld`, `MaxPending` delay
the sensor, the client and the next picture). `MaxTasks` keeps new events out while more tasks than
that are queued. Symmetry is used in `slAll` only (two cards of the first
slot; safety properties only).

Deadlock is checked where the modelled part never stops (`TelephonyController`,
`SubscriptionsLegacy`, `SimPinFeeder`, `MCWeeklySchedule`, `camPic`) and in `sbBurst`, where only
a stopped channel may rest; the scheduler's clock and the service's starts are
bounded, a camera whose daemon is dead stands still, and the handler's clock
stops mattering, so those runs may end.

Fairness. `TelephonyController`: the threads run, and the modem and the binder
process what they have (the modem may process a request by dropping it, and
answers are delivered however many unasked broadcasts there are); no
caller has to call. `ForegroundService`: the main thread, the worker and the
posted timeout run. A task may still hang: `Begin` may choose "hung", from
which only the timeout leads on. `InteractionHandler`: the thread, the clock,
HintManager's timer. `CameraStateMachine`: all threads run, the camera answers
unless its daemon may die; the state machine takes internal events only when its
API queue is empty, so `SmEvt` has strong fairness and both liveness properties
assume that the queue is empty again and again (`CallsPause`). No property
depends on the user doing something. `SuperbufQueue` states no fairness: frames
are finite, so a stop that did not return would be a deadlock, which is checked.

## Departures

What the code does against a comment, or against what a property of a passing
run states under an assumption. Each is reproduced by changing what is named.

7SIM:

* `tcS` with the property `RevertRestoresRecord` added (defined in
  `TelephonyController`, not in a run): a failed request leaves the new
  date-times and the new keep-disabled flag, because the values to restore are
  saved after they were changed (`TelephonyController.java:156`; the comment at
  168-172 says "everything will be reverted to the actual state").
* `slAll` with `Phones = {{"ui"}}` and `phone = {}` left out of the property
  violates `PoweredDownCardIsListed`, and `QuietIsSynced` too: a sync already under way when a request
  from the screen begins writes over what the request persisted
  (`Subscriptions.java:304`; `TelephonyController.java:138` says "Ensure SIM
  subscription syncing cannot start in parallel during this operation").
* `schLegacy` with `PowerCycles = "for long"`: with a disabling schedule in the
  table, a SIM kept disabled across boots is not enabled by a later enabling
  schedule (`SubscriptionScheduler.java:488`; the comment before it says "until
  turned on again manually or through a weekly repeat schedule").
* `fgsAll` with `AwakeWhileWorking` added: `onDestroy` of an ending instance
  releases the wake lock taken for the next one (`ForegroundService.java:385`;
  line 421 says "Hold wake lock to ensure that the service will start and
  operate till termination").
* `tcS` with `ModemIsLate = TRUE` violates `AnswerMatchesRequest`: a late
  answer is taken for the next request's. With `ModemIgnores = TRUE` it
  violates `RecordMatchesPower`, and `DisabledMeansPoweredDown` too: with the
  callback API a timeout while disabling is not treated as a failure.
* `tcOld` with `misled` left out of `DisabledMeansPoweredDown` violates it: before
  Android 12 a status broadcast carries no request, so one that an earlier request
  has caused ends the one under way, and its outcome is recorded although the
  modem goes on to ignore the request (same comment, `TelephonyController.java:168`).
* `slAll` with `Phones = {{"lag"}}` and `phone = {}` left out of the property
  violates `NoPhantomAlteration`: the flag is
  cleared while `SubscriptionManager` still shows the SIM.
* `feeder` with `LostAnswers = TRUE` violates `OneAttemptIsWasted`: a result that is
  neither success nor a wrong PIN is tried three times without reading the count
  again, so answers that get lost cost all attempts of a wrong PIN
  (`SimPinFeeder.java:137`; the comment at 96-102 says "we absolutely want to
  *STOP* here in order to prevent things from getting critical, like putting the
  device into the PUK state"). So do `Feeders = {1, 2}` (with `Sims = {1}`): a
  cancelled feeder that has read the count supplies its PIN beside the next one.
* `feeder` with `EditsWhileFeeding = TRUE` violates `MarkMatchesLastTry`: the mark of
  the refused PIN is put on the one stored meanwhile (`PinStorage.java:258`).
* By reading only: `removeOnSimStatusChangedListener` unregisters the receiver after
  it has looked whether the list is empty (`Subscriptions.java:502`); a listener
  added in between finds the receiver registered and then hears nothing.
  `decrypt` marks a row as corrupted for ever when the key has merely expired.
* `schEdits` with `Interleaved = TRUE` violates `AlarmIsEarliest`: an alarm
  computed from the table before an edit is set after the edit's. With
  `AlarmLag = TRUE` it violates `SchedulesAreFollowed`: an edit just before the
  alarm of its minute rings moves the alarm on. So it does without edits, on either
  RIL: the user switches the other SIM in that minute, and the update that its
  `CARRIER_CONFIG_CHANGED` queues looks from the next minute on
  (`DirectBootAwareBroadcastReceiver.java:97`).
* `schLegacy` with `PhoneCalls = "for long"` violates `SchedulesAreFollowed`: a
  postponed sync keeps its original date-time. So does `schEdits` with any
  calls: an edit's override that was postponed undoes the user's later switch.
* `schEdits` with `Interleaved = TRUE` and `UserEdits = FALSE` violates
  `SchedulesAreFollowed`: a switch of the user between a task's decision and its
  request is undone. `schLegacy` with `Interleaved = TRUE` violates
  `NoDisableDuringCall`: a call begins in between.
* `schLegacy` with `UserEdits = TRUE` and `PhoneCalls = "never"` violates
  `SchedulesAreFollowed`: after a reboot an edit that comes before the sync of the
  boot finds the SIM shown as enabled and changes nothing; then the sync disables
  it, because the row says that the user keeps it disabled.

Camera:

* `EveryCallReturns` with `DaemonDies = TRUE` and `Flash = TRUE`: `camEvtHandle`
  (`QCamera2HWI.cpp:6061`) only broadcasts a condition when the daemon has died
  and never posts the event, so the branch of the state machine that would
  answer (`QCameraStateMachine.cpp:1860`, "Send internal events to stop
  indefinite wait on prepare snapshot done event") is never taken.
* `camPic` with `Flash = TRUE` violates `PreviewAgrees`: the restart of a
  `set_parameters` is refused while a picture is prepared, and the next
  `set_parameters` clears `needRestart`; the state says PREVIEWING without a
  preview. A commit that fails does the same.
* So does, without any of these, a restart whose `preparePreview` is refused
  (`QCameraStateMachine.cpp:1259-1278`: only the result of `startPreview` decides
  the state). `PreviewAgrees` is therefore checked and proved without refusals.
* `camFaults` with a second caller violates `ChannelsFollowState`: between the STOP
  and the RESTART of one caller's `set_parameters` another's `take_picture` takes
  the state on; a restart refused there leads to PIC_TAKING with the preview on,
  and `stop_preview` then to PREVIEW_STOPPED with the preview on.
* `release_recording_frame` is never answered in a state that does not film
  (`QCameraStateMachine.cpp:635`, `1056`, `1593`): its caller waits for ever.
  `EveryCallReturns` excepts it.
* Two threads in the same call take each other's results (`waitAPIResult` matches
  by name); the model allows one thread per call.

Power HAL:

* A touch that is covered by the previous one while the thread has already
  decided to release is not boosted: `InteractionBoost` allows the end because
  the display was idle. After `endAllHints` during a wait, touches are not
  boosted again until the thread has come to rest.
* A negative duration below the offset wraps and asks for the longest boost.
  `setBoost(INTERACTION, -1)` does not cancel, and `Exit` leaves the hint on.
* LOW_POWER is not restored when the service dies; SUSTAINED_PERFORMANCE stays
  on as a flag without its hint after LOW_POWER was switched on and off.

mm-camera-interface:

* With `num_bufs = 3`, `StreamsDoNotStarve` does not hold: the queue may keep
  `water_mark + max_unmatched_frames + 1` buffers of a stream. `getBufNumRequired`
  (`QCamera2HWI.cpp:2447`) gives a ZSL burst or a ZSL raw stream one more than that
  (`zslQBuffers + minCircularBufNum`, of a sensor that is not YUV). A single ZSL
  snapshot gets `zslQBuffers + 3`, which is enough if `min_num_pp_bufs` of the
  sensor, the limit of incomplete frames, is at most 1.
* `sbBurst` with the invariant `LedOffIsTold` added (defined in `SuperbufQueue`, not in a
  run): the end of a lit burst that a range names is not where the flash goes out.
  `cam_types.h:1433` says of `max_frame_idx`: "If LED is ON and Burst Num > 1, this is
  first LED Off frame after ON". But every range sets `bracketingState` to ACTIVE
  (`mm_camera_channel.c:2639`), and the LED-off end is taken only while it is OFF
  (2664). Without a range the first metadata after the flash went on finds
  `led_off_start_frame_id` at 0, or as an earlier burst has left it (2666): it orders the
  stop, and the rest of the burst is taken without the flash.
* By reading only: a range that comes while nothing is requested leaves ACTIVE behind,
  so the next ordinary request starts the flash mode of the sensor;
  `diverted_frame_id` is a byte (`mm_camera.h:482`), so a diverted frame beyond 255 is
  not recognised.
* By reading only: `buf_done` unlocks between its test and the decrement; the
  cleanup of a start that fails indexes streams with the wrong variable
  (`mm_camera_channel.c:1616`).

So the positive results of those runs hold under the assumption that the
constant states: a modem that answers in time, a system that shows a change at
once, tasks undisturbed by edits, alarms on time, calls within a minute, a daemon
that lives, one feeder whose answers arrive, PINs edited between feedings, pictures without flash next to changes of parameters, and a notifier
that takes its commands before the next event is handled (`NotifierIsPrompt`: a
STOP and the START of the next picture, both put at the head of its queue, would
be reversed).

## What is proved

`TelephonyControllerProofs`, for any set of slots, threads and any number of
calls, from `ControllerAssumption` alone:

* `TypeCorrect`: `Spec => []TypeOK`.
* `Exclusive`: `Spec => []RequestIsExclusive`. One request at a time is inside
  the monitor, the bundle describes it, and the persisted state of its slot is
  the one it announced.
* `AnswerIsForSlot`: if not `AtLeastS`, `Spec => []AnswerMatchesSlot`.

Neither of the first two is inductive alone. `FinishRequest` reverts
`rec[meta.slot]`, well typed only if `meta.slot` is a slot and not "none",
which is what `RequestIsExclusive` says of a waiting thread; and the second
needs the types of the first. The inductive invariant is their conjunction
`Inv`; one lemma per action shows the types, and `NextExclusive` goes through
the actions for the other half. `AnswerMatchesSlot` becomes inductive with
"no request, no code" (`BroadcastInv`): the status listener exists only during
a request, so the bundle is empty when the next request writes its slot into
it.

Under the assumptions the departures show to be needed (a modem that is not late
for the third; for the last, `~AtLeastS`):

* `RecordsArePower`: `Spec => []RecordMatchesPower`, if the modem is prompt.
* `ListenersKnow`: `Spec => []ListenersAreUpToDate`, if the modem is prompt.
* `AnswerIsForRequest`: `Spec => []AnswerMatchesRequest`, if it is not late and,
  where there is no callback API (before Android 12), ignores no request.
* `DisabledIsDown`: `Spec => []DisabledMeansPoweredDown`, before Android 12, for a
  modem that may ignore requests.

The first two have `PromptInv`, which ties what is in `modem`, `answers` and the
bundle to the one request under way: a power request that is queued is to change the
power (`StateFollowsPower`), the waiting request is at the modem, answered or about to
be (`NoAnswerIsLost`), and besides the status of empty slots only its answer is under
way (`AnswersAreOwn`). `ListenersWillKnow` adds that a power the listeners do not know
has an event under way, or a request that will tell. `CallbacksAreOwn` (what is asked
or answered is about the request that waits) gives the third. The fourth has
`SilentInv`: a slot believed to be disabled, and not misled, is unpowered, and nothing
queued at the modem would power it up (`DisabledStaysDown`); for that the waiting
request must be the last at its slot (`OwnIsLast`) and its own answer tell the power
(`OwnAnswerTells`).

`ForegroundServiceProofs`, for any number of starts, deaths and tasks, from
`ServiceAssumption`:

* `TypeCorrect`: `Spec => []TypeOK`.
* `StopIsLast`: `Spec => []StopsOnlyWhenDone`.
* `CompletedStaysDone`: `Spec => CompletedIsNotRepeated`.

The inductive invariant `Inv` adds that every start request is served, queued or
will be delivered again (`NothingIsLost`), that ids ascend through the worker's queue
and then the main thread's (`IdsAscend`), that an instance ends after the requests
that need no other delivery (`EndsAfterMarks`), and that a marked task is neither
pending nor delivered again (`MarkedIsGone`). That stopping with the latest id is
safe is this order: everything before that id has been served before it.

`CameraStateMachineProofs`, for any threads, calls and number of pictures, from
the assumption on the constants:

* `TypeCorrect`: `Spec => []TypeOK`.
* `NothingForgotten`: `Spec => []NothingIsForgotten`.
* `FilmsTruly`: `Spec => []FilmsWhenItSays`. These three hold with every fault.
* `ChannelsFollow`: `Spec => []ChannelsFollowState`, if no start is refused
  (`~Faulty`).
* `OneAnswer`: `Spec => []OneAnswerPerCall`, if no start is refused and no thread
  calls `release_recording_frame` (`NoFrameReleased`).
* `PreviewIsTrue`: `Spec => []PreviewAgrees`, if moreover there is no flash.

The inductive invariant of the first four is `CoreInv`: the state against the
channels, the modes and the delayed message, and, if nothing is refused, no preview in
the states without one and no filming but beside a preview (`MachineOK`, `Healthy`);
the types of the queues; a notifier that sleeps for the one SNAPSHOT_DONE under way
(`NotifierOK`); each caller in one call of its own, woken only by a result
(`CallersOK`). `AnswersOK` counts: of a waiting call there is its event or its
result, never both nor two (`CallerAnswered`), or it is the one the flash is
prepared for (`FlashHasCaller`). Only a refused start posts an internal
CANCEL_PICTURE, whose answer would be a second one for a caller's. `RestartOK` says
that a preview stopped for new parameters is owed a restart by the thread inside
`set_parameters` (`Owes`, `StopNeeds`).

`SuperbufQueueProofs`, for any streams, lengths of the queues, requests, limits and
metadata of the kinds modelled (any range of good frames and any diverted frame), with continuous notification or on request, from `QueueConstants`:

* `QueueInv`: `Spec => []Inv`, the types included.
* `InOrderAlways`: `Spec => []FramesAreInOrder`.
* `FlashFollowsRequestAlways`: `Spec => []FlashFollowsRequest`.
* `LoopsEnd`: `Spec => []LoopsFindTheirNodes`.
* `StoppedIsEmptyAlways`: `Spec => []StoppedIsEmpty`.
* `AccountsAgree`: `Spec => [](Inv /\ Accounts)`, and with it
  `NoBufferIsLostAlways`: `Spec => []NoBufferIsLost`.
* `StreamsDoNotStarveAlways`: `Spec => []StreamsDoNotStarve`, if
  `num_bufs > water_mark + max_unmatched_frames + 1`; the departures show that
  fewer are not enough.

`FlashFollowsRequest` holds between commands only. Within one, a request or metadata
changes the flags one after the other, `SwitchZsl` restores the agreement and the
dispatch loop keeps it; `GoodRequest` is what holds in between (the size of the burst
is known exactly in flash mode, and an order to stop is given only then), `Lit` what
holds between. Metadata alone can make `SwitchZsl` do either: a range sets
`bracketingState`, the LED-off end `stopZslSnapshot`.

`Inv` has three parts. The queue is sorted: complete frames first, `match_cnt` of
them, numbers ascending, and at most one incomplete frame too many (`GoodQueue`); the
lemmas `JoinFacts`, `InsertFacts`, `DropFacts`, `FlushFacts` and `HandOverFacts`
show it of each operation of the command thread, `CompFacts` and `ServesFacts` of
a whole command. Sorting needs that a stream does not bring a frame twice, nor one
older than what the queue, the callbacks or the client already have of it:
`CommandsAscend`, `QueuedArePast`, `SentArePast`, `HeldArePast` and
`AnswersArePast` say so of each place. `FlushIsAwaited` says that at most one flush
is under way and that the flush of a stop is the last command, from which a stopped
channel is empty. `Accounts` needs all of them: a buffer is once in the queue's places (its
command, the queue, a super buffer under way, the client's super buffer) and, of a
watched stream, once in its callback's, and `buf_refcnt` is the sum. That these places
have nothing in common (`PlacesAreApart`) is the order of the frames again. The
positions that are kept of a queue (`Keep`) are a function of ranks, not a recursion,
so that `KeepFacts` can be proved.

`PowerModesProofs`, of the handler, for any durations, requests and width of an int,
from `HandlerConstants` alone:

* `TypeCorrect`: `Spec => []TypeOK`; the duration of a boost stays within its
  limits even when the sum wraps (`FinalDurationWithinLimits`).
* `WaitsForLastTouch`: `Spec => []WaitIsForLastTouch`.
* `HintIsOnWhileOwed`: `Spec => []HintFollowsState`.
* `ImplementsBoost`: `Spec => Boost!Safety`, the handler's steps are steps of
  `InteractionBoost` or stutter.

The inductive invariant `Inv` adds where the thread is in each state, that a hint
is `timed` only without a thread, and, for the refinement, what the thread knows
when it gives up (`EndIsDue`): in its second poll, timer and age together cover
the duration, and a change of the display's node since it was read means that it
was idle after the last touch; that in turn needs `QuietIsRecorded`.

`PowerModesProofs`, of the modes, whatever they are, from `ModeConstants` and
`HandlerConstants`:

* `ModesTypeCorrect`: `ModesSpec => []ModesTypeOK`.
* `NoModeIsStuck`: `ModesSpec => []NoStuckMode`.
* `NoBoostLeaks`: `ModesSpec => []NoLeakedBoost`.

The inductive invariant `ModesInv` is their conjunction with two more facts: while
modes are ignored the hints of Power's own modes are off, except those of the two
modes that suppress them, and a boost that is on has the handler's thread to end it. It uses the
lemmas on the handler's steps.

`SimPinFeederProofs`, for any SIMs and users, from `FeederAssumption`:

* `FeederTypeCorrect`: `FeederSpec => []FeederTypeOK`.
* `NoSimIsMissed`: `FeederSpec => NoLockedSimIsMissed`, for any number of
  feeders, lost answers and edits included.
* `AttemptsAreSaved`: if `OneFeeder` and not `LostAnswers`,
  `FeederSpec => []OneAttemptIsWasted`.
* `MarksAreTrue`: if `OneFeeder` and not `EditsWhileFeeding`,
  `FeederSpec => []MarkMatchesLastTry`.

The inductive invariant `FeederInv` has two parts besides the types. `HearsOfAll`:
as long as a pass has heard of no change, a SIM that is not in its list, or that is
locked although the pass has been there, is one whose broadcast is still to come;
this is why the listener is registered before the list is read and the flag is
cleared before the list is read again. `AttemptsAddUp`: what a SIM has left pays
for what was wasted, so a count of three means that nothing was (`NoneWastedYet`).
`MarksAreFresh` says that the marks a thread has read are those of the rows. The
assumptions of the last two theorems are those the departures show to be needed.

`SubscriptionsLegacyProofs`, for any slots and cards, from `SubscriptionsAssumption`:

* `SubscriptionsTypeCorrect`: `Spec => []TypeOK`.
* `NoSyncDuringRequest`: `Spec => NoSyncStartsDuringRequest`, on any phone.
* `PoweredDownStaysListed`: `Spec => []PoweredDownCardIsListed`, which is about a
  phone where all work is on the worker (`phone = {}`).
* `QuietListIsSynced`: `Spec => []QuietIsSynced`, and `NoPhantomOutsider`:
  `Spec => NoPhantomAlteration`, both about that phone too.

The inductive invariant `Inv` adds that a request keeps the flag set
(`RequestBlocks`) and, for such a phone, that the list is the hardware's and a sync
and a request exclude each other (`OneThread`), and what makes the last theorem
inductive (`PoweredDownIsPersisted`): a slot that was powered down is persisted
as disabled, a running sync has not seen its card, and a request finds in the
property what it has announced. Without `OneThread` a sync could write the
state it read before the request, as the departures show.

The other two have `SyncInv`, which follows a sync through its slots: its snapshot is
the hardware's, or another sync is due (`SnapshotHolds`); what it has passed is as it
will be persisted (`SyncedSoFar`); what it has not come to, and nobody has altered
since the last sync, is still listed as known (`StillToSync`, `KnownIsListed`); a card
belongs to one slot (`HomesAreKept`).

`SimSchedulerProofs`, for weeks and days of any length, from `WeekAssumption`:

* `NearestAlwaysFound`: `TableSpec => []NearestIsFound`, for any number of rows and
  times of day.

The occurrences of a row are shown to be those minutes whose day of the week is in
the row's set; `MinuteGap`, the query's `ORDER BY`, is the distance from the minute
to the date-time that `getDateTimeBefore` or `getDateTimeAfter` computes
(division with remainder is unique, which is all that is needed of it), so a row
with the least gap has the nearest occurrence. From the same facts follow those
the scheduler needs: a nearest occurrence stays the nearest until it is passed, and
what comes in between is found at the minute it occurs.

`SimSchedulerProofs`, for any subscriptions, rows, settings and a clock that stops
at any minute, from `SchedulerAssumption` and `WeekAssumption`:

* `SchedulerTypeCorrect`: `Spec => []TypeOK`.
* `CallsLoseOneAtMost`: `CallsSpec => []AtMostOneIsCut`, for every setting, calls
  between a task's decision and its request included. `CallsSpec` is `Spec` with a
  history variable, `cut`: the SIMs disabled since the call under way began, other than
  by the user's switch. There is never more than one, and none unless `Interleaved`.
* `NoOccurrenceIsSleptThrough`: `Spec => []AlarmIsEarliest`, unless edits are
  `Interleaved` with the worker: with calls and power-offs of any length, alarms that
  ring late, and on both RILs.
* `SchedulesAlwaysFollowed`: `Spec => []SchedulesAreFollowed`, if `Followable`:
  nothing is interleaved within a task, alarms ring at their minute, calls end within
  theirs; edits are on a modern RIL and without calls; a legacy phone is off within a
  minute only. The runs `schEdits` and `schLegacy` are two instances of it. The
  departures give for each of these assumptions a behaviour that needs it.

`CallsLoseOneAtMost` says what is left of `NoDisableDuringCall` when a call may begin at
any moment. Only a request chosen before the call can still be made in it, and there is
one at a time: `CutInv` says that while a SIM is cut the call goes on and nothing is
chosen that disables another one. (Checked with TLC too, on `schLegacy` with
`Interleaved = TRUE`, where a SIM is cut indeed.)

`ShapeInv` has the types and what the queue's tasks may say. `AlarmIsKept` has the
alarm before the next inversion, or an update still to come (a queued one, or a
`CARRIER_CONFIG_CHANGED` that queues one), and the same of a time computed but not
yet set: that is what an interleaved edit breaks. `FollowInv` adds four parts.
`WantsAreFollowed`: for each subscription, what `getSubscriptionExpectedEnabledState`
makes of its row and the nearest schedules now is the state of the latest event, in
every state, synced or not (`Follows`), which for a legacy RIL needs to be said of
the date-times and the keep flag in turn (`RecordIsTrue`). `SyncedOrDue`: a
subscription that is not in that state has a sync queued, postponed or about to be
queued by an alarm that is due. That no minute passes without a due alarm being rung
is `AlarmIsKept` again. `TasksAreNow`: a task decides with the minute it was queued
in, which is where late tasks go wrong. `ChosenIsWanted`: a request under way is for
the state wanted.

Only model-checked: the liveness properties (`EveryCallReturns`, `EveryTaskRuns`,
`ServiceIsRecycled`, `PictureEnds`, `ExitReturns`, and the liveness of
`InteractionBoost` in `TouchesAreBoosted`), since liveness under fairness and
`ENABLED` are out of the prover's reach, and that a stop or a flush of a channel
returns (no deadlock in `sbBurst`). Every safety property of a run is a theorem, except
`NoDisableDuringCall`, which `schLegacy` checks where no call begins within a task; the
theorem beside it is `CallsLoseOneAtMost`, which does not assume that.

## Not modelled

* SIM PINs in the alarm's intent, encryption, expiry of the key and the corrupted
  mark of `PinStorage`; `UserAuthenticationObserverService`.
* Branches taken when the background usage is restricted, null intents, and
  intents without a date-time.
* `BOOT_COMPLETED`, changes of the clock and of the time zone
  (`SystemBroadcastReceiver`): a second update of the alarm, to the same value.
* Interruption of the thread that waits in `setSimState`; the dispatch of a
  status broadcast over a copy of the list of listeners.
* `PhoneCallEndObserverService` as a service (its wake lock, its polling).
* Power HAL: a poll that fails, the end of file of `idle_state`; the fallback that hands
  every boost to HintManager at once when the override property is set or the handler
  has no thread because its files could not be opened (`InteractionHandler.cpp:162`;
  of it, only the boosts after `Exit` are modelled); boosts other than INTERACTION, which are
  HintManager's alone; hint sessions, because `configs/powerhint.json` has no
  `AdpfConfig`, so `createHintSession` is refused and no session ever exists on
  this device. (`setThreads` would keep old thread ids: it resizes the list and
  then appends.)
* Camera state machine: long shots, retro pictures, HFR batches, dual camera,
  face registration, dumps, `SEND_COMMAND` and its restarts; temporal noise reduction
  and the low-power mode of the picture paths; the data of frames; the JPEG engine, and
  with it an encoding that fails.
* mm-camera-interface: frames numbered 0, low-priority matching, linked streams
  and frame synchronisation, AE/AF/flash bracketing when it is asked for (its
  `WAIT_GOOD_FRAME_IDX` and the second frame of flash bracketing; the state `ACTIVE`
  that any range sets is modelled), zoom bursts, configured capture, low light, the
  expected frame of an instant capture, the unlocking of AEC, manual ZSL, memory that
  runs out, starts that fail, restarts of a channel, batches of user
  buffers, registration of descriptors with the poll thread.
* The rest of Qualcomm's trees, PocketJudge, XiaomiParts, and the small HALs of
  the inventory.

## Plan

1. Done: calendar, `TelephonyController`, `SubscriptionsLegacy`,
   `SimScheduler`, `ForegroundService`; the power HAL with its refinement; the
   camera's state machine and super buffer queue; theorems of all of these.
2. Done: `SimPinFeeder` with its theorems. Left: the PINs the alarm carries against those stored,
   `UserAuthenticationObserverService`.
3. `PocketJudge`, smart charging.
4. An abstract scheduler (each SIM in the state of the latest event, within a
   minute) that `SimScheduler` implements.

# FiestaBoard in TLA+

A verification project kept beside FiestaBoard's backend (`src/src/`): TLA+ modules of
its concurrent core, TLC configurations that check them on small instances, and theorems
TLAPS proves for every instance.

FiestaBoard drives split-flap and LED boards. One engine thread decides about once a
second what each board should show; API and MQTT threads ask for the same work on demand;
one send worker per board writes frames to the device through a driver; silence windows,
pauses, held messages, transitions, rate limits and failing devices get in between. The
hard part is that what a board shows is decided in one thread, written in another, and
remembered by the first from what the second reported.

## The system

| Part | Source | State | Operations |
|---|---|---|---|
| Send worker | `displays/send_worker.py` | slot, current job, drain flag, stop flag; per job: waiters, verdict, sinks | `submit`, `stop`, drain loop, `active_keys`, `wait_idle` |
| Engine | `main.py` (`BoardRuntime`, `_drive_board_pass`, `_dispatch_send`, `_after_*`) | per board: dedupe record, silence latches, held-message adoption, schedule-defer key, render memo | a pass, dispatch, bookkeeping, invalidate, rebuild |
| Silence queue | `silence_queue.py`, `board_guards.py` | one held message per board, in a file | hold, peek, discard |
| Output runtime | `outputs/runtime.py`, `transitions/runner.py` | send lock, cancel token, external-write suspicion | run, preempt, write, render, observe_read |
| Output driver | `outputs/plugin_driver.py`, `frames.py`, `floor.py`, `breaker.py` | frame cache, send floor per device, breaker per connection, verdict flags | send, transition, sequence, read back, close |
| Fleet | `main.py` (`_build_board_clients`), `display_runtime.py` | registry of runtimes and their workers | build, replace, remove, recover |
| Stores | `atomic_io.py`, `storage/json_store.py`, settings, pages, schedules | documents, schema versions | load, save, mutate, migrate |
| Panels | `panels/content_resize*.py` | undo journal, copies, references, geometry | convert, commit, recover |
| Plugin registry | `plugins/registry.py` | in-flight fetches, pool, timeout streaks, quarantine | build context, fetch, serve stale |
| Sign-in | `auth/device_service.py`, `session_store.py` | challenges, sessions | authorize, decide, exchange, cancel |
| Schedules and overrides | `schedules/`, `settings/service.py` | entries, the hand-chosen page, the temporary override, the deferral | resolve, defer, consume, revert |
| Triggers, collections | `triggers/`, `collections/` | active triggers, rotations | resolve, rotate |
| Around it | templates, canvas, markup, AI, MCP, OAuth, updates, backup, web | | rendering, I/O, request handling |

How they interact. A **pass** (`check_and_send_for_board`) snapshots the keys of the sends
in flight, reads the silence window and the runtime's latches, decides on one frame,
preempts the running send (`OutputRuntime.preempt` sets its cancel token) and submits a
`SendJob` to the board's worker. The worker's drain thread runs the job: the driver writes
the device, then a closure of the pass writes the runtime fields (`_after_page_send`,
`_after_indicator_send`, `_after_trigger_send`), then the key is retired. The engine's
passes do not wait (`wait=False`); API and MQTT passes block for the job's verdict. A
write refused by silence is held on disk and delivered by the first pass after the window.

What makes it hard, with the lines, is the list of `hazards` in `PROJECT.json`: passes of
several threads without a lock, two-moment reads, bookkeeping that arrives after the state
it was decided on has changed, success that means "not written", cancellation that reaches
the wrong run, restarts, files written one after the other, threads nobody can kill.

What makes each part correct:

* worker: sends of a board do not overlap; the newest wins; every submitter gets one verdict;
* engine: no frame is sent twice, none is recorded that is not shown, every frame that should
  be shown eventually is, silence is honoured, the engine's thread never blocks;
* sources: a schedule that defers its return repaints nothing until its next window and comes
  back then; an override gets the board; the entry that wins is one that matches;
* silence queue: a message is forgotten only once it is shown;
* driver: two boards on one device share its rate limit, a failed write is not remembered,
  the flags tell how the last write ended;
* fleet: the registry ends with what the settings say; a runtime that was replaced writes
  nothing any more;
* stores, panels: after a crash the old or the new document, all or nothing;
* registry: one wedged plugin costs one pool worker and no board its refresh;
* sign-in: a code gives one token at most and only while its approval stands; signed out is
  signed out, whatever failed in between.

## Modules

| Module | Models | Composes |
|---|---|---|
| `LatestWins` | what a send queue promises its submitters | |
| `SendWorker` | `displays/send_worker.py`, threads and critical sections | refines `LatestWins` |
| `BoardEngine` | the passes, dispatch, worker, token, device and bookkeeping of one board | engine + worker + runtime + silence queue |
| `SendFloors` | `outputs/floor.py`: the send floor one device's senders share | |
| `OutputDriver` | the writes to one third-party device: lock, token, cache, breaker, bounded write thread, verdict flags | extends `SendFloors`, refines its specification |
| `BoardFleet` | the registry of runtimes: rebuild, retry, and the passes, workers and jobs that hold what was replaced | registry + passes + workers + driver's life |
| `Schedules` | which entry wins at an instant, which are warned about: operators only | |
| `SourceStage` | what the primary board shows: schedule, deferral, hand, override, silence, pause | extends `Schedules` |
| `AtomicResize` | what a panel's resize promises whoever reads the files | |
| `PanelResize` | the conversion, its journal, rollback, clean-up and recovery | refines `AtomicResize` |
| `FetchPool` | plugin fetches: joining, breaker, write-off, rotation of the pool | builders + pool + plugins |
| `DeviceSignIn` | codes, sign-ins and the account, in two stores | |
| `*Proofs` | the theorems about `SendWorker`, `BoardEngine`, `OutputDriver` (with `SendFloors`), `BoardFleet`, `SourceStage` (with `Schedules`), `PanelResize`, `FetchPool`, `DeviceSignIn` | |
| `MC*` | the instances for TLC | |

The modules meet at small interfaces and are not composed into one state space, where the
product would hide each question. `BoardEngine` takes a driver as the set of ways a send may
end; `OutputDriver` models where those endings come from, and its flags are what
`BoardEngine`'s bookkeeping reads. `BoardEngine` takes its page as given; `SourceStage` models
where the page comes from, with sends that land at once. `BoardFleet` takes a worker as a slot
and a job in hand, which is what `SendWorker` is proved to be.

### SendWorker

One action per critical section of `self._cond`, or per stretch of code outside it.

| Code | Model |
|---|---|
| `_pending`, `_current`, `_draining`, `_stopped` | `pending`, `current`, `draining`, `stopped` |
| `SendJob._absorbed`, event and `return_value`, entries in the sink | `absorbed`, `verdict`, `told` |
| a drain thread and its local `job` | `thread[t]`, `hand[t]`; a thread is named after the job whose `submit` started it |
| `submit` | `SubmitAccepted` (with `Adopt`, `StartDrain`) or `SubmitRefused` |
| `stop`: under the lock, after it | `StopTake`, `StopFail` |
| `_drain`: take, exit, execute, clear current | `DrainTake`, `DrainExit`, `DrainExecute`, `DrainRelease` |

A job object is submitted once, as in `_dispatch_send`. `wait` and `wait_idle` only read.
`LatestWins` has no slot, threads or adoption: it names the one send that will run (`newest`,
the last accepted), those it superseded (`waiting`), and the one that runs (`running`, with
`underway`). The slot is mapped to `newest`, the job in a thread's hand to `running`, so that a
queue that kept an older job and let it absorb the newer one is not a refinement.
What the job does on the device is not here: it ends as sent or failed, with or without a
reason.

### BoardEngine

One secondary board (`is_primary=False`, so triggers, overrides and the default page do not
apply) in manual mode, driven by the engine's thread `Tick` and by other `Callers`. A pass is
cut where it calls out, so that everything else can happen in between:

| Code | Action |
|---|---|
| `_pass_in_flight_keys` | `PassBegin`: the snapshot |
| silence evaluation, pause and UI-only returns, exit edge | `PassLook` |
| held delivery / no page / silence dispatch / page dedupe and adoption | `DecideHeld`, `DecideNothing`, `DecideSilence`, `DecidePage` |
| in-flight check, `rt.output.preempt()` | `PassQueue` |
| `worker.submit`, blocking callers | `PassSubmit` |
| worker takes the job; `OutputRuntime.run` makes a fresh token; `render` returns | `WorkerTake`, `WorkerRun`, `WorkerWrite(end)` |
| the thread of a write that was given up reaches the device late | `StrayWrite` |
| `on_complete` and the job's event; the key is retired | `WorkerBookkeep` (`AfterPage`, `AfterSilence`, `AfterMessage`), `WorkerRetire` |
| page edits, windows, pause, a refused write, a restart | `ChangePage`, `SilenceBegins`, `SilenceEnds`, `HandOver`, `HoldMessage`, `Restart` |

A page value stands for the page's id with what it renders to; `content` is
`last_active_page_content` with `last_active_page_id`. The render memo of #1883 appears as the
pass's freedom to skip when the content is unchanged. `pc` is `"asleep"` or `"awake"` once the
pass has read the window, which is its local `silence_mode_active`.

A driver is described by `Outcomes`: how it may end a send of each kind. `landed`; `throttled`
(dropped for rate, `(True, False)`); `refused` (reported as failed, also an exception);
`timedout` (given up after its budget, the thread going on; a failure to the engine);
`preempted` (cancelled with its target not landed, and said so); `cut` (a frame-by-frame
transition cancelled halfway, reported as success by `TransitionRunner.run`).

None of the endings but `landed` says what the device did: it may have taken the frame and the
answer was lost, may show an intermediate frame, or may be as before (`plugin_driver.py:366-409`,
`424-426`). `Leaves(end)` is what a send may leave, and `Residue` stands for whatever such a
write put on the device; `stray` says that the thread of a timed-out write may still come
(`StrayWrite`). A `landed` over a `Residue` may leave it there too: the driver's cache can still
claim the frame and answer without a write (after a partial write, say).

`fresh` is a history variable: whether the window found the board `Settled`, that is not latched
as snoozing, with no notice of an earlier window on its way and no pass that read "no window"
and can be overtaken.

### SendFloors

`_last[device_key]` is `last`; an `Admission` is `slot[s]` with `reserved_at` and `prev_last`.
`admit` is `Reserve` (its two refusals change nothing), `release` is `Release`, `hold` is `Hold`
(a delay of 0 stands for an answer without Retry-After), and a write that may have landed
keeps its slot (`Keep`). Every operation holds the registry's lock, so each is one action.
Time is in whole seconds and `Elapse` lets it pass. `kept` and `asked` are history variables:
`last` is overwritten, and what the floor promises is about all windows there ever were.

### OutputDriver

| Code | Model |
|---|---|
| `OutputRuntime._send_lock`, `_cancel` | `Holders(r)`, `cancelled[r]`: the token of the run in hand |
| `FrameCache.characters` | `cache[r]` |
| `_Streak.failures`, `open_until` | `failures`, `openUntil` |
| `_last_send_throttled`, `_last_send_preempted` | `throttled[r]`, `preempted[r]` |
| the caller's `run()` / `write()`: preempt, wait for the lock | `Ask` |
| fresh token, `_admit`: reset flags, floor, cache; a forced send | `Admit` |
| `_breaker_refusal`, the write thread starts | `Start` |
| the plugin shows an intermediate frame; the device takes the frame | `Glimpse`, `Write` |
| `_deliver`, one disjunct per ending | `Answer`: `Landed`, `Partial`, `Failed`, `Slowdown`, `Superseded` |
| the budget runs out in `_run_bounded` | `TimeOut` |
| the abandoned thread reaches the device later, or gives up | `Stray` |
| `clear_cache` by any thread, without the lock | `Forget` |

`device` is what the device shows and `by` who wrote it. `Mixed` stands for a device that
shows an intermediate frame or a part of one. A plugin may fail after the device took the
frame (the answer is lost) and before; a cancelled plugin may still land its frame, or report
`superseded`. `fate`, a history variable per runtime, remembers how the last run ended, to
compare with the flags. The cache promises are about a runtime's own writes: what a stray or another client put on
the device is found by reading it back, which is not modelled.

### BoardFleet

One secondary board between two settings and none. `_runtimes_lock` is `lock`, the rebuild in
it is cut where a pass can see a difference; passes take no lock.

| Code | Model |
|---|---|
| `_board_runtimes[instance]`, `board_init_errors` | `registered`: a runtime, `None`, or `Failed` |
| `BoardRuntime.config_signature`, the worker, the driver | `built`, `stopped`, `closed`, per runtime |
| a route changes `settings.boards` and rebuilds | `Edit`, then `RebuildBegins` (kept, removed, built or failed) |
| the workers of dead runtimes are stopped; drivers released; the registry replaced | `StopOld`, `CloseOld`, `Publish` |
| `_attempt_board_init_recovery` | `RetryBegins`, `RetryEnds`, `RetryDropped` |
| a pass finds its runtime; `_worker_for`, in its two steps; `submit` | `Resolve`, `FindWorker`, `MakeWorker`, `Submit` |
| the worker takes the job; `OutputHttp.request`; the job ends | `Take`, `Request`, `Succeed`, `Fail` |

`_worker_for` asks whether the runtime is registered under one lock and makes the worker under
another. A pass that asks between a rebuild's stop and its publication therefore makes a new
worker for the runtime that is about to die, and nothing ever stops it: a worker is named first
or second by whether its runtime's worker had been stopped when it was made. Its job fails at
the closed HTTP client (`outputs/http.py:185`), which `NeverThroughOld` shows to be enough:
the comments at `main.py:1055` and `693` promise more than the code does (no such job at all),
and less is needed. `shown` is the recorded page of the registered runtime: a new runtime starts
with nothing recorded. The settings a pass has read may be older than the registry, and an API
caller may resend a page. Of a request already under way when its driver is closed only the
answer is modelled: it may reach the device after the new runtime's first.

### Schedules and SourceStage

`Schedules` gives `get_active_schedule_entry` (`Matches`, `Contenders`, `Winner`) and
`_detect_overlaps` (`DailyIntervals`, `Overlap`) over a calendar of `Week` days of `Day`
minutes that starts again, so that a date of it is also a day of the week. An entry that runs
over midnight belongs to the day it starts on. Sunrise and sunset are start times like others.

| Code | Model |
|---|---|
| `rt.last_schedule_enabled`, `rt.schedule_defer_key` | `last`, `key` |
| `rt.last_silence_mode_active`, `rt.snoozing_message_sent` | `wasSilent`, `snoozing` |
| early returns for a pause and for a notice already sent | `HandsOff` |
| the override stage | `ShowOverride` |
| `consume_temporary_override` with its two looks at the clock; revert modes | `Consume`, `Revert` |
| `_schedule_defer_active`, schedule or manual page | `Deferred`, `NextKey`, `ResolveSource` |
| settings and schedule routes, MQTT, MCP | `SetSchedule`, `SetDefer`, `StoreSchedule`, `ChoosePage`, `SetOverride`, `ReadOverride`, `CancelOverride`, `Pause` |
| time and restarts | `Expire`, `Silence`, `Elapse`, `Restart` |

A pass is one step here and its send lands; `BoardEngine` is about what comes in between.
Triggers, held messages, collections, native playlists and other output targets are not in it.
A board blanked by a revert is repainted by the next pass. `byHand` is a history variable: the
board was driven by hand with the deferral chosen, and nothing that ends the promise has
happened since. Two things follow from the code and are no findings: a schedule turned off and
on between two passes was never off for the engine, and with a single all-day entry a deferral
never ends, as there is no next window (`Varied` in `ScheduleFollowed`).

### PanelResize

A field of a file is a slot that holds what it held, what the conversion gives it, or what the
user gave it since; `mem` is the process, `disk` the files, `FileOf` which rename writes a slot.

| Code | Model |
|---|---|
| the journal file; what the conversion will rewrite | `journal`, `plan` |
| `prepare_resize_journal`, each store's write in order, `commit_resize_journal`, `discard_resize_journal` | `Begin`, `Write`, `Commit`, `Unlink` |
| rollback, one store after the other | `UndoActive` .. `UndoGeometry` |
| the copies are deleted, collections first | `Clean`, `CleanEnds` |
| `recover_pending_panel_resizes` at the start | `Boot`, `RedoSchedules` .. `RedoSettings`, `RedoDiscard` |
| a save that fails; the process stops and starts | `SaveFailed`, `Crash`, `Restart` |
| the user, between conversions: a selection; a page or collection that nothing names; the active page, then what replaces it | `Edit`, `DeleteCopy` and `DeleteOriginal`, then `Replace` |

Stores change their memory first, so an edit whose save fails is in memory and not on disk. A
conversion may begin over such an edit: the journal records memory (`old`), the file is behind
(`stale`), and the next save of that file brings the edit late. After an interrupted conversion
the next start finds a field it does not know and refuses (see Known divergences). The
migrations of the silence settings and the restore of a failed upgrade run before the recovery.
They are not modelled: the former do nothing on an installation that has them behind it, the
latter puts back a backup from before the upgrade. A save lands whole or not at all
(`atomic_io.py` stages and renames). Fitting copies to the grid is pure and left out; so is the legacy `active.page_id` the recovery restores with the active
pages.

### FetchPool

| Code | Model |
|---|---|
| `_inflight_fetches`; futures and their states | `inflight`, `state` |
| `_fetch_timeouts`, `_fetch_breaker_until`, `_fetch_workers_lost` | `streak`, `cool`, `lost` |
| a pool that was shut down; builders that got it before | `retired`, `stale` |
| cache look-up, breaker gate, `_get_fetch_executor` | `Begin` |
| join or submit under the lock; `submit` raises on a pool shut down meanwhile | `Join`, `Refused` |
| the wait ends, what has not started is cancelled | `GiveUp` |
| `_record_fetch_timeouts`, and the streaks of those that finished | `Settle` |
| `_write_off_fetch_workers` | `WriteOff` |
| `_clear_inflight_entry`, the future's callback | `Callback` |
| worker threads, the plugin, its cache, the quarantine's end | `Start`, `Finish`, `Expire`, `CoolDown` |

The cache look-up and the gate are one step, as are charging and clearing the streaks, the
rotation and the shutdown: what lies between them is not read by others. `Expire` also stands
for a change of the configuration, which wipes the cache. With two builders a pool can be
retired between a builder's look and its `submit`, so fetches can be queued on a retired pool
(`Refused`), which the comment at `registry.py:157` excludes and the code survives: the build
raises, the futures are cancelled or run with nobody waiting.

### DeviceSignIn

| Code | Model |
|---|---|
| the account in memory, in `auth.json`; `_monotonic_ms` | `account`, `saved`, `clock` |
| rows of `challenges`, of `sessions` | `code`, `by`, `outdated`; `kind`, `era`, `active` |
| a request past its check and not yet at its transaction | `polls`, `decisions` |
| `authorize`, `decide`, `exchange`, `cancel` | `Authorize`, `Decide`, `Exchange` with `Grant`, `Cancel` |
| `create_session`, `revoke`, `revoke_others` | `SignIn`, `Revoke`, `RevokeOthers` |
| `create_initial_user`; `change_password`, `change_username`, `invalidate_all_sessions`, `disable_auth_for_user` | `SetUp`; `Change`, then `ChangeEnds` |
| `set_enrollment` | `SetEnrollment` |

Each method of the session store is one SQLite transaction. A change of the account advances
the generation in `auth.json` first and revokes the rows then: the save may fail (memory is
ahead of the file until a restart), the revocation may fail, and the process may stop in
between. `changing` is `auth._lock` held over the two. `withdrawn` and `over` are history
variables: what must not be honoured any more. `_monotonic_ms` never gives a value twice, hence
a counter. The limit of 200 sessions is the size of `Sessions`; rows are never cleaned up.

## Runs

| Run | Configuration | Shows |
|---|---|---|
| `worker` | `MCSendWorker.cfg` | the queue: one drain thread, nobody stranded, one sink entry, refinement of `LatestWins` (the last one accepted runs, one verdict each), every job settles |
| `engine_pages` | `MCEnginePages.cfg` | engine alone, two windows in any mode, sends that fail, time out, are dropped or cancelled with something left on the device: no frame is queued twice, a board recorded as snoozing shows the notice, pages and notices arrive |
| `engine_held` | `MCEngineHeld.cfg` | two messages, held also before a pass has seen the window, replaced while held, failing sends, a restart: the record is true, a message is not forgotten early and is delivered |
| `engine_callers` | `MCEngineCallers.cfg` | an API caller races the engine: its calls are answered, the record stays true |
| `cut_transition` | `MCCutTransition.cfg` | violation: a page recorded as shown over an intermediate frame, for ever |
| `outputs` | `MCOutputs.cfg` | two senders over a board's runtime and a route's own client on one device: taken slots a floor apart, closed only for a reason, no cache claims one frame over another, the flags tell how the last write ended, every sender answered |
| `board_fleet` | `MCBoardFleet.cfg` | settings change, builds fail and are retried under running passes: the registry follows, nothing goes out through a replaced runtime, the board gets its page |
| `source` | `MCSourceStage.cfg` | a deferred schedule keeps its hands off and comes back, an override gets the board |
| `override_silenced` | `MCOverrideSilenced.cfg` | violation: an override set once the board is snoozing is never shown |
| `panel_resize` | `MCPanelResize.cfg` | any save failing, a stop anywhere, edits in between: all or nothing, no dangling selection, no start refused for nothing, recovery ends, refinement of `AtomicResize` |
| `fetch_pool` | `MCFetchPool.cfg` | a wedged plugin and one that answers on a pool of one worker: one fetch per key, capacity kept, the healthy one served |
| `device_sign_in` | `MCDeviceSignIn.cfg` | requests in flight, either write failing, restarts: no withdrawn code is granted, no ended sign-in accepted |

The type invariants of `SendWorker`, `FetchPool` and `SourceStage` are proved and not run again.

### Known divergences

The two violations are the findings of `PROJECT.json`, each with the comment it contradicts.
Further disagreements of the code with what it says were found while modelling. They are not
kept as runs; the passing configurations exclude each by the narrowest choice of constants or
by how their property is stated, given here:

* a send that failed, was dropped or was cancelled may have put something on the device, and
  leaves the record of the page before it (`main.py:2631-2645`, `2667-2675`). A return to that
  page finds the content unchanged (`main.py:2580`) and is skipped, and the board keeps what the
  failed send left there, although the comments at 2626-2629 and 2641-2645 mean the next pass to
  send it. `CacheTruth`, `SnoozingShown`, `PageReachesBoard` and `SilenceReachesBoard` therefore allow a
  `Residue` over a record that was true before it; they still say that the record never names a
  frame that was not there, and that a page nobody recorded is sent;
* a held message whose send is dropped for rate or cancelled counts as sent and is forgotten
  (`_after_page_send` looks at `last_send_throttled` and `last_send_preempted`,
  `_after_trigger_send` at `main.py:3466` and `_after_indicator_send` at 3132 do not); and one
  held while an older one is being delivered is forgotten with it, because the entry is discarded
  by board (3473): `HeldNotLost` exempts both by name, in `Mistaken`. `HeldReachesBoard` and
  `SilenceReachesBoard` are checked with drivers that drop or cancel page sends only (`Honest`, `Prompt`);
* a frame-by-frame transition cancelled halfway is success: those drivers have no `cut` (`cut_transition`);
* a notice in flight when its window ends sets the snoozing latch for the next window
  (`main.py:3138`, `2630`, `2233`), and so does a board that is paused or shown in the UI only as the
  window ends, since the pass returns at 2175-2182 or 2224-2231 before it resets the latch at 2243:
  the next window puts up no notice. `SnoozingShown` and `SilenceReachesBoard` speak of windows that
  found the board settled (`fresh`);
* a `wait=True` caller re-sends by design, and one that read the window before it began can
  still paint a page into it: `NoDuplicateSend` is checked and proved with the engine alone, and a
  window that begins over such a caller is not `fresh`;
* the engine's thread waits for the silence page's fallback (`main.py:3220`), and a preemption
  between a run's fresh token and its write is lost (`main.py:811`): no property of a passing
  run speaks of either;
* a write that the device took and then reported as failed, or that raised, or was cancelled over
  an intermediate frame, gives its floor slot back (`plugin_driver.py:373-375`, `399-407`,
  `424-426`), so the next frame can follow it closer than the floor: `Spacing` is about slots that
  are held or were kept, not about frames;
* a panel conversion that began over an edit whose save had failed, and is interrupted, makes the
  next start refuse: the file holds neither what the journal recorded nor what the conversion
  made (`content_resize_recovery.py:146`). `RefusesOnlyEdits` counts it as the user's edit, which it is;
* after a partial write the cache keeps claiming the old frame over a mix: `NeverAnotherFrame`
  is `CacheTruth` but for `Mixed`, and `CacheIsTrue` proves that the partial ending is the only
  exception;
* `_after_page_send` reads the driver's flags once the lock is free, when another run may have
  reset them (`main.py:2631`, `send_outcome.py:3`): `FlagsAreLast` is about the flags between
  two runs, and `BoardEngine` hands the ending over with the send;
* a fetch under way when its plugin's configuration changes stores its result after the wipe
  (`plugins/base.py:530`, against the docstring at 588): `FetchPool` does not tell one result
  from another;
* `get_temporary_override`, which reads are answered from, drops an expired override so that its
  revert is never applied (`settings/service.py:2889`, against 477): `ReadOverride` does it, and
  no property promises the revert;
* the worker made between a rebuild's stop and its publication, see BoardFleet above: modelled,
  and harmless.

### Bounds, and why they are enough

* Worker: four jobs. Three can be submitted while one executes, so a job is adopted together
  with jobs it had adopted; a stop finds such a group in the slot; and with every submit able
  to start a thread, up to four threads exist. The theorems hold for any number.
* Pages: two in `engine_callers` and `cut_transition`, so that a page can change and change back,
  which is what a wrong dedupe record needs; one page and none in the other two, where the
  questions are the window and the message. Windows: two in `engine_pages`, so that what is left
  of one meets the next; the theorems hold for any number.
* Messages: two, so that one replaces another. Callers: the engine and one API thread, since
  passes of API threads differ only in when they run.
* Outputs: three senders, so that one waits for a lock, one holds it and one comes from
  another runtime; three writes in all, so that two failures open the breaker (`Threshold`,
  2) and a third write meets it; a floor of 2 s, a Retry-After longer than it (3 s) or none,
  and a clock of 4 instants, so that a device closes, reopens and is asked again.
* Restarts of the engine: one, at any point. Page changes, pauses and passes are unbounded.
* Fleet: two settings and none, so that a rebuild keeps, replaces, removes and fails; one
  editor and the poll thread, as the lock lets one at a time; the engine, which does not wait,
  and an API caller, which does; two runtimes held at a time (one registered and one replaced,
  or in the making): a rebuild waits while both names are held. Edits and passes are unbounded,
  and the theorems hold for any number of runtimes.
* Sources: two minutes that come again and again, and two schedules: two windows of one page
  (which a deferral must tell apart), and a gap with a dated entry over a weekly one. Three
  minutes and two days, 620 000 states, were checked for the safety properties.
* Panel: two pages and a collection are copied (a copy that names copies), one entry; three
  faults, so that a save fails, the rollback fails too and the recovery is interrupted; the
  fields of three different files are editable, and any of them may be behind at the start.
* Fetches: one builder that needs both plugins and one that needs the wedged one; one worker, a
  threshold of 2 and a limit of 1, so that the first quarantine rotates the pool; a second
  future of the wedged plugin, as one can be cancelled and still be held. Two futures each with
  a threshold of 1 (437 000 states) passed as well.
* Sign-in: one code, three sign-ins (the approver, another browser, the TV), three generations
  (set up, change, set up again), two requests in flight. Two codes with one request, 3.8
  million states, passed as well.

### Fairness

`SendWorker`: a drain thread keeps running and a caller inside `stop` returns (`WF` per job);
sends are bounded by the driver's write budget, HTTP timeouts and transition caps.
`BoardEngine`: the engine's loop never stops (`run`), every pass that began goes on, the
worker goes on (`WF`); API callers need not ever come. `WriteLands` (`SF`) is a premise about
the device, not about the code: it does not refuse every write for ever. Without it no page
could be promised.
`OutputDriver`: a free lock is granted, a write that was admitted starts, and a budget runs out
(`WF` of the three together, per sender; a write is always open to its timeout). Nothing is
assumed of the plugin. Weak fairness of the lock is enough because only `Sends` writes are
asked for: an endless supply of writers could overtake one for ever, as Python's locks are not
fair.
`BoardFleet`: threads go on (`WF` of each editor's rebuild, of each pass, of the workers), the
engine ticks (`SF`, since a rebuild may stand in the way again and again). Two premises about
the board: a build that is retried succeeds, and the device does not refuse every send.
`SourceStage`: the loop makes a pass at every instant (at least one a second) and time goes on
(`WF`). Nothing makes the user act.
`PanelResize`: a request and a start that have begun go on, and the service manager starts the
process again (`WF`); faults are bounded, the user need not act.
`FetchPool`: builds and callbacks go on (`WF`); a plugin that answers does so, and its quarantine
runs out (`WF`); a queued fetch that can start again and again is started (`SF`: the pool's
queue is first in first out and a build waits five seconds for it). Of a wedged plugin nothing
is assumed.
`DeviceSignIn` states no fairness: its properties are about what may never happen.

## Proofs

`SendWorkerProofs`, for every set of jobs:

* `TypeCorrect`, `OneDrain`, `NoneStranded`, `ToldAtMostOnce`: the worker's invariants;
* `Refinement`: `Spec => Promise!Spec`, the queue implements `LatestWins`.

Neither `OneDrainThread` nor `NoJobStranded` is inductive alone. `IInv` adds what the code
relies on and never says: `_draining` is true exactly while a thread is inside `_drain`
(`ThreadInv`), the queued job, the job in hand and the jobs taken by `stop` are different
jobs with disjoint groups (`Apart`), and those groups are exactly the unresolved jobs
(`Partition`); `ToldOnce` joins because an open job must have an untouched sink. Each action
preserves each conjunct; the refinement maps the queued job and its group to `newest` and
`waiting`, an executing one to `running` and `underway`, the groups of taken jobs to `dropped`, and
uses `IInv` to show that the steps of the abstract queue are enabled where the code takes them.
The only assumption is that `None` is not a job.

`BoardEngineProofs`, for any pages, messages, modes, restarts and (unless said) drivers:

* for any number of callers, `TypeCorrect` (`[]TypeOK`) and `NobodyForgotten`: whoever waits has
  exactly one job that is queued or under way (`WaitInv`). Types alone are not inductive:
  `JobInv` adds that a pass has a job in hand exactly from its decision to its submit, and that
  what a send shows goes with its kind;
* `RecordTrue` (`[]CacheTruth`), for any number of callers and windows, if every driver is
  `Truthful`: only a page send is dropped or cancelled, and says so, and no transition is cut
  short. Whatever an unsuccessful send leaves on the device is allowed for. `RecordInv`
  has the record right at all times but between a write and its bookkeeping;
* `NothingTwice` (`NoDuplicateSend`), for the engine alone, any driver and any number of windows.
  The pass reads the record and the queue after its snapshot of the keys in flight, at different
  times. The argument is `SnapshotInv`: until the pass submits only the worker changes queue and
  record, and only for jobs of the snapshot, so that a frame recorded since the snapshot has its
  key in it, and a key missing from it is neither in flight nor recorded;
* `NoticeStays` (`[]SnoozingShown`), for any number of callers and windows, if a notice lands,
  fails or times out (`TruthfulNotices`). `WindowInv` says that in a window that found the board
  settled only a caller that is alone can still act on "no window", and then before any notice; and
  that nothing but notices is behind a notice. `SnoozeInv` says that a latched board shows the
  notice whether its queue is empty or not;
* `HeldKept` (`HeldNotLost`), without a hypothesis: for any callers, windows, endings and restarts
  the ways to lose a held message are those the property names. It needs `RecordInv` for the
  message that is found on record already.

`Truthful` and `TruthfulNotices` are the drivers of the runs; the divergences above show what
happens without them, and why `NothingTwice` is about the engine alone.

`OutputDriverProofs` begins with the floor, for every set of senders, floor and delays:
`FloorSpaced` and `FloorHasReason`. `Spacing` speaks of slots that are held or were kept, while a reservation is granted by
`last` and a release puts an older time back. The induction adds `Newest` (`last` is never
older than a taken slot) and `Fallback` (what a release would put back is still no older than
every slot taken before, and lies a floor before the released one).

Then the driver, for every set of senders, runtimes, frames and endings:

* `FloorUsed`: `Spec => FloorSpec`, every step of the driver is one operation of the floor or a
  stutter, so `WritesSpaced` and `ClosedForAReason` follow from the floor's own theorems (about
  slots, as above: a write reported as failed has none, whatever the device did);
* `CacheNearTruth`: `[]NeverAnotherFrame`, and `CacheIsTrue`: `[]CacheTruth` when no plugin
  reports a partial write. Neither is inductive, since both speak of quiet runtimes. `CacheInv`
  adds the lock (`LockInv`: one holder per runtime, only a running write has reached the device)
  and what is true during a write (`ClaimInv`: the claim stands until a write starts; a frame
  that was written is there until its answer);
* `FlagsTrue`: `[]FlagsAreLast`, from the lock: only the holder of a runtime touches its flags;
* `TypeCorrect`: `[]TypeOK`; the floor's part comes from `FloorUsed`, the rest needs that exactly
  the runs that were admitted have a slot in hand (`SlotInv`).

`BoardFleetProofs`, for all settings, editors, callers and runtimes: `TypeCorrect`,
`RegistryTrue` (`[]RegistryFollows`), `NothingThroughOld` (`NeverThroughOld`). `IInv` is the types
and `LockInv` (which steps go with which holder of the lock, and that of the live runtimes only
the registered one and the one to come are open), `PassInv` (a runtime not yet published is held
by no pass, has no worker and no job) and `RegInv` (what is registered, or is about to be,
follows the settings unless a rebuild is still due). A request then needs an open driver, which
is the registered one's, since nobody holds the one to come.

`SourceStageProofs`, for every calendar, schedule and revert mode. About the pure operators:
`WinnerWins` (the winner matches and nothing beats it, and there is none only in a gap; the
maximum exists by well-founded induction from the library) and `WarningsExact` (two weekly
entries are warned about exactly if some instant belongs to both). About the stages:
`TypeCorrect`, and `HandKept` (`ToggleKeepsPage`), by `Held`: while the board counts as driven by
hand, the runtime has the schedule off, or the deferral is for the current window.

`PanelResizeProofs`, for any copies, entries and number of faults: `TypeCorrect`, `NoMixture`,
`CopiesKept`, `NeverRefusedForNothing`, and `Implements`: `Spec => Promise!Spec` for its safety
part. The invariant says for each place of the process what the slots may hold: only what the
plan names is converted (`Planned`); without a pending journal the board is whole in memory too
(`Whole`); while the locks are held nothing is edited and a file is at most behind by an earlier
edit (`Writing`); what the rollback or the
recovery has passed is old again, in memory or on disk (`RolledBack`, `Recovered`); memory
differs from the files by edits alone, earlier ones included (`Edits`).

`FetchPoolProofs`, for any plugins, builders and limits: `TypeCorrect`, `NeverTwice`
(`[]OneFetchPerKey`), `CapacityKept` (`[]CapacityReserved`), `NoThreadLeak` (no more threads at
work than keys, however many pools were retired). The core is `Registered`: an unfinished future
is the one in the registry under its key, because only a finished one is replaced or cleared.
`Accounted` counts the written-off workers of the pool in use that no builder is still to
account for, against `lost`.

`DeviceSignInProofs`, for any codes, sign-ins and generations: `TypeCorrect`, `EndedForGood`
(`[]SignedOut`), `OneTokenOrNone` (`Honoured`). `IInv` adds that no row and no file is ahead of the
clock and who is ahead of whom (`EraInv`), that a sign-in that is over is inactive, or of an older
generation than both memory and file (`OverInv`), and that a withdrawn code is closed, outdated, or
approved by a session that is over or of an older generation (`WithdrawnInv`).

The assumptions are those the modules name: `None` and other markers are none of the values
they stand beside, numbers are natural and limits positive, sets counted are finite.

Every invariant, action property and refinement of a passing run is a theorem. Only
model-checked: all liveness (`EveryJobSettles`, `PageReachesBoard`, `SilenceReachesBoard`, `HeldReachesBoard`,
`WaitersAnswered`, `EveryoneAnswered`, `BoardServed`, `ScheduleFollowed`, `OverrideShown`, `Recovers`,
`HealthyServed`), which is outside the prover's reach, as is `ENABLED`. The counterexamples of the
two violations are TLC's.

## Not modelled

Rendering (templates, markup, canvas) is a page value; the network, the web UI, AI, MCP,
OAuth, updates and backup are I/O around the core, and with rendering they are most of the
repository's lines. Of the stores, staging, schema refusal and migrations; a save is taken as
atomic, which is what they are for.

Within `BoardEngine`: triggers, overrides, blanking, collections and schedules as sources of the
page (the primary board's choice among some of them is `SourceStage`), native playlists,
`invalidate_board_content`, a runtime rebuild (`BoardFleet`), the 240 s limit of a waiting
caller, the queue file's own failures and the 24 h expiry of a held message; and several steps
inside one action (a pass reads and writes the runtime fields of one stage together).
Within `OutputDriver`: first-party outputs (written inline, with neither budget nor breaker, and
whose exceptions leave the floor and the cache as they are), sequences with a rich landing
(`prior_send`), native playlists, `run_with_plugin`, reading the device back (`observe_read`,
`poll_device`), a device without a floor, several devices behind one runtime. `Hold`'s window may
be lost when a slot taken after it is given back; `NoPhantomWindow` and `Spacing` do not speak
of it.
Within `BoardFleet`: the primary board's clientless placeholder (`_ensure_primary_runtime`), the
retry's backoff, device polling.
Within `SourceStage`: see above; also sunrise and sunset, the gap report, the freeze mode's page.
Within `FetchPool`: the stale results a build serves meanwhile, loading and enabling plugins,
the teardown of the pool, cancelled builds of a process that ends.
Within `DeviceSignIn`: CSRF nonces, rate limits and poll pacing, cookies signed by old versions,
the environment's override of the mode, the MCP token, the clean-up of old rows.

## Plan

Done: `LatestWins`, `SendWorker`, `BoardEngine`; `SendFloors`, `OutputDriver`; `AtomicResize`,
`PanelResize`; `FetchPool`; `Schedules`, `SourceStage`; `DeviceSignIn`; `BoardFleet`; the proofs of
all their safety properties. Left, in this order:

1. Reading the device back in `OutputDriver`: two mismatches with no send in between.
2. `JsonStore`: load, migrate, save, and the refusal of a newer schema.
3. Triggers and collections as stages of `SourceStage`; the primary placeholder in `BoardFleet`;
   `invalidate_board_content` in `BoardEngine`.

At most twelve runs are kept, one for each question. A finding's violation goes when the code
is fixed, and its property joins a passing run.

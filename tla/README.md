# Horizon OC: specification and proofs of the sysmodule

Horizon OC overclocks the Nintendo Switch. Its core is `hoc-clk`, a sysmodule
(`Source/hoc-clk/sysmodule`) that sets the CPU, GPU and RAM clocks by the
running title and the power profile. This directory holds TLA+ modules of that
core, the TLC runs that check them on small consoles, and proofs for TLAPS that
hold for every console. All source paths below are under `src/`; `hoc-clk/` is
short for `Source/hoc-clk/`.

## The system

| Part | State it keeps | Operations | Talks to |
|---|---|---|---|
| Frequency tables (`clock_manager.cpp`) | `gFreqTable`, filled once | `IsAssignableHz`, `RefreshFreqTableRow`, `GetMaxAllowedHz`, `GetNearestHz` | PCV's rate lists |
| Clock manager (`clock_manager.cpp`, `main.cpp`) | `gContext`, `gRunning`, under `gContextMutex` | `Tick`: safety reset, `RefreshContext`, `config::Refresh`, `SetClocks` | all the others |
| Governors (`governor.cpp`) | three threads; enabled flags without a lock | every 5 ms: load to clock; ramp up fast, down slowly; VRR sets the display rate | `gContextMutex`, `gContext` |
| Configuration (`config.cpp`) | `config.ini`, its mtime, the maps in memory, the overrides; two mutexes | `Load`/`Refresh`, `SetProfiles`, `SetConfigValues`, `SetOverrideHz`, `GetAutoClockHz` | minIni, the SD card |
| GPU voltage (`board/board_volt.cpp`) | `voltData` (table address, `ramVmin`) | `PcvHijackGpuVolts` rewrites PCV's table | PCV's memory |
| Clocks (`board/board_freq.cpp`) | none; PCV has the clocks | `SetHz`, `GetHz`, `ResetToStock*` | PCV, APM |
| Display rates (`board/display_refresh_rate.cpp`) | current and docked rates | `SetRate`, `GetRate` | DSI, DP, PLL registers |
| IPC (`ipc_service.cpp`, `nxExt/ipc_server.c`) | sessions, one thread | 13 commands | overlay, config, clock manager |
| KIP settings (`kip.cpp`) | `hoc.kip`, a checksum in `config.ini` | `GetKipData`, `SetKipData` | config |
| Process management | cached play events | `GetCurrentApplicationId`, `isApplicationOutOfFocus` | pm, pdm |
| Overlay, Monitor, memory tools, loader and exosphere patches | — | clients, displays, boot-time patches | — |

How they interact: the **main thread** ticks (`main.cpp:157`) with
`gContextMutex` held for the whole tick, sleeps included; the **CPU and GPU
governor threads** read their flags without the mutex, take it, set a clock, and
sleep 5 ms before they release it; the **IPC thread** writes overrides, profiles
and `gRunning` without that mutex, under the configuration's own; and **PCV and
APM** change the clocks themselves when the console is docked, boosts a loading
title or changes its performance configuration.

What is hard about it:

* *checks before a lock*: governors test flags, then wait for the mutex;
* *values read early and used late*: `isBoost` across the settle sleep, the RAM's
  target and old clock across several service calls;
* *its own writes seen as events*: a tick compares PCV's clocks with the
  remembered ones, and anything it reset itself is a change;
* *ordering of two resources*: GPU voltage floor and RAM clock, in the order that
  depends on the direction of the change;
* *unsigned arithmetic* on voltages, *truncation* of clocks to megahertz;
* *short-circuits* that starve: `RefreshContext() || config::Refresh()`;
* *shared indices*: one table for the port and the sessions, whose entries move when
  one goes, and an end that may come at any step of a request;
* *files*: two writers of `config.ini`, a modification time as its version, a
  checksum as the version of the KIP.

What makes each part correct:

* tables: the searches return the closest entry, never above a cap, and find an
  entry again after it was stored in whole megahertz;
* clock manager: stock clocks while a title change settles, caps of the current
  profile, the clocks asked for once nothing changes, throttling that holds;
* governors: never above target or cap, silent once disabled;
* GPU voltage: the floor serves the RAM clock at every step, and is a voltage;
* configuration: an edit is loaded in the end; memory and file agree; a crash
  loses no profile;
* KIP: the settings and the KIP agree, or the difference is noticed;
* IPC and life cycle: each session once in the table and room for all the port admits,
  an answer to everyone and to the right one, an Exit that ends the program;
* display: a rate within the allowed ones.

`PROJECT.json` lists each hazard at its line, with the properties that cover it
or the reason why none does yet.

## Modules

| Module | Models | Notes |
|---|---|---|
| `FreqTable` | the pure functions of `clock_manager.cpp:59-142`, `governor.cpp:87-99`, `board_volt.cpp:422-443` | closed forms of the searches, no state |
| `FreqSearch`, `MCFreqSearch` | the loops of `GetNearestHz` and `TableIndexForHz`, one action per iteration | checked against the closed forms and against a reference: distance to the request |
| `ClockManager`, `MCClockManager` | tick loop, governors, requests, console | see below |
| `SettingsStore` | the promise of `config.cpp`: sections saved one at a time, a view that only moves to what is saved | abstract, no code of its own |
| `ConfigStore` | `config.ini`, the copy in memory, minIni's copy–remove–rename | implements `SettingsStore` |
| `KipSettings`, `MCKipSettings` | `kip.cpp`, the boot, the overlay's saves, crashes and failures | extends `ConfigStore` |
| `DisplayRate` | `display_refresh_rate.cpp`: `SetRate`, `GetRate`, docks and televisions | the driver |
| `Vrr`, `MCVrr` | the VRR thread, the tick around it, the focus cache | extends `DisplayRate` |
| `IpcServer` | `nxExt/ipc_server.c`, the thread of `ipc_service.cpp`, start and end in `main.cpp` | with its clients and the kernel's sessions |
| `FreqTable_proofs`, `FreqSearch_proofs`, `ClockManager_proofs`, `GpuFloor_proofs`, `ConfigStore_proofs`, `KipSettings_proofs`, `Vrr_proofs`, `IpcServer_proofs` | theorems and their lemmas | |

### ClockManager

| Variable | Code |
|---|---|
| `hw`, `apm`, `world`, `calm` | the clocks of PCV, the APM configuration, title and profile; `calm`: nothing changes from outside any more |
| `ramVmin` | `voltData.ramVmin`, and so the floor in PCV's table |
| `file`, `dirty`, `cfg`, `override` | a section of `config.ini` per title, "mtime differs from `gMtime`", `gProfileMHzMap`, `gOverrideFreqs` |
| `lock` | who holds `gContextMutex` |
| `ctx`, `freqs`, `ovr` | `gContext.applicationId` and `.profile`, `.freqs`, `.overrideFreqs` |
| `running`, `enabled`, `last` | `gRunning`, `is*GovernorEnabled`, `last*GovernorState` |
| `pc`, `isBoost`, `changed`, `tripped`, `targetHz`, `oldHz` | the main thread: where it is and the locals it carries |
| `gpc` | where each governor thread is |

The main thread is cut where another thread, a client or the console can get in
between and be noticed: before and after each sleep, and between the service
calls that read, raise, set and lower. A tick is

`TickBegin` (lock, read `isBoost`) – `HandleSafetyFeatures` – `RefreshTitle` [–
`ClearFloor` – `RestoreGpu`] – `Settle` – `RefreshFreqs` [– `RefreshConfig`] –
`SetClock("CPU")` – `SetClock("GPU")` – `SetMem` [– `DVFSReset` – `SetGpuAgain` | –
`DVFSBeforeSet` – `ChangeMem` [– `DVFSAfterSet` – `SetGpuAgain`]] – `HandleGovernor` –
`StopGovernors` – `TickEnd`,

with the early exits of the code: `SetClocks` is skipped without a change and
returns at once in boost mode. `SetMem` copies target and old clock into locals
because the code decides on them several calls later. With PCV hijack the code drives the
GPU to PCV's highest rate (`SetHz(HocClkModule_GPU, ~0)`, lines 449, 260, 263 and 291) and
sets it again with its next call, so that PCV takes up the new voltage table: `ClearFloor`,
`DVFSReset` and `DVFSAfterSet` do the first, `RestoreGpu` and `SetGpuAgain` the second, and
other threads may look in between. A governor is
`GovernorCheck` (flags, without the mutex) – `GovernorRun` (one round) –
`GovernorRelease` (after the sleep). The hold on the way down (10 rounds) is the
choice in `GovernorRun` to keep the clock.

Abstractions, all of them:

* clocks are in units of 100 kHz, for TLC's 32-bit integers; a section of the
  configuration is a model value whose content is the constant `Content`;
* configuration values (`OverwriteBoostMode`, DVFS mode and offset, the CPU
  governor's minimum, `UncappedClocks` off) are constants of a behaviour;
* power and temperature limits trip by choice, in ticks before `calm`;
* `ResetToStockModule` reads APM and sets the clock in one step, and so does a
  governor's round; the governor flags are set in one step;
* `HandleGovernor` reads its target twice with the same result: one read;
* service errors are not modelled (the process aborts on them), except the failure
  to attach to PCV (`PcvDebugFails`);
* `LiveCpuUv`, sensors, logs are left out; the display module and the VRR thread have
  modules of their own.

### ConfigStore and KipSettings

| Variable | Code |
|---|---|
| `disk`, `now` | `config.ini` with its modification time, the clock in seconds that stamps it |
| `mem`, `loaded`, `gMtime` | `configValues` and `gProfileMHzMap`, `gLoaded`, `gMtime` |
| `put` | an `ini_putsection` in progress, and with it `gConfigMutex` |
| `kip`, `table` | `hoc.kip`: release, settings and `gpuSpeedo` of its table; the fields of the `CustomizeTable` about to be written |
| `configValues` | the list `SetKipData` has collected and saves with the checksum |
| `pc` | main (boot, then the loop) and the IPC thread |
| `ui`, `saving`, `kipDue` | the overlay: its `configList`, a KIP setting being saved, the `SetKipData` threads that are due |
| `told` | the notifications of this run |
| `past` | ghost: what has ever gone wrong with a table (a failed or cut write, a lost file) |
| `busy`, `used` | `RefreshContext` will find a change; how much of each bound is used |

A save is `BeginPut` (the mutex is taken, the copy written) – `RemoveOld` –
`EndPut` (the copy renamed, the memory changed when `immediate`), or `AbortPut`.
`PowerOff` may come between any two steps: the card stays, the memory goes.
After a restart `GetKipData` runs: `BootRefresh` – `BootUpdates` (the checksum is
another one: `SetKipData` writes the table) or `BootAdopts` (the table is copied
into the configuration, but for `gpuSpeedo`, for which `kip.cpp:214` takes the fuses') or
`BootUnreadable`. `SetKipData` is `FillTable` – `FillRest`, any number of times –
`WriteTable` – `TableWritten` or `WriteFails` – `Collect` – `SaveCollected` – the save. It
reads some hundred settings with a `GetConfigValue` each, and each takes `gConfigMutex` and
gives it back: when the other thread loads the file in between, `FillRest` makes the table
the old settings, the new ones, or a mixture (the constant `Mixed`). In the model the table
is torn from `WriteTable` on until `TableWritten`.

`SettingsStore` is instantiated with `saved <- Saved`: what a restart would find,
which is the copy as soon as the old file is removed. A power-off in that window
loses the file, and with it every section: minIni leaves `config.ini~` behind, and
nothing in the code looks for it. The abstract store admits exactly that.

Abstractions: all KIP settings but `gpuSpeedo` are one value, all others another one (with
one member that `hocclkValidConfigValue` refuses); `gpuSpeedo` is unset, a release's or the
fuses'; `custRev`, which is written to the table (`kip.cpp:53`) and never read back, is left
out; the checksum tells any two tables apart; the section of one title stands for the
profiles; a list read with one `GetConfigValues` is one step, and so is what `GetKipData`
reads at boot, when no other thread runs; its two fresh loads are one; the notification of an update is given when it is decided,
not after `SetKipData`. Edits by hand come neither during a save nor during the
boot, which lasts a moment.

### DisplayRate and Vrr

| Variable | Code |
|---|---|
| `console`, `dock`, `panel`, `tv` | the console's type and `retro.flag`; the hardware: the television, and what both displays show |
| `isDocked`, `canChange`, `highest`, `lines` | `g_config.isDocked`, `g_canChangeRefreshRateDocked`, `g_dockedHighestRefreshRate`, `g_lastVActive` |
| `unseen`, `swapped` | ghosts: taken out of the dock and not read as handheld by `GetRate` since (on any console, also RETRO SUPER); put into another dock meanwhile |
| `wish`, `dirty` | the configuration that matters here; the file is newer than memory |
| `focus`, `fresh`, `cached`, `missed` | the application; an event was logged; `isOutOfFocus`; ghost: the look at the event failed |
| `lock`, `mpc`, `vpc` | `gContextMutex`, main thread, VRR thread |
| `profile`, `ovr`, `freq`, `changed` | `gContext`, and `hasChanged` |
| `enabled`, `last` | `isVRREnabled`, `lastVrrGovernorState` |
| `tick`, `tick2`, `top` | the locals of the VRR thread |
| `late` | ghost: passes begun although the thread was not wanted |

The tick is `TickBegin` – `TickContext` – `TickRate` (`GetHz`, and so `GetRate`, which also
learns whether the console is docked) – `TickReal` (`GetRealHz`, once more, and
`SetDisplayRefreshDockedState`) – `TickGovernor` [– `TickStop`] – `TickLook` (`SetClocks`
reads the old rate, and `GetRate` learns again) – `TickDisplay` – `TickEnd`; a pass of the thread is `VrrCheck` (without the mutex) – `VrrLock` [–
`VrrFocus` or `FocusFails`] – `VrrAdjust`, `VrrNoFps` or `VrrSleeps` [– `VrrTop`] –
`VrrRelease`.

What is assumed of the hardware: the dpaux read of the external display succeeds
exactly when docked; PLLD reads 0 or 80 when docked, as the code takes it to; the
console sets a display up at 60 Hz when it is docked or undocked; a mode that the
code computes validates. Other causes of `hasChanged` (titles, clocks) are a free
choice, so is boost mode, in which `SetClocks` returns. `realFreqs`, which only the
overlay shows, is left out.

### IpcServer

| Variable | Code |
|---|---|
| `handles` | `IpcServer.handles` from index 1 on, and with its length `count`; index 0 is the port |
| `handleIndex`, `request` | the index `ipcServerProcess` was given by its wait, the `IpcServerRequest` on the stack |
| `running` | `clockManager`'s `gRunning`, which the main loop reads |
| `main`, `ipc` | where the two threads are |
| `client`, `port`, `message` | the kernel's: who holds the other end of a session, who waits at the port, what each waits for |
| `cancelled` | the kernel's: `svcCancelSynchronization` was called and no wait has returned it |
| `asked` | counts what clients do, up to `MaxAsk` |

A turn of the IPC thread is `WaitSynchronization` – `ProcessNewSession` for the port,
and for a session `Receive` (or `ReceiveFails`) – `Handle` – `Reply` (or
`ReplyCloses`); the cut is where a client may close its end, or main may go on, and
the thread notices. A command is one step: what it does to overrides, profiles and
settings is in the modules of those. Main is `Initialize` (the port is registered:
clients may come) – `SetRunning` – `StartThread` – the loop – `LoopEnds` –
`CancelSynchronization` – `WaitForExit` – `ServerExit`; what it closes after that is
not in the model.

What is assumed of the kernel, as the code relies on it: a wait returns the lowest
index that is signalled, and looks at the handles before it looks at a cancellation,
which stays until a wait finds nothing signalled; a reply with a timeout of zero never
takes it; a port has as many live sessions as it was registered for, and a session
lives until both its ends are closed. Handlers are assumed to return: they do, unless
the VRR thread holds `gContextMutex` for ever (see below).

## Runs

| Run | Configuration | Shows | Size |
|---|---|---|---|
| `freq_search` | 4 tables, 31 requests around entries and midpoints, 6 caps | the searches are right and equal to their closed forms | 6,906 states |
| `governors` | Erista, handheld/docked, both governors, overrides that disable them, loads 0, 50 and 90 % | `SettleAtStock`, `CapRespected`, `GovernorWithinTarget` at every interleaving | 963,360 states |
| `converge` | Mariko, hijack, -45 mV, two APM configurations, a GPU cap below both the stock clock in the dock and the highest entry, a title with and without a profile, an override to a lower overclock, under fairness | `TypeOK`, `FloorCoversMem` between any two steps of a change; `SettleAtStock` and `CapRespected` with the GPU's moments at PCV's highest rate; `ClocksConverge`, `EditsLoaded` | 183,000 states |
| `governor_stop` | one governed title, a client that disables | **violated**: a disabled governor sets its clock once more | |
| `throttle` | one overclocked title | **violated**: from a settled context (title, profile and clocks as remembered, no edit) the throttle is undone by the tick that applied it | |
| `boost_end` | one title, boost mode | **violated**: clocks are not applied after boost ends in the settle sleep | |
| `floor_wrap` | RAM target 1600 MHz, -45 mV | **violated**: the floor wraps to 2^w - 45 | |
| `kip_settings` | two releases of the KIP, two settings, two power-offs, one failure, one edit or change of context, one save by the overlay, three seconds | `TypeOK`, `KipAgreesAfterBoot`, `TornNeverAdopted`, `MixedOnlyByHand`, `StaleOnlyWithinSecond`, `UpdateKeepsSettings`, and that the store implements `SettingsStore` (`StoreRefined`) | 1,328,859 states |
| `kip_update` | one release, one restart, two saves, no failure | **violated** (`UpdateIsNews`): the next boot announces an update nobody installed | |
| `vrr` | an OLED, a Lite and a RETRO SUPER console, two televisions, three wishes, frame rates 25 and 100, two events | `TypeOK` (with mutual exclusion), `PanelInRange`, `TvWithinHighest`, `OnePassTooLate`, `FocusKnown`, `PassFits`, `TicksForEver` | 1,507,462 states |
| `vrr_cap` | one console whose profile allows 55 Hz, no events | **violated** (`CapKept`): the thread drives the panel to 80 Hz | |
| `ipc_server` | four sessions for a port that admits three, five connections and requests of every kind, clients that die at any step, an Exit at any time | `TypeOK`, `TableIsExact`, `RoomForAll`, `AnswerGoesToAsker`, `NobodyCutOff`, `EveryoneAnswered`, `ExitEnds` | 334,649 states |

The six violations are findings in `PROJECT.json`, each with the line that says
otherwise. In the KIP runs the console may be off with every bound used up, and in the
VRR runs the thread may sleep for ever and events are bounded: deadlock is not
checked there either. In `governors`, `converge` and `ipc_server` the program really
may stop (Exit), so deadlock is not checked.

Two disagreements have no run of their own. `DVFSAfterSet` (`clock_manager.cpp:256`) looks
up the GPU's clock with the *RAM's* target, so that lowering the RAM sets the GPU to its
highest allowed clock, even where the profile has none for it. The next tick puts that
right as a rule, for the GPU's clock is then not the remembered one. But if the same
edit or change of title removed the GPU's clock and lowered the RAM's, the remembered
clock is that same highest one, no tick finds a change, and the GPU is not reset to
stock. With sections such as "GPU 614, RAM 2400" and "RAM 1600" TLC finds
`ClocksConverge` violated in this way; the sections of `converge` change both together.

The other one is in `GetRate` (`display_refresh_rate.cpp:715-718`): where it sees the
built-in panel it resets `g_canChangeRefreshRateDocked`, so that the modes of the next
television are read, but it does so for consoles that are not RETRO SUPER. On those the
limit of the first television stands for every later one of the same resolution, at
whatever pace they are changed: without the conjunct `~console.retro` TLC finds
`TvWithinHighest` violated, with a television of 60 Hz driven beyond it after one that
allows more. The property leaves these consoles out and is claimed for the others.

What the properties except, the code really does. Between `SetHz(~0)` and the next call the
GPU is above the cap and away from stock (`CapRespected` and `SettleAtStock` say so by the
value of `pc`); a table that was adopted may hold another `gpuSpeedo` than `config.ini`,
which has the fuses' (`KipAgreesAfterBoot`); an edit by hand while `SetKipData` reads does
mix two configurations in the table (`MixedOnlyByHand`); `PassFits` admits the panel's
maximum where the truncated ceiling is beyond it (the flaw of `vrr_cap`), and leaves out
RETRO SUPER consoles, whose table of timings is indexed wrongly (540).

Bounds, by name: `MCApps` (no title, the menu, one game: one change of title and
the initial one), `World` (one or two pairs of title and profile: one switch each
way), tables of two to four assignable entries (below, at and above each cap; at and above
the RAM clock that needs a floor), `Load` (idle, between two entries, full),
`Word` = 2^16 in place of 2^32 (any modulus above 1000 behaves the same, and the
theorems hold for all), and sets of sections and overrides of one to three
members. The Erista table has an entry below the CPU governor's minimum (612 MHz below
1020), so that the minimum is applied. `KipSettings` counts what the environment may do: `MaxOff` = 2 (a crash, and
one in the boot after it), `MaxFail` = 1, `MaxEvent` = 1, `MaxSave` = 1, and
`MaxTime` = 3 seconds (before, at and after a save); `Mixed` is one value for all mixtures
of two configurations, as `Torn` is for all tables cut short. `Vrr` has `MaxEvent` = 2 (into a
dock and out, or out and into another) and its counters scaled: `FocusAfter` = 0 and
`TickWidth` = 2 for 100 and 256 (looks on every second pass, and the wrap),
`TopAfter` = 1 for 50; frame rates 25 (a multiple fits) and 100 (too fast for a panel).
`IpcServer` has `MaxSessions` = 3
of four sessions (the first, one in the middle and the last of the table, and one too many)
and `MaxAsk` = 5. That bound also matters to liveness: a wait prefers the lowest index, so
clients that never stop asking could starve those behind them and put off a cancellation;
`EveryoneAnswered` and `ExitEnds` say what happens when they stop for a while.
The theorems hold for the code's own numbers. Elsewhere nothing counts up, so no state constraint is needed: the state spaces
are complete. The large runs differ in what they hold fixed:
governors multiply the interleavings, the RAM path and liveness multiply the
states.

Every property has a mutant in `PROJECT.json`, a plausible mistake in the code
(the mutex released for the sleep, the cap left out, the search one entry off,
the floor raised in the wrong order, the mtime taken without a read), that TLC
finds violating it.

### Fairness

`FairSpec` assumes weak fairness of every step of the main thread inside a tick
and of a governor's release (both are sleeps and service calls that return), and
strong fairness of `TickBegin`. The last is what the scheduling provides: governor
threads are created with the lowest priority (`governor.cpp:339-361`, 0x3F), the
main thread has priority 16 (`hoc-clk/sysmodule/perms.json:7`), and the kernel
gives a released mutex to its waiter of highest priority; so governors that take
the mutex right back cannot keep the main thread out. Governors and the
environment owe nothing: `ClocksConverge` and `EditsLoaded` start from `calm`,
which the environment may never reach. `EditsLoaded` is checked without governors:
with a CPU governor that changes the clock in every tick, `RefreshContext() ||
config::Refresh()` never gets to the refresh, as `freqs["Governor"]` mirrors the
CPU's clock.

`Vrr` assumes the same: weak fairness of the tick and of each pass once it holds the
mutex, strong fairness of `TickBegin`. `TicksForEver` is stated for consoles with
SaltyNX: without it the thread, once enabled, keeps the mutex for ever (line 281), and
no tick begins again. `IpcServer` assumes weak fairness of each of its two threads:
they are either in a service call that returns or in a wait that something has ended. The
clients owe nothing, not even to wait for their answer. The KIP model states no fairness: it has no liveness property.

## Proofs

For all values of the constants that satisfy the assumptions below:

| Theorem | States | Argument |
|---|---|---|
| `Closest`, `WithinCap`, `ClosedForms`, `IndicesInTable` (`FreqSearch_proofs`) | the loops return the closest entry, the closest up to a cap, and what `FreqTable` says | the loop invariants: every index passed was no place to stop (`NearInv`, `LeastInv`); at the stop, all entries below are further by the midpoints and all above by the order of the table |
| `NearestWithinCap`, `AtLeastWithinLimit` (`FreqTable_proofs`) | the two searches keep within a cap | the first stop is not after the cap's own position |
| `TypeCorrect` (`ClockManager_proofs`) | `[]TypeOK` | inductive as it stands; the floor is in a word by the modulus and the guard |
| `MutualExclusion` | `[]LockInv`: who is where holds the mutex | inductive with `TypeOK` |
| `SettlesAtStock` | `[]SettleAtStock`: at stock while the clocks settle, `RestoreGpu` still to come excepted | not inductive: needs that `changed` is not set before `RefreshTitle` and that `RestoreGpu` finds all but the GPU at stock (`SettleInv`), and `LockInv`, by which no governor runs while the main thread is in its tick |
| `CapsHold` | `[]CapRespected`: within the cap or at stock, but for the GPU between `SetHz(~0)` and the call after it | inductive with `TypeOK`: each writer of `hw` writes stock or goes through a search with the cap of `ctx`, and `ctx` changes only together with a reset to stock |
| `FloorHolds` (`GpuFloor_proofs`) | `~PcvDebugFails`: `[]FloorCoversMem` | not inductive: `FloorInv` says what the floor covers between the steps of a change (in front of the clock already the target, in front of a lower floor no more than the target, in front of a clear nothing); by monotonicity of `GetMinimumGpuVmin` (`VminMonotone`) |
| `GovernorKeepsTarget` (`ClockManager_proofs`) | under `OfferedTargets`: `GovernorWithinTarget` | an action property of `TypeOK` alone: a governor asks for at most the target (`GovernorHzWithin`), the target is one a client or `config.ini` may ask for (`TargetIsAsked`), and the search upwards from there stops no later than the search for the nearest (`AtLeastWithinNearest`) |
| `RoundTrip` (`FreqSearch_proofs`) | `[]MegahertzRoundTrip` | rounding down to megahertz moves an entry by less than 1 MHz (`RoundedDown`), and half the distance to the entry below is more than that |
| `StaleOnlyWithinSecondHolds` (`ConfigStore_proofs`) | `[]StaleOnlyWithinSecond` | not inductive: `StoreInv` adds that the copy in progress differs from the file in one section (`Copying`), that times grow from the one read over the ones replaced to the clock (`Times`), and the property's form while a copy is written (`StaleAgain`) |
| `StoreImplementsPromise` | `StoreRefined`: `ConfigStore` implements `SettingsStore` | step by step from `StoreInv`: the removal of the old file is the abstract save of its section, an immediate rename publishes it, a crash is `Off` |
| `KipTypeCorrect`, `BootAgrees`, `TornStaysOut`, `UpdateKeepsThem` (`KipSettings_proofs`) | `[]TypeOK`, the invariants of `kip_settings`, and its action property | none is inductive. `KInv` adds who runs which part of the protocol (`Control`), what each step of the boot relies on (`Booting`: memory is what the file says, the table being filled or written is what memory says, for nothing reloads it (`Like`), the save carries the table's settings and checksum and the `gpuSpeedo` that `KipAgreesAfterBoot` names (`Agrees`)), and, while nothing but a crash went wrong (`Clean`), that neither the file, memory, a save nor the overlay's list holds a torn table or its checksum (`AllWhole`), nor takes the next boot for a first one while the table is torn (`TornKnown`) |
| `KipUsesStore`, `KipKeepsPromise`, `KipStaleWithinSecond` | `KipSettings` implements `ConfigStore`, and with it `StoreRefined` and `[]StaleOnlyWithinSecond` | step by step: each step of `kip.cpp` and of the overlay is one of the store, or leaves it alone |
| `VrrTypeCorrect`, `PanelStaysInRange`, `TvStaysWithinHighest`, `StopsAfterOnePass`, `FocusIsKnown` (`Vrr_proofs`) | `[]TypeOK` and the invariants of `vrr` (`TvWithinHighest` for consoles other than RETRO SUPER) | `VrrInv`: what the driver has learnt of a television fits the one it is in (`Learnt`), mutual exclusion (`Control`), and a pass too late leaves the thread outside the window between check and mutex until it is wanted again (`Late`) |
| `PassesFit` | `[][...]` of `PassFits`, for consoles other than RETRO SUPER and with the panel's maximum admitted where the ceiling is beyond it | from `VrrInv`: the thread's choice is a multiple within the display's limits (`RatesFit`), and the driver shows every rate of the panel as it is asked for (`PanelShows`) |
| `TableStaysExact`, `RoomForEveryone`, `AnswersGoHome`, `OnlyItsOwnRequestCutsOff`, `IpcTypeCorrect` (`IpcServer_proofs`) | the invariants of `ipc_server` and `[][...]` of `NobodyCutOff` | `IpcInv`: the shift of `_ipcServerDeleteSession` takes out one element of a sequence without repetitions (`Deleted`); the kernel's count of sessions is at least the table's and one more at an accept (`Admitted`, `DistinctCount`); only the IPC thread touches the table until main has seen it end (`Phases`); who waits is in the table or at the port (`Waiting`) with the request the server has (`Asked`) |

Assumptions of the newer modules: `StoreAssumption` (the defaults are members of their
sets, the clock has at least two seconds), `KipAssumption` (bounds, and what the user may
choose: the option `hocclkValidConfigValue` refuses is one that a file may hold),
`DisplayAssumption` and `VrrAssumption` (types of the constants; televisions have modes
of 40 to 240 Hz and 720 or 1080 lines), `IpcAssumption` (a finite set of sessions, a port
that admits at least one, as `ipcServerInit` demands).

Assumptions of the others: `ClockAssumption` (types of the constants; tables ascending and not
empty, as PCV lists them; titles and profiles as `GetProfile` returns them),
`CapAssumption` (a cap is an entry of the table or above all, and the CPU
governor's minimum is within it: the caps of `GetMaxAllowedHz` are rates PCV has,
and the overlay offers 510 to 1020 MHz), `FloorAssumption` (stock RAM clocks are at
most 1600 MHz, as in `apm_profile_table.c`; the entry nearest to a target needs no
more voltage than the target, true of every clock a client offers and false of
some written by hand, such as 2350 MHz). TLC evaluates each of them in the runs of its
module.

`SpacingAssumption` (entries of a table 2 MHz apart; the closest of PCV's are far wider
apart) is what `RoundTrip` rests on. The hypothesis of `GovernorKeepsTarget`,
`OfferedTargets`, says that no target lies just above an entry, where the nearest is below
and the search upwards finds the next: true of all the overlay offers, entries rounded down
to megahertz, and of the instance of `governors` (TLC checks it there), false of some clocks
written by hand. There a governor does set more than `SetClocks` would. It is a hypothesis
of that theorem and not an assumption of the module, for the other properties hold without.

TLC checked the parts of `KInv` in all states of the instance of `kip_settings` before it was
proved.

Only model-checked: the liveness properties (`ClocksConverge`, `EditsLoaded`,
`TicksForEver`, `EveryoneAnswered`, `ExitEnds`), which are out of the proof system's reach.
So is `MixedOnlyByHand`. Every other property of a passing run is a theorem. The pure functions are closed forms, not
recursive; nothing is proved by induction over data.

## Plan

1. *Done*: `FreqTable`, `FreqSearch`, `ClockManager`, and their proofs.
2. *Done*: `SettingsStore`, `ConfigStore`, `KipSettings`: the store under crashes and two
   writers, the abstract store and the refinement, the checksum protocol.
3. *Done*: `DisplayRate`, `Vrr`: the third governor, the driver, the focus cache.
4. *Done*: `IpcServer`: the sessions, the start and the end of the service, and its proofs.
   *Left* of the life cycle: `main` closes the governor threads while they run
   (`governor.cpp:376`), and the board's services after that.
5. *Left*: `GovernorRamp`: the exact round of a governor, with hold and minimum; the
   choice in `GovernorRun` as its abstraction.
6. *Done*: theorems on every safety property of the passing runs but `MixedOnlyByHand`.
   *Left*: a proof of that one, which needs that memory is the file while no edit has been
   made; and one that `GovernorRamp` implements the choice in `GovernorRun`, once that module
   is there.

## Not modelled

* The Monitor and the drawing of the overlay: they display, and change nothing.
* Memory tools: ports of third-party programs, without a part in the system.
* The loader's and exosphere's patches: they run once, at boot, on one thread, over images
  and registers of the firmware; their tables of timings are data.
* Register arithmetic (PLL dividers, thermal sensors, OLED gamma, display timings) beyond
  the rates it produces.
* `custRev` and what each KIP setting means: the loader's business.
* The line parser of minIni, marshalling of the IPC, logs and CSV files.

---------------------------- MODULE ClockManager ----------------------------
(***************************************************************************)
(* The core of the sysmodule: the tick loop of the main thread             *)
(* (clock_manager.cpp), the CPU and GPU governor threads (governor.cpp)    *)
(* and the requests of the IPC thread that reach them, around the one      *)
(* mutex they share (gContextMutex) and the clocks of the console.         *)
(*                                                                         *)
(* The environment is the console: PCV and APM set the clocks themselves   *)
(* when the performance configuration changes, an application starts, the  *)
(* dock or charger is plugged.  It does so until it is `calm`; whether it  *)
(* ever is is its own choice.                                              *)
(***************************************************************************)
EXTENDS FreqTable

CONSTANTS
  Apps, Global, NoTitle, \* title ids; GLOBAL_PROFILE_ID; the title id 0
  World,                 \* the <<title, profile>> pairs that occur
  Section, Content,      \* sections of config.ini, and what each one holds
  Sections,              \* Sections[a]: the sections title a may have
  Override,              \* Override[m]: what a client may ask for m
  Table,                 \* gFreqTable
  ApmConf, Boost, Stock, \* apm configurations, those of boost mode, their clocks
  Load,                  \* the loads a governor may measure, of 1000
  Soc, GpuUv, Bracket,   \* kind of console
  OverwriteBoostMode, Hijack, DvfsOffset, MinHz, \* configuration values
  PcvDebugFails,         \* can attaching to the PCV process fail?
  Word                   \* 2^32, the modulus of a u32

Title == Apps \cup {Global}
Module == Clocks \cup {"Governor"}
GovernorState == {"DoNotOverride", "Disabled", "Enabled"}
GovernorPack == [Governable -> GovernorState]
\* GovernorStatePack of nothing is the number 0: no entry at all.
NoPack == [m \in Governable |-> "DoNotOverride"]
None(m) == IF m = "Governor" THEN NoPack ELSE 0
Setting(m) == IF m = "Governor" THEN GovernorPack ELSE Nat

\* The cap of a clock; UncappedClocks is off.
MaxHz(m, profile) == GetMaxAllowedHz(Soc, FALSE, GpuUv, m, profile)
\* What a client or config.ini may ask for it, in whole megahertz.
ClockTarget(m) ==
  LET mine == UNION {Sections[a] : a \in Title}
  IN  (Override[m] \cup {MHz * Content[s][p][m] : s \in mine, p \in Profile}) \ {0}
MemVmin(hz) == GetMinimumGpuVmin(hz \div MHz, Bracket)
Free == "free"

ASSUME ClockAssumption ==
  /\ NoTitle \in Apps
  /\ World \subseteq (Apps \ {NoTitle}) \X (Profile \ {"HandheldCharging"}) \* as GetProfile
  /\ \A a \in Title : Sections[a] \subseteq Section
  /\ \A s \in Section, p \in Profile, m \in Module : Content[s][p][m] \in Setting(m)
  /\ \A m \in Module : Override[m] \subseteq Setting(m) /\ None(m) \in Override[m]
  /\ \A m \in Clocks : IsFreqTable(Table[m])
  /\ Boost \subseteq ApmConf
  /\ Stock \in [ApmConf -> [Clocks -> Nat \ {0}]]
  /\ Load \subseteq 0 .. 1000
  /\ Soc \in SocType /\ GpuUv \in 0 .. 2 /\ Bracket \in 0 .. 3
  /\ OverwriteBoostMode \in BOOLEAN /\ Hijack \in BOOLEAN /\ PcvDebugFails \in BOOLEAN
  /\ MinHz \in Nat
  /\ DvfsOffset \in -80 .. 20
  /\ Word \in Nat /\ Word > 1000

\* The caps are rates PCV has, and the governor's minimum is within them.
ASSUME CapAssumption ==
  \A p \in Profile :
    /\ \A m \in Governable :
         \/ MaxHz(m, p) \in Entries(Table[m]) \cup {0}
         \/ \A f \in Entries(Table[m]) : f <= MaxHz(m, p)
    /\ MaxHz("CPU", p) = 0 \/ MinHz <= MaxHz("CPU", p)

\* Stock RAM clocks need no raised GPU voltage, and neither does the entry that
\* is nearest to a RAM target need more than the target: so it is for targets
\* that are entries, rounded down to whole megahertz or not.
ASSUME FloorAssumption ==
  /\ \A conf \in ApmConf : MemVmin(Stock[conf]["MEM"]) = 0
  /\ \A hz \in ClockTarget("MEM"), p \in Profile :
       MemVmin(GetNearestHz(Table["MEM"], hz, MaxHz("MEM", p))) <= MemVmin(hz)

VARIABLES
  \* the console
  hw,          \* the clocks PCV runs, by module
  apm,         \* the performance configuration in force
  world,       \* the running application and the power profile
  calm,        \* nothing changes from outside any more
  ramVmin,     \* voltData.ramVmin: the GPU voltage floor written into PCV
  \* config.cpp
  file, dirty, \* config.ini, a section for each title; is its mtime another than gMtime?
  cfg,         \* gProfileMHzMap
  override,    \* gOverrideFreqs
  \* shared under gContextMutex
  lock,        \* the thread that holds gContextMutex, or Free
  ctx,         \* gContext.applicationId, gContext.profile
  freqs, ovr,  \* gContext.freqs, gContext.overrideFreqs
  \* flags that are read without the mutex
  running,     \* gRunning
  enabled,     \* isCpuGovernorEnabled, isGpuGovernorEnabled
  last,        \* lastCpuGovernorState, lastGpuGovernorState
  \* threads
  pc,          \* the main thread
  isBoost, changed, tripped, \* its locals in a tick: isBoost, hasChanged, safety reset taken
  targetHz, oldHz, \* its locals in the iteration of SetClocks for the RAM
  gpc          \* the governor threads, by module

env == <<apm, world, calm>>
store == <<file, dirty, cfg, override>>
shared == <<ctx, ovr>>
flags == <<running, enabled, last>>
iteration == <<targetHz, oldHz>>
locals == <<isBoost, changed, tripped, iteration>>
vars == <<hw, env, ramVmin, store, lock, shared, freqs, flags, pc, locals, gpc>>

ContextPc == {"context", "floor", "restore", "settle", "sync", "config"}
SetClocksPc == {"CPU", "GPU", "MEM", "raise", "set", "lower", "reset", "again", "Governor", "stop"}
HoldingPc == {"safety", "unlock"} \cup ContextPc \cup SetClocksPc

ConfigFile == {f \in [Title -> Section] : \A a \in Title : f[a] \in Sections[a]}

TypeOK ==
  /\ hw \in [Clocks -> Nat]
  /\ apm \in ApmConf
  /\ world \in World
  /\ calm \in BOOLEAN
  /\ ramVmin \in 0 .. Word - 1
  /\ file \in ConfigFile /\ cfg \in ConfigFile
  /\ dirty \in BOOLEAN
  /\ DOMAIN override = Module /\ DOMAIN ovr = Module
  /\ \A m \in Module : override[m] \in Override[m] /\ ovr[m] \in Override[m]
  /\ lock \in {Free, "main"} \cup Governable
  /\ ctx \in Apps \X Profile
  /\ freqs \in [Module -> Nat]
  /\ running \in BOOLEAN
  /\ enabled \in [Governable -> BOOLEAN]
  /\ last \in [Governable -> BOOLEAN]
  /\ pc \in {"loop", "exited"} \cup HoldingPc
  /\ isBoost \in BOOLEAN /\ changed \in BOOLEAN /\ tripped \in BOOLEAN
  /\ targetHz \in Nat /\ oldHz \in Nat
  /\ gpc \in [Governable -> {"check", "want", "hold"}]

\* The main thread enters its loop; the context is as Initialize left it.
\* GetKipData has loaded config.ini, and may have written it since.
Init ==
  /\ apm \in ApmConf /\ world \in World
  /\ hw = Stock[apm]
  /\ calm = FALSE
  /\ ramVmin = 0
  /\ file \in ConfigFile /\ cfg = file /\ dirty \in BOOLEAN
  /\ override = [m \in Module |-> None(m)]
  /\ lock = Free
  /\ ctx = <<NoTitle, "Handheld">>
  /\ freqs = [m \in Module |-> 0]
  /\ ovr = [m \in Module |-> None(m)]
  /\ running = TRUE
  /\ enabled = [m \in Governable |-> FALSE]
  /\ last = [m \in Governable |-> FALSE]
  /\ pc = "loop"
  /\ isBoost = FALSE /\ changed = FALSE /\ tripped = FALSE
  /\ targetHz = 0 /\ oldHz = 0
  /\ gpc = [m \in Governable |-> "check"]

-----------------------------------------------------------------------------
(* What the configuration asks for. *)

\* GetAutoClockHz's lists: a profile without an entry falls back to the next.
FallbackProfiles(profile) ==
  CASE profile = "Handheld" -> <<"Handheld">>
    [] profile \in {"HandheldCharging", "HandheldChargingUSB"} ->
         <<"HandheldChargingUSB", "HandheldCharging", "Handheld">>
    [] profile = "HandheldChargingOfficial" ->
         <<"HandheldChargingOfficial", "HandheldCharging", "Handheld">>
    [] profile = "Docked" -> <<"Docked">>

\* The file keeps whole megahertz; a governor pack is returned raw.
GetAutoClockHz(app, m, profile) ==
  LET chain == FallbackProfiles(profile)
      found == {i \in DOMAIN chain : Content[cfg[app]][chain[i]][m] # None(m)}
      entry == Content[cfg[app]][chain[Min(found)]][m]
  IN  IF found = {} THEN None(m) ELSE IF m = "Governor" THEN entry ELSE MHz * entry

\* Temporary override, else the application's profile, else the global profile.
Target(m) ==
  LET app == GetAutoClockHz(ctx[1], m, ctx[2])
  IN  IF ovr[m] # None(m) THEN ovr[m]
      ELSE IF app # None(m) THEN app ELSE GetAutoClockHz(Global, m, ctx[2])

Wanted(m) == GetNearestHz(Table[m], Target(m), MaxHz(m, ctx[2]))

\* Where ResetToStockModule and GetNearestHz leave a clock without a governor.
Goal(m) == IF Target(m) = 0 THEN Stock[apm][m] ELSE Wanted(m)

-----------------------------------------------------------------------------
(* Writes to the console. *)

\* PcvHijackGpuVolts: the table in PCV is rewritten, or PCV cannot be attached
\* to and everything stays as it is.
PcvHijackGpuVolts(vmin) ==
  \/ ramVmin' = vmin
  \/ PcvDebugFails /\ UNCHANGED ramVmin

\* The u32 sum of DVFSBeforeSet.
FloorBefore(hz) == (MemVmin(hz) + DvfsOffset) % Word

\* The guarded sum of DVFSAfterSet; an offset of -80 is the lowest there is.
FloorAfter(hz) == IF MemVmin(hz) = 0 THEN 0 ELSE MemVmin(hz) + DvfsOffset

\* What PCV makes of SetHz(module, ~0): its highest rate.
PcvMaxHz(m) == Table[m][Len(Table[m])]

\* A mutant: the cap of the profile is left out.
GpuAgainUncapped ==
  IF targetHz = 0 THEN Stock[apm]["GPU"] ELSE GetNearestHz(Table["GPU"], targetHz, 0)

\* Where both DVFS resets leave the GPU: stock, or what is nearest to the target.
GpuAgain ==
  IF targetHz = 0 THEN Stock[apm]["GPU"]
  ELSE GetNearestHz(Table["GPU"], targetHz, MaxHz("GPU", ctx[2]))

-----------------------------------------------------------------------------
(* The main thread: Tick, under gContextMutex from TickBegin to TickEnd. *)

TickBegin ==
  /\ pc = "loop" /\ running
  /\ lock = Free
  /\ lock' = "main"
  /\ isBoost' = (apm \in Boost)
  /\ pc' = "safety"
  /\ UNCHANGED <<hw, env, ramVmin, store, shared, freqs, flags, changed, tripped, iteration, gpc>>

LoopExit ==
  /\ pc = "loop" /\ ~running
  /\ pc' = "exited"
  /\ UNCHANGED <<hw, env, ramVmin, store, lock, shared, freqs, flags, locals, gpc>>

\* A mutant: the pseudo-module Governor is left out of the copy.
ObservedClocks == hw

\* The clocks as GetHz reads them.  The pseudo-module Governor has the PCV id 0,
\* which is the CPU's.
Observed == [m \in Module |-> hw[IF m = "Governor" THEN "CPU" ELSE m]]

\* A mutant: only the overrides are compared.
ContextChangedOverrides == override # ovr

\* Any difference to what was copied makes SetClocks run.
ContextChanged == Observed # freqs \/ override # ovr

\* Over the power or the temperature limit, the CPU and the GPU go back to stock.
\* `tripped` records that they did while the console, the overrides and the file
\* were as the process last saw them: nothing but the reset is new to it.
HandleSafetyFeatures ==
  /\ pc = "safety"
  /\ \/ /\ hw' = [m \in Clocks |-> IF m \in Governable THEN Stock[apm][m] ELSE hw[m]]
        /\ tripped' = (world = ctx /\ ~ContextChanged /\ ~dirty)
        /\ ~calm
     \/ UNCHANGED <<hw, tripped>>
  /\ pc' = "context"
  /\ UNCHANGED <<env, ramVmin, store, lock, shared, freqs, flags, isBoost, changed, iteration, gpc>>

\* RefreshContext, first part: a new title or profile resets every clock and
\* sleeps a polling interval, with the mutex held.
RefreshTitle ==
  /\ pc = "context"
  /\ IF world # ctx
     THEN /\ ctx' = world
          /\ hw' = Stock[apm]
          /\ changed' = TRUE
          /\ pc' = IF Hijack THEN "floor" ELSE "settle"
     ELSE /\ pc' = "sync"
          /\ UNCHANGED <<ctx, hw, changed>>
  /\ UNCHANGED <<env, ramVmin, store, lock, ovr, freqs, flags, isBoost, tripped, iteration, gpc>>

\* ... with the RAM at stock, the voltage floor of the GPU goes.  For PCV to use
\* its new table the GPU is driven to its highest rate ...
ClearFloor ==
  /\ pc = "floor"
  /\ PcvHijackGpuVolts(0)
  /\ hw' = [hw EXCEPT !["GPU"] = PcvMaxHz("GPU")]
  /\ pc' = "restore"
  /\ UNCHANGED <<env, store, lock, shared, freqs, flags, locals, gpc>>

\* A mutant: it is not brought back.
RestoreGpuForgotten ==
  /\ pc = "restore"
  /\ pc' = "settle"
  /\ UNCHANGED <<hw, env, ramVmin, store, lock, shared, freqs, flags, locals, gpc>>

\* ... and back to stock.
RestoreGpu ==
  /\ pc = "restore"
  /\ hw' = [hw EXCEPT !["GPU"] = Stock[apm]["GPU"]]
  /\ pc' = "settle"
  /\ UNCHANGED <<env, ramVmin, store, lock, shared, freqs, flags, locals, gpc>>

\* A mutant: the mutex is released for the sleep.
SettleUnlocked ==
  /\ pc = "settle"
  /\ lock' = Free
  /\ pc' = "sync"
  /\ UNCHANGED <<hw, env, ramVmin, store, shared, freqs, flags, locals, gpc>>

Settle ==
  /\ pc = "settle"
  /\ pc' = "sync"
  /\ UNCHANGED <<hw, env, ramVmin, store, lock, shared, freqs, flags, locals, gpc>>

\* SetClocks gives up at once in boost mode, unless told to overwrite it.
SetClocksPcOf(boost) == IF boost /\ ~OverwriteBoostMode THEN "unlock" ELSE "CPU"

\* RefreshContext, second part: the clocks and the overrides are copied.
RefreshFreqs ==
  /\ pc = "sync"
  /\ freqs' = Observed
  /\ ovr' = override
  /\ changed' = (changed \/ ContextChanged)
  /\ pc' = IF changed' THEN SetClocksPcOf(isBoost) ELSE "config"
  /\ UNCHANGED <<hw, env, ramVmin, store, lock, ctx, flags, isBoost, tripped, iteration, gpc>>

\* A mutant: the new mtime is taken, the file is not read.
LoadMtime == dirty' = FALSE /\ UNCHANGED cfg

LoadConfig == cfg' = file /\ dirty' = FALSE

\* config::Refresh, reached only when the context did not change.
RefreshConfig ==
  /\ pc = "config"
  /\ IF dirty
     THEN LoadConfig /\ pc' = SetClocksPcOf(isBoost)
     ELSE pc' = "unlock" /\ UNCHANGED <<cfg, dirty>>
  /\ UNCHANGED <<hw, env, ramVmin, file, override, lock, shared, freqs, flags, locals, gpc>>

GovernedNow(m) == m \in Governable /\ enabled[m]

\* SetClocks for the CPU and the GPU: skip, set the target or reset.
SetClock(m) ==
  /\ pc = m /\ m \in Governable
  /\ IF GovernedNow(m) THEN UNCHANGED <<hw, freqs>>
     ELSE IF Target(m) = 0
     THEN /\ hw' = IF m = "CPU" /\ isBoost THEN hw ELSE [hw EXCEPT ![m] = Stock[apm][m]]
          /\ UNCHANGED freqs
     ELSE IF Wanted(m) # freqs[m]
     THEN /\ hw' = [hw EXCEPT ![m] = Wanted(m)]
          /\ freqs' = [freqs EXCEPT ![m] = Wanted(m)]
     ELSE UNCHANGED <<hw, freqs>>
  /\ pc' = IF m = "CPU" THEN "GPU" ELSE "MEM"
  /\ UNCHANGED <<env, ramVmin, store, lock, shared, flags, locals, gpc>>

\* A mutant: the floor is set before the clock on the way down too, and with
\* it comes down before the clock does.
RaisesAlways(target, old) == Hijack /\ target # old

Raises(target, old) == Hijack /\ target > old

\* SetClocks for the RAM.  The target and the old clock are read once; without
\* a target the RAM is reset.
SetMem ==
  /\ pc = "MEM"
  /\ targetHz' = Target("MEM")
  /\ oldHz' = hw["MEM"]
  /\ IF targetHz' = 0
     THEN /\ hw' = [hw EXCEPT !["MEM"] = Stock[apm]["MEM"]]
          /\ pc' = IF Hijack THEN "reset" ELSE "Governor"
     ELSE /\ pc' = IF Wanted("MEM") = freqs["MEM"] THEN "Governor"
                   ELSE IF Raises(targetHz', oldHz') THEN "raise" ELSE "set"
          /\ UNCHANGED hw
  /\ UNCHANGED <<env, ramVmin, store, lock, shared, freqs, flags, isBoost, changed, tripped, gpc>>

\* Without a RAM target the floor goes, and the GPU is set to its own target
\* again (a local of the same name), by way of PCV's highest rate.
DVFSReset ==
  /\ pc = "reset"
  /\ PcvHijackGpuVolts(0)
  /\ targetHz' = Target("GPU")
  /\ hw' = [hw EXCEPT !["GPU"] = PcvMaxHz("GPU")]
  /\ pc' = "again"
  /\ UNCHANGED <<env, store, lock, shared, freqs, flags, isBoost, changed, tripped, oldHz, gpc>>

\* The GPU's voltage floor goes up before the RAM's clock does ...
DVFSBeforeSet ==
  /\ pc = "raise"
  /\ PcvHijackGpuVolts(FloorBefore(targetHz))
  /\ pc' = "set"
  /\ UNCHANGED <<hw, env, store, lock, shared, freqs, flags, locals, gpc>>

ChangeMem ==
  /\ pc = "set"
  /\ LET nearestHz == GetNearestHz(Table["MEM"], targetHz, MaxHz("MEM", ctx[2]))
     IN  /\ hw' = [hw EXCEPT !["MEM"] = nearestHz]
         /\ freqs' = [freqs EXCEPT !["MEM"] = nearestHz]
  /\ pc' = IF Hijack /\ targetHz < oldHz THEN "lower" ELSE "Governor"
  /\ UNCHANGED <<env, ramVmin, store, lock, shared, flags, locals, gpc>>

\* ... and comes down after it.  The GPU is then set to what is nearest to the
\* RAM's target, by way of PCV's highest rate.
DVFSAfterSet ==
  /\ pc = "lower"
  /\ PcvHijackGpuVolts(FloorAfter(targetHz))
  /\ hw' = [hw EXCEPT !["GPU"] = PcvMaxHz("GPU")]
  /\ pc' = "again"
  /\ UNCHANGED <<env, store, lock, shared, freqs, flags, locals, gpc>>

\* The second SetHz of DVFSReset and DVFSAfterSet.
SetGpuAgain ==
  /\ pc = "again"
  /\ hw' = [hw EXCEPT !["GPU"] = GpuAgain]
  /\ pc' = "Governor"
  /\ UNCHANGED <<env, ramVmin, store, lock, shared, freqs, flags, locals, gpc>>

\* HandleGovernor: the flags change first ...
HandleGovernor ==
  /\ pc = "Governor"
  /\ enabled' = [m \in Governable |-> Target("Governor")[m] = "Enabled"]
  /\ pc' = "stop"
  /\ UNCHANGED <<hw, env, ramVmin, store, lock, shared, freqs, running, last, locals, gpc>>

\* ... and 100 ms later, the mutex still held, what was disabled is reset.
StopGovernors ==
  /\ pc = "stop"
  /\ hw' = [m \in Clocks |-> IF m \in Governable /\ last[m] /\ ~enabled[m]
                             THEN Stock[apm][m] ELSE hw[m]]
  /\ last' = enabled
  /\ pc' = "unlock"
  /\ UNCHANGED <<env, ramVmin, store, lock, shared, freqs, running, enabled, locals, gpc>>

\* The tick's locals die with it.
TickEnd ==
  /\ pc = "unlock"
  /\ lock' = Free
  /\ isBoost' = FALSE /\ changed' = FALSE /\ tripped' = FALSE
  /\ targetHz' = 0 /\ oldHz' = 0
  /\ pc' = "loop"
  /\ UNCHANGED <<hw, env, ramVmin, store, shared, freqs, flags, gpc>>

MainInTick ==
  \/ HandleSafetyFeatures \/ RefreshTitle \/ ClearFloor \/ RestoreGpu \/ Settle
  \/ RefreshFreqs \/ RefreshConfig
  \/ \E m \in Governable : SetClock(m)
  \/ SetMem \/ DVFSReset \/ DVFSBeforeSet \/ ChangeMem \/ DVFSAfterSet \/ SetGpuAgain
  \/ HandleGovernor \/ StopGovernors \/ TickEnd

-----------------------------------------------------------------------------
(* The governor threads. *)

\* The flags are read before the mutex is taken, and not again after.  In boost
\* mode the CPU governor starts over.
GovernorCheck(m) ==
  /\ gpc[m] = "check"
  /\ running /\ enabled[m]
  /\ m = "CPU" => apm \notin Boost
  /\ gpc' = [gpc EXCEPT ![m] = "want"]
  /\ UNCHANGED <<hw, env, ramVmin, store, lock, shared, freqs, flags, pc, locals>>

\* A mutant: the cap of the profile is left out.
GovernorHzUncapped(m, load, minHz) ==
  LET top == Table[m][Len(Table[m])]
      entry == TableHzFor(Table[m], Limited(SchedutilTargetHz(load, top), Target(m)))
  IN  IF m = "CPU" /\ entry < minHz THEN minHz ELSE entry

\* The entry for a load, under the target and the cap, the CPU's then raised to
\* the configured minimum (minHz is 612 Hz, below every entry, until the
\* thread first reads the configuration).
GovernorHz(m, load, minHz) ==
  LET top == Table[m][Len(Table[m])]
      asked == Limited(Limited(SchedutilTargetHz(load, top), Target(m)), MaxHz(m, ctx[2]))
      entry == TableHzFor(Table[m], asked)
  IN  IF m = "CPU" /\ entry < minHz THEN minHz ELSE entry

\* One round: the clock is set, or a way down is held back.
GovernorRun(m) ==
  /\ gpc[m] = "want"
  /\ lock = Free
  /\ lock' = m
  /\ gpc' = [gpc EXCEPT ![m] = "hold"]
  /\ \/ \E load \in Load, minHz \in {0, MinHz} :
          /\ hw' = [hw EXCEPT ![m] = GovernorHz(m, load, minHz)]
          /\ freqs' = [freqs EXCEPT ![m] = GovernorHz(m, load, minHz)]
     \/ UNCHANGED <<hw, freqs>>
  /\ UNCHANGED <<env, ramVmin, store, shared, flags, pc, locals>>

\* The thread sleeps its 5 ms before the mutex is released.
GovernorRelease(m) ==
  /\ gpc[m] = "hold"
  /\ lock' = Free
  /\ gpc' = [gpc EXCEPT ![m] = "check"]
  /\ UNCHANGED <<hw, env, ramVmin, store, shared, freqs, flags, pc, locals>>

Governor(m) == GovernorCheck(m) \/ GovernorRun(m) \/ GovernorRelease(m)

-----------------------------------------------------------------------------
(* The IPC thread, and the console around the process. *)

SetOverride(m, value) ==
  /\ override' = [override EXCEPT ![m] = value]
  /\ UNCHANGED <<hw, env, ramVmin, file, dirty, cfg, lock, shared, freqs, flags, pc, locals, gpc>>

\* SetProfiles with immediate: a title's section of the file, and of the map.
SetProfiles(a, s) ==
  /\ file' = [file EXCEPT ![a] = s]
  /\ cfg' = [cfg EXCEPT ![a] = s]
  /\ dirty' = TRUE
  /\ UNCHANGED <<hw, env, ramVmin, override, lock, shared, freqs, flags, pc, locals, gpc>>

\* An edit of config.ini by hand or by another program.
EditConfig(a, s) ==
  /\ file' = [file EXCEPT ![a] = s]
  /\ dirty' = TRUE
  /\ UNCHANGED <<hw, env, ramVmin, cfg, override, lock, shared, freqs, flags, pc, locals, gpc>>

Exit ==
  /\ running' = FALSE
  /\ UNCHANGED <<hw, env, ramVmin, store, lock, shared, freqs, enabled, last, pc, locals, gpc>>

\* APM moves to a configuration and PCV to its clocks.
ApmChange(conf) ==
  /\ apm' = conf /\ hw' = Stock[conf]
  /\ UNCHANGED <<world, calm, ramVmin, store, lock, shared, freqs, flags, pc, locals, gpc>>

WorldChange(w) ==
  /\ world' = w
  /\ UNCHANGED <<hw, apm, calm, ramVmin, store, lock, shared, freqs, flags, pc, locals, gpc>>

CalmDown ==
  /\ calm' = TRUE
  /\ UNCHANGED <<hw, apm, world, ramVmin, store, lock, shared, freqs, flags, pc, locals, gpc>>

Environment ==
  /\ ~calm
  /\ \/ \E m \in Module : \E value \in Override[m] : SetOverride(m, value)
     \/ \E a \in Title : \E s \in Sections[a] : SetProfiles(a, s) \/ EditConfig(a, s)
     \/ \E conf \in ApmConf : ApmChange(conf)
     \/ \E w \in World : WorldChange(w)
     \/ Exit
     \/ CalmDown

Next ==
  \/ TickBegin \/ LoopExit \/ MainInTick
  \/ \E m \in Governable : Governor(m)
  \/ Environment

Spec == Init /\ [][Next]_vars

\* The main thread is never descheduled for good, and the kernel hands a
\* released mutex to the waiter of highest priority, which the main thread is:
\* it is not overtaken for ever by governors that take the mutex right back.
\* A governor thread releases the mutex after its sleep.
FairSpec ==
  /\ Spec
  /\ SF_vars(TickBegin)
  /\ WF_vars(LoopExit \/ MainInTick)
  /\ \A m \in Governable : WF_vars(GovernorRelease(m))
-----------------------------------------------------------------------------
(* Properties. *)

\* While the clocks settle after a change of title or profile the console runs
\* at stock: "restore clocks to stock values on app or profile change".  The
\* main thread sleeps there, and only the mutex keeps a governor from raising
\* its clock again.  Before that sleep the GPU does leave stock for a moment:
\* where the voltage floor is hijacked, ClearFloor drives it to PCV's highest
\* rate and RestoreGpu must bring it back (pc "restore", which is not claimed).
SettleAtStock == pc \in {"floor", "settle", "sync"} /\ changed => hw = Stock[apm]

\* Whoever sets them, CPU and GPU are at a stock clock or within the cap of the
\* profile the process knows of ("On Erista, CPU in handheld is capped to
\* 1581MHz"): a clock set for one profile, by either search and by any thread,
\* does not outlive the switch to another.  One moment is not claimed because
\* the cap does not hold there: to make PCV use a new voltage table the main
\* thread drives the GPU to PCV's highest rate, and sets it again with its next
\* call (pc "restore" and "again").
CapRespected ==
  \A m \in Governable :
    \/ m = "GPU" /\ pc \in {"restore", "again"}
    \/ \E conf \in ApmConf : hw[m] = Stock[conf][m]
    \/ MaxHz(m, ctx[2]) = 0
    \/ hw[m] <= MaxHz(m, ctx[2])

\* A governor searches the table upwards from the limit, SetClocks for the
\* nearest entry: still, a clock a governor sets is not above the one that
\* SetClocks would set for the same target, the CPU's minimum aside.  (So it is
\* for the targets a client offers, entries in whole megahertz; a target written
\* by hand that lies just above an entry gives a governor the next one.)
GovernorWithinTarget ==
  [][\A m \in Governable :
       lock = Free /\ lock' = m /\ hw'[m] # hw[m] /\ Target(m) # 0 =>
         hw'[m] <= Wanted(m) \/ (m = "CPU" /\ hw'[m] = MinHz)]_vars

\* The GPU voltage floor written into PCV always serves the RAM clock in force,
\* the user's offset included, at every point between DVFSBeforeSet and
\* DVFSAfterSet and whatever is reset in between.
FloorCoversMem ==
  Hijack => ramVmin >= FloorAfter(hw["MEM"])

\* The floor is a voltage the table can hold: at most vmax and the offset.
FloorWithinVmax == ramVmin <= 800 + 20

\* Once a governor is disabled it no longer sets its clock: HandleGovernor waits
\* 100 ms before it resets the clock ("thread syncing").
GovernorStopsClean ==
  [][\A m \in Governable : lock = Free /\ lock' = m /\ hw'[m] # hw[m] => enabled[m]]_vars

\* A tick that finds the console over its power or temperature limit, and
\* nothing else new, ends with CPU and GPU no higher than stock ("Thermal
\* Throttle").
ThrottleHolds ==
  pc = "unlock" /\ tripped => \A m \in Governable : hw[m] <= Stock[apm][m]

\* Between ticks every clock without a governor is what the configuration and
\* the overrides ask for, unless boost mode suspends them.
Settled ==
  pc = "loop" /\ (apm \in Boost => OverwriteBoostMode) =>
    \A m \in Clocks : GovernedNow(m) \/ hw[m] = Goal(m)

\* When nothing changes any more, the clocks reach what is asked for, and stay.
ClocksConverge == <>[](calm /\ running => Settled)

\* An edit of config.ini is loaded in the end, although a tick whose context
\* changed skips config::Refresh: without a governor at work the context stops
\* changing.
EditsLoaded == calm /\ running ~> cfg = file
=============================================================================

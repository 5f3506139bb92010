------------------------ MODULE ClockManager_proofs ------------------------
(***************************************************************************)
(* Theorems about the clock manager, for every console, table, set of      *)
(* titles and configuration.                                               *)
(***************************************************************************)
EXTENDS ClockManager, FreqTable_proofs

(* A title has one of its own sections. *)
LEMMA TitleSection ==
  ASSUME NEW f \in ConfigFile, NEW a \in Title
  PROVE  f[a] \in Sections[a] /\ f[a] \in Section /\ f[a] \in UNION {Sections[b] : b \in Title}
BY DEF ConfigFile

(* What the constants and a well-typed state give every proof below. *)
LEMMA Modules ==
  /\ Clocks \subseteq Module /\ Governable \subseteq Clocks
  /\ "CPU" \in Governable /\ "GPU" \in Governable /\ "MEM" \in Clocks
  /\ Module = Clocks \cup {"Governor"} /\ "Governor" \notin Clocks
  /\ "MEM" \notin Governable
BY DEF Module, Clocks, Governable

LEMMA Tables ==
  ASSUME NEW m \in Clocks
  PROVE  /\ IsFreqTable(Table[m])
         /\ Table[m] \in Seq(Nat) /\ Table[m] # << >>
         /\ Entries(Table[m]) \subseteq Nat
<1>1. IsFreqTable(Table[m])
  BY ClockAssumption
<1> QED
  BY <1>1, EntriesAreNat DEF IsFreqTable

LEMMA StockType ==
  ASSUME NEW conf \in ApmConf
  PROVE  Stock[conf] \in [Clocks -> Nat] /\ \A m \in Clocks : Stock[conf][m] \in Nat
BY ClockAssumption

(* The cap is a number of the code's. *)
LEMMA MaxHzType ==
  ASSUME NEW m \in Clocks, NEW p \in Profile
  PROVE  MaxHz(m, p) \in Nat
BY DEF MaxHz, GetMaxAllowedHz, HandheldGpuCap, UsbGpuCap, NoLimit, Clocks, Profile

(* The configuration holds a number for a clock, whatever profile it falls back to. *)
LEMMA AutoClockType ==
  ASSUME TypeOK, NEW m \in Clocks, NEW app \in Title, NEW p \in Profile
  PROVE  GetAutoClockHz(app, m, p) \in Nat
<1> DEFINE chain == FallbackProfiles(p)
           found == {i \in DOMAIN chain : Content[cfg[app]][chain[i]][m] # None(m)}
           entry == Content[cfg[app]][chain[Min(found)]][m]
<1>1. DOMAIN chain \subseteq Nat /\ \A i \in DOMAIN chain : chain[i] \in Profile
  BY DEF FallbackProfiles, Profile
<1>2. m # "Governor" /\ m \in Module /\ cfg[app] \in Section
  BY Modules, TitleSection DEF TypeOK
<1>3. CASE found = {}
  BY <1>2, <1>3 DEF GetAutoClockHz, None
<1>4. CASE found # {}
  <2>1. Min(found) \in DOMAIN chain
    <3>1. found \subseteq Nat /\ found \subseteq DOMAIN chain
      BY <1>1
    <3> QED
      BY <3>1, <1>4, MinOfNats
  <2>2. chain[Min(found)] \in Profile
    BY <2>1, <1>1
  <2>3. entry \in Nat
    BY <2>2, <1>2, ClockAssumption DEF Setting
  <2>4. GetAutoClockHz(app, m, p) = MHz * entry
    BY <1>2, <1>4 DEF GetAutoClockHz
  <2>5. \A x \in Nat : MHz * x \in Nat
    BY DEF MHz
  <2> HIDE DEF entry
  <2> QED
    BY <2>3, <2>4, <2>5
<1> QED
  BY <1>3, <1>4

LEMMA TargetType ==
  ASSUME TypeOK, NEW m \in Clocks
  PROVE  Target(m) \in Nat
<1>1. m # "Governor" /\ m \in Module
  BY Modules
<1>2. ctx[1] \in Title /\ ctx[2] \in Profile /\ Global \in Title
  BY DEF TypeOK, Title
<1>3. ovr[m] \in Nat
  BY <1>1, ClockAssumption DEF TypeOK, Setting
<1>4. GetAutoClockHz(ctx[1], m, ctx[2]) \in Nat /\ GetAutoClockHz(Global, m, ctx[2]) \in Nat
  BY <1>2, AutoClockType
<1> QED
  BY <1>3, <1>4 DEF Target

(* A clock that SetClocks or a reset of the dynamic voltage sets is a number. *)
LEMMA WantedType ==
  ASSUME TypeOK, NEW m \in Clocks
  PROVE  Wanted(m) \in Nat /\ Goal(m) \in Nat
<1>1. Wanted(m) \in Entries(Table[m])
  BY Tables, NearestInTable DEF Wanted
<1>2. apm \in ApmConf
  BY DEF TypeOK
<1> QED
  BY <1>1, <1>2, Tables, StockType DEF Goal

LEMMA GpuAgainType ==
  ASSUME TypeOK
  PROVE  GpuAgain \in Nat /\ PcvMaxHz("GPU") \in Nat
<1>1. "GPU" \in Clocks /\ apm \in ApmConf
  BY Modules DEF TypeOK
<1>2. GetNearestHz(Table["GPU"], targetHz, MaxHz("GPU", ctx[2])) \in Entries(Table["GPU"])
  BY <1>1, Tables, NearestInTable
<1>3. GpuAgain \in Nat
  BY <1>1, <1>2, Tables, StockType DEF GpuAgain
<1>4. PcvMaxHz("GPU") \in Nat
  BY <1>1, Tables DEF PcvMaxHz
<1> QED
  BY <1>3, <1>4

(* A governor asks for a number of Hz, and sets one. *)
LEMMA GovernorHzType ==
  ASSUME TypeOK, NEW m \in Governable, NEW load \in Load, NEW minHz \in {0, MinHz}
  PROVE  GovernorHz(m, load, minHz) \in Nat
<1> DEFINE top == Table[m][Len(Table[m])]
           asked == Limited(Limited(SchedutilTargetHz(load, top), Target(m)), MaxHz(m, ctx[2]))
<1>1. m \in Clocks
  BY Modules
<1>2. TableHzFor(Table[m], asked) \in Nat
  BY <1>1, Tables, AtLeastInTable
<1>3. minHz \in Nat
  BY ClockAssumption
<1> QED
  BY <1>2, <1>3 DEF GovernorHz

(* The voltage floors fit the word they are computed in. *)
LEMMA VminRange ==
  ASSUME NEW hz
  PROVE  MemVmin(hz) \in 590 .. 800 \cup {0}
<1> DEFINE enough == {i \in 1 .. 22 : hz \div MHz <= RamTable[Bracket + 1][i]}
<1>1. CASE enough = {} \/ hz \div MHz <= 1600
  BY <1>1 DEF MemVmin, GetMinimumGpuVmin
<1>2. CASE enough # {} /\ ~(hz \div MHz <= 1600)
  <2>1. enough \subseteq Nat /\ enough \subseteq 1 .. 22
    OBVIOUS
  <2>2. Min(enough) \in 1 .. 22
    BY <2>1, <1>2, MinOfNats
  <2>3. MemVmin(hz) = 580 + 10 * Min(enough)
    BY <1>2 DEF MemVmin, GetMinimumGpuVmin
  <2> HIDE DEF enough
  <2> QED
    BY <2>2, <2>3
<1> QED
  BY <1>1, <1>2

LEMMA FloorType ==
  ASSUME NEW hz
  PROVE  FloorBefore(hz) \in 0 .. Word - 1 /\ FloorAfter(hz) \in 0 .. Word - 1
<1>1. MemVmin(hz) \in 590 .. 800 \cup {0}
  BY VminRange
<1>2. DvfsOffset \in -80 .. 20 /\ Word \in Nat /\ Word > 1000
  BY ClockAssumption
<1>3. MemVmin(hz) + DvfsOffset \in Int
  BY <1>1, <1>2
<1>4. FloorBefore(hz) \in 0 .. Word - 1
  <2>1. \A x \in Int, w \in Nat : w > 1000 => x % w \in 0 .. w - 1
    OBVIOUS
  <2> QED
    BY <1>2, <1>3, <2>1 DEF FloorBefore
<1>5. FloorAfter(hz) \in 0 .. Word - 1
  BY <1>1, <1>2 DEF FloorAfter
<1> QED
  BY <1>4, <1>5

-----------------------------------------------------------------------------
(* Type correctness. *)

LEMMA InitType == Init => TypeOK
<1> SUFFICES ASSUME Init PROVE TypeOK
  OBVIOUS
<1>1. hw \in [Clocks -> Nat]
  BY StockType DEF Init
<1>2. ramVmin \in 0 .. Word - 1
  BY ClockAssumption DEF Init
<1>3. file \in ConfigFile /\ cfg \in ConfigFile /\ dirty \in BOOLEAN
  BY DEF Init
<1>4. /\ DOMAIN override = Module /\ DOMAIN ovr = Module
      /\ \A m \in Module : override[m] \in Override[m] /\ ovr[m] \in Override[m]
  BY ClockAssumption DEF Init
<1>5. ctx \in Apps \X Profile
  BY ClockAssumption DEF Init, Profile
<1>6. freqs \in [Module -> Nat]
  BY DEF Init
<1> QED
  BY <1>1, <1>2, <1>3, <1>4, <1>5, <1>6 DEF Init, TypeOK, SetClocksPc, HoldingPc, ContextPc

(* Every action of the threads and of the environment keeps the types. *)
LEMMA NextType == TypeOK /\ [Next]_vars => TypeOK'
<1> SUFFICES ASSUME TypeOK, [Next]_vars PROVE TypeOK'
  OBVIOUS
<1> USE DEF env, store, shared, flags, locals, iteration
<1>h. /\ hw \in [Clocks -> Nat]
      /\ Stock[apm] \in [Clocks -> Nat]
      /\ apm \in ApmConf
      /\ ctx \in Apps \X Profile
  BY StockType DEF TypeOK
<1>t. /\ \A m \in Clocks : Target(m) \in Nat /\ Wanted(m) \in Nat /\ Goal(m) \in Nat
      /\ GpuAgain \in Nat /\ PcvMaxHz("GPU") \in Nat
      /\ "GPU" \in Clocks /\ "MEM" \in Clocks /\ Governable \subseteq Clocks /\ Clocks \subseteq Module
  BY Modules, TargetType, WantedType, GpuAgainType
<1>p. SetClocksPcOf(isBoost) \in {"unlock", "CPU"}
  BY DEF SetClocksPcOf
<1>1. CASE TickBegin
  BY <1>1 DEF TickBegin, TypeOK, HoldingPc
<1>2. CASE LoopExit
  BY <1>2 DEF LoopExit, TypeOK
<1>3. CASE HandleSafetyFeatures
  <2>1. hw' \in [Clocks -> Nat]
    BY <1>3, <1>h, <1>t DEF HandleSafetyFeatures
  <2> QED
    BY <1>3, <2>1 DEF HandleSafetyFeatures, TypeOK, HoldingPc, ContextPc
<1>4. CASE RefreshTitle
  <2>1. ctx' \in Apps \X Profile
    BY <1>4, <1>h, ClockAssumption DEF RefreshTitle, TypeOK
  <2>2. hw' \in [Clocks -> Nat]
    BY <1>4, <1>h DEF RefreshTitle
  <2> QED
    BY <1>4, <2>1, <2>2 DEF RefreshTitle, TypeOK, HoldingPc, ContextPc
<1>5. CASE ClearFloor
  <2>1. hw' \in [Clocks -> Nat]
    BY <1>5, <1>h, <1>t DEF ClearFloor
  <2>2. ramVmin' \in 0 .. Word - 1
    BY <1>5, ClockAssumption DEF ClearFloor, PcvHijackGpuVolts, TypeOK
  <2> QED
    BY <1>5, <2>1, <2>2 DEF ClearFloor, TypeOK, HoldingPc, ContextPc
<1>6. CASE RestoreGpu \/ Settle \/ SetGpuAgain
  <2>1. hw' \in [Clocks -> Nat]
    BY <1>6, <1>h, <1>t DEF RestoreGpu, Settle, SetGpuAgain
  <2> QED
    BY <1>6, <2>1 DEF RestoreGpu, Settle, SetGpuAgain, TypeOK, HoldingPc, ContextPc, SetClocksPc
<1>7. CASE RefreshFreqs
  <2>1. freqs' \in [Module -> Nat]
    BY <1>7, <1>h, Modules DEF RefreshFreqs, Observed, Governable
  <2>2. changed' \in BOOLEAN
    BY <1>7 DEF RefreshFreqs, TypeOK, ContextChanged
  <2>3. pc' \in HoldingPc
    BY <1>7, <1>p DEF RefreshFreqs, HoldingPc, ContextPc, SetClocksPc
  <2>4. DOMAIN ovr' = Module /\ \A m \in Module : ovr'[m] \in Override[m]
    BY <1>7 DEF RefreshFreqs, TypeOK
  <2> QED
    BY <1>7, <2>1, <2>2, <2>3, <2>4 DEF RefreshFreqs, TypeOK
<1>8. CASE RefreshConfig
  <2>1. pc' \in HoldingPc
    BY <1>8, <1>p DEF RefreshConfig, HoldingPc, ContextPc, SetClocksPc
  <2>2. cfg' \in ConfigFile /\ dirty' \in BOOLEAN
    BY <1>8 DEF RefreshConfig, LoadConfig, TypeOK
  <2> QED
    BY <1>8, <2>1, <2>2 DEF RefreshConfig, TypeOK
<1>9. ASSUME NEW m \in Governable, SetClock(m) PROVE TypeOK'
  <2>1. m \in Clocks /\ m \in Module /\ Wanted(m) \in Nat /\ Stock[apm][m] \in Nat
    BY <1>h, <1>t
  <2>2. hw' \in [Clocks -> Nat]
    BY <1>9, <1>h, <2>1 DEF SetClock
  <2>3. freqs' \in [Module -> Nat]
    BY <1>9, <2>1 DEF SetClock, TypeOK
  <2> QED
    BY <1>9, <2>2, <2>3 DEF SetClock, TypeOK, HoldingPc, SetClocksPc
<1>10. CASE SetMem
  <2>1. hw' \in [Clocks -> Nat]
    BY <1>10, <1>h, <1>t DEF SetMem
  <2>2. targetHz' \in Nat /\ oldHz' \in Nat
    BY <1>10, <1>h, <1>t DEF SetMem
  <2>3. pc' \in HoldingPc
    BY <1>10 DEF SetMem, HoldingPc, SetClocksPc
  <2> QED
    BY <1>10, <2>1, <2>2, <2>3 DEF SetMem, TypeOK
<1>11. CASE DVFSReset
  <2>1. hw' \in [Clocks -> Nat]
    BY <1>11, <1>h, <1>t DEF DVFSReset
  <2>2. ramVmin' \in 0 .. Word - 1 /\ targetHz' \in Nat
    BY <1>11, <1>t, ClockAssumption DEF DVFSReset, PcvHijackGpuVolts, TypeOK
  <2> QED
    BY <1>11, <2>1, <2>2 DEF DVFSReset, TypeOK, HoldingPc, SetClocksPc
<1>12. CASE DVFSBeforeSet
  <2>1. ramVmin' \in 0 .. Word - 1
    BY <1>12, FloorType DEF DVFSBeforeSet, PcvHijackGpuVolts, TypeOK
  <2> QED
    BY <1>12, <2>1 DEF DVFSBeforeSet, TypeOK, HoldingPc, SetClocksPc
<1>13. CASE ChangeMem
  <2> DEFINE nearestHz == GetNearestHz(Table["MEM"], targetHz, MaxHz("MEM", ctx[2]))
  <2>1. nearestHz \in Nat
    <3>1. nearestHz \in Entries(Table["MEM"])
      BY <1>t, Tables, NearestInTable
    <3> QED
      BY <3>1, <1>t, Tables
  <2>2. hw' \in [Clocks -> Nat] /\ freqs' \in [Module -> Nat]
    BY <1>13, <1>h, <1>t, <2>1 DEF ChangeMem, TypeOK
  <2> QED
    BY <1>13, <2>2 DEF ChangeMem, TypeOK, HoldingPc, SetClocksPc
<1>14. CASE DVFSAfterSet
  <2>1. hw' \in [Clocks -> Nat]
    BY <1>14, <1>h, <1>t DEF DVFSAfterSet
  <2>2. ramVmin' \in 0 .. Word - 1
    BY <1>14, FloorType DEF DVFSAfterSet, PcvHijackGpuVolts, TypeOK
  <2> QED
    BY <1>14, <2>1, <2>2 DEF DVFSAfterSet, TypeOK, HoldingPc, SetClocksPc
<1>15. CASE HandleGovernor
  BY <1>15 DEF HandleGovernor, TypeOK, HoldingPc, SetClocksPc
<1>16. CASE StopGovernors
  <2>1. hw' \in [Clocks -> Nat]
    BY <1>16, <1>h, <1>t DEF StopGovernors
  <2> QED
    BY <1>16, <2>1 DEF StopGovernors, TypeOK, HoldingPc
<1>17. CASE TickEnd
  BY <1>17 DEF TickEnd, TypeOK
<1>18. ASSUME NEW m \in Governable, GovernorCheck(m) PROVE TypeOK'
  BY <1>18 DEF GovernorCheck, TypeOK
<1>19. ASSUME NEW m \in Governable, GovernorRun(m) PROVE TypeOK'
  <2>1. m \in Clocks /\ m \in Module
    BY <1>t
  <2>2. hw' \in [Clocks -> Nat] /\ freqs' \in [Module -> Nat]
    <3>1. CASE UNCHANGED <<hw, freqs>>
      BY <3>1 DEF TypeOK
    <3>2. ASSUME NEW load \in Load, NEW minHz \in {0, MinHz},
                 hw' = [hw EXCEPT ![m] = GovernorHz(m, load, minHz)],
                 freqs' = [freqs EXCEPT ![m] = GovernorHz(m, load, minHz)]
          PROVE  hw' \in [Clocks -> Nat] /\ freqs' \in [Module -> Nat]
      <4>1. GovernorHz(m, load, minHz) \in Nat
        BY GovernorHzType
      <4> QED
        BY <3>2, <4>1, <2>1 DEF TypeOK
    <3> QED
      BY <1>19, <3>1, <3>2 DEF GovernorRun
  <2>3. lock' = m /\ gpc' = [gpc EXCEPT ![m] = "hold"]
        /\ UNCHANGED <<env, ramVmin, store, shared, flags, pc, locals>>
    BY <1>19 DEF GovernorRun
  <2> QED
    BY <2>2, <2>3 DEF TypeOK
<1>20. ASSUME NEW m \in Governable, GovernorRelease(m) PROVE TypeOK'
  BY <1>20 DEF GovernorRelease, TypeOK
<1>21. ASSUME NEW m \in Module, NEW value \in Override[m], SetOverride(m, value) PROVE TypeOK'
  <2>1. DOMAIN override' = Module /\ \A n \in Module : override'[n] \in Override[n]
    BY <1>21 DEF SetOverride, TypeOK
  <2> QED
    BY <1>21, <2>1 DEF SetOverride, TypeOK
<1>22. ASSUME NEW a \in Title, NEW sec \in Sections[a], SetProfiles(a, sec) \/ EditConfig(a, sec)
       PROVE  TypeOK'
  <2>1. \A f \in ConfigFile : [f EXCEPT ![a] = sec] \in ConfigFile
    BY <1>22, ClockAssumption DEF ConfigFile
  <2> QED
    BY <1>22, <2>1 DEF SetProfiles, EditConfig, TypeOK
<1>23. ASSUME NEW conf \in ApmConf, ApmChange(conf) PROVE TypeOK'
  BY <1>23, StockType DEF ApmChange, TypeOK
<1>24. ASSUME NEW w \in World, WorldChange(w) PROVE TypeOK'
  BY <1>24 DEF WorldChange, TypeOK
<1>25. CASE Exit \/ CalmDown
  BY <1>25 DEF Exit, CalmDown, TypeOK
<1>26. CASE UNCHANGED vars
  BY <1>26 DEF vars, TypeOK
<1> QED
  BY <1>1, <1>2, <1>3, <1>4, <1>5, <1>6, <1>7, <1>8, <1>9, <1>10, <1>11, <1>12, <1>13, <1>14, <1>15,
     <1>16, <1>17, <1>18, <1>19, <1>20, <1>21, <1>22, <1>23, <1>24, <1>25, <1>26
     DEF Next, MainInTick, Governor, Environment

(* Every variable keeps its type: no clock but a rate of PCV's, no voltage
   floor outside a u32, whatever the threads do. *)
THEOREM TypeCorrect == Spec => []TypeOK
BY InitType, NextType, PTL DEF Spec

-----------------------------------------------------------------------------
(* The mutex: the main thread holds it from TickBegin to TickEnd, a governor *)
(* from GovernorRun to GovernorRelease, and nobody else is in between.       *)

LockInv ==
  /\ lock = "main" <=> pc \in HoldingPc
  /\ \A m \in Governable : lock = m <=> gpc[m] = "hold"

(* What the main thread does inside a tick leaves the mutex with it. *)
LEMMA TickKeepsLock ==
  ASSUME NEW m \in Governable,
         \/ HandleSafetyFeatures \/ RefreshTitle \/ ClearFloor \/ RestoreGpu \/ Settle
         \/ RefreshFreqs \/ RefreshConfig \/ SetClock(m) \/ SetMem \/ DVFSReset \/ DVFSBeforeSet
         \/ ChangeMem \/ DVFSAfterSet \/ SetGpuAgain \/ HandleGovernor \/ StopGovernors
  PROVE  pc \in HoldingPc /\ pc' \in HoldingPc /\ UNCHANGED <<lock, gpc>>
<1>p. SetClocksPcOf(isBoost) \in {"unlock", "CPU"}
  BY DEF SetClocksPcOf
<1> USE DEF HoldingPc, ContextPc, SetClocksPc
<1>1. CASE HandleSafetyFeatures \/ RefreshTitle \/ ClearFloor \/ RestoreGpu \/ Settle
  BY <1>1 DEF HandleSafetyFeatures, RefreshTitle, ClearFloor, RestoreGpu, Settle
<1>2. CASE RefreshFreqs \/ RefreshConfig
  BY <1>2, <1>p DEF RefreshFreqs, RefreshConfig
<1>3. CASE SetClock(m)
  BY <1>3 DEF SetClock, Governable
<1>4. CASE SetMem \/ DVFSReset \/ DVFSBeforeSet \/ ChangeMem \/ DVFSAfterSet \/ SetGpuAgain
  BY <1>4 DEF SetMem, DVFSReset, DVFSBeforeSet, ChangeMem, DVFSAfterSet, SetGpuAgain
<1>5. CASE HandleGovernor \/ StopGovernors
  BY <1>5 DEF HandleGovernor, StopGovernors
<1> QED
  BY <1>1, <1>2, <1>3, <1>4, <1>5

(* The requests of clients and the console itself do not touch the threads. *)
LEMMA EnvironmentKeepsThreads ==
  Environment => UNCHANGED <<lock, gpc, pc, isBoost, changed, tripped, targetHz, oldHz, ramVmin, ctx>>
BY DEF Environment, SetOverride, SetProfiles, EditConfig, ApmChange, WorldChange, Exit, CalmDown,
       locals, iteration, shared

LEMMA NextLock == TypeOK /\ LockInv /\ [Next]_vars => LockInv'
<1> SUFFICES ASSUME TypeOK, LockInv, [Next]_vars PROVE LockInv'
  OBVIOUS
<1>s. Free = "free" /\ Governable = {"CPU", "GPU"}
  BY DEF Free, Governable
<1>g. gpc \in [Governable -> {"check", "want", "hold"}]
  BY DEF TypeOK
<1>1. CASE TickBegin
  BY <1>1, <1>s DEF TickBegin, LockInv, HoldingPc
<1>2. CASE LoopExit
  BY <1>2 DEF LoopExit, LockInv, HoldingPc, ContextPc, SetClocksPc
<1>3. ASSUME NEW m \in Governable,
             \/ HandleSafetyFeatures \/ RefreshTitle \/ ClearFloor \/ RestoreGpu \/ Settle
             \/ RefreshFreqs \/ RefreshConfig \/ SetClock(m) \/ SetMem \/ DVFSReset \/ DVFSBeforeSet
             \/ ChangeMem \/ DVFSAfterSet \/ SetGpuAgain \/ HandleGovernor \/ StopGovernors
      PROVE  LockInv'
  <2>1. pc \in HoldingPc /\ pc' \in HoldingPc /\ UNCHANGED <<lock, gpc>>
    BY <1>3, TickKeepsLock
  <2> QED
    BY <2>1 DEF LockInv, HoldingPc
<1>4. CASE TickEnd
  <2>1. pc' = "loop" /\ lock' = Free /\ gpc' = gpc /\ lock = "main"
    BY <1>4 DEF TickEnd, LockInv, HoldingPc
  <2> QED
    BY <2>1, <1>s DEF LockInv, HoldingPc, ContextPc, SetClocksPc
<1>5. ASSUME NEW m \in Governable, GovernorCheck(m) PROVE LockInv'
  BY <1>5, <1>g DEF GovernorCheck, LockInv, HoldingPc
<1>6. ASSUME NEW m \in Governable, GovernorRun(m) PROVE LockInv'
  <2>1. lock = Free /\ lock' = m /\ gpc' = [gpc EXCEPT ![m] = "hold"] /\ pc' = pc
    BY <1>6 DEF GovernorRun
  <2> QED
    BY <2>1, <1>s, <1>g DEF LockInv, HoldingPc
<1>7. ASSUME NEW m \in Governable, GovernorRelease(m) PROVE LockInv'
  <2>1. lock = m /\ lock' = Free /\ gpc' = [gpc EXCEPT ![m] = "check"] /\ pc' = pc
    BY <1>7 DEF GovernorRelease, LockInv
  <2> QED
    BY <2>1, <1>s, <1>g DEF LockInv, HoldingPc
<1>8. CASE Environment \/ UNCHANGED vars
  <2>1. UNCHANGED <<lock, gpc, pc>>
    BY <1>8, EnvironmentKeepsThreads DEF vars
  <2> QED
    BY <2>1 DEF LockInv, HoldingPc
<1>9. "CPU" \in Governable
  BY DEF Governable
<1> QED
  BY <1>1, <1>2, <1>3, <1>4, <1>5, <1>6, <1>7, <1>8, <1>9 DEF Next, MainInTick, Governor

(* gContextMutex is held by the main thread exactly inside a tick, and by a
   governor exactly between its clock change and the end of its sleep: never
   two of them at once. *)
THEOREM MutualExclusion == Spec => []LockInv
<1>1. Init => LockInv
  BY DEF Init, LockInv, HoldingPc, ContextPc, SetClocksPc, Free, Governable
<1> QED
  BY <1>1, NextLock, TypeCorrect, PTL DEF Spec

-----------------------------------------------------------------------------
(* The clocks settle at stock. *)

\* hasChanged is set no earlier than in RefreshContext, and while the GPU is at
\* PCV's highest rate the other clocks are at stock.
SettleInv ==
  /\ pc \in {"loop", "exited", "safety", "context"} => ~changed
  /\ pc = "restore" /\ changed => \A m \in Clocks \ {"GPU"} : hw[m] = Stock[apm][m]
  /\ SettleAtStock

LEMMA NextSettle == TypeOK /\ LockInv /\ SettleInv /\ [Next]_vars => SettleInv'
<1> SUFFICES ASSUME TypeOK, LockInv, SettleInv, [Next]_vars PROVE SettleInv'
  OBVIOUS
<1> USE DEF env, store, shared, flags, locals, iteration
<1>h. hw \in [Clocks -> Nat] /\ Stock[apm] \in [Clocks -> Nat] /\ "GPU" \in Clocks
  BY StockType, Modules DEF TypeOK
<1>p. SetClocksPcOf(isBoost) \in {"unlock", "CPU"}
  BY DEF SetClocksPcOf
<1>1. CASE TickBegin \/ LoopExit
  BY <1>1 DEF TickBegin, LoopExit, SettleInv, SettleAtStock
<1>2. CASE HandleSafetyFeatures
  BY <1>2 DEF HandleSafetyFeatures, SettleInv, SettleAtStock
<1>3. CASE RefreshTitle
  BY <1>3 DEF RefreshTitle, SettleInv, SettleAtStock
<1>4. CASE ClearFloor
  <2>1. pc = "floor" /\ pc' = "restore" /\ apm' = apm /\ changed' = changed
        /\ hw' = [hw EXCEPT !["GPU"] = PcvMaxHz("GPU")]
    BY <1>4 DEF ClearFloor
  <2>2. changed => hw = Stock[apm]
    BY <2>1 DEF SettleInv, SettleAtStock
  <2>3. hw = Stock[apm] => \A m \in Clocks \ {"GPU"} : hw'[m] = Stock[apm][m]
    BY <2>1, <1>h
  <2> QED
    BY <2>1, <2>2, <2>3 DEF SettleInv, SettleAtStock
<1>5. CASE RestoreGpu
  <2>1. pc = "restore" /\ pc' = "settle" /\ apm' = apm /\ changed' = changed
        /\ hw' = [hw EXCEPT !["GPU"] = Stock[apm]["GPU"]]
    BY <1>5 DEF RestoreGpu
  <2>2. changed => \A m \in Clocks \ {"GPU"} : hw[m] = Stock[apm][m]
    BY <2>1 DEF SettleInv
  <2>3. changed => hw' = Stock[apm]
    <3>1. changed => \A m \in Clocks : hw'[m] = Stock[apm][m]
      BY <2>1, <2>2, <1>h
    <3>2. hw' \in [Clocks -> Nat]
      BY <2>1, <1>h
    <3> QED
      BY <3>1, <3>2, <1>h
  <2> QED
    BY <2>1, <2>3 DEF SettleInv, SettleAtStock
<1>6. CASE RefreshFreqs \/ RefreshConfig
  BY <1>6, <1>p DEF RefreshFreqs, RefreshConfig, SettleInv, SettleAtStock
<1>7. ASSUME NEW m \in Governable, SetClock(m) PROVE SettleInv'
  BY <1>7 DEF SetClock, SettleInv, SettleAtStock
<1>8. CASE SetMem \/ DVFSReset \/ DVFSBeforeSet \/ ChangeMem \/ DVFSAfterSet \/ SetGpuAgain
  BY <1>8 DEF SetMem, DVFSReset, DVFSBeforeSet, ChangeMem, DVFSAfterSet, SetGpuAgain, SettleInv, SettleAtStock
<1>9. CASE HandleGovernor \/ StopGovernors \/ TickEnd
  BY <1>9 DEF HandleGovernor, StopGovernors, TickEnd, SettleInv, SettleAtStock
<1>10. ASSUME NEW m \in Governable, GovernorCheck(m) \/ GovernorRelease(m) PROVE SettleInv'
  BY <1>10 DEF GovernorCheck, GovernorRelease, SettleInv, SettleAtStock
<1>11. ASSUME NEW m \in Governable, GovernorRun(m) PROVE SettleInv'
  <2>1. lock = Free /\ UNCHANGED <<pc, changed>>
    BY <1>11 DEF GovernorRun
  <2>2. pc \notin HoldingPc
    BY <2>1 DEF LockInv, Free
  <2> QED
    BY <2>1, <2>2 DEF SettleInv, SettleAtStock, HoldingPc, ContextPc
<1>12. CASE Environment
  <2>1. UNCHANGED <<pc, changed>>
    BY <1>12, EnvironmentKeepsThreads
  <2>2. UNCHANGED <<hw, apm>> \/ hw' = Stock[apm']
    BY <1>12 DEF Environment, SetOverride, SetProfiles, EditConfig, ApmChange, WorldChange, Exit, CalmDown
  <2> QED
    BY <2>1, <2>2 DEF SettleInv, SettleAtStock
<1>13. CASE UNCHANGED vars
  BY <1>13 DEF vars, SettleInv, SettleAtStock
<1>14. CASE Settle
  BY <1>14 DEF Settle, SettleInv, SettleAtStock
<1> QED
  BY <1>1, <1>2, <1>3, <1>4, <1>5, <1>6, <1>7, <1>8, <1>9, <1>10, <1>11, <1>12, <1>13, <1>14
     DEF Next, MainInTick, Governor

(* After a change of title or profile the console runs at stock until the
   clocks are read again: the sleep with the mutex held keeps governors away,
   and the GPU is back from PCV's highest rate, where the hijack of the voltage
   table sends it, before that sleep begins. *)
THEOREM SettlesAtStock == Spec => []SettleAtStock
<1>1. Init => SettleInv
  BY DEF Init, SettleInv, SettleAtStock
<1>2. SettleInv => SettleAtStock
  BY DEF SettleInv
<1> QED
  BY <1>1, <1>2, NextSettle, TypeCorrect, MutualExclusion, PTL DEF Spec

-----------------------------------------------------------------------------
(* The caps. *)

\* What CapRespected says of one rate.
Within(m, hz) ==
  \/ \E conf \in ApmConf : hz = Stock[conf][m]
  \/ MaxHz(m, ctx[2]) = 0
  \/ hz <= MaxHz(m, ctx[2])

LEMMA StockWithin ==
  ASSUME NEW m, NEW conf \in ApmConf
  PROVE  Within(m, Stock[conf][m])
BY DEF Within

(* The rate that the search of SetClocks finds is within the cap, whatever is asked ... *)
LEMMA NearestWithin ==
  ASSUME TypeOK, NEW m \in Governable, NEW hz
  PROVE  Within(m, GetNearestHz(Table[m], hz, MaxHz(m, ctx[2])))
<1>1. m \in Clocks /\ ctx[2] \in Profile
  BY Modules DEF TypeOK
<1>2. MaxHz(m, ctx[2]) \in Nat
  BY <1>1, MaxHzType
<1>3. IsFreqTable(Table[m])
  BY <1>1, Tables
<1>4. \/ MaxHz(m, ctx[2]) = 0
      \/ MaxHz(m, ctx[2]) \in Entries(Table[m])
      \/ \A f \in Entries(Table[m]) : f <= MaxHz(m, ctx[2])
  BY <1>1, CapAssumption
<1> QED
  BY <1>2, <1>3, <1>4, NearestWithinCap DEF Within

(* A load asks for a number of Hz. *)
LEMMA SchedutilType ==
  ASSUME NEW top \in Nat, NEW load \in Load
  PROVE  SchedutilTargetHz(load, top) \in Nat
<1>1. load \in Nat
  BY ClockAssumption
<1>2. \A x, y \in Nat : x * y \in Nat
  OBVIOUS
<1>3. top * load \in Nat
  BY <1>1, <1>2
<1>4. \A x \in Nat : x \div 900 \in Nat
  OBVIOUS
<1>5. (top * load) \div StepUtil \in Nat
  BY <1>3, <1>4 DEF StepUtil
<1>6. QED
  BY <1>5 DEF SchedutilTargetHz

(* ... and so is the rate a governor finds, whatever the load. *)
LEMMA GovernorWithin ==
  ASSUME TypeOK, NEW m \in Governable, NEW load \in Load, NEW minHz \in {0, MinHz}
  PROVE  Within(m, GovernorHz(m, load, minHz))
<1> DEFINE top == Table[m][Len(Table[m])]
           cap == MaxHz(m, ctx[2])
           wish == Limited(SchedutilTargetHz(load, top), Target(m))
           asked == Limited(wish, cap)
<1>1. m \in Clocks /\ ctx[2] \in Profile
  BY Modules DEF TypeOK
<1>2. cap \in Nat /\ IsFreqTable(Table[m])
  BY <1>1, MaxHzType, Tables
<1>3. top \in Nat
  BY <1>1, Tables
<1>4. SchedutilTargetHz(load, top) \in Nat
  <2> HIDE DEF top
  <2>1. QED
    BY <1>3, SchedutilType
<1>5. wish \in Nat
  BY <1>1, <1>4, TargetType DEF Limited
<1>6. CASE cap = 0
  BY <1>6 DEF Within
<1>7. CASE cap # 0
  <2>1. asked \in Nat /\ asked <= cap
    <3> HIDE DEF wish, cap
    <3> QED BY <1>2, <1>5, <1>7 DEF Limited
  <2>2. cap \in Entries(Table[m]) \/ \A f \in Entries(Table[m]) : f <= cap
    BY <1>1, <1>7, CapAssumption
  <2>3. TableHzFor(Table[m], asked) <= cap
    <3> HIDE DEF asked, cap
    <3> QED BY <1>2, <2>1, <2>2, AtLeastWithinLimit
  <2>4. m = "CPU" => minHz <= cap
    BY <1>1, <1>2, <1>7, CapAssumption
  <2>5. GovernorHz(m, load, minHz) <= cap
    BY <2>3, <2>4 DEF GovernorHz
  <2> QED
    BY <2>5 DEF Within
<1> QED
  BY <1>6, <1>7

LEMMA WantedWithin ==
  ASSUME TypeOK, NEW m \in Governable
  PROVE  Within(m, Wanted(m)) /\ Within(m, Goal(m))
<1>1. apm \in ApmConf
  BY DEF TypeOK
<1> QED
  BY <1>1, NearestWithin, StockWithin DEF Wanted, Goal

LEMMA NextCap == TypeOK /\ CapRespected /\ [Next]_vars => CapRespected'
<1> SUFFICES ASSUME TypeOK, CapRespected, [Next]_vars PROVE CapRespected'
  OBVIOUS
<1> USE DEF env, store, shared, flags, locals, iteration
<1>t. /\ apm \in ApmConf /\ hw \in [Clocks -> Nat]
      /\ Governable \subseteq Clocks /\ "MEM" \notin Governable /\ "MEM" \in Clocks /\ "GPU" \in Governable
  BY Modules DEF TypeOK
<1>c. \A m \in Governable : Within(m, hw[m]) \/ (m = "GPU" /\ pc \in {"restore", "again"})
  BY DEF CapRespected, Within
\* The caps are those of the profile in the context: it is enough that the new
\* clocks are within them, or at stock, or the GPU is on its way.
<1>k. ASSUME ctx' = ctx,
             \A m \in Governable : Within(m, hw'[m]) \/ (m = "GPU" /\ pc' \in {"restore", "again"})
      PROVE  CapRespected'
  BY <1>k DEF CapRespected, Within
<1>s. ASSUME NEW conf \in ApmConf, \A m \in Governable : hw'[m] = Stock[conf][m] PROVE CapRespected'
  BY <1>s DEF CapRespected
<1>1. ASSUME UNCHANGED <<hw, ctx>>, pc' = pc \/ pc \notin {"restore", "again"} PROVE CapRespected'
  BY <1>1, <1>c, <1>k
<1>2. CASE HandleSafetyFeatures
  <2>1. pc = "safety" /\ ctx' = ctx /\ \A m \in Governable : hw'[m] \in {hw[m], Stock[apm][m]}
    BY <1>2, <1>t DEF HandleSafetyFeatures
  <2> QED
    BY <2>1, <1>t, <1>c, <1>k, StockWithin
<1>3. CASE RefreshTitle
  <2>1. CASE hw' = Stock[apm]
    BY <2>1, <1>t, <1>s
  <2>2. CASE UNCHANGED <<hw, ctx>>
    BY <1>3, <2>2, <1>1 DEF RefreshTitle
  <2> QED
    BY <1>3, <2>1, <2>2 DEF RefreshTitle
<1>4. CASE ClearFloor \/ DVFSReset \/ DVFSAfterSet
  <2>1. /\ pc \in {"floor", "reset", "lower"} /\ pc' \in {"restore", "again"} /\ ctx' = ctx
        /\ \A m \in Governable : m # "GPU" => hw'[m] = hw[m]
    BY <1>4, <1>t DEF ClearFloor, DVFSReset, DVFSAfterSet
  <2> QED
    BY <2>1, <1>t, <1>c, <1>k
<1>5. ASSUME NEW n \in Governable, SetClock(n) PROVE CapRespected'
  <2>1. pc = n /\ ctx' = ctx /\ (hw' = hw \/ hw' = [hw EXCEPT ![n] = Stock[apm][n]] \/ hw' = [hw EXCEPT ![n] = Wanted(n)])
    BY <1>5 DEF SetClock
  <2>2. \A m \in Governable : hw'[m] = hw[m] \/ (m = n /\ hw'[m] \in {Stock[apm][n], Wanted(n)})
    BY <2>1, <1>t
  <2>3. pc \notin {"restore", "again"}
    BY <2>1 DEF Governable
  <2> QED
    BY <2>1, <2>2, <2>3, <1>t, <1>c, <1>k, StockWithin, WantedWithin
<1>6. CASE SetMem \/ ChangeMem
  <2>1. pc \in {"MEM", "set"} /\ ctx' = ctx /\ \A m \in Governable : hw'[m] = hw[m]
    BY <1>6, <1>t DEF SetMem, ChangeMem
  <2> QED
    BY <2>1, <1>c, <1>k
<1>7. CASE RestoreGpu
  <2>1. ctx' = ctx /\ \A m \in Governable : hw'[m] = hw[m] \/ m = "GPU"
    BY <1>7, <1>t DEF RestoreGpu
  <2>2. hw'["GPU"] = Stock[apm]["GPU"]
    BY <1>7, <1>t DEF RestoreGpu
  <2> QED
    BY <2>1, <2>2, <1>t, <1>c, <1>k, StockWithin
<1>8. CASE SetGpuAgain
  <2>1. ctx' = ctx /\ \A m \in Governable : hw'[m] = hw[m] \/ m = "GPU"
    BY <1>8, <1>t DEF SetGpuAgain
  <2>2. hw'["GPU"] = GpuAgain
    BY <1>8, <1>t DEF SetGpuAgain
  <2>3. Within("GPU", GpuAgain)
    BY <1>t, StockWithin, NearestWithin DEF GpuAgain
  <2> QED
    BY <2>1, <2>2, <2>3, <1>t, <1>c, <1>k
<1>9. CASE StopGovernors
  <2>1. pc = "stop" /\ ctx' = ctx /\ \A m \in Governable : hw'[m] \in {hw[m], Stock[apm][m]}
    BY <1>9, <1>t DEF StopGovernors
  <2> QED
    BY <2>1, <1>t, <1>c, <1>k, StockWithin
<1>10. ASSUME NEW n \in Governable, GovernorRun(n) PROVE CapRespected'
  <2>1. CASE UNCHANGED <<hw, freqs>>
    BY <1>10, <2>1, <1>1 DEF GovernorRun
  <2>2. pc' = pc
    BY <1>10 DEF GovernorRun
  <2>3. ASSUME NEW load \in Load, NEW minHz \in {0, MinHz},
               hw' = [hw EXCEPT ![n] = GovernorHz(n, load, minHz)]
        PROVE  CapRespected'
    <3>1. ctx' = ctx
      BY <1>10 DEF GovernorRun
    <3>2. \A m \in Governable : hw'[m] = hw[m] \/ (m = n /\ hw'[m] = GovernorHz(n, load, minHz))
      BY <2>3, <1>t
    <3> QED
      BY <3>1, <3>2, <2>2, <1>c, <1>k, GovernorWithin
  <2> QED
    BY <1>10, <2>1, <2>3 DEF GovernorRun
<1>11. CASE Environment
  <2>1. CASE UNCHANGED <<hw, ctx>>
    BY <1>11, <2>1, <1>1, EnvironmentKeepsThreads
  <2>2. ASSUME NEW conf \in ApmConf, ApmChange(conf) PROVE CapRespected'
    BY <2>2, <1>s DEF ApmChange
  <2>3. UNCHANGED ctx
    BY <1>11, EnvironmentKeepsThreads
  <2> QED
    BY <1>11, <2>1, <2>2, <2>3
       DEF Environment, SetOverride, SetProfiles, EditConfig, WorldChange, Exit, CalmDown
<1>12. CASE TickBegin \/ LoopExit \/ Settle \/ RefreshFreqs \/ RefreshConfig \/ DVFSBeforeSet
            \/ HandleGovernor \/ TickEnd
  BY <1>12, <1>1 DEF TickBegin, LoopExit, Settle, RefreshFreqs, RefreshConfig, DVFSBeforeSet,
                     HandleGovernor, TickEnd
<1>13. ASSUME NEW n \in Governable, GovernorCheck(n) \/ GovernorRelease(n) PROVE CapRespected'
  BY <1>13, <1>1 DEF GovernorCheck, GovernorRelease
<1>14. CASE UNCHANGED vars
  BY <1>14, <1>1 DEF vars
<1> QED
  BY <1>2, <1>3, <1>4, <1>5, <1>6, <1>7, <1>8, <1>9, <1>10, <1>11, <1>12, <1>13, <1>14
     DEF Next, MainInTick, Governor

(* On every console, with any table, configuration, load and interleaving, CPU
   and GPU run at a stock rate or within the cap of the profile the process
   last read, whether SetClocks, a reset of the dynamic voltage or a governor
   sets them: all but the GPU between the two calls of such a reset, the first
   of which drives it to PCV's highest rate. *)
THEOREM CapsHold == Spec => []CapRespected
<1>1. Init => CapRespected
  BY DEF Init, CapRespected
<1> QED
  BY <1>1, NextCap, TypeCorrect, PTL DEF Spec

-----------------------------------------------------------------------------
(* A governor and SetClocks agree on a target.                             *)

(* What SetClocks aims a clock at comes from the overrides or the configuration. *)
LEMMA TargetIsAsked ==
  ASSUME TypeOK, NEW m \in Clocks, Target(m) # 0
  PROVE  Target(m) \in ClockTarget(m)
<1> DEFINE mine == UNION {Sections[a] : a \in Title}
           asked == {MHz * Content[s][p][m] : s \in mine, p \in Profile}
<1>1. m \in Module /\ m # "Governor"
  BY Modules
<1>2. ASSUME NEW app \in Title, NEW q \in Profile, GetAutoClockHz(app, m, q) # 0
      PROVE  GetAutoClockHz(app, m, q) \in asked
  <2> DEFINE chain == FallbackProfiles(q)
             found == {i \in DOMAIN chain : Content[cfg[app]][chain[i]][m] # None(m)}
  <2>1. DOMAIN chain \subseteq Nat /\ \A i \in DOMAIN chain : chain[i] \in Profile
    BY DEF FallbackProfiles, Profile
  <2>2. found # {}
    BY <1>1, <1>2 DEF GetAutoClockHz, None
  <2>3. found \subseteq Nat /\ found \subseteq DOMAIN chain
    BY <2>1
  <2>4. Min(found) \in DOMAIN chain
    BY <2>2, <2>3, MinOfNats
  <2>5. chain[Min(found)] \in Profile /\ cfg[app] \in mine
    BY <2>1, <2>4, TitleSection DEF TypeOK
  <2>6. GetAutoClockHz(app, m, q) = MHz * Content[cfg[app]][chain[Min(found)]][m]
    BY <1>1, <2>2 DEF GetAutoClockHz
  <2> HIDE DEF found, chain
  <2>7. QED
    BY <2>5, <2>6
<1>3. ctx[1] \in Title /\ ctx[2] \in Profile /\ Global \in Title
  BY DEF TypeOK, Title
<1>4. ovr[m] \in Override[m]
  BY <1>1 DEF TypeOK
<1> HIDE DEF asked
<1>5. Target(m) \in Override[m] \/ Target(m) \in asked
  BY <1>1, <1>2, <1>3, <1>4 DEF Target, None
<1>6. QED
  BY <1>5 DEF ClockTarget, asked, mine

(* No target lies just above an entry: so it is for all that the overlay offers,
   entries in whole megahertz, which are nearest to the entry above them. *)
OfferedTargets ==
  \A m \in Governable : \A hz \in ClockTarget(m) :
    GetNearestHz(Table[m], hz, 0) >= hz \/ \A f \in Entries(Table[m]) : f <= hz

(* A governor asks for no more than the target and the cap. *)
LEMMA GovernorHzWithin ==
  ASSUME OfferedTargets, TypeOK, NEW m \in Governable, Target(m) # 0,
         NEW load \in Load, NEW minHz \in {0, MinHz}
  PROVE  GovernorHz(m, load, minHz) <= Wanted(m) \/ (m = "CPU" /\ GovernorHz(m, load, minHz) = MinHz)
<1> DEFINE top == Table[m][Len(Table[m])]
           cap == MaxHz(m, ctx[2])
           target == Target(m)
           wish == Limited(SchedutilTargetHz(load, top), target)
           asked == Limited(wish, cap)
           entry == TableHzFor(Table[m], asked)
<1>1. m \in Clocks /\ ctx[2] \in Profile
  BY Modules DEF TypeOK
<1>2. cap \in Nat /\ target \in Nat /\ IsFreqTable(Table[m]) /\ top \in Nat
  BY <1>1, MaxHzType, TargetType, Tables
<1>3. SchedutilTargetHz(load, top) \in Nat
  <2> HIDE DEF top
  <2>1. QED
    BY <1>2, SchedutilType
<1>4. wish \in Nat /\ wish <= target
  <2> HIDE DEF target, top
  <2>1. target # 0
    BY DEF target
  <2>2. QED
    BY <1>2, <1>3, <2>1 DEF Limited
<1>5. asked \in Nat /\ asked <= target /\ (cap = 0 \/ asked <= cap)
  <2> HIDE DEF wish, cap, target
  <2>1. QED
    BY <1>2, <1>4 DEF Limited
<1>6. GetNearestHz(Table[m], target, 0) >= target \/ \A f \in Entries(Table[m]) : f <= target
  BY <1>1, TargetIsAsked DEF OfferedTargets
<1>7. entry <= Wanted(m)
  <2>1. Wanted(m) = GetNearestHz(Table[m], target, cap)
    BY DEF Wanted
  <2> HIDE DEF asked, cap, target
  <2>2. QED
    BY <1>2, <1>5, <1>6, <2>1, AtLeastWithinNearest
<1>8. entry \in Nat
  BY <1>1, Tables, AtLeastInTable
<1>9. GovernorHz(m, load, minHz) = IF m = "CPU" /\ entry < minHz THEN minHz ELSE entry
  BY DEF GovernorHz
<1> HIDE DEF entry
<1>10. minHz = 0 => ~(entry < minHz)
  BY <1>8
<1>11. QED
  BY <1>7, <1>9, <1>10

(* On every console, with any table, load and interleaving, a governor that sets
   its clock under a target sets no more than SetClocks would, as far as no
   target lies just above an entry: its search upwards (governor.cpp) and the
   search for the nearest (clock_manager.cpp) never disagree about the ceiling. *)
THEOREM GovernorKeepsTarget ==
  ASSUME OfferedTargets
  PROVE  Spec => GovernorWithinTarget
<1> DEFINE Kept ==
      \A m \in Governable :
        lock = Free /\ lock' = m /\ hw'[m] # hw[m] /\ Target(m) # 0 =>
          hw'[m] <= Wanted(m) \/ (m = "CPU" /\ hw'[m] = MinHz)
<1>1. TypeOK /\ [Next]_vars => Kept
  <2> SUFFICES ASSUME TypeOK, [Next]_vars, NEW m \in Governable,
                      lock = Free, lock' = m, hw'[m] # hw[m], Target(m) # 0
               PROVE  hw'[m] <= Wanted(m) \/ (m = "CPU" /\ hw'[m] = MinHz)
    OBVIOUS
  <2>1. m # Free /\ m # "main"
    BY DEF Governable, Free
  <2>2. PICK n \in Governable : GovernorRun(n)
    <3>1. ~(TickBegin \/ LoopExit \/ Environment \/ UNCHANGED vars)
      BY <2>1 DEF TickBegin, LoopExit, Environment, SetOverride, SetProfiles, EditConfig, ApmChange,
                  WorldChange, Exit, CalmDown, vars
    <3>2. ~MainInTick
      BY <2>1 DEF MainInTick, HandleSafetyFeatures, RefreshTitle, ClearFloor, Settle, RefreshFreqs,
                  RestoreGpu, RefreshConfig, SetClock, SetMem, DVFSReset, DVFSBeforeSet, ChangeMem,
                  DVFSAfterSet, SetGpuAgain, HandleGovernor, StopGovernors, TickEnd
    <3>3. \A n \in Governable : ~GovernorCheck(n) /\ ~GovernorRelease(n)
      BY <2>1 DEF GovernorCheck, GovernorRelease
    <3>4. QED
      BY <3>1, <3>2, <3>3 DEF Next, Governor
  <2>3. n = m
    BY <2>2 DEF GovernorRun
  <2>4. PICK load \in Load, minHz \in {0, MinHz} : hw' = [hw EXCEPT ![m] = GovernorHz(m, load, minHz)]
    BY <2>2, <2>3 DEF GovernorRun
  <2>5. hw'[m] = GovernorHz(m, load, minHz)
    BY <2>4, Modules DEF TypeOK
  <2>6. QED
    BY <2>5, GovernorHzWithin
<1>2. QED
  BY <1>1, TypeCorrect, PTL DEF Spec, GovernorWithinTarget
=============================================================================

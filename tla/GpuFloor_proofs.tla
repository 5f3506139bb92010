-------------------------- MODULE GpuFloor_proofs --------------------------
(***************************************************************************)
(* The GPU voltage floor always serves the RAM clock, for every console,   *)
(* table, offset and configuration, as long as PCV can be attached to.     *)
(***************************************************************************)
EXTENDS ClockManager_proofs

-----------------------------------------------------------------------------
(* The floor as a function of the RAM clock. *)

(* A faster RAM clock never asks for less. *)
LEMMA VminMonotone ==
  ASSUME NEW low \in Nat, NEW high \in Nat, low <= high
  PROVE  MemVmin(low) <= MemVmin(high)
<1> DEFINE enough(hz) == {i \in 1 .. 22 : hz \div MHz <= RamTable[Bracket + 1][i]}
<1>1. low \div MHz \in Nat /\ high \div MHz \in Nat /\ low \div MHz <= high \div MHz
  BY DEF MHz
<1>2. \A hz : MemVmin(hz) \in 590 .. 800 \cup {0}
  BY VminRange
<1>3. CASE low \div MHz <= 1600
  <2>1. MemVmin(low) = 0
    BY <1>3 DEF MemVmin, GetMinimumGpuVmin
  <2> QED
    BY <2>1, <1>2
<1>4. CASE ~(low \div MHz <= 1600) /\ enough(high) = {}
  <2>1. ~(high \div MHz <= 1600)
    BY <1>1, <1>4
  <2>2. MemVmin(high) = 800
    BY <2>1, <1>4 DEF MemVmin, GetMinimumGpuVmin
  <2> QED
    BY <2>2, <1>2
<1>5. CASE ~(low \div MHz <= 1600) /\ enough(high) # {}
  <2>1. ~(high \div MHz <= 1600)
    BY <1>1, <1>5
  <2>2. \A i \in 1 .. 22 : RamTable[Bracket + 1][i] \in Nat
    BY ClockAssumption DEF RamTable
  <2>3. enough(high) \subseteq enough(low) /\ enough(low) \subseteq Nat /\ enough(high) \subseteq Nat
    BY <2>2, <1>1
  <2>4. MemVmin(high) = 580 + 10 * Min(enough(high)) /\ MemVmin(low) = 580 + 10 * Min(enough(low))
    <3>1. enough(low) # {}
      BY <2>3, <1>5
    <3> QED
      BY <3>1, <2>1, <1>5 DEF MemVmin, GetMinimumGpuVmin
  <2> HIDE DEF enough
  <2>5. Min(enough(high)) \in enough(high) /\ Min(enough(high)) \in Nat
    BY <2>3, <1>5, MinOfNats
  <2>6. Min(enough(low)) \in Nat /\ Min(enough(low)) <= Min(enough(high))
    BY <2>3, <2>5, MinOfNats
  <2> QED
    BY <2>4, <2>5, <2>6
<1> QED
  BY <1>3, <1>4, <1>5

(* Neither does the offset change the order of two floors. *)
LEMMA FloorOrder ==
  ASSUME NEW low, NEW high, MemVmin(low) <= MemVmin(high)
  PROVE  FloorAfter(low) <= FloorAfter(high)
<1>1. MemVmin(low) \in 590 .. 800 \cup {0} /\ MemVmin(high) \in 590 .. 800 \cup {0}
  BY VminRange
<1>2. DvfsOffset \in -80 .. 20
  BY ClockAssumption
<1>3. CASE MemVmin(low) = 0
  BY <1>1, <1>2, <1>3 DEF FloorAfter
<1>4. CASE MemVmin(low) # 0
  <2>1. MemVmin(high) # 0 /\ MemVmin(low) \in Int /\ MemVmin(high) \in Int
    BY <1>1, <1>4
  <2> QED
    BY <2>1, <1>2, <1>4 DEF FloorAfter
<1> QED
  BY <1>3, <1>4

(* The floor that goes up before a change is at least the one that is due. *)
LEMMA BeforeIsEnough ==
  ASSUME NEW hz
  PROVE  FloorBefore(hz) >= FloorAfter(hz)
<1>1. MemVmin(hz) \in 590 .. 800 \cup {0}
  BY VminRange
<1>2. DvfsOffset \in -80 .. 20 /\ Word \in Nat /\ Word > 1000
  BY ClockAssumption
<1>3. FloorBefore(hz) \in 0 .. Word - 1
  BY FloorType
<1>4. CASE MemVmin(hz) = 0
  BY <1>4, <1>2, <1>3 DEF FloorAfter
<1>5. CASE MemVmin(hz) # 0
  <2>1. MemVmin(hz) + DvfsOffset \in 0 .. Word - 1
    BY <1>1, <1>2, <1>5
  <2>2. \A x \in Int, w \in Nat : x \in 0 .. w - 1 => x % w = x
    OBVIOUS
  <2>3. FloorBefore(hz) = MemVmin(hz) + DvfsOffset
    BY <2>1, <2>2, <1>2 DEF FloorBefore
  <2> QED
    BY <2>3, <1>5, <2>1 DEF FloorAfter
<1> QED
  BY <1>4, <1>5

-----------------------------------------------------------------------------
(* The floor while the main thread changes the RAM clock. *)

(* Between the steps of a change the main thread's locals tell what the floor  *)
(* covers: in front of the new clock already the target, and in front of a     *)
(* lower floor, or of none, no more than the RAM clock in force needs.         *)
FloorInv ==
  /\ FloorCoversMem
  /\ pc \in {"raise", "set", "lower"} => targetHz \in ClockTarget("MEM")
  /\ Hijack /\ pc = "set" => ramVmin >= FloorAfter(targetHz)
  /\ pc \in {"raise", "lower"} => FloorAfter(hw["MEM"]) <= FloorAfter(targetHz)
  /\ pc \in {"floor", "reset"} => FloorAfter(hw["MEM"]) = 0
  /\ pc \in {"raise", "lower", "floor", "reset"} => Hijack

(* A RAM clock of the console's own needs no floor. *)
LEMMA StockNeedsNoFloor ==
  ASSUME NEW conf \in ApmConf
  PROVE  FloorAfter(Stock[conf]["MEM"]) = 0
BY FloorAssumption DEF FloorAfter

LEMMA FloorNat ==
  ASSUME NEW hz
  PROVE  FloorAfter(hz) \in Nat
BY FloorType, ClockAssumption

LEMMA NextFloor == ~PcvDebugFails /\ TypeOK /\ FloorInv /\ [Next]_vars => FloorInv'
<1> SUFFICES ASSUME ~PcvDebugFails, TypeOK, FloorInv, [Next]_vars PROVE FloorInv'
  OBVIOUS
<1> USE DEF env, store, shared, flags, locals, iteration
<1>h. hw \in [Clocks -> Nat] /\ ramVmin \in Nat /\ apm \in ApmConf /\ targetHz \in Nat /\ oldHz \in Nat
  BY ClockAssumption DEF TypeOK
<1>m. "MEM" \in Clocks /\ "MEM" \notin Governable /\ "GPU" # "MEM"
  BY Modules
<1>n. \A hz : FloorAfter(hz) \in Nat
  BY FloorNat
<1>s. Stock[apm] \in [Clocks -> Nat] /\ FloorAfter(Stock[apm]["MEM"]) = 0
  BY <1>h, StockType, StockNeedsNoFloor
<1>p. SetClocksPcOf(isBoost) \in {"unlock", "CPU"}
  BY DEF SetClocksPcOf
\* Where the RAM clock, the floor and the locals stay and no change is under way.
<1>q. ASSUME hw'["MEM"] = hw["MEM"], ramVmin' = ramVmin,
             pc' \notin {"raise", "set", "lower", "floor", "reset"}
      PROVE  FloorInv'
  BY <1>q DEF FloorInv, FloorCoversMem, FloorAfter, MemVmin
<1>1. CASE TickBegin \/ LoopExit \/ Settle \/ RefreshFreqs \/ RefreshConfig \/ HandleGovernor \/ TickEnd
  <2>1. UNCHANGED <<hw, ramVmin>> /\ pc' \notin {"raise", "set", "lower", "floor", "reset"}
    BY <1>1, <1>p DEF TickBegin, LoopExit, Settle, RefreshFreqs, RefreshConfig, HandleGovernor, TickEnd
  <2> QED
    BY <2>1, <1>q
<1>2. CASE HandleSafetyFeatures \/ StopGovernors
  <2>1. hw'["MEM"] = hw["MEM"]
    BY <1>2, <1>h, <1>m DEF HandleSafetyFeatures, StopGovernors
  <2>2. ramVmin' = ramVmin /\ pc' \notin {"raise", "set", "lower", "floor", "reset"}
    BY <1>2 DEF HandleSafetyFeatures, StopGovernors
  <2> QED
    BY <2>1, <2>2, <1>q
<1>3. CASE RefreshTitle
  <2>1. CASE world = ctx
    BY <1>3, <2>1, <1>q DEF RefreshTitle
  <2>2. CASE world # ctx
    <3>1. hw' = Stock[apm] /\ ramVmin' = ramVmin /\ pc' = IF Hijack THEN "floor" ELSE "settle"
      BY <1>3, <2>2 DEF RefreshTitle
    <3>2. FloorAfter(hw["MEM"])' = 0
      BY <3>1, <1>s DEF FloorAfter, MemVmin
    <3> QED
      BY <3>1, <3>2, <1>h DEF FloorInv, FloorCoversMem
  <2> QED
    BY <2>1, <2>2
<1>4. CASE ClearFloor \/ DVFSReset
  <2>1. ramVmin' = 0 /\ hw'["MEM"] = hw["MEM"] /\ pc' \in {"restore", "again"}
    BY <1>4, <1>h, <1>m DEF ClearFloor, DVFSReset, PcvHijackGpuVolts
  <2>2. FloorAfter(hw["MEM"]) = 0
    BY <1>4 DEF FloorInv, ClearFloor, DVFSReset
  <2>3. FloorAfter(hw["MEM"])' = 0
    BY <2>1, <2>2 DEF FloorAfter, MemVmin
  <2> QED
    BY <2>1, <2>3 DEF FloorInv, FloorCoversMem
<1>5. ASSUME NEW m \in Governable, SetClock(m) PROVE FloorInv'
  <2>1. hw'["MEM"] = hw["MEM"]
    BY <1>5, <1>h, <1>m DEF SetClock
  <2>2. ramVmin' = ramVmin /\ pc' \notin {"raise", "set", "lower", "floor", "reset"}
    BY <1>5 DEF SetClock
  <2> QED
    BY <2>1, <2>2, <1>q
<1>6. CASE SetMem
  <2>t. targetHz' = Target("MEM") /\ oldHz' = hw["MEM"] /\ ramVmin' = ramVmin
    BY <1>6 DEF SetMem
  <2>1. CASE Target("MEM") = 0
    <3>1. hw'["MEM"] = Stock[apm]["MEM"] /\ pc' \in {"reset", "Governor"} /\ (pc' = "reset" => Hijack)
      BY <1>6, <2>1, <2>t, <1>h, <1>m DEF SetMem
    <3>2. FloorAfter(hw["MEM"])' = 0
      BY <3>1, <1>s DEF FloorAfter, MemVmin
    <3> QED
      BY <3>1, <3>2, <2>t, <1>h DEF FloorInv, FloorCoversMem
  <2>2. CASE Target("MEM") # 0
    <3>1. hw' = hw /\ pc' \in {"Governor", "raise", "set"} /\ (pc' = "raise" => Hijack)
      BY <1>6, <2>2, <2>t DEF SetMem, Raises
    <3>2. /\ Hijack /\ pc' = "set" => Target("MEM") <= hw["MEM"]
          /\ pc' = "raise" => hw["MEM"] <= Target("MEM")
      <4>1. Target("MEM") \in Nat /\ hw["MEM"] \in Nat
        BY <1>h, <1>m, TargetType
      <4> QED
        BY <4>1, <1>6, <2>2, <2>t DEF SetMem, Raises
    <3>3. targetHz' \in ClockTarget("MEM")
      BY <2>2, <2>t, TargetIsAsked, Modules
    <3>4. FloorAfter(hw["MEM"])' = FloorAfter(hw["MEM"]) /\ FloorAfter(targetHz)' = FloorAfter(Target("MEM"))
      BY <3>1, <2>t DEF FloorAfter, MemVmin
    <3>5. /\ Hijack /\ pc' = "set" => FloorAfter(Target("MEM")) <= FloorAfter(hw["MEM"])
          /\ pc' = "raise" => FloorAfter(hw["MEM"]) <= FloorAfter(Target("MEM"))
      <4>1. Target("MEM") \in Nat /\ hw["MEM"] \in Nat
        BY <1>h, <1>m, TargetType
      <4> QED
        BY <4>1, <3>2, VminMonotone, FloorOrder
    <3>6. Hijack => ramVmin >= FloorAfter(hw["MEM"])
      BY DEF FloorInv, FloorCoversMem
    <3>7. Hijack /\ pc' = "set" => ramVmin' >= FloorAfter(targetHz)'
      BY <3>4, <3>5, <3>6, <2>t, <1>n, <1>h
    <3> QED
      BY <3>1, <3>3, <3>4, <3>5, <3>6, <3>7, <2>t DEF FloorInv, FloorCoversMem
  <2> QED
    BY <2>1, <2>2
<1>7. CASE DVFSBeforeSet
  <2>1. pc = "raise" /\ pc' = "set" /\ hw' = hw /\ targetHz' = targetHz
        /\ ramVmin' = FloorBefore(targetHz)
    BY <1>7 DEF DVFSBeforeSet, PcvHijackGpuVolts
  <2>2. ramVmin' >= FloorAfter(targetHz) /\ FloorAfter(hw["MEM"]) <= FloorAfter(targetHz)
    BY <2>1, BeforeIsEnough DEF FloorInv
  <2>3. FloorAfter(hw["MEM"])' = FloorAfter(hw["MEM"]) /\ FloorAfter(targetHz)' = FloorAfter(targetHz)
    BY <2>1 DEF FloorAfter, MemVmin
  <2>4. ramVmin' \in Nat
    BY <2>1, FloorType, ClockAssumption
  <2>5. ramVmin' >= FloorAfter(hw["MEM"])
    BY <2>2, <2>4, <1>n
  <2> QED
    BY <2>1, <2>2, <2>3, <2>5 DEF FloorInv, FloorCoversMem
<1>8. CASE ChangeMem
  <2> DEFINE nearestHz == GetNearestHz(Table["MEM"], targetHz, MaxHz("MEM", ctx[2]))
  <2>1. hw'["MEM"] = nearestHz /\ ramVmin' = ramVmin /\ targetHz' = targetHz
        /\ pc = "set" /\ pc' \in {"lower", "Governor"} /\ (pc' = "lower" => Hijack)
    BY <1>8, <1>h, <1>m DEF ChangeMem
  <2>2. targetHz \in ClockTarget("MEM") /\ ctx[2] \in Profile
    BY <2>1 DEF FloorInv, TypeOK
  <2>3. MemVmin(nearestHz) <= MemVmin(targetHz)
    BY <2>2, FloorAssumption
  <2> HIDE DEF nearestHz
  <2>4. FloorAfter(nearestHz) <= FloorAfter(targetHz)
    BY <2>3, FloorOrder
  <2>5. Hijack => ramVmin >= FloorAfter(targetHz)
    BY <2>1 DEF FloorInv
  <2>6. FloorAfter(hw["MEM"])' = FloorAfter(nearestHz) /\ FloorAfter(targetHz)' = FloorAfter(targetHz)
    BY <2>1 DEF FloorAfter, MemVmin
  <2>7. Hijack => ramVmin' >= FloorAfter(hw["MEM"])'
    BY <2>1, <2>4, <2>5, <2>6, <1>n, <1>h
  <2> QED
    BY <2>1, <2>2, <2>4, <2>6, <2>7 DEF FloorInv, FloorCoversMem
<1>9. CASE DVFSAfterSet
  <2>1. pc = "lower" /\ pc' = "again" /\ hw'["MEM"] = hw["MEM"] /\ ramVmin' = FloorAfter(targetHz)
    BY <1>9, <1>h, <1>m DEF DVFSAfterSet, PcvHijackGpuVolts
  <2>2. FloorAfter(hw["MEM"]) <= FloorAfter(targetHz)
    BY <2>1 DEF FloorInv
  <2>3. FloorAfter(hw["MEM"])' = FloorAfter(hw["MEM"])
    BY <2>1 DEF FloorAfter, MemVmin
  <2> QED
    BY <2>1, <2>2, <2>3, <1>n DEF FloorInv, FloorCoversMem
<1>10. ASSUME NEW m \in Governable, GovernorCheck(m) \/ GovernorRun(m) \/ GovernorRelease(m) PROVE FloorInv'
  <2>1. hw'["MEM"] = hw["MEM"]
    BY <1>10, <1>h, <1>m DEF GovernorCheck, GovernorRun, GovernorRelease
  <2>2. UNCHANGED <<ramVmin, pc, targetHz>>
    BY <1>10 DEF GovernorCheck, GovernorRun, GovernorRelease
  <2> QED
    BY <2>1, <2>2 DEF FloorInv, FloorCoversMem, FloorAfter, MemVmin
<1>11. CASE Environment
  <2>1. UNCHANGED <<ramVmin, pc, targetHz>>
    BY <1>11, EnvironmentKeepsThreads
  <2>2. hw' = hw \/ \E conf \in ApmConf : hw' = Stock[conf]
    BY <1>11 DEF Environment, SetOverride, SetProfiles, EditConfig, ApmChange, WorldChange, Exit, CalmDown
  <2>3. CASE hw' = hw
    BY <2>1, <2>3 DEF FloorInv, FloorCoversMem, FloorAfter, MemVmin
  <2>4. ASSUME NEW conf \in ApmConf, hw' = Stock[conf] PROVE FloorInv'
    <3>1. FloorAfter(hw["MEM"])' = 0
      BY <2>4, StockNeedsNoFloor DEF FloorAfter, MemVmin
    <3>2. FloorAfter(targetHz)' = FloorAfter(targetHz)
      BY <2>1 DEF FloorAfter, MemVmin
    <3> QED
      BY <2>1, <3>1, <3>2, <1>h, <1>n DEF FloorInv, FloorCoversMem
  <2> QED
    BY <2>2, <2>3, <2>4
<1>12. CASE UNCHANGED vars
  BY <1>12 DEF vars, FloorInv, FloorCoversMem, FloorAfter, MemVmin
<1>13. CASE RestoreGpu \/ SetGpuAgain
  <2>1. hw'["MEM"] = hw["MEM"]
    BY <1>13, <1>h, <1>m DEF RestoreGpu, SetGpuAgain
  <2>2. ramVmin' = ramVmin /\ pc' \notin {"raise", "set", "lower", "floor", "reset"}
    BY <1>13 DEF RestoreGpu, SetGpuAgain
  <2> QED
    BY <2>1, <2>2, <1>q
<1> QED
  BY <1>1, <1>2, <1>3, <1>4, <1>5, <1>6, <1>7, <1>8, <1>9, <1>10, <1>11, <1>12, <1>13
     DEF Next, MainInTick, Governor

(* As long as PCV can be attached to, the GPU voltage floor serves the RAM
   clock in force at every step of every thread: it goes up before a faster
   clock, comes down after a slower one, and is cleared only behind a reset. *)
THEOREM FloorHolds ==
  ASSUME ~PcvDebugFails
  PROVE  Spec => []FloorCoversMem
<1>1. Init => FloorInv
  <2> SUFFICES ASSUME Init PROVE FloorInv
    OBVIOUS
  <2>1. ramVmin = 0 /\ pc = "loop" /\ FloorAfter(hw["MEM"]) = 0
    BY StockNeedsNoFloor DEF Init
  <2> QED
    BY <2>1 DEF FloorInv, FloorCoversMem
<1>2. TypeOK /\ FloorInv /\ [Next]_vars => FloorInv'
  BY NextFloor
<1>3. FloorInv => FloorCoversMem
  BY DEF FloorInv
<1> QED
  BY <1>1, <1>2, <1>3, TypeCorrect, PTL DEF Spec
=============================================================================

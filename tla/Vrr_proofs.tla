------------------------------ MODULE Vrr_proofs ------------------------------
(***************************************************************************)
(* What the display driver and the VRR thread keep, for any consoles,      *)
(* televisions, frame rates, wishes and bounds: the built-in display stays *)
(* within its range, a television within its modes, a pass of the thread   *)
(* that was stopped is the last one, and the answer about the focus is old *)
(* only after a failure.                                                   *)
(***************************************************************************)
EXTENDS Vrr, FreqTable_proofs

LEMMA MaxOfRates ==
  ASSUME NEW S, S \subseteq 0 .. 240, S # {}
  PROVE  Max(S) \in S /\ \A x \in S : x <= Max(S)
<1> DEFINE T == {240 - x : x \in S}
<1>1. T \subseteq Nat /\ T # {}
  <2>1. \A x \in S : 240 - x \in Nat
    OBVIOUS
  <2>2. QED
    BY <2>1
<1>2. Min(T) \in T /\ \A y \in T : Min(T) <= y
  BY <1>1, MinOfNats
<1>3. PICK m \in S : Min(T) = 240 - m
  BY <1>2
<1>4. \A x \in S : x <= m
  <2> SUFFICES ASSUME NEW x \in S PROVE x <= m
    OBVIOUS
  <2>1. 240 - x \in T
    OBVIOUS
  <2>2. 240 - m <= 240 - x
    BY <1>2, <1>3, <2>1
  <2>3. QED
    BY <2>2
<1>5. \E m_1 \in S : \A x \in S : m_1 >= x
  BY <1>4
<1>6. QED
  BY <1>5 DEF Max

\* The driver's choice for the panel is one of its rates, whatever is asked for.
LEMMA PanelRateInRange ==
  ASSUME NEW rate \in Nat, NEW factors \in SUBSET Nat
  PROVE  PanelRate(rate, factors) \in PanelMin .. PanelMax
<1> DEFINE F == Fitting(rate, factors)
<1>1. F \subseteq PanelMin .. PanelMax /\ PanelMin .. PanelMax \subseteq Nat
  BY DEF Fitting, PanelMin, PanelMax
<1>2. F # {} => Min(F) \in PanelMin .. PanelMax
  <2> HIDE DEF F
  <2> QED BY <1>1, MinOfNats
<1>3. StockRate \in PanelMin .. PanelMax /\ PanelMax \in PanelMin .. PanelMax
  BY DEF StockRate, PanelMin, PanelMax
<1>4. rate > PanelMax \/ rate \in PanelMin .. PanelMax \/ rate < PanelMin
  BY DEF PanelMin, PanelMax
<1>5. CASE rate > PanelMax
  BY <1>3, <1>5 DEF PanelRate, PanelMin, PanelMax
<1>6. CASE rate \in PanelMin .. PanelMax
  BY <1>6 DEF PanelRate, PanelMin, PanelMax
<1>7. CASE rate < PanelMin
  <2>1. PanelRate(rate, factors) \in {StockRate} \cup (IF F = {} THEN {} ELSE {Min(F)})
    BY <1>7 DEF PanelRate, PanelMin, PanelMax
  <2>2. QED
    BY <2>1, <1>2, <1>3
<1>8. QED
  BY <1>4, <1>5, <1>6, <1>7

\* Its choice for a television is no more than the highest it allows.
LEMMA TvRateAllowed ==
  ASSUME NEW rate \in Nat \ {0}, highest \in 60 .. 240
  PROVE  TvRate(rate) \in DockedRates /\ TvRate(rate) <= highest
<1> DEFINE M == {r \in DockedRates : r % rate = 0}
           w == IF (rate <= 60 /\ 60 % rate = 0) \/ M = {} THEN 60 ELSE Min(M)
           S == {r \in DockedRates : r <= w /\ r <= highest}
<1>1. (\A r \in DockedRates : r \in Nat /\ r <= 240) /\ 60 \in DockedRates
  BY DEF DockedRates
<1>2. w \in DockedRates
  <2>1. M \subseteq Nat /\ M \subseteq DockedRates
    BY <1>1
  <2>2. M # {} => Min(M) \in M
    <3> HIDE DEF M
    <3> QED BY <2>1, MinOfNats
  <2>3. QED
    BY <1>1, <2>1, <2>2
<1>3. TvRate(rate) = IF w <= highest THEN w ELSE Max(S)
  BY DEF TvRate
<1>4. CASE w <= highest
  BY <1>2, <1>3, <1>4
<1>5. CASE ~(w <= highest)
  <2> HIDE DEF w
  <2>1. w > highest /\ w \in Nat
    BY <1>1, <1>2, <1>5
  <2>2. 60 \in S
    BY <1>1, <2>1
  <2>3. S \subseteq 0 .. 240
    BY <1>1
  <2>4. Max(S) \in S
    <3> HIDE DEF S
    <3> QED BY <2>2, <2>3, MaxOfRates
  <2>5. QED
    BY <1>3, <1>5, <2>4
<1>6. QED
  BY <1>4, <1>5

-----------------------------------------------------------------------------
(* The driver.                                                             *)

\* While the console is handheld, what was learnt of a television is forgotten as soon as
\* that is noticed; what is used in a dock was learnt of its television.
Learnt ==
  ~console.retro =>
  /\ Handheld /\ canChange => unseen
  /\ ~Handheld /\ ~swapped => tv <= Highest(dock) /\ (canChange => highest <= Highest(dock))
DisplayInv == DisplayTypeOK /\ PanelInRange /\ Learnt

LEMMA HighestOfTv == ASSUME NEW t \in Tvs PROVE Highest(t) \in 60 .. 240
<1> DEFINE S == {StockRate, t.max}
<1>1. t.max \in 40 .. 240
  BY DisplayAssumption
<1>2. S \subseteq 0 .. 240 /\ S # {} /\ StockRate \in S
  BY <1>1 DEF StockRate
<1>3. Max(S) \in S /\ StockRate <= Max(S)
  <2> HIDE DEF S
  <2> QED BY <1>2, MaxOfRates
<1>4. QED
  BY <1>2, <1>3 DEF Highest, StockRate

LEMMA DisplayInitInv == ASSUME DisplayInit PROVE DisplayInv
<1>1. DisplayTypeOK
  <2>1. 60 \in DockedRates
    BY DEF DockedRates
  <2>2. dock \in Tvs \cup {NoTv}
    BY DEF DisplayInit
  <2>3. console \in Consoles /\ panel = 60 /\ tv = 60 /\ highest = 60 /\ lines = 1080
    BY DEF DisplayInit, StockRate
  <2>4. panel \in Nat /\ tv \in DockedRates /\ highest \in 60 .. 240 /\ lines \in {720, 1080}
    BY <2>1, <2>3
  <2>5. isDocked \in BOOLEAN /\ canChange \in BOOLEAN /\ unseen \in BOOLEAN /\ swapped \in BOOLEAN
    BY Zenon DEF DisplayInit
  <2>6. QED
    BY <2>2, <2>3, <2>4, <2>5 DEF DisplayTypeOK
<1>2. PanelInRange
  BY DEF DisplayInit, PanelInRange, StockRate, PanelMin, PanelMax
<1>3. Learnt
  <2>1. ~Handheld => Highest(dock) \in 60 .. 240
    BY <1>1, HighestOfTv DEF DisplayTypeOK, Handheld
  <2>2. tv = 60 /\ ~canChange
    BY DEF DisplayInit, StockRate
  <2>3. QED
    BY <2>1, <2>2 DEF Learnt
<1>4. QED
  BY <1>1, <1>2, <1>3 DEF DisplayInv

LEMMA DockKeeps ==
  ASSUME DisplayInv, (\E t \in Tvs : Dock(t)) \/ Undock
  PROVE  DisplayInv'
<1>1. 60 \in DockedRates /\ 60 \in PanelMin .. PanelMax
  BY DEF DockedRates, PanelMin, PanelMax
<1>2. CASE \E t \in Tvs : Dock(t)
  <2>1. PICK t \in Tvs : Dock(t)
    BY <1>2
  <2>2. Highest(t) \in 60 .. 240
    BY HighestOfTv
  <2>3. QED
    BY <1>1, <2>1, <2>2
    DEF Dock, driver, DisplayInv, DisplayTypeOK, PanelInRange, Learnt, StockRate, Handheld, Highest
<1>3. CASE Undock
  BY <1>1, <1>3
  DEF Undock, driver, DisplayInv, DisplayTypeOK, PanelInRange, Learnt, StockRate, Handheld
<1>4. QED
  BY <1>2, <1>3

LEMMA SetRateKeeps ==
  ASSUME DisplayInv, NEW rate \in Nat, SetRate(rate)
  PROVE  DisplayInv'
<1>1. panel \in PanelMin .. PanelMax /\ highest \in 60 .. 240 /\ tv \in DockedRates
  BY DEF DisplayInv, DisplayTypeOK, PanelInRange
<1>2. panel' \in PanelMin .. PanelMax
  <2>1. PllRate(rate) \in PanelMin .. PanelMax
    <3>1. PanelRate(rate, 2 .. 4) \in PanelMin .. PanelMax
      BY PanelRateInRange
    <3>2. QED
      BY <3>1, <1>1 DEF PllRate
  <2>2. RetroRate(rate) \in PanelMin .. PanelMax
    <3>1. PanelRate(rate, 2 .. 21) \in PanelMin .. PanelMax
      BY PanelRateInRange
    <3>2. QED
      BY <3>1, <1>1 DEF RetroRate, PanelMin, PanelMax
  <2>3. QED
    BY <1>1, <2>1, <2>2 DEF SetRate
<1>3. tv' = tv \/ (~Handheld /\ canChange /\ tv' \in DockedRates /\ tv' <= highest)
  BY <1>1, TvRateAllowed DEF SetRate, OnTv
<1>4. panel' \in Nat
  BY <1>2 DEF PanelMin, PanelMax
<1>5. DisplayTypeOK' /\ PanelInRange'
  BY <1>1, <1>2, <1>3, <1>4 DEF SetRate, driver, ghosts, DisplayInv, DisplayTypeOK, PanelInRange
<1>6. Learnt'
  <2>1. UNCHANGED <<console, dock, canChange, highest, unseen, swapped>>
    BY DEF SetRate, driver, ghosts
  <2>2. ~Handheld => Highest(dock) \in 60 .. 240
    BY HighestOfTv DEF DisplayInv, DisplayTypeOK, Handheld
  <2>3. \A r \in DockedRates : r \in Nat
    BY DEF DockedRates
  <2>4. QED
    BY <1>1, <1>3, <2>1, <2>2, <2>3 DEF DisplayInv, Learnt, Handheld, Highest
<1>7. QED
  BY <1>5, <1>6 DEF DisplayInv

LEMMA LookKeeps ==
  ASSUME DisplayInv, NEW docked \in BOOLEAN, LookAs(docked)
  PROVE  DisplayInv'
<1>1. ~Handheld => dock \in Tvs /\ Highest(dock) \in 60 .. 240 /\ dock.lines \in {720, 1080}
  BY HighestOfTv, DisplayAssumption DEF DisplayInv, DisplayTypeOK, Handheld
<1>2. SeesTv => ~Handheld
  BY DEF SeesTv
<1>3. UNCHANGED <<console, dock, panel, tv, swapped>>
  BY DEF LookAs, hardware
<1>4. /\ canChange' = (~SeesPanel /\ (canChange \/ SeesTv))
      /\ highest' = IF SeesTv /\ (~canChange \/ lines # dock.lines) THEN Highest(dock) ELSE highest
      /\ lines' = IF SeesTv THEN dock.lines ELSE lines
      /\ isDocked' = docked
      /\ unseen' = (unseen /\ ~(Handheld /\ ~ReadsDocked))
  BY DEF LookAs, GetRateLearns
<1>5. SeesTv \in BOOLEAN /\ SeesPanel \in BOOLEAN
  BY DEF SeesTv, SeesPanel
<1>6. DisplayTypeOK' /\ PanelInRange'
  <2>1. DisplayTypeOK /\ PanelInRange
    BY DEF DisplayInv
  <2>2. console' \in Consoles /\ dock' \in Tvs \cup {NoTv} /\ panel' \in Nat /\ tv' \in DockedRates
    BY <1>3, <2>1 DEF DisplayTypeOK
  <2>3. canChange' \in BOOLEAN /\ unseen' \in BOOLEAN
    BY <1>4, Zenon
  <2>4. isDocked' \in BOOLEAN
    BY <1>4
  <2>5. highest' \in 60 .. 240 /\ lines' \in {720, 1080}
    BY <1>1, <1>2, <1>4, <2>1 DEF DisplayTypeOK
  <2>6. swapped' \in BOOLEAN
    BY <1>3, <2>1 DEF DisplayTypeOK
  <2>7. QED
    BY <1>3, <2>1, <2>2, <2>3, <2>4, <2>5, <2>6 DEF DisplayTypeOK, PanelInRange
<1>7. Learnt'
  <2>1. ~console.retro => (SeesPanel <=> ~ReadsDocked)
    BY DEF SeesPanel, ByMode
  <2>2. Handheld => ~SeesTv
    BY <1>2
  <2>3. Handheld /\ canChange' /\ ~console.retro => unseen'
    BY <1>4, <2>1, <2>2 DEF DisplayInv, Learnt
  <2>4. ~Handheld /\ ~swapped /\ ~console.retro
        => tv <= Highest(dock) /\ (canChange' => highest' <= Highest(dock))
    BY <1>1, <1>4, <1>5 DEF DisplayInv, DisplayTypeOK, Learnt
  <2>5. QED
    BY <1>3, <2>3, <2>4 DEF Learnt, Handheld, Highest
<1>8. QED
  BY <1>6, <1>7 DEF DisplayInv

LEMMA TakesType == ASSUME DisplayInv PROVE TakesForDocked \in BOOLEAN
BY Zenon DEF TakesForDocked

\* Each of the calls of GetRate in a tick, with or without SetDockedState.
LEMMA LooksKeep ==
  ASSUME DisplayInv, DisplayLook \/ (\E docked \in BOOLEAN : DisplayRefresh(docked))
  PROVE  DisplayInv'
BY TakesType, LookKeeps DEF DisplayLook, DisplayRefresh

LEMMA DisplayStays == ASSUME DisplayInv, UNCHANGED display PROVE DisplayInv'
BY DEF display, hardware, driver, ghosts, DisplayInv, DisplayTypeOK, PanelInRange, Learnt, Handheld, Highest

-----------------------------------------------------------------------------
(* The two threads.  A pass that began although VRR had been stopped leaves *)
(* the thread outside the window between the check and the mutex, and it   *)
(* does not come back until VRR is wanted again: hence Late.               *)

Control ==
  /\ lock \in {Free, "main", "vrr"}
  /\ mpc \in {"loop", "context", "rate", "real", "governor", "stop", "look", "display", "unlock"}
  /\ vpc \in {"check", "want", "focus", "adjust", "top", "sleep", "asleep"}
  /\ (lock = "main") = (mpc # "loop") /\ (lock = "vrr") = (vpc \notin {"check", "want"})
Flags ==
  /\ dirty \in BOOLEAN /\ fresh \in BOOLEAN /\ cached \in BOOLEAN /\ missed \in BOOLEAN
  /\ salty \in BOOLEAN /\ changed \in BOOLEAN /\ enabled \in BOOLEAN /\ last \in BOOLEAN
Data ==
  /\ wish \in Wishes /\ events \in 0 .. MaxEvent /\ focus \in {"none", "in", "out"}
  /\ profile \in {"Handheld", "Docked"} /\ ovr \in Nat /\ freq \in Nat
  /\ tick \in 0 .. TopAfter /\ tick2 \in 0 .. TickWidth - 1 /\ top \in 0 .. 255
Late == late \in 0 .. 1 /\ (late = 1 => ~Wanted /\ vpc # "want")
VrrInv == DisplayInv /\ Control /\ Flags /\ Data /\ FocusKnown /\ Late

LEMMA WishTypes ==
  ASSUME Data
  PROVE  /\ wish.vrr \in BOOLEAN /\ wish.overwrite \in BOOLEAN
         /\ wish.override \in Nat /\ wish.handheld \in Nat /\ wish.docked \in Nat
BY VrrAssumption DEF Data

LEMMA InvImplies == ASSUME VrrInv PROVE TypeOK /\ PanelInRange /\ TvWithinHighest /\ OnePassTooLate
<1>1. TypeOK
  <2>1. DisplayTypeOK /\ late \in 0 .. 2
    BY DEF VrrInv, DisplayInv, Late
  <2>2. QED
    BY <2>1 DEF VrrInv, Control, Flags, Data, TypeOK
<1>2. PanelInRange /\ TvWithinHighest /\ OnePassTooLate
  BY DEF VrrInv, DisplayInv, Learnt, TvWithinHighest, Late, OnePassTooLate
<1>3. QED
  BY <1>1, <1>2

LEMMA InitInv == ASSUME Init PROVE VrrInv
<1>1. DisplayInv
  BY DisplayInitInv DEF Init
<1>2. Control
  BY DEF Init, Control, Free
<1>3. Flags
  BY Zenon DEF Init, Flags
<1>4. Data
  <2>1. MaxEvent \in Nat /\ TickWidth \in Nat /\ TopAfter \in Nat /\ FocusAfter \in Nat /\ FocusAfter < TickWidth
    BY VrrAssumption
  <2>2. QED
    BY <2>1 DEF Init, Data
<1>5. FocusKnown
  BY DEF Init, FocusKnown
<1>6. Late
  BY DEF Init, Late
<1>7. QED
  BY <1>1, <1>2, <1>3, <1>4, <1>5, <1>6 DEF VrrInv

\* The rate a pass asks for is a number, and what it keeps of the highest one fits a u8.
LEMMA RatesAreNat ==
  ASSUME Data, NEW fps \in Fps
  PROVE  /\ MaxDisplay \in 0 .. 255
         /\ LET rates == VrrRates(fps, MinDisplay, MaxDisplay)
            IN rates # {} => Min(rates) \in Nat
<1>1. fps \in Nat
  BY VrrAssumption
<1>2. Rate \in Nat /\ ovr \in Nat
  BY WishTypes DEF Rate, Data
<1>3. MaxDisplay \in 0 .. 255
  <2> DEFINE hz == IF ovr # 0 THEN ovr ELSE 1000000 * Rate
  <2>1. hz \in Nat
    BY <1>2
  <2>2. MaxDisplay = IF hz = 0 THEN 60 ELSE hz % 256
    BY DEF MaxDisplay
  <2>3. QED
    <3> HIDE DEF hz
    <3> QED BY <2>1, <2>2
<1>4. VrrRates(fps, MinDisplay, MaxDisplay) \subseteq Nat
  <2>1. \A i \in 0 .. 9 : fps * i \in Nat
    BY <1>1
  <2>2. QED
    BY <1>1, <2>1 DEF VrrRates
<1>5. QED
  BY <1>3, <1>4, MinOfNats

LEMMA DisplayStep == ASSUME VrrInv, [Next]_vars PROVE DisplayInv'
<1> USE DEF VrrInv
<1>1. CASE TickBegin
  BY <1>1, DisplayStays DEF TickBegin
<1>2. CASE TickContext
  BY <1>2, DisplayStays DEF TickContext
<1>3. CASE TickRate
  BY <1>3, LooksKeep DEF TickRate
<1>4. CASE TickGovernor
  BY <1>4, DisplayStays DEF TickGovernor
<1>5. CASE TickStop
  BY <1>5, SetRateKeeps DEF TickStop, ResetToStockDisplay, StockRate
<1>6. CASE TickDisplay
  <2>1. Rate \in Nat /\ ovr \in Nat /\ StockRate \in Nat
    BY WishTypes DEF Rate, Data, StockRate
  <2>2. UNCHANGED display \/ (\E rate \in Nat : SetRate(rate))
    BY <1>6, <2>1 DEF TickDisplay, ResetToStockDisplay
  <2>3. QED
    BY <2>2, DisplayStays, SetRateKeeps
<1>7. CASE TickEnd
  BY <1>7, DisplayStays DEF TickEnd
<1>8. CASE VrrCheck
  BY <1>8, DisplayStays DEF VrrCheck
<1>9. CASE VrrLock
  BY <1>9, DisplayStays DEF VrrLock
<1>10. CASE FocusFails
  BY <1>10, DisplayStays DEF FocusFails
<1>11. CASE VrrFocus
  BY <1>11, DisplayStays, SetRateKeeps DEF VrrFocus, ResetToStockDisplay, StockRate
<1>12. CASE VrrSleeps \/ VrrNoFps \/ VrrRelease
  BY <1>12, DisplayStays DEF VrrSleeps, VrrNoFps, VrrRelease
<1>13. CASE VrrTop
  <2>1. top \in Nat
    BY DEF Data
  <2>2. QED
    BY <1>13, <2>1, SetRateKeeps DEF VrrTop
<1>14. CASE \E fps \in Fps : VrrAdjust(fps)
  <2>1. PICK fps \in Fps : VrrAdjust(fps)
    BY <1>14
  <2>2. UNCHANGED display \/ (\E rate \in Nat : SetRate(rate))
    BY <2>1, RatesAreNat DEF VrrAdjust
  <2>3. QED
    BY <2>2, DisplayStays, SetRateKeeps
<1>15. CASE Docking
  BY <1>15, DockKeeps DEF Docking
<1>16. CASE Focusing \/ Wishing
  BY <1>16, DisplayStays DEF Focusing, Wishing
<1>17. CASE UNCHANGED vars
  BY <1>17, DisplayStays DEF vars
<1>18. CASE TickReal \/ TickLook
  BY <1>18, LooksKeep DEF TickReal, TickLook
<1>19. QED
  BY <1>1, <1>2, <1>3, <1>4, <1>5, <1>6, <1>7, <1>8, <1>9, <1>10, <1>11, <1>12, <1>13,
     <1>14, <1>15, <1>16, <1>17, <1>18 DEF Next, Tick, VrrPass

\* The thread that holds the mutex is the one between lock and unlock.
LEMMA ControlStep == ASSUME VrrInv, [Next]_vars PROVE Control'
<1> USE DEF VrrInv, Control, Free
<1>1. CASE TickBegin
  BY <1>1 DEF TickBegin, main, thread
<1>2. CASE TickContext
  BY <1>2 DEF TickContext, main, thread
<1>3. CASE TickRate
  BY <1>3 DEF TickRate, main, thread
<1>4. CASE TickGovernor
  BY <1>4 DEF TickGovernor, main, thread
<1>5. CASE TickStop
  BY <1>5 DEF TickStop, main, thread
<1>6. CASE TickDisplay
  BY <1>6 DEF TickDisplay, main, thread
<1>7. CASE TickEnd
  BY <1>7 DEF TickEnd, main, thread
<1>8. CASE VrrCheck
  BY <1>8 DEF VrrCheck, main, thread
<1>9. CASE VrrLock
  BY <1>9 DEF VrrLock, main, thread
<1>10. CASE FocusFails
  BY <1>10 DEF FocusFails, main, thread
<1>11. CASE VrrFocus
  BY <1>11 DEF VrrFocus, main, thread
<1>12. CASE VrrSleeps
  BY <1>12 DEF VrrSleeps, main, thread
<1>13. CASE VrrNoFps
  BY <1>13 DEF VrrNoFps, main, thread
<1>14. CASE VrrTop
  BY <1>14 DEF VrrTop, main, thread
<1>15. CASE VrrRelease
  BY <1>15 DEF VrrRelease, main, thread
<1>16. CASE \E fps \in Fps : VrrAdjust(fps)
  BY <1>16 DEF VrrAdjust, main, thread
<1>17. CASE Docking
  BY <1>17 DEF Docking, main, thread
<1>18. CASE Focusing
  BY <1>18 DEF Focusing, main, thread
<1>19. CASE Wishing
  BY <1>19 DEF Wishing, main, thread
<1>20. CASE UNCHANGED vars
  BY <1>20 DEF vars, main, thread
<1>21. CASE TickReal
  BY <1>21 DEF TickReal, main, thread
<1>22. CASE TickLook
  BY <1>22 DEF TickLook, main, thread
<1>23. QED
  BY <1>1, <1>2, <1>3, <1>4, <1>5, <1>6, <1>7, <1>8, <1>9, <1>10,
     <1>11, <1>12, <1>13, <1>14, <1>15, <1>16, <1>17, <1>18, <1>19, <1>20, <1>21, <1>22 DEF Next, Tick, VrrPass

\* What the code keeps as a bool is one.
LEMMA FlagsStep == ASSUME VrrInv, [Next]_vars PROVE Flags'
<1> USE DEF VrrInv, Flags
<1>1. wish.vrr \in BOOLEAN
  BY WishTypes
<1>2. CASE TickBegin
  BY <1>2, <1>1 DEF TickBegin, user, main, thread
<1>3. CASE TickContext
  BY <1>3, <1>1 DEF TickContext, user, main, thread
<1>4. CASE TickRate
  BY <1>4, <1>1 DEF TickRate, user, main, thread
<1>5. CASE TickGovernor
  BY <1>5, <1>1 DEF TickGovernor, user, main, thread
<1>6. CASE TickStop
  BY <1>6, <1>1 DEF TickStop, user, main, thread
<1>7. CASE TickDisplay
  BY <1>7, <1>1 DEF TickDisplay, user, main, thread
<1>8. CASE TickEnd
  BY <1>8, <1>1 DEF TickEnd, user, main, thread
<1>9. CASE VrrCheck
  BY <1>9, <1>1 DEF VrrCheck, user, main, thread
<1>10. CASE VrrLock
  BY <1>10, <1>1 DEF VrrLock, user, main, thread
<1>11. CASE FocusFails
  BY <1>11, <1>1 DEF FocusFails, user, main, thread
<1>12. CASE VrrFocus
  BY <1>12, <1>1 DEF VrrFocus, user, main, thread
<1>13. CASE VrrSleeps
  BY <1>13, <1>1 DEF VrrSleeps, user, main, thread
<1>14. CASE VrrNoFps
  BY <1>14, <1>1 DEF VrrNoFps, user, main, thread
<1>15. CASE VrrTop
  BY <1>15, <1>1 DEF VrrTop, user, main, thread
<1>16. CASE VrrRelease
  BY <1>16, <1>1 DEF VrrRelease, user, main, thread
<1>17. CASE \E fps \in Fps : VrrAdjust(fps)
  BY <1>17, <1>1 DEF VrrAdjust, user, main, thread
<1>18. CASE Docking
  BY <1>18, <1>1 DEF Docking, user, main, thread
<1>19. CASE Focusing
  BY <1>19, <1>1 DEF Focusing, user, main, thread
<1>20. CASE Wishing
  BY <1>20, <1>1 DEF Wishing, user, main, thread
<1>21. CASE UNCHANGED vars
  BY <1>21, <1>1 DEF vars, user, main, thread
<1>22. CASE TickReal
  BY <1>22, <1>1 DEF TickReal, user, main, thread
<1>23. CASE TickLook
  BY <1>23, <1>1 DEF TickLook, user, main, thread
<1>24. QED
  BY <1>2, <1>3, <1>4, <1>5, <1>6, <1>7, <1>8, <1>9, <1>10, <1>11,
     <1>12, <1>13, <1>14, <1>15, <1>16, <1>17, <1>18, <1>19, <1>20, <1>21, <1>22, <1>23 DEF Next, Tick, VrrPass

\* A stopped thread makes one pass at most.
LEMMA LateStep == ASSUME VrrInv, [Next]_vars PROVE Late'
<1> USE DEF VrrInv, Late, Wanted
<1>1. late = 0 => Min({late + 1, 2}) = 1
  BY DEF Min
<1>2. CASE TickBegin
  BY <1>2, <1>1 DEF TickBegin, main, thread
<1>3. CASE TickContext
  BY <1>3, <1>1 DEF TickContext, main, thread
<1>4. CASE TickRate
  BY <1>4, <1>1 DEF TickRate, main, thread
<1>5. CASE TickGovernor
  BY <1>5, <1>1 DEF TickGovernor, main, thread
<1>6. CASE TickStop
  BY <1>6, <1>1 DEF TickStop, main, thread
<1>7. CASE TickDisplay
  BY <1>7, <1>1 DEF TickDisplay, main, thread
<1>8. CASE TickEnd
  BY <1>8, <1>1 DEF TickEnd, main, thread
<1>9. CASE VrrCheck
  BY <1>9, <1>1 DEF VrrCheck, main, thread
<1>10. CASE VrrLock
  BY <1>10, <1>1 DEF VrrLock, main, thread
<1>11. CASE FocusFails
  BY <1>11, <1>1 DEF FocusFails, main, thread
<1>12. CASE VrrFocus
  BY <1>12, <1>1 DEF VrrFocus, main, thread
<1>13. CASE VrrSleeps
  BY <1>13, <1>1 DEF VrrSleeps, main, thread
<1>14. CASE VrrNoFps
  BY <1>14, <1>1 DEF VrrNoFps, main, thread
<1>15. CASE VrrTop
  BY <1>15, <1>1 DEF VrrTop, main, thread
<1>16. CASE VrrRelease
  BY <1>16, <1>1 DEF VrrRelease, main, thread
<1>17. CASE \E fps \in Fps : VrrAdjust(fps)
  BY <1>17, <1>1 DEF VrrAdjust, main, thread
<1>18. CASE Docking
  BY <1>18, <1>1 DEF Docking, main, thread
<1>19. CASE Focusing
  BY <1>19, <1>1 DEF Focusing, main, thread
<1>20. CASE Wishing
  BY <1>20, <1>1 DEF Wishing, main, thread
<1>21. CASE UNCHANGED vars
  BY <1>21, <1>1 DEF vars, main, thread
<1>22. CASE TickReal
  BY <1>22, <1>1 DEF TickReal, main, thread
<1>23. CASE TickLook
  BY <1>23, <1>1 DEF TickLook, main, thread
<1>24. QED
  BY <1>2, <1>3, <1>4, <1>5, <1>6, <1>7, <1>8, <1>9, <1>10, <1>11,
     <1>12, <1>13, <1>14, <1>15, <1>16, <1>17, <1>18, <1>19, <1>20, <1>21, <1>22, <1>23 DEF Next, Tick, VrrPass

\* A look that succeeds is believed, a failed one is remembered as such.
LEMMA FocusStep == ASSUME VrrInv, [Next]_vars PROVE FocusKnown'
<1> USE DEF VrrInv, FocusKnown
<1>1. CASE TickBegin
  BY <1>1 DEF TickBegin, user, thread
<1>2. CASE TickContext
  BY <1>2 DEF TickContext, user, thread
<1>3. CASE TickRate
  BY <1>3 DEF TickRate, user, thread
<1>4. CASE TickGovernor
  BY <1>4 DEF TickGovernor, user, thread
<1>5. CASE TickStop
  BY <1>5 DEF TickStop, user, thread
<1>6. CASE TickDisplay
  BY <1>6 DEF TickDisplay, user, thread
<1>7. CASE TickEnd
  BY <1>7 DEF TickEnd, user, thread
<1>8. CASE VrrCheck
  BY <1>8 DEF VrrCheck, user, thread
<1>9. CASE VrrLock
  BY <1>9 DEF VrrLock, user, thread
<1>10. CASE FocusFails
  BY <1>10 DEF FocusFails, user, thread
<1>11. CASE VrrFocus
  BY <1>11 DEF VrrFocus, user, thread
<1>12. CASE VrrSleeps
  BY <1>12 DEF VrrSleeps, user, thread
<1>13. CASE VrrNoFps
  BY <1>13 DEF VrrNoFps, user, thread
<1>14. CASE VrrTop
  BY <1>14 DEF VrrTop, user, thread
<1>15. CASE VrrRelease
  BY <1>15 DEF VrrRelease, user, thread
<1>16. CASE \E fps \in Fps : VrrAdjust(fps)
  BY <1>16 DEF VrrAdjust, user, thread
<1>17. CASE Docking
  BY <1>17 DEF Docking, user, thread
<1>18. CASE Focusing
  BY <1>18 DEF Focusing, user, thread
<1>19. CASE Wishing
  BY <1>19 DEF Wishing, user, thread
<1>20. CASE UNCHANGED vars
  BY <1>20 DEF vars, user, thread
<1>21. CASE TickReal
  BY <1>21 DEF TickReal, user, thread
<1>22. CASE TickLook
  BY <1>22 DEF TickLook, user, thread
<1>23. QED
  BY <1>1, <1>2, <1>3, <1>4, <1>5, <1>6, <1>7, <1>8, <1>9, <1>10,
     <1>11, <1>12, <1>13, <1>14, <1>15, <1>16, <1>17, <1>18, <1>19, <1>20, <1>21, <1>22 DEF Next, Tick, VrrPass

\* Every clock that is kept is a number, and every local fits its type.
LEMMA DataStep == ASSUME VrrInv, [Next]_vars PROVE Data'
<1> USE DEF VrrInv, Data
<1>1. /\ TickWidth \in Nat \ {0} /\ TopAfter \in Nat /\ MaxEvent \in Nat
  BY VrrAssumption
<1>2. wish.override \in Nat /\ wish.handheld \in Nat /\ wish.docked \in Nat
  BY WishTypes
<1>3. GetRate \in Nat
  BY DEF GetRate, DisplayInv, DisplayTypeOK, DockedRates
<1>4. CASE TickBegin
  BY <1>4, <1>1, <1>2, <1>3 DEF TickBegin, user, main, thread
<1>5. CASE TickContext
  BY <1>5, <1>1, <1>2, <1>3 DEF TickContext, user, main, thread
<1>6. CASE TickRate
  <2>1. freq' \in Nat
    BY <1>6, <1>3 DEF TickRate
  <2>2. QED
    BY <1>6, <1>2, <2>1 DEF TickRate, user, thread
<1>7. CASE TickGovernor
  BY <1>7, <1>1, <1>2, <1>3 DEF TickGovernor, user, main, thread
<1>8. CASE TickStop
  BY <1>8, <1>1, <1>2, <1>3 DEF TickStop, user, main, thread
<1>9. CASE TickDisplay
  <2>1. Rate \in Nat
    BY <1>2 DEF Rate
  <2>2. freq' \in Nat
    BY <1>9, <2>1 DEF TickDisplay
  <2>3. QED
    BY <1>9, <2>2 DEF TickDisplay, user, thread
<1>10. CASE TickEnd
  BY <1>10, <1>1, <1>2, <1>3 DEF TickEnd, user, main, thread
<1>11. CASE VrrCheck
  BY <1>11, <1>1, <1>2, <1>3 DEF VrrCheck, user, main, thread
<1>12. CASE VrrLock
  <2>1. tick2' \in 0 .. TickWidth - 1
    BY <1>12, <1>1 DEF VrrLock
  <2>2. QED
    BY <1>12, <2>1 DEF VrrLock, user, main, thread
<1>13. CASE FocusFails
  BY <1>13, <1>1, <1>2, <1>3 DEF FocusFails, user, main, thread
<1>14. CASE VrrFocus
  BY <1>14, <1>1, <1>2, <1>3 DEF VrrFocus, user, main, thread
<1>15. CASE VrrSleeps
  BY <1>15, <1>1, <1>2, <1>3 DEF VrrSleeps, user, main, thread
<1>16. CASE VrrNoFps
  BY <1>16, <1>1, <1>2, <1>3 DEF VrrNoFps, user, main, thread
<1>17. CASE VrrTop
  BY <1>17, <1>1 DEF VrrTop, user, main, thread
<1>18. CASE VrrRelease
  BY <1>18, <1>1, <1>2, <1>3 DEF VrrRelease, user, main, thread
<1>19. CASE \E fps \in Fps : VrrAdjust(fps)
  <2>1. PICK fps \in Fps : VrrAdjust(fps)
    BY <1>19
  <2>2. freq' \in Nat /\ top' \in 0 .. 255
    BY <2>1, RatesAreNat DEF VrrAdjust
  <2>3. tick' \in 0 .. TopAfter
    BY <2>1, <1>1 DEF VrrAdjust
  <2>4. QED
    BY <2>1, <2>2, <2>3 DEF VrrAdjust, user, main, thread
<1>20. CASE Docking
  BY <1>20, <1>1 DEF Docking, Happens, user, main, thread
<1>21. CASE Focusing
  BY <1>21, <1>1 DEF Focusing, Happens, user, main, thread
<1>22. CASE Wishing
  BY <1>22, <1>1 DEF Wishing, Happens, user, main, thread
<1>23. CASE UNCHANGED vars
  BY <1>23, <1>1, <1>2, <1>3 DEF vars, user, main, thread
<1>24. CASE TickReal
  BY <1>24 DEF TickReal, user, thread
<1>25. CASE TickLook
  BY <1>25 DEF TickLook, user, thread
<1>26. QED
  BY <1>4, <1>5, <1>6, <1>7, <1>8, <1>9, <1>10, <1>11, <1>12, <1>13,
     <1>14, <1>15, <1>16, <1>17, <1>18, <1>19, <1>20, <1>21, <1>22, <1>23, <1>24, <1>25 DEF Next, Tick, VrrPass

-----------------------------------------------------------------------------
LEMMA InvStep == ASSUME VrrInv, [Next]_vars PROVE VrrInv'
BY DisplayStep, ControlStep, FlagsStep, DataStep, FocusStep, LateStep DEF VrrInv

\* Everything the invariant says of the states Spec reaches.
THEOREM VrrInvariant == Spec => []VrrInv
<1>1. Init => VrrInv
  BY InitInv
<1>2. VrrInv /\ [Next]_vars => VrrInv'
  BY InvStep
<1>3. QED
  BY <1>1, <1>2, PTL DEF Spec

\* The two threads never hold gContextMutex together, and every variable has its type.
THEOREM VrrTypeCorrect == Spec => []TypeOK
<1>1. VrrInv => TypeOK
  BY InvImplies
<1>2. QED
  BY <1>1, VrrInvariant, PTL

\* The built-in display is driven at 40 to 80 Hz, for every frame rate, profile and race.
THEOREM PanelStaysInRange == Spec => []PanelInRange
<1>1. VrrInv => PanelInRange
  BY InvImplies
<1>2. QED
  BY <1>1, VrrInvariant, PTL

\* On every console but RETRO SUPER ones a television is driven within its modes, whenever
\* GetRate has seen the built-in panel since the one before it.
THEOREM TvStaysWithinHighest == Spec => []TvWithinHighest
<1>1. VrrInv => TvWithinHighest
  BY InvImplies
<1>2. QED
  BY <1>1, VrrInvariant, PTL

\* However the threads interleave, a stopped VRR thread makes one more pass at most.
THEOREM StopsAfterOnePass == Spec => []OnePassTooLate
<1>1. VrrInv => OnePassTooLate
  BY InvImplies
<1>2. QED
  BY <1>1, VrrInvariant, PTL

\* The answer about the focus is the true one, unless the look at the newest event failed.
THEOREM FocusIsKnown == Spec => []FocusKnown
<1>1. VrrInv => FocusKnown
  BY DEF VrrInv
<1>2. QED
  BY <1>1, VrrInvariant, PTL

-----------------------------------------------------------------------------
(* The thread's choice and the driver's choice agree.                      *)

LEMMA MultipleFits == ASSUME NEW fps \in Nat \ {0}, NEW i \in 0 .. 9 PROVE (fps * i) % fps = 0
OBVIOUS

\* What a pass asks for is a multiple of the frame rate, between the lowest and the highest.
LEMMA RatesFit ==
  ASSUME NEW fps \in Nat \ {0}, NEW lo \in Nat, NEW hi \in Nat, NEW rate \in VrrRates(fps, lo, hi)
  PROVE  rate \in lo .. hi /\ rate % fps = 0
<1>1. CASE fps \in lo .. hi
  <2>1. rate = fps
    BY <1>1 DEF VrrRates
  <2>2. (fps * 1) % fps = 0
    BY MultipleFits
  <2>3. QED
    BY <1>1, <2>1, <2>2
<1>2. CASE fps \notin lo .. hi
  <2>1. rate \in {fps * i : i \in 0 .. 9} /\ rate \in lo .. hi
    BY <1>2 DEF VrrRates
  <2>2. PICK i \in 0 .. 9 : rate = fps * i
    BY <2>1
  <2>3. QED
    BY <2>1, <2>2, MultipleFits
<1>3. QED
  BY <1>1, <1>2

\* The driver shows a rate of the panel as it is asked for, and the highest for one beyond.
LEMMA PanelShows ==
  ASSUME NEW rate \in Nat, PanelMin <= rate, SetRate(rate), panel' # panel, ~console.retro
  PROVE  panel' = IF rate <= PanelMax THEN rate ELSE PanelMax
<1>1. PanelRate(rate, 2 .. 4) = IF rate <= PanelMax THEN rate ELSE PanelMax
  BY DEF PanelRate, PanelMin, PanelMax
<1>2. QED
  BY <1>1 DEF SetRate, PllRate

\* For every frame rate and wish, on every console but RETRO SUPER ones, a pass of the thread
\* that changes the panel leaves it at a multiple of the frame rate, or, when the highest
\* rate it allows is beyond the panel's, at the panel's highest.
THEOREM PassesFit == Spec => PassFits
<1> DEFINE Fits == \A fps \in Fps \ {0} :
             VrrAdjust(fps) /\ panel' # panel /\ ~console.retro
             => panel' % fps = 0 \/ (MaxDisplay > PanelMax /\ panel' = PanelMax)
<1>1. VrrInv => Fits
  <2> SUFFICES ASSUME VrrInv, NEW fps \in Fps \ {0}, VrrAdjust(fps), panel' # panel, ~console.retro
               PROVE  panel' % fps = 0 \/ (MaxDisplay > PanelMax /\ panel' = PanelMax)
    OBVIOUS
  <2> DEFINE rates == VrrRates(fps, MinDisplay, MaxDisplay)
  <2>1. fps \in Nat \ {0}
    BY VrrAssumption
  <2>2. MinDisplay \in Nat /\ PanelMin <= MinDisplay
    BY DEF MinDisplay, PanelMin
  <2>3. MaxDisplay \in Nat
    BY RatesAreNat DEF VrrInv
  <2>4. rates # {} /\ SetRate(Min(rates))
    BY DEF VrrAdjust, display, hardware
  <2>5. \A r \in rates : r \in MinDisplay .. MaxDisplay /\ r % fps = 0
    BY <2>1, <2>2, <2>3, RatesFit
  <2>6. Min(rates) \in rates
    <3> HIDE DEF rates
    <3>1. rates \subseteq Nat
      BY <2>2, <2>3, <2>5
    <3>2. QED
      BY <2>4, <3>1, MinOfNats
  <2> HIDE DEF rates
  <2>7. Min(rates) \in Nat /\ PanelMin <= Min(rates) /\ Min(rates) <= MaxDisplay
    BY <2>2, <2>3, <2>5, <2>6 DEF PanelMin
  <2>8. panel' = IF Min(rates) <= PanelMax THEN Min(rates) ELSE PanelMax
    BY <2>4, <2>7, PanelShows
  <2>9. CASE Min(rates) <= PanelMax
    BY <2>5, <2>6, <2>8, <2>9
  <2>10. CASE ~(Min(rates) <= PanelMax)
    BY <2>3, <2>7, <2>8, <2>10 DEF PanelMax
  <2>11. QED
    BY <2>9, <2>10
<1>2. VrrInv /\ [Next]_vars => [Fits]_vars
  BY <1>1
<1>3. QED
  BY <1>2, VrrInvariant, PTL DEF Spec, PassFits
=============================================================================

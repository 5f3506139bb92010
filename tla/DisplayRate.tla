----------------------------- MODULE DisplayRate -----------------------------
(***************************************************************************)
(* The display driver (board/display_refresh_rate.cpp): SetRate picks a    *)
(* rate the built-in panel or the television can show, GetRate reads the   *)
(* registers back and learns from them whether the console is docked.      *)
(*                                                                         *)
(* The console is the environment: it is put into the dock of a television *)
(* and taken out at any time, and sets its display up again when that      *)
(* happens.  Only the two threads that hold gContextMutex call the driver. *)
(***************************************************************************)
EXTENDS Integers, FiniteSetsExt

CONSTANTS
  Consoles, \* [model : {"icosa", "aula", "lite"}, retro : BOOLEAN]: which exist
  Tvs,      \* [max : Nat, lines : {720, 1080}]: the televisions
  NoTv      \* the console is handheld

ASSUME DisplayAssumption ==
  /\ Consoles \subseteq [model : {"icosa", "aula", "lite"}, retro : BOOLEAN]
  /\ Tvs \subseteq [max : 40 .. 240, lines : {720, 1080}] /\ NoTv \notin Tvs

VARIABLES
  console,  \* GetConsoleType, retro.flag: they stay
  dock,     \* the television of the dock, or NoTv
  panel,    \* the rate of the built-in display
  tv,       \* the rate of the television
  isDocked, \* g_config.isDocked
  canChange, highest, \* g_canChangeRefreshRateDocked, g_dockedHighestRefreshRate
  lines,    \* g_lastVActive
  unseen,   \* ghost: taken out, and GetRate has not read the built-in panel since
  swapped   \* ghost: it was put into a dock before GetRate had

hardware == <<console, dock, panel, tv>>
driver == <<isDocked, canChange, highest, lines>>
ghosts == <<unseen, swapped>>
display == <<hardware, driver, ghosts>>

StockRate == 60
PanelMin == 40
PanelMax == 80
DockedRates ==
  {40, 45, 50, 55, 60, 70, 72, 75, 80, 90, 95} \cup {100, 110, 120, 130, 140, 144, 150, 160}
  \cup {165, 170, 180, 190, 200, 210, 220, 230, 240}

IsLite == console.model = "lite"
Handheld == dock = NoTv

DisplayTypeOK ==
  /\ console \in Consoles /\ dock \in Tvs \cup {NoTv}
  /\ panel \in Nat /\ tv \in DockedRates
  /\ isDocked \in BOOLEAN /\ canChange \in BOOLEAN
  /\ highest \in 60 .. 240 /\ lines \in {720, 1080}
  /\ unseen \in BOOLEAN /\ swapped \in BOOLEAN

\* display::Initialize, on a console that may be docked already.
DisplayInit ==
  /\ console \in Consoles /\ dock \in (IF IsLite THEN {} ELSE Tvs) \cup {NoTv} /\ panel = StockRate /\ tv = StockRate
  /\ isDocked = FALSE /\ canChange = FALSE /\ highest = StockRate /\ lines = 1080
  /\ unseen = FALSE /\ swapped = FALSE

\* The console sets a display up at the stock rate.
Dock(t) ==
  /\ Handheld /\ ~IsLite
  /\ dock' = t /\ tv' = StockRate /\ swapped' = unseen
  /\ UNCHANGED <<console, panel, driver, unseen>>
Undock ==
  /\ ~Handheld
  /\ dock' = NoTv /\ panel' = StockRate /\ unseen' = TRUE
  /\ UNCHANGED <<console, tv, driver, swapped>>

-----------------------------------------------------------------------------
(* SetRate                                                                 *)

\* The first of the multiples of a low rate that fits the panel.
Fitting(rate, factors) == {rate * i : i \in factors} \cap (PanelMin .. PanelMax)
PanelRate(rate, factors) ==
  CASE rate > PanelMax -> PanelMax
    [] rate \in PanelMin .. PanelMax -> rate
    [] OTHER -> IF StockRate \in {rate * i : i \in 2 .. 4} \/ Fitting(rate, factors) = {}
                THEN StockRate ELSE Min(Fitting(rate, factors))

\* PLLD is programmed in steps of 5 Hz, and a fraction on top.  0 and 80 are taken for
\* the sign of a console that is docked.
PllReads == IF ~Handheld THEN 0 ELSE IF console.retro THEN StockRate ELSE panel - (panel % 5)
ReadsDocked == PllReads \in {0, 80}
PllRateUnlimited(rate) == IF ReadsDocked THEN panel ELSE rate
PllRate(rate) == IF ReadsDocked THEN panel ELSE PanelRate(rate, 2 .. 4)

\* The Retro SUPER table has an entry for each rate from 40 to 60, and is indexed as if
\* it had one for each 5 Hz.
RetroRate(rate) ==
  LET fit == PanelRate(rate, 2 .. 21)
  IN IF ~Handheld \/ fit = panel THEN panel ELSE PanelMin + (fit - PanelMin) \div 5

\* The first rate of the list that is a multiple of the one asked for, or the one below
\* it that the television allows; matchLowestDocked is never set.
TvRate(rate) ==
  LET multiples == {r \in DockedRates : r % rate = 0}
      wanted == IF (rate <= 60 /\ 60 % rate = 0) \/ multiples = {} THEN 60 ELSE Min(multiples)
  IN IF wanted <= highest THEN wanted
     ELSE Max({r \in DockedRates : r <= wanted /\ r <= highest})

\* SetRate, and ResetToStockDisplay.
OnTv == ~Handheld /\ ~(console.retro /\ ~isDocked)
SetRate(rate) ==
  /\ panel' = IF rate = 0 \/ OnTv THEN panel
              ELSE IF console.retro THEN RetroRate(rate) ELSE PllRate(rate)
  /\ tv' = IF rate > 0 /\ OnTv /\ isDocked /\ canChange /\ ~IsLite THEN TvRate(rate) ELSE tv
  /\ UNCHANGED <<console, dock, driver, ghosts>>
ResetToStockDisplay == SetRate(StockRate)

-----------------------------------------------------------------------------
(* GetRate, as RefreshContext and SetClocks call it, and SetDockedState.   *)

Highest(t) == Max({StockRate, t.max})
ByMode == console.retro /\ ~isDocked
\* What it returns, 0 when it fails.
GetRate ==
  CASE ByMode -> IF Handheld THEN panel ELSE 0
    [] ~ByMode /\ ReadsDocked -> IF IsLite \/ Handheld THEN 0 ELSE tv
    [] OTHER -> IF console.retro THEN 0 ELSE panel

\* The first look at a television, or one at another resolution, reads its modes.
SeesTv == ~ByMode /\ ReadsDocked /\ ~IsLite /\ ~Handheld
SeesPanel == ~ByMode /\ ~ReadsDocked /\ ~console.retro
GetRateKeepsTv ==
  /\ canChange' = (canChange \/ SeesTv)
  /\ highest' = IF SeesTv /\ (~canChange \/ lines # dock.lines) THEN Highest(dock) ELSE highest
  /\ lines' = IF SeesTv THEN dock.lines ELSE lines
GetRateLearns ==
  /\ canChange' = (~SeesPanel /\ (canChange \/ SeesTv))
  /\ highest' = IF SeesTv /\ (~canChange \/ lines # dock.lines) THEN Highest(dock) ELSE highest
  /\ lines' = IF SeesTv THEN dock.lines ELSE lines

\* What it then takes the console for.
TakesForDocked == ~SeesPanel /\ (isDocked \/ (~ByMode /\ ReadsDocked /\ ~IsLite))
LookAs(docked) ==
  /\ GetRateLearns
  /\ isDocked' = docked
  /\ unseen' = (unseen /\ ~(Handheld /\ ~ReadsDocked))
  /\ UNCHANGED <<hardware, swapped>>
DisplayLook == LookAs(TakesForDocked)

\* In RefreshContext SetDisplayRefreshDockedState comes last; the Lite has no dock.
DisplayRefresh(docked) == LookAs(IF IsLite THEN TakesForDocked ELSE docked)
=============================================================================

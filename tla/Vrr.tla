--------------------------------- MODULE Vrr ---------------------------------
(***************************************************************************)
(* Variable refresh rate: the VRR thread (governor.cpp) drives the display *)
(* at the frame rate of the game, the tick of the main thread              *)
(* (clock_manager.cpp) turns it on and off and sets a fixed rate when it   *)
(* is off.  Both hold gContextMutex while they work; whether to work is    *)
(* looked up before the mutex is taken.                                    *)
(***************************************************************************)
EXTENDS DisplayRate

CONSTANTS
  Fps, NoFps,   \* what SaltyNX may report; 254, no report
  Wishes,       \* [vrr, overwrite : BOOLEAN, override, handheld, docked : Nat]: what the user
                \* may ask for; 0 is no rate
  FocusAfter, TickWidth, \* 100 and 256: the focus is looked up after so many passes of a u8
  TopAfter,     \* 50: the highest rate is set after so many passes
  MaxEvent      \* bound on what happens to the console

ASSUME VrrAssumption ==
  /\ Fps \subseteq 0 .. 253 /\ NoFps \notin Fps
  /\ Wishes \subseteq
       [vrr : BOOLEAN, overwrite : BOOLEAN, override : Nat, handheld : Nat, docked : Nat]
  /\ {FocusAfter, TickWidth, TopAfter, MaxEvent} \subseteq Nat /\ FocusAfter < TickWidth

VARIABLES
  wish, dirty,    \* the configuration; config::Refresh will find a change
  focus, fresh,   \* the application, if any; an event was logged since the last look
  cached, missed, \* isOutOfFocus; ghost: the look at the newest event failed
  salty,          \* isSaltyNXInstalled
  events,         \* how much of MaxEvent is used
  lock,           \* gContextMutex
  mpc, vpc,       \* the main thread, the VRR thread
  profile, ovr, freq, \* gContext.profile, .overrideFreqs and .freqs of the display
  changed,        \* hasChanged
  enabled, last,  \* isVRREnabled, lastVrrGovernorState
  tick, tick2, top, \* the locals of the VRR thread; top is maxDisplay
  late            \* ghost: the passes it began although it had been stopped

user == <<wish, dirty, focus, fresh, events>>
main == <<mpc, profile, ovr, changed, enabled, last>>
thread == <<vpc, tick, tick2, top, cached, missed>>
vars == <<display, user, salty, lock, main, thread, freq, late>>

Free == "free"
Wanted == enabled /\ profile # "Docked"

TypeOK ==
  /\ DisplayTypeOK
  /\ wish \in Wishes /\ dirty \in BOOLEAN /\ events \in 0 .. MaxEvent
  /\ focus \in {"none", "in", "out"} /\ fresh \in BOOLEAN
  /\ cached \in BOOLEAN /\ missed \in BOOLEAN /\ salty \in BOOLEAN
  /\ lock \in {Free, "main", "vrr"}
  /\ mpc \in {"loop", "context", "rate", "real", "governor", "stop", "look", "display", "unlock"}
  /\ vpc \in {"check", "want", "focus", "adjust", "top", "sleep", "asleep"}
  /\ (lock = "main") = (mpc # "loop") /\ (lock = "vrr") = (vpc \notin {"check", "want"})
  /\ profile \in {"Handheld", "Docked"} /\ ovr \in Nat /\ freq \in Nat
  /\ changed \in BOOLEAN /\ enabled \in BOOLEAN /\ last \in BOOLEAN
  /\ tick \in 0 .. TopAfter /\ tick2 \in 0 .. TickWidth - 1 /\ top \in 0 .. 255
  /\ late \in 0 .. 2

Init ==
  /\ DisplayInit /\ salty \in BOOLEAN
  /\ wish \in Wishes /\ dirty = TRUE /\ events = 0
  /\ focus \in {"none", "in"} /\ fresh = TRUE /\ cached = FALSE /\ missed = FALSE
  /\ lock = Free /\ mpc = "loop" /\ vpc = "check"
  /\ profile = "Handheld" /\ ovr = 0 /\ freq = 0 /\ changed = FALSE
  /\ enabled = FALSE /\ last = FALSE /\ tick = 0 /\ tick2 = 0 /\ top = 0 /\ late = 0

-----------------------------------------------------------------------------
(* The console and its user.                                               *)

Happens == events < MaxEvent /\ events' = events + 1
Docking ==
  /\ Happens /\ (Undock \/ \E t \in Tvs : Dock(t))
  /\ UNCHANGED <<wish, dirty, focus, fresh, salty, lock, main, thread, freq, late>>
Focusing ==
  /\ Happens /\ \E f \in {"none", "in", "out"} : f # focus /\ focus' = f
  /\ fresh' = TRUE
  /\ UNCHANGED <<display, wish, dirty, salty, lock, main, thread, freq, late>>
Wishing ==
  /\ Happens /\ \E w \in Wishes : w # wish /\ wish' = w
  /\ dirty' = TRUE
  /\ UNCHANGED <<display, focus, fresh, salty, lock, main, thread, freq, late>>

-----------------------------------------------------------------------------
(* Tick: RefreshContext, and SetClocks when something has changed.         *)

TickBegin ==
  /\ mpc = "loop" /\ lock = Free
  /\ lock' = "main" /\ mpc' = "context"
  /\ UNCHANGED <<display, user, salty, profile, ovr, changed, enabled, last, thread, freq, late>>

TickContext ==
  /\ mpc = "context" /\ mpc' = "rate"
  /\ profile' = IF Handheld THEN "Handheld" ELSE "Docked"
  /\ changed' = (profile' # profile)
  /\ late' = IF enabled /\ profile' # "Docked" THEN 0 ELSE late
  /\ UNCHANGED <<display, user, salty, lock, ovr, enabled, last, thread, freq>>

\* Another rate, or another override, is a change.
TickRate ==
  /\ mpc = "rate" /\ mpc' = "real" /\ DisplayLook
  /\ freq' = (IF GetRate = 0 THEN freq ELSE GetRate) /\ ovr' = wish.override
  /\ changed' = (changed \/ GetRate \notin {0, freq} \/ ovr # wish.override)
  /\ UNCHANGED <<user, salty, lock, profile, enabled, last, thread, late>>

\* GetRealHz reads the rate again.  Another title, or the clock of another module, is a
\* change as well.  config::Refresh is reached only when nothing has changed; in boost
\* mode, unless it is overwritten, SetClocks returns at once.
TickReal ==
  /\ mpc = "real" /\ DisplayRefresh(profile = "Docked")
  /\ \E other \in BOOLEAN :
       /\ mpc' \in IF changed \/ other \/ dirty THEN {"governor", "unlock"} ELSE {"unlock"}
       /\ dirty' = (dirty /\ (changed \/ other))
  /\ changed' = FALSE
  /\ UNCHANGED <<wish, focus, fresh, events, salty, lock, profile, ovr, enabled, last, thread, freq, late>>

\* HandleGovernor: turning VRR off waits for 100 ms and resets the display.
TickGovernor ==
  /\ mpc = "governor"
  /\ enabled' = wish.vrr /\ last' = wish.vrr
  /\ mpc' = IF last /\ ~wish.vrr THEN "stop" ELSE "look"
  /\ late' = IF wish.vrr /\ profile # "Docked" THEN 0 ELSE late
  /\ UNCHANGED <<display, user, salty, lock, profile, ovr, changed, thread, freq>>
TickStop ==
  /\ mpc = "stop" /\ mpc' = "look" /\ ResetToStockDisplay
  /\ UNCHANGED <<user, salty, lock, profile, ovr, changed, enabled, last, thread, freq, late>>

\* SetClocks reads the old rate first, whether it needs it or not.
TickLook ==
  /\ mpc = "look" /\ mpc' = "display" /\ DisplayLook
  /\ UNCHANGED <<user, salty, lock, profile, ovr, changed, enabled, last, thread, freq, late>>

Rate == IF profile = "Docked" THEN wish.docked ELSE wish.handheld
TickDisplay ==
  LET target == IF ovr # 0 THEN ovr ELSE Rate
  IN /\ mpc = "display" /\ mpc' = "unlock"
     /\ IF enabled \/ ~wish.overwrite THEN UNCHANGED <<display, freq>>
        ELSE IF target # 0 THEN SetRate(target) /\ freq' = target
        ELSE ResetToStockDisplay /\ UNCHANGED freq
     /\ UNCHANGED <<user, salty, lock, profile, ovr, changed, enabled, last, thread, late>>
TickEnd ==
  /\ mpc = "unlock" /\ mpc' = "loop" /\ lock' = Free
  /\ UNCHANGED <<display, user, salty, profile, ovr, changed, enabled, last, thread, freq, late>>

-----------------------------------------------------------------------------
(* The VRR thread.                                                         *)

VrrChecksProfile ==
  /\ vpc = "check" /\ profile # "Docked" /\ vpc' = "want"
  /\ UNCHANGED <<display, user, salty, lock, main, tick, tick2, top, cached, missed, freq, late>>
VrrCheck ==
  /\ vpc = "check" /\ Wanted /\ vpc' = "want"
  /\ UNCHANGED <<display, user, salty, lock, main, tick, tick2, top, cached, missed, freq, late>>

VrrLockAnyway ==
  /\ vpc = "want" /\ lock' = "vrr"
  /\ tick2' = (tick2 + 1) % TickWidth
  /\ vpc' = IF tick2' > FocusAfter THEN "focus" ELSE "adjust"
  /\ late' = IF Wanted THEN 0 ELSE Min({late + 1, 2})
  /\ UNCHANGED <<display, user, salty, main, tick, top, cached, missed, freq>>
VrrLock ==
  /\ vpc = "want" /\ lock = Free /\ lock' = "vrr"
  /\ tick2' = (tick2 + 1) % TickWidth
  /\ vpc' = IF tick2' > FocusAfter THEN "focus" ELSE "adjust"
  /\ late' = IF Wanted THEN 0 ELSE Min({late + 1, 2})
  /\ UNCHANGED <<display, user, salty, main, tick, top, cached, missed, freq>>

\* isApplicationOutOfFocus: with no new event the last answer stands, even when the look
\* at that event had failed.
FocusFails ==
  /\ vpc = "focus" /\ vpc' = "sleep"
  /\ IF focus = "none" THEN UNCHANGED <<fresh, missed>>
     ELSE fresh /\ fresh' = FALSE /\ missed' = TRUE
  /\ UNCHANGED <<display, wish, dirty, focus, events, salty, lock, main, tick, tick2, top, cached, freq, late>>
VrrFocusForgets ==
  LET out == IF fresh THEN focus = "out" ELSE cached
  IN /\ vpc = "focus" /\ focus # "none"
     /\ fresh' = FALSE /\ missed' = (missed /\ ~fresh)
     /\ IF out THEN vpc' = "sleep" /\ ResetToStockDisplay ELSE vpc' = "adjust" /\ UNCHANGED display
     /\ UNCHANGED <<wish, dirty, focus, events, salty, lock, main, tick, tick2, top, cached, freq, late>>
VrrFocus ==
  LET out == IF fresh THEN focus = "out" ELSE cached
  IN /\ vpc = "focus" /\ focus # "none"
     /\ cached' = out /\ fresh' = FALSE /\ missed' = (missed /\ ~fresh)
     /\ IF out THEN vpc' = "sleep" /\ ResetToStockDisplay ELSE vpc' = "adjust" /\ UNCHANGED display
     /\ UNCHANGED <<wish, dirty, focus, events, salty, lock, main, tick, tick2, top, freq, late>>

\* Without SaltyNX the thread sleeps for ever, and keeps the mutex.
VrrSleeps ==
  /\ vpc = "adjust" /\ ~salty /\ vpc' = "asleep"
  /\ UNCHANGED <<display, user, salty, lock, main, tick, tick2, top, cached, missed, freq, late>>
VrrNoFpsSleeps ==
  /\ vpc = "adjust" /\ salty /\ vpc' = "asleep"
  /\ UNCHANGED <<display, user, salty, lock, main, tick, tick2, top, cached, missed, freq, late>>
VrrNoFps ==
  /\ vpc = "adjust" /\ salty /\ vpc' = "sleep"
  /\ UNCHANGED <<display, user, salty, lock, main, tick, tick2, top, cached, missed, freq, late>>

\* The rate of a profile comes in hertz of a clock, a million for each, and is kept in a u8.
MaxDisplay ==
  LET targetHz == IF ovr # 0 THEN ovr ELSE 1000000 * Rate
  IN IF targetHz = 0 THEN 60 ELSE targetHz % 256
MinDisplay == IF console.model = "aula" THEN 45 ELSE 40

\* The frame rate, or the first multiple of it the display can show; {} when there is none.
VrrRatesClamped(fps, lo, hi) ==
  IF fps > hi THEN {hi} ELSE {fps * i : i \in 0 .. 9} \cap (lo .. hi)
VrrRates(fps, lo, hi) == IF fps \in lo .. hi THEN {fps} ELSE {fps * i : i \in 0 .. 9} \cap (lo .. hi)
VrrAdjust(fps) ==
  LET rates == VrrRates(fps, MinDisplay, MaxDisplay)
  IN /\ vpc = "adjust" /\ salty
     /\ IF MaxDisplay = MinDisplay THEN vpc' = "sleep" /\ UNCHANGED <<display, tick, top, freq>>
        ELSE /\ IF rates = {} THEN UNCHANGED <<display, freq>>
                ELSE SetRate(Min(rates)) /\ freq' = Min(rates)
             /\ tick' = IF tick = TopAfter THEN 0 ELSE tick + 1
             /\ IF tick = TopAfter THEN vpc' = "top" /\ top' = MaxDisplay ELSE vpc' = "sleep" /\ top' = 0
     /\ UNCHANGED <<user, salty, lock, main, tick2, cached, missed, late>>
VrrTop ==
  /\ vpc = "top" /\ vpc' = "sleep" /\ SetRate(top) /\ top' = 0
  /\ UNCHANGED <<user, salty, lock, main, tick, tick2, cached, missed, freq, late>>

VrrRelease ==
  /\ vpc = "sleep" /\ vpc' = "check" /\ lock' = Free
  /\ UNCHANGED <<display, user, salty, main, tick, tick2, top, cached, missed, freq, late>>

-----------------------------------------------------------------------------
Tick ==
  \/ TickContext \/ TickRate \/ TickReal \/ TickGovernor \/ TickStop \/ TickLook
  \/ TickDisplay \/ TickEnd
VrrPass ==
  \/ FocusFails \/ VrrFocus \/ VrrSleeps \/ VrrNoFps \/ VrrTop \/ VrrRelease
  \/ \E fps \in Fps : VrrAdjust(fps)
Next == TickBegin \/ Tick \/ VrrCheck \/ VrrLock \/ VrrPass \/ Docking \/ Focusing \/ Wishing

\* Both threads run, and the kernel hands a mutex over to the thread that waits for it.
Fairness == WF_vars(Tick) /\ SF_vars(TickBegin) /\ WF_vars(VrrPass)
Spec == Init /\ [][Next]_vars /\ Fairness

-----------------------------------------------------------------------------
\* Whatever frame rate, profile or race of the two threads, the built-in display is driven
\* at 40 to 80 Hz (display_refresh_rate.cpp:307).
PanelInRange == panel \in PanelMin .. PanelMax

\* A television is not driven beyond its modes (display_refresh_rate.cpp:431) on a console
\* that GetRate has seen handheld since the last one.  It has not when the televisions were
\* changed faster than a tick, or while the panel showed 80 Hz, which GetRate takes for a
\* dock (646).  RETRO SUPER consoles are left out, for there the code breaks the promise at
\* any pace: GetRate never resets g_canChangeRefreshRateDocked (715), and the limit of the
\* first television stands for every later one of the same resolution.
TvWithinHighest == ~Handheld /\ ~swapped /\ ~console.retro => tv <= Highest(dock)

\* The VRR thread looks up whether it is wanted before it waits for the mutex: after it was
\* stopped, one more pass is all that it makes (governor.cpp:254).
OnePassTooLate == late <= 1

\* The answer about the focus that is kept is the true one, unless the look at the newest
\* event has failed (process_management.cpp:90).
FocusKnown == ~fresh /\ ~missed /\ focus # "none" => cached = (focus = "out")

\* A pass that changes the panel leaves it at a multiple of the frame rate, through the
\* choice of the thread (governor.cpp:312) and that of the driver (display_refresh_rate.cpp:
\* 320).  Where the u8 of the highest rate came out beyond the panel's (governor.cpp:303)
\* the driver's highest rate may be the result instead.  RETRO SUPER consoles are left out:
\* their driver picks another rate than it was asked for (display_refresh_rate.cpp:540).
PassFits ==
  [][\A fps \in Fps \ {0} :
       VrrAdjust(fps) /\ panel' # panel /\ ~console.retro
       => panel' % fps = 0 \/ (MaxDisplay > PanelMax /\ panel' = PanelMax)]_vars

\* The main thread ticks for ever: the VRR thread sleeps with the mutex, but always gives
\* it back when SaltyNX is installed (governor.cpp:281).
TicksForEver == salty => []<>(mpc = "unlock")

\* "Max Display Clock (Handheld)" (config.h:234): no handheld profile asks for more, and
\* the panel shows no more.
CapKept == Handheld => \E w \in Wishes : panel <= Max({StockRate, w.handheld, w.override})
=============================================================================

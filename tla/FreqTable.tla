----------------------------- MODULE FreqTable -----------------------------
(***************************************************************************)
(* The pure arithmetic of the clock manager and of the governor: which     *)
(* frequencies a module may be given, which entry of its frequency table a *)
(* request selects, and which entry a load selects.                        *)
(*                                                                         *)
(* Frequencies are in units of 100 kHz (460.8 MHz is 4608), the finest     *)
(* step any table of the console has, so that TLC's 32-bit integers hold   *)
(* them.  A table is gFreqTable[module]: its `list` cut to `count`.        *)
(***************************************************************************)
EXTENDS Integers, Sequences, FiniteSetsExt

Clocks == {"CPU", "GPU", "MEM"}          \* the modules PCV has a clock for
Governable == {"CPU", "GPU"}             \* the modules a governor drives
Profile == {"Handheld", "HandheldCharging", "HandheldChargingUSB",
            "HandheldChargingOfficial", "Docked"}
SocType == {"Erista", "Mariko"}

MHz == 10            \* one megahertz
StepUtil == 900      \* STEP_UTIL: the load, of 1000, that asks for the top entry
NoLimit == 2000000000 \* the ~0 of GetMaxAllowedHz: above every entry, and not 0

\* A table as RefreshFreqTableRow leaves it: not empty, strictly ascending rates.
IsFreqTable(t) ==
  /\ t \in Seq(Nat)
  /\ t # << >>
  /\ \A i \in DOMAIN t : t[i] > 0
  /\ \A i, j \in DOMAIN t : i < j => t[i] < t[j]

Entries(t) == {t[i] : i \in DOMAIN t}

IsAssignableHz(m, hz) ==
  /\ m = "CPU" => hz >= 500 * MHz
  /\ m = "MEM" => hz >= 6656

\* RefreshFreqTableRow: the rates PCV lists, less those that are too low.
FreqTableRow(m, rates) == SelectSeq(rates, LAMBDA hz : IsAssignableHz(m, hz))

\* The GPU cap of a Mariko console by its undervolt level (0 none, 1 SLT, 2 HiOPT).
HandheldGpuCap(uv) == CASE uv = 1 -> 6912 [] uv = 2 -> 7680 [] OTHER -> 6144
UsbGpuCap(uv) == CASE uv = 1 -> 9216 [] uv = 2 -> 9984 [] OTHER -> 8448

\* 0 stands for "no cap", as in the code.
GetMaxAllowedHz(soc, uncapped, uv, m, profile) ==
  CASE uncapped -> NoLimit
    [] ~uncapped /\ m = "GPU" /\ profile = "Handheld" ->
         IF soc = "Mariko" THEN HandheldGpuCap(uv) ELSE 4608
    [] ~uncapped /\ m = "GPU" /\ profile \in {"HandheldCharging", "HandheldChargingUSB"} ->
         IF soc = "Mariko" THEN UsbGpuCap(uv) ELSE 7680
    [] ~uncapped /\ m = "CPU" ->
         IF profile = "Handheld" /\ soc = "Erista" THEN 15810 ELSE NoLimit
    [] OTHER -> 0

\* The RAM clocks, in MHz, up to which each step of GPU voltage suffices, by the
\* speedo bracket of the GPU.  Step i is 580 + 10 * i mV.
RamTable == <<
  <<2133, 2200, 2266, 2300, 2366, 2400, 2433, 2466, 2533, 2566, 2600,
    2633, 2700, 2733, 2766, 2833, 2866, 2900, 2933, 3033, 3066, 3100>>,
  <<2300, 2366, 2433, 2466, 2533, 2566, 2633, 2700, 2733, 2800, 2833,
    2900, 2933, 2966, 3033, 3066, 3100, 3133, 3166, 3200, 3233, 3266>>,
  <<2433, 2466, 2533, 2600, 2666, 2733, 2766, 2800, 2833, 2866, 2933,
    2966, 3033, 3066, 3100, 3133, 3166, 3200, 3233, 3300, 3333, 3366>>,
  <<2500, 2533, 2600, 2633, 2666, 2733, 2800, 2866, 2900, 2966, 3033,
    3100, 3166, 3200, 3233, 3266, 3300, 3333, 3366, 3400, 3400, 3400>> >>

\* The GPU voltage, in mV, below which RAM at freqMhz is not stable; 0 for the
\* clocks the stock voltages serve.
GetMinimumGpuVmin(freqMhz, bracket) ==
  LET enough == {i \in 1 .. 22 : freqMhz <= RamTable[bracket + 1][i]}
  IN  IF freqMhz <= 1600 THEN 0
      ELSE IF enough = {} THEN 800 ELSE 580 + 10 * Min(enough)

-----------------------------------------------------------------------------
\* The positions at which the search of GetNearestHz stops: the last entry, an
\* entry that reaches the cap, or one whose midpoint with the next is not
\* below the request.
StopsNearest(t, inHz, maxHz) ==
  {i \in DOMAIN t : \/ i = Len(t)
                    \/ maxHz > 0 /\ t[i] >= maxHz
                    \/ inHz <= (t[i] + t[i + 1]) \div 2}

GetNearestHz(t, inHz, maxHz) == t[Min(StopsNearest(t, inHz, maxHz))]

\* A mutant: the entry that equals the target is passed over.
StopsAbove(t, targetHz) == {i \in DOMAIN t : i = Len(t) \/ t[i] > targetHz}

\* The positions at which the search of TableIndexForHz stops.
StopsAtLeast(t, targetHz) == {i \in DOMAIN t : i = Len(t) \/ t[i] >= targetHz}

TableHzFor(t, targetHz) == t[Min(StopsAtLeast(t, targetHz))]

SchedutilTargetHz(util, tableMaxHz) ==
  LET hz == (tableMaxHz * util) \div StepUtil
  IN  IF hz < tableMaxHz THEN hz ELSE tableMaxHz

\* `if (limit && hz > limit) hz = limit`, as the governors apply a target and a cap.
Limited(hz, limit) == IF limit # 0 /\ hz > limit THEN limit ELSE hz

=============================================================================

--------------------------- MODULE MCClockManager ---------------------------
(* Small consoles for module ClockManager: one game, tables of three or four *)
(* entries taken from the console's own, and the stock clocks of handheld    *)
(* mode, docked mode and boost mode (units of 100 kHz).                      *)
EXTENDS ClockManager, TLC

MCApps == {"none", "qlaunch", "game"}

Handheld == <<"game", "Handheld">>
Docked == <<"game", "Docked">>
Menu == <<"qlaunch", "Handheld">>
OneWorld == {Handheld}
DockWorlds == {Handheld, Docked}

\* Performance configurations: 0x00020004, 0x00010001 and 0x92220009.
MCStock == [conf \in {"handheld", "docked", "boost"} |->
  CASE conf = "handheld" -> [CPU |-> 10200, GPU |-> 3840, MEM |-> 13312]
    [] conf = "docked"   -> [CPU |-> 10200, GPU |-> 7680, MEM |-> 16000]
    [] conf = "boost"    -> [CPU |-> 17850, GPU |-> 768,  MEM |-> 16000]]
StockOf(confs) == [conf \in confs |-> MCStock[conf]]
StockHandheld == StockOf({"handheld"})
StockDock == StockOf({"handheld", "docked"})
StockBoost == StockOf({"handheld", "boost"})

\* Rates as PCV lists them, the lowest of the CPU and the RAM unassignable.
TableOf(cpu, gpu, mem) ==
  [CPU |-> FreqTableRow("CPU", cpu), GPU |-> FreqTableRow("GPU", gpu), MEM |-> FreqTableRow("MEM", mem)]
EristaTable ==
  TableOf(<<2040, 6120, 10200, 15810, 17850>>, <<3840, 4608, 7680>>, <<4080, 13312, 16000>>)
MarikoTable ==
  TableOf(<<2040, 10200, 19635>>, <<3840, 6144, 7680, 8448>>, <<4080, 13312, 16000, 19968, 24000>>)

\* What a section holds for one profile, in MHz, and sections of such rows.
Row(cpu, gpu, mem, pack) == [CPU |-> cpu, GPU |-> gpu, MEM |-> mem, Governor |-> pack]
Nothing == Row(0, 0, 0, NoPack)
Pack(cpu, gpu) == [CPU |-> cpu, GPU |-> gpu]
CpuOn == Pack("Enabled", "DoNotOverride")
GpuOn == Pack("DoNotOverride", "Enabled")
BothOn == Pack("Enabled", "Enabled")
Both(handheld, docked) ==
  [p \in Profile |-> IF p = "Handheld" THEN handheld ELSE IF p = "Docked" THEN docked ELSE Nothing]

MCContent ==
  "empty"    :> Both(Nothing, Nothing) @@
  "governed" :> Both(Row(1785, 768, 0, BothOn), Row(0, 460, 0, GpuOn)) @@
  "cpu"      :> Both(Row(1785, 0, 0, NoPack), Row(1785, 0, 0, NoPack)) @@
  "ram"      :> Both(Row(0, 614, 2400, NoPack), Row(0, 0, 1600, NoPack)) @@
  "modest"   :> Both(Row(0, 460, 1600, NoPack), Row(0, 460, 1600, NoPack))

SectionsOf(game, global) ==
  [a \in Title |-> CASE a = "game" -> game [] a = Global -> global [] OTHER -> {"empty"}]

MCSection == DOMAIN MCContent
Values(cpu, gpu, mem, pack) ==
  [CPU |-> {0} \cup cpu, GPU |-> {0} \cup gpu, MEM |-> {0} \cup mem, Governor |-> {NoPack} \cup pack]

\* Governors on an Erista console that is docked and undocked.
GovernorSections == SectionsOf({"governed"}, {"empty"})
GovernorOverrides == Values({}, {}, {}, {Pack("Disabled", "Disabled")})

\* RAM overclocks on a Mariko console, without governors.
RamSections == SectionsOf({"ram", "empty"}, {"empty"})
RamOverride == Values({}, {}, {19968}, {})

\* The smallest settings that show a disagreement.
CpuSections == SectionsOf({"cpu"}, {"empty"})
ModestSections == SectionsOf({"modest"}, {"empty"})
Minus45mV == -45
NoOverrides == Values({}, {}, {}, {})
=============================================================================

-------------------------------- MODULE MCVrr --------------------------------
(* Consoles of every kind, two televisions, frame rates at the boundaries.  *)
EXTENDS Vrr

Wish(vrr, overwrite, override, handheld, docked) ==
  [vrr |-> vrr, overwrite |-> overwrite, override |-> override, handheld |-> handheld,
   docked |-> docked]

MCConsoles ==
  {[model |-> "aula", retro |-> FALSE], [model |-> "lite", retro |-> FALSE],
   [model |-> "icosa", retro |-> TRUE]}
MCTvs == {[max |-> 60, lines |-> 1080], [max |-> 130, lines |-> 1080]}

\* VRR with no cap and with one in the profile; fixed rates, in the dock of an override.
MCWishes ==
  {Wish(TRUE, TRUE, 0, 0, 120), Wish(TRUE, FALSE, 0, 55, 0), Wish(FALSE, TRUE, 72, 0, 120)}

\* A user who sets a cap of 55 Hz in the profile and turns VRR on.
CapWishes == {Wish(TRUE, TRUE, 0, 55, 0)}
CapConsoles == {[model |-> "icosa", retro |-> FALSE]}
=============================================================================

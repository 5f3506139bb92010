---------------------------- MODULE SettingsStore ----------------------------
(***************************************************************************)
(* What config.cpp promises to the rest of the sysmodule: a store of        *)
(* sections that are saved one at a time and never mixed, and the program's *)
(* view of it, which only ever moves to what is saved.  The one loss it     *)
(* admits is that of every section at once, when the console goes off.      *)
(* ConfigStore is the detailed store, KipSettings shows that it keeps this. *)
(***************************************************************************)
CONSTANTS
  Content,   \* Content[s]: what section s may hold
  Defaults   \* what an absent file means

VARIABLES
  saved,     \* what a restart would find, by section
  view,      \* what the program works with, by section
  open       \* has the program loaded it?

vars == <<saved, view, open>>
Section == DOMAIN Content

Init ==
  /\ DOMAIN saved = Section /\ \A s \in Section : saved[s] \in Content[s]
  /\ view = Defaults /\ open = FALSE

\* A section is replaced as a whole, by the program or by hand.
Save(s) ==
  /\ saved'[s] \in Content[s] /\ saved' = [saved EXCEPT ![s] = saved'[s]]
  /\ UNCHANGED <<view, open>>

\* The program takes over one section, or all of them.
Publish(s) == view' = [view EXCEPT ![s] = saved[s]] /\ UNCHANGED <<saved, open>>
Reload == view' = saved /\ open' = TRUE /\ UNCHANGED saved

\* The console goes off: the view is gone, and in the worst case the sections.
Off == open /\ open' = FALSE /\ view' = Defaults /\ saved' \in {saved, Defaults}

Next == (\E s \in Section : Save(s) \/ Publish(s)) \/ Reload \/ Off

Spec == Init /\ [][Next]_vars
=============================================================================

---------------------------- MODULE FreqSearch -----------------------------
(***************************************************************************)
(* The two table searches of the sysmodule, step by step as their loops    *)
(* run: GetNearestHz (clock_manager.cpp), by which SetClocks picks the     *)
(* entry for a target, and TableIndexForHz (governor.cpp), by which a      *)
(* governor picks it.  The loops are checked against what a user expects   *)
(* of them, and against the closed forms of module FreqTable that the      *)
(* other modules use.                                                      *)
(***************************************************************************)
EXTENDS FreqTable

CONSTANTS Tables,     \* the frequency tables that are tried
          Requests,   \* the requested frequencies, 0 among them
          Limits      \* the caps, 0 (none) among them

ASSUME FreqSearchAssumption ==
  /\ \A t \in Tables : IsFreqTable(t)
  /\ Requests \subseteq Nat
  /\ Limits \subseteq Nat

\* PCV's rates are further apart than the two megahertz that rounding may cost.
ASSUME SpacingAssumption ==
  \A t \in Tables : \A i, j \in DOMAIN t : i < j => t[i] + 2 * MHz <= t[j]

VARIABLES
  table,    \* gFreqTable[module]
  inHz,     \* the request
  maxHz,    \* the cap
  near,     \* the index of GetNearestHz's loop
  least,    \* the index of TableIndexForHz's loop
  done      \* the loops that have ended

vars == <<table, inHz, maxHz, near, least, done>>

TypeOK ==
  /\ table \in Tables
  /\ inHz \in Requests
  /\ maxHz \in Limits
  /\ near \in DOMAIN table
  /\ least \in DOMAIN table
  /\ done \subseteq {"near", "least"}

Init ==
  /\ table \in Tables
  /\ inHz \in Requests
  /\ maxHz \in Limits
  /\ near = 1
  /\ least = 1
  /\ done = {}

\* A mutant: the cap is compared after the step, one entry too late.
NearStopsUncapped(i) ==
  \/ i = Len(table)
  \/ inHz <= (table[i] + table[i + 1]) \div 2

\* A mutant: the request is compared with the next entry, not with the midpoint.
NearStopsAtNext(i) ==
  \/ i = Len(table)
  \/ maxHz > 0 /\ table[i] >= maxHz
  \/ inHz <= table[i + 1]

NearStops(i) ==
  \/ i = Len(table)
  \/ maxHz > 0 /\ table[i] >= maxHz
  \/ inHz <= (table[i] + table[i + 1]) \div 2

\* A mutant: the governor's search skips the entry that equals its target.
LeastStopsStrict(i) == i = Len(table) \/ table[i] > inHz

\* A mutant: the last entry does not end the search.
LeastStopsPastEnd(i) == i > Len(table) \/ table[i] >= inHz

LeastStops(i) == i = Len(table) \/ table[i] >= inHz

\* An iteration of the loop of GetNearestHz.
StepNearest ==
  /\ "near" \notin done
  /\ IF NearStops(near)
     THEN done' = done \cup {"near"} /\ UNCHANGED near
     ELSE near' = near + 1 /\ UNCHANGED done
  /\ UNCHANGED <<table, inHz, maxHz, least>>

\* An iteration of the loop of TableIndexForHz.
StepAtLeast ==
  /\ "least" \notin done
  /\ IF LeastStops(least)
     THEN done' = done \cup {"least"} /\ UNCHANGED least
     ELSE least' = least + 1 /\ UNCHANGED done
  /\ UNCHANGED <<table, inHz, maxHz, near>>

Next == StepNearest \/ StepAtLeast

Spec == Init /\ [][Next]_vars

-----------------------------------------------------------------------------
Distance(x, y) == IF x < y THEN y - x ELSE x - y

\* Without a cap in the way, no entry of the table is closer to the request
\* than the one GetNearestHz returns: the midpoint test, with its integer
\* division, rounds neither up nor down too often.
NearestIsClosest ==
  "near" \in done /\ maxHz = 0 =>
    \A f \in Entries(table) : Distance(table[near], inHz) <= Distance(f, inHz)

\* A cap that is an entry of the table is never exceeded, and only a cap makes
\* GetNearestHz return less than the closest entry: of the entries up to the
\* cap it still takes the closest.
ClosestWithinCap ==
  "near" \in done /\ maxHz \in Entries(table) =>
    /\ table[near] <= maxHz
    /\ \A f \in Entries(table) :
         f <= maxHz => Distance(table[near], inHz) <= Distance(f, inHz)

\* The configuration file keeps whole megahertz.  A table entry that went
\* through the file (460.8 MHz stored as 460) is found again by SetClocks and
\* is the governor's ceiling too: both searches map it to the same entry.
MegahertzRoundTrip ==
  done = {"near", "least"} /\ maxHz = 0 =>
    \A f \in Entries(table) :
      inHz = (f \div MHz) * MHz => table[near] = f /\ table[least] = f

\* The loops compute the closed forms that the other modules use.
LoopsMatchClosedForms ==
  /\ "near" \in done => table[near] = GetNearestHz(table, inHz, maxHz)
  /\ "least" \in done => table[least] = TableHzFor(table, inHz)

=============================================================================

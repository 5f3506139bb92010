-------------------------- MODULE FreqTable_proofs --------------------------
(***************************************************************************)
(* What the two table searches return, for every table, request and cap.   *)
(***************************************************************************)
EXTENDS FreqTable, WellFoundedInduction, TLAPS

(* A set of naturals that is not empty has a least element, and Min is it. *)
LEMMA MinOfNats ==
  ASSUME NEW S, S \subseteq Nat, S # {}
  PROVE  Min(S) \in S /\ \A x \in S : Min(S) <= x
<1> DEFINE R == {ss \in Nat \X Nat : ss[1] < ss[2]}
<1>0. R = OpToRel(<, Nat)
  BY Zenon DEF OpToRel
<1>1. IsWellFoundedOn(R, Nat)
  BY <1>0, NatLessThanWellFounded, Zenon
<1>2. \E x \in S : \A y \in S : <<y, x>> \notin R
  <2> HIDE DEF R
  <2> QED BY <1>1, WFMin
<1>3. \A x, y \in S : <<y, x>> \notin R => x <= y
  <2> SUFFICES ASSUME NEW x \in S, NEW y \in S, y < x
               PROVE  <<y, x>> \in R
    OBVIOUS
  <2>1. <<y, x>> \in Nat \X Nat /\ <<y, x>>[1] = y /\ <<y, x>>[2] = x
    OBVIOUS
  <2> QED
    BY <2>1
<1>4. \E x \in S : \A y \in S : x <= y
  <2> HIDE DEF R
  <2> QED BY <1>2, <1>3
<1> QED
  BY <1>4 DEF Min

(* The search of GetNearestHz stops, at the first position where it may. *)
LEMMA NearestStops ==
  ASSUME NEW t \in Seq(Nat), t # << >>, NEW inHz, NEW maxHz
  PROVE  LET i == Min(StopsNearest(t, inHz, maxHz))
         IN  i \in DOMAIN t /\ \A j \in StopsNearest(t, inHz, maxHz) : i <= j
<1> DEFINE S == StopsNearest(t, inHz, maxHz)
<1>1. Len(t) \in DOMAIN t /\ DOMAIN t \subseteq Nat
  OBVIOUS
<1>2. S \subseteq DOMAIN t /\ S # {}
  BY <1>1 DEF StopsNearest
<1> QED
  BY <1>1, <1>2, MinOfNats

(* So does the search of TableIndexForHz. *)
LEMMA AtLeastStops ==
  ASSUME NEW t \in Seq(Nat), t # << >>, NEW hz
  PROVE  LET i == Min(StopsAtLeast(t, hz))
         IN  i \in DOMAIN t /\ \A j \in StopsAtLeast(t, hz) : i <= j
<1> DEFINE S == StopsAtLeast(t, hz)
<1>1. Len(t) \in DOMAIN t /\ DOMAIN t \subseteq Nat
  OBVIOUS
<1>2. S \subseteq DOMAIN t /\ S # {}
  BY <1>1 DEF StopsAtLeast
<1> QED
  BY <1>1, <1>2, MinOfNats

-----------------------------------------------------------------------------
(* SetClocks sets an entry of the table, whatever the target and the cap. *)
THEOREM NearestInTable ==
  ASSUME NEW t \in Seq(Nat), t # << >>, NEW inHz, NEW maxHz
  PROVE  GetNearestHz(t, inHz, maxHz) \in Entries(t)
BY NearestStops DEF GetNearestHz, Entries

(* A cap that is an entry, or above them all, is not exceeded. *)
THEOREM NearestWithinCap ==
  ASSUME NEW t, IsFreqTable(t), NEW inHz, NEW maxHz \in Nat \ {0},
         maxHz \in Entries(t) \/ \A f \in Entries(t) : f <= maxHz
  PROVE  GetNearestHz(t, inHz, maxHz) <= maxHz
<1> DEFINE i == Min(StopsNearest(t, inHz, maxHz))
<1>1. t \in Seq(Nat) /\ t # << >> /\ DOMAIN t \subseteq Nat /\ \A j \in DOMAIN t : t[j] \in Nat
  BY DEF IsFreqTable
<1>2. i \in DOMAIN t /\ \A j \in StopsNearest(t, inHz, maxHz) : i <= j
  BY <1>1, NearestStops
<1>3. CASE \A f \in Entries(t) : f <= maxHz
  BY <1>1, <1>3, NearestInTable
<1>4. CASE maxHz \in Entries(t)
  <2>1. PICK k \in DOMAIN t : t[k] = maxHz
    BY <1>4 DEF Entries
  <2>2. k \in StopsNearest(t, inHz, maxHz)
    BY <2>1, <1>1 DEF StopsNearest
  <2>3. i <= k
    BY <1>2, <2>2
  <2>4. t[i] <= t[k]
    <3> HIDE DEF i
    <3> QED BY <1>1, <1>2, <2>1, <2>3 DEF IsFreqTable
  <2> QED
    BY <2>1, <2>4 DEF GetNearestHz
<1> QED
  BY <1>3, <1>4

(* A governor sets an entry of the table, whatever the load. *)
THEOREM AtLeastInTable ==
  ASSUME NEW t \in Seq(Nat), t # << >>, NEW hz
  PROVE  TableHzFor(t, hz) \in Entries(t)
BY AtLeastStops DEF TableHzFor, Entries

(* The search goes upwards and still keeps a limit that is an entry. *)
THEOREM AtLeastWithinLimit ==
  ASSUME NEW t, IsFreqTable(t), NEW limit \in Nat, NEW hz \in Nat, hz <= limit,
         limit \in Entries(t) \/ \A f \in Entries(t) : f <= limit
  PROVE  TableHzFor(t, hz) <= limit
<1> DEFINE i == Min(StopsAtLeast(t, hz))
<1>1. t \in Seq(Nat) /\ t # << >> /\ DOMAIN t \subseteq Nat /\ \A j \in DOMAIN t : t[j] \in Nat
  BY DEF IsFreqTable
<1>2. i \in DOMAIN t /\ \A j \in StopsAtLeast(t, hz) : i <= j
  BY <1>1, AtLeastStops
<1>3. CASE \A f \in Entries(t) : f <= limit
  BY <1>1, <1>3, AtLeastInTable
<1>4. CASE limit \in Entries(t)
  <2>1. PICK k \in DOMAIN t : t[k] = limit
    BY <1>4 DEF Entries
  <2>2. k \in StopsAtLeast(t, hz)
    BY <2>1, <1>1 DEF StopsAtLeast
  <2>3. i <= k
    BY <1>2, <2>2
  <2>4. t[i] <= t[k]
    <3> HIDE DEF i
    <3> QED BY <1>1, <1>2, <2>1, <2>3 DEF IsFreqTable
  <2> QED
    BY <2>1, <2>4 DEF TableHzFor
<1> QED
  BY <1>3, <1>4

(* The two searches agree on a target that does not lie just above an entry:
   asked for no more than the target and the cap, the governor's search
   upwards ends at the entry nearest to the target, or before it. *)
THEOREM AtLeastWithinNearest ==
  ASSUME NEW t, IsFreqTable(t), NEW target \in Nat, NEW limit \in Nat, NEW hz \in Nat,
         hz <= target, limit = 0 \/ hz <= limit,
         GetNearestHz(t, target, 0) >= target \/ \A f \in Entries(t) : f <= target
  PROVE  TableHzFor(t, hz) <= GetNearestHz(t, target, limit)
<1> DEFINE S == StopsNearest(t, target, limit)
           S0 == StopsNearest(t, target, 0)
           n == Min(S)
           i == Min(StopsAtLeast(t, hz))
<1>1. /\ t \in Seq(Nat) /\ t # << >> /\ DOMAIN t = 1 .. Len(t) /\ Len(t) \in Nat
      /\ \A j \in DOMAIN t : t[j] \in Nat
      /\ \A j, k \in DOMAIN t : j < k => t[j] < t[k]
  BY DEF IsFreqTable
<1>2. n \in DOMAIN t /\ n \in S /\ \A j \in S : n <= j
  <2>1. S # {} /\ S \subseteq Nat
    BY <1>1 DEF StopsNearest
  <2>2. QED
    BY <1>1, <2>1, MinOfNats, NearestStops
<1>3. i \in DOMAIN t /\ \A j \in StopsAtLeast(t, hz) : i <= j
  BY <1>1, AtLeastStops
<1>4. n = Len(t) \/ t[n] >= hz
  <2>1. CASE n = Len(t) \/ (limit > 0 /\ t[n] >= limit)
    <3> HIDE DEF n
    <3>1. n \in DOMAIN t /\ t[n] \in Nat
      BY <1>1, <1>2
    <3>2. QED
      BY <2>1, <3>1
  <2>2. CASE n # Len(t) /\ ~(limit > 0 /\ t[n] >= limit)
    <3>1. target <= (t[n] + t[n + 1]) \div 2
      BY <1>2, <2>2 DEF StopsNearest
    <3>2. n \in S0 /\ S0 \subseteq S
      BY <1>2, <2>2, <3>1 DEF StopsNearest
    <3>3. Min(S0) = n
      <4>1. Min(S0) \in S0 /\ Min(S0) \in Nat /\ \A x \in S0 : Min(S0) <= x
        <5>1. S0 # {} /\ S0 \subseteq Nat
          BY <1>1, <3>2 DEF StopsNearest
        <5>2. QED
          BY <5>1, MinOfNats
      <4>2. Min(S0) <= n /\ n <= Min(S0)
        BY <1>2, <3>2, <4>1
      <4>3. n \in Nat
        BY <1>1, <1>2
      <4> HIDE DEF n, S0
      <4>4. QED
        BY <4>1, <4>2, <4>3
    <3>4. GetNearestHz(t, target, 0) = t[n]
      BY <3>3 DEF GetNearestHz
    <3> HIDE DEF n, S, S0
    <3>5. n + 1 \in DOMAIN t /\ n < n + 1 /\ t[n] \in Nat
      BY <1>1, <1>2, <2>2
    <3>6. t[n + 1] \in Nat /\ t[n] < t[n + 1] /\ t[n + 1] \in Entries(t)
      BY <1>1, <1>2, <3>5 DEF Entries
    <3>7. \A a, b, c \in Nat : c <= (a + b) \div 2 /\ a < b => c < b
      OBVIOUS
    <3>8. target < t[n + 1]
      BY <3>1, <3>5, <3>6, <3>7
    <3>9. t[n] >= target
      BY <3>4, <3>6, <3>8
    <3>10. QED
      BY <3>5, <3>9
  <2>3. QED
    BY <2>1, <2>2
<1>5. n \in StopsAtLeast(t, hz)
  BY <1>2, <1>4 DEF StopsAtLeast
<1>6. i <= n
  BY <1>3, <1>5
<1>7. t[i] <= t[n]
  <2> HIDE DEF i, n, S
  <2>1. i \in Nat /\ n \in Nat /\ t[i] \in Nat /\ t[n] \in Nat
    BY <1>1, <1>2, <1>3
  <2>2. i = n \/ i < n
    BY <1>6, <2>1
  <2>3. QED
    BY <1>1, <1>2, <1>3, <2>1, <2>2
<1>8. QED
  BY <1>7 DEF TableHzFor, GetNearestHz

(* The entries of a table are naturals. *)
LEMMA EntriesAreNat ==
  ASSUME NEW t, IsFreqTable(t)
  PROVE  Entries(t) \subseteq Nat
BY DEF IsFreqTable, Entries
=============================================================================

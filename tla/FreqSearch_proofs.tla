------------------------- MODULE FreqSearch_proofs -------------------------
(***************************************************************************)
(* The two searches, for every table, request and cap.  The invariant of a *)
(* loop: no position before the current one lets it stop, and where it     *)
(* ended one did.                                                          *)
(***************************************************************************)
EXTENDS FreqSearch, FreqTable_proofs

NearInv ==
  /\ \A j \in DOMAIN table : j < near => ~NearStops(j)
  /\ "near" \in done => NearStops(near)

LeastInv ==
  /\ \A j \in DOMAIN table : j < least => ~LeastStops(j)
  /\ "least" \in done => LeastStops(least)

IInv == TypeOK /\ NearInv /\ LeastInv

(* The table of a state is a frequency table, its positions are 1 .. Len. *)
LEMMA TableType ==
  ASSUME TypeOK
  PROVE  /\ IsFreqTable(table)
         /\ table \in Seq(Nat) /\ Len(table) \in Nat /\ Len(table) >= 1
         /\ DOMAIN table = 1 .. Len(table)
         /\ \A j \in DOMAIN table : table[j] \in Nat /\ table[j] > 0
         /\ \A j, k \in DOMAIN table : j < k => table[j] < table[k]
         /\ inHz \in Nat /\ maxHz \in Nat
<1>1. IsFreqTable(table) /\ inHz \in Nat /\ maxHz \in Nat
  BY FreqSearchAssumption DEF TypeOK
<1> QED
  BY <1>1 DEF IsFreqTable

(* The loop invariants hold from the start ... *)
LEMMA InitIInv == Init => IInv
<1> SUFFICES ASSUME Init PROVE IInv
  OBVIOUS
<1>1. IsFreqTable(table)
  BY FreqSearchAssumption DEF Init
<1>2. 1 \in DOMAIN table /\ DOMAIN table \subseteq Nat \ {0}
  BY <1>1 DEF IsFreqTable
<1>3. TypeOK
  BY <1>2 DEF Init, TypeOK
<1>4. NearInv /\ LeastInv
  BY <1>2 DEF Init, NearInv, LeastInv
<1> QED
  BY <1>3, <1>4 DEF IInv

(* ... and over every iteration. *)
LEMMA NextIInv == IInv /\ [Next]_vars => IInv'
<1> SUFFICES ASSUME IInv, [Next]_vars PROVE IInv'
  OBVIOUS
<1> USE DEF IInv
<1>0. TypeOK /\ NearInv /\ LeastInv
  OBVIOUS
<1>t. /\ Len(table) \in Nat
      /\ DOMAIN table = 1 .. Len(table)
  BY <1>0, TableType
<1>1. CASE StepNearest
  <2>1. CASE NearStops(near)
    <3>1. near' = near /\ done' = done \cup {"near"} /\ UNCHANGED <<table, inHz, maxHz, least>>
      BY <1>1, <2>1 DEF StepNearest
    <3>2. TypeOK'
      BY <1>0, <3>1 DEF TypeOK
    <3>3. NearInv' /\ LeastInv'
      BY <1>0, <2>1, <3>1 DEF NearInv, LeastInv, NearStops, LeastStops
    <3> QED BY <3>2, <3>3
  <2>2. CASE ~NearStops(near)
    <3>1. near' = near + 1 /\ "near" \notin done /\ UNCHANGED <<done, table, inHz, maxHz, least>>
      BY <1>1, <2>2 DEF StepNearest
    <3>2. near \in DOMAIN table /\ near # Len(table)
      BY <1>0, <2>2 DEF TypeOK, NearStops
    <3>3. TypeOK'
      BY <1>0, <1>t, <3>1, <3>2 DEF TypeOK
    <3>4. \A j \in DOMAIN table : j < near + 1 => j = near \/ j < near
      BY <1>t, <3>2
    <3>5. NearInv'
      BY <1>0, <2>2, <3>1, <3>4 DEF NearInv, NearStops
    <3>6. LeastInv'
      BY <1>0, <3>1 DEF LeastInv, LeastStops
    <3> QED BY <3>3, <3>5, <3>6
  <2> QED BY <2>1, <2>2
<1>2. CASE StepAtLeast
  <2>1. CASE LeastStops(least)
    <3>1. least' = least /\ done' = done \cup {"least"} /\ UNCHANGED <<table, inHz, maxHz, near>>
      BY <1>2, <2>1 DEF StepAtLeast
    <3>2. TypeOK'
      BY <1>0, <3>1 DEF TypeOK
    <3>3. NearInv' /\ LeastInv'
      BY <1>0, <2>1, <3>1 DEF NearInv, LeastInv, NearStops, LeastStops
    <3> QED BY <3>2, <3>3
  <2>2. CASE ~LeastStops(least)
    <3>1. least' = least + 1 /\ "least" \notin done /\ UNCHANGED <<done, table, inHz, maxHz, near>>
      BY <1>2, <2>2 DEF StepAtLeast
    <3>2. least \in DOMAIN table /\ least # Len(table)
      BY <1>0, <2>2 DEF TypeOK, LeastStops
    <3>3. TypeOK'
      BY <1>0, <1>t, <3>1, <3>2 DEF TypeOK
    <3>4. \A j \in DOMAIN table : j < least + 1 => j = least \/ j < least
      BY <1>t, <3>2
    <3>5. LeastInv'
      BY <1>0, <2>2, <3>1, <3>4 DEF LeastInv, LeastStops
    <3>6. NearInv'
      BY <1>0, <3>1 DEF NearInv, NearStops
    <3> QED BY <3>3, <3>5, <3>6
  <2> QED BY <2>1, <2>2
<1>3. CASE UNCHANGED vars
  BY <1>0, <1>3 DEF vars, TypeOK, NearInv, LeastInv, NearStops, LeastStops
<1> QED
  BY <1>1, <1>2, <1>3 DEF Next

(* So the loop invariants hold in every state. *)
LEMMA IInvHolds == Spec => []IInv
<1> QED
  BY InitIInv, NextIInv, PTL DEF Spec

(* The searches never leave the table: the indices stay between the first
   and the last entry. *)
THEOREM IndicesInTable == Spec => []TypeOK
<1>1. IInv => TypeOK
  BY DEF IInv
<1> QED
  BY <1>1, IInvHolds, PTL

(* Where GetNearestHz's loop ends, the request is above the midpoint before
   it and, unless the cap or the table ended it, not above the one after it. *)
LEMMA Midpoints ==
  ASSUME IInv, "near" \in done
  PROVE  /\ \A j \in DOMAIN table : j < near => 2 * inHz > table[j] + table[j + 1]
         /\ \/ near = Len(table)
            \/ maxHz > 0 /\ table[near] >= maxHz
            \/ 2 * inHz <= table[near] + table[near + 1]
<1>t. /\ TypeOK /\ NearInv
      /\ Len(table) \in Nat
      /\ DOMAIN table = 1 .. Len(table)
      /\ \A j \in DOMAIN table : table[j] \in Nat
      /\ inHz \in Nat
      /\ near \in DOMAIN table
  BY TableType DEF IInv, TypeOK
<1>h. \A a, b, c \in Nat : /\ ~(c <= (a + b) \div 2) => 2 * c > a + b
                           /\ c <= (a + b) \div 2 => 2 * c <= a + b
  OBVIOUS
<1>1. ASSUME NEW j \in DOMAIN table, j < near
      PROVE  2 * inHz > table[j] + table[j + 1]
  <2>1. ~NearStops(j) /\ j + 1 \in DOMAIN table
    BY <1>t, <1>1 DEF NearInv
  <2>2. ~(inHz <= (table[j] + table[j + 1]) \div 2)
    BY <2>1 DEF NearStops
  <2>3. table[j] \in Nat /\ table[j + 1] \in Nat
    BY <2>1, <1>t
  <2> QED
    BY <2>2, <2>3, <1>t, <1>h
<1>2. ASSUME near # Len(table), ~(maxHz > 0 /\ table[near] >= maxHz)
      PROVE  2 * inHz <= table[near] + table[near + 1]
  <2>1. near + 1 \in DOMAIN table
    BY <1>t, <1>2
  <2>2. inHz <= (table[near] + table[near + 1]) \div 2
    BY <1>t, <1>2 DEF NearInv, NearStops
  <2>3. table[near] \in Nat /\ table[near + 1] \in Nat
    BY <2>1, <1>t
  <2> QED
    BY <2>2, <2>3, <1>t, <1>h
<1> QED
  BY <1>1, <1>2

(* Of the entries, GetNearestHz's loop ends at the closest to the request, as
   far as neither the cap nor the end of the table stopped it before: the
   entries below are further away ... *)
LEMMA CloserThanBelow ==
  ASSUME IInv, "near" \in done, NEW j \in DOMAIN table, j < near
  PROVE  Distance(table[near], inHz) <= Distance(table[j], inHz)
<1>t. /\ TypeOK
      /\ Len(table) \in Nat
      /\ DOMAIN table = 1 .. Len(table)
      /\ \A k \in DOMAIN table : table[k] \in Nat
      /\ \A k, l \in DOMAIN table : k < l => table[k] < table[l]
      /\ inHz \in Nat
      /\ near \in DOMAIN table
  BY TableType DEF IInv, TypeOK
<1>1. near - 1 \in DOMAIN table /\ near - 1 < near /\ (near - 1) + 1 = near
  BY <1>t
<1>2. 2 * inHz > table[near - 1] + table[near]
  BY <1>1, Midpoints
<1>3. j = near - 1 \/ j < near - 1
  <2>1. j \in Nat /\ near \in Nat
    BY <1>t
  <2>2. QED
    BY <2>1
<1>4. table[j] <= table[near - 1]
  BY <1>1, <1>3, <1>t
<1>5. table[near - 1] < table[near]
  BY <1>1, <1>t
<1>6. table[j] \in Nat /\ table[near] \in Nat /\ table[near - 1] \in Nat
  BY <1>1, <1>t
<1> QED
  BY <1>2, <1>4, <1>5, <1>6, <1>t DEF Distance

(* ... and so are the entries above. *)
LEMMA CloserThanAbove ==
  ASSUME IInv, "near" \in done, NEW j \in DOMAIN table, near < j,
         ~(maxHz > 0 /\ table[near] >= maxHz)
  PROVE  Distance(table[near], inHz) <= Distance(table[j], inHz)
<1>t. /\ TypeOK
      /\ Len(table) \in Nat
      /\ DOMAIN table = 1 .. Len(table)
      /\ \A k \in DOMAIN table : table[k] \in Nat
      /\ \A k, l \in DOMAIN table : k < l => table[k] < table[l]
      /\ inHz \in Nat
      /\ near \in DOMAIN table
  BY TableType DEF IInv, TypeOK
<1>1. near + 1 \in DOMAIN table /\ near # Len(table) /\ near < near + 1
  BY <1>t
<1>2. 2 * inHz <= table[near] + table[near + 1]
  BY <1>1, Midpoints
<1>3. j = near + 1 \/ near + 1 < j
  BY <1>t
<1>4. table[near + 1] <= table[j]
  BY <1>1, <1>3, <1>t
<1>5. table[near] < table[near + 1]
  BY <1>1, <1>t
<1>6. table[j] \in Nat /\ table[near] \in Nat /\ table[near + 1] \in Nat
  BY <1>1, <1>t
<1> QED
  BY <1>2, <1>4, <1>5, <1>6, <1>t DEF Distance

(* Without a cap SetClocks sets the entry that is closest to the request. *)
THEOREM Closest == Spec => []NearestIsClosest
<1>1. ASSUME IInv PROVE NearestIsClosest
  <2> SUFFICES ASSUME "near" \in done, maxHz = 0, NEW j \in DOMAIN table
               PROVE  Distance(table[near], inHz) <= Distance(table[j], inHz)
    BY DEF NearestIsClosest, Entries
  <2>1. near \in Nat /\ j \in Nat /\ table[near] \in Nat /\ inHz \in Nat
    BY <1>1, TableType DEF IInv, TypeOK
  <2>2. j = near \/ j < near \/ near < j
    BY <2>1
  <2>3. CASE j = near
    BY <2>1, <2>3 DEF Distance
  <2> QED
    BY <1>1, <2>2, <2>3, CloserThanBelow, CloserThanAbove
<1> QED
  BY <1>1, IInvHolds, PTL

(* With a cap that is an entry of the table, SetClocks never exceeds the cap
   and sets the closest of the entries up to it. *)
THEOREM WithinCap == Spec => []ClosestWithinCap
<1>1. ASSUME IInv PROVE ClosestWithinCap
  <2> SUFFICES ASSUME "near" \in done, NEW k \in DOMAIN table, maxHz = table[k]
               PROVE  /\ table[near] <= maxHz
                      /\ \A j \in DOMAIN table : table[j] <= maxHz =>
                           Distance(table[near], inHz) <= Distance(table[j], inHz)
    BY DEF ClosestWithinCap, Entries
  <2>t. /\ TypeOK /\ NearInv
        /\ Len(table) \in Nat
        /\ DOMAIN table = 1 .. Len(table)
        /\ \A l \in DOMAIN table : table[l] \in Nat
        /\ \A l \in DOMAIN table : table[l] > 0
        /\ \A l, m \in DOMAIN table : l < m => table[l] < table[m]
        /\ inHz \in Nat
        /\ near \in DOMAIN table
    BY <1>1, TableType DEF IInv, TypeOK
  <2>1. ~(k < near)
    <3>1. SUFFICES ASSUME k < near PROVE FALSE
      OBVIOUS
    <3>2. ~NearStops(k) /\ k + 1 \in DOMAIN table /\ k < k + 1
      BY <2>t, <3>1 DEF NearInv
    <3>3. ~(maxHz > 0 /\ table[k] >= maxHz)
      BY <3>2 DEF NearStops
    <3> QED
      BY <2>t, <3>3
  <2>2. table[near] <= maxHz
    <3>1. near = k \/ near < k
      BY <2>1, <2>t
    <3> QED
      BY <3>1, <2>t
  <2>3. ASSUME NEW j \in DOMAIN table, table[j] <= maxHz
        PROVE  Distance(table[near], inHz) <= Distance(table[j], inHz)
    <3>1. CASE j < near
      BY <1>1, <3>1, CloserThanBelow
    <3>2. CASE j = near
      BY <2>t, <3>2 DEF Distance
    <3>3. CASE near < j
      <4>1. table[near] < table[j]
        BY <2>t, <3>3
      <4>2. ~(maxHz > 0 /\ table[near] >= maxHz)
        BY <2>3, <4>1, <2>t
      <4> QED
        BY <1>1, <3>3, <4>2, CloserThanAbove
    <3> QED
      BY <3>1, <3>2, <3>3, <2>t
  <2> QED
    BY <2>2, <2>3
<1> QED
  BY <1>1, IInvHolds, PTL

(* Whole megahertz cost less than one. *)
LEMMA RoundedDown ==
  ASSUME NEW f \in Nat
  PROVE  /\ (f \div MHz) * MHz \in Nat
         /\ (f \div MHz) * MHz <= f /\ f < (f \div MHz) * MHz + MHz
BY DEF MHz

(* The configuration file keeps whole megahertz: what it keeps of a table's
   entry leads both searches back to the entry, for every table whose entries
   are two megahertz apart. *)
THEOREM RoundTrip == Spec => []MegahertzRoundTrip
<1>1. ASSUME IInv PROVE MegahertzRoundTrip
  <2> SUFFICES ASSUME done = {"near", "least"}, maxHz = 0, NEW k \in DOMAIN table,
                      inHz = (table[k] \div MHz) * MHz
               PROVE  table[near] = table[k] /\ table[least] = table[k]
    BY DEF MegahertzRoundTrip, Entries
  <2>t. /\ DOMAIN table = 1 .. Len(table) /\ Len(table) \in Nat
        /\ \A j \in DOMAIN table : table[j] \in Nat
        /\ inHz \in Nat
        /\ near \in DOMAIN table /\ least \in DOMAIN table
    BY <1>1, TableType DEF IInv, TypeOK
  <2>1. inHz <= table[k] /\ table[k] < inHz + 10
    BY <2>t, RoundedDown DEF MHz
  <2>2. \A i, j \in DOMAIN table : i < j => table[i] + 20 <= table[j]
    BY <1>1, SpacingAssumption DEF IInv, TypeOK, MHz
  <2>3. ~(k < near)
    <3>1. SUFFICES ASSUME k < near PROVE FALSE
      OBVIOUS
    <3>2. k + 1 \in DOMAIN table /\ k < k + 1
      BY <2>t, <3>1
    <3>3. 2 * inHz > table[k] + table[k + 1]
      BY <1>1, <3>1, Midpoints
    <3>4. table[k] \in Nat /\ table[k + 1] \in Nat /\ table[k] + 20 <= table[k + 1]
      BY <2>t, <2>2, <3>2
    <3>5. \A a, b, c \in Nat : a + 20 <= b /\ c <= a => ~(2 * c > a + b)
      OBVIOUS
    <3>6. QED
      BY <2>1, <2>t, <3>3, <3>4, <3>5
  <2>4. ~(near < k)
    <3>1. SUFFICES ASSUME near < k PROVE FALSE
      OBVIOUS
    <3>2. near + 1 \in DOMAIN table /\ near < near + 1 /\ near # Len(table)
      BY <2>t, <3>1
    <3>3. 2 * inHz <= table[near] + table[near + 1]
      BY <1>1, <3>2, Midpoints
    <3>4. near + 1 = k \/ near + 1 < k
      BY <2>t, <3>1
    <3>5. /\ table[k] \in Nat /\ table[near] \in Nat /\ table[near + 1] \in Nat
          /\ table[near] + 20 <= table[k] /\ table[near + 1] <= table[k]
      BY <2>t, <2>2, <3>1, <3>2, <3>4
    <3>6. \A a, b, c, d \in Nat : a + 20 <= d /\ b <= d /\ d < c + 10 => ~(2 * c <= a + b)
      OBVIOUS
    <3>7. QED
      BY <2>1, <2>t, <3>3, <3>5, <3>6
  <2>5. ~(k < least)
    <3>1. SUFFICES ASSUME k < least PROVE FALSE
      OBVIOUS
    <3>2. ~LeastStops(k)
      BY <1>1, <3>1 DEF IInv, LeastInv
    <3>3. QED
      BY <2>1, <2>t, <3>2 DEF LeastStops
  <2>6. ~(least < k)
    <3>1. SUFFICES ASSUME least < k PROVE FALSE
      OBVIOUS
    <3>2. table[least] >= inHz
      BY <1>1, <2>t, <3>1 DEF IInv, LeastInv, LeastStops
    <3>3. table[least] \in Nat /\ table[k] \in Nat /\ table[least] + 20 <= table[k]
      BY <2>t, <2>2, <3>1
    <3>4. QED
      BY <2>1, <2>t, <3>2, <3>3
  <2>7. near = k /\ least = k
    BY <2>t, <2>3, <2>4, <2>5, <2>6
  <2>8. QED
    BY <2>7
<1>2. QED
  BY <1>1, IInvHolds, PTL

(* The loops compute the closed forms of module FreqTable. *)
THEOREM ClosedForms == Spec => []LoopsMatchClosedForms
<1>1. ASSUME IInv PROVE LoopsMatchClosedForms
  <2>t. /\ NearInv /\ LeastInv
        /\ table \in Seq(Nat) /\ table # << >>
        /\ DOMAIN table \subseteq Nat
        /\ near \in DOMAIN table /\ least \in DOMAIN table
    BY <1>1, TableType DEF IInv, TypeOK
  <2>1. ASSUME "near" \in done PROVE table[near] = GetNearestHz(table, inHz, maxHz)
    <3> DEFINE S == StopsNearest(table, inHz, maxHz)
    <3>1. near \in S /\ \A j \in S : ~(j < near)
      BY <2>t, <2>1 DEF NearInv, NearStops, StopsNearest
    <3>2. Min(S) \in DOMAIN table /\ Min(S) <= near
      BY <2>t, <3>1, NearestStops
    <3>3. Min(S) \in S
      BY <2>t, <3>1, MinOfNats DEF StopsNearest
    <3>4. Min(S) = near
      <4> HIDE DEF S
      <4> QED BY <2>t, <3>1, <3>2, <3>3
    <3> QED
      BY <3>4 DEF GetNearestHz
  <2>2. ASSUME "least" \in done PROVE table[least] = TableHzFor(table, inHz)
    <3> DEFINE S == StopsAtLeast(table, inHz)
    <3>1. least \in S /\ \A j \in S : ~(j < least)
      BY <2>t, <2>2 DEF LeastInv, LeastStops, StopsAtLeast
    <3>2. Min(S) \in DOMAIN table /\ Min(S) <= least
      BY <2>t, <3>1, AtLeastStops
    <3>3. Min(S) \in S
      BY <2>t, <3>1, MinOfNats DEF StopsAtLeast
    <3>4. Min(S) = least
      <4> HIDE DEF S
      <4> QED BY <2>t, <3>1, <3>2, <3>3
    <3> QED
      BY <3>4 DEF TableHzFor
  <2> QED
    BY <2>1, <2>2 DEF LoopsMatchClosedForms
<1> QED
  BY <1>1, IInvHolds, PTL
=============================================================================

-------------------------- MODULE ConfigStore_proofs --------------------------
(***************************************************************************)
(* The configuration store keeps its promise, for any settings, profiles   *)
(* and bounds: whatever loads, saves, failures, edits and crashes           *)
(* interleave, ConfigStore implements SettingsStore, and its memory is      *)
(* behind the file without a reload to come only by two writes of one       *)
(* second.                                                                  *)
(***************************************************************************)
EXTENDS ConfigStore, TLAPS

storeVars == <<store, now>>
Settled == Unlocked \/ put.stage = "copied"

\* The copy that is being written differs from the file in one section; times grow
\* from the one that was read over those replaced to the clock.
Copying ==
  /\ ~loaded => mem = Defaults /\ gMtime = 0 /\ Unlocked
  /\ ~Unlocked /\ put.stage = "copied" =>
       /\ put.over = disk.mtime
       /\ put.sections = [disk.sections EXCEPT ![put.section] = put.sections[put.section]]
  /\ ~Settled => disk.sections = Defaults
Times ==
  /\ disk.mtime <= now
  /\ IF Unlocked THEN gMtime <= disk.mtime ELSE gMtime <= put.over /\ put.over <= now
StaleAgain ==
  Settled /\ loaded /\ gMtime = disk.mtime /\ mem # Read(disk.sections) => disk.again
StoreInv == StoreTypeOK /\ Copying /\ Times /\ StaleAgain

-----------------------------------------------------------------------------
LEMMA TimeBound == MaxTime \in Nat /\ MaxTime > 1
BY StoreAssumption

LEMMA ValuesRead ==
  /\ DefaultValues \in Values /\ Valid(DefaultValues) = DefaultValues
  /\ \A v \in Values : Valid(v) \in Values
BY StoreAssumption DEF DefaultValues, Values, Valid, Speedo

LEMMA SectionsRead ==
  /\ Defaults \in Sections /\ Read(Defaults) = Defaults
  /\ \A s \in Sections :
       /\ Read(s) \in Sections
       /\ Read(s).values = Valid(s.values) /\ Read(s).profiles = s.profiles
BY ValuesRead, StoreAssumption DEF Defaults, Sections, Read

\* What is put into a section, and what is read of it.
LEMMA SectionReplaced ==
  ASSUME NEW s \in Sections, NEW x \in DOMAIN Content, NEW c \in Content[x]
  PROVE  /\ [s EXCEPT ![x] = c] \in Sections /\ [s EXCEPT ![x] = c][x] = c
         /\ Read([s EXCEPT ![x] = c])[x] \in Content[x]
<1>1. x \in {"values", "profiles"}
  BY DEF Content
<1>2. CASE x = "values"
  <2>1. c \in Values
    BY <1>2 DEF Content
  <2>2. QED
    BY <1>2, <2>1, ValuesRead DEF Content, Sections, Read
<1>3. CASE x = "profiles"
  <2>1. c \in Profiles
    BY <1>3 DEF Content
  <2>2. QED
    BY <1>3, <2>1, ValuesRead DEF Content, Sections, Read
<1>4. QED
  BY <1>1, <1>2, <1>3

LEMMA FileTyped ==
  /\ Missing \in File /\ Missing.sections = Defaults /\ Missing.mtime = 0 /\ Missing.again = FALSE
  /\ \A f \in File : f.sections \in Sections /\ f.mtime \in 0 .. MaxTime /\ f.again \in BOOLEAN
  /\ \A f \in File : f # Missing => f.mtime \in 1 .. MaxTime
<1>1. /\ Missing \in File /\ Missing.sections = Defaults /\ Missing.mtime = 0 /\ Missing.again = FALSE
  BY DEF File, Missing
<1>2. Missing.sections \in Sections /\ Missing.mtime \in 0 .. MaxTime /\ Missing.again \in BOOLEAN
  <2>1. 0 \in 0 .. MaxTime
    BY TimeBound
  <2>2. QED
    BY <1>1, <2>1, SectionsRead
<1>3. \A f \in File : f # Missing =>
        f.sections \in Sections /\ f.mtime \in 1 .. MaxTime /\ f.again \in BOOLEAN
  BY DEF File
<1>4. 1 .. MaxTime \subseteq 0 .. MaxTime
  OBVIOUS
<1>5. QED
  BY <1>1, <1>2, <1>3, <1>4

LEMMA FileWritten ==
  ASSUME NEW s \in Sections, NEW over, now \in 1 .. MaxTime
  PROVE  /\ Written(s, over) \in File /\ Written(s, over).sections = s
         /\ Written(s, over).mtime = now /\ Written(s, over).again = (over = now)
BY DEF File, Written

-----------------------------------------------------------------------------
(* The invariant.                                                          *)

LEMMA StoreInvInit == ASSUME NEW file \in OldFile, StoreInit(file) PROVE StoreInv
<1>1. file \in File /\ file.mtime \in {0, 1}
  <2>1. CASE file = Missing
    BY <2>1, FileTyped
  <2>2. CASE file \in [sections : Sections, mtime : {1}, again : {FALSE}]
    <3>1. 1 \in 1 .. MaxTime
      BY TimeBound
    <3>2. QED
      BY <2>2, <3>1 DEF File
  <2>3. QED
    BY <2>1, <2>2 DEF OldFile
<1>2. StoreTypeOK
  <2>1. 2 \in 1 .. MaxTime /\ 0 \in 0 .. MaxTime
    BY TimeBound
  <2>2. Idle \in Put
    BY DEF Put
  <2>3. QED
    BY <1>1, <2>1, <2>2, SectionsRead DEF StoreInit, StoreTypeOK
<1>3. QED
  BY <1>1, <1>2, FileTyped, StoreAssumption
  DEF StoreInit, StoreInv, Copying, Times, StaleAgain, Settled, Unlocked

LEMMA RefreshKeeps == ASSUME StoreInv, Refresh, UNCHANGED now PROVE StoreInv'
<1>1. disk.sections \in Sections /\ disk.mtime \in 0 .. MaxTime
  BY FileTyped DEF StoreInv, StoreTypeOK
<1>2. Read(disk.sections) \in Sections
  BY <1>1, SectionsRead
<1>3. StoreTypeOK'
  BY <1>1, <1>2 DEF Refresh, StoreInv, StoreTypeOK
<1>4. Copying' /\ Times' /\ StaleAgain'
  BY <1>1 DEF Refresh, StoreInv, Copying, Times, StaleAgain, Settled, Unlocked, StoreTypeOK
<1>5. QED
  BY <1>3, <1>4 DEF StoreInv

LEMMA CrashKeeps == ASSUME StoreInv, StoreCrash, UNCHANGED now PROVE StoreInv'
<1>1. StoreTypeOK'
  <2>1. 0 \in 0 .. MaxTime /\ Idle \in Put
    BY TimeBound DEF Put
  <2>2. QED
    BY <2>1, SectionsRead DEF StoreCrash, StoreInv, StoreTypeOK
<1>2. disk.mtime \in 0 .. MaxTime
  BY FileTyped DEF StoreInv, StoreTypeOK
<1>3. QED
  BY <1>1, <1>2 DEF StoreCrash, StoreInv, Copying, Times, StaleAgain, Settled, Unlocked

LEMMA EditKeeps == ASSUME StoreInv, EditSection, UNCHANGED now PROVE StoreInv'
<1>1. PICK x \in DOMAIN Content : \E c \in Content[x] : Edit(x, c)
  BY DEF EditSection
<1>1a. PICK c \in Content[x] : Edit(x, c)
  BY <1>1
<1> DEFINE r == [disk.sections EXCEPT ![x] = c]
<1>2. r \in Sections /\ disk.mtime \in 0 .. MaxTime
  BY FileTyped, SectionReplaced DEF StoreInv, StoreTypeOK
<1>3. disk' \in File /\ disk'.sections = r /\ disk'.mtime = now /\ disk'.again = (disk.mtime = now)
  BY <1>1a, <1>2, FileWritten DEF Edit, StoreInv, StoreTypeOK
<1>4. StoreTypeOK'
  BY <1>1a, <1>3 DEF Edit, StoreInv, StoreTypeOK
<1>5. Copying' /\ Times' /\ StaleAgain'
  BY <1>1a, <1>2, <1>3
  DEF Edit, StoreInv, StoreTypeOK, Copying, Times, StaleAgain, Settled, Unlocked
<1>6. QED
  BY <1>4, <1>5 DEF StoreInv

\* What a put holds while it is in progress.
LEMMA PutTyped ==
  ASSUME StoreTypeOK, ~Unlocked
  PROVE  /\ put.by \in Writer /\ put.stage \in {"copied", "removed", "created"}
         /\ put.section \in DOMAIN Content /\ put.sections \in Sections
         /\ put.over \in 0 .. MaxTime /\ put.immediate \in BOOLEAN
         /\ \A s \in {"copied", "removed", "created"} : [put EXCEPT !.stage = s] \in Put
BY DEF StoreTypeOK, Unlocked, Put

LEMMA PuttingLocked == ASSUME NEW t \in Writer, Putting(t) PROVE ~Unlocked
BY DEF Putting, Unlocked, Idle, Writer

LEMMA BeginPutKeeps ==
  ASSUME StoreInv, NEW t \in Writer, SaveSection(t), UNCHANGED now
  PROVE  StoreInv'
<1>1. PICK x \in DOMAIN Content : \E c \in Content[x], i \in BOOLEAN : loaded /\ BeginPut(t, x, c, i)
  BY DEF SaveSection
<1>2. PICK c \in Content[x] : \E i \in BOOLEAN : loaded /\ BeginPut(t, x, c, i)
  BY <1>1
<1>3. PICK i \in BOOLEAN : loaded /\ BeginPut(t, x, c, i)
  BY <1>2
<1> DEFINE r == [disk.sections EXCEPT ![x] = c]
           st == IF disk = Missing THEN "created" ELSE "copied"
<1>4. disk.sections \in Sections /\ disk.mtime \in 0 .. MaxTime /\ now \in 1 .. MaxTime
  BY FileTyped DEF StoreInv, StoreTypeOK
<1>5. r \in Sections /\ r[x] = c /\ r = [disk.sections EXCEPT ![x] = r[x]]
  <2>1. r \in Sections
    BY <1>4, SectionReplaced
  <2>2. x \in DOMAIN disk.sections
    BY <1>4 DEF Sections, Content
  <2>3. QED
    BY <2>1, <2>2
<1>6. /\ put' = [by |-> t, stage |-> st, section |-> x, sections |-> r, over |-> disk.mtime,
                  immediate |-> i]
      /\ put' \in Put /\ put' # Idle
  BY <1>3, <1>4, <1>5 DEF BeginPut, Put, Idle, Writer
<1>7. Written(Defaults, 0) \in File /\ Written(Defaults, 0).sections = Defaults
      /\ Written(Defaults, 0).mtime = now
  BY <1>4, FileWritten, SectionsRead
<1>8. StoreTypeOK'
  BY <1>3, <1>6, <1>7 DEF BeginPut, StoreInv, StoreTypeOK
<1>9. Copying' /\ Times' /\ StaleAgain'
  <2>1. CASE disk = Missing
    BY <2>1, <1>3, <1>4, <1>6, <1>7, FileTyped
    DEF BeginPut, StoreInv, StoreTypeOK, Copying, Times, StaleAgain, Settled, Unlocked
  <2>2. CASE disk # Missing
    BY <2>2, <1>3, <1>4, <1>5, <1>6
    DEF BeginPut, StoreInv, StoreTypeOK, Copying, Times, StaleAgain, Settled, Unlocked
  <2>3. QED
    BY <2>1, <2>2
<1>10. QED
  BY <1>8, <1>9 DEF StoreInv

LEMMA RemoveOldKeeps ==
  ASSUME StoreInv, NEW t \in Writer, RemoveOld(t), UNCHANGED now
  PROVE  StoreInv'
<1>1. ~Unlocked /\ put' \in Put /\ put'.stage = "removed" /\ put'.over = put.over /\ put' # Idle
  BY PuttingLocked, PutTyped DEF RemoveOld, StoreInv, Unlocked, Idle, Put, StoreTypeOK
<1>2. StoreTypeOK'
  BY <1>1, FileTyped DEF RemoveOld, StoreInv, StoreTypeOK
<1>3. Copying' /\ Times' /\ StaleAgain'
  BY <1>1, FileTyped
  DEF RemoveOld, StoreInv, StoreTypeOK, Copying, Times, StaleAgain, Settled, Unlocked
<1>4. QED
  BY <1>2, <1>3 DEF StoreInv

LEMMA AbortPutKeeps ==
  ASSUME StoreInv, NEW t \in Writer, AbortPut(t), UNCHANGED now
  PROVE  StoreInv'
<1>1. ~Unlocked
  BY PuttingLocked DEF AbortPut
<1>2. StoreTypeOK'
  BY DEF AbortPut, StoreInv, StoreTypeOK, Put
<1>3. Copying' /\ Times' /\ StaleAgain'
  BY <1>1 DEF AbortPut, StoreInv, StoreTypeOK, Copying, Times, StaleAgain, Settled, Unlocked
<1>4. QED
  BY <1>2, <1>3 DEF StoreInv

LEMMA EndPutKeeps ==
  ASSUME StoreInv, NEW t \in Writer, EndPut(t), UNCHANGED now
  PROVE  StoreInv'
<1>1. ~Unlocked /\ StoreTypeOK /\ ~Settled
  BY PuttingLocked DEF EndPut, StoreInv, Settled
<1>2. put.sections \in Sections /\ put.section \in DOMAIN Content /\ put.over \in 0 .. MaxTime
  BY <1>1, PutTyped
<1>3. /\ disk' \in File /\ disk'.sections = put.sections /\ disk'.mtime = now
      /\ disk'.again = (put.over = now)
  BY <1>1, <1>2, FileWritten DEF EndPut, StoreTypeOK
<1>4. mem' \in Sections
  <2>1. Read(put.sections) \in Sections
    BY <1>2, SectionsRead
  <2>2. QED
    BY <1>1, <1>2, <2>1 DEF EndPut, StoreTypeOK, Sections, Content
<1>5. StoreTypeOK'
  BY <1>1, <1>3, <1>4 DEF EndPut, StoreTypeOK, Put
<1>6. Times'
  BY <1>1, <1>2, <1>3 DEF EndPut, StoreInv, StoreTypeOK, Times, Unlocked
<1>7. Copying'
  BY <1>1 DEF EndPut, StoreInv, Copying, Settled, Unlocked
<1>8. StaleAgain'
  <2>1. gMtime \in 0 .. MaxTime /\ now \in 1 .. MaxTime /\ gMtime <= put.over /\ put.over <= now
    BY <1>1 DEF StoreInv, StoreTypeOK, Times
  <2>2. gMtime = now => put.over = now
    BY <1>2, <2>1
  <2>3. QED
    BY <1>3, <2>2 DEF EndPut, StaleAgain
<1>9. QED
  BY <1>5, <1>6, <1>7, <1>8 DEF StoreInv

LEMMA ClockKeeps ==
  ASSUME StoreInv, now < MaxTime, now' = now + 1, UNCHANGED store
  PROVE  StoreInv'
<1>1. StoreTypeOK'
  BY TimeBound DEF StoreInv, StoreTypeOK, store
<1>2. Copying' /\ StaleAgain'
  BY DEF StoreInv, Copying, StaleAgain, Settled, Unlocked, store
<1>3. Times'
  BY FileTyped, PutTyped DEF StoreInv, StoreTypeOK, Times, Unlocked, store
<1>4. QED
  BY <1>1, <1>2, <1>3 DEF StoreInv

LEMMA StoreInvNext == ASSUME StoreInv, [StoreNext]_storeVars PROVE StoreInv'
<1>1. CASE Refresh /\ UNCHANGED now
  BY <1>1, RefreshKeeps
<1>2. CASE StoreCrash /\ UNCHANGED now
  BY <1>2, CrashKeeps
<1>3. CASE EditSection /\ UNCHANGED now
  BY <1>3, EditKeeps
<1>4. CASE \E t \in Writer : (SaveSection(t) \/ RemoveOld(t) \/ EndPut(t) \/ AbortPut(t)) /\ UNCHANGED now
  BY <1>4, BeginPutKeeps, RemoveOldKeeps, EndPutKeeps, AbortPutKeeps
<1>5. CASE now < MaxTime /\ now' = now + 1 /\ UNCHANGED store
  BY <1>5, ClockKeeps
<1>6. CASE UNCHANGED storeVars
  BY <1>6 DEF storeVars, store, StoreInv, StoreTypeOK, Copying, Times, StaleAgain, Settled, Unlocked
<1>7. QED
  BY <1>1, <1>2, <1>3, <1>4, <1>5, <1>6 DEF StoreNext, StoreStep

\* For any settings and any number of saves, edits, crashes and reloads, every step of
\* config.cpp keeps the copy, the times and the memory in step (config.cpp:212, :252).
THEOREM StoreInvariant == StoreSpec => []StoreInv
<1>1. (\E file \in OldFile : StoreInit(file)) => StoreInv
  BY StoreInvInit
<1>2. StoreInv /\ [StoreNext]_storeVars => StoreInv'
  BY StoreInvNext
<1>3. QED
  BY <1>1, <1>2, PTL DEF StoreSpec, storeVars

\* config.cpp:212 compares whole seconds: memory that is behind the file with no reload
\* to come is so only by two writes of one second, whatever interleaves.
THEOREM StaleOnlyWithinSecondHolds == StoreSpec => []StaleOnlyWithinSecond
<1>1. StoreInv => StaleOnlyWithinSecond
  BY DEF StoreInv, StaleAgain, Settled, StaleOnlyWithinSecond
<1>2. QED
  BY <1>1, StoreInvariant, PTL

-----------------------------------------------------------------------------
(* The refinement: what each step does to what a restart would find.       *)

LEMMA RefreshRefines ==
  ASSUME StoreInv, Refresh PROVE Promise!Reload \/ UNCHANGED <<Saved, mem, loaded>>
<1>1. Saved = Read(disk.sections) /\ Saved' = Saved
  BY DEF Refresh, Saved, Unlocked
<1>2. QED
  BY <1>1 DEF Refresh, Promise!Reload

LEMMA CrashRefines ==
  ASSUME StoreInv, StoreCrash PROVE Promise!Off \/ UNCHANGED <<Saved, mem, loaded>>
<1>1. Saved' = Read(disk.sections)
  BY DEF StoreCrash, Saved, Unlocked
<1>2. CASE Settled
  <2>1. Saved' = Saved
    BY <1>1, <1>2 DEF Saved, Settled
  <2>2. QED
    BY <2>1 DEF StoreCrash, StoreInv, StoreTypeOK, Copying, Promise!Off
<1>3. CASE ~Settled
  <2>1. loaded = TRUE /\ disk.sections = Defaults
    BY <1>3 DEF StoreInv, StoreTypeOK, Copying, Settled
  <2>2. Saved' = Defaults
    BY <1>1, <2>1, SectionsRead
  <2>3. QED
    BY <2>1, <2>2 DEF StoreCrash, Promise!Off
<1>4. QED
  BY <1>2, <1>3

\* One section of what is saved is replaced.
LEMMA SaveRefines ==
  ASSUME NEW s \in Sections, NEW x \in DOMAIN Content, NEW c \in Content[x],
         Saved = Read(s), Saved' = Read([s EXCEPT ![x] = c]), UNCHANGED <<mem, loaded>>
  PROVE  Promise!Save(x)
<1> DEFINE r == Read([s EXCEPT ![x] = c])
<1>1. r[x] \in Content[x]
  BY SectionReplaced
<1>2. r = [Read(s) EXCEPT ![x] = r[x]]
  <2>1. x \in {"values", "profiles"}
    BY DEF Content
  <2>2. CASE x = "values"
    BY <2>2, SectionsRead, SectionReplaced DEF Sections, Read
  <2>3. CASE x = "profiles"
    BY <2>3, SectionsRead, SectionReplaced DEF Sections, Read
  <2>4. QED
    BY <2>1, <2>2, <2>3
<1>3. Saved' = r
  OBVIOUS
<1> HIDE DEF r
<1>4. QED
  BY <1>1, <1>2, <1>3, Zenon DEF Promise!Save

LEMMA EditRefines == ASSUME StoreInv, EditSection PROVE \E x \in DOMAIN Content : Promise!Save(x)
<1>1. PICK x \in DOMAIN Content : \E c \in Content[x] : Edit(x, c)
  BY DEF EditSection
<1>2. PICK c \in Content[x] : Edit(x, c)
  BY <1>1
<1>3. disk.sections \in Sections /\ now \in 1 .. MaxTime
  BY FileTyped DEF StoreInv, StoreTypeOK
<1>4. [disk.sections EXCEPT ![x] = c] \in Sections
  BY <1>3, SectionReplaced
<1>5. disk'.sections = [disk.sections EXCEPT ![x] = c]
  BY <1>2, <1>3, <1>4, FileWritten DEF Edit
<1>6. Saved = Read(disk.sections) /\ Saved' = Read(disk'.sections)
  BY <1>2 DEF Edit, Saved, Unlocked
<1>7. QED
  BY <1>2, <1>3, <1>5, <1>6, SaveRefines DEF Edit

LEMMA BeginPutRefines ==
  ASSUME StoreInv, NEW t \in Writer, SaveSection(t)
  PROVE  (\E x \in DOMAIN Content : Promise!Save(x)) \/ UNCHANGED <<Saved, mem, loaded>>
<1>1. PICK x \in DOMAIN Content : \E c \in Content[x], i \in BOOLEAN : loaded /\ BeginPut(t, x, c, i)
  BY DEF SaveSection
<1>2. PICK c \in Content[x] : \E i \in BOOLEAN : loaded /\ BeginPut(t, x, c, i)
  BY <1>1
<1>3. PICK i \in BOOLEAN : loaded /\ BeginPut(t, x, c, i)
  BY <1>2
<1>4. disk.sections \in Sections
  BY FileTyped DEF StoreInv, StoreTypeOK
<1>5. /\ put'.sections = [disk.sections EXCEPT ![x] = c] /\ put' # Idle
      /\ put'.stage = IF disk = Missing THEN "created" ELSE "copied"
  BY <1>3 DEF BeginPut, Idle, Writer
<1>6. Saved = Read(disk.sections)
  BY <1>3 DEF BeginPut, Saved
<1>7. CASE disk = Missing
  <2>1. Saved' = Read([disk.sections EXCEPT ![x] = c])
    BY <1>5, <1>7 DEF Saved, Unlocked
  <2>2. QED
    BY <1>3, <1>4, <1>6, <2>1, SaveRefines DEF BeginPut
<1>8. CASE disk # Missing
  <2>1. disk' = disk /\ Saved' = Read(disk'.sections)
    BY <1>3, <1>5, <1>8 DEF BeginPut, Saved
  <2>2. QED
    BY <1>3, <1>6, <2>1 DEF BeginPut
<1>9. QED
  BY <1>7, <1>8

LEMMA RemoveOldRefines ==
  ASSUME StoreInv, NEW t \in Writer, RemoveOld(t)
  PROVE  \E x \in DOMAIN Content : Promise!Save(x)
<1>1. StoreTypeOK /\ ~Unlocked /\ put.stage = "copied"
  BY PuttingLocked DEF RemoveOld, StoreInv
<1>2. put.section \in DOMAIN Content /\ put.sections \in Sections /\ disk.sections \in Sections
  BY <1>1, PutTyped, FileTyped DEF StoreTypeOK
<1>3. put.sections[put.section] \in Content[put.section]
  BY <1>2 DEF Sections, Content
<1>4. put.sections = [disk.sections EXCEPT ![put.section] = put.sections[put.section]]
  BY <1>1 DEF StoreInv, Copying
<1>5. Saved = Read(disk.sections)
  BY <1>1 DEF Saved
<1>6. put'.sections = put.sections /\ put'.stage = "removed" /\ put' # Idle
  BY <1>1, PutTyped DEF RemoveOld, StoreTypeOK, Put, Unlocked, Idle, Writer, Putting
<1>7. Saved' = Read(put.sections)
  BY <1>6 DEF Saved, Unlocked
<1>8. QED
  BY <1>2, <1>3, <1>4, <1>5, <1>7, SaveRefines DEF RemoveOld

LEMMA EndPutRefines ==
  ASSUME StoreInv, NEW t \in Writer, EndPut(t)
  PROVE  (\E x \in DOMAIN Content : Promise!Publish(x)) \/ UNCHANGED <<Saved, mem, loaded>>
<1>1. StoreTypeOK /\ ~Unlocked /\ put.stage # "copied"
  BY PuttingLocked DEF EndPut, StoreInv
<1>2. put.section \in DOMAIN Content /\ put.sections \in Sections /\ now \in 1 .. MaxTime
  BY <1>1, PutTyped DEF StoreTypeOK
<1>3. disk'.sections = put.sections
  BY <1>2, FileWritten DEF EndPut
<1>4. Saved = Read(put.sections) /\ Saved' = Saved
  BY <1>1, <1>3 DEF EndPut, Saved, Unlocked
<1>5. CASE put.immediate
  BY <1>2, <1>4, <1>5 DEF EndPut, Promise!Publish
<1>6. CASE ~put.immediate
  BY <1>4, <1>6 DEF EndPut
<1>7. QED
  BY <1>5, <1>6

LEMMA AbortPutRefines ==
  ASSUME NEW t \in Writer, AbortPut(t) PROVE UNCHANGED <<Saved, mem, loaded>>
BY DEF AbortPut, Saved, Unlocked

LEMMA StepRefines == ASSUME StoreInv, [StoreNext]_storeVars PROVE [Promise!Next]_(Promise!vars)
<1>1. CASE Refresh
  BY <1>1, RefreshRefines DEF Promise!Next, Promise!vars
<1>2. CASE StoreCrash
  BY <1>2, CrashRefines DEF Promise!Next, Promise!vars
<1>3. CASE EditSection
  BY <1>3, EditRefines DEF Promise!Next, Promise!Section
<1>4. CASE \E t \in Writer : SaveSection(t) \/ RemoveOld(t) \/ EndPut(t) \/ AbortPut(t)
  BY <1>4, BeginPutRefines, RemoveOldRefines, EndPutRefines, AbortPutRefines
  DEF Promise!Next, Promise!Section, Promise!vars
<1>5. CASE UNCHANGED store
  BY <1>5 DEF store, Saved, Unlocked, Promise!vars
<1>6. QED
  BY <1>1, <1>2, <1>3, <1>4, <1>5 DEF StoreNext, StoreStep, storeVars

\* The store implements its promise for any number of everything: a save replaces one
\* section, the others survive, the memory moves to what is saved and to nothing else,
\* and the one loss is of the whole file (config.cpp:252, minIni.c:610).
THEOREM StoreImplementsPromise == StoreSpec => StoreRefined
<1>1. ASSUME \E file \in OldFile : StoreInit(file) PROVE Promise!Init
  <2>1. PICK file \in OldFile : StoreInit(file)
    BY <1>1
  <2>2. StoreInv
    BY <2>1, StoreInvInit
  <2>3. disk.sections \in Sections
    BY <2>2, FileTyped DEF StoreInv, StoreTypeOK
  <2>4. Saved = Read(disk.sections) /\ Saved \in Sections
    BY <2>1, <2>3, SectionsRead DEF StoreInit, Saved, Unlocked
  <2>5. DOMAIN Saved = DOMAIN Content /\ \A x \in DOMAIN Content : Saved[x] \in Content[x]
    BY <2>4 DEF Sections, Content
  <2>6. QED
    BY <2>1, <2>5 DEF StoreInit, Promise!Init, Promise!Section
<1>2. StoreInv /\ [StoreNext]_storeVars => [Promise!Next]_(Promise!vars)
  BY StepRefines
<1>3. QED
  BY <1>1, <1>2, StoreInvariant, PTL DEF StoreSpec, StoreRefined, Promise!Spec, storeVars
=============================================================================

-------------------------- MODULE KipSettings_proofs --------------------------
(***************************************************************************)
(* The KIP settings, for any releases, settings and bounds: every step is  *)
(* one of the configuration store, a boot leaves hoc.kip and config.ini in *)
(* agreement, and a table that was cut short is written again and never    *)
(* taken for the user's settings.                                          *)
(***************************************************************************)
EXTENDS KipSettings, ConfigStore_proofs

\* The phases of the threads and the lock, the load and the commands they go with.
Control ==
  /\ pc = [t \in Writer |-> pc[t]]
  /\ pc["ipc"] = "off" <=> pc["main"] # "tick"
  /\ loaded <=> pc["main"] \notin {"off", "refresh"}
  /\ \A t \in Writer : pc[t] = "putting" <=> Putting(t)
  /\ pc["main"] # "tick" => kipDue = 0 /\ ui = Closed
  /\ Putting("main") => ~put.immediate
  /\ Putting("ipc") /\ put.immediate => kipDue < 2
  /\ pc["main"] \in {"off", "refresh", "decide"} => told = {}
KipInv == TypeOK /\ Control

\* No failure was notified in this run.
Fine == told \cap Failure = {}
\* A table and values of the configuration hold the same settings, and the boot leaves
\* these.
Like(t, values) == t.kip = values.kip /\ t.speedo = values.speedo
Agrees(values) ==
  /\ values.kip = kip.kip /\ values.crc = Checksum
  /\ values.speedo = IF "updated" \in told THEN kip.speedo ELSE "fuse"
\* What main carries from config.ini through the table and back while it boots.
Booting ==
  /\ pc["main"] \in {"decide", "fill", "filling", "write", "writing", "collect", "collected"} =>
       mem = Read(disk.sections)
  /\ pc["main"] \in {"filling", "write", "writing"} => Like(table, mem.values)
  /\ pc["main"] \in {"collect", "collected"} /\ Fine => Like(kip, mem.values)
  /\ pc["main"] = "collected" => configValues = mem.values
  /\ pc["main"] \in SetKipPc \ {"putting"} => "updated" \in told
  /\ pc["main"] = "putting" => put.section = "values"
  /\ pc["main"] = "putting" /\ Fine => Agrees(put.sections.values)
  /\ pc["main"] = "putting" /\ "updated" \in told /\ put.stage = "copied" =>
       put.sections.values.kip = disk.sections.values.kip
BootInv == Booting /\ KipAgreesAfterBoot

\* Nothing went wrong but that SetKipData was cut short.
Clean == past \subseteq {"cut"}
Writing == \E t \in Writer : pc[t] = "writing"
\* Values that neither hold a torn table nor say that it is the one they go with.
Whole(values) ==
  values.kip # Torn /\ (values.first \/ \A r \in Release, s \in Speedo : values.crc # <<r, Torn, s>>)
AllWhole ==
  /\ Whole(disk.sections.values) /\ Whole(mem.values)
  /\ ~Unlocked => Whole(put.sections.values)
  /\ ui # Closed => Whole(ui)
  /\ table.kip # Torn /\ Whole(configValues)
\* A torn table is known to be another one than that of config.ini: it is no first load.
TornKnown ==
  /\ kip.kip = Torn /\ Settled => ~disk.sections.values.first
  /\ kip.kip = Torn /\ ~Writing =>
       /\ loaded => ~mem.values.first
       /\ ~Unlocked => ~put.sections.values.first
       /\ ui # Closed => ~ui.first
  /\ \A t \in Writer : pc[t] \in {"collect", "collected"} => kip.kip # Torn
TornInv == Clean => AllWhole /\ TornKnown

KInv == KipInv /\ StoreInv /\ BootInv /\ TornInv

-----------------------------------------------------------------------------
(* What the steps have in common.                                          *)

LEMMA WriterIs == Writer = {"main", "ipc"}
BY DEF Writer

\* A thread that is at one of these steps has loaded the file; nobody puts but itself.
LEMMA SetKipLoaded ==
  ASSUME TypeOK, Control, NEW t \in Writer, pc[t] \in {"decide", "idle"} \cup SetKipPc
  PROVE  loaded
<1>1. CASE t = "main"
  BY <1>1 DEF Control, SetKipPc
<1>2. CASE t = "ipc"
  BY <1>2 DEF Control, SetKipPc
<1>3. QED
  BY <1>1, <1>2, WriterIs

\* One thread only runs SetKipData or the boot.
LEMMA OtherWaits ==
  ASSUME TypeOK, Control, NEW t \in Writer, NEW u \in Writer, t # u,
         pc[t] \in {"refresh", "decide", "booted"} \cup SetKipPc
  PROVE  pc[u] \in {"off", "tick", "idle", "putting"} /\ (t = "main" => pc[u] = "off")
         /\ (t = "ipc" => pc[u] = "tick")
<1>1. CASE t = "main" /\ u = "ipc"
  BY <1>1 DEF Control, SetKipPc
<1>2. CASE t = "ipc" /\ u = "main"
  BY <1>2 DEF Control, SetKipPc
<1>3. QED
  BY <1>1, <1>2, WriterIs

LEMMA ChecksumTyped == ASSUME kip \in [release : Release, kip : KipField, speedo : Speedo] PROVE Checksum \in Crc
BY KipAssumption DEF Checksum

\* The values that are put are values.
LEMMA PutValuesTyped ==
  ASSUME TypeOK
  PROVE  /\ AdoptedValues \in Values /\ CollectedValues \in Values
         /\ ui # Closed =>
              /\ \A option \in Option : [ui EXCEPT !.option = option] \in Values
              /\ \A setting \in Setting : [ui EXCEPT !.kip = setting] \in Values
<1>1. /\ mem.values \in Values /\ configValues \in Values
      /\ kip.kip \in KipField /\ Checksum \in Crc
  BY ChecksumTyped DEF TypeOK, StoreTypeOK, Sections
<1>2. AdoptedValues \in Values /\ CollectedValues \in Values
  BY <1>1 DEF AdoptedValues, CollectedValues, Values, Speedo
<1>3. ui # Closed => ui \in Values
  BY DEF TypeOK
<1>4. QED
  BY <1>2, <1>3, KipAssumption DEF Values

\* A list saved by the overlay is one of values.
LEMMA SaveOptionIs ==
  ASSUME TypeOK, NEW option \in Option, SaveOption(option)
  PROVE  ui # Closed /\ [ui EXCEPT !.option = option] \in Values
         /\ OverlaySave([ui EXCEPT !.option = option], FALSE)
BY PutValuesTyped DEF SaveOption
LEMMA SaveKipIs ==
  ASSUME TypeOK, NEW setting \in Setting, SaveKip(setting)
  PROVE  ui # Closed /\ [ui EXCEPT !.kip = setting] \in Values
         /\ OverlaySave([ui EXCEPT !.kip = setting], TRUE)
BY PutValuesTyped DEF SaveKip

\* An edit is one of the store's.
LEMMA EditLineIs ==
  ASSUME TypeOK, EditLine
  PROVE  /\ \E x \in DOMAIN Content : \E c \in Content[x] : Edit(x, c)
         /\ UNCHANGED <<now, kips, pc, overlay, busy>> /\ pc["main"] \in {"off", "tick"}
         /\ Use("event", MaxEvent) /\ Unlocked
<1>1. disk.sections.values \in Values
  BY FileTyped DEF TypeOK, StoreTypeOK, Sections
<1>2. CASE \E setting \in Setting : EditFile("values", [disk.sections.values EXCEPT !.kip = setting])
  <2>1. PICK setting \in Setting : EditFile("values", [disk.sections.values EXCEPT !.kip = setting])
    BY <1>2
  <2>2. [disk.sections.values EXCEPT !.kip = setting] \in Content["values"]
    BY <1>1, KipAssumption DEF Values, Content
  <2>3. QED
    BY <2>1, <2>2 DEF EditFile, Content, Edit
<1>3. CASE EditFile("values", [disk.sections.values EXCEPT !.option = BadOption])
  <2>1. [disk.sections.values EXCEPT !.option = BadOption] \in Content["values"]
    BY <1>1, KipAssumption, StoreAssumption DEF Values, Content
  <2>2. QED
    BY <1>3, <2>1 DEF EditFile, Content, Edit
<1>4. CASE \E profiles \in Profiles : EditFile("profiles", profiles)
  BY <1>4 DEF EditFile, Content, Edit
<1>5. QED
  BY <1>2, <1>3, <1>4 DEF EditLine

-----------------------------------------------------------------------------
(* Every step is one of the store's.                                       *)

LEMMA BeginPutStores ==
  ASSUME NEW t \in Writer, loaded, NEW x \in DOMAIN Content, NEW c \in Content[x],
         NEW i \in BOOLEAN, BeginPut(t, x, c, i), UNCHANGED now
  PROVE  StoreNext
<1>1. SaveSection(t)
  BY DEF SaveSection
<1>2. QED
  BY <1>1 DEF StoreNext, StoreStep

LEMMA ValuesPutStores ==
  ASSUME NEW t \in Writer, loaded, NEW c \in Values, NEW i \in BOOLEAN,
         BeginPut(t, "values", c, i), UNCHANGED now
  PROVE  StoreNext
<1>1. "values" \in DOMAIN Content /\ c \in Content["values"]
  BY DEF Content
<1>2. QED
  BY <1>1, BeginPutStores

LEMMA OverlaySaveStores ==
  ASSUME TypeOK, Control, NEW list \in Values, NEW isKip \in BOOLEAN, OverlaySave(list, isKip)
  PROVE  StoreNext
<1>1. loaded /\ Valid(list) \in Values
  BY SetKipLoaded, ValuesRead, WriterIs DEF OverlaySave, OverlayReady
<1>2. QED
  BY <1>1, ValuesPutStores, WriterIs DEF OverlaySave

\* A step of the program, the overlay or the user, as the store sees it.
LEMMA StepStores ==
  ASSUME TypeOK, Control, [Next]_vars
  PROVE  [StoreNext]_storeVars
<1>1. CASE Main
  <2>1. CASE BootRefresh \/ TickRefresh
    BY <2>1 DEF BootRefresh, TickRefresh, StoreNext, StoreStep
  <2>2. CASE BootAdopts
    BY <2>2, PutValuesTyped, SetKipLoaded, ValuesPutStores, WriterIs DEF BootAdopts
  <2>3. CASE BootUpdates \/ BootUnreadable \/ StartLoop \/ TickChanged
    BY <2>3 DEF BootUpdates, BootUnreadable, KipUnreadable, StartLoop, TickChanged, storeVars
  <2>4. QED
    BY <1>1, <2>1, <2>2, <2>3 DEF Main, Boot
<1>2. CASE Overlay
  <2>1. CASE OverlayFetch
    BY <2>1 DEF OverlayFetch, storeVars
  <2>2. ASSUME NEW option \in Option \ {BadOption}, SaveOption(option) PROVE StoreNext
    BY <2>2, SaveOptionIs, OverlaySaveStores
  <2>3. ASSUME NEW setting \in Setting, SaveKip(setting) PROVE StoreNext
    BY <2>3, SaveKipIs, OverlaySaveStores
  <2>4. ASSUME NEW profiles \in Profiles, OverlayProfiles(profiles) PROVE StoreNext
    <3>1. loaded /\ "profiles" \in DOMAIN Content /\ profiles \in Content["profiles"]
      BY <2>4, SetKipLoaded, WriterIs DEF OverlayProfiles, OverlayReady, Content
    <3>2. QED
      BY <2>4, <3>1, BeginPutStores, WriterIs DEF OverlayProfiles
  <2>5. QED
    BY <1>2, <2>1, <2>2, <2>3, <2>4 DEF Overlay
<1>3. CASE ServeSetKip \/ PowerOn
  BY <1>3 DEF ServeSetKip, PowerOn, storeVars
<1>4. CASE Environment
  <2>1. CASE Clock
    BY <2>1 DEF Clock, StoreNext
  <2>2. CASE PowerOff
    BY <2>2 DEF PowerOff, StoreNext, StoreStep
  <2>3. CASE EditLine
    BY <2>3, EditLineIs DEF StoreNext, StoreStep, EditSection
  <2>4. CASE (\E r \in Release : InstallRelease(r)) \/ ContextChanges
    BY <2>4 DEF InstallRelease, ContextChanges, storeVars
  <2>5. QED
    BY <1>4, <2>1, <2>2, <2>3, <2>4 DEF Environment
<1>5. ASSUME NEW t \in Writer, SetKip(t) PROVE [StoreNext]_storeVars
  <2>1. CASE SaveCollected(t)
    <3>1. loaded
      BY <2>1, SetKipLoaded DEF SaveCollected, SetKipPc
    <3>2. QED
      BY <2>1, <3>1, PutValuesTyped, ValuesPutStores DEF SaveCollected
  <2>2. CASE ~SaveCollected(t)
    BY <1>5, <2>2
    DEF SetKip, FillTable, FillRest, FillUnreadable, KipUnreadable, WriteTable, TableWritten,
        WriteFails, Collect, storeVars
  <2>3. QED
    BY <2>1, <2>2
<1>6. ASSUME NEW t \in Writer, PutStep(t) \/ PutFails(t) PROVE StoreNext
  BY <1>6 DEF PutStep, PutRemoves, PutReturns, PutFails, StoreNext, StoreStep
<1>7. CASE UNCHANGED vars
  BY <1>7 DEF vars, storeVars
<1>8. QED
  BY <1>1, <1>2, <1>3, <1>4, <1>5, <1>6, <1>7 DEF Next

-----------------------------------------------------------------------------
(* Type correctness and the control of the threads.                        *)

LEMMA GotoIs ==
  ASSUME Control, NEW t \in Writer, NEW to, Goto(t, to)
  PROVE  /\ pc' = [u \in Writer |-> pc'[u]]
         /\ pc'[t] = to /\ \A u \in Writer : u # t => pc'[u] = pc[u]
<1>1. pc = [u \in Writer |-> pc[u]]
  BY DEF Control
<1>2. pc' = [pc EXCEPT ![t] = to]
  BY DEF Goto
<1>3. QED
  BY <1>1, <1>2

LEMMA UseTyped ==
  ASSUME TypeOK,
         Use("off", MaxOff) \/ Use("fail", MaxFail) \/ Use("event", MaxEvent) \/ Use("save", MaxSave)
  PROVE  used' \in [off : 0 .. MaxOff, fail : 0 .. MaxFail, event : 0 .. MaxEvent, save : 0 .. MaxSave]
<1>1. MaxOff \in Nat /\ MaxFail \in Nat /\ MaxEvent \in Nat /\ MaxSave \in Nat
  BY KipAssumption
<1>2. used \in [off : 0 .. MaxOff, fail : 0 .. MaxFail, event : 0 .. MaxEvent, save : 0 .. MaxSave]
  BY DEF TypeOK
<1>3. QED
  BY <1>1, <1>2 DEF Use

\* The phases of either thread.
LEMMA GotoTyped ==
  ASSUME TypeOK, Control, NEW t \in Writer, NEW to, Goto(t, to),
         \/ to \in SetKipPc \/ to = Done(t)
         \/ t = "main" /\ to \in {"refresh", "decide"}
  PROVE  /\ pc'["main"] \in {"off", "refresh", "decide", "booted", "tick"} \cup SetKipPc
         /\ pc'["ipc"] \in {"off", "idle"} \cup SetKipPc
BY GotoIs, WriterIs DEF TypeOK, Done

\* A put is of the thread that took the mutex.
LEMMA PutOf ==
  ASSUME StoreTypeOK', NEW t \in Writer, NEW x, NEW c, NEW i, BeginPut(t, x, c, i)
  PROVE  /\ put'.by = t /\ put'.immediate = i /\ put'.section = x /\ put' # Idle
         /\ put'.sections = [disk.sections EXCEPT ![x] = c]
         /\ put'.stage = IF disk = Missing THEN "created" ELSE "copied"
         /\ put = Idle /\ \A u \in Writer : ~Putting(u)
BY DEF BeginPut, Idle, Writer, Unlocked, Putting

LEMMA NobodyPuts == ASSUME Unlocked PROVE \A u \in Writer : ~Putting(u)
BY DEF Unlocked, Idle, Putting, Writer

LEMMA InitStores ==
  ASSUME Init
  PROVE  /\ kip \in [release : Release, kip : KipField, speedo : Speedo]
         /\ Applied.sections \in Sections
         /\ \E file \in OldFile : StoreInit(file)
<1>1. kip \in [release : Release, kip : KipField, speedo : Speedo]
  <2>1. (CHOOSE r \in Release : TRUE) \in Release
    BY KipAssumption
  <2>2. QED
    BY <2>1, KipAssumption DEF Init, Speedo
<1>2. Applied.sections \in Sections /\ Applied \in OldFile
  <2>1. Checksum \in Crc /\ kip.kip \in KipField
    BY <1>1, ChecksumTyped
  <2>2. Applied.sections \in Sections
    BY <1>1, <2>1, StoreAssumption
    DEF Applied, AppliedValues, Defaults, DefaultValues, Sections, Values
  <2>3. QED
    BY <2>2 DEF Applied, OldFile
<1>3. (IF kip.kip = DefaultKip THEN Missing ELSE Applied) \in OldFile
  BY <1>2 DEF OldFile
<1>4. QED
  BY <1>1, <1>2, <1>3 DEF Init

LEMMA KipInvInit == ASSUME Init PROVE KipInv /\ StoreInv
<1>1. StoreInv /\ put = Idle /\ loaded = FALSE
  BY InitStores, StoreInvInit DEF Init, StoreInit
<1>2. TypeOK
  <2>1. used \in [off : 0 .. MaxOff, fail : 0 .. MaxFail, event : 0 .. MaxEvent, save : 0 .. MaxSave]
    BY KipAssumption DEF Init
  <2>2. /\ pc["main"] = "off" /\ pc["ipc"] = "off" /\ kipDue \in 0 .. 2
        /\ table \in [kip : KipField, speedo : Speedo] /\ configValues \in Values
    BY StoreAssumption, WriterIs, ValuesRead DEF Init, NoTable, Speedo
  <2>3. StoreTypeOK
    BY <1>1 DEF StoreInv
  <2>4. QED
    BY InitStores, <2>1, <2>2, <2>3 DEF Init, TypeOK
<1>3. Control
  BY <1>1, NobodyPuts, WriterIs DEF Init, Control, Unlocked
<1>4. QED
  BY <1>1, <1>2, <1>3 DEF KipInv

\* TypeOK and Control do not read disk, mem or the clock but through the store's type.
LEMMA BootStepsTyped ==
  ASSUME KipInv, StoreTypeOK', BootRefresh \/ BootUpdates \/ BootAdopts \/ BootUnreadable
  PROVE  TypeOK'
<1>1. \E to : Goto("main", to) /\ (to \in SetKipPc \/ to = Done("main") \/ to = "decide")
  BY DEF BootRefresh, BootUpdates, BootAdopts, BootUnreadable, KipUnreadable, SetKipPc
<1>2. /\ pc'["main"] \in {"off", "refresh", "decide", "booted", "tick"} \cup SetKipPc
      /\ pc'["ipc"] \in {"off", "idle"} \cup SetKipPc
  BY <1>1, GotoTyped, WriterIs DEF KipInv
<1>3. CASE BootUnreadable
  BY <1>2, <1>3, UseTyped
  DEF BootUnreadable, KipUnreadable, KipInv, TypeOK, store, overlay, Notice, Failure
<1>4. CASE BootRefresh \/ BootUpdates \/ BootAdopts
  BY <1>2, <1>4
  DEF BootRefresh, BootUpdates, BootAdopts, KipInv, TypeOK, store, kips, overlay, Notice
<1>5. QED
  BY <1>3, <1>4

LEMMA LoopStepsTyped ==
  ASSUME KipInv, StoreTypeOK', StartLoop \/ TickChanged \/ TickRefresh \/ PowerOn \/ ContextChanges \/ Clock
  PROVE  TypeOK'
<1>1. CASE StartLoop
  BY <1>1 DEF StartLoop, KipInv, TypeOK, store, kips, overlay
<1>2. CASE PowerOn
  BY <1>2, GotoTyped, WriterIs DEF PowerOn, KipInv, TypeOK, store, kips, overlay
<1>3. CASE ContextChanges
  BY <1>3, UseTyped DEF ContextChanges, KipInv, TypeOK, store, kips, overlay
<1>4. CASE TickChanged \/ TickRefresh \/ Clock
  BY <1>4 DEF TickChanged, TickRefresh, Clock, KipInv, TypeOK, store, kips, overlay
<1>5. QED
  BY <1>1, <1>2, <1>3, <1>4

LEMMA OverlayStepsTyped ==
  ASSUME KipInv, StoreTypeOK', Overlay \/ ServeSetKip
  PROVE  TypeOK'
<1>1. CASE OverlayFetch
  BY <1>1 DEF OverlayFetch, KipInv, TypeOK, StoreTypeOK, Sections, store, kips, overlay
<1>2. CASE ServeSetKip
  BY <1>2, GotoTyped, WriterIs DEF ServeSetKip, KipInv, TypeOK, SetKipPc, store, kips, overlay
<1>3. ASSUME NEW list \in Values, NEW isKip \in BOOLEAN, OverlaySave(list, isKip) PROVE TypeOK'
  BY <1>3, GotoTyped, UseTyped, WriterIs DEF OverlaySave, KipInv, TypeOK, SetKipPc, store, kips, overlay
<1>4. ASSUME NEW profiles \in Profiles, OverlayProfiles(profiles) PROVE TypeOK'
  BY <1>4, GotoTyped, UseTyped, WriterIs DEF OverlayProfiles, KipInv, TypeOK, SetKipPc, store, kips, overlay
<1>5. QED
  BY <1>1, <1>2, <1>3, <1>4, SaveOptionIs, SaveKipIs DEF Overlay, KipInv

\* What the variables of SetKipData are when it does not run.
LEMMA NoneTyped == NoTable \in [kip : KipField, speedo : Speedo] /\ DefaultValues \in Values
BY StoreAssumption, ValuesRead DEF NoTable, Speedo

LEMMA OutsideStepsTyped ==
  ASSUME KipInv, StoreTypeOK', PowerOff \/ (\E r \in Release : InstallRelease(r)) \/ EditLine
  PROVE  TypeOK'
<1>1. CASE PowerOff
  <2>1. pc'["main"] = "off" /\ pc'["ipc"] = "off" /\ kipDue' \in 0 .. 2 /\ past' \subseteq Mishap
    BY <1>1, WriterIs DEF PowerOff, KipInv, TypeOK, Mishap
  <2>2. QED
    BY <1>1, <2>1, UseTyped, NoneTyped DEF PowerOff, KipInv, TypeOK
<1>2. ASSUME NEW r \in Release, InstallRelease(r) PROVE TypeOK'
  BY <1>2, StoreAssumption DEF InstallRelease, KipInv, TypeOK, store, overlay, Speedo
<1>3. CASE EditLine
  BY <1>3, EditLineIs, UseTyped DEF KipInv, TypeOK, kips, overlay
<1>4. QED
  BY <1>1, <1>2, <1>3

LEMMA SetKipStepsTyped ==
  ASSUME KipInv, StoreTypeOK', NEW t \in Writer, SetKip(t)
  PROVE  TypeOK'
<1>1. \E to : Goto(t, to) /\ (to \in SetKipPc \/ to = Done(t))
  BY DEF SetKip, FillTable, FillRest, FillUnreadable, KipUnreadable, WriteTable, TableWritten,
         WriteFails, Collect, SaveCollected, SetKipPc
<1>2. /\ pc'["main"] \in {"off", "refresh", "decide", "booted", "tick"} \cup SetKipPc
      /\ pc'["ipc"] \in {"off", "idle"} \cup SetKipPc
  BY <1>1, GotoTyped DEF KipInv
<1>3. CASE FillTable(t) \/ FillRest(t)
  <2>1. /\ mem.values.kip \in KipField /\ mem.values.speedo \in Speedo
        /\ table \in [kip : KipField, speedo : Speedo]
    BY DEF KipInv, TypeOK, StoreTypeOK, Sections, Values
  <2>2. table' \in [kip : KipField, speedo : Speedo]
    <3>1. CASE FillTable(t)
      BY <2>1, <3>1 DEF FillTable
    <3>2. CASE FillRest(t)
      <4>1. Mixtures(table.kip, mem.values.kip) \subseteq KipField
        BY <2>1, KipAssumption DEF Mixtures
      <4>2. {table.speedo, mem.values.speedo} \subseteq Speedo
        BY <2>1
      <4>3. QED
        BY <3>2, <4>1, <4>2 DEF FillRest
    <3>3. QED
      BY <1>3, <3>1, <3>2
  <2>3. UNCHANGED <<store, now, kip, configValues, told, past, overlay, busy, used>>
    BY <1>3 DEF FillTable, FillRest
  <2>4. QED
    BY <1>2, <2>2, <2>3 DEF KipInv, TypeOK, store, overlay
<1>4. CASE FillUnreadable(t)
  BY <1>2, <1>4, UseTyped
  DEF FillUnreadable, KipUnreadable, KipInv, TypeOK, store, overlay, Notice, Failure
<1>5. CASE WriteTable(t)
  BY <1>2, <1>5, KipAssumption DEF WriteTable, KipInv, TypeOK, store, overlay, Mishap
<1>6. CASE TableWritten(t)
  BY <1>2, <1>6, NoneTyped DEF TableWritten, KipInv, TypeOK, store, overlay
<1>7. CASE WriteFails(t)
  BY <1>2, <1>7, UseTyped, NoneTyped
  DEF WriteFails, KipInv, TypeOK, store, overlay, Notice, Failure, Mishap
<1>8. CASE Collect(t) \/ SaveCollected(t)
  <2>1. mem.values \in Values
    BY DEF KipInv, TypeOK, StoreTypeOK, Sections
  <2>2. QED
    BY <1>2, <1>8, <2>1, NoneTyped DEF Collect, SaveCollected, KipInv, TypeOK, store, overlay
<1>9. QED
  BY <1>3, <1>4, <1>5, <1>6, <1>7, <1>8 DEF SetKip

\* Two commands are due at most: the overlay waits for the thread that serves them.
LEMMA PutStepsTyped ==
  ASSUME KipInv, StoreTypeOK', NEW t \in Writer, PutStep(t) \/ PutFails(t)
  PROVE  TypeOK'
<1>1. CASE PutRemoves(t)
  BY <1>1 DEF PutRemoves, KipInv, TypeOK, kips, overlay
<1>2. CASE PutReturns(t)
  <2>1. /\ pc'["main"] \in {"off", "refresh", "decide", "booted", "tick"} \cup SetKipPc
        /\ pc'["ipc"] \in {"off", "idle"} \cup SetKipPc
    BY <1>2, GotoTyped DEF PutReturns, KipInv
  <2>2. put.immediate => t = "ipc" /\ kipDue < 2
    BY <1>2, WriterIs DEF PutReturns, EndPut, KipInv, Control
  <2>3. kipDue' \in 0 .. 2
    BY <1>2, <2>2 DEF PutReturns, KipInv, TypeOK
  <2>4. saving' \in BOOLEAN
    BY <1>2 DEF PutReturns, KipInv, TypeOK
  <2>5. QED
    BY <1>2, <2>1, <2>3, <2>4 DEF PutReturns, KipInv, TypeOK, kips
<1>3. CASE PutFails(t)
  <2>1. /\ pc'["main"] \in {"off", "refresh", "decide", "booted", "tick"} \cup SetKipPc
        /\ pc'["ipc"] \in {"off", "idle"} \cup SetKipPc
    BY <1>3, GotoTyped DEF PutFails, KipInv
  <2>2. ui' \in Values \cup {Closed} /\ saving' \in BOOLEAN
    BY <1>3 DEF PutFails, KipInv, TypeOK
  <2>3. QED
    BY <1>3, <2>1, <2>2, UseTyped DEF PutFails, KipInv, TypeOK, Notice, Failure
<1>4. QED
  BY <1>1, <1>2, <1>3 DEF PutStep

LEMMA TypeOKNext == ASSUME KipInv, StoreTypeOK', [Next]_vars PROVE TypeOK'
<1>1. CASE Next
  BY <1>1, BootStepsTyped, LoopStepsTyped, OverlayStepsTyped, OutsideStepsTyped, SetKipStepsTyped,
     PutStepsTyped DEF Next, Main, Boot, Environment
<1>2. CASE UNCHANGED vars
  BY <1>2 DEF vars, store, kips, overlay, KipInv, TypeOK
<1>3. QED
  BY <1>1, <1>2

\* A step of a thread that leaves the mutex alone.
LEMMA ControlKept ==
  ASSUME KipInv, UNCHANGED <<put, loaded, ui>>, kipDue' <= kipDue, kipDue' \in Nat,
         NEW t \in Writer, NEW to, Goto(t, to), to # "putting", pc[t] # "putting",
         /\ t = "ipc" => (to = "off") <=> (pc[t] = "off")
         /\ t = "main" => /\ (to = "tick") <=> (pc[t] = "tick")
                          /\ (to \in {"off", "refresh"}) <=> (pc[t] \in {"off", "refresh"})
                          /\ to \in {"off", "refresh", "decide"} => told' = {}
         /\ t = "ipc" => told' = told \/ pc["main"] = "tick"
  PROVE  Control'
<1>1. /\ pc' = [u \in Writer |-> pc'[u]]
      /\ pc'[t] = to /\ \A u \in Writer : u # t => pc'[u] = pc[u]
  BY GotoIs DEF KipInv
<1>2. \A u \in Writer : Putting(u)' = Putting(u)
  BY DEF Putting
<1>3. kipDue \in 0 .. 2 /\ (kipDue = 0 => kipDue' = 0) /\ (kipDue < 2 => kipDue' < 2)
  BY DEF KipInv, TypeOK
<1>4. QED
  BY <1>1, <1>2, <1>3, WriterIs DEF KipInv, Control

\* A thread takes the mutex.
LEMMA ControlPuts ==
  ASSUME KipInv, StoreTypeOK', NEW t \in Writer, NEW x, NEW c, NEW i, BeginPut(t, x, c, i),
         Goto(t, "putting"), UNCHANGED <<kipDue, told>>, ui' = ui \/ t = "ipc",
         t = "main" => pc[t] \notin {"off", "tick", "refresh"} /\ ~i,
         t = "ipc" => pc[t] # "off" /\ (i => kipDue < 2)
  PROVE  Control'
<1>1. /\ pc' = [u \in Writer |-> pc'[u]]
      /\ pc'[t] = "putting" /\ \A u \in Writer : u # t => pc'[u] = pc[u]
  BY GotoIs DEF KipInv
<1>2. put'.by = t /\ put'.immediate = i /\ \A u \in Writer : ~Putting(u)
  BY PutOf
<1>3. \A u \in Writer : Putting(u)' <=> u = t
  BY <1>2 DEF Putting
<1>4. loaded' = loaded
  BY DEF BeginPut
<1>5. QED
  BY <1>1, <1>2, <1>3, <1>4, WriterIs DEF KipInv, Control

\* A thread gives the mutex back.
LEMMA ControlReturns ==
  ASSUME KipInv, NEW t \in Writer, Putting(t), put' = Idle, UNCHANGED loaded, Goto(t, Done(t)),
         \/ UNCHANGED <<kipDue, ui>>
         \/ t = "ipc" /\ kipDue' \in Nat
  PROVE  Control'
<1>1. /\ pc' = [u \in Writer |-> pc'[u]]
      /\ pc'[t] = Done(t) /\ \A u \in Writer : u # t => pc'[u] = pc[u]
  BY GotoIs DEF KipInv
<1>2. \A u \in Writer : ~Putting(u)'
  BY DEF Putting, Idle, Writer
<1>3. pc[t] = "putting" /\ \A u \in Writer : u # t => pc[u] # "putting"
  BY WriterIs DEF KipInv, Control, Putting
<1>4. QED
  BY <1>1, <1>2, <1>3, WriterIs DEF KipInv, Control, Done

\* A step that leaves the threads and the mutex alone.
LEMMA ControlStays ==
  ASSUME KipInv, UNCHANGED <<pc, kipDue, told>>, loaded' = loaded, ui' = ui \/ pc["ipc"] # "off",
         put' = put \/ (put'.by = put.by /\ put'.immediate = put.immediate)
  PROVE  Control'
<1>1. (\A u \in Writer : Putting(u)' = Putting(u)) /\ put'.immediate = put.immediate
  BY DEF Putting
<1>2. QED
  BY <1>1, WriterIs DEF KipInv, Control

LEMMA ControlNext == ASSUME KipInv, StoreInv, StoreTypeOK', [Next]_vars PROVE Control'
<1> kipDue \in Nat /\ kipDue <= kipDue
  BY DEF KipInv, TypeOK
<1>1. CASE BootRefresh
  <2>1. pc["main"] = "refresh" /\ Goto("main", "decide") /\ UNCHANGED <<put, ui, kipDue, told>>
    BY <1>1 DEF BootRefresh, Refresh, kips, overlay
  <2>2. ~loaded /\ loaded' = TRUE /\ told = {}
    BY <1>1 DEF BootRefresh, Refresh, KipInv, Control
  <2>3. pc' = [u \in Writer |-> pc'[u]] /\ pc'["main"] = "decide" /\ pc'["ipc"] = pc["ipc"]
    BY <2>1, GotoIs, WriterIs DEF KipInv
  <2>4. \A u \in Writer : Putting(u)' = Putting(u)
    BY <2>1 DEF Putting
  <2>5. QED
    BY <2>1, <2>2, <2>3, <2>4, WriterIs DEF KipInv, Control
<1>2. CASE BootUpdates \/ BootUnreadable
  BY <1>2, ControlKept, WriterIs
  DEF BootUpdates, BootUnreadable, KipUnreadable, Done, store, overlay
<1>3. CASE BootAdopts
  BY <1>3, ControlPuts, WriterIs DEF BootAdopts, kips, overlay
<1>4. CASE StartLoop
  <2>1. /\ pc["main"] = "booted" /\ UNCHANGED <<put, loaded, told, ui, kipDue>>
        /\ pc' = [main |-> "tick", ipc |-> "idle"]
    BY <1>4 DEF StartLoop, store, kips, overlay
  <2>2. pc'["main"] = "tick" /\ pc'["ipc"] = "idle" /\ pc' = [u \in Writer |-> pc'[u]]
    BY <2>1, WriterIs
  <2>3. \A u \in Writer : ~Putting(u)
    BY <2>1, WriterIs DEF KipInv, Control
  <2>4. \A u \in Writer : ~Putting(u)'
    BY <2>1, <2>3 DEF Putting
  <2>5. QED
    BY <2>1, <2>2, <2>3, <2>4, WriterIs DEF KipInv, Control
<1>5. CASE TickChanged \/ ContextChanges \/ Clock
  BY <1>5, ControlStays DEF TickChanged, ContextChanges, Clock, store, kips, overlay
<1>6. CASE TickRefresh
  <2>1. loaded' = loaded
    BY <1>6 DEF TickRefresh, Refresh, KipInv, Control, StoreInv, StoreTypeOK
  <2>2. QED
    BY <1>6, <2>1, ControlStays DEF TickRefresh, Refresh, kips, overlay
<1>7. CASE OverlayFetch
  BY <1>7, ControlStays DEF OverlayFetch, OverlayReady, store, kips
<1>8. ASSUME NEW list \in Values, NEW isKip \in BOOLEAN, OverlaySave(list, isKip) PROVE Control'
  BY <1>8, ControlPuts, WriterIs DEF OverlaySave, OverlayReady, kips
<1>9. ASSUME NEW profiles \in Profiles, OverlayProfiles(profiles) PROVE Control'
  BY <1>9, ControlPuts, WriterIs DEF OverlayProfiles, OverlayReady, kips, overlay
<1>10. CASE ServeSetKip
  <2>1. kipDue' = kipDue - 1 /\ kipDue' \in Nat
    BY <1>10 DEF ServeSetKip, KipInv, TypeOK
  <2>2. kipDue' <= kipDue
    BY <2>1
  <2>3. QED
    BY <1>10, <2>1, <2>2, ControlKept, WriterIs DEF ServeSetKip, store, kips
<1>11. CASE PowerOn
  <2>1. told = {}
    BY <1>11 DEF PowerOn, On, KipInv, Control
  <2>2. QED
    BY <1>11, <2>1, ControlKept, WriterIs DEF PowerOn, On, store, kips, overlay
<1>12. CASE PowerOff
  <2>1. \A u \in Writer : pc'[u] = "off" /\ ~Putting(u)'
    BY <1>12 DEF PowerOff, StoreCrash, Putting, Idle, Writer
  <2>2. QED
    BY <1>12, <2>1, WriterIs DEF PowerOff, StoreCrash, Control
<1>13. ASSUME NEW r \in Release, InstallRelease(r) PROVE Control'
  BY <1>13, ControlStays DEF InstallRelease, store, overlay
<1>14. CASE EditLine
  BY <1>14, EditLineIs, ControlStays DEF KipInv, Edit, kips, overlay
<1>15. ASSUME NEW t \in Writer, SetKip(t) PROVE Control'
  <2>1. pc[t] \in SetKipPc /\ t = "ipc" => pc["main"] = "tick"
    BY <1>15, OtherWaits, WriterIs DEF KipInv
  <2>2. CASE FillTable(t) \/ FillRest(t) \/ WriteTable(t) \/ TableWritten(t) \/ Collect(t)
    <3>1. \E from \in SetKipPc, to \in SetKipPc :
            from # "putting" /\ to # "putting" /\ pc[t] = from /\ Goto(t, to)
      BY <2>2 DEF FillTable, FillRest, WriteTable, TableWritten, Collect, SetKipPc
    <3>2. UNCHANGED <<put, loaded, ui, kipDue, told>>
      BY <2>2 DEF FillTable, FillRest, WriteTable, TableWritten, Collect, store, overlay
    <3>3. QED
      BY <3>1, <3>2, ControlKept DEF SetKipPc
  <2>3. CASE FillUnreadable(t) \/ WriteFails(t)
    BY <2>1, <2>3, ControlKept, WriterIs
    DEF FillUnreadable, KipUnreadable, WriteFails, SetKipPc, Done, store, overlay
  <2>4. CASE SaveCollected(t)
    BY <2>4, ControlPuts DEF SaveCollected, overlay
  <2>5. QED
    BY <1>15, <2>2, <2>3, <2>4 DEF SetKip
<1>16. ASSUME NEW t \in Writer, PutRemoves(t) PROVE Control'
  <2>1. ~Unlocked
    BY <1>16, PuttingLocked DEF PutRemoves, RemoveOld
  <2>2. put'.by = put.by /\ put'.immediate = put.immediate
    BY <1>16, <2>1 DEF PutRemoves, RemoveOld, StoreInv, StoreTypeOK, Put, Unlocked
  <2>3. QED
    BY <1>16, <2>2, ControlStays DEF PutRemoves, RemoveOld, kips, overlay
<1>17. ASSUME NEW t \in Writer, PutReturns(t) PROVE Control'
  <2>1. put.immediate => t = "ipc"
    BY <1>17, WriterIs DEF PutReturns, EndPut, KipInv, Control
  <2>2. kipDue' \in Nat /\ (kipDue' = kipDue \/ t = "ipc")
    BY <1>17, <2>1 DEF PutReturns
  <2>3. QED
    BY <1>17, <2>2, ControlReturns DEF PutReturns, EndPut
<1>18. ASSUME NEW t \in Writer, PutFails(t) PROVE Control'
  <2>1. put.immediate => t = "ipc"
    BY <1>18, WriterIs DEF PutFails, AbortPut, KipInv, Control
  <2>2. QED
    BY <1>18, <2>1, ControlReturns DEF PutFails, AbortPut
<1>19. CASE UNCHANGED vars
  BY <1>19, ControlStays DEF vars, store, kips, overlay
<1>20. QED
  BY <1>1, <1>2, <1>3, <1>4, <1>5, <1>6, <1>7, <1>8, <1>9, <1>10, <1>11, <1>12, <1>13, <1>14, <1>15,
     <1>16, <1>17, <1>18, <1>19, SaveOptionIs, SaveKipIs
  DEF KipInv, Next, Main, Boot, Overlay, Environment, PutStep

LEMMA KipInvNext == ASSUME KipInv, StoreInv, [Next]_vars PROVE KipInv' /\ StoreInv'
<1>1. [StoreNext]_storeVars
  BY StepStores DEF KipInv
<1>2. StoreInv' /\ StoreTypeOK'
  BY <1>1, StoreInvNext DEF StoreInv
<1>3. QED
  BY <1>2, TypeOKNext, ControlNext DEF KipInv

-----------------------------------------------------------------------------
(* The boot.                                                               *)

LEMMA UnlockedIs ==
  ASSUME KipInv, StoreInv PROVE Unlocked <=> \A t \in Writer : pc[t] # "putting"
<1>1. ~Unlocked => put.by \in Writer
  BY PutTyped DEF StoreInv
<1>2. QED
  BY <1>1, NobodyPuts DEF KipInv, Control, Putting

\* Reading drops an option that is not valid, and nothing else.
LEMMA ValidKeeps ==
  ASSUME NEW v \in Values
  PROVE  /\ Valid(v).kip = v.kip /\ Valid(v).speedo = v.speedo
         /\ Valid(v).crc = v.crc /\ Valid(v).first = v.first
BY DEF Values, Valid

\* The file, the memory and the copy, as far as the boot reads them.
LEMMA StoreTyped ==
  ASSUME StoreInv
  PROVE  /\ disk.sections \in Sections /\ disk.sections.values \in Values
         /\ mem \in Sections /\ mem.values \in Values
         /\ ~Unlocked => put.sections \in Sections /\ put.sections.values \in Values
         /\ Fields = Valid(disk.sections.values)
         /\ Fields.kip = disk.sections.values.kip /\ Fields.crc = disk.sections.values.crc
         /\ Fields.first = disk.sections.values.first /\ Fields.speedo = disk.sections.values.speedo
<1>1. disk.sections \in Sections /\ mem \in Sections
  BY FileTyped DEF StoreInv, StoreTypeOK
<1>2. ~Unlocked => put.sections \in Sections
  BY PutTyped DEF StoreInv
<1>3. \A s \in Sections : s.values \in Values
  BY DEF Sections
<1>4. Fields = Valid(disk.sections.values)
  BY <1>1, SectionsRead DEF Fields
<1>5. QED
  BY <1>1, <1>2, <1>3, <1>4, ValidKeeps

\* What a copy holds in which the values were replaced.
LEMMA ValuesReplaced ==
  ASSUME StoreInv, NEW v \in Values
  PROVE  [disk.sections EXCEPT !["values"] = v].values = v
<1>1. disk.sections \in Sections
  BY StoreTyped
<1>2. QED
  BY <1>1 DEF Sections

\* What is written takes the place of the file.
LEMMA FileReplaced ==
  ASSUME KipInv, StoreInv, NEW t \in Writer, EndPut(t)
  PROVE  disk'.sections = put.sections /\ ~Unlocked /\ put.sections.values \in Values
<1>1. ~Unlocked /\ put.sections \in Sections /\ now \in 1 .. MaxTime
  BY PuttingLocked, PutTyped DEF EndPut, StoreInv, StoreTypeOK
<1>2. QED
  BY <1>1, FileWritten, StoreTyped DEF EndPut

LEMMA BootIdle == ASSUME pc'["main"] \in {"off", "refresh", "tick"} PROVE BootInv'
BY DEF BootInv, Booting, KipAgreesAfterBoot, SetKipPc

LEMMA BootUnchanged ==
  ASSUME BootInv, UNCHANGED <<disk, mem, put, kip, table, configValues, told>>, pc' = pc
  PROVE  BootInv'
BY DEF BootInv, Booting, Like, Agrees, KipAgreesAfterBoot, Fields, Fine, Checksum

LEMMA BootPuts ==
  ASSUME KipInv, StoreInv, StoreInv', pc["main"] \in {"decide", "collected"}, NEW c \in Values,
         BeginPut("main", "values", c, FALSE), Goto("main", "putting"), UNCHANGED <<kip, told>>,
         Fine => Agrees(c),
         "updated" \in told => c.kip = disk.sections.values.kip
  PROVE  BootInv'
<1>1. pc'["main"] = "putting"
  BY GotoIs, WriterIs DEF KipInv
<1>2. /\ put'.section = "values" /\ put'.sections = [disk.sections EXCEPT !["values"] = c]
      /\ put'.stage = IF disk = Missing THEN "created" ELSE "copied"
  BY DEF BeginPut
<1>3. put'.sections.values = c
  BY <1>2, ValuesReplaced
<1>4. put'.stage = "copied" => disk' = disk
  BY <1>2 DEF BeginPut
<1>5. QED
  BY <1>1, <1>2, <1>3, <1>4 DEF BootInv, Booting, Agrees, KipAgreesAfterBoot, Fine, Checksum, SetKipPc

LEMMA BootStepKeeps ==
  ASSUME KipInv, StoreInv, StoreInv', BootInv, Boot
  PROVE  BootInv'
<1>1. CASE BootRefresh
  <2>1. pc'["main"] = "decide" /\ ~loaded
    BY <1>1, GotoIs, WriterIs DEF BootRefresh, KipInv, Control
  <2>2. mem' = Read(disk'.sections)
    BY <1>1, <2>1 DEF BootRefresh, Refresh
  <2>3. QED
    BY <2>1, <2>2 DEF BootInv, Booting, KipAgreesAfterBoot, SetKipPc
<1>2. CASE BootUpdates
  <2>1. /\ pc["main"] = "decide" /\ pc'["main"] = "fill" /\ UNCHANGED <<disk, mem>>
        /\ "updated" \in told'
    BY <1>2, GotoIs, WriterIs DEF BootUpdates, KipInv, store
  <2>2. QED
    BY <2>1 DEF BootInv, Booting, KipAgreesAfterBoot
<1>3. CASE BootAdopts
  <2>1. AdoptedValues \in Values /\ mem.values \in Values
    BY PutValuesTyped, StoreTyped DEF KipInv
  <2>2. /\ AdoptedValues.kip = kip.kip /\ AdoptedValues.crc = Checksum
        /\ AdoptedValues.speedo = "fuse"
    BY <2>1 DEF AdoptedValues, Values
  <2>3. told = {}
    BY <1>3 DEF BootAdopts, KipInv, Control
  <2>4. Agrees(AdoptedValues)
    BY <2>2, <2>3 DEF Agrees
  <2>5. QED
    BY <1>3, <2>1, <2>3, <2>4, BootPuts DEF BootAdopts, kips
<1>4. CASE BootUnreadable
  <2>1. pc'["main"] = "booted" /\ "open" \in told'
    BY <1>4, GotoIs, WriterIs DEF BootUnreadable, KipUnreadable, Done, KipInv
  <2>2. QED
    BY <2>1 DEF BootInv, Booting, KipAgreesAfterBoot, Failure, SetKipPc
<1>5. QED
  BY <1>1, <1>2, <1>3, <1>4 DEF Boot

LEMMA BootSetKipKeeps ==
  ASSUME KipInv, StoreInv, StoreInv', BootInv, SetKip("main")
  PROVE  BootInv'
<1> pc["main"] \in SetKipPc \ {"putting"} => "updated" \in told
  BY DEF BootInv, Booting
<1>1. CASE FillTable("main")
  <2>1. /\ pc["main"] = "fill" /\ pc'["main"] = "filling" /\ UNCHANGED <<disk, mem, told>>
        /\ table' = [kip |-> mem.values.kip, speedo |-> mem.values.speedo]
    BY <1>1, GotoIs, WriterIs DEF FillTable, KipInv, store
  <2>2. QED
    BY <2>1 DEF BootInv, Booting, Like, KipAgreesAfterBoot, SetKipPc
<1>2. CASE FillRest("main")
  <2>1. /\ pc["main"] = "filling" /\ pc'["main"] \in {"filling", "write"} /\ UNCHANGED <<disk, mem, told>>
        /\ table' \in [kip : Mixtures(table.kip, mem.values.kip),
                       speedo : {table.speedo, mem.values.speedo}]
    BY <1>2, GotoIs, WriterIs DEF FillRest, KipInv, store
  <2>2. Like(table, mem.values)
    BY <2>1 DEF BootInv, Booting
  <2>3. Like(table, mem.values)'
    BY <2>1, <2>2 DEF Like, Mixtures
  <2>4. QED
    BY <2>1, <2>3 DEF BootInv, Booting, KipAgreesAfterBoot, SetKipPc
<1>3. CASE FillUnreadable("main")
  <2>1. pc'["main"] = "booted" /\ "open" \in told'
    BY <1>3, GotoIs, WriterIs DEF FillUnreadable, KipUnreadable, Done, KipInv
  <2>2. QED
    BY <2>1 DEF BootInv, Booting, KipAgreesAfterBoot, Failure, SetKipPc
<1>4. CASE WriteTable("main")
  <2>1. /\ pc["main"] = "write" /\ pc'["main"] = "writing" /\ UNCHANGED <<disk, mem, table, told>>
    BY <1>4, GotoIs, WriterIs DEF WriteTable, KipInv, store
  <2>2. QED
    BY <2>1 DEF BootInv, Booting, Like, KipAgreesAfterBoot, SetKipPc
<1>5. CASE TableWritten("main")
  <2>1. /\ pc["main"] = "writing" /\ pc'["main"] = "collect" /\ UNCHANGED <<disk, mem, told>>
        /\ kip' = [kip EXCEPT !.kip = table.kip, !.speedo = table.speedo]
    BY <1>5, GotoIs, WriterIs DEF TableWritten, KipInv, store
  <2>2. kip'.kip = table.kip /\ kip'.speedo = table.speedo
    BY <2>1 DEF KipInv, TypeOK
  <2>3. QED
    BY <2>1, <2>2 DEF BootInv, Booting, Like, KipAgreesAfterBoot, SetKipPc
<1>6. CASE WriteFails("main")
  <2>1. /\ pc["main"] = "writing" /\ pc'["main"] = "collect" /\ UNCHANGED <<disk, mem>>
        /\ told' = told \cup {"write"}
    BY <1>6, GotoIs, WriterIs DEF WriteFails, KipInv, store
  <2>2. ~Fine'
    BY <2>1 DEF Fine, Failure
  <2>3. QED
    BY <2>1, <2>2 DEF BootInv, Booting, KipAgreesAfterBoot, SetKipPc
<1>7. CASE Collect("main")
  <2>1. /\ pc["main"] = "collect" /\ pc'["main"] = "collected" /\ UNCHANGED <<disk, mem, kip, told>>
        /\ configValues' = mem.values
    BY <1>7, GotoIs, WriterIs DEF Collect, KipInv, store
  <2>2. QED
    BY <2>1 DEF BootInv, Booting, Like, Fine, KipAgreesAfterBoot, SetKipPc
<1>8. CASE SaveCollected("main")
  <2>1. /\ pc["main"] = "collected" /\ mem = Read(disk.sections) /\ configValues = mem.values
        /\ Fine => Like(kip, mem.values)
    BY <1>8 DEF SaveCollected, BootInv, Booting
  <2>2. mem.values.kip = disk.sections.values.kip
    BY <2>1, StoreTyped DEF Fields
  <2>3. CollectedValues \in Values /\ mem.values \in Values
    BY PutValuesTyped, StoreTyped DEF KipInv
  <2>4. /\ CollectedValues.kip = mem.values.kip /\ CollectedValues.crc = Checksum
        /\ CollectedValues.speedo = mem.values.speedo
    BY <2>1, <2>3 DEF CollectedValues, Values
  <2>5. "updated" \in told
    BY <2>1 DEF SetKipPc
  <2>6. Fine => Agrees(CollectedValues)
    BY <2>1, <2>4, <2>5 DEF Agrees, Like
  <2>7. QED
    BY <1>8, <2>1, <2>2, <2>3, <2>4, <2>6, BootPuts DEF SaveCollected
<1>9. QED
  BY <1>1, <1>2, <1>3, <1>4, <1>5, <1>6, <1>7, <1>8 DEF SetKip

LEMMA BootPutKeeps ==
  ASSUME KipInv, StoreInv, StoreInv', BootInv, PutStep("main") \/ PutFails("main")
  PROVE  BootInv'
<1>1. pc["main"] = "putting"
  BY WriterIs
  DEF PutStep, PutRemoves, PutReturns, PutFails, RemoveOld, EndPut, AbortPut, KipInv, Control
<1>2. CASE PutRemoves("main")
  <2>1. ~Unlocked
    BY <1>2, PuttingLocked, WriterIs DEF PutRemoves, RemoveOld
  <2>2. put'.section = put.section /\ put'.sections = put.sections /\ put'.stage = "removed"
    BY <1>2, <2>1 DEF PutRemoves, RemoveOld, StoreInv, StoreTypeOK, Put, Unlocked
  <2>3. UNCHANGED <<pc, kip, told>>
    BY <1>2 DEF PutRemoves, kips
  <2>4. QED
    BY <1>1, <2>2, <2>3 DEF BootInv, Booting, Agrees, KipAgreesAfterBoot, Fine, Checksum, SetKipPc
<1>3. CASE PutReturns("main")
  <2>1. disk'.sections = put.sections /\ UNCHANGED <<kip, told>> /\ pc'["main"] = "booted"
    BY <1>3, FileReplaced, GotoIs, WriterIs DEF PutReturns, KipInv, Done, kips
  <2>2. /\ Fields'.kip = disk'.sections.values.kip /\ Fields'.crc = disk'.sections.values.crc
        /\ Fields'.speedo = disk'.sections.values.speedo
    <3>1. put.sections \in Sections /\ put.sections.values \in Values
      BY <1>3, FileReplaced, StoreTyped, WriterIs DEF PutReturns
    <3>2. Fields' = Valid(put.sections.values)
      BY <2>1, <3>1, SectionsRead DEF Fields
    <3>3. QED
      BY <2>1, <3>1, <3>2, ValidKeeps
  <2>3. QED
    BY <1>1, <2>1, <2>2 DEF BootInv, Booting, Agrees, KipAgreesAfterBoot, Fine, Checksum, SetKipPc
<1>4. CASE PutFails("main")
  <2>1. pc'["main"] = "booted" /\ "config" \in told'
    BY <1>4, GotoIs, WriterIs DEF PutFails, KipInv, Done
  <2>2. QED
    BY <2>1 DEF BootInv, Booting, KipAgreesAfterBoot, Failure, SetKipPc
<1>5. QED
  BY <1>2, <1>3, <1>4 DEF PutStep

\* A step of another thread leaves main where it is, and main is not booting.
LEMMA MainStays ==
  ASSUME KipInv, pc["ipc"] # "off", NEW to, Goto("ipc", to)
  PROVE  pc'["main"] = "tick"
BY GotoIs, WriterIs DEF KipInv, Control

LEMMA BootInvNext ==
  ASSUME KipInv, StoreInv, StoreInv', BootInv, [Next]_vars
  PROVE  BootInv'
<1>1. CASE Boot
  BY <1>1, BootStepKeeps
<1>2. CASE StartLoop \/ TickChanged \/ TickRefresh \/ ContextChanges \/ PowerOn
  <2>1. pc'["main"] \in {"refresh", "tick"}
    BY <1>2, GotoIs, WriterIs
    DEF StartLoop, TickChanged, TickRefresh, ContextChanges, PowerOn, KipInv
  <2>2. QED
    BY <2>1, BootIdle
<1>3. CASE Overlay \/ ServeSetKip
  <2>1. pc["ipc"] = "idle" /\ (pc' = pc \/ \E to : Goto("ipc", to))
    BY <1>3 DEF Overlay, OverlayFetch, SaveOption, SaveKip, OverlaySave, OverlayProfiles, OverlayReady,
                ServeSetKip
  <2>2. pc'["main"] = "tick"
    BY <2>1, MainStays DEF KipInv, Control
  <2>3. QED
    BY <2>2, BootIdle
<1>4. CASE PowerOff \/ (\E r \in Release : InstallRelease(r))
  <2>1. pc'["main"] = "off"
    BY <1>4, WriterIs DEF PowerOff, InstallRelease, On
  <2>2. QED
    BY <2>1, BootIdle
<1>5. CASE EditLine
  BY <1>5, EditLineIs, BootIdle DEF KipInv
<1>6. CASE Clock \/ UNCHANGED vars
  BY <1>6, BootUnchanged DEF Clock, vars, store, kips
<1>7. CASE SetKip("main") \/ PutStep("main") \/ PutFails("main")
  BY <1>7, BootSetKipKeeps, BootPutKeeps
<1>8. CASE SetKip("ipc") \/ PutStep("ipc") \/ PutFails("ipc")
  <2>1. pc["ipc"] \in SetKipPc
    BY <1>8, WriterIs
    DEF SetKip, FillTable, FillRest, FillUnreadable, WriteTable, TableWritten, WriteFails, Collect,
        SaveCollected, SetKipPc,
        PutStep, PutRemoves, PutReturns, PutFails, RemoveOld, EndPut, AbortPut, KipInv, Control
  <2>2. pc' = pc \/ \E to : Goto("ipc", to)
    BY <1>8
    DEF SetKip, FillTable, FillRest, FillUnreadable, KipUnreadable, WriteTable, TableWritten,
        WriteFails, Collect, SaveCollected,
        PutStep, PutRemoves, PutReturns, PutFails
  <2>3. pc'["main"] = "tick"
    BY <2>1, <2>2, MainStays DEF KipInv, Control, SetKipPc
  <2>4. QED
    BY <2>3, BootIdle
<1>9. QED
  BY <1>1, <1>2, <1>3, <1>4, <1>5, <1>6, <1>7, <1>8, WriterIs DEF Next, Main, Environment

\* What a restart would find, as far as the boot writes it.
LEMMA SavedIs ==
  /\ StoreInv => Saved.values.kip = IF Settled THEN disk.sections.values.kip ELSE put.sections.values.kip
  /\ StoreInv' => Saved'.values.kip = IF Settled' THEN disk'.sections.values.kip
                                      ELSE put'.sections.values.kip
<1>1. \A s \in Sections : Read(s).values.kip = s.values.kip
  BY SectionsRead, ValidKeeps DEF Sections
<1>2. StoreInv => disk.sections \in Sections /\ (~Settled => put.sections \in Sections)
  BY FileTyped, PutTyped DEF StoreInv, StoreTypeOK, Settled
<1>3. StoreInv' => disk'.sections \in Sections /\ (~Settled' => put'.sections \in Sections)
  BY FileTyped DEF StoreInv, StoreTypeOK, Settled, Put, Unlocked
<1>4. QED
  BY <1>1, <1>2, <1>3 DEF Saved, Settled

LEMMA UpdateKeeps ==
  ASSUME KipInv, StoreInv, BootInv, StoreInv', [Next]_vars, pc["main"] \in SetKipPc,
         pc'["main"] # "off", "updated" \in told
  PROVE  Saved'.values.kip = Saved.values.kip
<1>1. pc["ipc"] = "off" /\ pc["main"] \notin {"off", "refresh", "decide", "booted", "tick", "idle"}
  BY DEF SetKipPc, KipInv, Control
<1>2. CASE Main \/ Overlay \/ ServeSetKip \/ PowerOn
  BY <1>1, <1>2
  DEF Main, Boot, BootRefresh, BootUpdates, BootAdopts, BootUnreadable, StartLoop, TickChanged,
      TickRefresh, Overlay, OverlayFetch, SaveOption, SaveKip, OverlaySave, OverlayProfiles,
      OverlayReady, ServeSetKip, PowerOn, On
<1>3. CASE Environment
  <2>1. ~PowerOff
    BY WriterIs DEF PowerOff
  <2>2. ~EditLine
    BY <1>1, EditLineIs DEF KipInv
  <2>3. ~ContextChanges /\ ~\E r \in Release : InstallRelease(r)
    BY <1>1 DEF ContextChanges, InstallRelease, On
  <2>4. Clock
    BY <1>3, <2>1, <2>2, <2>3 DEF Environment
  <2>5. QED
    BY <2>4 DEF Clock, store, Saved, Unlocked
<1>4. CASE SetKip("ipc") \/ PutStep("ipc") \/ PutFails("ipc")
  BY <1>1, <1>4, WriterIs
  DEF SetKip, FillTable, FillRest, FillUnreadable, WriteTable, TableWritten, WriteFails, Collect,
      SaveCollected,
      PutStep, PutRemoves, PutReturns, PutFails, RemoveOld, EndPut, AbortPut, KipInv, Control
<1>5. CASE SetKip("main")
  <2>1. CASE SaveCollected("main")
    <3>1. /\ pc["main"] = "collected" /\ mem = Read(disk.sections) /\ Unlocked
          /\ configValues = mem.values
      BY <2>1 DEF SaveCollected, BeginPut, BootInv, Booting
    <3>2. mem.values.kip = disk.sections.values.kip /\ mem.values \in Values
      BY <3>1, StoreTyped DEF Fields
    <3>3. CollectedValues \in Values /\ CollectedValues.kip = mem.values.kip
      BY <3>1, <3>2, PutValuesTyped DEF KipInv, CollectedValues, Values
    <3>4. [disk.sections EXCEPT !["values"] = CollectedValues].values = CollectedValues
      BY <3>3, ValuesReplaced
    <3>5. put'.sections = [disk.sections EXCEPT !["values"] = CollectedValues]
      BY <2>1 DEF SaveCollected, BeginPut
    <3>6. Settled' => disk' = disk
      BY <2>1 DEF SaveCollected, BeginPut, Settled, Unlocked, Idle, Writer
    <3>7. QED
      BY <3>1, <3>2, <3>3, <3>4, <3>5, <3>6, SavedIs DEF Settled
  <2>2. CASE ~SaveCollected("main")
    BY <1>5, <2>2
    DEF SetKip, FillTable, FillRest, FillUnreadable, KipUnreadable, WriteTable, TableWritten,
        WriteFails, Collect, store, Saved, Unlocked
  <2>3. QED
    BY <2>1, <2>2
<1>6. CASE PutStep("main") \/ PutFails("main")
  <2>1. CASE PutRemoves("main")
    <3>1. ~Unlocked /\ pc["main"] = "putting" /\ put.stage = "copied"
      BY <2>1, PuttingLocked, WriterIs DEF PutRemoves, RemoveOld, KipInv, Control
    <3>2. put'.sections = put.sections /\ put'.stage = "removed" /\ put' # Idle
      BY <2>1, <3>1, PutTyped
      DEF PutRemoves, RemoveOld, StoreInv, StoreTypeOK, Put, Unlocked, Idle, Writer, Putting
    <3>3. put.sections.values.kip = disk.sections.values.kip
      BY <3>1 DEF BootInv, Booting
    <3>4. QED
      BY <3>1, <3>2, <3>3, SavedIs DEF Settled, Unlocked
  <2>2. CASE PutReturns("main")
    <3>1. EndPut("main") /\ ~Settled
      BY <2>2, PuttingLocked, WriterIs DEF PutReturns, EndPut, Settled
    <3>2. disk'.sections = put.sections /\ Settled'
      BY <3>1, FileReplaced, WriterIs DEF EndPut, Settled, Unlocked
    <3>3. QED
      BY <3>1, <3>2, SavedIs
  <2>3. CASE PutFails("main")
    BY <2>3 DEF PutFails, AbortPut, Saved, Unlocked
  <2>4. QED
    BY <1>6, <2>1, <2>2, <2>3 DEF PutStep
<1>7. CASE UNCHANGED vars
  BY <1>7 DEF vars, store, Saved, Unlocked
<1>8. QED
  BY <1>2, <1>3, <1>4, <1>5, <1>6, <1>7, WriterIs DEF Next

-----------------------------------------------------------------------------
(* A table that was cut short.                                             *)

\* A clean past was clean before.
LEMMA CleanBefore == ASSUME past \subseteq past', Clean' PROVE Clean
BY DEF Clean

LEMMA WholeValues ==
  /\ Whole(DefaultValues) /\ Whole(Defaults.values)
  /\ \A v \in Values : Whole(v) =>
       /\ Whole(Valid(v))
       /\ \A option \in Option : Whole([v EXCEPT !.option = option])
       /\ \A setting \in Setting : Whole([v EXCEPT !.kip = setting])
<1>1. Whole(DefaultValues) /\ Whole(Defaults.values)
  BY KipAssumption DEF Whole, DefaultValues, Defaults
<1>2. \A v \in Values : Whole(v) => Whole(Valid(v))
  BY ValidKeeps DEF Whole
<1>3. \A v \in Values : Whole(v) => \A option \in Option : Whole([v EXCEPT !.option = option])
  BY DEF Whole, Values
<1>4. \A v \in Values : Whole(v) => \A setting \in Setting : Whole([v EXCEPT !.kip = setting])
  BY KipAssumption DEF Whole, Values
<1>5. QED
  BY <1>1, <1>2, <1>3, <1>4

\* While a thread is at another step of the boot or of a command, none is writing.
LEMMA NotWriting ==
  ASSUME KipInv, NEW t \in Writer, pc[t] \in {"refresh", "decide", "booted", "idle"} \cup SetKipPc,
         pc[t] # "writing"
  PROVE  ~Writing
<1>1. CASE pc[t] = "idle"
  BY <1>1, WriterIs DEF Writing, KipInv, Control, TypeOK, SetKipPc
<1>2. CASE pc[t] # "idle"
  BY <1>2, OtherWaits DEF Writing, KipInv
<1>3. QED
  BY <1>1, <1>2

\* A step that changes neither the file nor a copy of the settings.
LEMMA TornStays ==
  ASSUME TornInv, UNCHANGED <<disk, mem, put, loaded, kip, table, configValues, ui>>, past \subseteq past',
         (Clean' /\ Writing => Writing'),
         \A t \in Writer : pc'[t] \in {"collect", "collected"} => pc[t] \in {"collect", "collected"}
  PROVE  TornInv'
<1> SUFFICES ASSUME Clean' PROVE AllWhole' /\ TornKnown'
  BY DEF TornInv
<1>1. AllWhole /\ TornKnown
  BY CleanBefore DEF TornInv
<1>2. AllWhole'
  BY <1>1 DEF AllWhole, Unlocked
<1>3. TornKnown'
  BY <1>1 DEF TornKnown, Settled, Unlocked
<1>4. QED
  BY <1>2, <1>3

\* A thread takes the mutex, with values that are whole and, if the table is torn, no
\* first load.
LEMMA TornPuts ==
  ASSUME KipInv, StoreInv, TornInv, NEW t \in Writer, NEW x, NEW c, NEW i, BeginPut(t, x, c, i),
         UNCHANGED <<kip, table, past, now>>, Goto(t, "putting"),
         pc[t] \in {"decide", "collected", "idle"}, NEW values,
         configValues' = configValues \/ configValues' = DefaultValues, put'.sections.values = values,
         Clean => /\ Whole(values) /\ (ui' # Closed => Whole(ui'))
                  /\ kip.kip = Torn => ~values.first /\ (ui' # Closed => ~ui'.first)
  PROVE  TornInv'
<1> SUFFICES ASSUME Clean' PROVE AllWhole' /\ TornKnown'
  BY DEF TornInv
<1>1. Clean /\ AllWhole /\ TornKnown
  BY DEF TornInv, Clean
<1>2. ~Writing
  BY NotWriting DEF SetKipPc
<1>3. Unlocked /\ UNCHANGED <<mem, loaded>> /\ put'.stage = IF disk = Missing THEN "created" ELSE "copied"
  BY DEF BeginPut
<1>4. disk'.sections.values = disk.sections.values \/ disk'.sections.values = Defaults.values
  BY FileWritten, SectionsRead DEF BeginPut, StoreInv, StoreTypeOK
<1>5. AllWhole'
  BY <1>1, <1>3, <1>4, WholeValues DEF AllWhole
<1>6. \A u \in Writer : pc'[u] \in {"collect", "collected"} => pc[u] \in {"collect", "collected"}
  BY GotoIs DEF KipInv
<1>7. Settled' => Settled /\ disk' = disk
  BY <1>3 DEF BeginPut, Settled, Unlocked, Idle, Writer
<1>8. TornKnown'
  BY <1>1, <1>2, <1>3, <1>6, <1>7 DEF TornKnown
<1>9. QED
  BY <1>5, <1>8

\* The list the overlay saves is a whole one, and none of a first load with a torn table.
LEMMA TornSaves ==
  ASSUME KipInv, StoreInv, StoreInv', TornInv, NEW list \in Values, NEW isKip \in BOOLEAN,
         OverlaySave(list, isKip),
         Clean => Whole(list) /\ (kip.kip = Torn /\ ~Writing => ~list.first)
  PROVE  TornInv'
<1>1. BeginPut("ipc", "values", Valid(list), TRUE) /\ pc["ipc"] = "idle" /\ Goto("ipc", "putting")
      /\ UNCHANGED <<kip, table, configValues, past, now>> /\ ui' = list
  BY DEF OverlaySave, OverlayReady, kips
<1>2. ~Writing
  BY <1>1, NotWriting, WriterIs
<1>3. put'.sections = [disk.sections EXCEPT !["values"] = Valid(list)]
  BY <1>1 DEF BeginPut
<1>4. put'.sections.values = Valid(list) /\ Valid(list).first = list.first
  BY <1>3, ValuesReplaced, ValuesRead, ValidKeeps
<1>5. Clean => Whole(Valid(list))
  BY WholeValues
<1>6. QED
  BY <1>1, <1>2, <1>4, <1>5, TornPuts, WriterIs

LEMMA TornRefreshes ==
  ASSUME KipInv, StoreInv, TornInv, Refresh, UNCHANGED <<kips, ui>>,
         Writing => Writing', \A t \in Writer : pc'[t] \in {"collect", "collected"} => pc[t] \in {"collect", "collected"}
  PROVE  TornInv'
<1> SUFFICES ASSUME Clean' PROVE AllWhole' /\ TornKnown'
  BY DEF TornInv
<1>1. Clean /\ AllWhole /\ TornKnown /\ Unlocked /\ Settled
  BY DEF TornInv, Clean, kips, Refresh, Settled
<1>2. UNCHANGED <<disk, put>>
  BY DEF Refresh
<1>3. Whole(Fields) /\ Fields.first = disk.sections.values.first
  BY <1>1, WholeValues, StoreTyped DEF AllWhole
<1>4. mem'.values = Fields \/ (mem' = mem /\ loaded)
  BY DEF Refresh, Fields
<1>5. AllWhole'
  BY <1>1, <1>2, <1>3, <1>4 DEF AllWhole, Unlocked, kips
<1>6. TornKnown'
  BY <1>1, <1>2, <1>3, <1>4 DEF TornKnown, Unlocked, Settled, kips
<1>7. QED
  BY <1>5, <1>6

\* The copy takes the place of the file, and its section that of the memory.
LEMMA TornReturns ==
  ASSUME KipInv, StoreInv, StoreInv', TornInv, NEW t \in Writer, PutReturns(t)
  PROVE  TornInv'
<1> SUFFICES ASSUME Clean' PROVE AllWhole' /\ TornKnown'
  BY DEF TornInv
<1>1. EndPut(t) /\ Goto(t, Done(t)) /\ UNCHANGED <<kip, table, configValues, past, ui>>
  BY DEF PutReturns, kips
<1>2. Clean /\ AllWhole /\ TornKnown /\ pc[t] = "putting"
  BY <1>1 DEF TornInv, Clean, EndPut, KipInv, Control
<1>3. ~Writing
  BY <1>2, NotWriting DEF SetKipPc
<1>4. disk'.sections = put.sections /\ ~Unlocked /\ put.sections.values \in Values
  BY <1>1, FileReplaced
<1>5. Whole(put.sections.values) /\ (kip.kip = Torn => ~put.sections.values.first)
  BY <1>2, <1>3, <1>4 DEF AllWhole, TornKnown
<1>6. mem'.values = mem.values \/ mem'.values = Valid(put.sections.values)
  <2>1. put.section \in {"values", "profiles"} /\ put.sections \in Sections /\ mem \in Sections
    BY <1>4, PutTyped, StoreTyped DEF StoreInv, Content
  <2>2. Read(put.sections).values = Valid(put.sections.values)
    BY <2>1, SectionsRead
  <2>3. mem' = IF put.immediate THEN [mem EXCEPT ![put.section] = Read(put.sections)[put.section]] ELSE mem
    BY <1>1 DEF EndPut
  <2>4. CASE put.section = "values"
    BY <2>1, <2>2, <2>3, <2>4 DEF Sections
  <2>5. CASE put.section = "profiles"
    BY <2>1, <2>3, <2>5 DEF Sections
  <2>6. QED
    BY <2>1, <2>4, <2>5
<1>7. Whole(mem'.values) /\ (loaded /\ kip.kip = Torn => ~mem'.values.first)
  BY <1>2, <1>3, <1>4, <1>5, <1>6, WholeValues, ValidKeeps DEF AllWhole, TornKnown
<1>8. Unlocked' /\ loaded' = loaded
  BY <1>1 DEF EndPut, Unlocked
<1>9. AllWhole'
  BY <1>1, <1>2, <1>4, <1>5, <1>7, <1>8 DEF AllWhole
<1>10. \A u \in Writer : pc'[u] \in {"collect", "collected"} => pc[u] \in {"collect", "collected"}
  BY <1>1, GotoIs DEF KipInv, Done
<1>11. TornKnown'
  BY <1>1, <1>2, <1>3, <1>4, <1>5, <1>7, <1>8, <1>10 DEF TornKnown
<1>12. QED
  BY <1>9, <1>11

\* The copy is there, the file is not: only power that fails now loses the settings.
LEMMA TornRemoves ==
  ASSUME KipInv, StoreInv, TornInv, NEW t \in Writer, PutRemoves(t)
  PROVE  TornInv'
<1> SUFFICES ASSUME Clean' PROVE AllWhole' /\ TornKnown'
  BY DEF TornInv
<1>1. RemoveOld(t) /\ ~Unlocked /\ UNCHANGED <<kip, table, configValues, past, ui, pc, mem, loaded>>
  BY PuttingLocked DEF PutRemoves, RemoveOld, kips, overlay
<1>2. Clean /\ AllWhole /\ TornKnown
  BY <1>1 DEF TornInv, Clean
<1>3. put'.sections = put.sections /\ ~Settled'
  BY <1>1, PutTyped
  DEF RemoveOld, StoreInv, StoreTypeOK, Put, Unlocked, Idle, Writer, Putting, Settled
<1>4. disk'.sections = Defaults
  BY <1>1, FileTyped DEF RemoveOld
<1>5. AllWhole'
  BY <1>1, <1>2, <1>3, <1>4, WholeValues DEF AllWhole
<1>6. TornKnown'
  BY <1>1, <1>2, <1>3 DEF TornKnown, Writing
<1>7. QED
  BY <1>5, <1>6

LEMMA TornOff == ASSUME KipInv, StoreInv, TornInv, PowerOff PROVE TornInv'
<1> SUFFICES ASSUME Clean' PROVE AllWhole' /\ TornKnown'
  BY DEF TornInv
<1>1. Settled
  BY DEF PowerOff, Clean, Settled, Unlocked
<1>2. Clean /\ AllWhole /\ TornKnown
  <2>1. past \subseteq past'
    BY DEF PowerOff
  <2>2. QED
    BY <2>1, CleanBefore DEF TornInv
<1>3. /\ mem' = Defaults /\ loaded' = FALSE /\ Unlocked' /\ disk' = disk /\ kip' = kip
      /\ ui' = Closed /\ table' = NoTable /\ configValues' = DefaultValues /\ \A t \in Writer : pc'[t] = "off"
  BY DEF PowerOff, StoreCrash, Unlocked
<1>4. AllWhole'
  BY <1>2, <1>3, WholeValues, KipAssumption DEF AllWhole, NoTable
<1>5. TornKnown'
  BY <1>1, <1>2, <1>3 DEF TornKnown
<1>6. QED
  BY <1>4, <1>5

LEMMA TornInstalls ==
  ASSUME KipInv, StoreInv, TornInv, NEW r \in Release, InstallRelease(r) PROVE TornInv'
<1> SUFFICES ASSUME Clean' PROVE AllWhole' /\ TornKnown'
  BY DEF TornInv
<1>1. Clean /\ AllWhole /\ TornKnown
  BY DEF TornInv, Clean, InstallRelease
<1>2. kip'.kip # Torn
  BY KipAssumption DEF InstallRelease
<1>3. AllWhole'
  BY <1>1 DEF InstallRelease, AllWhole, Unlocked, store, overlay
<1>4. QED
  BY <1>2, <1>3 DEF TornKnown

\* An editor changes one line: the settings it writes are none that were torn.
LEMMA TornEdits == ASSUME KipInv, StoreInv, TornInv, EditLine PROVE TornInv'
<1> SUFFICES ASSUME Clean' PROVE AllWhole' /\ TornKnown'
  BY DEF TornInv
<1> DEFINE v == disk.sections.values
<1>1. Unlocked /\ UNCHANGED <<kips, pc, overlay, mem, loaded, put>>
  BY EditLineIs DEF KipInv, Edit
<1>2. Clean /\ AllWhole /\ TornKnown
  BY <1>1 DEF TornInv, Clean, kips
<1>3. disk.sections \in Sections /\ v \in Values /\ Whole(v)
  BY <1>2, StoreTyped DEF AllWhole
<1>4. Whole(disk'.sections.values) /\ disk'.sections.values.first = v.first
  <2>1. CASE \E setting \in Setting : EditFile("values", [v EXCEPT !.kip = setting])
    <3>1. PICK setting \in Setting : EditFile("values", [v EXCEPT !.kip = setting])
      BY <2>1
    <3>2. [v EXCEPT !.kip = setting] \in Values /\ [v EXCEPT !.kip = setting].first = v.first
      BY <1>3, KipAssumption DEF Values
    <3>3. disk'.sections.values = [v EXCEPT !.kip = setting]
      <4>1. disk'.sections = [disk.sections EXCEPT !["values"] = [v EXCEPT !.kip = setting]]
        BY <3>1 DEF EditFile, Edit, Written
      <4>2. QED
        BY <3>2, <4>1, ValuesReplaced
    <3>4. QED
      BY <1>3, <3>2, <3>3, WholeValues
  <2>2. CASE EditFile("values", [v EXCEPT !.option = BadOption])
    <3>1. /\ [v EXCEPT !.option = BadOption] \in Values
          /\ [v EXCEPT !.option = BadOption].first = v.first
      BY <1>3, KipAssumption DEF Values
    <3>2. disk'.sections.values = [v EXCEPT !.option = BadOption]
      <4>1. disk'.sections = [disk.sections EXCEPT !["values"] = [v EXCEPT !.option = BadOption]]
        BY <2>2 DEF EditFile, Edit, Written
      <4>2. QED
        BY <3>1, <4>1, ValuesReplaced
    <3>3. QED
      BY <1>3, <3>1, <3>2, WholeValues, KipAssumption
  <2>3. CASE \E profiles \in Profiles : EditFile("profiles", profiles)
    <3>1. disk'.sections.values = v
      BY <1>3, <2>3 DEF EditFile, Edit, Written, Sections
    <3>2. QED
      BY <1>3, <3>1
  <2>4. QED
    BY <2>1, <2>2, <2>3 DEF EditLine
<1>5. AllWhole'
  BY <1>1, <1>2, <1>4 DEF AllWhole, Unlocked, kips, overlay
<1>6. TornKnown'
  BY <1>1, <1>2, <1>4 DEF TornKnown, Settled, Unlocked, Writing, kips, overlay
<1>7. QED
  BY <1>5, <1>6

\* The table is taken for the truth only when it is whole.
LEMMA TornAdopts == ASSUME KipInv, StoreInv, StoreInv', TornInv, BootAdopts PROVE TornInv'
<1>1. /\ pc["main"] = "decide" /\ loaded /\ Goto("main", "putting") /\ UNCHANGED <<kip, table, configValues, past, now, ui>>
      /\ BeginPut("main", "values", AdoptedValues, FALSE)
      /\ Checksum = mem.values.crc \/ mem.values.first
  BY DEF BootAdopts, KipInv, Control, kips, overlay
<1>2. ~Writing
  BY <1>1, NotWriting, WriterIs
<1>3. AdoptedValues \in Values /\ mem.values \in Values
  BY PutValuesTyped, StoreTyped DEF KipInv
<1>4. AdoptedValues.kip = kip.kip /\ AdoptedValues.crc = Checksum /\ ~AdoptedValues.first
  BY <1>3 DEF AdoptedValues, Values
<1>5. Clean => kip.kip # Torn
  <2>1. SUFFICES ASSUME Clean, kip.kip = Torn PROVE FALSE
    OBVIOUS
  <2>2. ~mem.values.first /\ Whole(mem.values) /\ kip.release \in Release
    BY <1>1, <1>2, <2>1 DEF TornInv, AllWhole, TornKnown, KipInv, TypeOK
  <2>3. mem.values.crc = <<kip.release, Torn, kip.speedo>> /\ kip.speedo \in Speedo
    BY <1>1, <2>1, <2>2 DEF Checksum, KipInv, TypeOK
  <2>4. QED
    BY <2>2, <2>3 DEF Whole
<1>6. Clean => Whole(AdoptedValues)
  BY <1>4, <1>5 DEF Whole, Checksum
<1>7. put'.sections.values = AdoptedValues
  BY <1>1, <1>3, ValuesReplaced DEF BeginPut
<1>8. Clean => (ui # Closed => Whole(ui))
  BY DEF TornInv, AllWhole
<1>9. QED
  BY <1>1, <1>5, <1>6, <1>7, <1>8, TornPuts, WriterIs

LEMMA TornSetsKip ==
  ASSUME KipInv, StoreInv, StoreInv', TornInv, NEW t \in Writer, SetKip(t)
  PROVE  TornInv'
<1>1. CASE FillTable(t) \/ FillRest(t)
  <2> SUFFICES ASSUME Clean' PROVE AllWhole' /\ TornKnown'
    BY DEF TornInv
  <2> UNCHANGED <<store, kip, configValues, past, ui>>
    BY <1>1 DEF FillTable, FillRest, overlay
  <2>1. Clean /\ AllWhole /\ TornKnown
    BY DEF TornInv, Clean
  <2>2. ~Writing
    BY <1>1, NotWriting DEF FillTable, FillRest, SetKipPc
  <2>3. \A u \in Writer : pc'[u] \in {"collect", "collected"} => pc[u] \in {"collect", "collected"}
    BY <1>1, GotoIs DEF FillTable, FillRest, KipInv
  <2>4. table'.kip # Torn
    <3>1. mem.values.kip # Torn /\ table.kip # Torn
      BY <2>1 DEF AllWhole, Whole
    <3>2. CASE FillTable(t)
      BY <3>1, <3>2 DEF FillTable
    <3>3. CASE FillRest(t)
      BY <3>1, <3>3, KipAssumption DEF FillRest, Mixtures
    <3>4. QED
      BY <1>1, <3>2, <3>3
  <2>5. AllWhole'
    BY <2>1, <2>4 DEF AllWhole, Unlocked, store
  <2>6. TornKnown'
    BY <2>1, <2>2, <2>3 DEF TornKnown, Settled, Unlocked, store
  <2>7. QED
    BY <2>5, <2>6
<1>2. CASE FillUnreadable(t)
  <2>1. ~Writing
    BY <1>2, NotWriting DEF FillUnreadable, SetKipPc
  <2>2. \A u \in Writer : pc'[u] \in {"collect", "collected"} => pc[u] \in {"collect", "collected"}
    BY <1>2, GotoIs DEF FillUnreadable, KipUnreadable, Done, KipInv
  <2>3. QED
    BY <1>2, <2>1, <2>2, TornStays DEF FillUnreadable, KipUnreadable, store, overlay
<1>3. CASE WriteTable(t)
  <2> SUFFICES ASSUME Clean' PROVE AllWhole' /\ TornKnown'
    BY DEF TornInv
  <2>1. Clean /\ ~disk.sections.values.first
    BY <1>3 DEF WriteTable, Clean
  <2>2. AllWhole /\ TornKnown
    BY <2>1 DEF TornInv
  <2>3. Writing' /\ \A u \in Writer : pc'[u] \notin {"collect", "collected"}
    BY <1>3, GotoIs, OtherWaits DEF WriteTable, KipInv, Writing, SetKipPc
  <2>4. AllWhole'
    BY <1>3, <2>2 DEF WriteTable, AllWhole, Unlocked, store, overlay
  <2>5. TornKnown'
    BY <1>3, <2>1, <2>3 DEF WriteTable, TornKnown, store
  <2>6. QED
    BY <2>4, <2>5
<1>4. CASE TableWritten(t)
  <2> SUFFICES ASSUME Clean' PROVE AllWhole' /\ TornKnown'
    BY DEF TornInv
  <2>1. AllWhole
    BY <1>4 DEF TornInv, Clean, TableWritten
  <2>2. kip'.kip = table.kip /\ table.kip # Torn
    BY <1>4, <2>1 DEF TableWritten, KipInv, TypeOK, AllWhole
  <2>3. AllWhole'
    BY <1>4, <2>1, KipAssumption DEF TableWritten, NoTable, AllWhole, Unlocked, store, overlay
  <2>4. QED
    BY <2>2, <2>3 DEF TornKnown
<1>5. CASE WriteFails(t)
  BY <1>5 DEF WriteFails, TornInv, Clean
<1>6. CASE Collect(t)
  <2> SUFFICES ASSUME Clean' PROVE AllWhole' /\ TornKnown'
    BY DEF TornInv
  <2> UNCHANGED <<store, kip, table, past, ui>> /\ configValues' = mem.values
    BY <1>6 DEF Collect, overlay
  <2>1. Clean /\ AllWhole /\ TornKnown
    BY DEF TornInv, Clean
  <2>2. ~Writing
    BY <1>6, NotWriting DEF Collect, SetKipPc
  <2>3. \A u \in Writer : pc'[u] \in {"collect", "collected"} => pc[u] \in {"collect", "collected"}
    BY <1>6, GotoIs DEF Collect, KipInv
  <2>4. AllWhole'
    BY <2>1 DEF AllWhole, Unlocked, store
  <2>5. TornKnown'
    BY <2>1, <2>2, <2>3 DEF TornKnown, Settled, Unlocked, store
  <2>6. QED
    BY <2>4, <2>5
<1>7. CASE SaveCollected(t)
  <2>1. /\ pc[t] = "collected" /\ Goto(t, "putting") /\ UNCHANGED <<kip, table, past, now, ui>>
        /\ BeginPut(t, "values", CollectedValues, FALSE) /\ configValues' = DefaultValues
    BY <1>7 DEF SaveCollected, overlay
  <2>2. CollectedValues \in Values /\ configValues \in Values
    BY PutValuesTyped DEF KipInv, TypeOK
  <2>3. CollectedValues.kip = configValues.kip /\ CollectedValues.crc = Checksum
    BY <2>2 DEF CollectedValues, Values
  <2>4. Clean => kip.kip # Torn /\ Whole(configValues) /\ (ui # Closed => Whole(ui))
    BY <2>1 DEF TornInv, AllWhole, TornKnown
  <2>5. Clean => Whole(CollectedValues)
    BY <2>3, <2>4 DEF Whole, Checksum
  <2>6. put'.sections.values = CollectedValues
    BY <2>1, <2>2, ValuesReplaced DEF BeginPut
  <2>7. QED
    BY <2>1, <2>4, <2>5, <2>6, TornPuts
<1>8. QED
  BY <1>1, <1>2, <1>3, <1>4, <1>5, <1>6, <1>7 DEF SetKip

LEMMA TornAborts ==
  ASSUME KipInv, StoreInv, TornInv, NEW t \in Writer, PutFails(t)
  PROVE  TornInv'
<1> SUFFICES ASSUME Clean' PROVE AllWhole' /\ TornKnown'
  BY DEF TornInv
<1>1. /\ AbortPut(t) /\ Goto(t, Done(t)) /\ UNCHANGED <<kip, table, configValues, past>>
      /\ ui' = ui \/ ui' = Closed
  BY DEF PutFails
<1>2. Clean /\ AllWhole /\ TornKnown /\ pc[t] = "putting"
  BY <1>1 DEF TornInv, Clean, AbortPut, KipInv, Control
<1>3. Settled /\ Unlocked' /\ UNCHANGED <<disk, mem, loaded>>
  BY <1>1 DEF AbortPut, Settled, Unlocked
<1>4. ~Writing
  BY <1>2, NotWriting DEF SetKipPc
<1>5. \A u \in Writer : pc'[u] \in {"collect", "collected"} => pc[u] \in {"collect", "collected"}
  BY <1>1, GotoIs DEF KipInv, Done
<1>6. AllWhole'
  BY <1>1, <1>2, <1>3 DEF AllWhole
<1>7. TornKnown'
  BY <1>1, <1>2, <1>3, <1>4, <1>5 DEF TornKnown
<1>8. QED
  BY <1>6, <1>7

LEMMA TornOverlay ==
  ASSUME KipInv, StoreInv, StoreInv', TornInv, Overlay PROVE TornInv'
<1>1. CASE OverlayFetch
  <2> SUFFICES ASSUME Clean' PROVE AllWhole' /\ TornKnown'
    BY DEF TornInv
  <2>1. Clean /\ AllWhole /\ TornKnown
    BY <1>1 DEF TornInv, Clean, OverlayFetch, kips
  <2>2. loaded /\ ~Writing
    BY <1>1, SetKipLoaded, NotWriting, WriterIs DEF OverlayFetch, OverlayReady, KipInv
  <2>3. AllWhole'
    BY <1>1, <2>1 DEF OverlayFetch, AllWhole, Unlocked, store, kips
  <2>4. TornKnown'
    BY <1>1, <2>1, <2>2 DEF OverlayFetch, TornKnown, Settled, Unlocked, store, kips
  <2>5. QED
    BY <2>3, <2>4
<1>2. ASSUME NEW option \in Option \ {BadOption}, SaveOption(option) PROVE TornInv'
  <2>1. /\ ui # Closed /\ ui \in Values /\ [ui EXCEPT !.option = option] \in Values
        /\ OverlaySave([ui EXCEPT !.option = option], FALSE)
    BY <1>2, SaveOptionIs DEF KipInv, TypeOK
  <2>2. [ui EXCEPT !.option = option].first = ui.first
    BY <2>1 DEF Values
  <2>3. Clean => Whole([ui EXCEPT !.option = option]) /\ (kip.kip = Torn /\ ~Writing => ~ui.first)
    BY <2>1, WholeValues DEF TornInv, AllWhole, TornKnown
  <2>4. QED
    BY <2>1, <2>2, <2>3, TornSaves
<1>3. ASSUME NEW setting \in Setting, SaveKip(setting) PROVE TornInv'
  <2>1. /\ ui # Closed /\ ui \in Values /\ [ui EXCEPT !.kip = setting] \in Values
        /\ OverlaySave([ui EXCEPT !.kip = setting], TRUE)
    BY <1>3, SaveKipIs DEF KipInv, TypeOK
  <2>2. [ui EXCEPT !.kip = setting].first = ui.first
    BY <2>1 DEF Values
  <2>3. Clean => Whole([ui EXCEPT !.kip = setting]) /\ (kip.kip = Torn /\ ~Writing => ~ui.first)
    BY <2>1, WholeValues DEF TornInv, AllWhole, TornKnown
  <2>4. QED
    BY <2>1, <2>2, <2>3, TornSaves
<1>4. ASSUME NEW profiles \in Profiles, OverlayProfiles(profiles) PROVE TornInv'
  <2>1. /\ pc["ipc"] = "idle" /\ BeginPut("ipc", "profiles", profiles, TRUE) /\ Goto("ipc", "putting")
        /\ UNCHANGED <<kip, table, configValues, past, now, ui>>
    BY <1>4 DEF OverlayProfiles, OverlayReady, kips, overlay
  <2>2. ~Writing
    BY <2>1, NotWriting, WriterIs
  <2>3. put'.sections.values = disk.sections.values
    BY <2>1, StoreTyped DEF BeginPut, Sections
  <2>4. Unlocked
    BY <2>1 DEF BeginPut
  <2>5. Clean => /\ Whole(disk.sections.values) /\ (ui' # Closed => Whole(ui'))
                 /\ kip.kip = Torn => ~disk.sections.values.first /\ (ui' # Closed => ~ui'.first)
    BY <2>1, <2>2, <2>4 DEF TornInv, AllWhole, TornKnown, Settled
  <2>6. QED
    BY <2>1, <2>3, <2>5, TornPuts, WriterIs
<1>5. QED
  BY <1>1, <1>2, <1>3, <1>4 DEF Overlay

LEMMA TornInvNext ==
  ASSUME KipInv, StoreInv, StoreInv', TornInv, [Next]_vars
  PROVE  TornInv'
<1>1. CASE BootRefresh \/ TickRefresh
  <2>1. pc' = pc \/ (pc["main"] = "refresh" /\ Goto("main", "decide"))
    BY <1>1 DEF BootRefresh, TickRefresh
  <2>2. (Writing => Writing') /\ \A t \in Writer : pc'[t] \in {"collect", "collected"} => pc[t] \in {"collect", "collected"}
    BY <2>1, GotoIs, WriterIs DEF KipInv, Writing
  <2>3. QED
    BY <1>1, <2>2, TornRefreshes DEF BootRefresh, TickRefresh, kips, overlay
<1>2. CASE BootUpdates \/ BootUnreadable \/ ServeSetKip \/ PowerOn
  <2>1. \E t \in Writer, to \in {"fill", "booted", "refresh"} : pc[t] # "writing" /\ Goto(t, to)
    BY <1>2, WriterIs
    DEF BootUpdates, BootUnreadable, KipUnreadable, ServeSetKip, PowerOn, On, Done
  <2>2. (Writing => Writing') /\ \A t \in Writer : pc'[t] \in {"collect", "collected"} => pc[t] \in {"collect", "collected"}
    BY <2>1, GotoIs DEF KipInv, Writing
  <2>3. QED
    BY <1>2, <2>2, TornStays
    DEF BootUpdates, BootUnreadable, KipUnreadable, ServeSetKip, PowerOn, store, kips, overlay
<1>3. CASE StartLoop
  <2>1. ~Writing /\ \A t \in Writer : pc'[t] \notin {"collect", "collected"}
    BY <1>3, NotWriting, WriterIs DEF StartLoop
  <2>2. QED
    BY <1>3, <2>1, TornStays DEF StartLoop, store, kips, overlay
<1>4. CASE TickChanged \/ ContextChanges \/ Clock \/ UNCHANGED vars
  BY <1>4, TornStays DEF TickChanged, ContextChanges, Clock, vars, Writing, store, kips, overlay
<1>5. CASE BootAdopts \/ Overlay \/ PowerOff \/ (\E r \in Release : InstallRelease(r)) \/ EditLine
  BY <1>5, TornAdopts, TornOverlay, TornOff, TornInstalls, TornEdits
<1>6. ASSUME NEW t \in Writer, SetKip(t) \/ PutStep(t) \/ PutFails(t) PROVE TornInv'
  BY <1>6, TornSetsKip, TornReturns, TornRemoves, TornAborts DEF PutStep
<1>7. QED
  BY <1>1, <1>2, <1>3, <1>4, <1>5, <1>6 DEF Next, Main, Boot, Environment

-----------------------------------------------------------------------------
(* The theorems.                                                           *)

LEMMA KInvInit == ASSUME Init PROVE KInv
<1>1. KipInv /\ StoreInv
  BY KipInvInit
<1>2. BootInv
  BY WriterIs DEF Init, BootInv, Booting, KipAgreesAfterBoot, SetKipPc
<1>3. Whole(disk.sections.values) /\ kip.kip # Torn
  <2>1. kip.kip \in Setting
    BY DEF Init
  <2>2. Applied.sections.values \in Values
    BY InitStores DEF Sections
  <2>3. Applied.sections.values.kip = kip.kip /\ Applied.sections.values.crc = Checksum
    BY DEF Applied, AppliedValues, Defaults, DefaultValues
  <2>4. Whole(Applied.sections.values)
    BY <2>1, <2>3, KipAssumption DEF Whole, Checksum
  <2>5. disk = Applied \/ disk.sections = Defaults
    BY FileTyped DEF Init, StoreInit
  <2>6. QED
    BY <2>1, <2>4, <2>5, WholeValues, KipAssumption
<1>4. AllWhole
  BY <1>3, WholeValues, KipAssumption DEF Init, StoreInit, NoTable, AllWhole, Unlocked
<1>5. TornKnown
  BY <1>3 DEF TornKnown
<1>6. QED
  BY <1>1, <1>2, <1>4, <1>5 DEF KInv, TornInv

LEMMA KInvNext == ASSUME KInv, [Next]_vars PROVE KInv'
<1>1. KipInv' /\ StoreInv'
  BY KipInvNext DEF KInv
<1>2. QED
  BY <1>1, BootInvNext, TornInvNext DEF KInv

\* Whatever boots, commands of the overlay, edits, releases, failures and power cuts
\* interleave, every step of kip.cpp and of config.cpp keeps the four invariants.
THEOREM KipInvariant == Spec => []KInv
<1>1. Init => KInv
  BY KInvInit
<1>2. KInv /\ [Next]_vars => KInv'
  BY KInvNext
<1>3. QED
  BY <1>1, <1>2, PTL DEF Spec

\* Every variable keeps its type: two SetKipData commands at most are ever due, as the
\* overlay waits for the thread that serves them.
THEOREM KipTypeCorrect == Spec => []TypeOK
<1>1. KInv => TypeOK
  BY DEF KInv, KipInv
<1>2. QED
  BY <1>1, KipInvariant, PTL

\* kip.cpp:136-190: for any releases and settings, when GetKipData has returned without
\* a notification of failure, hoc.kip and config.ini hold the same settings and the
\* checksum is that of the table, whatever crashes and releases came before.
THEOREM BootAgrees == Spec => []KipAgreesAfterBoot
<1>1. KInv => KipAgreesAfterBoot
  BY DEF KInv, BootInv
<1>2. QED
  BY <1>1, KipInvariant, PTL

\* kip.cpp:112, :159: a table cut short never becomes the user's settings, unless its
\* write failed, it was written before the first load was recorded or config.ini was
\* lost: config.ini is never a first load, and never has the checksum of a torn table.
THEOREM TornStaysOut == Spec => []TornNeverAdopted
<1>1. KInv => TornNeverAdopted
  <2>1. SUFFICES ASSUME KInv, Clean PROVE Fields.kip # Torn
    BY DEF TornNeverAdopted, Clean
  <2>2. Whole(disk.sections.values)
    BY <2>1 DEF KInv, TornInv, AllWhole
  <2>3. QED
    BY <2>1, <2>2, StoreTyped DEF KInv, Whole
<1>2. QED
  BY <1>1, KipInvariant, PTL

\* kip.cpp:160: a boot that finds the table of another release changes the table, never
\* the KIP settings a restart would find, at none of the steps of the write.
THEOREM UpdateKeepsThem == Spec => UpdateKeepsSettings
<1>1. KInv /\ KInv' /\ [Next]_vars =>
        (pc["main"] \in SetKipPc /\ pc'["main"] # "off" /\ "updated" \in told
         => Saved'.values.kip = Saved.values.kip)
  BY UpdateKeeps DEF KInv
<1>2. QED
  BY <1>1, KipInvariant, PTL DEF Spec, UpdateKeepsSettings

\* main.cpp, kip.cpp and the overlay use the store as config.cpp expects them to: they
\* save once it is loaded, one at a time, and only what its sections may hold.
THEOREM KipUsesStore == Spec => StoreSpec
<1>1. Init => \E file \in OldFile : StoreInit(file)
  BY InitStores
<1>2. KInv /\ [Next]_vars => [StoreNext]_storeVars
  BY StepStores DEF KInv, KipInv
<1>3. QED
  BY <1>1, <1>2, KipInvariant, PTL DEF Spec, StoreSpec, storeVars

\* So the whole system, two threads, the overlay and the user, keeps the promise of the
\* store: a save replaces one section and the others survive (config.cpp:252).
THEOREM KipKeepsPromise == Spec => StoreRefined
BY KipUsesStore, StoreImplementsPromise, PTL

\* And its memory is behind the file, without a reload to come, only by two writes of
\* one second (config.cpp:212).
THEOREM KipStaleWithinSecond == Spec => []StaleOnlyWithinSecond
BY KipUsesStore, StaleOnlyWithinSecondHolds, PTL
=============================================================================

----------------------------- MODULE KipSettings -----------------------------
(***************************************************************************)
(* The KIP settings (kip.cpp): the loader reads them from a table in       *)
(* hoc.kip, the user edits them in config.ini through the overlay.  At     *)
(* boot GetKipData copies the table into config.ini, or, when the checksum *)
(* in config.ini is not that of hoc.kip, SetKipData copies config.ini into *)
(* the table: a new release was installed.  Two threads run: main (boot,   *)
(* then the tick that reloads config.ini) and ipc, which serves the        *)
(* overlay.  The console may go off at any step.                           *)
(***************************************************************************)
EXTENDS ConfigStore

CONSTANTS
  Release,      \* releases of hoc.kip, which come with default settings
  Torn,         \* the settings of a table that was written in part
  Mixed,        \* settings of which some are from one choice and some from another
  Setting,      \* the KIP settings a user may choose
  Closed,       \* the overlay shows no settings
  MaxOff, MaxFail, MaxEvent, MaxSave \* how often: power off; failures; edits and changes of
                                     \* context; saves by the overlay

ASSUME KipAssumption ==
  /\ {Torn, Mixed} \subseteq KipField \ {DefaultKip} /\ Torn # Mixed
  /\ Setting \subseteq KipField \ {Torn, Mixed}
  /\ BadOption \in Option /\ Release # {} /\ Closed \notin Values
  /\ Crc = {NoCrc} \cup (Release \X KipField \X Speedo)
  /\ {MaxOff, MaxFail, MaxEvent, MaxSave} \subseteq Nat

VARIABLES
  kip,     \* hoc.kip: its release and the fields of its CustomizeTable, gpuSpeedo apart
  pc,      \* the threads
  table,   \* the fields SetKipData is about to write: one thread runs it at a time
  configValues, \* the values SetKipData has collected, to save them with the checksum
  ui,      \* the overlay: its configList, or Closed
  saving,  \* it saves a KIP setting, to send SetKipData when that has succeeded
  kipDue,  \* its SetKipData commands that are due; with two it waits for a thread
  told,    \* notifications of this run
  past,    \* what has ever gone wrong: see Mishap
  busy,    \* RefreshContext will find a change
  used     \* how much of each bound is used

kips == <<kip, table, configValues, told, past>>
overlay == <<ui, saving, kipDue>>
vars == <<store, now, kips, pc, overlay, busy, used>>

Failure == {"open", "write", "config"}
Notice == Failure \cup {"updated"}
\* A write of the table failed; the table was written before the first load was over;
\* config.ini was lost; SetKipData was cut short.
Mishap == {"write", "early", "lost", "cut"}
SetKipPc == {"fill", "filling", "write", "writing", "collect", "collected", "putting"}
On == pc["main"] # "off"
NoTable == [kip |-> DefaultKip, speedo |-> "none"]

TypeOK ==
  /\ StoreTypeOK
  /\ kip \in [release : Release, kip : KipField, speedo : Speedo]
  /\ pc["main"] \in {"off", "refresh", "decide", "booted", "tick"} \cup SetKipPc
  /\ pc["ipc"] \in {"off", "idle"} \cup SetKipPc
  /\ table \in [kip : KipField, speedo : Speedo] /\ configValues \in Values
  /\ ui \in Values \cup {Closed} /\ saving \in BOOLEAN /\ kipDue \in 0 .. 2
  /\ told \subseteq Notice /\ past \subseteq Mishap /\ busy \in BOOLEAN
  /\ used \in [off : 0 .. MaxOff, fail : 0 .. MaxFail, event : 0 .. MaxEvent, save : 0 .. MaxSave]

\* crc32::checksum_file, taken to tell any two tables apart.
Checksum == <<kip.release, kip.kip, kip.speedo>>

\* A console that is off: a new installation, or settings that were applied before.
AppliedValues ==
  [DefaultValues EXCEPT !.kip = kip.kip, !.speedo = kip.speedo, !.crc = Checksum, !.first = FALSE]
Applied == [sections |-> [Defaults EXCEPT !.values = AppliedValues], mtime |-> 1, again |-> FALSE]
Init ==
  /\ \E setting \in Setting :
       kip = [release |-> CHOOSE r \in Release : TRUE, kip |-> setting,
              speedo |-> IF setting = DefaultKip THEN "release" ELSE "fuse"]
  /\ StoreInit(IF kip.kip = DefaultKip THEN Missing ELSE Applied)
  /\ pc = [t \in Writer |-> "off"] /\ table = NoTable /\ configValues = DefaultValues
  /\ ui = Closed /\ saving = FALSE /\ kipDue = 0 /\ told = {} /\ past = {} /\ busy = TRUE
  /\ used = [off |-> 0, fail |-> 0, event |-> 0, save |-> 0]

Goto(t, to) == pc' = [pc EXCEPT ![t] = to]
Use(what, max) == used[what] < max /\ used' = [used EXCEPT ![what] = @ + 1]
\* Where SetKipData and the handlers return to.
Done(t) == IF t = "main" THEN "booted" ELSE "idle"

-----------------------------------------------------------------------------
(* The console and its user.                                               *)

Clock == now < MaxTime /\ now' = now + 1 /\ UNCHANGED <<store, kips, pc, overlay, busy, used>>

\* Power is cut, or the console is turned off: a table that was being written is torn.
PowerOff ==
  /\ On /\ Use("off", MaxOff) /\ StoreCrash
  /\ pc' = [t \in Writer |-> "off"]
  /\ ui' = Closed /\ saving' = FALSE /\ kipDue' = 0 /\ told' = {} /\ busy' = TRUE
  /\ table' = NoTable /\ configValues' = DefaultValues
  /\ past' = past \cup (IF put # Idle /\ put.stage # "copied" THEN {"lost"} ELSE {})
                  \cup (IF \E t \in Writer : pc[t] \in {"writing", "collect", "collected", "putting"}
                         THEN {"cut"} ELSE {})
  /\ UNCHANGED <<now, kip>>

PowerOn ==
  /\ ~On /\ Goto("main", "refresh")
  /\ UNCHANGED <<store, now, kips, overlay, busy, used>>

\* With the console off, the files of a new release replace hoc.kip.
InstallRelease(r) ==
  /\ ~On /\ r # kip.release
  /\ kip' = [release |-> r, kip |-> DefaultKip, speedo |-> "release"]
  /\ UNCHANGED <<store, now, table, configValues, told, past, pc, overlay, busy, used>>

\* An editor changes one line, at the speed of a user: never in the middle of a boot.
EditFile(section, content) ==
  /\ pc["main"] \in {"off", "tick"} /\ Use("event", MaxEvent)
  /\ Edit(section, content)
  /\ UNCHANGED <<now, kips, pc, overlay, busy>>
EditLine ==
  LET values == disk.sections.values
  IN \/ \E setting \in Setting : EditFile("values", [values EXCEPT !.kip = setting])
     \/ EditFile("values", [values EXCEPT !.option = BadOption])
     \/ \E profiles \in Profiles : EditFile("profiles", profiles)

ContextChanges ==
  /\ pc["main"] = "tick" /\ ~busy /\ Use("event", MaxEvent) /\ busy' = TRUE
  /\ UNCHANGED <<store, now, kips, pc, overlay>>

-----------------------------------------------------------------------------
(* kip.cpp                                                                 *)

\* The file cannot be opened or read: nothing is done.
KipUnreadable(t) ==
  /\ Use("fail", MaxFail) /\ told' = told \cup {"open"} /\ Goto(t, Done(t))
  /\ UNCHANGED <<store, now, kip, table, configValues, past, overlay, busy>>

\* GetKipData starts with config::Refresh, which loads: it is the first of this run.
BootRefresh ==
  /\ pc["main"] = "refresh" /\ Refresh /\ Goto("main", "decide")
  /\ UNCHANGED <<now, kips, overlay, busy, used>>

\* The checksum is another one: a new release, or a write that was cut short.
BootUpdates ==
  /\ pc["main"] = "decide"
  /\ Checksum # mem.values.crc /\ ~mem.values.first
  /\ told' = told \cup {"updated"} /\ Goto("main", "fill")
  /\ UNCHANGED <<store, now, kip, table, configValues, past, overlay, busy, used>>

\* Otherwise the table is what holds: it is copied into config.ini, but for gpuSpeedo,
\* which is read from the fuses (kip.cpp:214).
AdoptedWithoutChecksum == [mem.values EXCEPT !.kip = kip.kip, !.speedo = "fuse", !.first = FALSE]
AdoptedValues ==
  [mem.values EXCEPT !.kip = kip.kip, !.speedo = "fuse", !.crc = Checksum, !.first = FALSE]
BootAdoptsAnyTable ==
  /\ pc["main"] = "decide"
  /\ BeginPut("main", "values", AdoptedValues, FALSE) /\ Goto("main", "putting")
  /\ UNCHANGED <<now, kips, overlay, busy, used>>
BootAdopts ==
  /\ pc["main"] = "decide"
  /\ Checksum = mem.values.crc \/ mem.values.first
  /\ BeginPut("main", "values", AdoptedValues, FALSE) /\ Goto("main", "putting")
  /\ UNCHANGED <<now, kips, overlay, busy, used>>
BootUnreadable == pc["main"] = "decide" /\ KipUnreadable("main")

\* SetKipData: the fields come from the memory, one GetConfigValue each, which takes
\* the mutex and gives it back: when the memory is loaded again in between, some fields
\* are of the old settings and some of the new.
Mixtures(some, others) == IF some = others THEN {some} ELSE {some, others, Mixed}
FillTable(t) ==
  /\ pc[t] = "fill" /\ Unlocked
  /\ table' = [kip |-> mem.values.kip, speedo |-> mem.values.speedo] /\ Goto(t, "filling")
  /\ UNCHANGED <<store, now, kip, configValues, told, past, overlay, busy, used>>
FillRest(t) ==
  /\ pc[t] = "filling" /\ Unlocked
  /\ table' \in [kip : Mixtures(table.kip, mem.values.kip), speedo : {table.speedo, mem.values.speedo}]
  /\ \E to \in {"filling", "write"} : Goto(t, to)
  /\ UNCHANGED <<store, now, kip, configValues, told, past, overlay, busy, used>>
FillUnreadable(t) == pc[t] = "fill" /\ KipUnreadable(t)

\* the table is written in place,
WriteTable(t) ==
  /\ pc[t] = "write" /\ Goto(t, "writing")
  /\ kip' = [kip EXCEPT !.kip = Torn]
  /\ past' = IF disk.sections.values.first THEN past \cup {"early"} ELSE past
  /\ UNCHANGED <<store, now, table, configValues, told, overlay, busy, used>>
TableWritten(t) ==
  /\ pc[t] = "writing" /\ Goto(t, "collect")
  /\ kip' = [kip EXCEPT !.kip = table.kip, !.speedo = table.speedo] /\ table' = NoTable
  /\ UNCHANGED <<store, now, configValues, told, past, overlay, busy, used>>
\* and when that fails, a notification is all that is done.
WriteFails(t) ==
  /\ pc[t] = "writing" /\ Use("fail", MaxFail) /\ Goto(t, "collect")
  /\ told' = told \cup {"write"} /\ past' = past \cup {"write"} /\ table' = NoTable
  /\ UNCHANGED <<store, now, kip, configValues, overlay, busy>>

\* The checksum goes to config.ini with the values of the memory, which keeps the old
\* one: GetConfigValues, and then SetConfigValues.
Collect(t) ==
  /\ pc[t] = "collect" /\ Unlocked /\ configValues' = mem.values /\ Goto(t, "collected")
  /\ UNCHANGED <<store, now, kip, table, told, past, overlay, busy, used>>
CollectedFromTable == [configValues EXCEPT !.kip = kip.kip, !.crc = Checksum]
CollectedValues == [configValues EXCEPT !.crc = Checksum]
SaveCollected(t) ==
  /\ pc[t] = "collected" /\ Goto(t, "putting")
  /\ BeginPut(t, "values", CollectedValues, FALSE) /\ configValues' = DefaultValues
  /\ UNCHANGED <<now, kip, table, told, past, overlay, busy, used>>

\* config.ini cannot be written: the call returns false and nothing has changed.  The
\* user is told, the overlay closes its page.
PutFails(t) ==
  /\ AbortPut(t) /\ Use("fail", MaxFail) /\ Goto(t, Done(t))
  /\ told' = told \cup {"config"}
  /\ ui' = (IF put.immediate THEN Closed ELSE ui) /\ saving' = (saving /\ ~put.immediate)
  /\ UNCHANGED <<now, kip, table, configValues, past, kipDue, busy>>
PutRemoves(t) ==
  /\ RemoveOld(t)
  /\ UNCHANGED <<now, kips, pc, overlay, busy, used>>
\* A KIP setting that was saved is followed by SetKipData.
PutReturns(t) ==
  /\ EndPut(t) /\ Goto(t, Done(t))
  /\ kipDue' = (IF saving /\ put.immediate THEN kipDue + 1 ELSE kipDue)
  /\ saving' = (saving /\ ~put.immediate)
  /\ UNCHANGED <<now, kips, ui, busy, used>>

-----------------------------------------------------------------------------
(* main.cpp: the service starts and the loop ticks.                        *)

StartLoop ==
  /\ pc["main"] = "booted"
  /\ pc' = [main |-> "tick", ipc |-> "idle"]
  /\ UNCHANGED <<store, now, kips, overlay, busy, used>>

\* Tick: RefreshContext() || config::Refresh().
TickChanged ==
  /\ pc["main"] = "tick" /\ busy /\ busy' = FALSE
  /\ UNCHANGED <<store, now, kips, pc, overlay, used>>
TickRefresh ==
  /\ pc["main"] = "tick" /\ ~busy /\ Refresh
  /\ UNCHANGED <<now, kips, pc, overlay, busy, used>>

-----------------------------------------------------------------------------
(* The overlay, and the thread that serves it one command at a time.       *)

\* Opening a page, and every second: GetConfigValues.
OverlayReady == pc["ipc"] = "idle" /\ kipDue < 2
OverlayFetch ==
  /\ OverlayReady /\ Unlocked /\ ui' = mem.values
  /\ UNCHANGED <<store, now, kips, pc, saving, kipDue, busy, used>>

\* One value of the list is changed and the whole list saved.  The list may be older
\* than what GetKipData wrote, and say that this is the first load.
OverlaySave(list, isKip) ==
  /\ OverlayReady /\ list # ui /\ Use("save", MaxSave)
  /\ BeginPut("ipc", "values", Valid(list), TRUE)
  /\ ui' = list /\ saving' = isKip /\ Goto("ipc", "putting")
  /\ UNCHANGED <<now, kips, kipDue, busy>>
SaveOption(option) == ui # Closed /\ OverlaySave([ui EXCEPT !.option = option], FALSE)
SaveKip(setting) == ui # Closed /\ OverlaySave([ui EXCEPT !.kip = setting], TRUE)

OverlayProfiles(profiles) ==
  /\ OverlayReady /\ ui # Closed /\ Use("save", MaxSave)
  /\ BeginPut("ipc", "profiles", profiles, TRUE) /\ Goto("ipc", "putting")
  /\ UNCHANGED <<now, kips, overlay, busy>>

\* kipDataThreadFunc: the SetKipData command.
ServeSetKipAgain ==
  /\ pc["ipc"] = "idle"
  /\ kipDue' = kipDue - 1 /\ Goto("ipc", "fill")
  /\ UNCHANGED <<store, now, kips, ui, saving, busy, used>>
ServeSetKip ==
  /\ pc["ipc"] = "idle" /\ kipDue > 0
  /\ kipDue' = kipDue - 1 /\ Goto("ipc", "fill")
  /\ UNCHANGED <<store, now, kips, ui, saving, busy, used>>

-----------------------------------------------------------------------------
SetKip(t) ==
  \/ FillTable(t) \/ FillRest(t) \/ FillUnreadable(t)
  \/ WriteTable(t) \/ TableWritten(t) \/ WriteFails(t)
  \/ Collect(t) \/ SaveCollected(t)
PutStep(t) == PutRemoves(t) \/ PutReturns(t)
Boot == BootRefresh \/ BootUpdates \/ BootAdopts \/ BootUnreadable
Main == Boot \/ StartLoop \/ TickChanged \/ TickRefresh
Overlay ==
  \/ OverlayFetch
  \/ \E option \in Option \ {BadOption} : SaveOption(option)
  \/ \E setting \in Setting : SaveKip(setting)
  \/ \E profiles \in Profiles : OverlayProfiles(profiles)
Environment ==
  Clock \/ PowerOff \/ (\E r \in Release : InstallRelease(r)) \/ EditLine \/ ContextChanges

Next ==
  \/ Main \/ Overlay \/ ServeSetKip \/ PowerOn \/ Environment
  \/ \E t \in Writer : SetKip(t) \/ PutStep(t) \/ PutFails(t)

Spec == Init /\ [][Next]_vars

-----------------------------------------------------------------------------
Fields == Read(disk.sections).values

\* When GetKipData has returned, the loader's table and config.ini hold the same
\* settings and the checksum is that of the table, whatever crashes and releases came
\* before, or the user was told: a table that was cut short has been written again. Of
\* gpuSpeedo, config.ini says what the fuses say unless the table was just written from
\* it (kip.cpp:214): a table that was adopted may hold another one. custRev, which is
\* written to the table (kip.cpp:53) and never read back, is not one of the settings.
KipAgreesAfterBoot ==
  pc["main"] = "booted" /\ told \cap Failure = {} =>
    /\ Fields.kip = kip.kip /\ Fields.crc = Checksum
    /\ Fields.speedo = IF "updated" \in told THEN kip.speedo ELSE "fuse"

\* kip.cpp:53-110 reads the settings one by one while the other thread may load them
\* again. Nothing but an edit by hand makes that a mixture in the table the loader
\* trusts: what the overlay saves is in the memory before the fields are read.
MixedOnlyByHand == used.event = 0 => kip.kip # Mixed

\* A table that was cut short never becomes the user's settings, unless its write
\* failed with a notification (kip.cpp:112 stores the checksum all the same), it was
\* written before the first load was recorded, or config.ini was lost: kip.cpp:159
\* takes the table for the truth on a first load.
TornNeverAdopted == past \subseteq {"cut"} => Fields.kip # Torn

\* A boot that finds another table keeps the user's settings: it changes the table,
\* to what config.ini says.
UpdateKeepsSettings ==
  [][pc["main"] \in SetKipPc /\ pc'["main"] # "off" /\ "updated" \in told
     => Saved'.values.kip = Saved.values.kip]_vars

\* "KIP has been updated" (kip.cpp:160) is said of the table of another release, or of
\* one whose last write was cut short or failed, and of no other.
UpdateIsNews ==
  [][pc["main"] = "decide" /\ pc'["main"] = "fill" => Release # {kip.release} \/ past # {}]_vars
=============================================================================

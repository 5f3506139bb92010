----------------------------- MODULE ConfigStore -----------------------------
(***************************************************************************)
(* The configuration store: config.ini on the card, its copy in memory and *)
(* the writes of config.cpp, which go through minIni's ini_putsection: the *)
(* file is copied with one section replaced, removed, and the copy renamed.*)
(* gConfigMutex is held while `put` is not Idle; the card is all that a     *)
(* crash leaves behind.                                                     *)
(***************************************************************************)
EXTENDS Naturals

CONSTANTS
  KipField, DefaultKip,   \* the KIP settings, taken as one value, and their defaults
  Option, BadOption, DefaultOption, \* the other settings; one that is not valid
  Crc, NoCrc,             \* checksums of hoc.kip; 0, the default
  Profiles, NoProfiles,   \* what the section of a title holds; no section
  MaxTime                 \* bound on the clock, in seconds

ASSUME StoreAssumption ==
  /\ DefaultKip \in KipField /\ NoCrc \in Crc /\ NoProfiles \in Profiles
  /\ DefaultOption \in Option /\ BadOption # DefaultOption
  /\ MaxTime \in Nat \ {0, 1}

VARIABLES
  disk,     \* config.ini, or Missing
  now,      \* the clock that stamps files, in seconds
  mem,      \* configValues and gProfileMHzMap
  loaded, gMtime, \* gLoaded, gMtime
  put       \* the ini_putsection in progress, or Idle

store == <<disk, mem, loaded, gMtime, put>>

\* The value of gpuSpeedo, the one KIP setting that does not come from hoc.kip: unset,
\* that of a release, or that of the fuses.
Speedo == {"none", "release", "fuse"}
Values == [kip : KipField, speedo : Speedo, option : Option, crc : Crc, first : BOOLEAN]
Content == [values |-> Values, profiles |-> Profiles]
Sections == [values : Values, profiles : Profiles]

\* hocclkDefaultConfigValue, for every value.
DefaultValues ==
  [kip |-> DefaultKip, speedo |-> "none", option |-> DefaultOption, crc |-> NoCrc, first |-> TRUE]
Defaults == [values |-> DefaultValues, profiles |-> NoProfiles]

\* An invalid value is not written, and is read as the default.
Valid(values) == IF values.option = BadOption THEN [values EXCEPT !.option = DefaultOption] ELSE values
Read(sections) == [sections EXCEPT !.values = Valid(@)]

\* `again`: the file took the place of another one of the same second.
Missing == [sections |-> Defaults, mtime |-> 0, again |-> FALSE]
File == {Missing} \cup [sections : Sections, mtime : 1 .. MaxTime, again : BOOLEAN]
OldFile == {Missing} \cup [sections : Sections, mtime : {1}, again : {FALSE}]
Written(sections, over) == [sections |-> sections, mtime |-> now, again |-> over = now]

\* `created`: there was no file; `over`: the modification time of the one replaced.
Writer == {"main", "ipc"}
Idle == [by |-> "nobody"]
Put == {Idle} \cup
  [by : Writer, stage : {"copied", "removed", "created"}, section : DOMAIN Content,
   sections : Sections, over : 0 .. MaxTime, immediate : BOOLEAN]
Putting(t) == put.by = t
Unlocked == put = Idle

StoreTypeOK ==
  /\ disk \in File /\ now \in 1 .. MaxTime
  /\ mem \in Sections /\ loaded \in BOOLEAN /\ gMtime \in 0 .. MaxTime
  /\ put \in Put

\* config::Initialize, and what a restart leaves of the store.
StoreInit(file) ==
  /\ disk = file /\ now = 2
  /\ mem = Defaults /\ loaded = FALSE /\ gMtime = 0 /\ put = Idle
StoreCrash ==
  /\ mem' = Defaults /\ loaded' = FALSE /\ gMtime' = 0 /\ put' = Idle
  /\ UNCHANGED disk

\* Refresh: the file is loaded again when its time is another one than that read.
RefreshWithoutMutex ==
  /\ IF ~loaded \/ gMtime # disk.mtime
     THEN mem' = Read(disk.sections) /\ gMtime' = disk.mtime /\ loaded' = TRUE
     ELSE UNCHANGED <<mem, gMtime, loaded>>
  /\ UNCHANGED <<disk, put>>
Refresh ==
  /\ Unlocked
  /\ IF ~loaded \/ gMtime # disk.mtime
     THEN mem' = Read(disk.sections) /\ gMtime' = disk.mtime /\ loaded' = TRUE
     ELSE UNCHANGED <<mem, gMtime, loaded>>
  /\ UNCHANGED <<disk, put>>

\* SetConfigValues, SetProfiles: the mutex is taken, the file copied with the section
\* replaced; when there is no file, an empty one is created.
BeginPut(t, section, content, immediate) ==
  LET replaced == [disk.sections EXCEPT ![section] = content]
      stage == IF disk = Missing THEN "created" ELSE "copied"
  IN /\ Unlocked
     /\ put' = [by |-> t, stage |-> stage, section |-> section, sections |-> replaced,
                over |-> disk.mtime, immediate |-> immediate]
     /\ disk' = IF disk = Missing THEN Written(Defaults, 0) ELSE disk
     /\ UNCHANGED <<mem, loaded, gMtime>>

\* close_rename removes the old file first.
RemoveOld(t) ==
  /\ Putting(t) /\ put.stage = "copied"
  /\ disk' = Missing
  /\ put' = [put EXCEPT !.stage = "removed"]
  /\ UNCHANGED <<mem, loaded, gMtime>>

\* The copy takes its name; an immediate write changes the memory as well.
EndPutKnowsTime(t) ==
  /\ Putting(t) /\ put.stage \in {"removed", "created"}
  /\ disk' = Written(put.sections, put.over)
  /\ mem' = IF put.immediate
            THEN [mem EXCEPT ![put.section] = Read(put.sections)[put.section]] ELSE mem
  /\ put' = Idle /\ gMtime' = now
  /\ UNCHANGED loaded
EndPutLeavesMemory(t) ==
  /\ Putting(t) /\ put.stage \in {"removed", "created"}
  /\ disk' = Written(put.sections, put.over)
  /\ put' = Idle
  /\ UNCHANGED <<mem, loaded, gMtime>>
EndPut(t) ==
  /\ Putting(t) /\ put.stage \in {"removed", "created"}
  /\ disk' = Written(put.sections, put.over)
  /\ mem' = IF put.immediate
            THEN [mem EXCEPT ![put.section] = Read(put.sections)[put.section]] ELSE mem
  /\ put' = Idle
  /\ UNCHANGED <<loaded, gMtime>>

\* ini_putsection returns 0 when it cannot open the copy, and so does the caller.
AbortPut(t) ==
  /\ Putting(t) /\ put.stage = "copied"
  /\ put' = Idle
  /\ UNCHANGED <<disk, mem, loaded, gMtime>>

\* Somebody else writes the file: an editor on the console, a file transfer.
Edit(section, content) ==
  /\ Unlocked /\ disk # Missing
  /\ disk' = Written([disk.sections EXCEPT ![section] = content], disk.mtime)
  /\ UNCHANGED <<mem, loaded, gMtime, put>>

\* Everything that may happen to the store; sections are saved once it is loaded.
SaveSection(t) ==
  loaded /\ \E s \in DOMAIN Content : \E c \in Content[s], i \in BOOLEAN : BeginPut(t, s, c, i)
EditSection == \E s \in DOMAIN Content : \E c \in Content[s] : Edit(s, c)
StoreStep ==
  \/ Refresh \/ StoreCrash \/ EditSection
  \/ \E t \in Writer : SaveSection(t) \/ RemoveOld(t) \/ EndPut(t) \/ AbortPut(t)
StoreNext == (StoreStep /\ UNCHANGED now) \/ (now < MaxTime /\ now' = now + 1 /\ UNCHANGED store)
StoreSpec == (\E file \in OldFile : StoreInit(file)) /\ [][StoreNext]_<<store, now>>

-----------------------------------------------------------------------------
\* What a restart would find: from the removal on, the copy is what is saved.
Saved == Read(IF ~Unlocked /\ put.stage # "copied" THEN put.sections ELSE disk.sections)

Promise == INSTANCE SettingsStore WITH
  Content <- Content, Defaults <- Defaults, saved <- Saved, view <- mem, open <- loaded

\* The store keeps its promise: saves replace one section, the others survive, and
\* what the program works with was saved, whatever writes and reloads interleave.
StoreRefined == Promise!Spec

\* config.cpp:212 compares times of whole seconds: memory that is behind the file,
\* with no reload to come, is so only by two writes of one second.
StaleOnlyWithinSecond ==
  Unlocked /\ loaded /\ gMtime = disk.mtime /\ mem # Read(disk.sections) => disk.again
=============================================================================

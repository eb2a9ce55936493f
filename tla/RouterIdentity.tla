--------------------------- MODULE RouterIdentity ---------------------------
(***************************************************************************)
(* The router id by which Home Assistant recognises a router (config.go):    *)
(* loadConfig reads config.json at every start, fills in what is missing and *)
(* saves what it generated through a temporary file and a rename, before     *)
(* main starts the server that announces the id. The process may die between *)
(* any two steps.                                                           *)
(***************************************************************************)
EXTENDS Naturals, FiniteSets

CONSTANTS
  Ids,    \* the ids that genToken will produce, all different
  Polls   \* values an operator gives PollIntervalSeconds

ASSUME IdsAssumption == "" \notin Ids /\ "none" \notin Ids
ASSUME PollsAssumption == Polls \subseteq Nat

VARIABLES
  file,      \* config.json: absent, not JSON, or its contents
  tmp,       \* config.json.tmp
  pc,        \* where the process is; "off" when there is none
  gConfig,   \* the configuration in memory
  generated, \* ids that were generated so far
  announced, \* history: the id last served to Home Assistant
  saveFailed \* history: a save has failed

vars == <<file, tmp, pc, gConfig, generated, announced, saveFailed>>

DefaultPoll == 10
Contents == [id : Ids \union {""}, poll : Polls \union {DefaultPoll}]
NoFile == [absent |-> TRUE]
NotJSON == [absent |-> FALSE]
Stored == Contents \union {NoFile, NotJSON}
Blank == [id |-> "", poll |-> DefaultPoll]

TypeOK ==
  /\ file \in Stored
  /\ tmp \in Stored
  /\ pc \in {"off", "read", "fill", "write", "fillTmp", "rename", "serving"}
  /\ gConfig \in Contents
  /\ generated \in SUBSET Ids
  /\ announced \in Ids \union {"none"}
  /\ saveFailed \in BOOLEAN

Init ==
  /\ file = NoFile /\ tmp = NoFile
  /\ pc = "off"
  /\ gConfig = Blank
  /\ generated = {}
  /\ announced = "none"
  /\ saveFailed = FALSE

-----------------------------------------------------------------------------
(* The operator, and crashes *)

\* The operator edits config.json, leaving the generated id as it is and the file in JSON:
\* one that cannot be parsed is started with as if it were not there (`_ = json.Unmarshal`).
Edit(poll) ==
  /\ file' = [id |-> IF file = NoFile THEN "" ELSE file.id, poll |-> poll]
  /\ UNCHANGED <<tmp, pc, gConfig, generated, announced, saveFailed>>

Crash ==
  /\ pc # "off"
  /\ pc' = "off"
  /\ UNCHANGED <<file, tmp, gConfig, generated, announced, saveFailed>>

-----------------------------------------------------------------------------
(* main and loadConfig *)

Start ==
  /\ pc = "off"
  /\ gConfig' = Blank
  /\ pc' = "read"
  /\ UNCHANGED <<file, tmp, generated, announced, saveFailed>>

\* A file that is missing or is not JSON leaves the defaults in place.
ReadConfig ==
  /\ pc = "read"
  /\ gConfig' = IF file \in {NoFile, NotJSON} THEN gConfig ELSE file
  /\ pc' = "fill"
  /\ UNCHANGED <<file, tmp, generated, announced, saveFailed>>

\* Faulty variant of Dirty: a generated id is not a reason to save.
DirtyIfNoInterval(config) == config.poll = 0
\* What makes the configuration dirty.
Dirty(config) == config.poll = 0 \/ config.id = ""

\* Faulty variant of IdFor: no id is generated.
OwnId(config) == {config.id}
\* The id a start goes on with: its own, or a new one from genToken.
IdFor(config) == IF config.id = "" THEN Ids \ generated ELSE {config.id}

FillDefaults ==
  /\ pc = "fill"
  /\ \E id \in IdFor(gConfig) :
       /\ gConfig' = [id |-> id, poll |-> IF gConfig.poll = 0 THEN DefaultPoll
                                                              ELSE gConfig.poll]
       /\ generated' = generated \union {id}
  /\ pc' = IF Dirty(gConfig) THEN "write" ELSE "serving"
  /\ UNCHANGED <<file, tmp, announced, saveFailed>>

\* Faulty variant of TruncateTmp: a save in place, with no temporary file.
TruncateFile ==
  /\ pc = "write"
  /\ file' = NotJSON
  /\ pc' = "fillTmp"
  /\ UNCHANGED <<tmp, gConfig, generated, announced, saveFailed>>

\* os.WriteFile into the temporary file: it is truncated, then filled.
TruncateTmp ==
  /\ pc = "write"
  /\ tmp' = NotJSON
  /\ pc' = "fillTmp"
  /\ UNCHANGED <<file, gConfig, generated, announced, saveFailed>>

FillTmp ==
  /\ pc = "fillTmp"
  /\ tmp' = gConfig
  /\ pc' = "rename"
  /\ UNCHANGED <<file, gConfig, generated, announced, saveFailed>>

Rename ==
  /\ pc = "rename"
  /\ file' = tmp /\ tmp' = NoFile
  /\ pc' = "serving"
  /\ UNCHANGED <<gConfig, generated, announced, saveFailed>>

\* saveConfigLocked ignores its errors: the process goes on with what it has.
WriteFails ==
  /\ pc \in {"write", "fillTmp"}
  /\ pc' = "serving"
  /\ saveFailed' = TRUE
  /\ UNCHANGED <<file, tmp, gConfig, generated, announced>>

RenameFails ==
  /\ pc = "rename"
  /\ pc' = "serving"
  /\ saveFailed' = TRUE
  /\ UNCHANGED <<file, tmp, gConfig, generated, announced>>

\* handleProbe, handleStaticDiscovery or the mDNS beacon answers Home Assistant.
Announce ==
  /\ pc = "serving"
  /\ announced' = gConfig.id
  /\ UNCHANGED <<file, tmp, pc, gConfig, generated, saveFailed>>

Next ==
  \/ \E poll \in Polls : Edit(poll)
  \/ Crash
  \/ Start \/ ReadConfig \/ FillDefaults
  \/ TruncateTmp \/ FillTmp \/ Rename \/ WriteFails \/ RenameFails
  \/ Announce

Spec == Init /\ [][Next]_vars

-----------------------------------------------------------------------------
(* Properties *)

\* Wherever the process dies and whichever save fails, config.json is either what
\* it was or what was being saved, never part of it: no restart finds it cut short.
NeverTorn == file # NotJSON

\* "RouterID is a stable unique id generated on first startup" (config.go): once
\* Home Assistant was told an id, it is never told another one, through crashes,
\* restarts and edits and wherever the process dies, as long as no save has failed.
AnnouncedOnceIfSaved ==
  [][announced # "none" /\ ~saveFailed => announced' = announced]_vars
=============================================================================

------------------------ MODULE RouterIdentity_proofs ------------------------
(***************************************************************************)
(* Proofs about RouterIdentity: the configuration is never torn, whatever   *)
(* fails; and the announced id never changes, while no save has failed.     *)
(* Both for any ids, any intervals, and crashes and edits at any step.      *)
(***************************************************************************)
EXTENDS RouterIdentity, TLAPS

USE IdsAssumption, PollsAssumption

\* The three kinds of file contents are told apart.
LEMMA ContentsAreJSON ==
  /\ NotJSON # NoFile
  /\ \A c \in Contents : c # NotJSON /\ c # NoFile
<1>1. NotJSON.absent = FALSE /\ NoFile.absent = TRUE BY DEF NotJSON, NoFile
<1>2. ASSUME NEW c \in Contents PROVE c # NotJSON /\ c # NoFile
  <2>1. DOMAIN c = {"id", "poll"} BY <1>2 DEF Contents
  <2>2. DOMAIN NotJSON = {"absent"} /\ DOMAIN NoFile = {"absent"}
    BY DEF NotJSON, NoFile
  <2> QED BY <2>1, <2>2
<1> QED BY <1>1, <1>2

LEMMA BlankIsContents == Blank \in Contents
BY DEF Blank, Contents, DefaultPoll

-----------------------------------------------------------------------------
(* Types and NeverTorn go together: an edit keeps the id of the file it finds,   *)
(* a rename moves what is in the temporary file, an id is announced once filled. *)

TmpIsWhole == pc = "rename" => tmp \in Contents

HasId == pc \in {"write", "fillTmp", "rename", "serving"} => gConfig.id \in Ids

WholeInv == TypeOK /\ NeverTorn /\ TmpIsWhole /\ HasId

LEMMA WholeInit == Init => WholeInv
<1> SUFFICES ASSUME Init PROVE WholeInv
  OBVIOUS
<1>1. NeverTorn BY ContentsAreJSON DEF Init, NeverTorn
<1>2. TypeOK BY BlankIsContents DEF Init, TypeOK, Stored
<1>3. TmpIsWhole /\ HasId BY DEF Init, TmpIsWhole, HasId
<1> QED BY <1>1, <1>2, <1>3 DEF WholeInv

LEMMA WholeEdit ==
  ASSUME WholeInv, NEW poll \in Polls, Edit(poll)
  PROVE  WholeInv' /\ file' \in Contents
<1>1. file \in Contents \union {NoFile}
  BY DEF WholeInv, TypeOK, Stored, NeverTorn
<1>2. file' \in Contents
  <2>1. CASE file = NoFile BY <2>1 DEF Edit, Contents
  <2>2. CASE file # NoFile
    <3>1. file \in Contents BY <1>1, <2>2
    <3>2. file.id \in Ids \union {""} BY <3>1 DEF Contents
    <3> QED BY <2>2, <3>2 DEF Edit, Contents
  <2> QED BY <2>1, <2>2
<1>3. NeverTorn' BY <1>2, ContentsAreJSON DEF NeverTorn
<1>4. TypeOK' BY <1>2 DEF WholeInv, TypeOK, Stored, Edit
<1>5. TmpIsWhole' /\ HasId' BY DEF WholeInv, TmpIsWhole, HasId, Edit
<1> QED BY <1>2, <1>3, <1>4, <1>5 DEF WholeInv

LEMMA WholeFill == WholeInv /\ FillDefaults => WholeInv'
<1> SUFFICES ASSUME WholeInv, FillDefaults PROVE WholeInv'
  OBVIOUS
<1>1. PICK id \in IdFor(gConfig) :
        /\ gConfig' = [id |-> id, poll |-> IF gConfig.poll = 0 THEN DefaultPoll
                                                              ELSE gConfig.poll]
        /\ generated' = generated \union {id}
  BY DEF FillDefaults
<1>2. gConfig.id \in Ids \union {""} /\ gConfig.poll \in Polls \union {DefaultPoll}
  BY DEF WholeInv, TypeOK, Contents
<1>3. id \in Ids BY <1>2 DEF IdFor
<1>4. gConfig' \in Contents BY <1>1, <1>2, <1>3 DEF Contents
<1>5. generated' \in SUBSET Ids BY <1>1, <1>3 DEF WholeInv, TypeOK
<1>6. pc' \in {"write", "serving"} BY DEF FillDefaults
<1>7. HasId' BY <1>1, <1>3 DEF HasId
<1> QED BY <1>4, <1>5, <1>6, <1>7
        DEF WholeInv, TypeOK, NeverTorn, TmpIsWhole, FillDefaults

LEMMA WholeStep == WholeInv /\ [Next]_vars => WholeInv'
<1> SUFFICES ASSUME WholeInv, [Next]_vars PROVE WholeInv'
  OBVIOUS
<1> USE DEF WholeInv, NeverTorn, TmpIsWhole, HasId, TypeOK
<1>1. CASE \E poll \in Polls : Edit(poll) BY <1>1, WholeEdit
<1>2. CASE Crash BY <1>2 DEF Crash
<1>3. CASE Start BY <1>3, BlankIsContents DEF Start
<1>4. CASE ReadConfig
  <2>1. gConfig' \in Contents BY <1>4 DEF ReadConfig, Stored
  <2> QED BY <1>4, <2>1 DEF ReadConfig
<1>5. CASE FillDefaults BY <1>5, WholeFill
<1>6. CASE TruncateTmp BY <1>6 DEF TruncateTmp, Stored
<1>7. CASE FillTmp BY <1>7 DEF FillTmp, Stored
<1>8. CASE Rename
  <2>1. file' \in Contents BY <1>8 DEF Rename
  <2>2. file' # NotJSON BY <2>1, ContentsAreJSON
  <2> QED BY <1>8, <2>1, <2>2 DEF Rename, Stored
<1>9. CASE WriteFails BY <1>9 DEF WriteFails
<1>10. CASE RenameFails BY <1>10 DEF RenameFails
<1>11. CASE Announce BY <1>11 DEF Announce
<1>12. CASE UNCHANGED vars BY <1>12 DEF vars
<1> QED BY <1>1, <1>2, <1>3, <1>4, <1>5, <1>6, <1>7, <1>8, <1>9, <1>10, <1>11,
           <1>12 DEF Next

LEMMA WholeAlways == Spec => []WholeInv
BY WholeInit, WholeStep, PTL DEF Spec

\* Every variable of RouterIdentity keeps its type.
THEOREM TypeCorrect == Spec => []TypeOK
<1>1. WholeInv => TypeOK BY DEF WholeInv
<1> QED BY <1>1, WholeAlways, PTL

\* config.json is never torn, whatever crashes and saves that fail
\* (saveConfigLocked).
THEOREM FileIsWhole == Spec => []NeverTorn
<1>1. WholeInv => NeverTorn BY DEF WholeInv
<1> QED BY <1>1, WholeAlways, PTL

-----------------------------------------------------------------------------
(* The id follows one way, from the file to memory, or from memory through the   *)
(* temporary file to the file, before it is announced. While no save has failed, *)
(* a process that serves has its id in the file, so the next one finds it there. *)

FileHasId(id) == file \in Contents /\ file.id = id

ReadIsBlank == pc = "read" => gConfig.id = ""
TmpIsConfig == pc = "rename" => tmp = gConfig
FilledIsRead == pc = "fill" => gConfig.id = "" \/ FileHasId(gConfig.id)
ServedIsSaved == pc = "serving" => FileHasId(gConfig.id)
AnnouncedIsSaved == announced # "none" => FileHasId(announced)
AnnouncedIsConfig ==
  announced # "none" /\ pc \in {"fill", "write", "fillTmp", "rename", "serving"}
    => gConfig.id = announced

IdInv ==
  /\ ReadIsBlank /\ TmpIsConfig /\ FilledIsRead /\ ServedIsSaved
  /\ AnnouncedIsSaved /\ AnnouncedIsConfig

LEMMA IdInit == Init => IdInv
BY DEF Init, IdInv, ReadIsBlank, TmpIsConfig, FilledIsRead, ServedIsSaved, AnnouncedIsSaved,
       AnnouncedIsConfig

\* An edit leaves the id of a file that has one.
LEMMA EditKeepsId ==
  ASSUME WholeInv, NEW poll \in Polls, Edit(poll), NEW id, FileHasId(id)
  PROVE  FileHasId(id)'
<1>1. file # NoFile BY ContentsAreJSON DEF FileHasId
<1>2. file'.id = id BY <1>1 DEF Edit, FileHasId
<1> QED BY <1>2, WholeEdit DEF FileHasId

LEMMA IdEdit ==
  ASSUME WholeInv, IdInv, NEW poll \in Polls, Edit(poll)
  PROVE  IdInv'
<1>1. UNCHANGED <<tmp, pc, gConfig, announced>> BY DEF Edit
<1>2. FilledIsRead'
  <2>1. CASE pc = "fill" /\ gConfig.id # ""
    <3>1. FileHasId(gConfig.id) BY <2>1 DEF IdInv, FilledIsRead
    <3>2. file'.id = gConfig.id /\ file' \in Contents
      BY <3>1, EditKeepsId DEF FileHasId
    <3> QED BY <1>1, <3>2 DEF FilledIsRead, FileHasId
  <2>2. CASE ~(pc = "fill" /\ gConfig.id # "") BY <1>1, <2>2 DEF FilledIsRead
  <2> QED BY <2>1, <2>2
<1>3. ServedIsSaved'
  <2>1. CASE pc = "serving"
    <3>1. FileHasId(gConfig.id) BY <2>1 DEF IdInv, ServedIsSaved
    <3>2. file'.id = gConfig.id /\ file' \in Contents
      BY <3>1, EditKeepsId DEF FileHasId
    <3> QED BY <1>1, <3>2 DEF ServedIsSaved, FileHasId
  <2>2. CASE pc # "serving" BY <1>1, <2>2 DEF ServedIsSaved
  <2> QED BY <2>1, <2>2
<1>4. AnnouncedIsSaved'
  <2>1. CASE announced # "none"
    <3>1. FileHasId(announced) BY <2>1 DEF IdInv, AnnouncedIsSaved
    <3>2. file'.id = announced /\ file' \in Contents
      BY <3>1, EditKeepsId DEF FileHasId
    <3> QED BY <1>1, <3>2 DEF AnnouncedIsSaved, FileHasId
  <2>2. CASE announced = "none" BY <1>1, <2>2 DEF AnnouncedIsSaved
  <2> QED BY <2>1, <2>2
<1> QED BY <1>1, <1>2, <1>3, <1>4 DEF IdInv, ReadIsBlank, TmpIsConfig, AnnouncedIsConfig

\* A generated id is new; one that was announced is found, and kept.
LEMMA IdFill == WholeInv /\ IdInv /\ FillDefaults => IdInv'
<1> SUFFICES ASSUME WholeInv, IdInv, FillDefaults PROVE IdInv'
  OBVIOUS
<1>1. PICK id \in IdFor(gConfig) :
        gConfig' = [id |-> id, poll |-> IF gConfig.poll = 0 THEN DefaultPoll
                                                          ELSE gConfig.poll]
  BY DEF FillDefaults
<1>2. gConfig'.id = id BY <1>1
<1>3. gConfig.id # "" => id = gConfig.id BY DEF IdFor
<1>4. UNCHANGED <<file, tmp, announced>> /\ pc = "fill" BY DEF FillDefaults
<1>5. AnnouncedIsConfig'
  <2>1. CASE announced # "none"
    <3>1. gConfig.id = announced BY <1>4, <2>1 DEF IdInv, AnnouncedIsConfig
    <3>2. announced # "" BY <2>1 DEF WholeInv, TypeOK
    <3> QED BY <1>2, <1>3, <1>4, <3>1, <3>2 DEF AnnouncedIsConfig
  <2>2. CASE announced = "none" BY <1>4, <2>2 DEF AnnouncedIsConfig
  <2> QED BY <2>1, <2>2
<1>6. ServedIsSaved'
  <2>1. CASE Dirty(gConfig) BY <2>1 DEF FillDefaults, ServedIsSaved
  <2>2. CASE ~Dirty(gConfig)
    <3>1. gConfig.id # "" BY <2>2 DEF Dirty
    <3>2. FileHasId(gConfig.id) BY <1>4, <3>1 DEF IdInv, FilledIsRead
    <3> QED BY <1>2, <1>3, <1>4, <3>1, <3>2 DEF ServedIsSaved, FileHasId
  <2> QED BY <2>1, <2>2
<1>7. pc' \in {"write", "serving"} BY DEF FillDefaults
<1> QED BY <1>4, <1>5, <1>6, <1>7
        DEF IdInv, ReadIsBlank, TmpIsConfig, FilledIsRead, AnnouncedIsSaved, FileHasId

SavedInv == ~saveFailed => IdInv

LEMMA IdStep == WholeInv /\ SavedInv /\ [Next]_vars => SavedInv'
<1> SUFFICES ASSUME WholeInv, SavedInv, [Next]_vars, ~saveFailed' PROVE IdInv'
  BY DEF SavedInv
<1>0. IdInv
  BY DEF SavedInv, vars, Next, Edit, Crash, Start, ReadConfig, FillDefaults, TruncateTmp,
         FillTmp, Rename, WriteFails, RenameFails, Announce
<1> USE <1>0 DEF IdInv, ReadIsBlank, TmpIsConfig, FilledIsRead, ServedIsSaved, AnnouncedIsSaved,
            AnnouncedIsConfig, FileHasId
<1>1. CASE \E poll \in Polls : Edit(poll) BY <1>1, IdEdit
<1>2. CASE Crash BY <1>2 DEF Crash
<1>3. CASE Start BY <1>3 DEF Start, Blank
<1>4. CASE ReadConfig
  <2>1. CASE file \in {NoFile, NotJSON}
    <3>1. announced = "none" BY <2>1, ContentsAreJSON
    <3>2. gConfig' = gConfig BY <1>4, <2>1 DEF ReadConfig
    <3>3. gConfig.id = "" BY <1>4 DEF ReadConfig
    <3> QED BY <1>4, <3>1, <3>2, <3>3 DEF ReadConfig
  <2>2. CASE file \notin {NoFile, NotJSON}
    <3>1. file \in Contents BY <2>2 DEF WholeInv, TypeOK, Stored
    <3> QED BY <1>4, <2>2, <3>1 DEF ReadConfig
  <2> QED BY <2>1, <2>2
<1>5. CASE FillDefaults BY <1>5, IdFill
<1>6. CASE TruncateTmp BY <1>6 DEF TruncateTmp
<1>7. CASE FillTmp BY <1>7 DEF FillTmp
<1>8. CASE Rename BY <1>8 DEF Rename, WholeInv, TypeOK
<1>9. CASE WriteFails BY <1>9 DEF WriteFails
<1>10. CASE RenameFails BY <1>10 DEF RenameFails
<1>11. CASE Announce BY <1>11 DEF Announce
<1>12. CASE UNCHANGED vars BY <1>12 DEF vars
<1> QED BY <1>1, <1>2, <1>3, <1>4, <1>5, <1>6, <1>7, <1>8, <1>9, <1>10, <1>11,
           <1>12 DEF Next

\* Home Assistant is never told a second id while no save has failed (loadConfig);
\* an id that was announced but not saved is replaced at the next start.
THEOREM IdIsStable == Spec => AnnouncedOnceIfSaved
<1>1. WholeInv /\ SavedInv /\ [Next]_vars
        => [announced # "none" /\ ~saveFailed => announced' = announced]_vars
  <2> SUFFICES ASSUME WholeInv, IdInv, Next, announced # "none"
               PROVE  announced' = announced
    BY DEF SavedInv
  <2>1. CASE Announce BY <2>1 DEF Announce, IdInv, AnnouncedIsConfig
  <2>2. CASE ~Announce
    BY <2>2 DEF Next, Edit, Crash, Start, ReadConfig, FillDefaults, TruncateTmp,
                FillTmp, Rename, WriteFails, RenameFails
  <2> QED BY <2>1, <2>2
<1>2. Init => SavedInv BY IdInit DEF SavedInv
<1> QED BY <1>1, <1>2, IdStep, WholeAlways, PTL DEF Spec, AnnouncedOnceIfSaved
=============================================================================

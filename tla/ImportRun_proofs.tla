--------------------------- MODULE ImportRun_proofs ---------------------------
(***************************************************************************)
(* Theorems about ImportRun for files of any size, any relations between   *)
(* their rows, any number of runs, edits and faults.                       *)
(***************************************************************************)
EXTENDS ImportRun, FiniteSetTheorems, TLAPS

(***************************************************************************)
(* Types.                                                                  *)
(***************************************************************************)
LEMMA RowSetsCount == \A S \in SUBSET Row : IsFiniteSet(S) /\ Cardinality(S) \in Nat
BY RowAssumption, FS_Subset, FS_CardinalityType

LEMMA HashType == ASSUME TypeOK, NEW m PROVE Hash(m) \in Nat \X SUBSET Row
<1>1. stamp \in Nat  BY DEF TypeOK
<1>2. failFile \in SUBSET Row /\ failFile \cap Hashed \in SUBSET Row  BY DEF TypeOK
<1>3. Cardinality(failFile) \in Nat  BY <1>2, RowSetsCount
<1>4. {} \in SUBSET Row  OBVIOUS
<1> QED  BY <1>1, <1>2, <1>3, <1>4 DEF Hash

LEMMA ContentsType == ASSUME TypeOK, NEW m PROVE Contents(m) \in File
<1>1. version \in 0 .. MaxVersion /\ 0 \in 0 .. MaxVersion
  BY BoundAssumption DEF TypeOK
<1>2. failFile \in SUBSET Row /\ {} \in SUBSET Row  BY DEF TypeOK
<1> QED  BY <1>1, <1>2 DEF Contents, File

LEMMA CkptType ==
    /\ NoFile \in File /\ NoCkpt \in Ckpt /\ NoReport \in Report
    /\ \A h \in Nat \X SUBSET Row, f \in File, S \in SUBSET Row :
         [hash |-> h, idMap |-> S, read |-> f, exists |-> TRUE] \in Ckpt
<1>1. NoFile \in File /\ NoFile \in Nat \X SUBSET Row
  BY BoundAssumption DEF NoFile, File
<1> QED  BY <1>1 DEF NoCkpt, Ckpt, NoReport, Report

LEMMA InitType == Init => TypeOK
<1> SUFFICES ASSUME Init PROVE TypeOK  OBVIOUS
<1>1. /\ version \in 1 .. MaxVersion /\ stamp \in 1 .. version
      /\ faults \in 0 .. MaxFaults
  BY BoundAssumption DEF Init
<1>2. ckpt \in [{"normal", "fail"} -> Ckpt]  BY CkptType DEF Init
<1>3. readAt \in File /\ report \in Report  BY CkptType DEF Init
<1> QED  BY <1>1, <1>2, <1>3 DEF Init, TypeOK

LEMMA StartType ==
    ASSUME TypeOK, NEW m \in Modes, NEW flags \in Flags, Start(m, flags)
    PROVE  TypeOK'
<1>1. m \in {"normal", "fail"}  BY ModesAssumption
<1>2. readAt' \in File  BY CkptType DEF Start
<1>3. data' \subseteq Row /\ malformed' \subseteq Row  BY DEF Start
<1>4. ckpt[m] \in Ckpt  BY <1>1 DEF TypeOK
<1>5. idMap' \subseteq Row  BY <1>4 DEF Start, Ckpt
<1>6. resumed' \in BOOLEAN /\ keeps' \in BOOLEAN
  BY <1>4, FlagsAssumption DEF Start, Matches, Ckpt
<1>7. ckpt' \in [{"normal", "fail"} -> Ckpt]  BY CkptType DEF Start, TypeOK
<1> QED
  BY <1>1, <1>2, <1>3, <1>5, <1>6, <1>7 DEF Start, TypeOK, source, failure, db, notes

LEMMA ReadType == ASSUME TypeOK, Read PROVE TypeOK'
<1>1. readAt' \in File  BY ContentsType DEF Read
<1>2. data' \subseteq Row /\ malformed' \subseteq Row  BY DEF Read, TypeOK
<1> QED  BY <1>1, <1>2 DEF Read, TypeOK, disk, source, failure, db, notes

LEMMA Pass1Type ==
    ASSUME TypeOK,
           \/ Connect \/ GiveUp \/ GiveUpEmptyHanded \/ Pass1Ends
           \/ \E r \in Row : Store(r) \/ CollectMade(r) \/ CollectFailed(r)
    PROVE  TypeOK'
<1>1. CASE Connect  BY <1>1 DEF Connect, TypeOK, source, db, setup, content, notes
<1>2. CASE GiveUp
  BY <1>2, CkptType, BoundAssumption
  DEF GiveUp, Fault, TypeOK, disk, source, failure, db, memory, setup, content
<1>3. CASE GiveUpEmptyHanded
  BY <1>3, CkptType
  DEF GiveUpEmptyHanded, TypeOK, disk, source, failure, db, memory, setup, content
<1>4. CASE Pass1Ends
  BY <1>4 DEF Pass1Ends, TypeOK, disk, source, failure, db, memory, setup, content, notes
<1>5. ASSUME NEW r \in Row, Store(r) PROVE TypeOK'
  <2>1. stored' \subseteq Row /\ rejected' \subseteq Row  BY <1>5 DEF Store, TypeOK
  <2>2. /\ UNCHANGED <<version, stamp, failFile, long, ckpt, linked, pc, report>>
        /\ UNCHANGED <<mode, keeps, data, malformed, readAt, resumed, todo, idMap>>
        /\ UNCHANGED <<failedLines, writes, badWrites, faults, blind>>
    BY <1>5 DEF Store, disk, source, failure, memory, setup, content
  <2> QED  BY <2>1, <2>2 DEF TypeOK
<1>6. ASSUME NEW r \in Row, CollectMade(r) PROVE TypeOK'
  <2>1. todo' \subseteq Row /\ idMap' \subseteq Row  BY <1>6 DEF CollectMade, TypeOK
  <2>2. /\ UNCHANGED <<version, stamp, failFile, long, ckpt, stored, linked, pc>>
        /\ UNCHANGED <<mode, keeps, data, malformed, readAt, resumed, failedLines>>
        /\ UNCHANGED <<writes, badWrites, report, faults, rejected, blind>>
    BY <1>6 DEF CollectMade, disk, source, failure, db, setup, content, notes
  <2> QED  BY <2>1, <2>2 DEF TypeOK
<1>7. ASSUME NEW r \in Row, CollectFailed(r) PROVE TypeOK'
  <2>1. faults' \in 0 .. MaxFaults
    BY <1>7, BoundAssumption DEF CollectFailed, Fault, TypeOK
  <2>2. \A S \in {failFile', long', todo', failedLines', rejected'} : S \subseteq Row
    BY <1>7 DEF CollectFailed, Overflowing, TypeOK
  <2>3. /\ UNCHANGED <<version, stamp, ckpt, stored, linked, pc, report, blind>>
        /\ UNCHANGED <<mode, keeps, data, malformed, readAt, resumed>>
        /\ UNCHANGED <<idMap, writes, badWrites>>
    BY <1>7 DEF CollectFailed, source, db, setup, content
  <2> QED  BY <2>1, <2>2, <2>3 DEF TypeOK
<1> QED  BY <1>1, <1>2, <1>3, <1>4, <1>5, <1>6, <1>7

LEMMA SaveType == ASSUME TypeOK, SaveCheckpoint PROVE TypeOK'
<1>1. Hash(mode) \in Nat \X SUBSET Row /\ idMap \in SUBSET Row /\ readAt \in File
  BY HashType DEF TypeOK
<1>2. ckpt' \in [{"normal", "fail"} -> Ckpt]
  BY <1>1, CkptType DEF SaveCheckpoint, SavedMap, TypeOK
<1>3. faults' \in 0 .. MaxFaults
  BY BoundAssumption DEF SaveCheckpoint, Fault, TypeOK
<1> QED
  BY <1>2, <1>3 DEF SaveCheckpoint, TypeOK, source, failure, db, memory, setup, content

LEMMA ReportType ==
    ASSUME TypeOK, NEW ok \in BOOLEAN
    PROVE  [success |-> ok, mode |-> mode, resumed |-> resumed,
            total |-> data, created |-> idMap, failed |-> failedLines,
            unaccounted |-> Cardinality(data) - Cardinality(idMap)
                                              - Cardinality(failedLines)] \in Report
<1>1. data \in SUBSET Row /\ idMap \in SUBSET Row /\ failedLines \in SUBSET Row
  BY DEF TypeOK
<1>2. /\ Cardinality(data) \in Nat /\ Cardinality(idMap) \in Nat
      /\ Cardinality(failedLines) \in Nat
  BY <1>1, RowSetsCount
<1> QED  BY <1>1, <1>2 DEF TypeOK, Report

LEMMA Pass2Type ==
    ASSUME TypeOK,
           \/ Prepare
           \/ \E r \in Row : Write(r) \/ WriteFailed(r)
           \/ \E aborted \in BOOLEAN : Finish(aborted)
    PROVE  TypeOK'
<1>1. CASE Prepare
  BY <1>1 DEF Prepare, ToWrite, TypeOK, disk, source, failure, db, setup, content, notes
<1>2. ASSUME NEW r \in Row, Write(r) PROVE TypeOK'
  BY <1>2 DEF Write, TypeOK, disk, source, failure, setup, content, notes
<1>3. ASSUME NEW r \in Row, WriteFailed(r) PROVE TypeOK'
  BY <1>3, BoundAssumption
  DEF WriteFailed, Fault, TypeOK, disk, source, failure, setup, content
<1>4. ASSUME NEW aborted \in BOOLEAN, Finish(aborted) PROVE TypeOK'
  <2>1. Success(aborted) \in BOOLEAN  BY DEF Success
  <2>2. report' \in Report  BY <1>4, <2>1, ReportType DEF Finish
  <2>3. ckpt' \in [{"normal", "fail"} -> Ckpt]
    BY <1>4, CkptType DEF Finish, TypeOK
  <2>4. failFile' \subseteq Row /\ long' \subseteq Row
    BY <1>4 DEF Finish, FinalFailFile, Overflowing, TypeOK
  <2>5. faults' \in 0 .. MaxFaults
    BY <1>4, BoundAssumption DEF Finish, Fault, TypeOK
  <2> QED
    BY <1>4, <2>2, <2>3, <2>4, <2>5 DEF Finish, TypeOK, source, db, memory, setup, content
<1> QED  BY <1>1, <1>2, <1>3, <1>4

LEMMA TypeStep == TypeOK /\ [Next]_vars => TypeOK'
<1> SUFFICES ASSUME TypeOK, [Next]_vars PROVE TypeOK'  OBVIOUS
<1>1. CASE Crash
  BY <1>1, CkptType, BoundAssumption
  DEF Crash, Fault, TypeOK, disk, source, failure, db, memory, setup, content
<1>2. ASSUME NEW inMiddle \in BOOLEAN, Edit(inMiddle) PROVE TypeOK'
  <2>1. version' \in 1 .. MaxVersion /\ stamp' \in 1 .. version' /\ blind' \subseteq 1 .. version'
    BY <1>2, BoundAssumption DEF Edit, TypeOK
  <2> QED  BY <1>2, <2>1 DEF Edit, TypeOK, failure, db, memory, setup, content
<1>3. CASE UNCHANGED vars
  BY <1>3 DEF vars, TypeOK, disk, source, failure, db, memory, setup, content, notes
<1> QED
  BY <1>1, <1>2, <1>3, StartType, ReadType, Pass1Type, SaveType, Pass2Type
  DEF Next, Progress

(* Every variable keeps its type, for every file and every run.            *)
THEOREM TypeCorrect == Spec => []TypeOK
BY InitType, TypeStep, PTL DEF Spec
-----------------------------------------------------------------------------
(***************************************************************************)
(* What checkpoints, id maps and writes say is true of the server.  Nothing *)
(* removes a record, so what was true of a map when it was made stays true  *)
(* in a checkpoint, across crashes and other runs.                          *)
(***************************************************************************)
Sound(m) == ckpt[m].exists => ckpt[m].idMap \subseteq stored
MapsAreTrue == idMap \subseteq stored /\ Sound("normal") /\ Sound("fail")

LinkedRows(rows) == \A r \in rows : r \in stored /\ Target[r] \in stored

(* Until it saves its checkpoint, a run of the source file has read what    *)
(* the file still holds, or the file was edited blindly since.  So it is    *)
(* of a checkpoint whose hash the file still has, and of a resumed run.     *)
Untold(from, to) == \E v \in blind : from < v /\ v <= to
Same(from, to) == from = to \/ Untold(from, to)
SourceCkpt == ckpt["normal"]

ReadIsTold ==
    /\ pc \notin {"idle", "read"} /\ mode = "normal" =>
         /\ readAt[2] = {} /\ readAt[1] <= version
         /\ pc \in {"connect", "pass1", "save"} => Same(readAt[1], version)
CkptIsTold ==
    SourceCkpt.exists =>
        /\ SourceCkpt.read[2] = {} /\ SourceCkpt.hash[1] <= version
        /\ SourceCkpt.read[1] <= version
        /\ SourceCkpt.hash[1] = stamp => Same(SourceCkpt.read[1], version)
ResumeIsTold ==
    resumed /\ mode = "normal" =>
        /\ pc # "idle" => SourceCkpt.exists
        /\ pc = "read" => Same(SourceCkpt.read[1], version)
        /\ pc \notin {"idle", "read"} => Same(SourceCkpt.read[1], readAt[1])
HashesAreTrue == ReadIsTold /\ CkptIsTold /\ ResumeIsTold

DiskInv == TypeOK /\ MapsAreTrue /\ HashesAreTrue
             /\ LinkedRows(writes) /\ LinkedRows(linked)

LEMMA DiskInvInit == Init => DiskInv
BY InitType DEF Init, DiskInv, MapsAreTrue, Sound, HashesAreTrue, ReadIsTold, CkptIsTold,
    ResumeIsTold, SourceCkpt, LinkedRows, NoCkpt

(* Versions are numbers, and checkpoints have theirs.                      *)
LEMMA Numbers ==
    ASSUME TypeOK
    PROVE  /\ version \in Nat /\ stamp \in Nat /\ stamp <= version /\ readAt[1] \in Nat
           /\ ckpt \in [{"normal", "fail"} -> Ckpt] /\ mode \in {"normal", "fail"}
           /\ SourceCkpt.hash[1] \in Nat /\ SourceCkpt.read[1] \in Nat
<1>1. SourceCkpt \in Ckpt  BY DEF TypeOK, SourceCkpt
<1> QED  BY <1>1, BoundAssumption DEF TypeOK, Ckpt, File

LEMMA StartHashes ==
    ASSUME DiskInv, NEW m \in Modes, NEW flags \in Flags, Start(m, flags)
    PROVE  HashesAreTrue'
<1>1. m \in {"normal", "fail"}  BY ModesAssumption
<1>2. ckpt \in [{"normal", "fail"} -> Ckpt]  BY Numbers DEF DiskInv
<1>3. UNCHANGED <<version, stamp, blind>> /\ pc' = "read" /\ mode' = m
  BY DEF Start, source, notes
<1>4. ckpt' = ckpt \/ ckpt' = [ckpt EXCEPT ![m] = NoCkpt]  BY DEF Start
<1>5. resumed' => ckpt' = ckpt /\ ckpt[m].exists /\ ckpt[m].hash = Hash(m)
  BY DEF Start, Matches
<1>6. SourceCkpt' = SourceCkpt \/ SourceCkpt' = NoCkpt
  BY <1>1, <1>2, <1>4 DEF SourceCkpt
<1>7. CkptIsTold'
  BY <1>3, <1>6 DEF DiskInv, HashesAreTrue, CkptIsTold, Same, Untold, NoCkpt
<1>8. resumed' /\ m = "normal" =>
        SourceCkpt' = SourceCkpt /\ SourceCkpt.exists /\ SourceCkpt.hash[1] = stamp
  BY <1>5 DEF SourceCkpt, Hash
<1>9. ResumeIsTold'
  BY <1>3, <1>8 DEF DiskInv, HashesAreTrue, CkptIsTold, ResumeIsTold, Same, Untold
<1>10. ReadIsTold'  BY <1>3 DEF ReadIsTold
<1> QED  BY <1>7, <1>9, <1>10 DEF HashesAreTrue

LEMMA StartDisk ==
    ASSUME DiskInv, NEW m \in Modes, NEW flags \in Flags, Start(m, flags)
    PROVE  MapsAreTrue' /\ HashesAreTrue' /\ LinkedRows(writes)' /\ LinkedRows(linked)'
<1>1. m \in {"normal", "fail"}  BY ModesAssumption
<1>2. ckpt \in [{"normal", "fail"} -> Ckpt]  BY DEF DiskInv, TypeOK
<1>3. UNCHANGED <<stored, linked>> /\ writes' = {}  BY DEF Start, db
<1>4. ckpt' = ckpt \/ ckpt' = [ckpt EXCEPT ![m] = NoCkpt]  BY DEF Start
<1>5. resumed' => ckpt' = ckpt /\ ckpt[m].exists
  BY DEF Start, Matches
<1>6. idMap' = IF resumed' THEN ckpt[m].idMap ELSE {}  BY DEF Start
<1>7. MapsAreTrue'
  BY <1>1, <1>2, <1>3, <1>4, <1>5, <1>6 DEF DiskInv, MapsAreTrue, Sound, NoCkpt
<1> QED  BY <1>3, <1>7, StartHashes DEF DiskInv, LinkedRows

LEMMA SaveHashes ==
    ASSUME DiskInv, SaveCheckpoint
    PROVE  HashesAreTrue'
<1>1. /\ UNCHANGED <<version, stamp, blind, mode, readAt, resumed>>
      /\ pc = "save" /\ pc' = "prepare"
  BY DEF SaveCheckpoint, source, memory, setup, content
<1>2. ckpt \in [{"normal", "fail"} -> Ckpt] /\ mode \in {"normal", "fail"}
      /\ stamp <= version
  BY Numbers DEF DiskInv
<1>3. \/ SourceCkpt' = SourceCkpt
      \/ /\ mode = "normal" /\ SourceCkpt'.exists
         /\ SourceCkpt'.hash = <<stamp, {}>> /\ SourceCkpt'.read = readAt
  BY <1>2 DEF SaveCheckpoint, SourceCkpt, Hash
<1>4. ReadIsTold'  BY <1>1 DEF DiskInv, HashesAreTrue, ReadIsTold
<1>5. CASE SourceCkpt' = SourceCkpt
  BY <1>1, <1>4, <1>5
  DEF DiskInv, HashesAreTrue, CkptIsTold, ResumeIsTold, Same, Untold
<1>6. CASE /\ mode = "normal" /\ SourceCkpt'.exists
           /\ SourceCkpt'.hash = <<stamp, {}>> /\ SourceCkpt'.read = readAt
  <2>1. readAt[2] = {} /\ readAt[1] <= version /\ Same(readAt[1], version)
    BY <1>1, <1>6 DEF DiskInv, HashesAreTrue, ReadIsTold
  <2>2. CkptIsTold'
    BY <1>1, <1>2, <1>6, <2>1 DEF CkptIsTold, Same, Untold
  <2>3. ResumeIsTold'
    BY <1>1, <1>6 DEF ResumeIsTold, Same
  <2> QED  BY <1>4, <2>2, <2>3 DEF HashesAreTrue
<1> QED  BY <1>3, <1>5, <1>6

LEMMA SaveDisk ==
    ASSUME DiskInv, SaveCheckpoint
    PROVE  MapsAreTrue' /\ HashesAreTrue' /\ LinkedRows(writes)' /\ LinkedRows(linked)'
<1>1. UNCHANGED <<stored, linked, idMap, writes, mode>>
  BY DEF SaveCheckpoint, db, memory, setup, content
<1>2. /\ mode \in {"normal", "fail"}
      /\ ckpt \in [{"normal", "fail"} -> Ckpt]
  BY DEF DiskInv, TypeOK
<1>3. \/ ckpt' = ckpt
      \/ ckpt' = [ckpt EXCEPT ![mode] = [hash |-> Hash(mode), idMap |-> idMap,
                                         read |-> readAt, exists |-> TRUE]]
  BY DEF SaveCheckpoint, SavedMap
<1>4. MapsAreTrue'  BY <1>1, <1>2, <1>3 DEF DiskInv, MapsAreTrue, Sound
<1> QED  BY <1>1, <1>4, SaveHashes DEF DiskInv, LinkedRows

LEMMA FinishDisk ==
    ASSUME DiskInv, NEW aborted \in BOOLEAN, Finish(aborted)
    PROVE  MapsAreTrue' /\ HashesAreTrue' /\ LinkedRows(writes)' /\ LinkedRows(linked)'
<1>1. /\ UNCHANGED <<version, stamp, blind, stored, linked, idMap, writes>>
      /\ pc' = "idle"
  BY DEF Finish, source, db, memory, setup
<1>2. /\ mode \in {"normal", "fail"}
      /\ ckpt \in [{"normal", "fail"} -> Ckpt]
  BY DEF DiskInv, TypeOK
<1>3. ckpt' = ckpt \/ ckpt' = [ckpt EXCEPT ![mode] = NoCkpt]  BY DEF Finish
<1>4. MapsAreTrue'  BY <1>1, <1>2, <1>3 DEF DiskInv, MapsAreTrue, Sound, NoCkpt
<1>5. SourceCkpt' = SourceCkpt \/ SourceCkpt' = NoCkpt  BY <1>2, <1>3 DEF SourceCkpt
<1>6. HashesAreTrue'
  BY <1>1, <1>5 DEF DiskInv, HashesAreTrue, ReadIsTold, CkptIsTold, ResumeIsTold,
                    Same, Untold, NoCkpt
<1> QED  BY <1>1, <1>4, <1>6 DEF DiskInv, LinkedRows

(* Reading the file: what the hash could not tell, the reader cannot.      *)
LEMMA ReadHashes == ASSUME DiskInv, Read PROVE HashesAreTrue'
<1>1. /\ UNCHANGED <<version, stamp, blind, ckpt, mode, resumed>>
      /\ pc = "read" /\ pc' = "connect" /\ readAt' = Contents(mode)
  BY DEF Read, disk, source, notes
<1>2. mode = "normal" => readAt'[1] = version /\ readAt'[2] = {}
  BY <1>1 DEF Contents
<1>3. version \in Nat  BY Numbers DEF DiskInv
<1>4. ReadIsTold'  BY <1>1, <1>2, <1>3 DEF ReadIsTold, Same
<1>5. CkptIsTold' /\ ResumeIsTold'
  BY <1>1, <1>2
  DEF DiskInv, HashesAreTrue, CkptIsTold, ResumeIsTold, SourceCkpt, Same, Untold
<1> QED  BY <1>4, <1>5 DEF HashesAreTrue

(* An edit that is not blind gives the file a hash no checkpoint has.      *)
LEMMA EditHashes ==
    ASSUME DiskInv, NEW inMiddle \in BOOLEAN, Edit(inMiddle)
    PROVE  HashesAreTrue'
<1>1. /\ UNCHANGED <<ckpt, pc, mode, readAt, resumed>> /\ version' = version + 1
      /\ stamp' = (IF inMiddle THEN stamp ELSE version + 1)
      /\ blind \subseteq blind' /\ blind' \subseteq blind \cup {version + 1}
      /\ inMiddle \/ BetweenHashes => version + 1 \in blind'
  BY DEF Edit, memory, setup, content
<1>2. /\ version \in Nat /\ stamp \in Nat /\ readAt[1] \in Nat
      /\ SourceCkpt.hash[1] \in Nat /\ SourceCkpt.read[1] \in Nat
  BY Numbers DEF DiskInv
<1>3. SourceCkpt' = SourceCkpt  BY <1>1 DEF SourceCkpt
<1>4. ASSUME NEW a \in Nat, a <= version, version + 1 \in blind'
      PROVE  Same(a, version)' /\ Untold(a, version + 1)'
  BY <1>1, <1>2, <1>4 DEF Same, Untold
<1>5. ASSUME NEW a \in Nat, NEW b \in Nat, Same(a, b) PROVE (a = b) \/ \E v \in blind' : a < v /\ v <= b
  BY <1>1, <1>5 DEF Same, Untold
<1>6. ReadIsTold'
  <2>1. CASE BetweenHashes
    BY <1>1, <1>2, <1>4, <2>1 DEF DiskInv, HashesAreTrue, ReadIsTold, Same, Untold
  <2>2. CASE ~BetweenHashes
    BY <1>1, <1>2, <2>2 DEF DiskInv, HashesAreTrue, ReadIsTold, BetweenHashes
  <2> QED  BY <2>1, <2>2
<1>7. CkptIsTold'
  <2>1. CASE inMiddle
    BY <1>1, <1>2, <1>3, <1>4, <2>1 DEF DiskInv, HashesAreTrue, CkptIsTold, Same, Untold
  <2>2. CASE ~inMiddle
    BY <1>1, <1>2, <1>3, <2>2 DEF DiskInv, HashesAreTrue, CkptIsTold
  <2> QED  BY <2>1, <2>2
<1>8. ResumeIsTold'
  <2> SUFFICES ASSUME resumed, mode = "normal" PROVE ResumeIsTold'
    BY <1>1 DEF ResumeIsTold
  <2>1. CASE pc = "read"
    <3>1. SourceCkpt.exists /\ SourceCkpt.read[1] <= version
      BY <2>1 DEF DiskInv, HashesAreTrue, ResumeIsTold, CkptIsTold
    <3>2. version + 1 \in blind'  BY <1>1, <2>1 DEF BetweenHashes
    <3> QED
      BY <1>1, <1>2, <1>3, <2>1, <3>1, <3>2 DEF ResumeIsTold, Same, Untold
  <2>2. CASE pc # "read"
    BY <1>1, <1>2, <1>3, <1>5, <2>2 DEF DiskInv, HashesAreTrue, ResumeIsTold, Same, Untold
  <2> QED  BY <2>1, <2>2
<1> QED  BY <1>6, <1>7, <1>8 DEF HashesAreTrue

(* Every other step leaves the checkpoints and the source file alone, and   *)
(* stores, collects and writes only what keeps the maps true.               *)
LEMMA OtherMaps ==
    ASSUME DiskInv, UNCHANGED ckpt, stored \subseteq stored', idMap' \subseteq stored',
           writes' \subseteq stored, \A r \in writes' : Target[r] \in stored,
           linked' \subseteq linked \cup writes
    PROVE  MapsAreTrue' /\ LinkedRows(writes)' /\ LinkedRows(linked)'
BY DEF DiskInv, MapsAreTrue, Sound, LinkedRows

LEMMA OtherHashes ==
    ASSUME DiskInv, UNCHANGED <<ckpt, version, stamp, blind>>,
           \/ /\ UNCHANGED <<mode, readAt, resumed>>
              /\ \/ pc' = pc
                 \/ pc = "connect" /\ pc' = "pass1"
                 \/ pc = "pass1" /\ pc' = "save"
                 \/ pc' = "pass2" /\ pc \notin {"idle", "read"}
           \/ pc' = "idle"
    PROVE  HashesAreTrue'
<1>1. SourceCkpt' = SourceCkpt  BY DEF SourceCkpt
<1>2. CkptIsTold'  BY <1>1 DEF DiskInv, HashesAreTrue, CkptIsTold, Same, Untold
<1>3. CASE pc' = "idle"
  BY <1>1, <1>2, <1>3 DEF HashesAreTrue, ReadIsTold, ResumeIsTold
<1>4. CASE pc' # "idle"
  <2>1. /\ UNCHANGED <<mode, readAt, resumed>> /\ (pc' = "read" <=> pc = "read") /\ pc # "idle"
        /\ pc' \in {"connect", "pass1", "save"} => pc \in {"connect", "pass1", "save"}
    BY <1>4
  <2>2. ReadIsTold'
    BY <1>4, <2>1 DEF DiskInv, HashesAreTrue, ReadIsTold, Same, Untold
  <2>3. ResumeIsTold'
    BY <1>1, <1>4, <2>1 DEF DiskInv, HashesAreTrue, ResumeIsTold, Same, Untold
  <2> QED  BY <1>2, <2>2, <2>3 DEF HashesAreTrue
<1> QED  BY <1>3, <1>4

LEMMA DiskStep == DiskInv /\ [Next]_vars => DiskInv'
<1> SUFFICES ASSUME DiskInv, [Next]_vars PROVE DiskInv'  OBVIOUS
<1> DEFINE Rest == MapsAreTrue' /\ HashesAreTrue' /\ LinkedRows(writes)' /\ LinkedRows(linked)'
<1> SUFFICES Rest  BY TypeStep DEF DiskInv
<1>0. /\ idMap \subseteq stored /\ writes \subseteq stored
      /\ \A r \in writes : Target[r] \in stored
  BY DEF DiskInv, MapsAreTrue, LinkedRows
<1>1. CASE Connect \/ GiveUp \/ GiveUpEmptyHanded \/ Pass1Ends \/ Crash
  <2>1. /\ UNCHANGED <<version, stamp, blind, ckpt, stored, linked, idMap, writes>>
        /\ \/ /\ UNCHANGED <<mode, readAt, resumed>>
              /\ \/ pc = "connect" /\ pc' = "pass1"
                 \/ pc = "pass1" /\ pc' = "save"
           \/ pc' = "idle"
    BY <1>1 DEF Connect, GiveUp, GiveUpEmptyHanded, Pass1Ends, Crash,
                disk, source, failure, db, memory, setup, content, notes
  <2> QED  BY <1>0, <2>1, OtherMaps, OtherHashes
<1>2. ASSUME NEW r \in Row, Store(r) \/ CollectMade(r) \/ CollectFailed(r) PROVE Rest
  <2>1. /\ UNCHANGED <<ckpt, linked, writes, version, stamp, blind, mode, readAt, resumed, pc>>
        /\ stored \subseteq stored' /\ idMap' \subseteq idMap \cup stored
    BY <1>2 DEF Store, CollectMade, CollectFailed, disk, source, failure, db, memory,
                setup, content, notes
  <2> QED  BY <1>0, <2>1, OtherMaps, OtherHashes
<1>3. CASE Prepare
  <2>1. /\ UNCHANGED <<ckpt, stored, linked, idMap, version, stamp, blind, mode, readAt, resumed>>
        /\ pc = "prepare" /\ pc' = "pass2" /\ writes' = ToWrite
    BY <1>3 DEF Prepare, disk, source, failure, db, setup, content, notes
  <2>2. ToWrite \subseteq stored /\ \A r \in ToWrite : Target[r] \in stored
    BY <1>0 DEF ToWrite, Resolved
  <2> QED  BY <1>0, <2>1, <2>2, OtherMaps, OtherHashes
<1>4. ASSUME NEW r \in Row, Write(r) \/ WriteFailed(r) PROVE Rest
  <2>1. /\ UNCHANGED <<ckpt, stored, idMap, version, stamp, blind, mode, readAt, resumed, pc>>
        /\ writes' \subseteq writes /\ linked' \subseteq linked \cup writes
    BY <1>4 DEF Write, WriteFailed, disk, source, failure, setup, content, notes
  <2> QED  BY <1>0, <2>1, OtherMaps, OtherHashes
<1>5. CASE Read
  <2>1. UNCHANGED <<ckpt, stored, linked, idMap, writes>>
    BY <1>5 DEF Read, disk, db
  <2> QED  BY <1>0, <1>5, <2>1, OtherMaps, ReadHashes
<1>6. ASSUME NEW inMiddle \in BOOLEAN, Edit(inMiddle) PROVE Rest
  <2>1. UNCHANGED <<ckpt, stored, linked, idMap, writes>>
    BY <1>6 DEF Edit, db, memory
  <2> QED  BY <1>0, <1>6, <2>1, OtherMaps, EditHashes
<1>7. CASE UNCHANGED vars
  BY <1>0, <1>7, OtherMaps, OtherHashes
  DEF vars, disk, source, failure, db, memory, setup, content, notes
<1> QED
  BY <1>1, <1>2, <1>3, <1>4, <1>5, <1>6, <1>7, StartDisk, SaveDisk, FinishDisk
  DEF Next, Progress

LEMMA DiskInvHolds == Spec => []DiskInv
BY DiskInvInit, DiskStep, PTL DEF Spec

(* A checkpoint names only records that exist.                             *)
THEOREM CheckpointsAreTrue == Spec => []CheckpointIsTrue
<1>1. DiskInv => CheckpointIsTrue
  BY DEF DiskInv, MapsAreTrue, Sound, CheckpointIsTrue
<1> QED  BY <1>1, DiskInvHolds, PTL

(* A run of the source file that skips Pass 1 has read what the run that    *)
(* saved the checkpoint had read, unless an edit since then was one that    *)
(* the hashes cannot tell.                                                  *)
THEOREM ResumesAreSound == Spec => []ResumeReadsSameRows
<1>1. DiskInv => ResumeReadsSameRows
  <2> SUFFICES ASSUME DiskInv, pc \notin {"idle", "read"}, resumed, mode = "normal"
               PROVE  SameRows \/ EditedBlindly
    BY DEF ResumeReadsSameRows
  <2>1. SourceCkpt.exists /\ Same(SourceCkpt.read[1], readAt[1])
    BY DEF DiskInv, HashesAreTrue, ResumeIsTold
  <2>2. SourceCkpt.read[2] = {} /\ readAt[2] = {}
    BY <2>1 DEF DiskInv, HashesAreTrue, CkptIsTold, ReadIsTold
  <2>3. SourceCkpt.read \in File /\ readAt \in File
    BY Numbers DEF DiskInv, TypeOK, SourceCkpt, Ckpt
  <2>4. SourceCkpt.read[1] = readAt[1] => SourceCkpt.read = readAt
    BY <2>2, <2>3 DEF File
  <2> QED  BY <2>1, <2>4 DEF Same, Untold, SourceCkpt, SameRows, EditedBlindly
<1> QED  BY <1>1, DiskInvHolds, PTL

(* A relation is only ever written between records that exist.             *)
THEOREM LinksHold == Spec => []LinksAreSound
<1>1. DiskInv => LinksAreSound
  BY DEF DiskInv, LinkedRows, LinksAreSound
<1> QED  BY <1>1, DiskInvHolds, PTL
-----------------------------------------------------------------------------
(***************************************************************************)
(* Where the rows of a run are.  A run that did not resume has each of its  *)
(* rows in one place: to do, in the map or failed; and Pass 2 has each      *)
(* relation between rows of the map to do, written or failed.               *)
(***************************************************************************)
Running == pc \in {"pass1", "save", "prepare", "pass2"}

RowsSplit ==
    Running /\ ~resumed =>
        /\ data = todo \cup idMap \cup failedLines
        /\ todo \cap (idMap \cup failedLines) = {} /\ idMap \cap failedLines = {}

Phases ==
    /\ pc \in {"read", "connect"} => todo = {} /\ failedLines = {} /\ (~resumed => idMap = {})
    /\ pc \in {"save", "prepare", "pass2"} => todo = {}
    /\ Running => failedLines \subseteq failFile

MapIsOfRun ==
    /\ todo \subseteq data
    /\ pc \notin {"idle", "read"} /\ ~(resumed /\ mode = "fail") => idMap \subseteq data

Dealt(r) == r \in writes \cup linked \cup badWrites
WritesComplete ==
    pc = "pass2" => \A r \in data \cap idMap : Target[r] \in idMap => Dealt(r)

RunInv == DiskInv /\ RowsSplit /\ Phases /\ MapIsOfRun /\ WritesComplete
                  /\ FreshRunAddsUp /\ SuccessMeansLinked

RunFacts == RowsSplit' /\ Phases' /\ MapIsOfRun' /\ WritesComplete'
ReportFacts == FreshRunAddsUp' /\ SuccessMeansLinked'

LEMMA RunInvInit == Init => RunInv
BY DiskInvInit
DEF Init, RunInv, RowsSplit, Running, Phases, MapIsOfRun, WritesComplete,
    FreshRunAddsUp, SuccessMeansLinked, NoReport

(* A report stays true while the next run goes on; a run that is given up  *)
(* or killed leaves none.                                                  *)
LEMMA ReportStays ==
    ASSUME RunInv, linked \subseteq linked',
           \/ report' = NoReport
           \/ report' = report /\ (pc' = "idle" => pc = "idle" /\ failFile' = failFile)
    PROVE  ReportFacts
<1>1. CASE report' = NoReport
  BY <1>1 DEF ReportFacts, FreshRunAddsUp, SuccessMeansLinked, NoReport
<1>2. CASE report' = report /\ (pc' = "idle" => pc = "idle" /\ failFile' = failFile)
  BY <1>2 DEF RunInv, ReportFacts, FreshRunAddsUp, SuccessMeansLinked
<1> QED  BY <1>1, <1>2

LEMMA StartRun ==
    ASSUME RunInv, NEW m \in Modes, NEW flags \in Flags, Start(m, flags)
    PROVE  RunFacts /\ ReportFacts
<1>1. m \in {"normal", "fail"}  BY ModesAssumption
<1>2. /\ pc' = "read" /\ mode' = m /\ todo' = {} /\ failedLines' = {}
      /\ report' = report /\ linked' = linked
      /\ ~resumed' => idMap' = {}
  BY <1>1 DEF Start, db, notes
<1>3. RunFacts
  BY <1>1, <1>2
  DEF RunFacts, RowsSplit, Running, Phases, MapIsOfRun, WritesComplete
<1> QED  BY <1>2, <1>3, ReportStays

LEMMA ReadRun == ASSUME RunInv, Read PROVE RunFacts /\ ReportFacts
<1>1. /\ UNCHANGED <<mode, resumed, todo, idMap, failedLines, failFile, linked, report>>
      /\ pc = "read" /\ pc' = "connect"
      /\ mode = "normal" => data' = Row
  BY DEF Read, disk, failure, db, notes
<1>2. idMap \subseteq Row /\ mode \in {"normal", "fail"}  BY DEF RunInv, DiskInv, TypeOK
<1>3. mode = "fail" /\ ~resumed => idMap = {}  BY <1>1 DEF RunInv, Phases
<1>4. RunFacts
  BY <1>1, <1>2, <1>3
  DEF RunInv, RunFacts, RowsSplit, Running, Phases, MapIsOfRun, WritesComplete
<1> QED  BY <1>1, <1>4, ReportStays

LEMMA Pass1Run ==
    ASSUME RunInv, NEW r,
           Connect \/ Store(r) \/ CollectMade(r) \/ CollectFailed(r) \/ Pass1Ends
    PROVE  RunFacts /\ ReportFacts
<1>1. CASE Connect
  <2>1. /\ UNCHANGED <<data, resumed, mode, idMap, failedLines, linked, report>>
        /\ pc = "connect" /\ pc' = "pass1"
        /\ todo' = (IF resumed THEN {} ELSE data)
    BY <1>1 DEF Connect, db, setup, content, notes
  <2>2. RunFacts
    BY <2>1 DEF RunInv, RunFacts, RowsSplit, Running, Phases, MapIsOfRun, WritesComplete
  <2> QED  BY <2>1, <2>2, ReportStays
<1>2. CASE Store(r)
  <2>1. /\ UNCHANGED <<data, todo, resumed, mode, idMap, failedLines, failFile, linked,
                       report, pc, writes, badWrites>>
    BY <1>2 DEF Store, disk, source, failure, memory, setup, content
  <2>2. RunFacts
    BY <2>1 DEF RunInv, RunFacts, RowsSplit, Running, Phases, MapIsOfRun,
                WritesComplete, Dealt
  <2> QED  BY <2>1, <2>2, ReportStays
<1>3. CASE CollectMade(r)
  <2>1. /\ UNCHANGED <<data, resumed, mode, failedLines, failFile, linked, report, pc>>
        /\ pc = "pass1" /\ r \in todo
        /\ todo' = todo \ {r} /\ idMap' = idMap \cup {r}
    BY <1>3 DEF CollectMade, disk, source, failure, db, setup, content, notes
  <2>2. RunFacts
    BY <2>1 DEF RunInv, RunFacts, RowsSplit, Running, Phases, MapIsOfRun, WritesComplete
  <2> QED  BY <2>1, <2>2, ReportStays
<1>4. CASE CollectFailed(r)
  <2>1. /\ UNCHANGED <<data, resumed, mode, idMap, linked, report, pc>>
        /\ pc = "pass1" /\ r \in todo /\ failFile' = failFile \cup {r}
        /\ todo' = todo \ {r} /\ failedLines' = failedLines \cup {r}
    BY <1>4 DEF CollectFailed, db, setup, content
  <2>2. RunFacts
    BY <2>1 DEF RunInv, RunFacts, RowsSplit, Running, Phases, MapIsOfRun, WritesComplete
  <2> QED  BY <2>1, <2>2, ReportStays
<1>5. CASE Pass1Ends
  <2>1. /\ UNCHANGED <<data, todo, resumed, mode, idMap, failedLines, failFile, linked, report>>
        /\ pc = "pass1" /\ pc' = "save" /\ todo = {}
    BY <1>5 DEF Pass1Ends, disk, source, failure, db, memory, setup, content, notes
  <2>2. RunFacts
    BY <2>1 DEF RunInv, RunFacts, RowsSplit, Running, Phases, MapIsOfRun, WritesComplete
  <2> QED  BY <2>1, <2>2, ReportStays
<1> QED  BY <1>1, <1>2, <1>3, <1>4, <1>5

LEMMA Pass2Run ==
    ASSUME RunInv, NEW r, SaveCheckpoint \/ Prepare \/ Write(r) \/ WriteFailed(r)
    PROVE  RunFacts /\ ReportFacts
<1>1. CASE SaveCheckpoint
  <2>1. /\ UNCHANGED <<data, todo, resumed, mode, idMap, failedLines, failFile, linked, report>>
        /\ pc = "save" /\ pc' = "prepare"
    BY <1>1 DEF SaveCheckpoint, failure, db, memory, setup, content
  <2>2. RunFacts
    BY <2>1 DEF RunInv, RunFacts, RowsSplit, Running, Phases, MapIsOfRun, WritesComplete
  <2> QED  BY <2>1, <2>2, ReportStays
<1>2. CASE Prepare
  <2>1. /\ UNCHANGED <<data, todo, resumed, mode, idMap, failedLines, failFile, linked, report>>
        /\ pc = "prepare" /\ pc' = "pass2" /\ writes' = ToWrite
    BY <1>2 DEF Prepare, disk, source, failure, db, setup, content, notes
  <2>2. \A q \in data \cap idMap : Target[q] \in idMap => q \in ToWrite
    BY DEF ToWrite, Resolved
  <2>3. RunFacts
    BY <2>1, <2>2 DEF RunInv, RunFacts, RowsSplit, Running, Phases, MapIsOfRun,
                      WritesComplete, Dealt
  <2> QED  BY <2>1, <2>3, ReportStays
<1>3. CASE Write(r) \/ WriteFailed(r)
  <2>1. /\ UNCHANGED <<data, todo, resumed, mode, idMap, failedLines, failFile, report, pc>>
        /\ pc = "pass2" /\ linked \subseteq linked' /\ badWrites \subseteq badWrites'
        /\ writes \subseteq writes' \cup linked' \cup badWrites'
    BY <1>3 DEF Write, WriteFailed, disk, source, failure, setup, content, notes
  <2>2. RunFacts
    BY <2>1 DEF RunInv, RunFacts, RowsSplit, Running, Phases, MapIsOfRun,
                WritesComplete, Dealt
  <2> QED  BY <2>1, <2>2, ReportStays
<1> QED  BY <1>1, <1>2, <1>3

(* The counts of a run whose rows are all in the map or failed.            *)
LEMMA CountsAddUp ==
    ASSUME NEW A \in SUBSET Row, NEW B \in SUBSET Row, A \cap B = {}
    PROVE  Cardinality(A \cup B) - Cardinality(A) - Cardinality(B) = 0
<1>1. IsFiniteSet(A) /\ IsFiniteSet(B)  BY RowSetsCount
<1>2. Cardinality(A \cup B) = Cardinality(A) + Cardinality(B) - Cardinality({})
  BY <1>1, FS_Union
<1>3. Cardinality({}) = 0  BY FS_EmptySet
<1>4. Cardinality(A) \in Nat /\ Cardinality(B) \in Nat  BY RowSetsCount
<1> QED  BY <1>2, <1>3, <1>4

LEMMA FinishRun ==
    ASSUME RunInv, NEW aborted \in BOOLEAN, Finish(aborted)
    PROVE  RunFacts /\ ReportFacts
<1>1. /\ UNCHANGED <<data, todo, resumed, mode, idMap, failedLines, linked, writes, badWrites>>
      /\ pc = "pass2" /\ pc' = "idle" /\ failFile \subseteq failFile'
  BY DEF Finish, FinalFailFile, db, memory, setup, content
<1>2. /\ report'.success = Success(aborted) /\ report'.resumed = resumed
      /\ report'.mode = mode /\ report'.total = data /\ report'.created = idMap
      /\ report'.failed = failedLines
      /\ report'.unaccounted = Cardinality(data) - Cardinality(idMap)
                                                 - Cardinality(failedLines)
  BY DEF Finish
<1>3. Success(aborted) => writes = {} /\ badWrites = {}
  BY DEF Finish, Success
<1>4. RunFacts
  BY <1>1 DEF RunInv, RunFacts, RowsSplit, Running, Phases, MapIsOfRun, WritesComplete
<1>5. ~resumed => data = idMap \cup failedLines /\ idMap \cap failedLines = {}
  BY <1>1 DEF RunInv, RowsSplit, Running, Phases
<1>6. ~resumed => Cardinality(data) - Cardinality(idMap) - Cardinality(failedLines) = 0
  BY <1>5, CountsAddUp DEF RunInv, DiskInv, TypeOK
<1>7. failedLines \subseteq failFile'
  BY <1>1 DEF RunInv, Phases, Running
<1>8. FreshRunAddsUp'
  BY <1>2, <1>5, <1>6, <1>7 DEF FreshRunAddsUp
<1>9. SuccessMeansLinked'
  BY <1>1, <1>2, <1>3 DEF RunInv, MapIsOfRun, WritesComplete, Dealt, SuccessMeansLinked
<1> QED  BY <1>4, <1>8, <1>9 DEF ReportFacts

LEMMA OtherRun ==
    ASSUME RunInv,
           \/ GiveUp \/ GiveUpEmptyHanded \/ Crash \/ UNCHANGED vars
           \/ \E inMiddle \in BOOLEAN : Edit(inMiddle)
    PROVE  RunFacts /\ ReportFacts
<1>1. /\ UNCHANGED <<data, todo, resumed, mode, idMap, failedLines, failFile, linked,
                     writes, badWrites>>
      /\ \/ pc' = "idle" /\ report' = NoReport
         \/ pc' = pc /\ report' = report
  BY DEF GiveUp, GiveUpEmptyHanded, Crash, Edit, vars, disk, source, failure, db, memory,
         setup, content, notes
<1>2. RunFacts
  BY <1>1 DEF RunInv, RunFacts, RowsSplit, Running, Phases, MapIsOfRun,
              WritesComplete, Dealt
<1> QED  BY <1>1, <1>2, ReportStays

LEMMA RunStep == RunInv /\ [Next]_vars => RunInv'
<1> SUFFICES ASSUME RunInv, [Next]_vars PROVE RunInv'  OBVIOUS
<1>1. DiskInv'  BY DiskStep DEF RunInv
<1>2. RunFacts /\ ReportFacts
  <2>1. ASSUME Connect \/ Pass1Ends \/ SaveCheckpoint \/ Prepare
        PROVE  RunFacts /\ ReportFacts
    BY <2>1, Pass1Run, Pass2Run
  <2> QED
    BY <2>1, StartRun, ReadRun, Pass1Run, Pass2Run, FinishRun, OtherRun DEF Next, Progress
<1> QED  BY <1>1, <1>2 DEF RunInv, RunFacts, ReportFacts

LEMMA RunInvHolds == Spec => []RunInv
BY RunInvInit, RunStep, PTL DEF Spec

(* What a run that did not resume reports adds up: nothing is unaccounted   *)
(* for, and its failed rows are in the fail file.                           *)
THEOREM ReportsAddUp == Spec => []FreshRunAddsUp
BY RunInvHolds, PTL DEF RunInv

(* A run reported as a success has linked every record of its map to its   *)
(* target, whatever crashed, resumed or was edited before it.              *)
THEOREM SuccessIsLinked == Spec => []SuccessMeansLinked
BY RunInvHolds, PTL DEF RunInv

(* A checkpoint may be resumed from, after any sequence of runs.           *)
THEOREM CheckpointsAreSound == Spec => []CheckpointIsSound
<1>1. CheckpointIsTrue /\ ResumeReadsSameRows => CheckpointIsSound
  BY DEF CheckpointIsSound
<1> QED  BY <1>1, CheckpointsAreTrue, ResumesAreSound, PTL

(* Pass 2 writes the relations it should, and no others.                   *)
THEOREM LinkingHolds == Spec => []LinkingIsSound
<1>1. LinksAreSound /\ SuccessMeansLinked => LinkingIsSound
  BY DEF LinkingIsSound
<1> QED  BY <1>1, LinksHold, SuccessIsLinked, PTL
=============================================================================

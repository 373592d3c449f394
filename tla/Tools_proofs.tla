---------------------------- MODULE Tools_proofs ----------------------------
(***************************************************************************)
(* Theorems about VatSwitch for any settings and jobs, and any number of   *)
(* runs, faults and edits; then what the specifications of Tools promise,  *)
(* for any constants.                                                      *)
(***************************************************************************)
EXTENDS VatSwitch, Tools, Slicing_proofs, SequenceTheorems

(***************************************************************************)
(* Types.  A restoration that is still to make an attempt has one left,    *)
(* and attempts are counted from nought in every run.                      *)
(***************************************************************************)
AttemptLeft ==
    /\ pc = "attempt" => attempt \in 0 .. MaxRetries
    /\ pc \notin {"attempt", "restore", "idle"} => attempt = 0
TypeInv == TypeOK /\ AttemptLeft

LEMMA SnapshotType ==
    /\ NoSnapshot \in Snapshots
    /\ \A known \in SUBSET Setting, on \in SUBSET Setting : Snapshot(known, on) \in Snapshots
BY DEF NoSnapshot, Snapshot, Snapshots

LEMMA JobType ==
    \A j \in Jobs \cup {NoJob} : Saved(j) \subseteq Setting /\ Params(j) \subseteq Setting
BY JobAssumption DEF NoJob, Saved, Params, Setting, Kinds

Backups == [state : {"none", "torn", "good"}, snapshot : Snapshots]

LEMMA BackupType ==
    /\ NoBackup \in Backups /\ Torn \in Backups
    /\ \A snapshot \in Snapshots : Good(snapshot) \in Backups
BY SnapshotType DEF NoBackup, Torn, Good, Backups

LEMMA InitType == Init => TypeInv
<1> SUFFICES ASSUME Init PROVE TypeInv  OBVIOUS
<1>1. backup \in Backups /\ output \in Snapshots /\ original \in Snapshots
  BY SnapshotType, BackupType DEF Init
<1>2. attempt \in 0 .. MaxRetries /\ edits \in 0 .. MaxEdits /\ faults \in 0 .. MaxFaults
  BY BoundAssumption DEF Init
<1>3. attempt \in 0 .. MaxRetries + 1  BY <1>2, BoundAssumption
<1> QED  BY <1>1, <1>2, <1>3 DEF Init, TypeInv, TypeOK, AttemptLeft, Backups

LEMMA NextType == TypeInv /\ [Next]_vars => TypeInv'
<1> SUFFICES ASSUME TypeInv, [Next]_vars PROVE TypeInv'  OBVIOUS
<1> USE BoundAssumption DEF TypeInv, TypeOK, AttemptLeft, Backups, disk, memory, history, Fault
<1>1. ASSUME NEW j \in Jobs, StartJob(j) PROVE TypeInv'
  BY <1>1, SnapshotType DEF StartJob
<1>2. CASE Poll
  <2>1. original' \in Snapshots  BY <1>2, SnapshotType, JobType DEF Poll
  <2> QED  BY <1>2, <2>1 DEF Poll
<1>3. CASE PollFails  BY <1>3 DEF PollFails
<1>4. CASE OpenBackup  BY <1>4, BackupType DEF OpenBackup
<1>5. CASE DumpBackup  BY <1>5, BackupType DEF DumpBackup
<1>6. CASE SaveFails  BY <1>6 DEF SaveFails
<1>7. CASE Connect
  <2>1. todo' \subseteq Setting  BY <1>7, JobType DEF Connect, SwitchedOff
  <2> QED  BY <1>7, <2>1 DEF Connect
<1>8. CASE ConnectFails  BY <1>8 DEF ConnectFails, Leave
<1>9. CASE SwitchedAllOff  BY <1>9 DEF SwitchedAllOff, Leave
<1>10. CASE ImportEnds
  <2>1. attempt \in 0 .. MaxRetries + 1 /\ pc' \in {"attempt", "idle"}  BY <1>10 DEF ImportEnds
  <2> QED  BY <1>10, <2>1 DEF ImportEnds
<1>11. CASE Attempt
  <2>1. attempt' \in 0 .. MaxRetries + 1  BY <1>11 DEF Attempt
  <2>2. todo' \subseteq Setting  BY <1>11 DEF Attempt, Snapshots
  <2> QED  BY <1>11, <2>1, <2>2 DEF Attempt
<1>12. CASE AttemptFails
  BY <1>12 DEF AttemptFails, MayRetry, GiveUp
<1>13. CASE RestoreEnds
  <2>1. backup' = NoBackup \/ backup' = backup  BY <1>13 DEF RestoreEnds, KeptBackup
  <2>2. unknown' \subseteq Setting  BY <1>13 DEF RestoreEnds, Snapshots
  <2> QED  BY <1>13, <2>1, <2>2, BackupType DEF RestoreEnds
<1>14. ASSUME NEW s \in Setting, SwitchOff(s) PROVE TypeInv'
  BY <1>14 DEF SwitchOff
<1>15. ASSUME NEW s \in Setting, SwitchOffFails(s) PROVE TypeInv'
  BY <1>15 DEF SwitchOffFails
<1>16. ASSUME NEW s \in Setting, Restore(s) PROVE TypeInv'
  BY <1>16 DEF Restore
<1>17. ASSUME NEW s \in Setting, RestorePasses(s) PROVE TypeInv'
  BY <1>17 DEF RestorePasses, MayRetry, GiveUp
<1>18. ASSUME NEW s \in Setting, RestoreRefused(s) PROVE TypeInv'
  <2>1. ok' \in BOOLEAN  BY <1>18 DEF RestoreRefused, OkAfterFailure
  <2>2. todo' \subseteq Setting  BY <1>18 DEF RestoreRefused
  <2> QED  BY <1>18, <2>1, <2>2 DEF RestoreRefused
<1>19. CASE Recover \/ RestoreOutput
  <2>1. original' \in Snapshots  BY <1>19 DEF Recover, RestoreOutput, RestoreFrom
  <2>2. ok' \in BOOLEAN /\ job' \in Jobs \cup {NoJob} /\ attempt' = 0
    BY <1>19 DEF Recover, RestoreOutput, RestoreFrom
  <2> QED  BY <1>19, <2>1, <2>2 DEF Recover, RestoreOutput, RestoreFrom
<1>20. CASE Crash  BY <1>20 DEF Crash
<1>21. ASSUME NEW s \in Setting, Edit(s) PROVE TypeInv'
  BY <1>21 DEF Edit
<1>22. CASE UNCHANGED vars  BY <1>22 DEF vars
<1> QED
  BY <1>1, <1>2, <1>3, <1>4, <1>5, <1>6, <1>7, <1>8, <1>9, <1>10, <1>11, <1>12, <1>13,
     <1>14, <1>15, <1>16, <1>17, <1>18, <1>19, <1>20, <1>21, <1>22 DEF Next, Step

(* Whatever users and administrators do, every variable keeps its type and *)
(* a restoration makes at most MaxRetries + 1 attempts.                    *)
THEOREM TypeCorrect == Spec => []TypeOK
<1>1. Spec => []TypeInv  BY InitType, NextType, PTL DEF Spec
<1> QED  BY <1>1, PTL DEF TypeInv

-----------------------------------------------------------------------------
(***************************************************************************)
(* What the settings were is never lost.  Every snapshot is true of the    *)
(* settings that are not excused; while a snapshot is being made there is  *)
(* no backup, so the server still has the settings as they are wanted;     *)
(* settings are switched off when the backup holds what was read; and the  *)
(* backup is deleted when a restoration has dealt with all it holds.       *)
(***************************************************************************)
TrueOf(snapshot) ==
    \A s \in Setting \ Excused :
        s \in snapshot.known => (s \in snapshot.on <=> s \in wanted)

SnapshotsAreTrue ==
    /\ backup.state = "good" => TrueOf(backup.snapshot)
    /\ output.exists => TrueOf(output)
    /\ pc # "idle" => TrueOf(original)

BackupFollows ==
    /\ pc \in {"poll", "open", "dump"} => backup.state # "good"
    /\ pc \in {"connect", "disable"} /\ ~unsaved =>
          backup.state = "good" /\ backup.snapshot = original

RestoredSoFar ==
    pc = "restore" =>
        /\ todo \subseteq original.known
        /\ ok => \A s \in Setting \ Excused : s \in original.known \ todo => Back(s)

NothingSaidYet == pc # "idle" => report = "none"

VatInv == /\ Recoverable /\ RestoredIsTrue /\ SnapshotsAreTrue
          /\ BackupFollows /\ RestoredSoFar /\ NothingSaidYet

LEMMA InitVat == Init => VatInv
BY DEF Init, VatInv, Recoverable, RestoredIsTrue, SnapshotsAreTrue, BackupFollows,
       RestoredSoFar, NothingSaidYet, Back, NoBackup, NoSnapshot

LEMMA NextVat == VatInv /\ [Next]_vars => VatInv'
<1> SUFFICES ASSUME VatInv, [Next]_vars PROVE VatInv'  OBVIOUS
<1> USE DEF VatInv, Recoverable, RestoredIsTrue, SnapshotsAreTrue, BackupFollows,
        RestoredSoFar, NothingSaidYet, TrueOf, Back, Held, Excused, BackedUp,
        disk, memory, history
<1>1. ASSUME NEW j \in Jobs, StartJob(j) PROVE VatInv'
  BY <1>1 DEF StartJob, NoSnapshot
<1>2. CASE Poll  BY <1>2 DEF Poll, Snapshot
<1>3. CASE PollFails  BY <1>3 DEF PollFails
<1>4. CASE OpenBackup  BY <1>4 DEF OpenBackup, Torn
<1>5. CASE DumpBackup  BY <1>5 DEF DumpBackup, Good
<1>6. CASE SaveFails  BY <1>6 DEF SaveFails
<1>7. CASE Connect  BY <1>7 DEF Connect
<1>8. CASE ConnectFails  BY <1>8 DEF ConnectFails, Leave
<1>9. CASE SwitchedAllOff  BY <1>9 DEF SwitchedAllOff, Leave
<1>10. CASE ImportEnds  BY <1>10 DEF ImportEnds
<1>11. CASE Attempt  BY <1>11 DEF Attempt
<1>12. CASE AttemptFails  BY <1>12 DEF AttemptFails, GiveUp
<1>13. CASE RestoreEnds  BY <1>13 DEF RestoreEnds, KeptBackup, NoBackup, NoSnapshot
<1>14. ASSUME NEW s \in Setting, SwitchOff(s) PROVE VatInv'
  BY <1>14 DEF SwitchOff
<1>15. ASSUME NEW s \in Setting, SwitchOffFails(s) PROVE VatInv'
  BY <1>15 DEF SwitchOffFails
<1>16. ASSUME NEW s \in Setting, Restore(s) PROVE VatInv'
  <2>1. /\ pc = "restore" /\ s \in original.known /\ todo' = todo \ {s}
        /\ UNCHANGED <<backup, output, pc, original, ok, report, wanted, stale, unknown, unsaved>>
    BY <1>16 DEF Restore, Turn
  <2>2. \A x \in Setting \ {s} : x \in db' <=> x \in db  BY <1>16 DEF Restore
  <2>3. s \in db' <=> s \in original.on  BY <1>16 DEF Restore
  <2>4. Excused' = Excused  BY <2>1
  <2>5. Recoverable'
    BY <2>1, <2>2, <2>3, <2>4
  <2>6. RestoredSoFar'
    BY <2>1, <2>2, <2>3, <2>4
  <2> QED  BY <2>1, <2>5, <2>6
<1>17. ASSUME NEW s \in Setting, RestorePasses(s) PROVE VatInv'
  BY <1>17 DEF RestorePasses, GiveUp
<1>18. ASSUME NEW s \in Setting, RestoreRefused(s) PROVE VatInv'
  BY <1>18 DEF RestoreRefused, OkAfterFailure
<1>19. CASE Recover \/ RestoreOutput
  BY <1>19 DEF Recover, RestoreOutput, RestoreFrom
<1>20. CASE Crash  BY <1>20 DEF Crash
<1>21. ASSUME NEW s \in Setting, Edit(s) PROVE VatInv'
  BY <1>21 DEF Edit
<1>22. CASE UNCHANGED vars  BY <1>22 DEF vars
<1> QED
  BY <1>1, <1>2, <1>3, <1>4, <1>5, <1>6, <1>7, <1>8, <1>9, <1>10, <1>11, <1>12, <1>13,
     <1>14, <1>15, <1>16, <1>17, <1>18, <1>19, <1>20, <1>21, <1>22 DEF Next, Step

LEMMA VatInvHolds == Spec => []VatInv
BY InitVat, NextVat, PTL DEF Spec

(* Wherever a run is killed, each setting is as it is wanted or the backup *)
(* says how it is wanted, unless it is one of those excused.               *)
THEOREM NothingIsLost == Spec => []Recoverable
<1>1. VatInv => Recoverable  BY DEF VatInv
<1> QED  BY <1>1, VatInvHolds, PTL

(* When a run says that the settings are restored, they are: also those a  *)
(* run killed before it had switched off, and after any number of refused  *)
(* or repeated attempts.                                                   *)
THEOREM RestorationsAreTrue == Spec => []RestoredIsTrue
<1>1. VatInv => RestoredIsTrue  BY DEF VatInv
<1> QED  BY <1>1, VatInvHolds, PTL

-----------------------------------------------------------------------------
(***************************************************************************)
(* DefaultVariants                                                         *)
(***************************************************************************)
(* The number of elements is the library's.                                *)
LEMMA VariantsCardinality == \A S : Variants!Cardinality(S) = Cardinality(S)
BY DEF Variants!Cardinality, Cardinality

(* Types without bounds, which follow from the counts.                     *)
VariantsMaps ==
    /\ v1 \in [VariantsTemplate -> Nat]
    /\ v2 \in [VariantsCommand -> {"workflow", "dry run", "fix", "warn"}]
    /\ v3 \in [VariantsCommand -> SUBSET VariantsTemplate]
    /\ v4 \in [VariantsCommand -> {"search", "create", "over"}]
    /\ v5 \in [VariantsCommand -> SUBSET VariantsTemplate]
    /\ v6 \in [VariantsCommand -> SUBSET VariantsTemplate]
    /\ v7 \in [VariantsCommand -> Nat] /\ v8 \in [VariantsCommand -> Nat]
    /\ v9 \in [VariantsCommand -> SUBSET VariantsTemplate]
    /\ v10 \in [VariantsCommand -> {"none", "ok", "failed"}]
    /\ v11 \in 0 .. VariantsFaults

VariantsWithin ==
    \A c \in VariantsCommand :
        v5[c] \subseteq v9[c] /\ v6[c] \subseteq v9[c] /\ v9[c] \subseteq v3[c]

(* Sets of templates and of commands are finite, and what is added and     *)
(* taken away is counted.                                                  *)
LEMMA VariantsFinite ==
    /\ \A S \in SUBSET VariantsTemplate : IsFiniteSet(S) /\ Cardinality(S) \in Nat
    /\ \A S \in SUBSET VariantsCommand : IsFiniteSet(S) /\ Cardinality(S) \in Nat
    /\ \A S, T \in SUBSET VariantsTemplate :
          T \subseteq S => Cardinality(S \ T) = Cardinality(S) - Cardinality(T)
    /\ \A S, T : IsFiniteSet(T) /\ S \subseteq T => Cardinality(S) <= Cardinality(T)
<1>1. \A S \in SUBSET VariantsTemplate : IsFiniteSet(S) /\ Cardinality(S) \in Nat
  BY VariantsAssumption, FS_Subset, FS_CardinalityType
<1>2. \A S \in SUBSET VariantsCommand : IsFiniteSet(S) /\ Cardinality(S) \in Nat
  BY VariantsAssumption, FS_Subset, FS_CardinalityType
<1>3. \A S, T : IsFiniteSet(T) /\ S \subseteq T => Cardinality(S) <= Cardinality(T)
  BY FS_Subset
<1>4. ASSUME NEW S \in SUBSET VariantsTemplate, NEW T \in SUBSET VariantsTemplate, T \subseteq S
      PROVE  Cardinality(S \ T) = Cardinality(S) - Cardinality(T)
  <2>1. Cardinality(S \ T) = Cardinality(S) - Cardinality(S \cap T)
    BY <1>1, FS_Difference
  <2>2. S \cap T = T
    BY <1>4
  <2>. QED
    BY <2>1, <2>2
<1>. QED
  BY <1>1, <1>2, <1>3, <1>4

(* The first of a failed batch is one of it.                               *)
LEMMA VariantsFirst ==
    ASSUME NEW c \in VariantsCommand, VariantsMaps, v6[c] # {}
    PROVE  Variants!NextOne(c) \in v6[c]
<1>1. v6[c] \subseteq Nat
  BY VariantsAssumption DEF VariantsMaps
<1>2. \E t \in v6[c] : \A u \in v6[c] : t <= u
  BY <1>1, LeastExists
<1>. QED
  BY <1>2 DEF Variants!NextOne


(* The number of faults is a number.                                       *)
LEMMA VariantsFaultsNat == VariantsFaults \in Nat
BY VariantsAssumption


(* How far an action gets: sums of naturals are naturals, and a map keeps  *)
(* its type when one value changes.                                        *)
LEMMA VariantsAdded ==
    ASSUME NEW f \in [VariantsCommand -> Nat], NEW c \in VariantsCommand, NEW n \in Nat
    PROVE  /\ f[c] + n \in Nat
           /\ [f EXCEPT ![c] = f[c] + n] \in [VariantsCommand -> Nat]
<1>1. f[c] \in Nat
  OBVIOUS
<1>2. f[c] + n \in Nat
  BY <1>1
<1>. QED
  BY <1>2

(* A call that makes variants makes one of each of its templates.          *)
LEMMA VariantsMade ==
    ASSUME NEW S, v1 \in [VariantsTemplate -> Nat], Variants!Make(S)
    PROVE  /\ v1' \in [VariantsTemplate -> Nat]
           /\ \A t \in VariantsTemplate :
                 v1[t] \in Nat /\ v1'[t] = IF t \in S THEN v1[t] + 1 ELSE v1[t]
<1>1. \A t \in VariantsTemplate : v1[t] \in Nat
  OBVIOUS
<1>2. \A t \in VariantsTemplate : v1'[t] = v1[t] + IF t \in S THEN 1 ELSE 0
  BY DEF Variants!Make
<1>3. \A t \in VariantsTemplate : v1'[t] = IF t \in S THEN v1[t] + 1 ELSE v1[t]
  BY <1>1, <1>2
<1>4. \A t \in VariantsTemplate : v1[t] + (IF t \in S THEN 1 ELSE 0) \in Nat
  BY <1>1
<1>5. v1' \in [VariantsTemplate -> Nat]
  BY <1>4 DEF Variants!Make
<1>. QED
  BY <1>1, <1>3, <1>5

(* A fault is counted, within its bound.                                   *)
LEMMA VariantsFault ==
    ASSUME v11 \in 0 .. VariantsFaults, Variants!Fault
    PROVE  v11' \in 0 .. VariantsFaults /\ v11' > 0
<1>1. v11 < VariantsFaults /\ v11' = v11 + 1 /\ VariantsFaults \in Nat /\ v11 \in Nat
  BY VariantsFaultsNat DEF Variants!Fault
<1>. QED
  BY <1>1

(* A call that raises has made all of its variants or none.                *)
LEMMA VariantsRaised ==
    ASSUME NEW S, VariantsMaps, Variants!Raises(S)
    PROVE  /\ v1' \in [VariantsTemplate -> Nat] /\ v11' \in 0 .. VariantsFaults
           /\ \A t \in VariantsTemplate :
                 /\ v1[t] \in Nat
                 /\ v1'[t] = v1[t] \/ (t \in S /\ v1'[t] = v1[t] + 1 /\ Variants!Makeable(S))
           /\ v11' = 0 => v11 = 0 /\ ~Variants!Makeable(S)
<1>1. v1 \in [VariantsTemplate -> Nat] /\ v11 \in 0 .. VariantsFaults
  BY DEF VariantsMaps
<1>2. CASE ~Variants!Makeable(S) /\ UNCHANGED <<v1, v11>>
  BY <1>1, <1>2
<1>3. CASE Variants!Fault /\ UNCHANGED v1
  BY <1>1, <1>3, VariantsFault
<1>4. CASE Variants!Makeable(S) /\ Variants!Fault /\ Variants!Make(S)
  <2>1. v11' \in 0 .. VariantsFaults /\ v11' > 0
    BY <1>1, <1>4, VariantsFault
  <2>2. /\ v1' \in [VariantsTemplate -> Nat]
        /\ \A t \in VariantsTemplate :
              v1[t] \in Nat /\ v1'[t] = IF t \in S THEN v1[t] + 1 ELSE v1[t]
    BY <1>1, <1>4, VariantsMade
  <2>. QED
    BY <2>1, <2>2, <1>4
<1>. QED
  BY <1>2, <1>3, <1>4 DEF Variants!Raises

(* A batch is a part of what is to do.                                     *)
LEMMA VariantsBatchOf ==
    ASSUME NEW c \in VariantsCommand, VariantsMaps
    PROVE  /\ Variants!Batch(c) \subseteq v5[c] /\ Variants!Batch(c) \subseteq VariantsTemplate
           /\ Cardinality(Variants!Batch(c)) \in Nat
           /\ Variants!Cardinality(Variants!Batch(c)) = Cardinality(Variants!Batch(c))
<1>1. Variants!Batch(c) \subseteq v5[c]
  BY DEF Variants!Batch
<1>2. v5[c] \subseteq VariantsTemplate
  BY DEF VariantsMaps
<1>3. Variants!Batch(c) \in SUBSET VariantsTemplate
  BY <1>1, <1>2
<1>. QED
  BY <1>1, <1>3, VariantsFinite, VariantsCardinality

(* Every action keeps these types.                                         *)
LEMMA VariantsMapped ==
    ASSUME VariantsMaps, [Variants!Next]_Variants!vars
    PROVE  VariantsMaps'
<1>. USE DEF VariantsMaps
<1>1. ASSUME NEW c \in VariantsCommand, Variants!Find(c) PROVE VariantsMaps'
  <2>1. \/ v4' = [v4 EXCEPT ![c] = "over"] /\ v10' = [v10 EXCEPT ![c] = "ok"] /\ v5' = v5
        \/ /\ v4' = [v4 EXCEPT ![c] = "create"] /\ v10' = v10
           /\ v5' = [v5 EXCEPT ![c] = Variants!Orphans(c)]
    BY <1>1 DEF Variants!Find, Variants!Go
  <2>2. Variants!Orphans(c) \in SUBSET VariantsTemplate
    BY DEF Variants!Orphans
  <2>3. v4' \in [VariantsCommand -> {"search", "create", "over"}]
    BY <2>1
  <2>4. v5' \in [VariantsCommand -> SUBSET VariantsTemplate]
    BY <2>1, <2>2
  <2>5. v9' \in [VariantsCommand -> SUBSET VariantsTemplate]
    BY <1>1, <2>2 DEF Variants!Find
  <2>6. v10' \in [VariantsCommand -> {"none", "ok", "failed"}]
    BY <2>1
  <2>. QED
    BY <1>1, <2>3, <2>4, <2>5, <2>6 DEF Variants!Find
<1>2. ASSUME NEW c \in VariantsCommand, Variants!FindFails(c) PROVE VariantsMaps'
  <2>1. v4' \in [VariantsCommand -> {"search", "create", "over"}]
    BY <1>2 DEF Variants!FindFails, Variants!Go
  <2>2. v10' \in [VariantsCommand -> {"none", "ok", "failed"}]
    BY <1>2 DEF Variants!FindFails
  <2>3. v11' \in 0 .. VariantsFaults
    BY <1>2, VariantsFault DEF Variants!FindFails
  <2>. QED
    BY <1>2, <2>1, <2>2, <2>3 DEF Variants!FindFails
<1>3. ASSUME NEW c \in VariantsCommand, Variants!CreateBatch(c) PROVE VariantsMaps'
  <2>1. v1' \in [VariantsTemplate -> Nat]
    BY <1>3, VariantsMade DEF Variants!CreateBatch
  <2>2. v5' \in [VariantsCommand -> SUBSET VariantsTemplate]
    BY <1>3, VariantsBatchOf DEF Variants!CreateBatch
  <2>3. v7' \in [VariantsCommand -> Nat]
    BY <1>3, VariantsBatchOf, VariantsAdded DEF Variants!CreateBatch
  <2>. QED
    BY <1>3, <2>1, <2>2, <2>3 DEF Variants!CreateBatch
<1>4. ASSUME NEW c \in VariantsCommand, Variants!BatchFails(c) PROVE VariantsMaps'
  <2>1. v1' \in [VariantsTemplate -> Nat]
    BY <1>4, VariantsRaised DEF Variants!BatchFails
  <2>2. v5' \in [VariantsCommand -> SUBSET VariantsTemplate]
    BY <1>4, VariantsBatchOf DEF Variants!BatchFails
  <2>3. v6' \in [VariantsCommand -> SUBSET VariantsTemplate]
    BY <1>4, VariantsBatchOf DEF Variants!BatchFails
  <2>4. v11' \in 0 .. VariantsFaults
    BY <1>4, VariantsRaised DEF Variants!BatchFails
  <2>. QED
    BY <1>4, <2>1, <2>2, <2>3, <2>4 DEF Variants!BatchFails
<1>5. ASSUME NEW c \in VariantsCommand, Variants!CreateOne(c) PROVE VariantsMaps'
  <2>1. v1' \in [VariantsTemplate -> Nat]
    BY <1>5, VariantsMade DEF Variants!CreateOne
  <2>2. v6' \in [VariantsCommand -> SUBSET VariantsTemplate]
    BY <1>5 DEF Variants!CreateOne
  <2>3. v7' \in [VariantsCommand -> Nat]
    BY <1>5, VariantsAdded DEF Variants!CreateOne
  <2>. QED
    BY <1>5, <2>1, <2>2, <2>3 DEF Variants!CreateOne
<1>6. ASSUME NEW c \in VariantsCommand, Variants!OneFails(c) PROVE VariantsMaps'
  <2>1. v1' \in [VariantsTemplate -> Nat]
    BY <1>6, VariantsRaised DEF Variants!OneFails
  <2>2. v6' \in [VariantsCommand -> SUBSET VariantsTemplate]
    BY <1>6 DEF Variants!OneFails
  <2>3. v8' \in [VariantsCommand -> Nat]
    BY <1>6, VariantsAdded DEF Variants!OneFails, Variants!Counted
  <2>4. v11' \in 0 .. VariantsFaults
    BY <1>6, VariantsRaised DEF Variants!OneFails
  <2>. QED
    BY <1>6, <2>1, <2>2, <2>3, <2>4 DEF Variants!OneFails
<1>7. ASSUME NEW c \in VariantsCommand, Variants!Report(c) PROVE VariantsMaps'
  <2>1. v4' \in [VariantsCommand -> {"search", "create", "over"}]
    BY <1>7 DEF Variants!Report, Variants!Go
  <2>2. v10' \in [VariantsCommand -> {"none", "ok", "failed"}]
    BY <1>7 DEF Variants!Report
  <2>. QED
    BY <1>7, <2>1, <2>2 DEF Variants!Report
<1>8. CASE UNCHANGED Variants!vars
  BY <1>8 DEF Variants!vars
<1>. QED
  BY <1>1, <1>2, <1>3, <1>4, <1>5, <1>6, <1>7, <1>8 DEF Variants!Next


(* An action of a command leaves what the other commands know.             *)
VariantsApart(c) ==
    /\ v2' = v2 /\ v3' = v3
    /\ \A d \in VariantsCommand \ {c} :
          /\ v4'[d] = v4[d] /\ v5'[d] = v5[d] /\ v6'[d] = v6[d] /\ v7'[d] = v7[d]
          /\ v8'[d] = v8[d] /\ v9'[d] = v9[d] /\ v10'[d] = v10[d]

(* A search finds the templates without a variant; a command that makes    *)
(* variants then has them to do, any other is over.                        *)
LEMMA VariantsFound ==
    ASSUME NEW c \in VariantsCommand, VariantsMaps, Variants!CountsHold, Variants!Find(c)
    PROVE  /\ VariantsApart(c)
           /\ v1' = v1 /\ v6' = v6 /\ v7' = v7 /\ v8' = v8 /\ v11' = v11
           /\ v5[c] = {} /\ v6[c] = {} /\ v9[c] = {} /\ v10[c] = "none"
           /\ v9'[c] = {t \in v3[c] : v1[t] = 0}
           /\ \/ /\ v9'[c] = {} \/ ~Variants!Fixes(c)
                 /\ v4'[c] = "over" /\ v10'[c] = "ok" /\ v5'[c] = {}
              \/ /\ Variants!Fixes(c) /\ v4'[c] = "create" /\ v10'[c] = "none"
                 /\ v5'[c] = v9'[c]
<1>. USE DEF VariantsMaps
<1>1. /\ v4[c] = "search" /\ v2' = v2 /\ v3' = v3 /\ v1' = v1 /\ v6' = v6 /\ v7' = v7
      /\ v8' = v8 /\ v11' = v11
  BY DEF Variants!Find
<1>2. v9' = [v9 EXCEPT ![c] = Variants!Orphans(c)]
  BY DEF Variants!Find
<1>3. \/ /\ Variants!Orphans(c) = {} \/ v2[c] \in {"warn", "dry run"}
         /\ v4' = [v4 EXCEPT ![c] = "over"] /\ v10' = [v10 EXCEPT ![c] = "ok"] /\ v5' = v5
      \/ /\ v2[c] \notin {"warn", "dry run"}
         /\ v4' = [v4 EXCEPT ![c] = "create"] /\ v10' = v10
         /\ v5' = [v5 EXCEPT ![c] = Variants!Orphans(c)]
  BY DEF Variants!Find, Variants!Go
<1>4. v5[c] = {} /\ v6[c] = {} /\ v9[c] = {} /\ v10[c] = "none"
  BY <1>1 DEF Variants!CountsHold
<1>5. VariantsApart(c)
  BY <1>1, <1>2, <1>3 DEF VariantsApart
<1>6. v9'[c] = Variants!Orphans(c)
  BY <1>2
<1>7. Variants!Orphans(c) = {t \in v3[c] : v1[t] = 0}
  BY DEF Variants!Orphans
<1>8. Variants!Fixes(c) <=> v2[c] \notin {"warn", "dry run"}
  BY DEF Variants!Fixes
<1>9. \/ /\ v9'[c] = {} \/ ~Variants!Fixes(c)
         /\ v4'[c] = "over" /\ v10'[c] = "ok" /\ v5'[c] = {}
      \/ /\ Variants!Fixes(c) /\ v4'[c] = "create" /\ v10'[c] = "none"
         /\ v5'[c] = v9'[c]
  BY <1>3, <1>4, <1>6, <1>8
<1>. QED
  BY <1>1, <1>4, <1>5, <1>6, <1>7, <1>9

(* A search that fails ends its command with nothing found.                *)
LEMMA VariantsLost ==
    ASSUME NEW c \in VariantsCommand, VariantsMaps, Variants!CountsHold, Variants!FindFails(c)
    PROVE  /\ VariantsApart(c)
           /\ v1' = v1 /\ v5' = v5 /\ v6' = v6 /\ v7' = v7 /\ v8' = v8 /\ v9' = v9 /\ v11' > 0
           /\ v5[c] = {} /\ v6[c] = {} /\ v9[c] = {} /\ v4'[c] = "over"
           /\ v10'[c] = IF v2[c] \in {"fix", "warn"} THEN "none" ELSE "failed"
<1>. USE DEF VariantsMaps
<1>1. /\ v4[c] = "search" /\ v2' = v2 /\ v3' = v3 /\ v1' = v1 /\ v5' = v5 /\ v6' = v6
      /\ v7' = v7 /\ v8' = v8 /\ v9' = v9
      /\ v4' = [v4 EXCEPT ![c] = "over"]
      /\ v10' = [v10 EXCEPT ![c] = IF v2[c] \in {"fix", "warn"} THEN "none" ELSE "failed"]
  BY DEF Variants!FindFails, Variants!Go
<1>2. v5[c] = {} /\ v6[c] = {} /\ v9[c] = {}
  BY <1>1 DEF Variants!CountsHold
<1>3. v11' > 0
  BY VariantsFault DEF Variants!FindFails
<1>4. VariantsApart(c)
  BY <1>1 DEF VariantsApart
<1>. QED
  BY <1>1, <1>2, <1>3, <1>4

(* What a call for the variants of some templates changes, done or failed: *)
(* these templates leave the batch or the list.                            *)
LEMMA VariantsBatched ==
    ASSUME NEW c \in VariantsCommand, VariantsMaps, Variants!CreateBatch(c)
    PROVE  /\ VariantsApart(c) /\ Variants!Makeable(Variants!Batch(c))
           /\ v4' = v4 /\ v6' = v6 /\ v8' = v8 /\ v9' = v9 /\ v10' = v10 /\ v11' = v11
           /\ v4[c] = "create" /\ v6[c] = {}
           /\ v5'[c] = v5[c] \ Variants!Batch(c)
           /\ v7'[c] = v7[c] + Cardinality(Variants!Batch(c))
           /\ \A t \in VariantsTemplate :
                 v1'[t] = IF t \in Variants!Batch(c) THEN v1[t] + 1 ELSE v1[t]
<1>. USE DEF VariantsMaps
<1>1. /\ v4[c] = "create" /\ v6[c] = {} /\ Variants!Makeable(Variants!Batch(c))
      /\ v2' = v2 /\ v3' = v3 /\ v4' = v4 /\ v6' = v6 /\ v8' = v8 /\ v9' = v9 /\ v10' = v10
      /\ v11' = v11
      /\ v5' = [v5 EXCEPT ![c] = v5[c] \ Variants!Batch(c)]
      /\ v7' = [v7 EXCEPT ![c] = v7[c] + Cardinality(Variants!Batch(c))]
  BY VariantsBatchOf DEF Variants!CreateBatch
<1>2. \A t \in VariantsTemplate :
         v1'[t] = IF t \in Variants!Batch(c) THEN v1[t] + 1 ELSE v1[t]
  BY VariantsMade DEF Variants!CreateBatch
<1>3. VariantsApart(c)
  BY <1>1 DEF VariantsApart
<1>. QED
  BY <1>1, <1>2, <1>3

(* A failed batch is put aside, to be done one by one; without a fault it  *)
(* could not be made at all.                                               *)
LEMMA VariantsParted ==
    ASSUME NEW c \in VariantsCommand, VariantsMaps, Variants!BatchFails(c)
    PROVE  /\ VariantsApart(c)
           /\ v4' = v4 /\ v7' = v7 /\ v8' = v8 /\ v9' = v9 /\ v10' = v10
           /\ v4[c] = "create" /\ v6[c] = {}
           /\ v5'[c] = v5[c] \ Variants!Batch(c) /\ v6'[c] = Variants!Batch(c)
           /\ \A t \in VariantsTemplate :
                 v1'[t] = v1[t] \/ (t \in Variants!Batch(c) /\ v1'[t] = v1[t] + 1 /\
                                    Variants!Makeable(Variants!Batch(c)))
           /\ v11' = 0 => ~Variants!Makeable(Variants!Batch(c))
<1>. USE DEF VariantsMaps
<1>1. /\ v4[c] = "create" /\ v6[c] = {}
      /\ v2' = v2 /\ v3' = v3 /\ v4' = v4 /\ v7' = v7 /\ v8' = v8 /\ v9' = v9 /\ v10' = v10
      /\ v5' = [v5 EXCEPT ![c] = v5[c] \ Variants!Batch(c)]
      /\ v6' = [v6 EXCEPT ![c] = Variants!Batch(c)]
  BY DEF Variants!BatchFails
<1>2. /\ \A t \in VariantsTemplate :
            v1'[t] = v1[t] \/ (t \in Variants!Batch(c) /\ v1'[t] = v1[t] + 1 /\
                               Variants!Makeable(Variants!Batch(c)))
      /\ v11' = 0 => ~Variants!Makeable(Variants!Batch(c))
  BY VariantsRaised DEF Variants!BatchFails
<1>3. VariantsApart(c)
  BY <1>1 DEF VariantsApart
<1>. QED
  BY <1>1, <1>2, <1>3

(* One of a failed batch is made and counted, or counted as failed.        *)
LEMMA VariantsSingly ==
    ASSUME NEW c \in VariantsCommand, VariantsMaps, Variants!CreateOne(c) \/ Variants!OneFails(c)
    PROVE  /\ VariantsApart(c) /\ Variants!NextOne(c) \in v6[c]
           /\ v4' = v4 /\ v5' = v5 /\ v9' = v9 /\ v10' = v10
           /\ v6'[c] = v6[c] \ {Variants!NextOne(c)}
           /\ \/ /\ v7'[c] = v7[c] + 1 /\ v8' = v8 /\ v11' = v11
                 /\ Variants!Makeable({Variants!NextOne(c)})
                 /\ \A t \in VariantsTemplate :
                       v1'[t] = IF t = Variants!NextOne(c) THEN v1[t] + 1 ELSE v1[t]
              \/ /\ v7' = v7 /\ v8'[c] = v8[c] + 1
                 /\ \A t \in VariantsTemplate :
                       v1'[t] = v1[t] \/ (t = Variants!NextOne(c) /\ v1'[t] = v1[t] + 1 /\
                                          Variants!Makeable({Variants!NextOne(c)}))
                 /\ v11' = 0 => v11 = 0
<1>. USE DEF VariantsMaps
<1>1. Variants!NextOne(c) \in v6[c]
  BY VariantsFirst DEF Variants!CreateOne, Variants!OneFails
<1>2. /\ v2' = v2 /\ v3' = v3 /\ v4' = v4 /\ v5' = v5 /\ v9' = v9 /\ v10' = v10
      /\ v6' = [v6 EXCEPT ![c] = v6[c] \ {Variants!NextOne(c)}]
  BY DEF Variants!CreateOne, Variants!OneFails
<1>3. CASE Variants!CreateOne(c)
  <2>1. \A t \in VariantsTemplate :
           v1'[t] = IF t \in {Variants!NextOne(c)} THEN v1[t] + 1 ELSE v1[t]
    BY <1>3, VariantsMade DEF Variants!CreateOne
  <2>2. /\ v7' = [v7 EXCEPT ![c] = v7[c] + 1] /\ v8' = v8 /\ v11' = v11
        /\ Variants!Makeable({Variants!NextOne(c)})
    BY <1>3 DEF Variants!CreateOne
  <2>. QED
    BY <1>1, <1>2, <2>1, <2>2 DEF VariantsApart
<1>4. CASE Variants!OneFails(c)
  <2>1. /\ \A t \in VariantsTemplate :
              v1'[t] = v1[t] \/ (t \in {Variants!NextOne(c)} /\ v1'[t] = v1[t] + 1 /\
                                 Variants!Makeable({Variants!NextOne(c)}))
        /\ v11' = 0 => v11 = 0
    BY <1>4, VariantsRaised DEF Variants!OneFails
  <2>2. v8' = [v8 EXCEPT ![c] = v8[c] + 1] /\ v7' = v7
    BY <1>4 DEF Variants!OneFails, Variants!Counted
  <2>. QED
    BY <1>1, <1>2, <2>1, <2>2 DEF VariantsApart
<1>. QED
  BY <1>3, <1>4

(* A command reports when it has nothing left to do.                       *)
LEMMA VariantsReported ==
    ASSUME NEW c \in VariantsCommand, VariantsMaps, Variants!Report(c)
    PROVE  /\ VariantsApart(c)
           /\ v1' = v1 /\ v5' = v5 /\ v6' = v6 /\ v7' = v7 /\ v8' = v8 /\ v9' = v9 /\ v11' = v11
           /\ v4[c] = "create" /\ v5[c] = {} /\ v6[c] = {} /\ v4'[c] = "over"
           /\ v10'[c] = IF v2[c] = "fix" THEN "none" ELSE IF v8[c] = 0 THEN "ok" ELSE "failed"
<1>. USE DEF VariantsMaps
<1>1. /\ v4[c] = "create" /\ v5[c] = {} /\ v6[c] = {} /\ v2' = v2 /\ v3' = v3 /\ v1' = v1
      /\ v5' = v5 /\ v6' = v6 /\ v7' = v7 /\ v8' = v8 /\ v9' = v9 /\ v11' = v11
      /\ v4' = [v4 EXCEPT ![c] = "over"]
      /\ v10' = [v10 EXCEPT ![c] =
                    IF v2[c] = "fix" THEN "none" ELSE IF v8[c] = 0 THEN "ok" ELSE "failed"]
  BY DEF Variants!Report, Variants!Go
<1>2. VariantsApart(c)
  BY <1>1 DEF VariantsApart
<1>. QED
  BY <1>1, <1>2

(* One more and one less of a finite set.                                  *)
LEMMA VariantsLess ==
    /\ Cardinality({}) = 0
    /\ \A S, T \in SUBSET VariantsTemplate :
          /\ Cardinality(S) \in Nat /\ Cardinality(T) \in Nat
          /\ T \subseteq S => Cardinality(S \ T) = Cardinality(S) - Cardinality(T)
    /\ \A S \in SUBSET VariantsTemplate : \A t \in S :
          Cardinality(S \ {t}) = Cardinality(S) - 1
<1>1. Cardinality({}) = 0
  BY FS_EmptySet
<1>2. \A t : Cardinality({t}) = 1
  BY FS_Singleton
<1>3. \A S, T \in SUBSET VariantsTemplate :
         /\ Cardinality(S) \in Nat /\ Cardinality(T) \in Nat
         /\ T \subseteq S => Cardinality(S \ T) = Cardinality(S) - Cardinality(T)
  BY VariantsFinite
<1>4. ASSUME NEW S \in SUBSET VariantsTemplate, NEW t \in S
      PROVE  Cardinality(S \ {t}) = Cardinality(S) - 1
  <2>1. {t} \in SUBSET VariantsTemplate /\ {t} \subseteq S
    OBVIOUS
  <2>2. Cardinality(S \ {t}) = Cardinality(S) - Cardinality({t})
    BY <2>1, <1>3
  <2>. QED
    BY <2>2, <1>2
<1>. QED
  BY <1>1, <1>3, <1>4

(* A part of the commands is not larger, and smaller when one is missing.  *)
LEMMA VariantsMore ==
    \A S, T \in SUBSET VariantsCommand :
        /\ Cardinality(S) \in Nat /\ Cardinality(T) \in Nat
        /\ S \subseteq T => Cardinality(S) <= Cardinality(T)
        /\ S \subseteq T => \A c \in T \ S : Cardinality(S) + 1 <= Cardinality(T)
<1>. SUFFICES ASSUME NEW S \in SUBSET VariantsCommand, NEW T \in SUBSET VariantsCommand
              PROVE  /\ Cardinality(S) \in Nat /\ Cardinality(T) \in Nat
                     /\ S \subseteq T => Cardinality(S) <= Cardinality(T)
                     /\ S \subseteq T => \A c \in T \ S : Cardinality(S) + 1 <= Cardinality(T)
  OBVIOUS
<1>1. IsFiniteSet(S) /\ IsFiniteSet(T) /\ Cardinality(S) \in Nat /\ Cardinality(T) \in Nat
  BY VariantsFinite
<1>2. S \subseteq T => Cardinality(S) <= Cardinality(T)
  BY <1>1, VariantsFinite
<1>3. ASSUME S \subseteq T, NEW c \in T \ S PROVE Cardinality(S) + 1 <= Cardinality(T)
  <2>1. Cardinality(S \cup {c}) = Cardinality(S) + 1
    BY <1>1, FS_AddElement
  <2>2. S \cup {c} \subseteq T
    BY <1>3
  <2>3. Cardinality(S \cup {c}) <= Cardinality(T)
    BY <1>1, <2>2, VariantsFinite
  <2>. QED
    BY <2>1, <2>3
<1>. QED
  BY <1>1, <1>2, <1>3

(* What CountsHold says of one command.                                    *)
VariantsCounted(c) ==
    /\ v4[c] = "search" => v9[c] = {}
    /\ v4[c] # "over" => v10[c] = "none"
    /\ v4[c] # "create" => v5[c] = {} /\ v6[c] = {}
    /\ v5[c] \cap v6[c] = {}
    /\ IF Variants!Fixes(c)
       THEN v7[c] + v8[c] + Cardinality(v5[c] \cup v6[c]) = Cardinality(v9[c])
       ELSE v4[c] # "create" /\ v7[c] = 0 /\ v8[c] = 0

(* The counts hold when they hold for each command.                        *)
LEMMA VariantsCounts == Variants!CountsHold <=> \A c \in VariantsCommand : VariantsCounted(c)
BY VariantsCardinality DEF Variants!CountsHold, VariantsCounted

(* An action of one command leaves the counts of the others.               *)
LEMMA VariantsOthersCounted ==
    ASSUME NEW c \in VariantsCommand, VariantsApart(c), Variants!CountsHold, VariantsCounted(c)'
    PROVE  Variants!CountsHold'
<1>1. \A d \in VariantsCommand : VariantsCounted(d)
  BY VariantsCounts
<1>2. ASSUME NEW d \in VariantsCommand, d # c PROVE VariantsCounted(d)'
  <2>1. v4'[d] = v4[d] /\ v5'[d] = v5[d] /\ v6'[d] = v6[d] /\ v7'[d] = v7[d]
    BY <1>2 DEF VariantsApart
  <2>2. v8'[d] = v8[d] /\ v9'[d] = v9[d] /\ v10'[d] = v10[d] /\ v2' = v2
    BY <1>2 DEF VariantsApart
  <2>3. VariantsCounted(d)
    BY <1>1
  <2>. QED
    BY <2>1, <2>2, <2>3 DEF VariantsCounted, Variants!Fixes
<1>3. \A d \in VariantsCommand : VariantsCounted(d)'
  BY <1>2
<1>. QED
  BY <1>3, VariantsCardinality DEF VariantsCounted, Variants!CountsHold

(* Every action keeps the counts.                                          *)
LEMMA VariantsStayCounted ==
    ASSUME VariantsMaps, VariantsMaps', Variants!CountsHold, [Variants!Next]_Variants!vars
    PROVE  Variants!CountsHold'
<1>1. ASSUME NEW c \in VariantsCommand, Variants!Find(c) PROVE Variants!CountsHold'
  <2>1. v5[c] = {} /\ v6[c] = {} /\ v9[c] = {} /\ VariantsApart(c)
    BY <1>1, VariantsFound
  <2>2. v2' = v2 /\ v6' = v6 /\ v7' = v7 /\ v8' = v8
    BY <1>1, VariantsFound DEF VariantsApart
  <2>3. \/ v4'[c] = "over" /\ v5'[c] = {} /\ (v9'[c] = {} \/ ~Variants!Fixes(c))
        \/ Variants!Fixes(c) /\ v4'[c] = "create" /\ v10'[c] = "none" /\ v5'[c] = v9'[c]
    BY <1>1, VariantsFound
  <2>4. v7[c] \in Nat /\ v8[c] \in Nat /\ v7[c] = 0 /\ v8[c] = 0
    <3>1. Cardinality(v5[c] \cup v6[c]) = 0 /\ Cardinality(v9[c]) = 0
      BY <2>1, VariantsLess
    <3>2. v7[c] \in Nat /\ v8[c] \in Nat
      BY DEF VariantsMaps
    <3>3. v7[c] + v8[c] + 0 = 0 \/ (v7[c] = 0 /\ v8[c] = 0)
      BY <3>1, VariantsCounts DEF VariantsCounted
    <3>. QED
      BY <3>2, <3>3
  <2>5. v9'[c] \in SUBSET VariantsTemplate
    BY DEF VariantsMaps
  <2>6. Cardinality(v9'[c]) \in Nat /\ Cardinality({}) = 0
    BY <2>5, VariantsLess
  <2>7. VariantsCounted(c)'
    <3>1. Variants!Fixes(c)' <=> Variants!Fixes(c)
      BY <2>2 DEF Variants!Fixes
    <3>2. v5'[c] \cup v6'[c] = v5'[c] /\ v5'[c] \cap v6'[c] = {} /\ v6'[c] = {}
      BY <2>1, <2>2
    <3>3. CASE v4'[c] = "over" /\ v5'[c] = {} /\ (v9'[c] = {} \/ ~Variants!Fixes(c))
      BY <2>2, <2>4, <2>6, <3>1, <3>2, <3>3 DEF VariantsCounted
    <3>4. CASE Variants!Fixes(c) /\ v4'[c] = "create" /\ v10'[c] = "none" /\ v5'[c] = v9'[c]
      BY <2>2, <2>4, <2>6, <3>1, <3>2, <3>4 DEF VariantsCounted
    <3>. QED
      BY <2>3, <3>3, <3>4
  <2>. QED
    BY <2>1, <2>7, VariantsOthersCounted
<1>2. ASSUME NEW c \in VariantsCommand, Variants!FindFails(c) PROVE Variants!CountsHold'
  <2>1. /\ v2' = v2 /\ v5' = v5 /\ v6' = v6 /\ v7' = v7 /\ v8' = v8 /\ v9' = v9
        /\ v5[c] = {} /\ v6[c] = {} /\ v4'[c] = "over" /\ VariantsApart(c)
    BY <1>2, VariantsLost DEF VariantsApart
  <2>2. VariantsCounted(c)
    BY VariantsCounts
  <2>3. VariantsCounted(c)'
    BY <2>1, <2>2 DEF VariantsCounted, Variants!Fixes
  <2>. QED
    BY <2>1, <2>3, VariantsOthersCounted
<1>3. ASSUME NEW c \in VariantsCommand, Variants!CreateBatch(c) PROVE Variants!CountsHold'
  <2>. DEFINE B == Variants!Batch(c)
  <2>1. /\ v2' = v2 /\ v4' = v4 /\ v6' = v6 /\ v8' = v8 /\ v9' = v9 /\ v10' = v10
        /\ v4[c] = "create" /\ v6[c] = {} /\ v5'[c] = v5[c] \ B
        /\ v7'[c] = v7[c] + Cardinality(B) /\ VariantsApart(c)
    BY <1>3, VariantsBatched DEF VariantsApart
  <2>2. B \subseteq v5[c] /\ v5[c] \in SUBSET VariantsTemplate /\ B \in SUBSET VariantsTemplate
    BY VariantsBatchOf DEF VariantsMaps
  <2>3. Cardinality(v5'[c] \cup v6'[c]) = Cardinality(v5[c] \cup v6[c]) - Cardinality(B)
    <3>1. v5'[c] \cup v6'[c] = v5[c] \ B /\ v5[c] \cup v6[c] = v5[c]
      BY <2>1
    <3>. QED
      BY <2>2, <3>1, VariantsLess
  <2>4. /\ Cardinality(v5[c] \cup v6[c]) \in Nat /\ Cardinality(B) \in Nat
        /\ v7[c] \in Nat /\ v8[c] \in Nat
    BY <2>2, VariantsLess DEF VariantsMaps
  <2>5. VariantsCounted(c)
    BY VariantsCounts
  <2>6. Variants!Fixes(c) /\ Variants!Fixes(c)'
    BY <2>1, <2>5 DEF VariantsCounted, Variants!Fixes
  <2>7. v7'[c] + v8'[c] + Cardinality(v5'[c] \cup v6'[c]) = Cardinality(v9'[c])
    <3>1. v7[c] + v8[c] + Cardinality(v5[c] \cup v6[c]) = Cardinality(v9[c])
      BY <2>5, <2>6 DEF VariantsCounted
    <3>. QED
      BY <2>1, <2>3, <2>4, <3>1
  <2>8. VariantsCounted(c)'
    BY <2>1, <2>5, <2>6, <2>7 DEF VariantsCounted
  <2>. QED
    BY <2>1, <2>8, VariantsOthersCounted
<1>4. ASSUME NEW c \in VariantsCommand, Variants!BatchFails(c) PROVE Variants!CountsHold'
  <2>. DEFINE B == Variants!Batch(c)
  <2>1. /\ v2' = v2 /\ v4' = v4 /\ v7' = v7 /\ v8' = v8 /\ v9' = v9 /\ v10' = v10
        /\ v4[c] = "create" /\ v6[c] = {} /\ v5'[c] = v5[c] \ B /\ v6'[c] = B
        /\ VariantsApart(c)
    BY <1>4, VariantsParted DEF VariantsApart
  <2>2. B \subseteq v5[c]
    BY VariantsBatchOf
  <2>3. v5'[c] \cup v6'[c] = v5[c] \cup v6[c] /\ v5'[c] \cap v6'[c] = {}
    BY <2>1, <2>2
  <2>4. VariantsCounted(c)
    BY VariantsCounts
  <2>5. VariantsCounted(c)'
    BY <2>1, <2>3, <2>4 DEF VariantsCounted, Variants!Fixes
  <2>. QED
    BY <2>1, <2>5, VariantsOthersCounted
<1>5. ASSUME NEW c \in VariantsCommand, Variants!CreateOne(c) PROVE Variants!CountsHold'
  <2>. DEFINE t == Variants!NextOne(c)
  <2>1. /\ v2' = v2 /\ v4' = v4 /\ v5' = v5 /\ v9' = v9 /\ v10' = v10
        /\ t \in v6[c] /\ v6'[c] = v6[c] \ {t} /\ VariantsApart(c)
    BY <1>5, VariantsSingly DEF VariantsApart
  <2>2. v7[c] \in Nat /\ v8[c] \in Nat /\ v7'[c] + v8'[c] = v7[c] + v8[c] + 1
    <3>1. v7[c] \in Nat /\ v8[c] \in Nat
      BY DEF VariantsMaps
    <3>2. (v7'[c] = v7[c] + 1 /\ v8' = v8) \/ (v7' = v7 /\ v8'[c] = v8[c] + 1)
      BY <1>5, VariantsSingly
    <3>. QED
      BY <3>1, <3>2
  <2>3. VariantsCounted(c)
    BY VariantsCounts
  <2>4. /\ Cardinality(v5'[c] \cup v6'[c]) = Cardinality(v5[c] \cup v6[c]) - 1
        /\ Cardinality(v5[c] \cup v6[c]) \in Nat
    <3>1. v5'[c] \cup v6'[c] = (v5[c] \cup v6[c]) \ {t} /\ t \in v5[c] \cup v6[c]
      BY <2>1, <2>3 DEF VariantsCounted
    <3>2. v5[c] \cup v6[c] \in SUBSET VariantsTemplate
      BY DEF VariantsMaps
    <3>. QED
      BY <3>1, <3>2, VariantsLess
  <2>5. Variants!Fixes(c) /\ Variants!Fixes(c)' /\ v4[c] = "create"
    BY <2>1, <2>3 DEF VariantsCounted, Variants!Fixes
  <2>6. v7'[c] + v8'[c] + Cardinality(v5'[c] \cup v6'[c]) = Cardinality(v9'[c])
    <3>1. v7[c] + v8[c] + Cardinality(v5[c] \cup v6[c]) = Cardinality(v9[c])
      BY <2>3, <2>5 DEF VariantsCounted
    <3>2. v7' \in [VariantsCommand -> Nat] /\ v8' \in [VariantsCommand -> Nat]
      BY DEF VariantsMaps
    <3>3. v7'[c] \in Int /\ v8'[c] \in Int
      BY <3>2
    <3>. QED
      BY <2>1, <2>2, <2>4, <3>1, <3>3
  <2>7. VariantsCounted(c)'
    BY <2>1, <2>3, <2>5, <2>6 DEF VariantsCounted
  <2>. QED
    BY <2>1, <2>7, VariantsOthersCounted
<1>6. ASSUME NEW c \in VariantsCommand, Variants!OneFails(c) PROVE Variants!CountsHold'
  <2>. DEFINE t == Variants!NextOne(c)
  <2>1. /\ v2' = v2 /\ v4' = v4 /\ v5' = v5 /\ v9' = v9 /\ v10' = v10
        /\ t \in v6[c] /\ v6'[c] = v6[c] \ {t} /\ VariantsApart(c)
    BY <1>6, VariantsSingly DEF VariantsApart
  <2>2. v7[c] \in Nat /\ v8[c] \in Nat /\ v7'[c] + v8'[c] = v7[c] + v8[c] + 1
    <3>1. v7[c] \in Nat /\ v8[c] \in Nat
      BY DEF VariantsMaps
    <3>2. (v7'[c] = v7[c] + 1 /\ v8' = v8) \/ (v7' = v7 /\ v8'[c] = v8[c] + 1)
      BY <1>6, VariantsSingly
    <3>. QED
      BY <3>1, <3>2
  <2>3. VariantsCounted(c)
    BY VariantsCounts
  <2>4. /\ Cardinality(v5'[c] \cup v6'[c]) = Cardinality(v5[c] \cup v6[c]) - 1
        /\ Cardinality(v5[c] \cup v6[c]) \in Nat
    <3>1. v5'[c] \cup v6'[c] = (v5[c] \cup v6[c]) \ {t} /\ t \in v5[c] \cup v6[c]
      BY <2>1, <2>3 DEF VariantsCounted
    <3>2. v5[c] \cup v6[c] \in SUBSET VariantsTemplate
      BY DEF VariantsMaps
    <3>. QED
      BY <3>1, <3>2, VariantsLess
  <2>5. Variants!Fixes(c) /\ Variants!Fixes(c)' /\ v4[c] = "create"
    BY <2>1, <2>3 DEF VariantsCounted, Variants!Fixes
  <2>6. v7'[c] + v8'[c] + Cardinality(v5'[c] \cup v6'[c]) = Cardinality(v9'[c])
    <3>1. v7[c] + v8[c] + Cardinality(v5[c] \cup v6[c]) = Cardinality(v9[c])
      BY <2>3, <2>5 DEF VariantsCounted
    <3>2. v7' \in [VariantsCommand -> Nat] /\ v8' \in [VariantsCommand -> Nat]
      BY DEF VariantsMaps
    <3>3. v7'[c] \in Int /\ v8'[c] \in Int
      BY <3>2
    <3>. QED
      BY <2>1, <2>2, <2>4, <3>1, <3>3
  <2>7. VariantsCounted(c)'
    BY <2>1, <2>3, <2>5, <2>6 DEF VariantsCounted
  <2>. QED
    BY <2>1, <2>7, VariantsOthersCounted
<1>7. ASSUME NEW c \in VariantsCommand, Variants!Report(c) PROVE Variants!CountsHold'
  <2>1. /\ v2' = v2 /\ v5' = v5 /\ v6' = v6 /\ v7' = v7 /\ v8' = v8 /\ v9' = v9
        /\ v5[c] = {} /\ v6[c] = {} /\ v4'[c] = "over" /\ VariantsApart(c)
        /\ v4[c] = "create"
    BY <1>7, VariantsReported DEF VariantsApart
  <2>2. VariantsCounted(c)
    BY VariantsCounts
  <2>3. VariantsCounted(c)'
    BY <2>1, <2>2 DEF VariantsCounted, Variants!Fixes
  <2>. QED
    BY <2>1, <2>3, VariantsOthersCounted
<1>8. CASE UNCHANGED Variants!vars
  BY <1>8 DEF Variants!vars, Variants!CountsHold, Variants!Fixes, Variants!Cardinality
<1>. QED
  BY <1>1, <1>2, <1>3, <1>4, <1>5, <1>6, <1>7, <1>8 DEF Variants!Next

(* Every action keeps what is to do within what was found.                 *)
LEMMA VariantsKept ==
    ASSUME VariantsMaps, Variants!CountsHold, VariantsWithin, [Variants!Next]_Variants!vars
    PROVE  VariantsWithin'
<1>. USE DEF VariantsWithin
<1>1. ASSUME NEW c \in VariantsCommand, Variants!Find(c) PROVE VariantsWithin'
  <2>1. v9'[c] = {t \in v3[c] : v1[t] = 0} /\ v5'[c] \subseteq v9'[c] /\ v6'[c] = {}
    BY <1>1, VariantsFound
  <2>. QED
    BY <1>1, <2>1, VariantsFound DEF VariantsApart
<1>2. ASSUME NEW c \in VariantsCommand, Variants!FindFails(c) PROVE VariantsWithin'
  BY <1>2, VariantsLost DEF VariantsApart
<1>3. ASSUME NEW c \in VariantsCommand, Variants!CreateBatch(c) PROVE VariantsWithin'
  BY <1>3, VariantsBatched DEF VariantsApart
<1>4. ASSUME NEW c \in VariantsCommand, Variants!BatchFails(c) PROVE VariantsWithin'
  BY <1>4, VariantsParted, VariantsBatchOf DEF VariantsApart
<1>5. ASSUME NEW c \in VariantsCommand, Variants!CreateOne(c) PROVE VariantsWithin'
  BY <1>5, VariantsSingly DEF VariantsApart
<1>6. ASSUME NEW c \in VariantsCommand, Variants!OneFails(c) PROVE VariantsWithin'
  BY <1>6, VariantsSingly DEF VariantsApart
<1>7. ASSUME NEW c \in VariantsCommand, Variants!Report(c) PROVE VariantsWithin'
  BY <1>7, VariantsReported DEF VariantsApart
<1>8. CASE UNCHANGED Variants!vars
  BY <1>8 DEF Variants!vars
<1>. QED
  BY <1>1, <1>2, <1>3, <1>4, <1>5, <1>6, <1>7, <1>8 DEF Variants!Next


(* What ScopeHolds says of one command.                                    *)
VariantsScoped(c) ==
    v2[c] = "workflow" /\ v4[c] # "search" =>
        /\ v10[c] = "ok" => v8[c] = 0
        /\ v10[c] # "failed" /\ v8[c] = 0 =>
              \A t \in v3[c] : v1[t] > 0 \/ t \in v5[c] \cup v6[c]

(* The scopes hold when they hold for each command.                        *)
LEMMA VariantsScopes == Variants!ScopeHolds <=> \A c \in VariantsCommand : VariantsScoped(c)
BY DEF Variants!ScopeHolds, VariantsScoped

(* Variants are never taken away.                                          *)
LEMMA VariantsGrow ==
    ASSUME VariantsMaps, Variants!CountsHold, [Variants!Next]_Variants!vars
    PROVE  \A t \in VariantsTemplate : v1[t] \in Nat /\ (v1'[t] = v1[t] \/ v1'[t] = v1[t] + 1)
<1>0. \A t \in VariantsTemplate : v1[t] \in Nat
  BY DEF VariantsMaps
<1>1. ASSUME NEW c \in VariantsCommand, Variants!Find(c) PROVE v1' = v1
  BY <1>1 DEF Variants!Find
<1>2. ASSUME NEW c \in VariantsCommand, Variants!FindFails(c) PROVE v1' = v1
  BY <1>2 DEF Variants!FindFails
<1>3. ASSUME NEW c \in VariantsCommand, Variants!CreateBatch(c)
      PROVE  \A t \in VariantsTemplate : v1'[t] = v1[t] \/ v1'[t] = v1[t] + 1
  BY <1>3, VariantsBatched
<1>4. ASSUME NEW c \in VariantsCommand, Variants!BatchFails(c)
      PROVE  \A t \in VariantsTemplate : v1'[t] = v1[t] \/ v1'[t] = v1[t] + 1
  BY <1>4, VariantsParted
<1>5. ASSUME NEW c \in VariantsCommand, Variants!CreateOne(c) \/ Variants!OneFails(c)
      PROVE  \A t \in VariantsTemplate : v1'[t] = v1[t] \/ v1'[t] = v1[t] + 1
  BY <1>5, VariantsSingly
<1>6. ASSUME NEW c \in VariantsCommand, Variants!Report(c) PROVE v1' = v1
  BY <1>6 DEF Variants!Report
<1>7. CASE UNCHANGED Variants!vars
  BY <1>0, <1>7 DEF Variants!vars
<1>. QED
  BY <1>0, <1>1, <1>2, <1>3, <1>4, <1>5, <1>6, <1>7 DEF Variants!Next

(* An action of one command leaves the scopes of the others.               *)
LEMMA VariantsOthersScoped ==
    ASSUME NEW c \in VariantsCommand, VariantsMaps, Variants!CountsHold, VariantsApart(c),
           [Variants!Next]_Variants!vars, Variants!ScopeHolds, VariantsScoped(c)'
    PROVE  Variants!ScopeHolds'
<1>1. ASSUME NEW d \in VariantsCommand, d # c PROVE VariantsScoped(d)'
  <2>1. /\ v2' = v2 /\ v3' = v3
        /\ v4'[d] = v4[d] /\ v5'[d] = v5[d] /\ v6'[d] = v6[d] /\ v8'[d] = v8[d]
        /\ v10'[d] = v10[d]
    BY <1>1 DEF VariantsApart
  <2>2. VariantsScoped(d)
    BY VariantsScopes
  <2>3. v3[d] \subseteq VariantsTemplate
    BY DEF VariantsMaps
  <2>4. \A t \in VariantsTemplate : v1[t] > 0 => v1'[t] > 0
    BY VariantsGrow
  <2>. QED
    BY <2>1, <2>2, <2>3, <2>4 DEF VariantsScoped
<1>2. \A d \in VariantsCommand : VariantsScoped(d)'
  BY <1>1
<1>. QED
  BY <1>2 DEF VariantsScoped, Variants!ScopeHolds

(* The commands that had a template in a batch, and that tried it alone;   *)
(* what a step adds to one of them allows for one variant more.            *)
LEMMA VariantsTries ==
    ASSUME NEW t \in VariantsTemplate
    PROVE  /\ Variants!Tried(t) = {c \in VariantsCommand : t \in v9[c] \ v5[c]}
           /\ Variants!Retried(t) = {c \in VariantsCommand : t \in v9[c] \ (v5[c] \cup v6[c])}
           /\ Cardinality(Variants!Tried(t)) \in Nat /\ Cardinality(Variants!Retried(t)) \in Nat
           /\ Variants!Cardinality(Variants!Tried(t)) = Cardinality(Variants!Tried(t))
           /\ Variants!Cardinality(Variants!Retried(t)) = Cardinality(Variants!Retried(t))
<1>1. /\ Variants!Tried(t) = {c \in VariantsCommand : t \in v9[c] \ v5[c]}
      /\ Variants!Retried(t) = {c \in VariantsCommand : t \in v9[c] \ (v5[c] \cup v6[c])}
  BY DEF Variants!Tried, Variants!Retried
<1>2. /\ Variants!Tried(t) \in SUBSET VariantsCommand
      /\ Variants!Retried(t) \in SUBSET VariantsCommand
  BY <1>1
<1>. QED
  BY <1>1, <1>2, VariantsMore, VariantsCardinality

(* A command that has not searched yet has counted nothing.                *)
LEMMA VariantsIdle ==
    ASSUME NEW c \in VariantsCommand, VariantsMaps, Variants!CountsHold, v4[c] = "search"
    PROVE  v7[c] = 0 /\ v8[c] = 0
<1>1. v5[c] = {} /\ v6[c] = {} /\ v9[c] = {} /\ VariantsCounted(c)
  BY VariantsCounts DEF VariantsCounted
<1>2. Cardinality(v5[c] \cup v6[c]) = 0 /\ Cardinality(v9[c]) = 0
  BY <1>1, VariantsLess
<1>3. v7[c] \in Nat /\ v8[c] \in Nat
  BY DEF VariantsMaps
<1>4. v7[c] + v8[c] + 0 = 0 \/ (v7[c] = 0 /\ v8[c] = 0)
  BY <1>1, <1>2 DEF VariantsCounted
<1>. QED
  BY <1>3, <1>4

(* Every action keeps the scopes.                                          *)
LEMMA VariantsStayScoped ==
    ASSUME VariantsMaps, Variants!CountsHold, Variants!ScopeHolds, [Variants!Next]_Variants!vars
    PROVE  Variants!ScopeHolds'
<1>1. ASSUME NEW c \in VariantsCommand, Variants!Find(c) PROVE Variants!ScopeHolds'
  <2>1. VariantsApart(c) /\ v2' = v2 /\ v3' = v3 /\ v1' = v1 /\ v8' = v8 /\ v6[c] = {}
    BY <1>1, VariantsFound DEF VariantsApart
  <2>2. v9'[c] = {t \in v3[c] : v1[t] = 0}
    BY <1>1, VariantsFound
  <2>3. v5'[c] = v9'[c] \/ (v5'[c] = {} /\ (v9'[c] = {} \/ ~Variants!Fixes(c)))
    BY <1>1, VariantsFound
  <2>4. v4[c] = "search"
    BY <1>1 DEF Variants!Find
  <2>5. v8[c] = 0
    BY <2>1, <2>4, VariantsIdle
  <2>6. v2[c] = "workflow" => \A t \in v3[c] : v1[t] > 0 \/ t \in v5'[c]
    <3>1. v2[c] = "workflow" => v5'[c] = v9'[c]
      BY <2>3 DEF Variants!Fixes
    <3>2. \A t \in v3[c] : v1[t] \in Nat
      BY DEF VariantsMaps
    <3>. QED
      BY <2>2, <3>1, <3>2
  <2>7. VariantsScoped(c)'
    BY <2>1, <2>5, <2>6 DEF VariantsScoped
  <2>. QED
    BY <2>1, <2>7, VariantsOthersScoped
<1>2. ASSUME NEW c \in VariantsCommand, Variants!FindFails(c) PROVE Variants!ScopeHolds'
  <2>1. VariantsApart(c) /\ v2' = v2 /\ (v2[c] = "workflow" => v10'[c] = "failed")
    BY <1>2, VariantsLost DEF VariantsApart
  <2>2. VariantsScoped(c)'
    BY <2>1 DEF VariantsScoped
  <2>. QED
    BY <2>1, <2>2, VariantsOthersScoped
<1>3. ASSUME NEW c \in VariantsCommand, Variants!CreateBatch(c) PROVE Variants!ScopeHolds'
  <2>1. /\ VariantsApart(c) /\ v2' = v2 /\ v3' = v3 /\ v4' = v4 /\ v6' = v6 /\ v8' = v8
        /\ v10' = v10 /\ v5'[c] = v5[c] \ Variants!Batch(c)
    BY <1>3, VariantsBatched DEF VariantsApart
  <2>2. \A t \in VariantsTemplate :
           v1[t] \in Nat /\ v1'[t] = IF t \in Variants!Batch(c) THEN v1[t] + 1 ELSE v1[t]
    BY <1>3, VariantsBatched, VariantsGrow
  <2>3. v3[c] \subseteq VariantsTemplate
    BY DEF VariantsMaps
  <2>4. \A t \in v3[c] : v1[t] > 0 \/ t \in v5[c] \cup v6[c] =>
                           v1'[t] > 0 \/ t \in v5'[c] \cup v6'[c]
    BY <2>1, <2>2, <2>3
  <2>5. VariantsScoped(c)
    BY VariantsScopes
  <2>6. VariantsScoped(c)'
    BY <2>1, <2>4, <2>5 DEF VariantsScoped
  <2>. QED
    BY <2>1, <2>6, VariantsOthersScoped
<1>4. ASSUME NEW c \in VariantsCommand, Variants!BatchFails(c) PROVE Variants!ScopeHolds'
  <2>1. /\ VariantsApart(c) /\ v2' = v2 /\ v3' = v3 /\ v4' = v4 /\ v8' = v8 /\ v10' = v10
        /\ v5'[c] = v5[c] \ Variants!Batch(c) /\ v6'[c] = Variants!Batch(c) /\ v6[c] = {}
    BY <1>4, VariantsParted DEF VariantsApart
  <2>2. \A t \in v3[c] : v1[t] > 0 => v1'[t] > 0
    <3>1. v3[c] \subseteq VariantsTemplate
      BY DEF VariantsMaps
    <3>. QED
      BY <3>1, VariantsGrow
  <2>3. v5[c] \cup v6[c] \subseteq v5'[c] \cup v6'[c]
    BY <2>1
  <2>4. VariantsScoped(c)
    BY VariantsScopes
  <2>5. VariantsScoped(c)'
    BY <2>1, <2>2, <2>3, <2>4 DEF VariantsScoped
  <2>. QED
    BY <2>1, <2>5, VariantsOthersScoped
<1>5. ASSUME NEW c \in VariantsCommand, Variants!CreateOne(c) PROVE Variants!ScopeHolds'
  <2>1. /\ VariantsApart(c) /\ v2' = v2 /\ v3' = v3 /\ v4' = v4 /\ v5' = v5 /\ v10' = v10
        /\ v6'[c] = v6[c] \ {Variants!NextOne(c)} /\ v8' = v8
    BY <1>5, VariantsSingly DEF VariantsApart, Variants!CreateOne
  <2>2. \A t \in VariantsTemplate :
           v1[t] \in Nat /\ v1'[t] = IF t \in {Variants!NextOne(c)} THEN v1[t] + 1 ELSE v1[t]
    BY <1>5, VariantsMade DEF Variants!CreateOne, VariantsMaps
  <2>3. v3[c] \subseteq VariantsTemplate
    BY DEF VariantsMaps
  <2>4. \A t \in v3[c] : v1[t] > 0 \/ t \in v5[c] \cup v6[c] =>
                           v1'[t] > 0 \/ t \in v5'[c] \cup v6'[c]
    BY <2>1, <2>2, <2>3
  <2>5. VariantsScoped(c)
    BY VariantsScopes
  <2>6. VariantsScoped(c)'
    BY <2>1, <2>4, <2>5 DEF VariantsScoped
  <2>. QED
    BY <2>1, <2>6, VariantsOthersScoped
<1>6. ASSUME NEW c \in VariantsCommand, Variants!OneFails(c) PROVE Variants!ScopeHolds'
  <2>1. /\ VariantsApart(c) /\ v2' = v2 /\ v4' = v4 /\ v10' = v10
        /\ Variants!NextOne(c) \in v6[c]
    BY <1>6, VariantsSingly DEF VariantsApart
  <2>2. v8'[c] # 0
    <3>1. v8[c] \in Nat /\ v8'[c] = v8[c] + 1
      BY <1>6 DEF VariantsMaps, Variants!OneFails, Variants!Counted
    <3>. QED
      BY <3>1
  <2>3. v10[c] = "none"
    <3>1. VariantsCounted(c)
      BY VariantsCounts
    <3>. QED
      BY <2>1, <3>1 DEF VariantsCounted
  <2>4. VariantsScoped(c)'
    BY <2>1, <2>2, <2>3 DEF VariantsScoped
  <2>. QED
    BY <2>1, <2>4, VariantsOthersScoped
<1>7. ASSUME NEW c \in VariantsCommand, Variants!Report(c) PROVE Variants!ScopeHolds'
  <2>1. /\ VariantsApart(c) /\ v2' = v2 /\ v3' = v3 /\ v1' = v1 /\ v5' = v5 /\ v6' = v6
        /\ v8' = v8 /\ v4[c] = "create"
    BY <1>7, VariantsReported DEF VariantsApart
  <2>2. v2[c] = "workflow" => v10'[c] = IF v8[c] = 0 THEN "ok" ELSE "failed"
    BY <1>7, VariantsReported
  <2>3. VariantsScoped(c) /\ VariantsCounted(c)
    BY VariantsScopes, VariantsCounts
  <2>4. v10[c] = "none"
    BY <2>1, <2>3 DEF VariantsCounted
  <2>5. VariantsScoped(c)'
    BY <2>1, <2>2, <2>3, <2>4 DEF VariantsScoped
  <2>. QED
    BY <2>1, <2>5, VariantsOthersScoped
<1>8. CASE UNCHANGED Variants!vars
  BY <1>8 DEF Variants!vars, Variants!ScopeHolds
<1>. QED
  BY <1>1, <1>2, <1>3, <1>4, <1>5, <1>6, <1>7, <1>8 DEF Variants!Next

(* Two commands may both find a template, and one that failed is tried     *)
(* again; nothing else makes a variant.                                    *)
VariantsOneMore(t) ==
    /\ Variants!Tried(t) \subseteq Variants!Tried(t)'
    /\ Variants!Retried(t) \subseteq Variants!Retried(t)'
    /\ v1[t] \in Nat
    /\ \/ v1'[t] = v1[t]
       \/ /\ v1'[t] = v1[t] + 1 /\ (VariantsUnique => v1[t] = 0)
          /\ \E c \in VariantsCommand :
                c \in Variants!Tried(t)' \ Variants!Tried(t) \/
                c \in Variants!Retried(t)' \ Variants!Retried(t)

(* Every action makes a variant more only with a try more.                 *)
LEMMA VariantsTriesGrow ==
    ASSUME VariantsMaps, Variants!CountsHold, VariantsWithin, NEW t \in VariantsTemplate,
           [Variants!Next]_Variants!vars
    PROVE  VariantsOneMore(t)
<1>. USE VariantsGrow
<1>1. ASSUME NEW c \in VariantsCommand, Variants!Find(c) PROVE VariantsOneMore(t)
  <2>1. VariantsApart(c) /\ v1' = v1 /\ v5[c] = {} /\ v6[c] = {} /\ v9[c] = {}
    BY <1>1, VariantsFound
  <2>2. \A d \in VariantsCommand \ {c} : v5'[d] = v5[d] /\ v6'[d] = v6[d] /\ v9'[d] = v9[d]
    BY <2>1 DEF VariantsApart
  <2>. QED
    BY <2>1, <2>2 DEF VariantsOneMore, Variants!Tried, Variants!Retried
<1>2. ASSUME NEW c \in VariantsCommand, Variants!FindFails(c) PROVE VariantsOneMore(t)
  <2>1. VariantsApart(c) /\ v1' = v1 /\ v5[c] = {} /\ v6[c] = {} /\ v9[c] = {}
    BY <1>2, VariantsLost
  <2>2. \A d \in VariantsCommand \ {c} : v5'[d] = v5[d] /\ v6'[d] = v6[d] /\ v9'[d] = v9[d]
    BY <2>1 DEF VariantsApart
  <2>. QED
    BY <2>1, <2>2 DEF VariantsOneMore, Variants!Tried, Variants!Retried
<1>3. ASSUME NEW c \in VariantsCommand, Variants!CreateBatch(c) PROVE VariantsOneMore(t)
  <2>1. /\ VariantsApart(c) /\ v6' = v6 /\ v9' = v9 /\ v6[c] = {}
        /\ v5'[c] = v5[c] \ Variants!Batch(c) /\ Variants!Makeable(Variants!Batch(c))
        /\ v1'[t] = IF t \in Variants!Batch(c) THEN v1[t] + 1 ELSE v1[t]
    BY <1>3, VariantsBatched
  <2>2. \A d \in VariantsCommand \ {c} : v5'[d] = v5[d]
    BY <2>1 DEF VariantsApart
  <2>3. Variants!Batch(c) \subseteq v5[c] /\ v5[c] \subseteq v9[c]
    BY VariantsBatchOf DEF VariantsWithin
  <2>4. /\ Variants!Tried(t) \subseteq Variants!Tried(t)'
        /\ Variants!Retried(t) \subseteq Variants!Retried(t)'
    BY <2>1, <2>2 DEF Variants!Tried, Variants!Retried
  <2>5. t \in Variants!Batch(c) => c \in Variants!Tried(t)' \ Variants!Tried(t)
    BY <2>1, <2>3 DEF Variants!Tried
  <2>6. t \in Variants!Batch(c) => (VariantsUnique => v1[t] = 0)
    BY <2>1 DEF Variants!Makeable
  <2>. QED
    BY <2>1, <2>4, <2>5, <2>6 DEF VariantsOneMore
<1>4. ASSUME NEW c \in VariantsCommand, Variants!BatchFails(c) PROVE VariantsOneMore(t)
  <2>1. /\ VariantsApart(c) /\ v9' = v9 /\ v6[c] = {} /\ v6'[c] = Variants!Batch(c)
        /\ v5'[c] = v5[c] \ Variants!Batch(c)
        /\ v1'[t] = v1[t] \/ (t \in Variants!Batch(c) /\ v1'[t] = v1[t] + 1 /\
                              Variants!Makeable(Variants!Batch(c)))
    BY <1>4, VariantsParted
  <2>2. \A d \in VariantsCommand \ {c} : v5'[d] = v5[d] /\ v6'[d] = v6[d]
    BY <2>1 DEF VariantsApart
  <2>3. Variants!Batch(c) \subseteq v5[c] /\ v5[c] \subseteq v9[c]
    BY VariantsBatchOf DEF VariantsWithin
  <2>4. /\ Variants!Tried(t) \subseteq Variants!Tried(t)'
        /\ Variants!Retried(t) \subseteq Variants!Retried(t)'
    BY <2>1, <2>2, <2>3 DEF Variants!Tried, Variants!Retried
  <2>5. t \in Variants!Batch(c) => c \in Variants!Tried(t)' \ Variants!Tried(t)
    BY <2>1, <2>3 DEF Variants!Tried
  <2>6. Variants!Makeable(Variants!Batch(c)) /\ t \in Variants!Batch(c) =>
           (VariantsUnique => v1[t] = 0)
    BY <2>1 DEF Variants!Makeable
  <2>. QED
    BY <2>1, <2>4, <2>5, <2>6 DEF VariantsOneMore
<1>5. ASSUME NEW c \in VariantsCommand, Variants!CreateOne(c) PROVE VariantsOneMore(t)
  <2>. DEFINE u == Variants!NextOne(c)
  <2>1. /\ VariantsApart(c) /\ v5' = v5 /\ v9' = v9 /\ u \in v6[c] /\ v6'[c] = v6[c] \ {u}
        /\ v1'[t] = v1[t] \/ (t = u /\ v1'[t] = v1[t] + 1 /\ Variants!Makeable({u}))
    BY <1>5, VariantsSingly
  <2>2. \A d \in VariantsCommand \ {c} : v6'[d] = v6[d]
    BY <2>1 DEF VariantsApart
  <2>3. v6[c] \subseteq v9[c] /\ v5[c] \cap v6[c] = {}
    BY VariantsCounts DEF VariantsWithin, VariantsCounted
  <2>4. /\ Variants!Tried(t) \subseteq Variants!Tried(t)'
        /\ Variants!Retried(t) \subseteq Variants!Retried(t)'
    BY <2>1, <2>2 DEF Variants!Tried, Variants!Retried
  <2>5. t = u => c \in Variants!Retried(t)' \ Variants!Retried(t)
    BY <2>1, <2>3 DEF Variants!Retried
  <2>6. Variants!Makeable({u}) /\ t = u => (VariantsUnique => v1[t] = 0)
    BY DEF Variants!Makeable
  <2>. QED
    BY <2>1, <2>4, <2>5, <2>6 DEF VariantsOneMore
<1>6. ASSUME NEW c \in VariantsCommand, Variants!OneFails(c) PROVE VariantsOneMore(t)
  <2>. DEFINE u == Variants!NextOne(c)
  <2>1. /\ VariantsApart(c) /\ v5' = v5 /\ v9' = v9 /\ u \in v6[c] /\ v6'[c] = v6[c] \ {u}
        /\ v1'[t] = v1[t] \/ (t = u /\ v1'[t] = v1[t] + 1 /\ Variants!Makeable({u}))
    BY <1>6, VariantsSingly
  <2>2. \A d \in VariantsCommand \ {c} : v6'[d] = v6[d]
    BY <2>1 DEF VariantsApart
  <2>3. v6[c] \subseteq v9[c] /\ v5[c] \cap v6[c] = {}
    BY VariantsCounts DEF VariantsWithin, VariantsCounted
  <2>4. /\ Variants!Tried(t) \subseteq Variants!Tried(t)'
        /\ Variants!Retried(t) \subseteq Variants!Retried(t)'
    BY <2>1, <2>2 DEF Variants!Tried, Variants!Retried
  <2>5. t = u => c \in Variants!Retried(t)' \ Variants!Retried(t)
    BY <2>1, <2>3 DEF Variants!Retried
  <2>6. Variants!Makeable({u}) /\ t = u => (VariantsUnique => v1[t] = 0)
    BY DEF Variants!Makeable
  <2>. QED
    BY <2>1, <2>4, <2>5, <2>6 DEF VariantsOneMore
<1>7. ASSUME NEW c \in VariantsCommand, Variants!Report(c) PROVE VariantsOneMore(t)
  <2>1. VariantsApart(c) /\ v1' = v1 /\ v5[c] = {} /\ v6[c] = {} /\ v9' = v9 /\ v5' = v5 /\ v6' = v6
    BY <1>7, VariantsReported
  <2>2. \A d \in VariantsCommand \ {c} : v5'[d] = v5[d] /\ v6'[d] = v6[d] /\ v9'[d] = v9[d]
    BY <2>1 DEF VariantsApart
  <2>. QED
    BY <2>1, <2>2 DEF VariantsOneMore, Variants!Tried, Variants!Retried
<1>8. CASE UNCHANGED Variants!vars
  BY <1>8 DEF Variants!vars, VariantsOneMore, Variants!Tried, Variants!Retried
<1>. QED
  BY <1>1, <1>2, <1>3, <1>4, <1>5, <1>6, <1>7, <1>8 DEF Variants!Next

(* While nothing has failed, no batch is tried again.                      *)
VariantsUntroubled(t) ==
    \/ VariantsUnique \/ v11' # 0
    \/ /\ v11 = 0
       /\ (\A d \in VariantsCommand : v6[d] = {}) =>
             /\ v6' = v6
             /\ (\E d \in VariantsCommand : t \in v9'[d]) =>
                   v1'[t] = 0 \/ \E d \in VariantsCommand : t \in v9[d]
             /\ \/ v1'[t] = v1[t]
                \/ v1'[t] = v1[t] + 1 /\ \E d \in Variants!Tried(t)' : d \notin Variants!Tried(t)

(* Every action keeps batches whole while nothing has failed.              *)
LEMMA VariantsFirstTry ==
    ASSUME VariantsMaps, Variants!CountsHold, VariantsWithin, NEW t \in VariantsTemplate,
           [Variants!Next]_Variants!vars
    PROVE  VariantsUntroubled(t)
<1>. USE DEF VariantsUntroubled
<1>1. ASSUME NEW c \in VariantsCommand, Variants!Find(c) PROVE VariantsUntroubled(t)
  <2>1. /\ v6' = v6 /\ v11' = v11 /\ v1' = v1 /\ v9'[c] = {u \in v3[c] : v1[u] = 0}
        /\ VariantsApart(c)
    BY <1>1, VariantsFound
  <2>2. (\E d \in VariantsCommand : t \in v9'[d]) =>
           v1'[t] = 0 \/ \E d \in VariantsCommand : t \in v9[d]
    BY <2>1 DEF VariantsApart
  <2>. QED
    BY <2>1, <2>2
<1>2. ASSUME NEW c \in VariantsCommand, Variants!FindFails(c) PROVE VariantsUntroubled(t)
  BY <1>2, VariantsLost
<1>3. ASSUME NEW c \in VariantsCommand, Variants!CreateBatch(c) PROVE VariantsUntroubled(t)
  <2>1. v6' = v6 /\ v11' = v11 /\ v9' = v9
    BY <1>3, VariantsBatched
  <2>2. v1'[t] = v1[t] \/ (v1'[t] = v1[t] + 1 /\ \E d \in Variants!Tried(t)' : d \notin Variants!Tried(t))
    <3>1. /\ v5'[c] = v5[c] \ Variants!Batch(c)
          /\ v1'[t] = IF t \in Variants!Batch(c) THEN v1[t] + 1 ELSE v1[t]
      BY <1>3, VariantsBatched
    <3>2. Variants!Batch(c) \subseteq v5[c] /\ v5[c] \subseteq v9[c]
      BY VariantsBatchOf DEF VariantsWithin
    <3>3. t \in Variants!Batch(c) => c \in Variants!Tried(t)' /\ c \notin Variants!Tried(t)
      BY <2>1, <3>1, <3>2 DEF Variants!Tried
    <3>. QED
      BY <3>1, <3>3
  <2>. QED
    BY <2>1, <2>2
<1>4. ASSUME NEW c \in VariantsCommand, Variants!BatchFails(c) PROVE VariantsUntroubled(t)
  BY <1>4, VariantsParted DEF Variants!Makeable
<1>5. ASSUME NEW c \in VariantsCommand, Variants!CreateOne(c) PROVE VariantsUntroubled(t)
  BY <1>5, VariantsSingly
<1>6. ASSUME NEW c \in VariantsCommand, Variants!OneFails(c) PROVE VariantsUntroubled(t)
  BY <1>6, VariantsSingly
<1>7. ASSUME NEW c \in VariantsCommand, Variants!Report(c) PROVE VariantsUntroubled(t)
  BY <1>7, VariantsReported
<1>8. CASE UNCHANGED Variants!vars
  BY <1>8 DEF Variants!vars
<1>. QED
  BY <1>1, <1>2, <1>3, <1>4, <1>5, <1>6, <1>7, <1>8 DEF Variants!Next

(* Every action keeps the bounds on the variants of a template.            *)
LEMMA VariantsStayOne ==
    ASSUME VariantsMaps, Variants!CountsHold, VariantsWithin, Variants!VariantsHold,
           [Variants!Next]_Variants!vars
    PROVE  Variants!VariantsHold'
<1>. SUFFICES ASSUME NEW t \in VariantsTemplate
              PROVE  /\ v1'[t] <= 1 + Cardinality(Variants!Tried(t)') +
                                      Cardinality(Variants!Retried(t)')
                     /\ VariantsUnique => v1'[t] <= 1
                     /\ ~VariantsUnique /\ v11' = 0 =>
                           /\ \A c \in VariantsCommand : v6'[c] = {}
                           /\ (\E c \in VariantsCommand : t \in v9'[c]) =>
                                 v1'[t] <= Cardinality(Variants!Tried(t)')
  BY VariantsCardinality DEF Variants!VariantsHold
<1>1. /\ v1[t] <= 1 + Cardinality(Variants!Tried(t)) + Cardinality(Variants!Retried(t))
      /\ VariantsUnique => v1[t] <= 1
      /\ ~VariantsUnique /\ v11 = 0 =>
            /\ \A c \in VariantsCommand : v6[c] = {}
            /\ (\E c \in VariantsCommand : t \in v9[c]) =>
                  v1[t] <= Cardinality(Variants!Tried(t))
  BY VariantsCardinality DEF Variants!VariantsHold
<1>2. VariantsOneMore(t)
  BY VariantsTriesGrow
<1>3. VariantsUntroubled(t)
  BY VariantsFirstTry
<1>. DEFINE a == Cardinality(Variants!Tried(t))
            b == Cardinality(Variants!Retried(t))
            p == Cardinality(Variants!Tried(t)')
            q == Cardinality(Variants!Retried(t)')
<1>4. /\ Variants!Tried(t) \in SUBSET VariantsCommand
      /\ Variants!Retried(t) \in SUBSET VariantsCommand
      /\ Variants!Tried(t)' \in SUBSET VariantsCommand
      /\ Variants!Retried(t)' \in SUBSET VariantsCommand
  BY DEF Variants!Tried, Variants!Retried
<1>5. /\ a \in Nat /\ b \in Nat /\ p \in Nat /\ q \in Nat /\ a <= p /\ b <= q
      /\ (\E c \in Variants!Tried(t)' : c \notin Variants!Tried(t)) => a + 1 <= p
      /\ (\E c \in Variants!Retried(t)' : c \notin Variants!Retried(t)) => b + 1 <= q
  BY <1>2, <1>4, VariantsMore DEF VariantsOneMore
<1>6. /\ v1[t] \in Nat
      /\ v1'[t] = v1[t] \/ (v1'[t] = v1[t] + 1 /\ (VariantsUnique => v1[t] = 0) /\
                            (a + 1 <= p \/ b + 1 <= q))
  BY <1>2, <1>5 DEF VariantsOneMore
<1>. HIDE DEF a, b, p, q
<1>7. v1[t] <= 1 + a + b => v1'[t] <= 1 + p + q
  BY <1>5, <1>6
<1>8. (VariantsUnique => v1[t] <= 1) => (VariantsUnique => v1'[t] <= 1)
  BY <1>6
<1>9. ASSUME ~VariantsUnique, v11' = 0
      PROVE  /\ \A c \in VariantsCommand : v6'[c] = {}
             /\ (\E c \in VariantsCommand : t \in v9'[c]) => v1'[t] <= p
  <2>1. v11 = 0
    BY <1>3, <1>9 DEF VariantsUntroubled
  <2>2. /\ \A c \in VariantsCommand : v6[c] = {}
        /\ (\E c \in VariantsCommand : t \in v9[c]) => v1[t] <= a
    BY <1>1, <1>9, <2>1 DEF a
  <2>3. /\ v6' = v6
        /\ (\E d \in VariantsCommand : t \in v9'[d]) =>
              v1'[t] = 0 \/ \E d \in VariantsCommand : t \in v9[d]
        /\ \/ v1'[t] = v1[t]
           \/ v1'[t] = v1[t] + 1 /\ \E d \in Variants!Tried(t)' : d \notin Variants!Tried(t)
    BY <1>3, <1>9, <2>2 DEF VariantsUntroubled
  <2>4. v1'[t] = v1[t] \/ (v1'[t] = v1[t] + 1 /\ a + 1 <= p)
    BY <1>5, <2>3
  <2>5. v1[t] <= a => v1'[t] <= p
    BY <1>5, <1>6, <2>4
  <2>. QED
    BY <1>5, <2>2, <2>3, <2>5
<1>. QED
  BY <1>1, <1>7, <1>8, <1>9 DEF a, b, p, q

(* The bounds of TypeOK follow from the counts.                            *)
LEMMA VariantsTypes ==
    ASSUME VariantsMaps, VariantsWithin, Variants!CountsHold, Variants!VariantsHold
    PROVE  Variants!TypeOK
<1>1. ASSUME NEW t \in VariantsTemplate
      PROVE  v1[t] \in 0 .. 1 + 2 * Cardinality(VariantsCommand)
  <2>1. /\ v1[t] \in Nat
        /\ v1[t] <= 1 + Cardinality(Variants!Tried(t)) + Cardinality(Variants!Retried(t))
    BY VariantsCardinality DEF VariantsMaps, Variants!VariantsHold
  <2>2. /\ Variants!Tried(t) \in SUBSET VariantsCommand
        /\ Variants!Retried(t) \in SUBSET VariantsCommand
        /\ VariantsCommand \in SUBSET VariantsCommand
    BY DEF Variants!Tried, Variants!Retried
  <2>3. /\ Cardinality(Variants!Tried(t)) <= Cardinality(VariantsCommand)
        /\ Cardinality(Variants!Retried(t)) <= Cardinality(VariantsCommand)
        /\ Cardinality(Variants!Tried(t)) \in Nat /\ Cardinality(Variants!Retried(t)) \in Nat
        /\ Cardinality(VariantsCommand) \in Nat
    BY <2>2, VariantsMore
  <2>. QED
    BY <2>1, <2>3
<1>2. ASSUME NEW c \in VariantsCommand
      PROVE  /\ v7[c] \in 0 .. Cardinality(VariantsTemplate)
             /\ v8[c] \in 0 .. Cardinality(VariantsTemplate)
  <2>1. v7[c] \in Nat /\ v8[c] \in Nat /\ Cardinality(VariantsTemplate) \in Nat
    BY VariantsFinite DEF VariantsMaps
  <2>2. v9[c] \in SUBSET VariantsTemplate /\ v5[c] \cup v6[c] \in SUBSET VariantsTemplate
    BY DEF VariantsMaps
  <2>3. /\ Cardinality(v9[c]) \in Nat /\ Cardinality(v5[c] \cup v6[c]) \in Nat
        /\ Cardinality(v9[c]) <= Cardinality(VariantsTemplate)
    BY <2>2, VariantsFinite
  <2>4. \/ v7[c] + v8[c] + Cardinality(v5[c] \cup v6[c]) = Cardinality(v9[c])
        \/ v7[c] = 0 /\ v8[c] = 0
    BY VariantsCounts DEF VariantsCounted
  <2>. QED
    BY <2>1, <2>3, <2>4
<1>3. /\ v1 \in [VariantsTemplate -> 0 .. 1 + 2 * Cardinality(VariantsCommand)]
      /\ v7 \in [VariantsCommand -> 0 .. Cardinality(VariantsTemplate)]
      /\ v8 \in [VariantsCommand -> 0 .. Cardinality(VariantsTemplate)]
  BY <1>1, <1>2 DEF VariantsMaps
<1>. QED
  BY <1>3, VariantsCardinality DEF VariantsMaps, VariantsWithin, Variants!TypeOK

(* TypeOK has the unbounded types as a part.                               *)
LEMMA VariantsOfTypes ==
    ASSUME Variants!TypeOK PROVE VariantsMaps /\ VariantsWithin
<1>1. /\ v1 \in [VariantsTemplate -> 0 .. 1 + 2 * Cardinality(VariantsCommand)]
      /\ v7 \in [VariantsCommand -> 0 .. Cardinality(VariantsTemplate)]
      /\ v8 \in [VariantsCommand -> 0 .. Cardinality(VariantsTemplate)]
  BY VariantsCardinality DEF Variants!TypeOK
<1>2. \A n : 0 .. n \subseteq Nat
  OBVIOUS
<1>3. /\ v1 \in [VariantsTemplate -> Nat] /\ v7 \in [VariantsCommand -> Nat]
      /\ v8 \in [VariantsCommand -> Nat]
  BY <1>1, <1>2
<1>. QED
  BY <1>3 DEF VariantsMaps, VariantsWithin, Variants!TypeOK

(* VariantsInv holds in the first state.                                   *)
LEMMA VariantsBegin == Variants!Init => Variants!VariantsInv
<1>. SUFFICES ASSUME Variants!Init PROVE Variants!VariantsInv
  OBVIOUS
<1>1. /\ \A t \in VariantsTemplate : v1[t] \in {0, 1}
      /\ \A c \in VariantsCommand :
            /\ v4[c] = "search" /\ v5[c] = {} /\ v6[c] = {} /\ v7[c] = 0 /\ v8[c] = 0
            /\ v9[c] = {} /\ v10[c] = "none"
  BY DEF Variants!Init
<1>2. VariantsMaps
  <2>1. 0 \in 0 .. VariantsFaults
    BY VariantsFaultsNat
  <2>2. v1 \in [VariantsTemplate -> {0, 1}]
    BY DEF Variants!Init
  <2>3. v1 \in [VariantsTemplate -> Nat]
    BY <2>2
  <2>. QED
    BY <2>1, <2>3 DEF VariantsMaps, Variants!Init
<1>3. VariantsWithin
  BY <1>1 DEF VariantsWithin
<1>4. Variants!CountsHold
  <2>1. \A c \in VariantsCommand : v5[c] \cup v6[c] = {} /\ v9[c] = {}
    BY <1>1
  <2>2. \A c \in VariantsCommand :
           Cardinality(v5[c] \cup v6[c]) = 0 /\ Cardinality(v9[c]) = 0
    BY <2>1, VariantsLess
  <2>3. 0 + 0 + 0 = 0
    OBVIOUS
  <2>4. \A c \in VariantsCommand : VariantsCounted(c)
    BY <1>1, <2>2, <2>3 DEF VariantsCounted
  <2>. QED
    BY <2>4, VariantsCounts
<1>5. Variants!ScopeHolds
  BY <1>1 DEF Variants!ScopeHolds
<1>6. Variants!VariantsHold
  <2>. SUFFICES ASSUME NEW t \in VariantsTemplate
                PROVE  /\ v1[t] <= 1 + Cardinality(Variants!Tried(t)) +
                                       Cardinality(Variants!Retried(t))
                       /\ v1[t] <= 1
    BY <1>1, VariantsCardinality DEF Variants!VariantsHold
  <2>1. Cardinality(Variants!Tried(t)) \in Nat /\ Cardinality(Variants!Retried(t)) \in Nat
    BY VariantsTries
  <2>2. v1[t] = 0 \/ v1[t] = 1
    BY <1>1
  <2>. QED
    BY <2>1, <2>2
<1>. QED
  BY <1>2, <1>3, <1>4, <1>5, <1>6, VariantsTypes DEF Variants!VariantsInv

(* Counts, domains and variants stay right: VariantsInv is inductive.      *)
THEOREM VariantsStayRight == Variants!Spec => []Variants!VariantsInv
<1>1. VariantsMaps /\ VariantsWithin /\ Variants!CountsHold /\ Variants!VariantsHold
         => Variants!TypeOK
  BY VariantsTypes
<1>2. VariantsMaps' /\ VariantsWithin' /\ Variants!CountsHold' /\ Variants!VariantsHold'
         => Variants!TypeOK'
  BY <1>1, PTL
<1>3. ASSUME Variants!VariantsInv, [Variants!Next]_Variants!vars PROVE Variants!VariantsInv'
  <2>1. /\ VariantsMaps /\ VariantsWithin /\ Variants!CountsHold /\ Variants!ScopeHolds
        /\ Variants!VariantsHold
    BY <1>3, VariantsOfTypes DEF Variants!VariantsInv
  <2>2. VariantsMaps'
    BY <1>3, <2>1, VariantsMapped
  <2>3. VariantsWithin' /\ Variants!CountsHold' /\ Variants!ScopeHolds' /\ Variants!VariantsHold'
    BY <1>3, <2>1, <2>2, VariantsKept, VariantsStayCounted, VariantsStayScoped, VariantsStayOne
  <2>4. Variants!TypeOK'
    BY <1>2, <2>2, <2>3
  <2>. QED
    BY <2>3, <2>4 DEF Variants!VariantsInv
<1>. QED
  BY <1>3, VariantsBegin, PTL DEF Variants!Spec

(* VariantsInv implies what a command promises.                            *)
LEMMA VariantsGiveSound == Variants!VariantsInv => Variants!VariantsAreSound
<1>. SUFFICES ASSUME Variants!VariantsInv PROVE Variants!VariantsAreSound
  OBVIOUS
<1>1. VariantsMaps /\ VariantsWithin /\ Variants!CountsHold /\ Variants!ScopeHolds
  BY VariantsOfTypes DEF Variants!VariantsInv
<1>2. ASSUME NEW c \in VariantsCommand, v4[c] = "over"
      PROVE  /\ Variants!Fixes(c) => v7[c] + v8[c] = Cardinality(v9[c])
             /\ v2[c] = "workflow" /\ v10[c] = "ok" => \A t \in v3[c] : v1[t] > 0
  <2>1. VariantsCounted(c) /\ VariantsScoped(c)
    BY <1>1, VariantsCounts, VariantsScopes
  <2>2. v5[c] = {} /\ v6[c] = {} /\ Cardinality(v5[c] \cup v6[c]) = 0
    BY <1>2, <2>1, VariantsLess DEF VariantsCounted
  <2>3. v7[c] \in Nat /\ v8[c] \in Nat
    BY <1>1 DEF VariantsMaps
  <2>4. Variants!Fixes(c) => v7[c] + v8[c] + 0 = Cardinality(v9[c])
    BY <2>1, <2>2 DEF VariantsCounted
  <2>5. v2[c] = "workflow" /\ v10[c] = "ok" => \A t \in v3[c] : v1[t] > 0
    BY <1>2, <2>1, <2>2 DEF VariantsScoped
  <2>. QED
    BY <2>3, <2>4, <2>5
<1>3. Variants!EveryTemplateCounted
  BY <1>2, VariantsCardinality DEF Variants!EveryTemplateCounted, Variants!Fixes
<1>4. ASSUME NEW t \in VariantsTemplate, v1[t] > 1
      PROVE  /\ ~VariantsUnique
             /\ v11 > 0 \/ Cardinality({c \in VariantsCommand : t \in v9[c]}) > 1
  <2>. DEFINE F == {c \in VariantsCommand : t \in v9[c]}
  <2>1. v1[t] \in Nat /\ v11 \in Nat
    <3>1. v1 \in [VariantsTemplate -> Nat] /\ v11 \in 0 .. VariantsFaults
      BY <1>1 DEF VariantsMaps
    <3>. QED
      BY <3>1, VariantsFaultsNat
  <2>2. /\ v1[t] <= 1 + Cardinality(Variants!Tried(t)) + Cardinality(Variants!Retried(t))
        /\ VariantsUnique => v1[t] <= 1
        /\ ~VariantsUnique /\ v11 = 0 =>
              (F # {} => v1[t] <= Cardinality(Variants!Tried(t)))
    BY VariantsCardinality DEF Variants!VariantsInv, Variants!VariantsHold
  <2>3. /\ Variants!Tried(t) \subseteq F /\ Variants!Retried(t) \subseteq F
        /\ F \in SUBSET VariantsCommand
        /\ Variants!Tried(t) \in SUBSET VariantsCommand
    BY DEF Variants!Tried, Variants!Retried
  <2>4. /\ Cardinality(Variants!Tried(t)) <= Cardinality(F)
        /\ Cardinality(Variants!Tried(t)) \in Nat /\ Cardinality(F) \in Nat
    BY <2>3, VariantsMore
  <2>5. ~VariantsUnique
    BY <1>4, <2>1, <2>2
  <2>6. F = {} => v1[t] <= 1 + 0 + 0
    BY <2>2, <2>3, VariantsLess
  <2>7. F # {}
    BY <1>4, <2>1, <2>6
  <2>. HIDE DEF F
  <2>8. v11 > 0 \/ Cardinality(F) > 1
    BY <1>4, <2>1, <2>2, <2>4, <2>5, <2>7
  <2>. QED
    BY <2>5, <2>8 DEF F
<1>5. Variants!OneVariantEach
  BY <1>4, VariantsCardinality DEF Variants!OneVariantEach
<1>. QED
  BY <1>3, <1>5 DEF Variants!VariantsInv, Variants!VariantsAreSound

(***************************************************************************)
(* InvoiceWorkflow                                                         *)
(***************************************************************************)
(* Types without the bound on payments, which follows from PaidOnce.       *)
InvoicesMaps ==
    /\ v1 \in [InvoicesInvoice -> {"draft", "open", "paid", "proforma"}]
    /\ v2 \in [InvoicesInvoice -> 0 .. InvoicesTaxes]
    /\ v3 \in [InvoicesInvoice -> [draft : Nat, posted : Nat]]
    /\ v4 \subseteq InvoicesInvoice /\ v7 \subseteq InvoicesInvoice
    /\ v10 \subseteq InvoicesInvoice
    /\ v5 \subseteq {Invoices!Actions[n] : n \in 1 .. 5} /\ v6 \in 0 .. 5
    /\ v8 \in [InvoicesInvoice ->
                  {"none", "tax", "validate", "pay", "post", "proforma", "rename"}]
    /\ v9 \in BOOLEAN /\ v11 \in 0 .. InvoicesRuns /\ v12 \in 0 .. InvoicesFaults

InvoicesNumbers == InvoicesTaxes \in Nat /\ InvoicesTaxes > 0 /\ InvoicesRuns \in Nat
                      /\ InvoicesFaults \in Nat

(* What the assumption says of these numbers.                              *)
LEMMA InvoicesConstants == InvoicesNumbers
BY InvoicesAssumption DEF InvoicesNumbers

(* The actions of a run, in their order.                                   *)
LEMMA InvoicesActions ==
    /\ Invoices!Actions[1] = "tax" /\ Invoices!Actions[2] = "validate"
    /\ Invoices!Actions[3] = "pay" /\ Invoices!Actions[4] = "proforma"
    /\ Invoices!Actions[5] = "rename" /\ Len(Invoices!Actions) = 5
    /\ \A n \in 1 .. 5 : n = 1 \/ n = 2 \/ n = 3 \/ n = 4 \/ n = 5
BY DEF Invoices!Actions

(* The invoices an action is for, one by one.                              *)
LEMMA InvoicesChosen ==
    ASSUME NEW i \in InvoicesInvoice
    PROVE  /\ i \in Invoices!Chosen("tax") <=> v1[i] = "draft" /\ v2[i] = 0
           /\ i \in Invoices!Chosen("validate") <=>
                 v1[i] = "draft" /\ InvoicesLegacy[i] \in {"open", "paid"}
           /\ i \in Invoices!Chosen("pay") <=> v1[i] = "open" /\ InvoicesLegacy[i] = "paid"
           /\ i \in Invoices!Chosen("proforma") <=>
                 v1[i] = "draft" /\ InvoicesLegacy[i] = "proforma"
           /\ i \in Invoices!Chosen("rename") <=> v1[i] # "draft" /\ i \notin v4
BY DEF Invoices!Chosen

(* A fault is counted, within its bound.                                   *)
LEMMA InvoicesFaultCounted ==
    ASSUME v12 \in 0 .. InvoicesFaults, Invoices!Fault
    PROVE  v12' \in 0 .. InvoicesFaults
<1>1. v12 < InvoicesFaults /\ v12' = v12 + 1 /\ InvoicesFaults \in Nat
  BY InvoicesConstants DEF Invoices!Fault, InvoicesNumbers
<1>. QED
  BY <1>1

(* Every step keeps these types.                                           *)
LEMMA InvoicesMapped ==
    ASSUME InvoicesMaps, Invoices!TasksHold, [Invoices!Next]_Invoices!vars
    PROVE  InvoicesMaps'
<1>. USE DEF InvoicesMaps
<1>1. ASSUME Invoices!Start PROVE InvoicesMaps'
  <2>1. v11' \in 0 .. InvoicesRuns
    <3>1. v11 < InvoicesRuns /\ v11' = v11 + 1 /\ InvoicesRuns \in Nat
      BY <1>1, InvoicesConstants DEF Invoices!Start, InvoicesNumbers
    <3>. QED
      BY <3>1
  <2>2. v5' \subseteq {Invoices!Actions[n] : n \in 1 .. 5}
    <3>1. {"tax", "validate", "pay"} \subseteq {Invoices!Actions[n] : n \in 1 .. 5}
      BY InvoicesActions
    <3>. QED
      BY <1>1, <3>1 DEF Invoices!Start
  <2>3. v6' \in 0 .. 5
    <3>1. v6' = 1
      BY <1>1 DEF Invoices!Start
    <3>. QED
      BY <3>1
  <2>4. v9' \in BOOLEAN
    BY <1>1 DEF Invoices!Start
  <2>. QED
    BY <1>1, <2>1, <2>2, <2>3, <2>4 DEF Invoices!Start, Invoices!server
<1>2. ASSUME Invoices!Search PROVE InvoicesMaps'
  <2>1. v7' \subseteq InvoicesInvoice /\ v9' \in BOOLEAN
    BY <1>2 DEF Invoices!Search, Invoices!Chosen
  <2>. QED
    BY <1>2, <2>1 DEF Invoices!Search, Invoices!server
<1>3. ASSUME Invoices!NextAction PROVE InvoicesMaps'
  <2>1. v6' \in 0 .. 5
    BY <1>3, InvoicesActions DEF Invoices!NextAction
  <2>2. v9' \in BOOLEAN
    BY <1>3 DEF Invoices!NextAction
  <2>. QED
    BY <1>3, <2>1, <2>2 DEF Invoices!NextAction, Invoices!server
<1>4. ASSUME Invoices!Die PROVE InvoicesMaps'
  <2>1. v6' \in 0 .. 5 /\ v7' \subseteq InvoicesInvoice
    BY <1>4 DEF Invoices!Die
  <2>2. v8' \in [InvoicesInvoice ->
             {"none", "tax", "validate", "pay", "post", "proforma", "rename"}]
    BY <1>4 DEF Invoices!Die
  <2>3. v10' \subseteq InvoicesInvoice
    BY <1>4 DEF Invoices!Die, Invoices!Running
  <2>4. v12' \in 0 .. InvoicesFaults
    BY <1>4, InvoicesFaultCounted DEF Invoices!Die
  <2>. QED
    BY <1>4, <2>1, <2>2, <2>3, <2>4 DEF Invoices!Die, Invoices!server
<1>5. ASSUME NEW i \in InvoicesInvoice, Invoices!Begin(i) PROVE InvoicesMaps'
  <2>1. v7' \subseteq InvoicesInvoice
    BY <1>5 DEF Invoices!Begin
  <2>2. v8' \in [InvoicesInvoice ->
             {"none", "tax", "validate", "pay", "post", "proforma", "rename"}]
    <3>1. Invoices!Actions[v6] \in {"tax", "validate", "pay", "proforma", "rename"}
      <4>1. v6 \in 1 .. 5
        BY <1>5 DEF Invoices!Begin, Invoices!TasksHold, Invoices!AllOver
      <4>. QED
        BY <4>1, InvoicesActions
    <3>2. v8' = [v8 EXCEPT ![i] = Invoices!Actions[v6]]
      BY <1>5 DEF Invoices!Begin
    <3>. QED
      BY <3>1, <3>2
  <2>. QED
    BY <1>5, <2>1, <2>2 DEF Invoices!Begin, Invoices!server
<1>6. ASSUME NEW i \in InvoicesInvoice, Invoices!AddTax(i) PROVE InvoicesMaps'
  <2>1. v2' \in [InvoicesInvoice -> 0 .. InvoicesTaxes]
    <3>1. v2[i] < InvoicesTaxes /\ v2[i] \in 0 .. InvoicesTaxes /\ InvoicesTaxes \in Nat
      BY <1>6, InvoicesConstants DEF Invoices!AddTax, Invoices!TasksHold, Invoices!TaskFits,
         InvoicesNumbers
    <3>2. v2[i] + 1 \in 0 .. InvoicesTaxes
      BY <3>1
    <3>. QED
      BY <1>6, <3>2 DEF Invoices!AddTax
  <2>2. v8' \in [InvoicesInvoice ->
             {"none", "tax", "validate", "pay", "post", "proforma", "rename"}]
    BY <1>6 DEF Invoices!AddTax, Invoices!Over
  <2>. QED
    BY <1>6, <2>1, <2>2 DEF Invoices!AddTax, Invoices!server
<1>7. ASSUME NEW i \in InvoicesInvoice, Invoices!Validate(i) PROVE InvoicesMaps'
  <2>1. v1' \in [InvoicesInvoice -> {"draft", "open", "paid", "proforma"}]
    BY <1>7 DEF Invoices!Validate
  <2>2. v8' \in [InvoicesInvoice ->
             {"none", "tax", "validate", "pay", "post", "proforma", "rename"}]
    BY <1>7 DEF Invoices!Validate, Invoices!Over
  <2>. QED
    BY <1>7, <2>1, <2>2 DEF Invoices!Validate, Invoices!server
<1>8. ASSUME NEW i \in InvoicesInvoice, Invoices!CreatePayment(i) PROVE InvoicesMaps'
  <2>1. v3' \in [InvoicesInvoice -> [draft : Nat, posted : Nat]]
    <3>1. v3[i].draft \in Nat /\ v3[i].draft + 1 \in Nat
      OBVIOUS
    <3>. QED
      BY <1>8, <3>1 DEF Invoices!CreatePayment
  <2>2. v8' \in [InvoicesInvoice ->
             {"none", "tax", "validate", "pay", "post", "proforma", "rename"}]
    BY <1>8 DEF Invoices!CreatePayment
  <2>. QED
    BY <1>8, <2>1, <2>2 DEF Invoices!CreatePayment, Invoices!server
<1>9. ASSUME NEW i \in InvoicesInvoice, Invoices!Post(i) PROVE InvoicesMaps'
  <2>1. v1' \in [InvoicesInvoice -> {"draft", "open", "paid", "proforma"}]
    BY <1>9 DEF Invoices!Post
  <2>2. v3' \in [InvoicesInvoice -> [draft : Nat, posted : Nat]]
    <3>1. v3[i].draft \in Nat /\ v3[i].posted \in Nat /\ v3[i].draft > 0
      BY <1>9 DEF Invoices!Post, Invoices!TasksHold, Invoices!TaskFits
    <3>2. v3[i].draft - 1 \in Nat /\ v3[i].posted + 1 \in Nat
      BY <3>1
    <3>3. v3' = [v3 EXCEPT ![i] = [draft |-> v3[i].draft - 1, posted |-> v3[i].posted + 1]]
      BY <1>9 DEF Invoices!Post
    <3>. QED
      BY <3>2, <3>3
  <2>3. v8' \in [InvoicesInvoice ->
             {"none", "tax", "validate", "pay", "post", "proforma", "rename"}]
    BY <1>9 DEF Invoices!Post, Invoices!Over
  <2>. QED
    BY <1>9, <2>1, <2>2, <2>3 DEF Invoices!Post, Invoices!server
<1>10. ASSUME NEW i \in InvoicesInvoice, Invoices!Proforma(i) PROVE InvoicesMaps'
  <2>1. v1' \in [InvoicesInvoice -> {"draft", "open", "paid", "proforma"}]
    BY <1>10 DEF Invoices!Proforma
  <2>2. v8' \in [InvoicesInvoice ->
             {"none", "tax", "validate", "pay", "post", "proforma", "rename"}]
    BY <1>10 DEF Invoices!Proforma, Invoices!Over
  <2>. QED
    BY <1>10, <2>1, <2>2 DEF Invoices!Proforma, Invoices!server
<1>11. ASSUME NEW i \in InvoicesInvoice, Invoices!Rename(i) PROVE InvoicesMaps'
  <2>1. v4' \subseteq InvoicesInvoice
    BY <1>11 DEF Invoices!Rename
  <2>2. v8' \in [InvoicesInvoice ->
             {"none", "tax", "validate", "pay", "post", "proforma", "rename"}]
    BY <1>11 DEF Invoices!Rename, Invoices!Over
  <2>. QED
    BY <1>11, <2>1, <2>2 DEF Invoices!Rename, Invoices!server
<1>12. ASSUME NEW i \in InvoicesInvoice, Invoices!TaskFails(i) PROVE InvoicesMaps'
  <2>1. v10' \subseteq InvoicesInvoice
    BY <1>12 DEF Invoices!TaskFails
  <2>2. v8' \in [InvoicesInvoice ->
             {"none", "tax", "validate", "pay", "post", "proforma", "rename"}]
    BY <1>12 DEF Invoices!TaskFails, Invoices!Over
  <2>3. v12' \in 0 .. InvoicesFaults
    BY <1>12, InvoicesFaultCounted DEF Invoices!TaskFails
  <2>. QED
    BY <1>12, <2>1, <2>2, <2>3 DEF Invoices!TaskFails, Invoices!server
<1>13. CASE UNCHANGED Invoices!vars
  BY <1>13 DEF Invoices!vars
<1>. QED
  BY <1>1, <1>2, <1>3, <1>4, <1>5, <1>6, <1>7, <1>8, <1>9,
     <1>10, <1>11, <1>12, <1>13 DEF Invoices!Next

(* While a task is there or to begin, its action is under way.             *)
LEMMA InvoicesAt ==
    ASSUME InvoicesMaps, Invoices!TasksHold, NEW i \in InvoicesInvoice
    PROVE  /\ i \in v7 \/ v8[i] # "none" => v6 # 0 /\ v9
           /\ v8[i] = "tax" => v6 = 1
           /\ v8[i] = "validate" => v6 = 2
           /\ v8[i] \in {"pay", "post"} => v6 = 3
           /\ v8[i] = "proforma" => v6 = 4
           /\ v8[i] = "rename" => v6 = 5
           /\ v8[i] # "none" => i \notin v7
<1>1. i \in v7 \/ v8[i] # "none" => v6 # 0 /\ v9
  BY DEF Invoices!TasksHold, Invoices!AllOver, Invoices!Running
<1>2. v6 \in 0 .. 5
  BY DEF InvoicesMaps
<1>3. v8[i] # "none" =>
         /\ i \notin v7 /\ v6 \in 1 .. 5
         /\ Invoices!Actions[v6] = IF v8[i] = "post" THEN "pay" ELSE v8[i]
  BY <1>1, <1>2 DEF Invoices!TasksHold, Invoices!TaskFits
<1>. QED
  BY <1>1, <1>3, InvoicesActions

(* All that the invariant says of one invoice.                             *)
InvoicesRight(i) ==
    /\ Invoices!TaskFits(i) /\ Invoices!PaidOnce(i)
    /\ v6 # 0 /\ "rename" \in v5 /\ i \notin v10 => Invoices!Advanced(i)

InvoicesPhase ==
    /\ v6 = 0 \/ ~v9 => Invoices!AllOver
    /\ v6 # 0 /\ v9 => Invoices!Actions[v6] \in v5
    /\ "rename" \in v5 => \A n \in 1 .. 5 : Invoices!Actions[n] \in v5

(* The invariant is one part on the run and one on each invoice.           *)
LEMMA InvoicesParts ==
    Invoices!TasksHold /\ Invoices!PaymentsHold /\ Invoices!ProgressHolds <=>
        InvoicesPhase /\ \A i \in InvoicesInvoice : InvoicesRight(i)
BY DEF Invoices!TasksHold, Invoices!PaymentsHold, Invoices!ProgressHolds, InvoicesRight,
   InvoicesPhase

(* A task of one invoice is nothing to the others.                         *)
InvoicesStill(j) ==
    /\ v5' = v5 /\ v6' = v6 /\ v9' = v9 /\ v11' = v11
    /\ v1'[j] = v1[j] /\ v2'[j] = v2[j] /\ v3'[j] = v3[j] /\ v8'[j] = v8[j]
    /\ (j \in v4' <=> j \in v4) /\ (j \in v7' <=> j \in v7) /\ (j \in v10' <=> j \in v10)

(* What is right of an invoice stays so in a step of another one.          *)
LEMMA InvoicesElse ==
    ASSUME NEW j \in InvoicesInvoice, InvoicesRight(j), InvoicesStill(j)
    PROVE  InvoicesRight(j)'
<1>. USE DEF InvoicesStill
<1>1. \A n \in {"tax", "validate", "pay", "proforma", "rename"} :
         j \in Invoices!Chosen(n)' <=> j \in Invoices!Chosen(n)
  BY DEF Invoices!Chosen
<1>2. j \in Invoices!Chosen(Invoices!Actions[v6])' <=> j \in Invoices!Chosen(Invoices!Actions[v6])
  BY DEF Invoices!Chosen
<1>3. Invoices!TaskFits(j)'
  BY <1>1, <1>2 DEF Invoices!TaskFits, InvoicesRight
<1>4. Invoices!PaidOnce(j)'
  BY DEF Invoices!PaidOnce, Invoices!ToBePaid, InvoicesRight
<1>5. v6' # 0 /\ "rename" \in v5' /\ j \notin v10' => Invoices!Advanced(j)'
  BY DEF Invoices!Advanced, Invoices!Past, InvoicesRight
<1>. QED
  BY <1>3, <1>4, <1>5 DEF InvoicesRight

(* Every step keeps the run and each invoice right, action by action.      *)
LEMMA InvoicesStayRight ==
    ASSUME InvoicesMaps, InvoicesMaps', Invoices!TasksHold,
           InvoicesPhase, \A i \in InvoicesInvoice : InvoicesRight(i), [Invoices!Next]_Invoices!vars
    PROVE  InvoicesPhase' /\ \A j \in InvoicesInvoice : InvoicesRight(j)'
<1>1. ASSUME Invoices!Start
      PROVE  InvoicesPhase' /\ \A j \in InvoicesInvoice : InvoicesRight(j)'
  <2>1. /\ v6 = 0 /\ v6' = 1 /\ ~v9' /\ v11' = v11 + 1 /\ v1' = v1 /\ v2' = v2 /\ v3' = v3
        /\ v4' = v4 /\ v7' = v7 /\ v8' = v8 /\ v10' = v10
    BY <1>1 DEF Invoices!Start, Invoices!server
  <2>2. v7 = {} /\ \A i \in InvoicesInvoice : v8[i] = "none"
    BY <2>1 DEF InvoicesPhase, Invoices!AllOver, Invoices!Running
  <2>3. InvoicesPhase'
    <3>1. "rename" \in v5' => v5' = {Invoices!Actions[n] : n \in 1 .. 5}
      BY <1>1 DEF Invoices!Start
    <3>2. v7' = {} /\ \A i \in InvoicesInvoice : v8'[i] = "none"
      BY <2>1, <2>2
    <3>3. Invoices!AllOver'
      BY <3>2 DEF Invoices!AllOver, Invoices!Running
    <3>4. "rename" \in v5' => \A n \in 1 .. 5 : Invoices!Actions[n] \in v5'
      BY <3>1
    <3>. QED
      BY <2>1, <3>3, <3>4 DEF InvoicesPhase
  <2>4. ASSUME NEW i \in InvoicesInvoice PROVE InvoicesRight(i)'
    <3>1. Invoices!TaskFits(i)'
      BY <2>1, <2>2 DEF Invoices!TaskFits
    <3>2. /\ v3[i].draft \in Nat /\ v3[i].posted \in Nat /\ v11 \in Nat
          /\ v3[i].draft <= v11 /\ v3[i].posted <= v11
      BY DEF InvoicesMaps, InvoicesRight, Invoices!PaidOnce
    <3>3. v3[i].draft < v11' /\ v3[i].draft <= v11' /\ v3[i].posted <= v11'
      BY <2>1, <3>2
    <3>4. Invoices!PaidOnce(i)'
      BY <2>1, <2>2, <3>3 DEF Invoices!PaidOnce, Invoices!ToBePaid, InvoicesRight
    <3>5. Invoices!Advanced(i)'
      BY <2>1 DEF Invoices!Advanced, Invoices!Past
    <3>. QED
      BY <3>1, <3>4, <3>5 DEF InvoicesRight
  <2>. QED
    BY <2>3, <2>4
<1>2. ASSUME Invoices!Search
      PROVE  InvoicesPhase' /\ \A j \in InvoicesInvoice : InvoicesRight(j)'
  <2>1. /\ v6 # 0 /\ ~v9 /\ v9' /\ Invoices!Actions[v6] \in v5
        /\ v7' = Invoices!Chosen(Invoices!Actions[v6])
        /\ v1' = v1 /\ v2' = v2 /\ v3' = v3 /\ v4' = v4 /\ v5' = v5 /\ v6' = v6 /\ v8' = v8
        /\ v10' = v10 /\ v11' = v11
    BY <1>2 DEF Invoices!Search, Invoices!server
  <2>2. v7 = {} /\ \A i \in InvoicesInvoice : v8[i] = "none"
    BY <2>1 DEF InvoicesPhase, Invoices!AllOver, Invoices!Running
  <2>3. InvoicesPhase'
    BY <2>1 DEF InvoicesPhase
  <2>4. ASSUME NEW i \in InvoicesInvoice PROVE InvoicesRight(i)'
    <3>1. i \in v7' => i \in Invoices!Chosen(Invoices!Actions[v6])'
      BY <2>1 DEF Invoices!Chosen
    <3>2. Invoices!TaskFits(i)'
      BY <2>1, <2>2, <3>1 DEF Invoices!TaskFits
    <3>3. Invoices!PaidOnce(i)'
      BY <2>1, <2>2 DEF Invoices!PaidOnce, Invoices!ToBePaid, InvoicesRight
    <3>4. ASSUME "rename" \in v5', i \notin v10' PROVE Invoices!Advanced(i)'
      <4>1. Invoices!Advanced(i)
        BY <2>1, <3>4 DEF InvoicesRight
      <4>2. v1[i] \in {"draft", InvoicesLegacy[i]} \/ (InvoicesLegacy[i] = "paid" /\ v1[i] = "open")
        BY DEF InvoicesRight, Invoices!PaidOnce
      <4>3. v6 \in 1 .. 5
        BY <2>1 DEF InvoicesMaps
      <4>4. /\ v6 = 2 => (i \in v7' <=> i \in Invoices!Chosen("validate"))
            /\ v6 = 3 => (i \in v7' <=> i \in Invoices!Chosen("pay"))
            /\ v6 = 4 => (i \in v7' <=> i \in Invoices!Chosen("proforma"))
            /\ v6 = 5 => (i \in v7' <=> i \in Invoices!Chosen("rename"))
        BY <2>1, InvoicesActions
      <4>5. InvoicesLegacy[i] \in {"open", "paid", "proforma"}
        BY InvoicesAssumption
      <4>6. /\ v6 > 2 /\ InvoicesLegacy[i] \in {"open", "paid"} => v1[i] # "draft"
            /\ v6 > 3 /\ InvoicesLegacy[i] = "paid" => v1[i] = "paid"
            /\ v6 > 4 /\ InvoicesLegacy[i] = "proforma" => v1[i] = "proforma"
        BY <4>1 DEF Invoices!Advanced, Invoices!Past
      <4>7. CASE v6 = 1
        BY <2>1, <4>7 DEF Invoices!Advanced, Invoices!Past
      <4>8. CASE v6 = 2
        BY <2>1, <4>4, <4>8, InvoicesChosen DEF Invoices!Advanced, Invoices!Past
      <4>9. CASE v6 = 3
        BY <2>1, <4>2, <4>4, <4>6, <4>9, InvoicesChosen DEF Invoices!Advanced, Invoices!Past
      <4>10. CASE v6 = 4
        BY <2>1, <4>2, <4>4, <4>6, <4>10, InvoicesChosen DEF Invoices!Advanced, Invoices!Past
      <4>11. CASE v6 = 5
        BY <2>1, <4>2, <4>4, <4>5, <4>6, <4>11, InvoicesChosen
           DEF Invoices!Advanced, Invoices!Past
      <4>. QED
        BY <4>3, <4>7, <4>8, <4>9, <4>10, <4>11
    <3>. QED
      BY <3>2, <3>3, <3>4 DEF InvoicesRight
  <2>. QED
    BY <2>3, <2>4
<1>3. ASSUME Invoices!NextAction
      PROVE  InvoicesPhase' /\ \A j \in InvoicesInvoice : InvoicesRight(j)'
  <2>1. /\ v6 # 0 /\ (Invoices!Actions[v6] \in v5 => v9 /\ Invoices!AllOver)
        /\ v6' = (IF v6 = 5 THEN 0 ELSE v6 + 1) /\ ~v9'
        /\ v1' = v1 /\ v2' = v2 /\ v3' = v3 /\ v4' = v4 /\ v5' = v5 /\ v7' = v7 /\ v8' = v8
        /\ v10' = v10 /\ v11' = v11
    BY <1>3, InvoicesActions DEF Invoices!NextAction, Invoices!server
  <2>2. Invoices!AllOver
    BY <2>1 DEF InvoicesPhase
  <2>3. v7 = {} /\ \A i \in InvoicesInvoice : v8[i] = "none"
    BY <2>2 DEF Invoices!AllOver, Invoices!Running
  <2>4. InvoicesPhase'
    BY <2>1, <2>2 DEF InvoicesPhase, Invoices!AllOver, Invoices!Running
  <2>5. v6 \in 1 .. 5
    BY <2>1 DEF InvoicesMaps
  <2>6. ASSUME NEW i \in InvoicesInvoice PROVE InvoicesRight(i)'
    <3>1. Invoices!TaskFits(i)'
      BY <2>1, <2>3 DEF Invoices!TaskFits
    <3>2. Invoices!ToBePaid(i)' => Invoices!ToBePaid(i)
      BY <2>1, <2>5 DEF Invoices!ToBePaid
    <3>3. Invoices!PaidOnce(i)'
      BY <2>1, <3>2 DEF Invoices!PaidOnce, InvoicesRight
    <3>4. ASSUME v6' # 0, "rename" \in v5', i \notin v10' PROVE Invoices!Advanced(i)'
      <4>1. Invoices!Advanced(i) /\ v9
        BY <2>1, <2>5, <3>4 DEF InvoicesRight, InvoicesPhase
      <4>2. \A n \in 2 .. 5 : Invoices!Past(n, i)' => Invoices!Past(n, i)
        BY <2>1, <2>3, <2>5, <3>4, <4>1 DEF Invoices!Past
      <4>3. /\ Invoices!Past(2, i)' => Invoices!Past(2, i)
            /\ Invoices!Past(3, i)' => Invoices!Past(3, i)
            /\ Invoices!Past(4, i)' => Invoices!Past(4, i)
            /\ Invoices!Past(5, i)' => Invoices!Past(5, i)
        BY <4>2
      <4>. QED
        BY <2>1, <4>1, <4>3 DEF Invoices!Advanced
    <3>. QED
      BY <3>1, <3>3, <3>4 DEF InvoicesRight
  <2>. QED
    BY <2>4, <2>6
<1>4. ASSUME Invoices!Die PROVE InvoicesPhase' /\ \A j \in InvoicesInvoice : InvoicesRight(j)'
  <2>1. /\ v6' = 0 /\ v7' = {} /\ (\A i \in InvoicesInvoice : v8'[i] = "none")
        /\ v10' = v10 \cup {i \in InvoicesInvoice : v8[i] # "none"}
        /\ v1' = v1 /\ v3' = v3 /\ v5' = v5 /\ v11' = v11
    BY <1>4 DEF Invoices!Die, Invoices!server, Invoices!Running
  <2>2. InvoicesPhase'
    BY <2>1 DEF InvoicesPhase, Invoices!AllOver, Invoices!Running
  <2>3. ASSUME NEW i \in InvoicesInvoice PROVE InvoicesRight(i)'
    <3>1. Invoices!TaskFits(i)'
      BY <2>1 DEF Invoices!TaskFits
    <3>2. Invoices!PaidOnce(i)'
      BY <2>1 DEF Invoices!PaidOnce, Invoices!ToBePaid, InvoicesRight
    <3>. QED
      BY <2>1, <3>1, <3>2 DEF InvoicesRight
  <2>. QED
    BY <2>2, <2>3
<1>5. ASSUME NEW i \in InvoicesInvoice, Invoices!Begin(i)
      PROVE  InvoicesPhase' /\ \A j \in InvoicesInvoice : InvoicesRight(j)'
  <2>1. \A j \in InvoicesInvoice \ {i} : InvoicesStill(j)
    BY <1>5 DEF InvoicesStill, InvoicesMaps, Invoices!server, Invoices!Begin
  <2>2. \A j \in InvoicesInvoice \ {i} : InvoicesRight(j)'
    BY <2>1, InvoicesElse
  <2>3. InvoicesPhase'
    <3>1. v6 # 0 /\ v9
      BY <1>5, InvoicesAt DEF Invoices!Begin
    <3>2. v6' = v6 /\ v9' = v9 /\ v5' = v5
      BY <1>5 DEF Invoices!Begin
    <3>. QED
      BY <3>1, <3>2 DEF InvoicesPhase
  <2>4. InvoicesRight(i)
    OBVIOUS
  <2>5. /\ v6' = v6 /\ v9' = v9 /\ v11' = v11 /\ v5' = v5 /\ v6 # 0 /\ v9
        /\ i \in v7 /\ i \notin v7' /\ v8[i] = "none" /\ v10' = v10 /\ v1' = v1 /\ v2' = v2 /\ v3' = v3
        /\ v4' = v4 /\ v8'[i] = Invoices!Actions[v6] /\ i \in Invoices!Chosen(Invoices!Actions[v6])
    BY <1>5, InvoicesAt, InvoicesChosen, <2>4
      DEF Invoices!Begin, InvoicesRight, Invoices!TaskFits, InvoicesMaps,
          Invoices!server
  <2>6. Invoices!TaskFits(i)'
    <3>1. v6 \in 1 .. 5
      BY <2>5 DEF InvoicesMaps
    <3>2. Invoices!Actions[v6] \in {"tax", "validate", "pay", "proforma", "rename"}
      BY <3>1, InvoicesActions
    <3>3. i \in Invoices!Chosen(Invoices!Actions[v6])'
      BY <2>5 DEF Invoices!Chosen
    <3>4. Invoices!Actions[v6] = "tax" => v1'[i] = "draft" /\ v2'[i] < InvoicesTaxes
      BY <2>5, InvoicesChosen, InvoicesConstants DEF InvoicesNumbers
    <3>. QED
      BY <2>5, <3>2, <3>3, <3>4 DEF Invoices!TaskFits
  <2>7. Invoices!PaidOnce(i)'
    <3>1. v8'[i] # "post" /\ (v8'[i] = "pay" => v6 = 3)
      BY <2>5, InvoicesActions DEF InvoicesMaps
    <3>. QED
      BY <2>4, <2>5, <3>1 DEF Invoices!PaidOnce, Invoices!ToBePaid, InvoicesRight
  <2>8. v6' # 0 /\ "rename" \in v5' /\ i \notin v10' => Invoices!Advanced(i)'
    <3>1. v8'[i] # "none"
      BY <2>5, InvoicesActions DEF InvoicesMaps
    <3>. QED
      BY <2>4, <2>5, <3>1 DEF Invoices!Advanced, Invoices!Past, InvoicesRight
  <2>9. InvoicesRight(i)'
    BY <2>6, <2>7, <2>8 DEF InvoicesRight
  <2>. QED
    BY <2>2, <2>3, <2>9
<1>6. ASSUME NEW i \in InvoicesInvoice, Invoices!AddTax(i)
      PROVE  InvoicesPhase' /\ \A j \in InvoicesInvoice : InvoicesRight(j)'
  <2>1. \A j \in InvoicesInvoice \ {i} : InvoicesStill(j)
    BY <1>6 DEF InvoicesStill, InvoicesMaps, Invoices!AddTax, Invoices!Over
  <2>2. \A j \in InvoicesInvoice \ {i} : InvoicesRight(j)'
    BY <2>1, InvoicesElse
  <2>3. InvoicesPhase'
    <3>1. v6 # 0 /\ v9
      BY <1>6, InvoicesAt DEF Invoices!AddTax
    <3>2. v6' = v6 /\ v9' = v9 /\ v5' = v5
      BY <1>6 DEF Invoices!AddTax
    <3>. QED
      BY <3>1, <3>2 DEF InvoicesPhase
  <2>4. InvoicesRight(i)
    OBVIOUS
  <2>5. /\ v6' = v6 /\ v9' = v9 /\ v11' = v11 /\ v5' = v5 /\ v6 # 0 /\ v9
        /\ v8[i] = "tax" /\ v6 = 1 /\ i \notin v7 /\ v7' = v7 /\ v10' = v10 /\ v1' = v1 /\ v3' = v3
        /\ v1[i] = "draft" /\ v2'[i] = v2[i] + 1 /\ v2'[i] \in 0 .. InvoicesTaxes
        /\ v8'[i] = IF v2'[i] = InvoicesTaxes THEN "none" ELSE "tax"
    BY <1>6, InvoicesAt, InvoicesChosen, <2>4
      DEF Invoices!AddTax, InvoicesRight, Invoices!TaskFits, InvoicesMaps, Invoices!Over
  <2>6. Invoices!TaskFits(i)'
    <3>1. v2'[i] # InvoicesTaxes => v2'[i] < InvoicesTaxes
      BY <2>5, InvoicesConstants DEF InvoicesNumbers
    <3>. QED
      BY <2>5, <3>1, InvoicesActions DEF Invoices!TaskFits
  <2>7. Invoices!PaidOnce(i)'
    BY <2>4, <2>5 DEF Invoices!PaidOnce, Invoices!ToBePaid, InvoicesRight
  <2>8. v6' # 0 /\ "rename" \in v5' /\ i \notin v10' => Invoices!Advanced(i)'
    BY <2>4, <2>5 DEF Invoices!Advanced, Invoices!Past, InvoicesRight
  <2>9. InvoicesRight(i)'
    BY <2>6, <2>7, <2>8 DEF InvoicesRight
  <2>. QED
    BY <2>2, <2>3, <2>9
<1>7. ASSUME NEW i \in InvoicesInvoice, Invoices!Validate(i)
      PROVE  InvoicesPhase' /\ \A j \in InvoicesInvoice : InvoicesRight(j)'
  <2>1. \A j \in InvoicesInvoice \ {i} : InvoicesStill(j)
    BY <1>7 DEF InvoicesStill, InvoicesMaps, Invoices!Validate, Invoices!Over
  <2>2. \A j \in InvoicesInvoice \ {i} : InvoicesRight(j)'
    BY <2>1, InvoicesElse
  <2>3. InvoicesPhase'
    <3>1. v6 # 0 /\ v9
      BY <1>7, InvoicesAt DEF Invoices!Validate
    <3>2. v6' = v6 /\ v9' = v9 /\ v5' = v5
      BY <1>7 DEF Invoices!Validate
    <3>. QED
      BY <3>1, <3>2 DEF InvoicesPhase
  <2>4. InvoicesRight(i)
    OBVIOUS
  <2>5. /\ v6' = v6 /\ v9' = v9 /\ v11' = v11 /\ v5' = v5 /\ v6 # 0 /\ v9
        /\ v8[i] = "validate" /\ v6 = 2 /\ i \notin v7 /\ v7' = v7 /\ v10' = v10 /\ v3' = v3
        /\ v1[i] = "draft" /\ v1'[i] = "open" /\ v8'[i] = "none"
        /\ InvoicesLegacy[i] \in {"open", "paid"}
    BY <1>7, InvoicesAt, InvoicesChosen, <2>4
      DEF Invoices!Validate, InvoicesRight, Invoices!TaskFits, InvoicesMaps,
          Invoices!Over
  <2>6. Invoices!TaskFits(i)'
    BY <2>5 DEF Invoices!TaskFits
  <2>7. Invoices!PaidOnce(i)'
    BY <2>4, <2>5 DEF Invoices!PaidOnce, Invoices!ToBePaid, InvoicesRight
  <2>8. v6' # 0 /\ "rename" \in v5' /\ i \notin v10' => Invoices!Advanced(i)'
    BY <2>4, <2>5 DEF Invoices!Advanced, Invoices!Past, InvoicesRight
  <2>9. InvoicesRight(i)'
    BY <2>6, <2>7, <2>8 DEF InvoicesRight
  <2>. QED
    BY <2>2, <2>3, <2>9
<1>8. ASSUME NEW i \in InvoicesInvoice, Invoices!CreatePayment(i)
      PROVE  InvoicesPhase' /\ \A j \in InvoicesInvoice : InvoicesRight(j)'
  <2>1. \A j \in InvoicesInvoice \ {i} : InvoicesStill(j)
    BY <1>8 DEF InvoicesStill, InvoicesMaps, Invoices!CreatePayment
  <2>2. \A j \in InvoicesInvoice \ {i} : InvoicesRight(j)'
    BY <2>1, InvoicesElse
  <2>3. InvoicesPhase'
    <3>1. v6 # 0 /\ v9
      BY <1>8, InvoicesAt DEF Invoices!CreatePayment
    <3>2. v6' = v6 /\ v9' = v9 /\ v5' = v5
      BY <1>8 DEF Invoices!CreatePayment
    <3>. QED
      BY <3>1, <3>2 DEF InvoicesPhase
  <2>4. InvoicesRight(i)
    OBVIOUS
  <2>5. /\ v6' = v6 /\ v9' = v9 /\ v11' = v11 /\ v5' = v5 /\ v6 # 0 /\ v9
        /\ v8[i] = "pay" /\ v6 = 3 /\ i \notin v7 /\ v7' = v7 /\ v10' = v10 /\ v1' = v1
        /\ v1[i] = "open" /\ InvoicesLegacy[i] = "paid" /\ v8'[i] = "post"
        /\ v3'[i].draft = v3[i].draft + 1 /\ v3'[i].posted = v3[i].posted
        /\ v3[i].draft \in Nat /\ v3[i].draft < v11 /\ v11 \in Nat
    BY <1>8, InvoicesAt, InvoicesChosen, <2>4
      DEF Invoices!CreatePayment, InvoicesRight, Invoices!TaskFits, InvoicesMaps,
          Invoices!PaidOnce, Invoices!ToBePaid
  <2>6. Invoices!TaskFits(i)'
    <3>1. i \in Invoices!Chosen("pay")'
      BY <2>5 DEF Invoices!Chosen
    <3>2. v3'[i].draft > 0
      BY <2>5
    <3>. QED
      BY <2>5, <3>1, <3>2, InvoicesActions DEF Invoices!TaskFits
  <2>7. Invoices!PaidOnce(i)'
    <3>1. v3'[i].draft <= v11'
      BY <2>5
    <3>2. v3[i].draft = 0 => v3'[i].draft = 1
      BY <2>5
    <3>. QED
      BY <2>4, <2>5, <3>1, <3>2 DEF Invoices!PaidOnce, Invoices!ToBePaid, InvoicesRight
  <2>8. v6' # 0 /\ "rename" \in v5' /\ i \notin v10' => Invoices!Advanced(i)'
    BY <2>4, <2>5 DEF Invoices!Advanced, Invoices!Past, InvoicesRight
  <2>9. InvoicesRight(i)'
    BY <2>6, <2>7, <2>8 DEF InvoicesRight
  <2>. QED
    BY <2>2, <2>3, <2>9
<1>9. ASSUME NEW i \in InvoicesInvoice, Invoices!Post(i)
      PROVE  InvoicesPhase' /\ \A j \in InvoicesInvoice : InvoicesRight(j)'
  <2>1. \A j \in InvoicesInvoice \ {i} : InvoicesStill(j)
    BY <1>9 DEF InvoicesStill, InvoicesMaps, Invoices!Post, Invoices!Over
  <2>2. \A j \in InvoicesInvoice \ {i} : InvoicesRight(j)'
    BY <2>1, InvoicesElse
  <2>3. InvoicesPhase'
    <3>1. v6 # 0 /\ v9
      BY <1>9, InvoicesAt DEF Invoices!Post
    <3>2. v6' = v6 /\ v9' = v9 /\ v5' = v5
      BY <1>9 DEF Invoices!Post
    <3>. QED
      BY <3>1, <3>2 DEF InvoicesPhase
  <2>4. InvoicesRight(i)
    OBVIOUS
  <2>5. /\ v6' = v6 /\ v9' = v9 /\ v11' = v11 /\ v5' = v5 /\ v6 # 0 /\ v9
        /\ v8[i] = "post" /\ v6 = 3 /\ i \notin v7 /\ v7' = v7 /\ v10' = v10
        /\ v1[i] = "open" /\ v1'[i] = "paid" /\ InvoicesLegacy[i] = "paid" /\ v8'[i] = "none"
        /\ v3'[i].draft = v3[i].draft - 1 /\ v3'[i].posted = v3[i].posted + 1
        /\ v3[i].draft \in Nat /\ v3[i].draft > 0 /\ v11 \in Nat
    BY <1>9, InvoicesAt, InvoicesChosen, <2>4
      DEF Invoices!Post, InvoicesRight, Invoices!TaskFits, InvoicesMaps, Invoices!Over
  <2>6. Invoices!TaskFits(i)'
    BY <2>5 DEF Invoices!TaskFits
  <2>7. Invoices!PaidOnce(i)'
    <3>1. v3[i].posted = 0 /\ v3[i].draft <= v11 /\ (i \notin v10 => v3[i].draft = 1)
      BY <2>4, <2>5 DEF Invoices!PaidOnce, InvoicesRight
    <3>2. v3'[i].posted = 1 /\ v3'[i].draft <= v11' /\ v3'[i].posted <= v11' /\ (i \notin v10' => v3'[i].draft = 0)
      BY <2>5, <3>1
    <3>. QED
      BY <2>5, <3>2 DEF Invoices!PaidOnce, Invoices!ToBePaid
  <2>8. v6' # 0 /\ "rename" \in v5' /\ i \notin v10' => Invoices!Advanced(i)'
    BY <2>4, <2>5 DEF Invoices!Advanced, Invoices!Past, InvoicesRight
  <2>9. InvoicesRight(i)'
    BY <2>6, <2>7, <2>8 DEF InvoicesRight
  <2>. QED
    BY <2>2, <2>3, <2>9
<1>10. ASSUME NEW i \in InvoicesInvoice, Invoices!Proforma(i)
       PROVE  InvoicesPhase' /\ \A j \in InvoicesInvoice : InvoicesRight(j)'
  <2>1. \A j \in InvoicesInvoice \ {i} : InvoicesStill(j)
    BY <1>10 DEF InvoicesStill, InvoicesMaps, Invoices!Proforma, Invoices!Over
  <2>2. \A j \in InvoicesInvoice \ {i} : InvoicesRight(j)'
    BY <2>1, InvoicesElse
  <2>3. InvoicesPhase'
    <3>1. v6 # 0 /\ v9
      BY <1>10, InvoicesAt DEF Invoices!Proforma
    <3>2. v6' = v6 /\ v9' = v9 /\ v5' = v5
      BY <1>10 DEF Invoices!Proforma
    <3>. QED
      BY <3>1, <3>2 DEF InvoicesPhase
  <2>4. InvoicesRight(i)
    OBVIOUS
  <2>5. /\ v6' = v6 /\ v9' = v9 /\ v11' = v11 /\ v5' = v5 /\ v6 # 0 /\ v9
        /\ v8[i] = "proforma" /\ v6 = 4 /\ i \notin v7 /\ v7' = v7 /\ v10' = v10 /\ v3' = v3
        /\ v1[i] = "draft" /\ v1'[i] = "proforma" /\ InvoicesLegacy[i] = "proforma"
        /\ v8'[i] = "none"
    BY <1>10, InvoicesAt, InvoicesChosen, <2>4
      DEF Invoices!Proforma, InvoicesRight, Invoices!TaskFits, InvoicesMaps,
          Invoices!Over
  <2>6. Invoices!TaskFits(i)'
    BY <2>5 DEF Invoices!TaskFits
  <2>7. Invoices!PaidOnce(i)'
    BY <2>4, <2>5 DEF Invoices!PaidOnce, Invoices!ToBePaid, InvoicesRight
  <2>8. v6' # 0 /\ "rename" \in v5' /\ i \notin v10' => Invoices!Advanced(i)'
    BY <2>4, <2>5 DEF Invoices!Advanced, Invoices!Past, InvoicesRight
  <2>9. InvoicesRight(i)'
    BY <2>6, <2>7, <2>8 DEF InvoicesRight
  <2>. QED
    BY <2>2, <2>3, <2>9
<1>11. ASSUME NEW i \in InvoicesInvoice, Invoices!Rename(i)
       PROVE  InvoicesPhase' /\ \A j \in InvoicesInvoice : InvoicesRight(j)'
  <2>1. \A j \in InvoicesInvoice \ {i} : InvoicesStill(j)
    BY <1>11 DEF InvoicesStill, InvoicesMaps, Invoices!Rename, Invoices!Over
  <2>2. \A j \in InvoicesInvoice \ {i} : InvoicesRight(j)'
    BY <2>1, InvoicesElse
  <2>3. InvoicesPhase'
    <3>1. v6 # 0 /\ v9
      BY <1>11, InvoicesAt DEF Invoices!Rename
    <3>2. v6' = v6 /\ v9' = v9 /\ v5' = v5
      BY <1>11 DEF Invoices!Rename
    <3>. QED
      BY <3>1, <3>2 DEF InvoicesPhase
  <2>4. InvoicesRight(i)
    OBVIOUS
  <2>5. /\ v6' = v6 /\ v9' = v9 /\ v11' = v11 /\ v5' = v5 /\ v6 # 0 /\ v9
        /\ v8[i] = "rename" /\ v6 = 5 /\ i \notin v7 /\ v7' = v7 /\ v10' = v10 /\ v3' = v3 /\ v1' = v1
        /\ v8'[i] = "none" /\ i \in v4'
    BY <1>11, InvoicesAt, InvoicesChosen, <2>4
      DEF Invoices!Rename, InvoicesRight, Invoices!TaskFits, InvoicesMaps, Invoices!Over
  <2>6. Invoices!TaskFits(i)'
    BY <2>5 DEF Invoices!TaskFits
  <2>7. Invoices!PaidOnce(i)'
    BY <2>4, <2>5 DEF Invoices!PaidOnce, Invoices!ToBePaid, InvoicesRight
  <2>8. v6' # 0 /\ "rename" \in v5' /\ i \notin v10' => Invoices!Advanced(i)'
    BY <2>4, <2>5 DEF Invoices!Advanced, Invoices!Past, InvoicesRight
  <2>9. InvoicesRight(i)'
    BY <2>6, <2>7, <2>8 DEF InvoicesRight
  <2>. QED
    BY <2>2, <2>3, <2>9
<1>12. ASSUME NEW i \in InvoicesInvoice, Invoices!TaskFails(i)
       PROVE  InvoicesPhase' /\ \A j \in InvoicesInvoice : InvoicesRight(j)'
  <2>1. \A j \in InvoicesInvoice \ {i} : InvoicesStill(j)
    BY <1>12
      DEF InvoicesStill, InvoicesMaps, Invoices!server, Invoices!TaskFails,
          Invoices!Over
  <2>2. \A j \in InvoicesInvoice \ {i} : InvoicesRight(j)'
    BY <2>1, InvoicesElse
  <2>3. InvoicesPhase'
    <3>1. v6 # 0 /\ v9
      BY <1>12, InvoicesAt DEF Invoices!TaskFails
    <3>2. v6' = v6 /\ v9' = v9 /\ v5' = v5
      BY <1>12 DEF Invoices!TaskFails
    <3>. QED
      BY <3>1, <3>2 DEF InvoicesPhase
  <2>4. InvoicesRight(i)
    OBVIOUS
  <2>5. /\ v6' = v6 /\ v9' = v9 /\ v11' = v11 /\ v5' = v5 /\ v6 # 0 /\ v9
        /\ v8[i] # "none" /\ i \notin v7 /\ v7' = v7 /\ i \in v10' /\ v1' = v1 /\ v3' = v3
        /\ v8'[i] = "none" /\ v2' = v2 /\ v4' = v4
    BY <1>12, InvoicesAt, InvoicesChosen, <2>4
      DEF Invoices!TaskFails, InvoicesRight, Invoices!TaskFits, InvoicesMaps,
          Invoices!Over, Invoices!server
  <2>6. Invoices!TaskFits(i)'
    BY <2>5 DEF Invoices!TaskFits
  <2>7. Invoices!PaidOnce(i)'
    BY <2>4, <2>5 DEF Invoices!PaidOnce, Invoices!ToBePaid, InvoicesRight
  <2>8. v6' # 0 /\ "rename" \in v5' /\ i \notin v10' => Invoices!Advanced(i)'
    BY <2>5
  <2>9. InvoicesRight(i)'
    BY <2>6, <2>7, <2>8 DEF InvoicesRight
  <2>. QED
    BY <2>2, <2>3, <2>9
<1>13. CASE UNCHANGED Invoices!vars
  <2>1. \A j \in InvoicesInvoice : InvoicesStill(j)
    BY <1>13 DEF InvoicesStill, Invoices!vars
  <2>2. \A j \in InvoicesInvoice : InvoicesRight(j)'
    BY <2>1, InvoicesElse
  <2>3. InvoicesPhase'
    BY <1>13 DEF Invoices!vars, InvoicesPhase, Invoices!AllOver, Invoices!Running
  <2>. QED
    BY <2>2, <2>3
<1>. QED
  BY <1>1, <1>2, <1>3, <1>4, <1>5, <1>6, <1>7, <1>8, <1>9,
     <1>10, <1>11, <1>12, <1>13 DEF Invoices!Next

(* InvoicesInv holds in the first state.                                   *)
LEMMA InvoicesBegin == Invoices!Init => Invoices!InvoicesInv
<1>. SUFFICES ASSUME Invoices!Init PROVE Invoices!InvoicesInv
  OBVIOUS
<1>1. /\ v5 = {} /\ v6 = 0 /\ v7 = {} /\ v9 = FALSE /\ v10 = {} /\ v11 = 0 /\ v12 = 0
      /\ \A i \in InvoicesInvoice :
            v1[i] = "draft" /\ v8[i] = "none" /\ v3[i] = [draft |-> 0, posted |-> 0]
  BY DEF Invoices!Init
<1>2. Invoices!TypeOK
  <2>1. 0 \in 0 .. InvoicesTaxes /\ 0 \in 0 .. InvoicesRuns /\ 0 \in 0 .. InvoicesFaults
    BY InvoicesConstants DEF InvoicesNumbers
  <2>2. v2 \in [InvoicesInvoice -> 0 .. InvoicesTaxes]
    BY <2>1 DEF Invoices!Init
  <2>3. v3 \in [InvoicesInvoice -> [draft : 0 .. InvoicesRuns, posted : 0 .. InvoicesRuns]]
    BY <2>1 DEF Invoices!Init
  <2>4. v6 \in 0 .. Len(Invoices!Actions)
    BY <1>1, InvoicesActions
  <2>5. v9 \in BOOLEAN
    BY <1>1
  <2>. QED
    BY <1>1, <2>1, <2>2, <2>3, <2>4, <2>5 DEF Invoices!TypeOK, Invoices!Init
<1>3. Invoices!AllOver
  BY <1>1 DEF Invoices!AllOver, Invoices!Running
<1>4. InvoicesPhase
  BY <1>1, <1>3 DEF InvoicesPhase
<1>5. \A i \in InvoicesInvoice : InvoicesRight(i)
  BY <1>1 DEF InvoicesRight, Invoices!TaskFits, Invoices!PaidOnce, Invoices!ToBePaid
<1>. QED
  BY <1>2, <1>4, <1>5, InvoicesParts DEF Invoices!InvoicesInv

(* TypeOK has the unbounded types as a part.                               *)
LEMMA InvoicesOfTypes == Invoices!TypeOK => InvoicesMaps
<1>. SUFFICES ASSUME Invoices!TypeOK PROVE InvoicesMaps
  OBVIOUS
<1>1. v3 \in [InvoicesInvoice -> [draft : 0 .. InvoicesRuns, posted : 0 .. InvoicesRuns]]
  BY DEF Invoices!TypeOK
<1>2. 0 .. InvoicesRuns \subseteq Nat
  BY InvoicesConstants DEF InvoicesNumbers
<1>3. v3 \in [InvoicesInvoice -> [draft : Nat, posted : Nat]]
  BY <1>1, <1>2
<1>. QED
  BY <1>3, InvoicesActions DEF InvoicesMaps, Invoices!TypeOK

(* The bound of TypeOK follows from what is right of each invoice.         *)
LEMMA InvoicesTypes ==
    InvoicesMaps /\ (\A i \in InvoicesInvoice : InvoicesRight(i)) => Invoices!TypeOK
<1>. SUFFICES ASSUME InvoicesMaps, \A i \in InvoicesInvoice : InvoicesRight(i)
              PROVE  Invoices!TypeOK
  OBVIOUS
<1>1. v11 \in 0 .. InvoicesRuns /\ InvoicesRuns \in Nat
  BY InvoicesConstants DEF InvoicesMaps, InvoicesNumbers
<1>2. ASSUME NEW i \in InvoicesInvoice
      PROVE  v3[i] \in [draft : 0 .. InvoicesRuns, posted : 0 .. InvoicesRuns]
  <2>1. v3[i] \in [draft : Nat, posted : Nat]
    BY DEF InvoicesMaps
  <2>2. /\ v3[i].draft <= v11 /\ (v3[i].posted = 0 \/ v3[i].posted = 1)
        /\ v3[i].posted <= v11
    BY DEF InvoicesRight, Invoices!PaidOnce
  <2>3. v3[i].draft \in 0 .. InvoicesRuns /\ v3[i].posted \in 0 .. InvoicesRuns
    BY <1>1, <2>1, <2>2
  <2>. QED
    BY <2>1, <2>3
<1>3. v3 \in [InvoicesInvoice -> [draft : 0 .. InvoicesRuns, posted : 0 .. InvoicesRuns]]
  BY <1>2 DEF InvoicesMaps
<1>. QED
  BY <1>3, InvoicesActions DEF InvoicesMaps, Invoices!TypeOK

(* Tasks, payments and progress stay right: InvoicesInv is inductive.      *)
THEOREM InvoicesKeepTheirState == Invoices!Spec => []Invoices!InvoicesInv
<1>1. InvoicesMaps /\ (\A i \in InvoicesInvoice : InvoicesRight(i)) => Invoices!TypeOK
  BY InvoicesTypes
<1>2. InvoicesPhase /\ (\A i \in InvoicesInvoice : InvoicesRight(i)) =>
         Invoices!TasksHold /\ Invoices!PaymentsHold /\ Invoices!ProgressHolds
  BY InvoicesParts
<1>3. InvoicesMaps' /\ (\A i \in InvoicesInvoice : InvoicesRight(i))' => Invoices!TypeOK'
  BY <1>1, PTL
<1>4. InvoicesPhase' /\ (\A i \in InvoicesInvoice : InvoicesRight(i))' =>
         Invoices!TasksHold' /\ Invoices!PaymentsHold' /\ Invoices!ProgressHolds'
  BY <1>2, PTL
<1>5. ASSUME Invoices!InvoicesInv, [Invoices!Next]_Invoices!vars PROVE Invoices!InvoicesInv'
  <2>1. /\ InvoicesMaps /\ Invoices!TasksHold /\ InvoicesPhase
        /\ \A i \in InvoicesInvoice : InvoicesRight(i)
    BY <1>5, InvoicesOfTypes, InvoicesParts DEF Invoices!InvoicesInv
  <2>2. InvoicesMaps'
    BY <1>5, <2>1, InvoicesMapped
  <2>3. InvoicesPhase' /\ \A j \in InvoicesInvoice : InvoicesRight(j)'
    BY <1>5, <2>1, <2>2, InvoicesStayRight
  <2>. QED
    BY <1>3, <1>4, <2>2, <2>3 DEF Invoices!InvoicesInv
<1>. QED
  BY <1>5, InvoicesBegin, PTL DEF Invoices!Spec

(* InvoicesInv implies what a run promises.                                *)
LEMMA InvoicesGiveSound == Invoices!InvoicesInv => Invoices!InvoicesAreSound
<1>. SUFFICES ASSUME Invoices!InvoicesInv PROVE Invoices!InvoicesAreSound
  OBVIOUS
<1>1. /\ InvoicesMaps /\ Invoices!TypeOK /\ Invoices!TasksHold
      /\ \A i \in InvoicesInvoice : InvoicesRight(i)
  BY InvoicesOfTypes, InvoicesParts DEF Invoices!InvoicesInv
<1>2. Invoices!NothingTwice
  <2>. SUFFICES ASSUME NEW i \in InvoicesInvoice
                PROVE  /\ v3[i].posted <= 1
                       /\ v8[i] = "tax" => v1[i] = "draft"
                       /\ v8[i] = "post" => v1[i] = "open"
                       /\ v1[i] \in {"draft", InvoicesLegacy[i]} \/
                             (InvoicesLegacy[i] = "paid" /\ v1[i] = "open")
    BY DEF Invoices!NothingTwice
  <2>1. Invoices!TaskFits(i) /\ Invoices!PaidOnce(i)
    BY <1>1 DEF InvoicesRight
  <2>2. v3[i].posted = 0 \/ v3[i].posted = 1
    BY <2>1 DEF Invoices!PaidOnce
  <2>3. v3[i].posted <= 1
    BY <2>2
  <2>. QED
    BY <2>1, <2>3, InvoicesChosen DEF Invoices!PaidOnce, Invoices!TaskFits
<1>3. Invoices!FullRunCompletes
  <2>. SUFFICES ASSUME v6 = 5, "rename" \in v5, v9, Invoices!AllOver,
                       NEW i \in InvoicesInvoice \ v10
                PROVE  Invoices!Complete(i)
    BY InvoicesActions DEF Invoices!FullRunCompletes
  <2>1. Invoices!Advanced(i) /\ Invoices!PaidOnce(i)
    BY <1>1 DEF InvoicesRight
  <2>2. v8[i] = "none" /\ i \notin v7
    BY DEF Invoices!AllOver, Invoices!Running
  <2>3. /\ Invoices!Past(2, i) /\ Invoices!Past(3, i) /\ Invoices!Past(4, i)
        /\ Invoices!Past(5, i)
    BY <2>2 DEF Invoices!Past
  <2>4. InvoicesLegacy[i] \in {"open", "paid", "proforma"}
    BY InvoicesAssumption
  <2>5. v1[i] = InvoicesLegacy[i] /\ i \in v4
    BY <2>1, <2>3, <2>4 DEF Invoices!Advanced, Invoices!PaidOnce
  <2>6. v3[i].draft = 0 /\ v3[i].posted = IF InvoicesLegacy[i] = "paid" THEN 1 ELSE 0
    BY <2>1, <2>2, <2>5 DEF Invoices!PaidOnce
  <2>7. v3[i] \in [draft : Nat, posted : Nat]
    BY <1>1 DEF InvoicesMaps
  <2>8. v3[i] = [draft |-> 0, posted |-> IF InvoicesLegacy[i] = "paid" THEN 1 ELSE 0]
    BY <2>6, <2>7
  <2>. QED
    BY <2>5, <2>8 DEF Invoices!Complete
<1>. QED
  BY <1>1, <1>2, <1>3 DEF Invoices!InvoicesAreSound

(***************************************************************************)
(* VatCheck                                                                *)
(***************************************************************************)
LEMMA ViesConstants ==
    /\ IsFiniteSet(ViesPartner) /\ Cardinality(ViesPartner) \in Nat
    /\ ViesBatch \in Nat /\ ViesBatch > 0 /\ ViesMax \in Nat
    /\ ViesFaults \in Nat /\ ViesEdits \in Nat
BY ViesAssumption, FS_CardinalityType

(* The operators of the instance are those of the library.                 *)
LEMMA ViesCounts ==
    /\ \A S : Vies!Cardinality(S) = Cardinality(S)
    /\ \A S, r : Vies!Pos(S, r) = Pos(S, r)
    /\ \A s : Vies!Range(s) = {s[n] : n \in DOMAIN s}
    /\ \A s : Vies!IsInjective(s) <=> \A m, n \in DOMAIN s : s[m] = s[n] => m = n
<1>1. \A S : Vies!Cardinality(S) = Cardinality(S)
  BY DEF Vies!Cardinality, Cardinality
<1>2. \A S, r : Vies!Pos(S, r) = Pos(S, r)
  BY <1>1 DEF Vies!Pos, Pos
<1>. QED
  BY <1>1, <1>2 DEF Vies!Range, Vies!IsInjective

(* What is kept of a sequence: as many elements as there are places where  *)
(* one of the set is, each of them from such a place.                      *)
LEMMA ViesPlaces ==
    ASSUME NEW R, NEW s \in Seq(R), NEW S
    PROVE  /\ Vies!Places(s, S) \in SUBSET (1 .. Len(s)) /\ Vies!Places(s, S) \in SUBSET Nat
           /\ IsFiniteSet(Vies!Places(s, S)) /\ Cardinality(Vies!Places(s, S)) \in Nat
           /\ Cardinality(Vies!Places(s, S)) <= Len(s)
<1>1. Len(s) \in Nat /\ DOMAIN s = 1 .. Len(s)
  OBVIOUS
<1>2. Vies!Places(s, S) \in SUBSET (1 .. Len(s)) /\ Vies!Places(s, S) \in SUBSET Nat
  BY <1>1 DEF Vies!Places
<1>3. IsFiniteSet(1 .. Len(s)) /\ Cardinality(1 .. Len(s)) = Len(s)
  BY <1>1, FS_Interval
<1>. QED
  BY <1>2, <1>3, FS_Subset, FS_CardinalityType

(* What is kept of a sequence is one, with an element for each place of    *)
(* the set.                                                                *)
LEMMA ViesKept ==
    ASSUME NEW R, NEW s \in Seq(R), NEW S
    PROVE  /\ Vies!Keep(s, S) \in Seq(R)
           /\ Len(Vies!Keep(s, S)) = Cardinality(Vies!Places(s, S))
           /\ \A n \in 1 .. Cardinality(Vies!Places(s, S)) :
                 \E i \in Vies!Places(s, S) :
                    Pos(Vies!Places(s, S), i) = n /\ Vies!Keep(s, S)[n] = s[i]
<1>1. Vies!Places(s, S) \in SUBSET (1 .. Len(s))  BY ViesPlaces
<1>2. Vies!Keep(s, S) = ItemsAt(s, Vies!Places(s, S))
  <2>1. Vies!ItemsAt(s, Vies!Places(s, S)) = ItemsAt(s, Vies!Places(s, S))
    BY DEF Vies!ItemsAt, ItemsAt, Vies!Pos, Pos, Vies!Cardinality, Cardinality
  <2>. QED
    BY <2>1 DEF Vies!Keep
<1>3. \A I \in SUBSET (1 .. Len(s)) :
         /\ ItemsAt(s, I) \in Seq(R)
         /\ Len(ItemsAt(s, I)) = Cardinality(I)
         /\ \A n \in 1 .. Cardinality(I) :
               \E i \in I : Pos(I, i) = n /\ ItemsAt(s, I)[n] = s[i]
  BY ItemsKept
<1>. QED
  BY <1>1, <1>2, <1>3

(* What is kept for a set and what is kept for the others add up.          *)
LEMMA ViesKeptApart ==
    ASSUME NEW R, NEW s \in Seq(R), NEW S
    PROVE  Len(Vies!Keep(s, S)) + Len(Vies!Keep(s, R \ S)) = Len(s)
<1>. DEFINE left == Vies!Places(s, S)
            right == Vies!Places(s, R \ S)
<1>1. Len(Vies!Keep(s, S)) = Cardinality(left) /\ Cardinality(left) \in Nat
  BY ViesKept, ViesPlaces
<1>2. Len(Vies!Keep(s, R \ S)) = Cardinality(right)
  BY ViesKept
<1>3. Len(s) \in Nat /\ DOMAIN s = 1 .. Len(s) /\ \A i \in DOMAIN s : s[i] \in R
  OBVIOUS
<1>4. left \in SUBSET (1 .. Len(s)) /\ right = (1 .. Len(s)) \ left
  BY <1>3 DEF Vies!Places
<1>5. IsFiniteSet(1 .. Len(s)) /\ Cardinality(1 .. Len(s)) = Len(s)
  BY <1>3, FS_Interval
<1>. HIDE DEF left, right
<1>6. Cardinality((1 .. Len(s)) \ left) = Len(s) - Cardinality((1 .. Len(s)) \cap left)
  BY <1>5, FS_Difference
<1>7. (1 .. Len(s)) \cap left = left
  BY <1>4
<1>8. Cardinality(right) = Len(s) - Cardinality(left)
  BY <1>4, <1>6, <1>7
<1>. QED
  BY <1>1, <1>2, <1>3, <1>8

(* All of a sequence is kept for a set that has its elements, in order.    *)
LEMMA ViesKeptWhole ==
    ASSUME NEW R, NEW s \in Seq(R)
    PROVE  Vies!Keep(s, R) = s
<1>1. Len(s) \in Nat /\ DOMAIN s = 1 .. Len(s) /\ \A i \in DOMAIN s : s[i] \in R
  OBVIOUS
<1>2. Vies!Places(s, R) = 1 .. Len(s)
  BY <1>1 DEF Vies!Places
<1>3. Cardinality(1 .. Len(s)) = Len(s)
  BY <1>1, FS_Interval
<1>4. /\ Vies!Keep(s, R) \in Seq(R) /\ Len(Vies!Keep(s, R)) = Len(s)
      /\ \A n \in 1 .. Len(s) :
            \E i \in 1 .. Len(s) : Pos(1 .. Len(s), i) = n /\ Vies!Keep(s, R)[n] = s[i]
  <2>1. Len(Vies!Keep(s, R)) = Cardinality(Vies!Places(s, R)) /\ Vies!Keep(s, R) \in Seq(R)
    BY ViesKept
  <2>2. \A n \in 1 .. Cardinality(Vies!Places(s, R)) :
           \E i \in Vies!Places(s, R) :
              Pos(Vies!Places(s, R), i) = n /\ Vies!Keep(s, R)[n] = s[i]
    BY ViesKept
  <2>. QED
    BY <1>2, <1>3, <2>1, <2>2
<1>5. ASSUME NEW i \in 1 .. Len(s)
      PROVE  Pos(1 .. Len(s), i) = i
  <2>1. {q \in 1 .. Len(s) : q <= i} = 1 .. i
    BY <1>1
  <2>2. i \in Nat /\ i > 0
    BY <1>1
  <2>3. Cardinality(1 .. i) = i
    BY <2>2, FS_Interval
  <2>. QED
    BY <2>1, <2>3 DEF Pos
<1>6. \A n \in 1 .. Len(s) : Vies!Keep(s, R)[n] = s[n]
  BY <1>4, <1>5
<1>. QED
  BY <1>1, <1>4, <1>6

(* Nothing is kept for none.                                               *)
LEMMA ViesKeptNone ==
    ASSUME NEW R, NEW s \in Seq(R)
    PROVE  Vies!Keep(s, {}) = << >>
<1>1. Vies!Places(s, {}) = {}
  BY DEF Vies!Places
<1>2. Cardinality({}) = 0
  BY FS_EmptySet
<1>3. Vies!Keep(s, {}) \in Seq(R) /\ Len(Vies!Keep(s, {})) = Cardinality(Vies!Places(s, {}))
  BY ViesKept
<1>4. Len(Vies!Keep(s, {})) = 0
  BY <1>1, <1>2, <1>3
<1>. QED
  BY <1>3, <1>4

(* The elements of sequences that are put together, and when they differ.  *)
LEMMA ViesAppended ==
    ASSUME NEW s \in Seq(ViesPartner), NEW x \in ViesPartner, NEW u, u = Append(s, x)
    PROVE  /\ u \in Seq(ViesPartner) /\ Len(u) = Len(s) + 1
           /\ Vies!Range(u) = Vies!Range(s) \cup {x}
           /\ Vies!IsInjective(u) <=> Vies!IsInjective(s) /\ x \notin Vies!Range(s)
<1>1. /\ u \in Seq(ViesPartner) /\ Len(u) = Len(s) + 1 /\ Len(s) \in Nat
      /\ DOMAIN s = 1 .. Len(s) /\ DOMAIN u = 1 .. Len(s) + 1
      /\ u[Len(s) + 1] = x /\ \A n \in 1 .. Len(s) : u[n] = s[n]
  OBVIOUS
<1>2. PICK k : k = Len(s)
  OBVIOUS
<1>3. /\ k \in Nat /\ DOMAIN s = 1 .. k /\ DOMAIN u = 1 .. k + 1
      /\ u[k + 1] = x /\ \A n \in 1 .. k : u[n] = s[n]
      /\ \A n \in 1 .. k + 1 : n \in 1 .. k \/ n = k + 1
      /\ \A n \in 1 .. k : n \in 1 .. k + 1 /\ n # k + 1
  BY <1>1, <1>2
<1>4. Vies!Range(u) = Vies!Range(s) \cup {x}
  BY <1>3 DEF Vies!Range
<1>5. Vies!IsInjective(u) <=> Vies!IsInjective(s) /\ x \notin Vies!Range(s)
  BY <1>3 DEF Vies!Range, Vies!IsInjective
<1>. QED
  BY <1>1, <1>4, <1>5

(* What has k elements like those of s, then l like those of t: its        *)
(* elements, and when none is there twice.                                 *)
ViesLaid(k, l, s, t, u) ==
    /\ k \in Nat /\ l \in Nat
    /\ DOMAIN s = 1 .. k /\ DOMAIN t = 1 .. l /\ DOMAIN u = 1 .. k + l
    /\ \A n \in 1 .. k : u[n] = s[n]
    /\ \A n \in 1 .. l : u[k + n] = t[n]

LEMMA ViesLaidOut ==
    ASSUME NEW k, NEW l, NEW s, NEW t, NEW u, ViesLaid(k, l, s, t, u)
    PROVE  /\ Vies!Range(u) = Vies!Range(s) \cup Vies!Range(t)
           /\ Vies!IsInjective(u) <=>
                 /\ Vies!IsInjective(s) /\ Vies!IsInjective(t)
                 /\ Vies!Range(s) \cap Vies!Range(t) = {}
<1>1. /\ k \in Nat /\ l \in Nat
      /\ DOMAIN s = 1 .. k /\ DOMAIN t = 1 .. l /\ DOMAIN u = 1 .. k + l
      /\ \A n \in 1 .. k : u[n] = s[n]
      /\ \A n \in 1 .. l : u[k + n] = t[n]
  BY DEF ViesLaid
<1>2. /\ \A n \in 1 .. k : n \in 1 .. k + l
      /\ \A n \in 1 .. l : k + n \in 1 .. k + l /\ k + n \notin 1 .. k
      /\ \A n \in 1 .. k + l : n \in 1 .. k \/ \E m \in 1 .. l : n = k + m
      /\ \A m, n \in 1 .. l : k + m = k + n => m = n
  <2>1. ASSUME NEW n \in 1 .. k + l, n \notin 1 .. k
        PROVE  \E m \in 1 .. l : n = k + m
    <3>1. n - k \in 1 .. l /\ n = k + (n - k)
      BY <1>1, <2>1
    <3>. QED
      BY <3>1
  <2>. QED
    BY <1>1, <2>1
<1>3. Vies!Range(u) = Vies!Range(s) \cup Vies!Range(t)
  <2>1. ASSUME NEW n \in 1 .. k + l
        PROVE  u[n] \in Vies!Range(s) \cup Vies!Range(t)
    <3>1. CASE n \in 1 .. k
      <4>1. u[n] = s[n] /\ n \in DOMAIN s
        BY <1>1, <3>1
      <4>. QED
        BY <4>1 DEF Vies!Range
    <3>2. CASE n \notin 1 .. k
      <4>1. PICK m \in 1 .. l : n = k + m
        BY <1>2, <2>1, <3>2
      <4>2. u[n] = t[m] /\ m \in DOMAIN t
        BY <1>1, <4>1
      <4>. QED
        BY <4>2 DEF Vies!Range
    <3>. QED
      BY <3>1, <3>2
  <2>2. \A n \in 1 .. k : s[n] \in Vies!Range(u)
    BY <1>1, <1>2 DEF Vies!Range
  <2>3. \A n \in 1 .. l : t[n] \in Vies!Range(u)
    BY <1>1, <1>2 DEF Vies!Range
  <2>4. Vies!Range(u) \subseteq Vies!Range(s) \cup Vies!Range(t)
    BY <1>1, <2>1 DEF Vies!Range
  <2>5. Vies!Range(s) \subseteq Vies!Range(u)
    BY <1>1, <2>2 DEF Vies!Range
  <2>6. Vies!Range(t) \subseteq Vies!Range(u)
    BY <1>1, <2>3 DEF Vies!Range
  <2>. QED
    BY <2>4, <2>5, <2>6
<1>4. ASSUME Vies!IsInjective(u)
      PROVE  /\ Vies!IsInjective(s) /\ Vies!IsInjective(t)
             /\ Vies!Range(s) \cap Vies!Range(t) = {}
  <2>1. \A m, n \in 1 .. k + l : u[m] = u[n] => m = n
    BY <1>1, <1>4 DEF Vies!IsInjective
  <2>2. \A m, n \in 1 .. k : s[m] = s[n] => m = n
    BY <1>1, <1>2, <2>1
  <2>3. ASSUME NEW m \in 1 .. l, NEW n \in 1 .. l, t[m] = t[n] PROVE m = n
    <3>1. u[k + m] = u[k + n]
      BY <1>1, <2>3
    <3>2. k + m = k + n
      BY <1>2, <2>1, <3>1
    <3>. QED
      BY <1>2, <3>2
  <2>4. ASSUME NEW m \in 1 .. k, NEW n \in 1 .. l, s[m] = t[n] PROVE FALSE
    <3>1. u[m] = u[k + n]
      BY <1>1, <2>4
    <3>2. m = k + n
      BY <1>2, <2>1, <3>1
    <3>. QED
      BY <1>2, <3>2
  <2>. QED
    BY <1>1, <2>2, <2>3, <2>4 DEF Vies!IsInjective, Vies!Range
<1>5. ASSUME Vies!IsInjective(s), Vies!IsInjective(t), Vies!Range(s) \cap Vies!Range(t) = {}
      PROVE  Vies!IsInjective(u)
  <2>1. \A m, n \in 1 .. k : s[m] = s[n] => m = n
    BY <1>1, <1>5 DEF Vies!IsInjective
  <2>2. \A m, n \in 1 .. l : t[m] = t[n] => m = n
    BY <1>1, <1>5 DEF Vies!IsInjective
  <2>3. \A m \in 1 .. k, n \in 1 .. l : s[m] # t[n]
    BY <1>1, <1>5 DEF Vies!Range
  <2>4. ASSUME NEW m \in 1 .. k + l, NEW n \in 1 .. k + l, u[m] = u[n]
        PROVE  m = n
    <3>1. CASE m \in 1 .. k /\ n \in 1 .. k
      BY <1>1, <2>1, <2>4, <3>1
    <3>2. CASE m \in 1 .. k /\ n \notin 1 .. k
      <4>1. PICK j \in 1 .. l : n = k + j
        BY <1>2, <3>2
      <4>2. s[m] = t[j]
        BY <1>1, <2>4, <3>2, <4>1
      <4>. QED
        BY <2>3, <3>2, <4>2
    <3>3. CASE m \notin 1 .. k /\ n \in 1 .. k
      <4>1. PICK i \in 1 .. l : m = k + i
        BY <1>2, <3>3
      <4>2. s[n] = t[i]
        BY <1>1, <2>4, <3>3, <4>1
      <4>. QED
        BY <2>3, <3>3, <4>2
    <3>4. CASE m \notin 1 .. k /\ n \notin 1 .. k
      <4>1. PICK i \in 1 .. l : m = k + i
        BY <1>2, <3>4
      <4>2. PICK j \in 1 .. l : n = k + j
        BY <1>2, <3>4
      <4>3. t[i] = t[j]
        BY <1>1, <2>4, <4>1, <4>2
      <4>. QED
        BY <2>2, <4>1, <4>2, <4>3
    <3>. QED
      BY <3>1, <3>2, <3>3, <3>4
  <2>. QED
    BY <1>1, <2>4 DEF Vies!IsInjective
<1>. QED
  BY <1>3, <1>4, <1>5

(* Two sequences put together: length, elements, and when none is there    *)
(* twice.                                                                  *)
LEMMA ViesJoined ==
    ASSUME NEW s \in Seq(ViesPartner), NEW t \in Seq(ViesPartner), NEW u
    PROVE  u = s \o t =>
           /\ u \in Seq(ViesPartner) /\ Len(u) = Len(s) + Len(t)
           /\ Vies!Range(u) = Vies!Range(s) \cup Vies!Range(t)
           /\ Vies!IsInjective(u) <=>
                 /\ Vies!IsInjective(s) /\ Vies!IsInjective(t)
                 /\ Vies!Range(s) \cap Vies!Range(t) = {}
<1>0. SUFFICES ASSUME u = s \o t
      PROVE  /\ u \in Seq(ViesPartner) /\ Len(u) = Len(s) + Len(t)
             /\ Vies!Range(u) = Vies!Range(s) \cup Vies!Range(t)
             /\ Vies!IsInjective(u) <=>
                   /\ Vies!IsInjective(s) /\ Vies!IsInjective(t)
                   /\ Vies!Range(s) \cap Vies!Range(t) = {}
  OBVIOUS
<1>1. /\ u \in Seq(ViesPartner) /\ Len(u) = Len(s) + Len(t)
      /\ Len(s) \in Nat /\ Len(t) \in Nat
      /\ DOMAIN s = 1 .. Len(s) /\ DOMAIN t = 1 .. Len(t) /\ DOMAIN u = 1 .. Len(s) + Len(t)
      /\ \A n \in 1 .. Len(s) : u[n] = s[n]
      /\ \A n \in 1 .. Len(t) : u[Len(s) + n] = t[n]
  BY <1>0
<1>2. PICK k, l : k = Len(s) /\ l = Len(t)
  OBVIOUS
<1>3. ViesLaid(k, l, s, t, u)
  BY <1>1, <1>2 DEF ViesLaid
<1>4. /\ Vies!Range(u) = Vies!Range(s) \cup Vies!Range(t)
      /\ Vies!IsInjective(u) <=>
            /\ Vies!IsInjective(s) /\ Vies!IsInjective(t)
            /\ Vies!Range(s) \cap Vies!Range(t) = {}
  BY <1>3, ViesLaidOut, Zenon
<1>5. u \in Seq(ViesPartner) /\ Len(u) = Len(s) + Len(t)
  BY <1>1
<1>. QED
  BY <1>4, <1>5, Zenon

(* Four classes, one after the other.                                      *)
ViesAll(a, b, c, d) == a \o b \o c \o d

ViesParted(a, b, c, d) ==
    /\ ViesAll(a, b, c, d) \in Seq(ViesPartner)
    /\ Len(ViesAll(a, b, c, d)) = Len(a) + Len(b) + Len(c) + Len(d)
    /\ Vies!Range(ViesAll(a, b, c, d)) =
          Vies!Range(a) \cup Vies!Range(b) \cup Vies!Range(c) \cup Vies!Range(d)
    /\ Vies!IsInjective(ViesAll(a, b, c, d)) <=>
          /\ Vies!IsInjective(a) /\ Vies!IsInjective(b)
          /\ Vies!IsInjective(c) /\ Vies!IsInjective(d)
          /\ Vies!Range(a) \cap Vies!Range(b) = {}
          /\ (Vies!Range(a) \cup Vies!Range(b)) \cap Vies!Range(c) = {}
          /\ (Vies!Range(a) \cup Vies!Range(b) \cup Vies!Range(c)) \cap Vies!Range(d) = {}

(* Four sequences put together: length, elements, and when none is there   *)
(* twice.                                                                  *)
LEMMA ViesInAll ==
    ASSUME NEW a \in Seq(ViesPartner), NEW b \in Seq(ViesPartner),
           NEW c \in Seq(ViesPartner), NEW d \in Seq(ViesPartner)
    PROVE  ViesParted(a, b, c, d)
<1>1. PICK s : s = a \o b
  OBVIOUS
<1>2. PICK t : t = s \o c
  OBVIOUS
<1>3. PICK u : u = t \o d
  OBVIOUS
<1>4. u = ViesAll(a, b, c, d)
  BY <1>1, <1>2, <1>3, Zenon DEF ViesAll
<1>5. /\ s \in Seq(ViesPartner) /\ Len(s) = Len(a) + Len(b)
      /\ Vies!Range(s) = Vies!Range(a) \cup Vies!Range(b)
      /\ Vies!IsInjective(s) <=>
            /\ Vies!IsInjective(a) /\ Vies!IsInjective(b)
            /\ Vies!Range(a) \cap Vies!Range(b) = {}
  BY <1>1, ViesJoined
<1>6. /\ t \in Seq(ViesPartner) /\ Len(t) = Len(s) + Len(c)
      /\ Vies!Range(t) = Vies!Range(s) \cup Vies!Range(c)
      /\ Vies!IsInjective(t) <=>
            /\ Vies!IsInjective(s) /\ Vies!IsInjective(c)
            /\ Vies!Range(s) \cap Vies!Range(c) = {}
  <2>1. s \in Seq(ViesPartner)
    BY <1>5
  <2>. QED
    BY <1>2, <2>1, ViesJoined
<1>7. /\ u \in Seq(ViesPartner) /\ Len(u) = Len(t) + Len(d)
      /\ Vies!Range(u) = Vies!Range(t) \cup Vies!Range(d)
      /\ Vies!IsInjective(u) <=>
            /\ Vies!IsInjective(t) /\ Vies!IsInjective(d)
            /\ Vies!Range(t) \cap Vies!Range(d) = {}
  <2>1. t \in Seq(ViesPartner)
    BY <1>6
  <2>. QED
    BY <1>3, <2>1, ViesJoined
<1>8. Len(u) = Len(a) + Len(b) + Len(c) + Len(d)
  BY <1>5, <1>6, <1>7
<1>. QED
  BY <1>4, <1>5, <1>6, <1>7, <1>8, Zenon DEF ViesParted

(* One more verdict: it is put where its class ends.                       *)
LEMMA ViesVerdict ==
    ASSUME {v9, v10, v11, v12} \subseteq Seq(ViesPartner), NEW x \in ViesPartner,
           \/ v9' = Append(v9, x) /\ UNCHANGED <<v10, v11, v12>>
           \/ v10' = Append(v10, x) /\ UNCHANGED <<v9, v11, v12>>
           \/ v11' = Append(v11, x) /\ UNCHANGED <<v9, v10, v12>>
    PROVE  /\ {v9', v10', v11', v12'} \subseteq Seq(ViesPartner)
           /\ Vies!Seen' \in Seq(ViesPartner) /\ Len(Vies!Seen') = Len(Vies!Seen) + 1
           /\ Vies!Range(Vies!Seen)' = Vies!Range(Vies!Seen) \cup {x}
           /\ Vies!IsInjective(Vies!Seen) /\ x \notin Vies!Range(Vies!Seen)
                 => Vies!IsInjective(Vies!Seen)'
<1>1. PICK a, b, c, d : a = v9 /\ b = v10 /\ c = v11 /\ d = v12
  OBVIOUS
<1>2. PICK e, f, g, h : e = v9' /\ f = v10' /\ g = v11' /\ h = v12'
  OBVIOUS
<1>3. /\ a \in Seq(ViesPartner) /\ b \in Seq(ViesPartner)
      /\ c \in Seq(ViesPartner) /\ d \in Seq(ViesPartner)
  BY <1>1
<1>4. \/ e = Append(a, x) /\ f = b /\ g = c /\ h = d
      \/ e = a /\ f = Append(b, x) /\ g = c /\ h = d
      \/ e = a /\ f = b /\ g = Append(c, x) /\ h = d
  BY <1>1, <1>2, Zenon
<1>5. Vies!Seen = ViesAll(a, b, c, d) /\ Vies!Seen' = ViesAll(e, f, g, h)
  BY <1>1, <1>2, Zenon DEF Vies!Seen, ViesAll
<1>6. /\ Vies!Range(Vies!Seen)' = Vies!Range(Vies!Seen')
      /\ Vies!IsInjective(Vies!Seen)' <=> Vies!IsInjective(Vies!Seen')
  BY DEF Vies!Range, Vies!IsInjective
<1>7. ASSUME NEW s \in Seq(ViesPartner), NEW u, u = Append(s, x)
      PROVE  /\ u \in Seq(ViesPartner) /\ Len(u) = Len(s) + 1
             /\ Vies!Range(u) = Vies!Range(s) \cup {x}
             /\ Vies!IsInjective(u) <=> Vies!IsInjective(s) /\ x \notin Vies!Range(s)
  BY <1>7, ViesAppended
<1>8. /\ e \in Seq(ViesPartner) /\ f \in Seq(ViesPartner)
      /\ g \in Seq(ViesPartner) /\ h \in Seq(ViesPartner)
  BY <1>3, <1>4, <1>7, Zenon
<1>9. ViesParted(a, b, c, d)
  BY <1>3, ViesInAll
<1>10. ViesParted(e, f, g, h)
  BY <1>8, ViesInAll
<1>11. /\ Len(a) \in Nat /\ Len(b) \in Nat /\ Len(c) \in Nat /\ Len(d) \in Nat
  BY <1>3
<1>12. Len(e) + Len(f) + Len(g) + Len(h) = Len(a) + Len(b) + Len(c) + Len(d) + 1
  <2>1. \/ Len(e) = Len(a) + 1 /\ Len(f) = Len(b) /\ Len(g) = Len(c) /\ Len(h) = Len(d)
        \/ Len(e) = Len(a) /\ Len(f) = Len(b) + 1 /\ Len(g) = Len(c) /\ Len(h) = Len(d)
        \/ Len(e) = Len(a) /\ Len(f) = Len(b) /\ Len(g) = Len(c) + 1 /\ Len(h) = Len(d)
    BY <1>3, <1>4, <1>7, Zenon
  <2>2. CASE Len(e) = Len(a) + 1 /\ Len(f) = Len(b) /\ Len(g) = Len(c) /\ Len(h) = Len(d)
    BY <1>11, <2>2
  <2>3. CASE Len(e) = Len(a) /\ Len(f) = Len(b) + 1 /\ Len(g) = Len(c) /\ Len(h) = Len(d)
    BY <1>11, <2>3
  <2>4. CASE Len(e) = Len(a) /\ Len(f) = Len(b) /\ Len(g) = Len(c) + 1 /\ Len(h) = Len(d)
    BY <1>11, <2>4
  <2>. QED
    BY <2>1, <2>2, <2>3, <2>4, Zenon
<1>13. Vies!Range(e) \cup Vies!Range(f) \cup Vies!Range(g) \cup Vies!Range(h)
         = Vies!Range(a) \cup Vies!Range(b) \cup Vies!Range(c) \cup Vies!Range(d) \cup {x}
  <2>1. CASE e = Append(a, x) /\ f = b /\ g = c /\ h = d
    <3>1. Vies!Range(e) = Vies!Range(a) \cup {x}
      BY <1>3, <1>7, <2>1, Zenon
    <3>. QED
      BY <2>1, <3>1, Zenon
  <2>2. CASE e = a /\ f = Append(b, x) /\ g = c /\ h = d
    <3>1. Vies!Range(f) = Vies!Range(b) \cup {x}
      BY <1>3, <1>7, <2>2, Zenon
    <3>. QED
      BY <2>2, <3>1, Zenon
  <2>3. CASE e = a /\ f = b /\ g = Append(c, x) /\ h = d
    <3>1. Vies!Range(g) = Vies!Range(c) \cup {x}
      BY <1>3, <1>7, <2>3, Zenon
    <3>. QED
      BY <2>3, <3>1, Zenon
  <2>. QED
    BY <1>4, <2>1, <2>2, <2>3, Zenon
<1>14. Len(ViesAll(e, f, g, h)) = Len(ViesAll(a, b, c, d)) + 1
  BY <1>9, <1>10, <1>12 DEF ViesParted
<1>15. Vies!Range(ViesAll(e, f, g, h)) = Vies!Range(ViesAll(a, b, c, d)) \cup {x}
  BY <1>9, <1>10, <1>13, Zenon DEF ViesParted
<1>16. /\ Vies!IsInjective(ViesAll(a, b, c, d))
       /\ x \notin Vies!Range(ViesAll(a, b, c, d))
       => Vies!IsInjective(ViesAll(e, f, g, h))
  BY <1>3, <1>4, <1>7, <1>9, <1>10 DEF ViesParted
<1>17. {v9', v10', v11', v12'} \subseteq Seq(ViesPartner)
  BY <1>2, <1>8, Zenon
<1>. QED
  BY <1>5, <1>6, <1>10, <1>14, <1>17, <1>15, <1>16, Zenon DEF ViesParted

(* A fault is counted, within its bound.                                   *)
LEMMA ViesFaultCounted ==
    ASSUME v15 \in 0 .. ViesFaults, Vies!Fault
    PROVE  v15' \in 0 .. ViesFaults
<1>1. v15 < ViesFaults /\ v15' = v15 + 1 /\ ViesFaults \in Nat
  BY ViesConstants DEF Vies!Fault
<1>. QED
  BY <1>1

(* Places are taken in every order: the partners, and what is found.       *)
LEMMA ViesOrders ==
    ASSUME v1 \in Vies!Orders, v2 \subseteq ViesPartner
    PROVE  /\ v1 \in Seq(ViesPartner) /\ Len(v1) = Cardinality(ViesPartner)
           /\ \A m, n \in 1 .. Len(v1) : v1[m] = v1[n] => m = n
           /\ Vies!WithNumber \in Seq(ViesPartner)
           /\ Len(Vies!WithNumber) \in 0 .. Cardinality(ViesPartner)
           /\ v2 = ViesPartner => Vies!WithNumber = v1
<1>1. Cardinality(ViesPartner) \in Nat
  BY ViesConstants
<1>2. /\ v1 \in [1 .. Cardinality(ViesPartner) -> ViesPartner]
      /\ \A m, n \in DOMAIN v1 : v1[m] = v1[n] => m = n
  BY ViesCounts DEF Vies!Orders, Vies!Injection
<1>3. v1 \in Seq(ViesPartner) /\ Len(v1) = Cardinality(ViesPartner)
  BY <1>1, <1>2
<1>4. /\ Vies!WithNumber \in Seq(ViesPartner)
      /\ Len(Vies!WithNumber) = Cardinality(Vies!Places(v1, v2))
  BY <1>3, ViesKept DEF Vies!WithNumber
<1>5. Cardinality(Vies!Places(v1, v2)) \in Nat /\ Cardinality(Vies!Places(v1, v2)) <= Len(v1)
  BY <1>3, ViesPlaces
<1>6. v2 = ViesPartner => Vies!WithNumber = v1
  BY <1>3, ViesKeptWhole DEF Vies!WithNumber
<1>. QED
  BY <1>1, <1>2, <1>3, <1>4, <1>5, <1>6

(* A sequence is as long as its places are many.                           *)
LEMMA SequenceLength ==
    ASSUME NEW n \in Nat, NEW p \in Seq(ViesPartner), DOMAIN p = 1 .. n
    PROVE  Len(p) = n
<1>1. Len(p) \in Nat /\ DOMAIN p = 1 .. Len(p)
  OBVIOUS
<1>2. 1 .. Len(p) = 1 .. n
  BY <1>1, Zenon
<1>. QED
  BY <1>1, <1>2

(* What a page holds: so many of what the search found, from its offset.   *)
LEMMA ViesFound ==
    ASSUME NEW W \in Seq(ViesPartner), NEW o \in Nat, NEW n \in Int, o + n <= Len(W),
           NEW p, DOMAIN p = 1 .. n, p = [i \in 1 .. n |-> p[i]],
           \A i \in 1 .. n : p[i] = W[o + i]
    PROVE  /\ p \in Seq(ViesPartner) /\ Len(p) \in Nat
           /\ n >= 0 => Len(p) = n
           /\ n < 0 => Len(p) = 0
           /\ \A i \in DOMAIN p : p[i] = W[o + i]
<1>1. Len(W) \in Nat /\ \A i \in 1 .. Len(W) : W[i] \in ViesPartner
  OBVIOUS
<1>2. \A i \in 1 .. n : p[i] \in ViesPartner
  <2>1. \A i \in 1 .. n : o + i \in 1 .. Len(W)
    BY <1>1
  <2>. QED
    BY <1>1, <2>1
<1>3. CASE n >= 0
  <2>1. n \in Nat
    BY <1>3
  <2>2. p \in Seq(ViesPartner)
    BY <1>2, <2>1, SequenceOf
  <2>3. Len(p) = n
    BY <2>1, <2>2, SequenceLength, Zenon
  <2>4. ~(n < 0)
    BY <1>3
  <2>5. \A i \in DOMAIN p : i \in 1 .. n
    BY Zenon
  <2>. QED
    BY <2>1, <2>2, <2>3, <2>4, <2>5, Zenon
<1>4. CASE n < 0
  <2>1. 1 .. n = 1 .. 0 /\ 0 \in Nat
    BY <1>4
  <2>2. DOMAIN p = 1 .. 0 /\ p = [i \in 1 .. 0 |-> p[i]] /\ \A i \in 1 .. 0 : p[i] \in ViesPartner
    BY <1>2, <2>1
  <2>3. p \in Seq(ViesPartner)
    BY <2>1, <2>2, SequenceOf
  <2>4. Len(p) = 0
    BY <2>1, <2>2, <2>3, SequenceLength, Zenon
  <2>5. ~(n >= 0)
    BY <1>4
  <2>6. \A i \in DOMAIN p : i \in 1 .. n
    BY Zenon
  <2>. QED
    BY <2>1, <2>3, <2>4, <2>5, <2>6, Zenon
<1>5. n >= 0 \/ n < 0
  OBVIOUS
<1>. QED
  BY <1>3, <1>4, <1>5, Zenon

(* Where no verdict is given, the partners seen stay.                      *)
LEMMA ViesSame ==
    ASSUME UNCHANGED <<v9, v10, v11, v12>>
    PROVE  /\ Vies!Seen' = Vies!Seen /\ Vies!Range(Vies!Seen)' = Vies!Range(Vies!Seen)
           /\ Vies!IsInjective(Vies!Seen)' <=> Vies!IsInjective(Vies!Seen)
           /\ Vies!Range(v9)' = Vies!Range(v9)
<1>1. Vies!Seen' = Vies!Seen
  BY DEF Vies!Seen
<1>. QED
  BY <1>1 DEF Vies!Range, Vies!IsInjective

(* The numbers of an invariant, one by one.                                *)
LEMMA ViesNumbers ==
    ASSUME Vies!TypeOK
    PROVE  /\ v5 \in Nat /\ v6 \in Nat /\ v6 <= v5 /\ v5 <= Cardinality(ViesPartner)
           /\ Cardinality(ViesPartner) \in Nat /\ v8 \in Nat /\ Len(v7) \in Nat
           /\ Len(v1) = Cardinality(ViesPartner)
           /\ Vies!PageSize \in Nat /\ Vies!PageSize <= v5 - v6
<1>1. Cardinality(ViesPartner) \in Nat /\ ViesBatch \in Nat
  BY ViesConstants
<1>2. v5 \in 0 .. Cardinality(ViesPartner) /\ v6 \in 0 .. v5 /\ v8 \in Nat
      /\ v7 \in Seq(ViesPartner) /\ v1 \in Vies!Orders /\ v2 \subseteq ViesPartner
  BY ViesCounts DEF Vies!TypeOK
<1>3. Len(v1) = Cardinality(ViesPartner)
  BY <1>2, ViesOrders
<1>4. Vies!PageSize = IF ViesBatch <= v5 - v6 THEN ViesBatch ELSE v5 - v6
  BY DEF Vies!PageSize, Vies!Least
<1>. QED
  BY <1>1, <1>2, <1>3, <1>4

(* The count of the partners with a number finds nobody yet.               *)
LEMMA ViesCount ==
    ASSUME Vies!CheckInv, Vies!Count
    PROVE  Vies!CheckInv'
<1>1. /\ Vies!TypeOK /\ Vies!CountsAddUp /\ Vies!PagesHold /\ Vies!InOrder /\ Vies!VerdictsHold
  BY DEF Vies!CheckInv
<1>2. /\ v5 = 0 /\ v6 = 0 /\ v8 = 0 /\ v7 = << >>
  BY <1>1, ViesNumbers DEF Vies!PagesHold, Vies!Count
<1>3. v1 \in Vies!Orders /\ v2 \subseteq ViesPartner
  BY <1>1 DEF Vies!TypeOK
<1>4. Len(Vies!WithNumber) \in 0 .. Cardinality(ViesPartner) /\ Cardinality(ViesPartner) \in Nat
      /\ ViesMax \in Nat
  BY <1>3, ViesOrders, ViesConstants
<1>5. v5' \in 0 .. Cardinality(ViesPartner)
  BY <1>4 DEF Vies!Count, Vies!Least
<1>6. v4' = IF v5' = 0 THEN "over" ELSE "search"
  BY DEF Vies!Count
<1>7. UNCHANGED <<v1, v2, v3, v6, v7, v8, v9, v10, v11, v12, v13, v14, v15, v16>>
  BY DEF Vies!Count, Vies!server, Vies!results
<1>8. Vies!TypeOK'
  <2>1. v6' \in 0 .. v5' /\ v4' \in {"search", "over"}
    BY <1>2, <1>4, <1>5, <1>6, <1>7
  <2>. QED
    BY <1>1, <1>5, <1>7, <2>1, ViesCounts DEF Vies!TypeOK, Vies!Orders
<1>9. Vies!CountsAddUp'
  <2>1. v8' <= v5'
    BY <1>2, <1>4, <1>5, <1>7
  <2>. QED
    BY <1>1, <1>7, <2>1, ViesSame DEF Vies!CountsAddUp
<1>10. Vies!PagesHold'
  BY <1>2, <1>5, <1>6, <1>7 DEF Vies!PagesHold
<1>11. Vies!InOrder'
  BY <1>1, <1>2, <1>6, <1>7, ViesSame DEF Vies!InOrder
<1>12. Vies!VerdictsHold'
  BY <1>1, <1>7, ViesSame DEF Vies!VerdictsHold
<1>. QED
  BY <1>8, <1>9, <1>10, <1>11, <1>12 DEF Vies!CheckInv

(* A search takes the next page, from where the last one ended.            *)
LEMMA ViesSearch ==
    ASSUME Vies!CheckInv, Vies!Search
    PROVE  Vies!CheckInv'
<1>1. /\ Vies!TypeOK /\ Vies!CountsAddUp /\ Vies!PagesHold /\ Vies!InOrder /\ Vies!VerdictsHold
  BY DEF Vies!CheckInv
<1>2. v8 <= v6 /\ v6 < v5
  BY <1>1 DEF Vies!PagesHold, Vies!Search
<1>3. /\ v5 \in Nat /\ v6 \in Nat /\ v8 \in Nat /\ v5 <= Len(v1) /\ Len(v1) \in Nat
      /\ Vies!PageSize \in Nat /\ Vies!PageSize <= v5 - v6
  BY <1>1, ViesNumbers
<1>4. /\ Vies!WithNumber \in Seq(ViesPartner) /\ Len(Vies!WithNumber) \in Nat
      /\ v2 = ViesPartner => Vies!WithNumber = v1
  <2>1. v1 \in Vies!Orders /\ v2 \subseteq ViesPartner
    BY <1>1 DEF Vies!TypeOK
  <2>. QED
    BY <2>1, ViesOrders
<1>5. PICK last : last = Vies!Least(v6 + Vies!PageSize, Len(Vies!WithNumber))
  OBVIOUS
<1>6. /\ last \in Nat /\ last <= v6 + Vies!PageSize /\ last <= Len(Vies!WithNumber)
      /\ v6 + Vies!PageSize <= Len(Vies!WithNumber) => last = v6 + Vies!PageSize
  BY <1>3, <1>4, <1>5 DEF Vies!Least
<1>7. /\ v7' = [i \in 1 .. last - v6 |-> Vies!WithNumber[v6 + i]] /\ v4' = "read"
      /\ UNCHANGED <<v1, v2, v3, v5, v6, v8, v9, v10, v11, v12, v13, v14, v15, v16>>
  BY <1>5 DEF Vies!Search, Vies!server, Vies!results
<1>8. last - v6 \in Int /\ v6 + (last - v6) <= Len(Vies!WithNumber)
  BY <1>3, <1>6
<1>9. /\ v7' \in Seq(ViesPartner) /\ Len(v7') \in Nat
      /\ last - v6 >= 0 => Len(v7') = last - v6
      /\ last - v6 < 0 => Len(v7') = 0
      /\ \A i \in DOMAIN v7' : v7'[i] = Vies!WithNumber[v6 + i]
  <2>1. PICK W, n, p : W = Vies!WithNumber /\ n = last - v6 /\ p = v7'
    OBVIOUS
  <2>2. W \in Seq(ViesPartner) /\ n \in Int /\ v6 + n <= Len(W)
        /\ DOMAIN p = 1 .. n /\ p = [i \in 1 .. n |-> p[i]]
        /\ \A i \in 1 .. n : p[i] = W[v6 + i]
    <3>1. p = [i \in 1 .. n |-> W[v6 + i]]
      BY <1>7, <2>1
    <3>. QED
      BY <1>4, <1>8, <2>1, <3>1
  <2>3. /\ p \in Seq(ViesPartner) /\ Len(p) \in Nat
        /\ n >= 0 => Len(p) = n
        /\ n < 0 => Len(p) = 0
        /\ \A i \in DOMAIN p : p[i] = W[v6 + i]
    BY <1>3, <2>2, ViesFound
  <2>. QED
    BY <2>1, <2>3, Zenon
<1>10. Len(v7') <= Vies!PageSize
  BY <1>3, <1>6, <1>9
<1>11. Vies!PageSize' = Vies!PageSize
  BY <1>7 DEF Vies!PageSize, Vies!Least
<1>12. Vies!TypeOK'
  BY <1>1, <1>7, <1>9, ViesCounts DEF Vies!TypeOK, Vies!Orders
<1>13. Vies!CountsAddUp'
  BY <1>1, <1>7, ViesSame DEF Vies!CountsAddUp
<1>14. Vies!PagesHold'
  <2>1. v8 + Len(v7') <= v6 + Vies!PageSize
    BY <1>2, <1>3, <1>9, <1>10
  <2>. QED
    BY <1>2, <1>7, <1>11, <2>1 DEF Vies!PagesHold
<1>15. Vies!InOrder'
  <2>1. SUFFICES ASSUME v16 = 0 PROVE Vies!InOrder'
    BY <1>7 DEF Vies!InOrder
  <2>2. /\ v2 = ViesPartner /\ v12 = << >> /\ v8 = v6
        /\ Vies!IsInjective(Vies!Seen) /\ Vies!Range(Vies!Seen) = {v1[n] : n \in 1 .. v8}
    BY <1>1, <2>1 DEF Vies!InOrder, Vies!Search
  <2>3. Len(v7') = Vies!PageSize
    <3>1. v6 + Vies!PageSize <= Len(Vies!WithNumber)
      BY <1>3, <1>4, <2>2
    <3>. QED
      BY <1>3, <1>6, <1>9, <3>1
  <2>4. v8 + Len(v7') = v6 + Vies!PageSize /\ v8 + Len(v7') <= Len(v1)
    BY <1>3, <2>2, <2>3
  <2>5. \A n \in DOMAIN v7' : v7'[n] = v1[v8 + n]
    BY <1>4, <1>9, <2>2
  <2>6. Vies!IsInjective(Vies!Seen)' /\ Vies!Range(Vies!Seen)' = Vies!Range(Vies!Seen)
    BY <1>7, <2>2, ViesSame
  <2>7. UNCHANGED <<v1, v2, v8, v12>> /\ v4' = "read"
    BY <1>7, <1>5 DEF Vies!Search
  <2>8. v8' + Len(v7') = v6' + Vies!PageSize' /\ v8' + Len(v7') <= Len(v1')
    BY <1>7, <1>11, <2>4
  <2>9. Vies!Range(Vies!Seen)' = {v1'[n] : n \in 1 .. v8'}
    BY <2>2, <2>6, <2>7
  <2>10. v2' = ViesPartner /\ v12' = << >> /\ \A n \in DOMAIN v7' : v7'[n] = v1'[v8' + n]
    BY <2>2, <2>5, <2>7
  <2>. QED
    BY <2>6, <2>7, <2>8, <2>9, <2>10 DEF Vies!InOrder
<1>16. Vies!VerdictsHold'
  BY <1>1, <1>7, ViesSame DEF Vies!VerdictsHold
<1>. QED
  BY <1>12, <1>13, <1>14, <1>15, <1>16 DEF Vies!CheckInv

(* A read drops whoever has lost the number since, counted as blank.       *)
LEMMA ViesRead ==
    ASSUME Vies!CheckInv, Vies!Read
    PROVE  Vies!CheckInv'
<1>1. /\ Vies!TypeOK /\ Vies!CountsAddUp /\ Vies!PagesHold /\ Vies!InOrder /\ Vies!VerdictsHold
  BY DEF Vies!CheckInv
<1>2. v8 + Len(v7) <= v6 + Vies!PageSize /\ v6 < v5
  BY <1>1 DEF Vies!PagesHold, Vies!Read
<1>3. /\ v5 \in Nat /\ v6 \in Nat /\ v8 \in Nat /\ Len(v7) \in Nat
      /\ Vies!PageSize \in Nat /\ Vies!PageSize <= v5 - v6
  BY <1>1, ViesNumbers
<1>4. /\ v7 \in Seq(ViesPartner) /\ v9 \in Seq(ViesPartner) /\ v10 \in Seq(ViesPartner)
      /\ v11 \in Seq(ViesPartner) /\ v12 \in Seq(ViesPartner)
  BY <1>1 DEF Vies!TypeOK
<1>5. PICK kept, lost : kept = Vies!Keep(v7, v2) /\ lost = Vies!Keep(v7, ViesPartner \ v2)
  OBVIOUS
<1>6. /\ v7' = kept /\ v12' = v12 \o lost /\ v8' = v8 + (Len(v7) - Len(kept)) /\ v4' = "check"
      /\ UNCHANGED <<v1, v2, v3, v5, v6, v9, v10, v11, v13, v14, v15, v16>>
  BY <1>5 DEF Vies!Read, Vies!server
<1>7. /\ kept \in Seq(ViesPartner) /\ lost \in Seq(ViesPartner)
      /\ Len(kept) \in Nat /\ Len(lost) \in Nat /\ Len(kept) + Len(lost) = Len(v7)
  <2>1. kept \in Seq(ViesPartner) /\ lost \in Seq(ViesPartner)
    BY <1>4, <1>5, ViesKept
  <2>2. Len(kept) + Len(lost) = Len(v7)
    BY <1>4, <1>5, ViesKeptApart
  <2>. QED
    BY <2>1, <2>2
<1>8. /\ v8' \in Nat /\ v8' + Len(v7') = v8 + Len(v7) /\ v8' <= v5 /\ v8' = v8 + Len(lost)
  <2>1. PICK k, l, m, size : k = Len(kept) /\ l = Len(lost) /\ m = Len(v7) /\ size = Vies!PageSize
    OBVIOUS
  <2>2. k \in Nat /\ l \in Nat /\ m \in Nat /\ k + l = m /\ v8' = v8 + (m - k)
        /\ v8 + m <= v6 + size /\ size \in Nat /\ size <= v5 - v6
    BY <1>2, <1>3, <1>6, <1>7, <2>1, Zenon
  <2>3. v8' \in Nat /\ v8' + k = v8 + m /\ v8' <= v5 /\ v8' = v8 + l
    BY <1>3, <2>2
  <2>4. Len(v7') = k
    BY <1>6, <2>1, Zenon
  <2>. QED
    BY <2>1, <2>3, <2>4, Zenon
<1>9. v12' \in Seq(ViesPartner) /\ Len(v12') = Len(v12) + Len(lost)
  <2>1. PICK u : u = v12 \o lost
    OBVIOUS
  <2>2. u \in Seq(ViesPartner) /\ Len(u) = Len(v12) + Len(lost)
    BY <1>4, <1>7, <2>1, ViesJoined
  <2>. QED
    BY <1>6, <2>1, <2>2, Zenon
<1>10. Vies!Seen' \in Seq(ViesPartner) /\ Len(Vies!Seen') = Len(Vies!Seen) + Len(lost)
  <2>1. PICK a, b, c, d, e : a = v9 /\ b = v10 /\ c = v11 /\ d = v12 /\ e = v12'
    OBVIOUS
  <2>2. Vies!Seen = ViesAll(a, b, c, d) /\ Vies!Seen' = ViesAll(a, b, c, e)
    BY <1>6, <2>1, Zenon DEF Vies!Seen, ViesAll
  <2>3. ViesParted(a, b, c, d) /\ ViesParted(a, b, c, e)
    BY <1>4, <1>9, <2>1, ViesInAll
  <2>4. /\ Len(ViesAll(a, b, c, d)) = Len(a) + Len(b) + Len(c) + Len(d)
        /\ ViesAll(a, b, c, e) \in Seq(ViesPartner)
        /\ Len(ViesAll(a, b, c, e)) = Len(a) + Len(b) + Len(c) + Len(e)
    BY <2>3 DEF ViesParted
  <2>5. /\ Len(a) \in Nat /\ Len(b) \in Nat /\ Len(c) \in Nat /\ Len(d) \in Nat
        /\ Len(e) = Len(d) + Len(lost)
    BY <1>4, <1>9, <2>1
  <2>6. Len(ViesAll(a, b, c, e)) = Len(ViesAll(a, b, c, d)) + Len(lost)
    BY <1>7, <2>4, <2>5
  <2>. QED
    BY <2>2, <2>4, <2>6, Zenon
<1>11. Vies!PageSize' = Vies!PageSize
  BY <1>6 DEF Vies!PageSize, Vies!Least
<1>12. Vies!TypeOK'
  BY <1>1, <1>6, <1>7, <1>8, <1>9, ViesCounts DEF Vies!TypeOK, Vies!Orders
<1>13. Vies!CountsAddUp'
  <2>1. v8 = Len(Vies!Seen)
    BY <1>1 DEF Vies!CountsAddUp
  <2>2. v8' = Len(Vies!Seen')
    BY <1>8, <1>10, <2>1
  <2>3. v5' = v5
    BY <1>6
  <2>. QED
    BY <1>8, <2>2, <2>3 DEF Vies!CountsAddUp
<1>14. Vies!PagesHold'
  BY <1>2, <1>6, <1>8, <1>11 DEF Vies!PagesHold
<1>15. Vies!InOrder'
  <2>1. SUFFICES ASSUME v16 = 0 PROVE Vies!InOrder'
    BY <1>6 DEF Vies!InOrder
  <2>2. v2 = ViesPartner /\ v12 = << >>
    BY <1>1, <2>1 DEF Vies!InOrder
  <2>3. kept = v7
    BY <1>4, <1>5, <2>2, ViesKeptWhole
  <2>4. lost = << >>
    <3>1. ViesPartner \ v2 = {}
      BY <2>2
    <3>. QED
      BY <1>4, <1>5, <3>1, ViesKeptNone
  <2>5. UNCHANGED <<v7, v8, v9, v10, v11, v12>>
    <3>1. v12' = << >>
      BY <1>6, <2>2, <2>4
    <3>2. v8' = v8
      BY <1>3, <1>6, <2>3
    <3>. QED
      BY <1>6, <2>2, <2>3, <3>1, <3>2
  <2>6. v4 = "read"
    BY DEF Vies!Read
  <2>. QED
    BY <1>1, <1>6, <1>11, <2>1, <2>5, <2>6, ViesSame DEF Vies!InOrder
<1>16. Vies!VerdictsHold'
  <2>1. Vies!Range(v9)' = Vies!Range(v9)
    BY <1>6 DEF Vies!Range
  <2>. QED
    BY <1>1, <1>6, <2>1 DEF Vies!VerdictsHold
<1>. QED
  BY <1>12, <1>13, <1>14, <1>15, <1>16 DEF Vies!CheckInv

(* The head of the page is next in order, and none was before it.          *)
LEMMA ViesCheck ==
    ASSUME Vies!CheckInv, Vies!Check
    PROVE  Vies!CheckInv'
<1>1. /\ Vies!TypeOK /\ Vies!CountsAddUp /\ Vies!PagesHold /\ Vies!InOrder /\ Vies!VerdictsHold
  BY DEF Vies!CheckInv
<1>2. v8 + Len(v7) <= v6 + Vies!PageSize /\ v6 < v5 /\ v4 = "check" /\ v7 # << >>
  BY <1>1 DEF Vies!PagesHold, Vies!Check
<1>3. /\ v5 \in Nat /\ v6 \in Nat /\ v8 \in Nat /\ Len(v7) \in Nat
      /\ Vies!PageSize \in Nat /\ Vies!PageSize <= v5 - v6
  BY <1>1, ViesNumbers
<1>4. v7 \in Seq(ViesPartner) /\ {v9, v10, v11, v12} \subseteq Seq(ViesPartner)
      /\ v13 \subseteq ViesPartner /\ v15 \in 0 .. ViesFaults /\ v1 \in Vies!Orders
      /\ v2 \subseteq ViesPartner
  BY <1>1 DEF Vies!TypeOK
<1>5. PICK x : x = Head(v7)
  OBVIOUS
<1>6. /\ x \in ViesPartner /\ x = v7[1] /\ Tail(v7) \in Seq(ViesPartner)
      /\ Len(v7) >= 1 /\ Len(Tail(v7)) = Len(v7) - 1 /\ 1 \in DOMAIN v7
      /\ \A n \in DOMAIN Tail(v7) : n + 1 \in DOMAIN v7 /\ Tail(v7)[n] = v7[n + 1]
      /\ \A n \in DOMAIN Tail(v7) : n \in Nat
  BY <1>2, <1>4, <1>5
<1>7. /\ v7' = Tail(v7) /\ v8' = v8 + 1
      /\ UNCHANGED <<v1, v2, v3, v4, v5, v6, v12, v14, v16>>
  BY DEF Vies!Check, Vies!server
<1>8. \/ v9' = Append(v9, x) /\ UNCHANGED <<v10, v11, v12>>
      \/ v10' = Append(v10, x) /\ UNCHANGED <<v9, v11, v12>>
      \/ v11' = Append(v11, x) /\ UNCHANGED <<v9, v10, v12>>
  BY <1>5, <1>7 DEF Vies!Check
<1>9. /\ {v9', v10', v11', v12'} \subseteq Seq(ViesPartner)
      /\ Len(Vies!Seen') = Len(Vies!Seen) + 1
      /\ Vies!Range(Vies!Seen)' = Vies!Range(Vies!Seen) \cup {x}
      /\ Vies!IsInjective(Vies!Seen) /\ x \notin Vies!Range(Vies!Seen)
            => Vies!IsInjective(Vies!Seen)'
  BY <1>4, <1>6, <1>8, ViesVerdict
<1>10. v8' + Len(v7') = v8 + Len(v7) /\ v8' \in Nat /\ v8' <= v5
  BY <1>2, <1>3, <1>6, <1>7
<1>11. Vies!PageSize' = Vies!PageSize
  BY <1>7 DEF Vies!PageSize, Vies!Least
<1>12. Vies!TypeOK'
  <2>1. v15' \in 0 .. ViesFaults
    BY <1>4, ViesFaultCounted DEF Vies!Check
  <2>2. v13' \subseteq ViesPartner
    BY <1>4, <1>5, <1>6 DEF Vies!Check
  <2>. QED
    BY <1>1, <1>6, <1>7, <1>9, <1>10, <2>1, <2>2, ViesCounts DEF Vies!TypeOK, Vies!Orders
<1>13. Vies!CountsAddUp'
  <2>1. v8 = Len(Vies!Seen)
    BY <1>1 DEF Vies!CountsAddUp
  <2>2. v8' = Len(Vies!Seen')
    BY <1>7, <1>9, <2>1
  <2>3. v5' = v5
    BY <1>7
  <2>. QED
    BY <1>10, <2>2, <2>3 DEF Vies!CountsAddUp
<1>14. Vies!PagesHold'
  BY <1>2, <1>7, <1>10, <1>11 DEF Vies!PagesHold
<1>15. Vies!InOrder'
  <2>1. SUFFICES ASSUME v16 = 0 PROVE Vies!InOrder'
    BY <1>7 DEF Vies!InOrder
  <2>2. /\ v2 = ViesPartner /\ v12 = << >>
        /\ v8 + Len(v7) = v6 + Vies!PageSize /\ v8 + Len(v7) <= Len(v1)
        /\ \A n \in DOMAIN v7 : v7[n] = v1[v8 + n]
        /\ Vies!IsInjective(Vies!Seen) /\ Vies!Range(Vies!Seen) = {v1[n] : n \in 1 .. v8}
    BY <1>1, <1>2, <2>1 DEF Vies!InOrder
  <2>3. x = v1[v8 + 1]
    BY <1>6, <2>2
  <2>4. /\ Len(v1) \in Nat /\ v8 + 1 \in 1 .. Len(v1)
        /\ \A m, n \in 1 .. Len(v1) : v1[m] = v1[n] => m = n
    <3>1. Len(v1) \in Nat /\ \A m, n \in 1 .. Len(v1) : v1[m] = v1[n] => m = n
      BY <1>4, ViesOrders
    <3>2. v8 + 1 \in 1 .. Len(v1)
      BY <1>3, <1>6, <2>2, <3>1
    <3>. QED
      BY <3>1, <3>2
  <2>5. x \notin {v1[n] : n \in 1 .. v8}
    <3>1. \A n \in 1 .. v8 : n \in 1 .. Len(v1) /\ n # v8 + 1
      BY <1>3, <2>4
    <3>. QED
      BY <2>3, <2>4, <3>1
  <2>6. {v1[n] : n \in 1 .. v8} \cup {x} = {v1[n] : n \in 1 .. v8 + 1}
    <3>1. \A n : n \in 1 .. v8 + 1 <=> n \in 1 .. v8 \/ n = v8 + 1
      BY <1>3
    <3>. QED
      BY <2>3, <3>1
  <2>7. Vies!IsInjective(Vies!Seen)' /\ Vies!Range(Vies!Seen)' = {v1[n] : n \in 1 .. v8 + 1}
    BY <1>9, <2>2, <2>5, <2>6
  <2>8. \A n \in DOMAIN v7' : v7'[n] = v1[v8' + n]
    <3>1. \A n \in DOMAIN Tail(v7) : Tail(v7)[n] = v1[v8 + (n + 1)]
      BY <1>6, <2>2
    <3>2. \A n \in Nat : v8 + (n + 1) = (v8 + 1) + n
      BY <1>3
    <3>. QED
      BY <1>6, <1>7, <3>1, <3>2
  <2>. QED
    BY <1>2, <1>7, <1>10, <1>11, <2>2, <2>7, <2>8 DEF Vies!InOrder
<1>16. Vies!VerdictsHold'
  <2>0. Vies!Range(v9) \subseteq v3 \cup v13 /\ v9 \in Seq(ViesPartner)
    BY <1>1, <1>4 DEF Vies!VerdictsHold
  <2>1. CASE UNCHANGED <<v9, v13>>
    <3>1. Vies!Range(v9)' = Vies!Range(v9)
      BY <2>1 DEF Vies!Range
    <3>. QED
      BY <1>7, <2>0, <2>1, <3>1 DEF Vies!VerdictsHold
  <2>2. CASE v9' = Append(v9, x) /\ x \in v3 \cup v13' /\ v13 \subseteq v13'
    <3>1. PICK u : u = Append(v9, x)
      OBVIOUS
    <3>2. Vies!Range(u) = Vies!Range(v9) \cup {x}
      BY <1>6, <2>0, <3>1, ViesAppended
    <3>3. Vies!Range(v9)' = Vies!Range(u)
      BY <2>2, <3>1 DEF Vies!Range
    <3>. QED
      BY <1>7, <2>0, <2>2, <3>2, <3>3 DEF Vies!VerdictsHold
  <2>. QED
    BY <1>5, <2>1, <2>2 DEF Vies!Check
<1>. QED
  BY <1>12, <1>13, <1>14, <1>15, <1>16 DEF Vies!CheckInv

(* Once a page is checked, its offset is that of the next.                 *)
LEMMA ViesNextPage ==
    ASSUME Vies!CheckInv, Vies!NextPage
    PROVE  Vies!CheckInv'
<1>1. /\ Vies!TypeOK /\ Vies!CountsAddUp /\ Vies!PagesHold /\ Vies!InOrder /\ Vies!VerdictsHold
  BY DEF Vies!CheckInv
<1>2. v8 + Len(v7) <= v6 + Vies!PageSize /\ v7 = << >> /\ v4 = "check" /\ Len(v7) = 0
  BY <1>1 DEF Vies!PagesHold, Vies!NextPage
<1>3. /\ v5 \in Nat /\ v6 \in Nat /\ v8 \in Nat
      /\ Vies!PageSize \in Nat /\ Vies!PageSize <= v5 - v6
  BY <1>1, ViesNumbers
<1>4. /\ v6' = v6 + Vies!PageSize
      /\ v6' < v5 => v4' = "search"
      /\ ~(v6' < v5) => v4' \in {"notify", "over"}
      /\ UNCHANGED <<v1, v2, v3, v5, v7, v8, v9, v10, v11, v12, v13, v14, v15, v16>>
  BY DEF Vies!NextPage, Vies!server, Vies!results
<1>5. v6' \in 0 .. v5 /\ v8 <= v6'
  BY <1>2, <1>3, <1>4
<1>6. v4' \in {"search", "notify", "over"} /\ (v4' = "search" => v6' < v5)
      /\ (v4' # "search" => v6' = v5)
  BY <1>3, <1>4, <1>5
<1>7. Vies!TypeOK'
  BY <1>1, <1>4, <1>5, <1>6, ViesCounts DEF Vies!TypeOK, Vies!Orders
<1>8. Vies!CountsAddUp'
  BY <1>1, <1>4, ViesSame DEF Vies!CountsAddUp
<1>9. Vies!PagesHold'
  BY <1>2, <1>4, <1>5, <1>6 DEF Vies!PagesHold
<1>10. Vies!InOrder'
  <2>1. SUFFICES ASSUME v16 = 0 PROVE Vies!InOrder'
    BY <1>4 DEF Vies!InOrder
  <2>2. v8 = v6'
    BY <1>1, <1>2, <1>3, <1>4, <2>1 DEF Vies!InOrder
  <2>. QED
    BY <1>1, <1>4, <1>6, <2>1, <2>2, ViesSame DEF Vies!InOrder
<1>11. Vies!VerdictsHold'
  BY <1>1, <1>4, ViesSame DEF Vies!VerdictsHold
<1>. QED
  BY <1>7, <1>8, <1>9, <1>10, <1>11 DEF Vies!CheckInv

(* Messages and calls that fail leave the figures.                         *)
LEMMA ViesStops ==
    ASSUME Vies!CheckInv, Vies!Notify \/ Vies!CallFails
    PROVE  Vies!CheckInv'
<1>1. /\ Vies!TypeOK /\ Vies!CountsAddUp /\ Vies!PagesHold /\ Vies!InOrder /\ Vies!VerdictsHold
  BY DEF Vies!CheckInv
<1>2. UNCHANGED <<v1, v2, v3, v5, v6, v7, v8, v9, v10, v11, v12, v13, v16>>
  BY DEF Vies!Notify, Vies!CallFails, Vies!server, Vies!results
<1>3. (v4 = "notify" /\ v4' = "over") \/ v4' = "broken"
  BY DEF Vies!Notify, Vies!CallFails
<1>4. v14' \subseteq ViesNotified
  BY <1>1 DEF Vies!Notify, Vies!CallFails, Vies!TypeOK
<1>5. v15' \in 0 .. ViesFaults
  BY <1>1, ViesFaultCounted DEF Vies!Notify, Vies!CallFails, Vies!TypeOK
<1>6. Vies!TypeOK'
  BY <1>1, <1>2, <1>3, <1>4, <1>5, ViesCounts DEF Vies!TypeOK, Vies!Orders
<1>7. Vies!CountsAddUp'
  BY <1>1, <1>2, ViesSame DEF Vies!CountsAddUp
<1>8. Vies!PagesHold'
  BY <1>1, <1>2, <1>3 DEF Vies!PagesHold
<1>9. Vies!InOrder'
  BY <1>1, <1>2, <1>3, ViesSame DEF Vies!InOrder
<1>10. Vies!VerdictsHold'
  BY <1>1, <1>2, ViesSame DEF Vies!VerdictsHold
<1>. QED
  BY <1>6, <1>7, <1>8, <1>9, <1>10 DEF Vies!CheckInv

(* After an edit nothing is promised of the order.                         *)
LEMMA ViesEdit ==
    ASSUME Vies!CheckInv, Vies!Edit
    PROVE  Vies!CheckInv'
<1>1. /\ Vies!TypeOK /\ Vies!CountsAddUp /\ Vies!PagesHold /\ Vies!VerdictsHold
  BY DEF Vies!CheckInv
<1>2. UNCHANGED <<v3, v4, v5, v6, v7, v8, v9, v10, v11, v12, v13, v14, v15>>
  BY DEF Vies!Edit, Vies!results
<1>3. v16' \in 0 .. ViesEdits /\ v16' # 0
  <2>1. v16 \in 0 .. ViesEdits /\ ViesEdits \in Nat
    BY <1>1, ViesConstants DEF Vies!TypeOK
  <2>2. v16 < ViesEdits /\ v16' = v16 + 1
    BY DEF Vies!Edit
  <2>. QED
    BY <2>1, <2>2
<1>4. v2' \subseteq ViesPartner
  BY <1>1 DEF Vies!Edit, Vies!TypeOK
<1>5. v1' \in Vies!Orders
  BY <1>1 DEF Vies!Edit, Vies!TypeOK
<1>6. Vies!TypeOK'
  BY <1>1, <1>2, <1>3, <1>4, <1>5, ViesCounts DEF Vies!TypeOK, Vies!Orders
<1>7. Vies!CountsAddUp'
  BY <1>1, <1>2, ViesSame DEF Vies!CountsAddUp
<1>8. Vies!PagesHold'
  BY <1>1, <1>2 DEF Vies!PagesHold, Vies!PageSize, Vies!Least
<1>9. Vies!InOrder'
  BY <1>3 DEF Vies!InOrder
<1>10. Vies!VerdictsHold'
  BY <1>1, <1>2, ViesSame DEF Vies!VerdictsHold
<1>. QED
  BY <1>6, <1>7, <1>8, <1>9, <1>10 DEF Vies!CheckInv

(* Nothing that CheckInv is about changes in a stutter.                    *)
LEMMA ViesStill ==
    ASSUME Vies!CheckInv, UNCHANGED Vies!vars
    PROVE  Vies!CheckInv'
<1>1. UNCHANGED <<v1, v2, v3, v4, v5, v6, v7, v8, v9, v10, v11, v12, v13, v14, v15, v16>>
  BY DEF Vies!vars
<1>2. Vies!TypeOK'
  BY <1>1, ViesCounts DEF Vies!CheckInv, Vies!TypeOK, Vies!Orders
<1>3. Vies!CountsAddUp'
  BY <1>1, ViesSame DEF Vies!CheckInv, Vies!CountsAddUp
<1>4. Vies!PagesHold'
  BY <1>1 DEF Vies!CheckInv, Vies!PagesHold, Vies!PageSize, Vies!Least
<1>5. Vies!InOrder'
  <2>1. Vies!PageSize' = Vies!PageSize
    BY <1>1 DEF Vies!PageSize, Vies!Least
  <2>. QED
    BY <1>1, <2>1, ViesSame DEF Vies!CheckInv, Vies!InOrder
<1>6. Vies!VerdictsHold'
  BY <1>1, ViesSame DEF Vies!CheckInv, Vies!VerdictsHold
<1>. QED
  BY <1>2, <1>3, <1>4, <1>5, <1>6 DEF Vies!CheckInv

(* Users or not, the check keeps its figures, its pages and its order.     *)
THEOREM ChecksKeepTheirFigures == Vies!Spec => []Vies!CheckInv
<1>1. Vies!Init => Vies!CheckInv
  <2>. SUFFICES ASSUME Vies!Init PROVE Vies!CheckInv
    OBVIOUS
  <2>. USE DEF Vies!Init
  <2>1. v1 \in Vies!Orders
    <3>1. \E s : s \in Vies!Orders
      <4>1. ExistsBijection(1 .. Cardinality(ViesPartner), ViesPartner)
        BY ViesConstants, FS_CardinalityType
      <4>2. PICK s \in [1 .. Cardinality(ViesPartner) -> ViesPartner] :
               \A m, n \in 1 .. Cardinality(ViesPartner) : s[m] = s[n] => m = n
        BY <4>1 DEF ExistsBijection, Bijection, Injection, IsInjective
      <4>3. Vies!IsInjective(s)
        BY <4>2 DEF Vies!IsInjective
      <4>4. s \in Vies!Orders
        BY <4>2, <4>3, ViesCounts DEF Vies!Orders, Vies!Injection
      <4>. QED
        BY <4>4
    <3>. QED
      BY <3>1
  <2>2. Vies!Seen = << >>
    BY DEF Vies!Seen
  <2>3. Vies!Range(Vies!Seen) = {} /\ Vies!IsInjective(Vies!Seen) /\ Len(Vies!Seen) = 0
    BY <2>2 DEF Vies!Range, Vies!IsInjective
  <2>4. /\ Cardinality(ViesPartner) \in Nat /\ Len(v1) = Cardinality(ViesPartner)
        /\ ViesFaults \in Nat /\ ViesEdits \in Nat
    BY <2>1, ViesConstants, ViesOrders
  <2>5. Vies!TypeOK
    BY <2>1, <2>4, ViesCounts DEF Vies!TypeOK
  <2>6. Vies!CountsAddUp /\ Vies!PagesHold
    BY <2>3 DEF Vies!CountsAddUp, Vies!PagesHold
  <2>7. Vies!InOrder
    <3>1. {v1[n] : n \in 1 .. 0} = {}
      OBVIOUS
    <3>. QED
      BY <2>3, <2>4, <3>1 DEF Vies!InOrder
  <2>8. Vies!VerdictsHold
    BY DEF Vies!VerdictsHold, Vies!Range
  <2>. QED
    BY <2>5, <2>6, <2>7, <2>8 DEF Vies!CheckInv
<1>2. Vies!CheckInv /\ [Vies!Next]_Vies!vars => Vies!CheckInv'
  BY ViesCount, ViesSearch, ViesRead, ViesCheck, ViesNextPage, ViesStops, ViesEdit, ViesStill
  DEF Vies!Next
<1>. QED
  BY <1>1, <1>2, PTL DEF Vies!Spec

(* CheckInv implies what the command reports.                              *)
LEMMA ViesGiveSound == Vies!CheckInv => Vies!CheckIsHonest
<1>. SUFFICES ASSUME Vies!CheckInv PROVE Vies!EachCheckedOnce
  BY DEF Vies!CheckInv, Vies!CheckIsHonest
<1>. QED
  BY DEF Vies!CheckInv, Vies!InOrder, Vies!CountsAddUp, Vies!VerdictsHold, Vies!EachCheckedOnce

(***************************************************************************)
(* The tools                                                               *)
(***************************************************************************)
(* Each tool that works through records of the server keeps its promise,   *)
(* for any records, pages, batches and threads: a VAT number is reported   *)
(* as its check said, an invoice goes through every step once, and every   *)
(* template gets its variants or is counted as failed (vies_manager.py,    *)
(* invoice_v9.py, variant_manager.py).                                     *)
THEOREM ToolsAreRight ==
    \/ Vies!Spec /\ [](part = "vies")
    \/ Invoices!Spec /\ [](part = "invoices")
    \/ Variants!Spec /\ [](part = "variants")
    => []ToolsAreSound
<1>1. Vies!CheckInv /\ part = "vies" => ToolsAreSound
  BY ViesGiveSound DEF ToolsAreSound
<1>2. Invoices!InvoicesInv /\ part = "invoices" => ToolsAreSound
  BY InvoicesGiveSound DEF ToolsAreSound
<1>3. Variants!VariantsInv /\ part = "variants" => ToolsAreSound
  BY VariantsGiveSound DEF ToolsAreSound
<1>. QED
  BY <1>1, <1>2, <1>3, ChecksKeepTheirFigures, InvoicesKeepTheirState, VariantsStayRight, PTL
-----------------------------------------------------------------------------
(* The operators of the instance are those of the library.                 *)
LEMMA FlowCounts == \A s, I : Flow!ItemsAt(s, I) = ItemsAt(s, I)
BY DEF Flow!ItemsAt, ItemsAt, Flow!Pos, Pos, Flow!Cardinality, Cardinality

(* The texts and what they refer to.                                       *)
FlowGraph ==
    DOMAIN v1 \subseteq FlowName /\ \A n \in DOMAIN v1 : v1[n] \in Seq(FlowName)

(* What a text refers to are names.                                        *)
LEMMA FlowRefs == ASSUME FlowGraph, NEW n \in DOMAIN v1 PROVE Flow!Refs(n) \subseteq FlowName
<1>1. v1[n] \in Seq(FlowName)
  BY DEF FlowGraph
<1>2. \A i \in DOMAIN v1[n] : v1[n][i] \in FlowName
  BY <1>1
<1>. QED
  BY <1>2 DEF Flow!Refs

(* A name leads to what its text refers to.                                *)
LEMMA FlowLeadsFirst ==
    ASSUME FlowGraph, NEW n \in DOMAIN v1, NEW x \in Flow!Refs(n)
    PROVE  x \in Flow!Leads(n)
BY FlowRefs DEF Flow!Leads

(* ... and on to whatever those lead to.                                   *)
LEMMA FlowLeadsOn ==
    ASSUME FlowGraph, NEW n \in DOMAIN v1, NEW x \in Flow!Leads(n) \cap DOMAIN v1
    PROVE  Flow!Refs(x) \subseteq Flow!Leads(n) /\ Flow!Leads(x) \subseteq Flow!Leads(n)
<1>1. ASSUME NEW S \in SUBSET FlowName, Flow!Refs(n) \subseteq S, Flow!Closed(S)
      PROVE  Flow!Refs(x) \subseteq S /\ Flow!Leads(x) \subseteq S
  <2>1. x \in S
    BY <1>1 DEF Flow!Leads
  <2>2. Flow!Refs(x) \subseteq S
    BY <1>1, <2>1 DEF Flow!Closed
  <2>. QED
    BY <1>1, <2>2 DEF Flow!Leads
<1>2. Flow!Refs(x) \subseteq FlowName /\ Flow!Leads(x) \subseteq FlowName
  BY FlowRefs DEF Flow!Leads
<1>. QED
  BY <1>1, <1>2 DEF Flow!Leads

(* It leads to nothing beyond a set that has what its text refers to and   *)
(* is closed.                                                              *)
LEMMA FlowLeadsWithin ==
    ASSUME NEW n, NEW S \in SUBSET FlowName, Flow!Refs(n) \subseteq S, Flow!Closed(S)
    PROVE  Flow!Leads(n) \subseteq S
BY DEF Flow!Leads

(* What a value is made of is what its name leads to.                      *)
LEMMA FlowValue ==
    ASSUME FlowGraph, NEW n \in DOMAIN v1, NEW D \in SUBSET DOMAIN v1, NEW value,
           Flow!Refs(n) \subseteq D,
           \A m \in D : Flow!Refs(m) \subseteq D /\ value[m] = {m} \cup Flow!Leads(m)
    PROVE  UNION {value[m] : m \in Flow!Refs(n)} = Flow!Leads(n)
<1>. DEFINE U == UNION {value[m] : m \in Flow!Refs(n)}
<1>1. ASSUME NEW m \in Flow!Refs(n) PROVE value[m] \subseteq Flow!Leads(n)
  <2>1. m \in D /\ m \in Flow!Leads(n) /\ m \in DOMAIN v1
    BY FlowLeadsFirst
  <2>2. Flow!Leads(m) \subseteq Flow!Leads(n)
    BY <2>1, FlowLeadsOn
  <2>. QED
    BY <2>1, <2>2
<1>2. U \subseteq Flow!Leads(n)
  BY <1>1
<1>3. U \subseteq FlowName
  BY <1>2 DEF Flow!Leads
<1>4. Flow!Refs(n) \subseteq U
  <2>1. \A m \in Flow!Refs(n) : m \in value[m]
    OBVIOUS
  <2>. QED
    BY <2>1
<1>5. Flow!Closed(U)
  <2>1. ASSUME NEW x \in U \cap DOMAIN v1 PROVE Flow!Refs(x) \subseteq U
    <3>1. PICK m \in Flow!Refs(n) : x \in value[m]
      OBVIOUS
    <3>2. m \in D /\ m \in DOMAIN v1 /\ value[m] = {m} \cup Flow!Leads(m)
      OBVIOUS
    <3>3. Flow!Refs(x) \subseteq Flow!Leads(m)
      <4>1. CASE x = m
        BY <3>2, <4>1, FlowLeadsFirst
      <4>2. CASE x \in Flow!Leads(m)
        BY <3>2, <4>2, FlowLeadsOn
      <4>. QED
        BY <3>1, <3>2, <4>1, <4>2
    <3>. QED
      BY <3>2, <3>3
  <2>. HIDE DEF U
  <2>. QED
    BY <2>1 DEF Flow!Closed
<1>. HIDE DEF U
<1>6. Flow!Leads(n) \subseteq U
  BY <1>3, <1>4, <1>5, FlowLeadsWithin
<1>7. U = Flow!Leads(n)
  BY <1>2, <1>6
<1>. QED
  BY <1>7 DEF U

(* The texts stay as they are.                                             *)
LEMMA FlowTextsStay ==
    ASSUME v1' = v1
    PROVE  /\ \A n : Flow!Refs(n)' = Flow!Refs(n)
           /\ \A n : Flow!Leads(n)' = Flow!Leads(n)
<1>1. \A n : Flow!Refs(n)' = Flow!Refs(n)
  BY DEF Flow!Refs
<1>2. \A S : Flow!Closed(S)' <=> Flow!Closed(S)
  BY <1>1 DEF Flow!Closed
<1>3. ASSUME NEW n PROVE Flow!Leads(n)' = Flow!Leads(n)
  <2>1. \A x : x \in Flow!Leads(n)' <=>
                 x \in FlowName /\ \A S \in SUBSET FlowName :
                                     Flow!Refs(n)' \subseteq S /\ Flow!Closed(S)' => x \in S
    BY DEF Flow!Leads
  <2>2. \A x : x \in Flow!Leads(n) <=>
                 x \in FlowName /\ \A S \in SUBSET FlowName :
                                     Flow!Refs(n) \subseteq S /\ Flow!Closed(S) => x \in S
    BY DEF Flow!Leads
  <2>3. \A x : x \in Flow!Leads(n)' <=> x \in Flow!Leads(n)
    BY <1>1, <1>2, <2>1, <2>2
  <2>. QED
    BY <2>3
<1>. QED
  BY <1>1, <1>3
-----------------------------------------------------------------------------
(* What the stack becomes: one name more, one step further, one name less. *)
FlowFrame == [name : DOMAIN v1, at : Nat]

LEMMA FlowPushed ==
    ASSUME NEW R, NEW s \in Seq(R), NEW e \in R, NEW t, t = Append(s, e)
    PROVE  /\ t \in Seq(R) /\ Len(s) \in Nat /\ Len(t) = Len(s) + 1 /\ t[Len(t)] = e
           /\ \A i \in 1 .. Len(s) : t[i] = s[i]
OBVIOUS

(* A stack that is not empty has a top.                                    *)
LEMMA FlowTall ==
    ASSUME NEW s \in Seq(FlowFrame), s # << >>
    PROVE  /\ Len(s) \in Nat /\ DOMAIN s = 1 .. Len(s) /\ Len(s) > 0
           /\ \A i \in 1 .. Len(s) : s[i] \in FlowFrame
OBVIOUS

(* One step further in the text of the name on top.                        *)
LEMMA FlowMoved ==
    ASSUME NEW s \in Seq(FlowFrame), s # << >>,
           NEW t, t = [s EXCEPT ![Len(s)].at = @ + 1]
    PROVE  /\ t \in Seq(FlowFrame) /\ Len(s) \in Nat /\ Len(t) = Len(s)
           /\ \A i \in 1 .. Len(s) :
                 /\ t[i].name = s[i].name
                 /\ t[i].at = IF i = Len(s) THEN s[i].at + 1 ELSE s[i].at
<1>1. /\ Len(s) \in Nat /\ DOMAIN s = 1 .. Len(s) /\ Len(s) > 0
      /\ \A i \in 1 .. Len(s) : s[i] \in FlowFrame
  BY FlowTall
<1>2. DOMAIN t = 1 .. Len(s)
  BY <1>1
<1>3. \A i \in 1 .. Len(s) : t[i] = IF i = Len(s) THEN [s[i] EXCEPT !.at = @ + 1] ELSE s[i]
  BY <1>1
<1>4. \A i \in 1 .. Len(s) :
         /\ t[i] \in FlowFrame /\ t[i].name = s[i].name
         /\ t[i].at = IF i = Len(s) THEN s[i].at + 1 ELSE s[i].at
  BY <1>1, <1>3 DEF FlowFrame
<1>5. t = [i \in 1 .. Len(s) |-> t[i]]
  BY <1>2
<1>6. t \in Seq(FlowFrame)
  BY <1>1, <1>2, <1>4, <1>5, SequenceOf
<1>7. Len(t) = Len(s)
  BY <1>1, <1>2, <1>6
<1>. QED
  BY <1>1, <1>4, <1>6, <1>7

(* The name on top is done with.                                           *)
LEMMA FlowPopped ==
    ASSUME NEW R, NEW s \in Seq(R), s # << >>, NEW t, t = SubSeq(s, 1, Len(s) - 1)
    PROVE  /\ t \in Seq(R) /\ Len(s) \in Nat \ {0} /\ Len(t) = Len(s) - 1
           /\ \A i \in 1 .. Len(s) - 1 : t[i] = s[i]
<1>1. Len(s) \in Nat \ {0} /\ \A i \in 1 .. Len(s) : s[i] \in R
  <2>1. ASSUME NEW u \in Seq(R), u # << >>
        PROVE  Len(u) \in Nat \ {0} /\ \A i \in 1 .. Len(u) : u[i] \in R
    BY <2>1
  <2>. QED
    BY <2>1
<1>2. PICK n : n = Len(s) - 1
  OBVIOUS
<1>3. n \in Nat /\ n <= Len(s) /\ \A i \in 1 .. n : s[i] \in R
  BY <1>1, <1>2
<1>4. /\ SubSeq(s, 1, n) \in Seq(R)
      /\ Len(SubSeq(s, 1, n)) = IF 1 <= n THEN n - 1 + 1 ELSE 0
      /\ \A i \in 1 .. n - 1 + 1 : SubSeq(s, 1, n)[i] = s[1 + i - 1]
  BY <1>1, <1>3, SubSeqProperties
<1>5. t = SubSeq(s, 1, n)
  BY <1>2
<1>6. t \in Seq(R) /\ Len(t) = n /\ \A i \in 1 .. n : t[i] = s[i]
  BY <1>3, <1>4, <1>5
<1>. QED
  BY <1>1, <1>2, <1>6

(* What is left of FlowInv when the variables are resolved or refused.     *)
LEMMA FlowRest ==
    ASSUME Flow!FlowInv, v6 = "vars",
           UNCHANGED <<v1, v4, v5, v8, v9, v10, v11, v13>>,
           v6' \in {"vars", "over"}, v12' \in -1 .. 1,
           v6' = "vars" => v7' = v7,
           v6' = "over" => v7' \in {"cycle", "undefined", "depth"}
    PROVE  /\ Flow!RunTypeOK' /\ Flow!StepsHold' /\ Flow!RowsAreOfThisRun'
           /\ v7 = "none" /\ v7' \in {"none", "cycle", "undefined", "depth"}
<1>1. v7 = "none" /\ v7' \in {"none", "cycle", "undefined", "depth"}
  BY DEF Flow!FlowInv, Flow!StepsHold
<1>2. Flow!RunTypeOK'
  BY <1>1 DEF Flow!FlowInv, Flow!TypeOK, Flow!RunTypeOK
<1>3. Flow!StepsHold'
  BY <1>1 DEF Flow!FlowInv, Flow!StepsHold
<1>4. Flow!RowsAreOfThisRun'
  BY DEF Flow!FlowInv, Flow!RowsAreOfThisRun
<1>. QED
  BY <1>1, <1>2, <1>3, <1>4

(* What the invariant says of the texts and of the stack.                  *)
LEMMA FlowGraphHolds ==
    ASSUME Flow!FlowInv
    PROVE  /\ FlowGraph /\ v2 \in Seq(FlowFrame) /\ Len(v2) \in Nat /\ DOMAIN v2 = 1 .. Len(v2)
           /\ \A i \in 1 .. Len(v2) : v2[i].name \in DOMAIN v1 /\ v2[i].at \in Nat
           /\ v2 # << >> => Len(v2) > 0 /\ Flow!Top = v2[Len(v2)]
<1>1. FlowGraph /\ v2 \in Seq(FlowFrame)
  BY DEF Flow!FlowInv, Flow!TypeOK, Flow!VarsTypeOK, FlowGraph, FlowFrame
<1>2. Len(v2) \in Nat /\ DOMAIN v2 = 1 .. Len(v2) /\ \A i \in 1 .. Len(v2) : v2[i] \in FlowFrame
  BY <1>1
<1>3. v2 # << >> => Len(v2) > 0
  BY <1>1
<1>. QED
  BY <1>1, <1>2, <1>3 DEF FlowFrame, Flow!Top

(* A name that has its value already is passed over.                       *)
LEMMA FlowSkipKeeps ==
    ASSUME Flow!FlowInv, Flow!Resolve, Flow!Skip
    PROVE  Flow!FlowInv'
<1>. DEFINE L == Len(v2)
<1>1. /\ FlowGraph /\ v2 \in Seq(FlowFrame) /\ L \in Nat /\ DOMAIN v2 = 1 .. L
      /\ \A i \in 1 .. L : v2[i].name \in DOMAIN v1 /\ v2[i].at \in Nat
      /\ v2 # << >> /\ L > 0 /\ Flow!Top = v2[L]
  BY FlowGraphHolds DEF Flow!Skip
<1>2. /\ v6 = "vars" /\ UNCHANGED <<v1, v3, v4, v5, v6, v7, v8, v9, v10, v11, v12, v13>>
      /\ v2' = [v2 EXCEPT ![Len(v2)].at = @ + 1]
  BY DEF Flow!Resolve, Flow!Skip
<1>3. /\ v2[L].at <= Len(v1[v2[L].name])
      /\ v1[v2[L].name][v2[L].at] \in DOMAIN v3
  BY <1>1 DEF Flow!Skip, Flow!ToResolve
<1>4. v12 \in -1 .. 1
  BY DEF Flow!FlowInv, Flow!TypeOK, Flow!RunTypeOK
<1>5. Flow!RunTypeOK' /\ Flow!StepsHold' /\ Flow!RowsAreOfThisRun' /\ v7 = "none"
  BY <1>2, <1>4, FlowRest
<1>6. PICK t : t = v2'
  OBVIOUS
<1>7. /\ t \in Seq(FlowFrame) /\ Len(t) = L
      /\ \A i \in 1 .. L :
            /\ t[i].name = v2[i].name
            /\ t[i].at = IF i = L THEN v2[i].at + 1 ELSE v2[i].at
  <2>1. ASSUME NEW u, u = [v2 EXCEPT ![Len(v2)].at = @ + 1]
        PROVE  /\ u \in Seq(FlowFrame) /\ Len(u) = Len(v2)
               /\ \A i \in 1 .. Len(v2) :
                     /\ u[i].name = v2[i].name
                     /\ u[i].at = IF i = Len(v2) THEN v2[i].at + 1 ELSE v2[i].at
    BY <1>1, <2>1, FlowMoved
  <2>. QED
    BY <1>2, <1>6, <2>1
<1>8. Flow!VarsTypeOK'
  <2>1. /\ Len(v2) <= FlowDepth /\ v3 \in [DOMAIN v3 -> SUBSET FlowName]
        /\ DOMAIN v3 \subseteq DOMAIN v1
        /\ \A i \in 1 .. L : v2[i].at \in 1 .. Len(v1[v2[i].name]) + 1
    BY <1>1 DEF Flow!FlowInv, Flow!TypeOK, Flow!VarsTypeOK
  <2>2. \A i \in 1 .. L : t[i].at \in 1 .. Len(v1[t[i].name]) + 1
    <3>1. Len(v1[v2[L].name]) \in Nat
      BY <1>1 DEF FlowGraph
    <3>. QED
      BY <1>1, <1>3, <1>7, <2>1, <3>1
  <2>3. DOMAIN t = 1 .. L
    BY <1>7
  <2>. QED
    BY <1>1, <1>2, <1>6, <1>7, <2>1, <2>2, <2>3 DEF Flow!VarsTypeOK, FlowGraph, FlowFrame
<1>9. Flow!VarsAreRight'
  BY <1>2, <1>5 DEF Flow!VarsAreRight
<1>10. Flow!StackHolds'
  <2>1. /\ \A i \in 1 .. L :
              /\ v2[i].name \notin DOMAIN v3
              /\ \A k \in 1 .. v2[i].at - 1 : v1[v2[i].name][k] \in DOMAIN v3
        /\ \A i, j \in 1 .. L : i < j =>
              v2[i].name # v2[j].name /\ v2[j].name \in Flow!Leads(v2[i].name)
        /\ \A i \in 1 .. L - 1 :
              /\ v2[i].at <= Len(v1[v2[i].name])
              /\ v1[v2[i].name][v2[i].at] = v2[i + 1].name
    BY <1>1 DEF Flow!FlowInv, Flow!StackHolds
  <2>2. DOMAIN t = 1 .. L
    BY <1>7
  <2>3. \A i \in 1 .. L :
           /\ t[i].name \notin DOMAIN v3
           /\ \A k \in 1 .. t[i].at - 1 : v1[t[i].name][k] \in DOMAIN v3
    <3>1. ASSUME NEW i \in 1 .. L, i # L
          PROVE  /\ t[i].name \notin DOMAIN v3
                 /\ \A k \in 1 .. t[i].at - 1 : v1[t[i].name][k] \in DOMAIN v3
      BY <1>7, <2>1, <3>1
    <3>2. v2[L].name \notin DOMAIN v3
          /\ \A k \in 1 .. v2[L].at : v1[v2[L].name][k] \in DOMAIN v3
      <4>1. v2[L].at \in Nat /\ L \in 1 .. L
        BY <1>1
      <4>2. ASSUME NEW k \in 1 .. v2[L].at PROVE v1[v2[L].name][k] \in DOMAIN v3
        <5>1. k \in 1 .. v2[L].at - 1 \/ k = v2[L].at
          BY <4>1
        <5>. QED
          BY <1>3, <2>1, <4>1, <5>1
      <4>. QED
        BY <2>1, <4>1, <4>2
    <3>3. t[L].name = v2[L].name /\ t[L].at - 1 = v2[L].at
      <4>1. L \in 1 .. L /\ v2[L].at \in Nat
        BY <1>1
      <4>2. t[L].name = v2[L].name /\ t[L].at = v2[L].at + 1
        BY <1>7, <4>1
      <4>. QED
        BY <4>1, <4>2
    <3>. QED
      BY <3>1, <3>2, <3>3
  <2>4. \A i, j \in 1 .. L : i < j =>
           t[i].name # t[j].name /\ t[j].name \in Flow!Leads(t[i].name)'
    BY <1>2, <1>7, <2>1, FlowTextsStay
  <2>5. ASSUME NEW i \in 1 .. L - 1
        PROVE  t[i].at <= Len(v1[t[i].name]) /\ v1[t[i].name][t[i].at] = t[i + 1].name
    <3>1. i \in 1 .. L /\ i # L /\ i + 1 \in 1 .. L
      <4>1. L \in Nat
        BY <1>1
      <4>. HIDE DEF L
      <4>. QED
        BY <4>1
    <3>2. t[i].name = v2[i].name /\ t[i].at = v2[i].at /\ t[i + 1].name = v2[i + 1].name
      <4>1. t[i].name = v2[i].name /\ t[i + 1].name = v2[i + 1].name
        BY <1>7, <3>1, Zenon
      <4>2. t[i].at = v2[i].at
        BY <1>7, <3>1, Zenon
      <4>. QED
        BY <4>1, <4>2
    <3>3. v2[i].at <= Len(v1[v2[i].name]) /\ v1[v2[i].name][v2[i].at] = v2[i + 1].name
      BY <2>1
    <3>4. v1[t[i].name] = v1[v2[i].name]
      BY <3>2
    <3>. QED
      BY <3>2, <3>3, <3>4
  <2>. QED
    BY <1>2, <1>6, <1>7, <2>2, <2>3, <2>4, <2>5 DEF Flow!StackHolds
<1>11. Flow!ValuesHold'
  BY <1>2, FlowTextsStay DEF Flow!FlowInv, Flow!ValuesHold
<1>. QED
  BY <1>5, <1>8, <1>9, <1>10, <1>11 DEF Flow!FlowInv, Flow!TypeOK

(* A refusal for a reason that holds.                                      *)
LEMMA FlowFailKeeps ==
    ASSUME Flow!FlowInv, v6 = "vars", NEW reason \in {"cycle", "undefined", "depth"},
           Flow!Fail(reason), UNCHANGED <<v1, v2, v3, v4, v5, v8, v9, v10, v11, v13>>,
           /\ reason = "cycle" => Flow!Cycle
           /\ reason = "undefined" => Flow!Dangling
           /\ reason = "depth" => Flow!TooDeep
    PROVE  Flow!FlowInv'
<1>1. v7' = reason /\ v6' = "over" /\ v12' = 1
  BY DEF Flow!Fail
<1>2. Flow!RunTypeOK' /\ Flow!StepsHold' /\ Flow!RowsAreOfThisRun'
  BY <1>1, FlowRest
<1>3. Flow!VarsTypeOK'
  BY DEF Flow!FlowInv, Flow!TypeOK, Flow!VarsTypeOK
<1>4. Flow!StackHolds'
  BY FlowTextsStay DEF Flow!FlowInv, Flow!StackHolds
<1>5. Flow!ValuesHold'
  BY <1>1, FlowTextsStay DEF Flow!FlowInv, Flow!ValuesHold
<1>6. Flow!VarsAreRight'
  <2>1. Flow!Cycle' <=> Flow!Cycle
    BY FlowTextsStay DEF Flow!Cycle
  <2>2. Flow!Dangling' <=> Flow!Dangling
    BY FlowTextsStay DEF Flow!Dangling
  <2>3. Flow!TooDeep' <=> Flow!TooDeep
    BY FlowTextsStay DEF Flow!TooDeep
  <2>. QED
    BY <1>1, <2>1, <2>2, <2>3 DEF Flow!VarsAreRight
<1>. QED
  BY <1>2, <1>3, <1>4, <1>5, <1>6 DEF Flow!FlowInv, Flow!TypeOK

(* The name that is met: at the top of the stack or referred to from it.   *)
LEMMA FlowMet ==
    ASSUME Flow!FlowInv, NEW n \in Flow!ToResolve
    PROVE  \/ v2 = << >> /\ n \in DOMAIN v1
           \/ /\ v2 # << >> /\ n \in Flow!Refs(v2[Len(v2)].name)
              /\ v2[Len(v2)].at <= Len(v1[v2[Len(v2)].name])
              /\ n = v1[v2[Len(v2)].name][v2[Len(v2)].at]
<1>1. CASE v2 = << >>
  BY <1>1 DEF Flow!ToResolve
<1>2. CASE v2 # << >>
  <2>1. /\ Flow!Top.at <= Len(v1[Flow!Top.name]) /\ n = v1[Flow!Top.name][Flow!Top.at]
    BY <1>2 DEF Flow!ToResolve
  <2>2. Flow!Top = v2[Len(v2)] /\ Flow!Top.name \in DOMAIN v1 /\ FlowGraph
    BY <1>2, FlowGraphHolds
  <2>3. Flow!Top.at \in 1 .. Len(v1[Flow!Top.name]) + 1
    BY <1>2, FlowGraphHolds DEF Flow!FlowInv, Flow!TypeOK, Flow!VarsTypeOK
  <2>4. v1[Flow!Top.name] \in Seq(FlowName)
    BY <2>2 DEF FlowGraph
  <2>5. Flow!Top.at \in DOMAIN v1[Flow!Top.name]
    BY <2>1, <2>3, <2>4
  <2>6. n \in Flow!Refs(Flow!Top.name)
    BY <2>1, <2>5 DEF Flow!Refs
  <2>. QED
    BY <1>2, <2>1, <2>2, <2>6
<1>. QED
  BY <1>1, <1>2

(* What a name on the stack leads to.                                      *)
LEMMA FlowStackLeads ==
    ASSUME Flow!FlowInv, v2 # << >>, NEW n \in Flow!Refs(v2[Len(v2)].name),
           NEW i \in 1 .. Len(v2)
    PROVE  n \in Flow!Leads(v2[i].name)
<1>1. /\ FlowGraph /\ Len(v2) \in Nat /\ DOMAIN v2 = 1 .. Len(v2) /\ Len(v2) > 0
      /\ \A k \in 1 .. Len(v2) : v2[k].name \in DOMAIN v1
  BY FlowGraphHolds
<1>2. CASE i = Len(v2)
  BY <1>1, <1>2, FlowLeadsFirst
<1>3. CASE i < Len(v2)
  <2>1. v2[Len(v2)].name \in Flow!Leads(v2[i].name)
    BY <1>1, <1>3 DEF Flow!FlowInv, Flow!StackHolds
  <2>2. v2[i].name \in DOMAIN v1 /\ v2[Len(v2)].name \in DOMAIN v1
    BY <1>1
  <2>3. Flow!Refs(v2[Len(v2)].name) \subseteq Flow!Leads(v2[i].name)
    BY <1>1, <2>1, <2>2, FlowLeadsOn
  <2>. QED
    BY <2>3
<1>4. Len(v2) \in Nat
  BY <1>1
<1>5. i = Len(v2) \/ i < Len(v2)
  BY <1>4
<1>. QED
  BY <1>2, <1>3, <1>5, Zenon

(* A name that is met again while it is being resolved leads to itself.    *)
LEMMA FlowCycleIsOne ==
    ASSUME Flow!FlowInv, NEW n \in Flow!ToResolve, Flow!Cyclic(n)
    PROVE  Flow!Cycle
<1>1. /\ Len(v2) \in Nat /\ DOMAIN v2 = 1 .. Len(v2)
      /\ \A k \in 1 .. Len(v2) : v2[k].name \in DOMAIN v1
  BY FlowGraphHolds
<1>2. PICK i \in 1 .. Len(v2) : n = v2[i].name
  BY <1>1 DEF Flow!Cyclic, Flow!Stacked
<1>3. v2 # << >>
  BY <1>2
<1>4. n \in Flow!Refs(v2[Len(v2)].name)
  BY <1>3, FlowMet
<1>5. n \in Flow!Leads(n) /\ n \in DOMAIN v1
  BY <1>1, <1>2, <1>3, <1>4, FlowStackLeads
<1>. QED
  BY <1>5 DEF Flow!Cycle

(* A name that is not there and is met is referred to.                     *)
LEMMA FlowDanglingIsOne ==
    ASSUME Flow!FlowInv, NEW n \in Flow!ToResolve, n \notin DOMAIN v1
    PROVE  Flow!Dangling
<1>1. v2 # << >> /\ n \in Flow!Refs(v2[Len(v2)].name)
  BY FlowMet
<1>2. v2[Len(v2)].name \in DOMAIN v1
  BY <1>1, FlowGraphHolds
<1>. QED
  BY <1>1, <1>2 DEF Flow!Dangling

(* The names on a stack that is full, and the one met, are a chain that is *)
(* too long.                                                               *)
LEMMA FlowDepthIsTooMuch ==
    ASSUME Flow!FlowInv, NEW n \in Flow!ToResolve, n \in DOMAIN v1, Len(v2) >= FlowDepth
    PROVE  Flow!TooDeep
<1>. DEFINE chain == [i \in 0 .. FlowDepth |-> IF i < FlowDepth THEN v2[i + 1].name ELSE n]
<1>1. /\ FlowGraph /\ Len(v2) \in Nat /\ DOMAIN v2 = 1 .. Len(v2)
      /\ \A k \in 1 .. Len(v2) : v2[k].name \in DOMAIN v1 /\ v2[k].at \in Nat
  BY FlowGraphHolds
<1>2. FlowDepth \in Nat /\ FlowDepth > 0 /\ Len(v2) = FlowDepth
  BY <1>1, FlowAssumption DEF Flow!FlowInv, Flow!TypeOK, Flow!VarsTypeOK
<1>3. chain \in [0 .. FlowDepth -> DOMAIN v1]
  BY <1>1, <1>2
<1>4. ASSUME NEW i \in 1 .. FlowDepth PROVE chain[i] \in Flow!Refs(chain[i - 1])
  <2>1. chain[i - 1] = v2[i].name
    BY <1>2
  <2>2. CASE i = FlowDepth
    <3>1. chain[i] = n /\ v2 # << >>
      BY <1>2, <2>2
    <3>2. n \in Flow!Refs(v2[Len(v2)].name)
      BY <3>1, FlowMet
    <3>. QED
      BY <1>2, <2>1, <2>2, <3>1, <3>2
  <2>3. CASE i < FlowDepth
    <3>1. chain[i] = v2[i + 1].name
      BY <1>2, <2>3
    <3>2. i \in 1 .. Len(v2) - 1
      BY <1>2, <2>3
    <3>3. v2[i].at <= Len(v1[v2[i].name]) /\ v1[v2[i].name][v2[i].at] = v2[i + 1].name
      BY <3>2 DEF Flow!FlowInv, Flow!StackHolds
    <3>4. v2[i].at \in 1 .. Len(v1[v2[i].name]) + 1 /\ v1[v2[i].name] \in Seq(FlowName)
      BY <1>1, <1>2 DEF Flow!FlowInv, Flow!TypeOK, Flow!VarsTypeOK, FlowGraph
    <3>5. v2[i].at \in DOMAIN v1[v2[i].name]
      BY <3>3, <3>4
    <3>. QED
      BY <2>1, <3>1, <3>3, <3>5 DEF Flow!Refs
  <2>. QED
    BY <1>2, <2>2, <2>3
<1>. HIDE DEF chain
<1>. QED
  BY <1>3, <1>4 DEF Flow!TooDeep

(* A name is put on the stack, or the file is refused for a reason that    *)
(* holds.                                                                  *)
LEMMA FlowEnterKeeps ==
    ASSUME Flow!FlowInv, Flow!Resolve, Flow!Enter
    PROVE  Flow!FlowInv'
<1>1. v6 = "vars" /\ UNCHANGED <<v1, v4, v5, v8, v9, v10, v11, v13>>
  BY DEF Flow!Resolve
<1>2. PICK n \in Flow!ToResolve \ DOMAIN v3 :
         IF Flow!Cyclic(n) THEN Flow!Fail("cycle") /\ UNCHANGED <<v2, v3>>
         ELSE IF n \notin DOMAIN v1 THEN Flow!Fail("undefined") /\ UNCHANGED <<v2, v3>>
         ELSE IF Len(v2) >= FlowDepth
              THEN Flow!Fail("depth") /\ UNCHANGED <<v2, v3>>
              ELSE /\ v2' = Append(v2, [name |-> n, at |-> 1])
                   /\ UNCHANGED <<v3, v6, v7, v12>>
  BY DEF Flow!Enter
<1>3. CASE Flow!Cyclic(n)
  BY <1>1, <1>2, <1>3, FlowFailKeeps, FlowCycleIsOne
<1>4. CASE ~Flow!Cyclic(n) /\ n \notin DOMAIN v1
  BY <1>1, <1>2, <1>4, FlowFailKeeps, FlowDanglingIsOne
<1>5. CASE ~Flow!Cyclic(n) /\ n \in DOMAIN v1 /\ Len(v2) >= FlowDepth
  BY <1>1, <1>2, <1>5, FlowFailKeeps, FlowDepthIsTooMuch
<1>6. CASE ~Flow!Cyclic(n) /\ n \in DOMAIN v1 /\ ~(Len(v2) >= FlowDepth)
  <2>. DEFINE L == Len(v2)
  <2>1. /\ FlowGraph /\ v2 \in Seq(FlowFrame) /\ L \in Nat /\ DOMAIN v2 = 1 .. L
        /\ \A i \in 1 .. L : v2[i].name \in DOMAIN v1 /\ v2[i].at \in Nat
    BY FlowGraphHolds
  <2>2. v2' = Append(v2, [name |-> n, at |-> 1]) /\ UNCHANGED <<v3, v6, v7, v12>>
    BY <1>2, <1>6
  <2>3. v12 \in -1 .. 1
    BY DEF Flow!FlowInv, Flow!TypeOK, Flow!RunTypeOK
  <2>4. Flow!RunTypeOK' /\ Flow!StepsHold' /\ Flow!RowsAreOfThisRun' /\ v7 = "none"
    BY <1>1, <2>2, <2>3, FlowRest
  <2>5. [name |-> n, at |-> 1] \in FlowFrame
    BY <1>6 DEF FlowFrame
  <2>6. PICK t : t = v2'
    OBVIOUS
  <2>7. /\ t \in Seq(FlowFrame) /\ Len(t) = L + 1 /\ t[L + 1] = [name |-> n, at |-> 1]
        /\ \A i \in 1 .. L : t[i] = v2[i]
    <3>1. ASSUME NEW u, u = Append(v2, [name |-> n, at |-> 1])
          PROVE  /\ u \in Seq(FlowFrame) /\ Len(u) = Len(v2) + 1
                 /\ u[Len(u)] = [name |-> n, at |-> 1]
                 /\ \A i \in 1 .. Len(v2) : u[i] = v2[i]
      BY <2>1, <2>5, <3>1, FlowPushed
    <3>. QED
      BY <2>2, <2>6, <3>1
  <2>8. t[L + 1].name = n /\ t[L + 1].at = 1
    BY <2>7
  <2>9. Flow!VarsTypeOK'
    <3>1. /\ Len(v2) <= FlowDepth /\ v3 \in [DOMAIN v3 -> SUBSET FlowName]
          /\ DOMAIN v3 \subseteq DOMAIN v1
          /\ \A i \in 1 .. L : v2[i].at \in 1 .. Len(v1[v2[i].name]) + 1
      BY <2>1 DEF Flow!FlowInv, Flow!TypeOK, Flow!VarsTypeOK
    <3>2. FlowDepth \in Nat /\ Len(t) <= FlowDepth
      BY <1>6, <2>1, <2>7, FlowAssumption
    <3>3. DOMAIN t = 1 .. L + 1
      BY <2>1, <2>7
    <3>4. \A i \in 1 .. L + 1 : t[i].at \in 1 .. Len(v1[t[i].name]) + 1
      <4>1. Len(v1[n]) \in Nat
        BY <1>6, <2>1 DEF FlowGraph
      <4>. QED
        BY <2>1, <2>7, <2>8, <3>1, <4>1
    <3>. QED
      BY <1>1, <2>1, <2>2, <2>6, <2>7, <3>1, <3>2, <3>3, <3>4
      DEF Flow!VarsTypeOK, FlowGraph, FlowFrame
  <2>10. Flow!VarsAreRight'
    BY <1>1, <2>2, <2>4 DEF Flow!VarsAreRight
  <2>11. Flow!StackHolds'
    <3>1. /\ \A i \in 1 .. L :
                /\ v2[i].name \notin DOMAIN v3
                /\ \A k \in 1 .. v2[i].at - 1 : v1[v2[i].name][k] \in DOMAIN v3
          /\ \A i, j \in 1 .. L : i < j =>
                v2[i].name # v2[j].name /\ v2[j].name \in Flow!Leads(v2[i].name)
          /\ \A i \in 1 .. L - 1 :
                /\ v2[i].at <= Len(v1[v2[i].name])
                /\ v1[v2[i].name][v2[i].at] = v2[i + 1].name
      BY <2>1 DEF Flow!FlowInv, Flow!StackHolds
    <3>2. \A i \in 1 .. L : v2[i].name # n /\ n \in Flow!Leads(v2[i].name)
      <4>1. \A i \in 1 .. L : v2[i].name # n
        BY <1>6, <2>1 DEF Flow!Cyclic, Flow!Stacked
      <4>2. ASSUME NEW i \in 1 .. L PROVE n \in Flow!Leads(v2[i].name)
        <5>1. v2 # << >>
          OBVIOUS
        <5>2. n \in Flow!Refs(v2[Len(v2)].name)
          BY <5>1, FlowMet
        <5>. QED
          BY <5>1, <5>2, FlowStackLeads
      <4>. QED
        BY <4>1, <4>2
    <3>3. L > 0 => v2[L].at <= Len(v1[v2[L].name]) /\ v1[v2[L].name][v2[L].at] = n
      <4>1. L > 0 => v2 # << >>
        OBVIOUS
      <4>. QED
        BY <4>1, FlowMet
    <3>4. DOMAIN t = 1 .. L + 1
      BY <2>1, <2>7
    <3>5. \A i \in 1 .. L + 1 :
             /\ t[i].name \notin DOMAIN v3
             /\ \A k \in 1 .. t[i].at - 1 : v1[t[i].name][k] \in DOMAIN v3
      BY <1>2, <2>1, <2>7, <2>8, <3>1
    <3>6. \A i, j \in 1 .. L + 1 : i < j =>
             t[i].name # t[j].name /\ t[j].name \in Flow!Leads(t[i].name)'
      BY <1>1, <2>1, <2>7, <2>8, <3>1, <3>2, FlowTextsStay
    <3>7. ASSUME NEW i \in 1 .. L
          PROVE  t[i].at <= Len(v1[t[i].name]) /\ v1[t[i].name][t[i].at] = t[i + 1].name
      <4>1. t[i] = v2[i]
        BY <2>7
      <4>2. CASE i = L
        BY <2>8, <3>3, <4>1, <4>2
      <4>3. CASE i # L
        <5>1. L \in Nat /\ i \in 1 .. L - 1 /\ i + 1 \in 1 .. L
          <6>1. \A m \in Nat : \A k \in 1 .. m : k # m => k \in 1 .. m - 1 /\ k + 1 \in 1 .. m
            OBVIOUS
          <6>. HIDE DEF L
          <6>. QED
            BY <2>1, <4>3, <6>1
        <5>2. t[i + 1] = v2[i + 1]
          BY <2>7, <5>1
        <5>. QED
          BY <3>1, <4>1, <5>1, <5>2
      <4>. QED
        BY <4>2, <4>3
    <3>8. 1 .. Len(t) - 1 = 1 .. L
      BY <2>1, <2>7
    <3>9. v1' = v1 /\ v3' = v3 /\ t = v2'
      BY <1>1, <2>2, <2>6
    <3>10. \A i \in DOMAIN v2' :
              /\ v2'[i].name \notin DOMAIN v3'
              /\ \A k \in 1 .. v2'[i].at - 1 : v1'[v2'[i].name][k] \in DOMAIN v3'
      BY <3>4, <3>5, <3>9
    <3>11. \A i, j \in DOMAIN v2' : i < j =>
              v2'[i].name # v2'[j].name /\ v2'[j].name \in Flow!Leads(v2[i].name)'
      BY <3>4, <3>6, <3>9
    <3>12. \A i \in 1 .. Len(v2') - 1 :
              /\ v2'[i].at <= Len(v1'[v2'[i].name])
              /\ v1'[v2'[i].name][v2'[i].at] = v2'[i + 1].name
      BY <3>7, <3>8, <3>9
    <3>. QED
      BY <3>10, <3>11, <3>12 DEF Flow!StackHolds
  <2>12. Flow!ValuesHold'
    BY <1>1, <2>2, FlowTextsStay DEF Flow!FlowInv, Flow!ValuesHold
  <2>. QED
    BY <2>4, <2>9, <2>10, <2>11, <2>12 DEF Flow!FlowInv, Flow!TypeOK
<1>. QED
  BY <1>3, <1>4, <1>5, <1>6

(* The name on top gets its value, which is made of all it leads to.       *)
LEMMA FlowReturnKeeps ==
    ASSUME Flow!FlowInv, Flow!Resolve, Flow!Return
    PROVE  Flow!FlowInv'
<1>. DEFINE L == Len(v2)
            top == v2[L].name
<1>1. /\ FlowGraph /\ v2 \in Seq(FlowFrame) /\ L \in Nat /\ DOMAIN v2 = 1 .. L
      /\ \A i \in 1 .. L : v2[i].name \in DOMAIN v1 /\ v2[i].at \in Nat
      /\ v2 # << >> /\ L > 0 /\ Flow!Top = v2[L]
  BY FlowGraphHolds DEF Flow!Return
<1>2. /\ v6 = "vars" /\ UNCHANGED <<v1, v4, v5, v6, v7, v8, v9, v10, v11, v12, v13>>
      /\ v2' = SubSeq(v2, 1, Len(v2) - 1)
      /\ v3' = [n \in DOMAIN v3 \cup {top} |-> IF n = top THEN Flow!ValueOf(n) ELSE v3[n]]
  BY <1>1 DEF Flow!Resolve, Flow!Return
<1>3. v12 \in -1 .. 1
  BY DEF Flow!FlowInv, Flow!TypeOK, Flow!RunTypeOK
<1>4. Flow!RunTypeOK' /\ Flow!StepsHold' /\ Flow!RowsAreOfThisRun' /\ v7 = "none"
  BY <1>2, <1>3, FlowRest
<1>5. /\ \A i \in 1 .. L :
            /\ v2[i].name \notin DOMAIN v3
            /\ \A k \in 1 .. v2[i].at - 1 : v1[v2[i].name][k] \in DOMAIN v3
      /\ \A i, j \in 1 .. L : i < j =>
            v2[i].name # v2[j].name /\ v2[j].name \in Flow!Leads(v2[i].name)
      /\ \A i \in 1 .. L - 1 :
            /\ v2[i].at <= Len(v1[v2[i].name])
            /\ v1[v2[i].name][v2[i].at] = v2[i + 1].name
  BY <1>1 DEF Flow!FlowInv, Flow!StackHolds
<1>6. /\ L <= FlowDepth /\ v3 \in [DOMAIN v3 -> SUBSET FlowName]
      /\ DOMAIN v3 \subseteq DOMAIN v1
      /\ \A i \in 1 .. L : v2[i].at \in 1 .. Len(v1[v2[i].name]) + 1
  BY <1>1 DEF Flow!FlowInv, Flow!TypeOK, Flow!VarsTypeOK
<1>7. Flow!Refs(top) \subseteq DOMAIN v3
  <2>1. ~(v2[L].at <= Len(v1[top]))
    BY <1>1 DEF Flow!Return, Flow!ToResolve
  <2>2. v1[top] \in Seq(FlowName) /\ Len(v1[top]) \in Nat /\ DOMAIN v1[top] = 1 .. Len(v1[top])
    BY <1>1 DEF FlowGraph
  <2>3. \A k \in DOMAIN v1[top] : k \in 1 .. v2[L].at - 1
    BY <1>1, <1>6, <2>1, <2>2
  <2>4. \A k \in DOMAIN v1[top] : v1[top][k] \in DOMAIN v3
    BY <1>1, <1>5, <2>3
  <2>. QED
    BY <2>4 DEF Flow!Refs
<1>8. \A n \in DOMAIN v3 :
         /\ Flow!Refs(n) \subseteq DOMAIN v3
         /\ n \notin Flow!Leads(n) /\ v3[n] = {n} \cup Flow!Leads(n)
  BY DEF Flow!FlowInv, Flow!ValuesHold
<1>9. Flow!ValueOf(top) = {top} \cup Flow!Leads(top)
  <2>1. UNION {v3[m] : m \in Flow!Refs(top)} = Flow!Leads(top)
    <3>1. FlowGraph /\ top \in DOMAIN v1 /\ DOMAIN v3 \in SUBSET DOMAIN v1
      BY <1>1, <1>6
    <3>2. \A m \in DOMAIN v3 : Flow!Refs(m) \subseteq DOMAIN v3 /\ v3[m] = {m} \cup Flow!Leads(m)
      BY <1>8
    <3>. HIDE DEF top
    <3>. QED
      BY <1>7, <3>1, <3>2, FlowValue
  <2>. QED
    BY <2>1 DEF Flow!ValueOf
<1>10. top \notin DOMAIN v3 /\ top \in DOMAIN v1
  BY <1>1, <1>5
<1>11. top \notin Flow!Leads(top)
  <2>1. DOMAIN v3 \in SUBSET FlowName
    BY <1>1, <1>6 DEF FlowGraph
  <2>2. Flow!Closed(DOMAIN v3)
    BY <1>8 DEF Flow!Closed
  <2>. QED
    BY <1>7, <1>10, <2>1, <2>2, FlowLeadsWithin
<1>12. /\ DOMAIN v3' = DOMAIN v3 \cup {top}
       /\ v3'[top] = {top} \cup Flow!Leads(top)
       /\ \A n \in DOMAIN v3 : v3'[n] = v3[n]
  BY <1>2, <1>9, <1>10
<1>13. PICK t : t = v2'
  OBVIOUS
<1>14. /\ t \in Seq(FlowFrame) /\ Len(t) = L - 1
       /\ \A i \in 1 .. L - 1 : t[i] = v2[i]
  <2>1. ASSUME NEW u, u = SubSeq(v2, 1, Len(v2) - 1)
        PROVE  /\ u \in Seq(FlowFrame) /\ Len(u) = Len(v2) - 1
               /\ \A i \in 1 .. Len(v2) - 1 : u[i] = v2[i]
    BY <1>1, <2>1, FlowPopped
  <2>. QED
    BY <1>2, <1>13, <2>1
<1>15. DOMAIN t = 1 .. L - 1
  BY <1>1, <1>14
<1>16. Flow!VarsTypeOK'
  <2>1. Flow!Leads(top) \subseteq FlowName /\ top \in FlowName
    BY <1>1, <1>10 DEF Flow!Leads, FlowGraph
  <2>2. \A n \in DOMAIN v3' : v3'[n] \in SUBSET FlowName
    BY <1>6, <1>12, <2>1
  <2>3. v3' = [n \in DOMAIN v3' |-> v3'[n]]
    BY <1>2
  <2>4. v3' \in [DOMAIN v3' -> SUBSET FlowName] /\ DOMAIN v3' \subseteq DOMAIN v1
    BY <1>6, <1>10, <1>12, <2>2, <2>3
  <2>5. FlowDepth \in Nat /\ Len(t) <= FlowDepth
    BY <1>1, <1>6, <1>14, FlowAssumption
  <2>6. \A i \in 1 .. L - 1 : t[i].at \in 1 .. Len(v1[t[i].name]) + 1
    BY <1>1, <1>6, <1>14
  <2>. QED
    BY <1>1, <1>2, <1>13, <1>14, <1>15, <2>4, <2>5, <2>6
    DEF Flow!VarsTypeOK, FlowGraph, FlowFrame
<1>17. Flow!VarsAreRight'
  BY <1>2, <1>4 DEF Flow!VarsAreRight
<1>18. Flow!StackHolds'
  <2>1. \A i \in 1 .. L - 1 :
           /\ t[i].name \notin DOMAIN v3'
           /\ \A k \in 1 .. t[i].at - 1 : v1[t[i].name][k] \in DOMAIN v3'
    BY <1>1, <1>5, <1>12, <1>14
  <2>2. \A i, j \in 1 .. L - 1 : i < j =>
           t[i].name # t[j].name /\ t[j].name \in Flow!Leads(t[i].name)'
    BY <1>1, <1>2, <1>5, <1>14, FlowTextsStay
  <2>3. ASSUME NEW i \in 1 .. (L - 1) - 1
        PROVE  t[i].at <= Len(v1[t[i].name]) /\ v1[t[i].name][t[i].at] = t[i + 1].name
    <3>1. i \in 1 .. L - 1 /\ i + 1 \in 1 .. L - 1
      BY <1>1
    <3>2. t[i] = v2[i] /\ t[i + 1] = v2[i + 1]
      BY <1>14, <3>1
    <3>. QED
      BY <1>5, <3>1, <3>2
  <2>4. v1' = v1 /\ t = v2'
    BY <1>2, <1>13
  <2>5. \A i \in DOMAIN v2' :
           /\ v2'[i].name \notin DOMAIN v3'
           /\ \A k \in 1 .. v2'[i].at - 1 : v1'[v2'[i].name][k] \in DOMAIN v3'
    BY <1>15, <2>1, <2>4
  <2>6. \A i, j \in DOMAIN v2' : i < j =>
           v2'[i].name # v2'[j].name /\ v2'[j].name \in Flow!Leads(v2[i].name)'
    BY <1>15, <2>2, <2>4
  <2>7. \A i \in 1 .. Len(v2') - 1 :
           /\ v2'[i].at <= Len(v1'[v2'[i].name])
           /\ v1'[v2'[i].name][v2'[i].at] = v2'[i + 1].name
    BY <1>14, <2>3, <2>4
  <2>. QED
    BY <2>5, <2>6, <2>7 DEF Flow!StackHolds
<1>19. Flow!ValuesHold'
  <2>1. ASSUME NEW n \in DOMAIN v3'
        PROVE  /\ Flow!Refs(n)' \subseteq DOMAIN v3'
               /\ n \notin Flow!Leads(n)' /\ v3'[n] = {n} \cup Flow!Leads(n)'
    <3>1. Flow!Refs(n)' = Flow!Refs(n) /\ Flow!Leads(n)' = Flow!Leads(n)
      BY <1>2, FlowTextsStay
    <3>2. CASE n = top
      BY <1>7, <1>11, <1>12, <3>1, <3>2
    <3>3. CASE n \in DOMAIN v3
      BY <1>8, <1>12, <3>1, <3>3
    <3>. QED
      BY <1>12, <3>2, <3>3
  <2>. QED
    BY <1>2, <2>1 DEF Flow!ValuesHold
<1>. QED
  BY <1>4, <1>16, <1>17, <1>18, <1>19 DEF Flow!FlowInv, Flow!TypeOK

(* What a sequence is, for records that are not to be looked into.         *)
LEMMA FlowSequence ==
    ASSUME NEW Q, NEW s \in Seq(Q)
    PROVE  /\ Len(s) \in Nat /\ DOMAIN s = 1 .. Len(s) /\ \A i \in DOMAIN s : s[i] \in Q
           /\ s \in Seq({s[i] : i \in DOMAIN s}) /\ (Len(s) = 0 => s = << >>)
<1>1. Len(s) \in Nat /\ DOMAIN s = 1 .. Len(s) /\ s = [i \in 1 .. Len(s) |-> s[i]]
      /\ \A i \in DOMAIN s : s[i] \in Q
  OBVIOUS
<1>2. \A i \in 1 .. Len(s) : s[i] \in {s[k] : k \in DOMAIN s}
  BY <1>1
<1>3. s \in Seq({s[i] : i \in DOMAIN s})
  BY <1>1, <1>2, SequenceOf
<1>4. Len(s) = 0 => s = << >>
  OBVIOUS
<1>. QED
  BY <1>1, <1>3, <1>4

(* The steps of a file that has been parsed.                               *)
LEMMA FlowSteps ==
    ASSUME Flow!FlowInv
    PROVE  /\ v4.steps \in Seq({v4.steps[i] : i \in DOMAIN v4.steps})
           /\ DOMAIN v4.steps = 1 .. Len(v4.steps)
           /\ \A i \in DOMAIN v4.steps :
                 /\ v4.steps[i].onError \in {"abort", "continue"}
                 /\ v4.steps[i].file \in FlowFailFile
<1>1. v4 \in FlowFiles
  BY DEF Flow!FlowInv, Flow!TypeOK, Flow!RunTypeOK
<1>2. PICK Q : Q = [flow : DOMAIN v4.names, command : STRING, onError : {"abort", "continue"},
                    flowOnError : {"abort", "continue"}, file : FlowFailFile]
  OBVIOUS
<1>3. \A q \in Q : q.onError \in {"abort", "continue"} /\ q.file \in FlowFailFile
  BY <1>2
<1>4. v4.steps \in Seq(Q)
  BY <1>1, <1>2, FlowAssumption
<1>. QED
  BY <1>3, <1>4, FlowSequence

(* The steps of the flows asked for are taken, in their order.             *)
LEMMA FlowSelectKeeps ==
    ASSUME Flow!FlowInv, Flow!Select
    PROVE  Flow!FlowInv'
<1>1. /\ v6 = "vars" /\ v2 = << >> /\ DOMAIN v3 = DOMAIN v1
      /\ UNCHANGED <<v1, v2, v3, v4, v8, v9, v10, v11, v13>>
  BY DEF Flow!Select
<1>2. /\ v7 = "none" /\ v5 = << >> /\ v8 = << >> /\ v9 = << >> /\ v11 = FALSE
  <2>1. v7 = "none" /\ v5 = << >>
    BY <1>1 DEF Flow!FlowInv, Flow!StepsHold
  <2>2. /\ v8 \in Seq([step : {v5[i] : i \in DOMAIN v5}, ok : BOOLEAN, rows : {0, 1}])
        /\ v9 \in Seq(Flow!Fates) /\ Len(v8) <= Len(v5) /\ Len(v9) = Len(v8)
        /\ v11 \in BOOLEAN
    BY DEF Flow!FlowInv, Flow!TypeOK, Flow!RunTypeOK
  <2>3. Len(v5) = 0
    BY <2>1
  <2>4. Len(v8) = 0 /\ Len(v9) = 0
    BY <2>2, <2>3
  <2>5. v8 = << >> /\ v9 = << >>
    BY <2>2, <2>4
  <2>6. ~v11
    BY <2>5 DEF Flow!FlowInv, Flow!StepsHold
  <2>. QED
    BY <2>1, <2>2, <2>5, <2>6
<1>3. \/ /\ v7' \in {"flow", "no such flow"} /\ v6' = "over" /\ v12' = 1 /\ v5' = v5
      \/ /\ v6' = "run" /\ v7' = v7 /\ v12' = v12
         /\ \E asked : v5' = Flow!ItemsAt(v4.steps, Flow!StepsOf(asked))
      \/ v6' = "over" /\ v12' = 0 /\ v5' = v5 /\ v7' = v7
  BY DEF Flow!Select, Flow!Fail
<1>4. v5' \in Seq({v4.steps[i] : i \in DOMAIN v4.steps})
  <2>. DEFINE R == {v4.steps[i] : i \in DOMAIN v4.steps}
  <2>1. CASE v5' = v5
    BY <2>1 DEF Flow!FlowInv, Flow!TypeOK, Flow!RunTypeOK
  <2>2. CASE \E asked : v5' = Flow!ItemsAt(v4.steps, Flow!StepsOf(asked))
    <3>1. PICK asked : v5' = Flow!ItemsAt(v4.steps, Flow!StepsOf(asked))
      BY <2>2
    <3>3. DOMAIN v4.steps = 1 .. Len(v4.steps) /\ v4.steps \in Seq(R)
      BY FlowSteps
    <3>4. Flow!StepsOf(asked) \in SUBSET (1 .. Len(v4.steps))
      BY <3>3 DEF Flow!StepsOf
    <3>. HIDE DEF R
    <3>5. ItemsAt(v4.steps, Flow!StepsOf(asked)) \in Seq(R)
      BY <3>3, <3>4, ItemsKept
    <3>. QED
      BY <3>1, <3>5, FlowCounts DEF R
  <2>. QED
    BY <1>3, <2>1, <2>2
<1>5. Flow!RunTypeOK'
  <2>1. /\ v4 \in FlowFiles /\ v12 \in -1 .. 1 /\ v10 \in [FlowFailFile -> {0, 1}]
        /\ v13 \in 0 .. FlowFaults
    BY DEF Flow!FlowInv, Flow!TypeOK, Flow!RunTypeOK
  <2>2. /\ v6' \in {"vars", "run", "over"} /\ v12' \in -1 .. 1
        /\ v7' \in {"none", "cycle", "undefined", "depth", "flow", "no such flow"}
    <3>1. v6' \in {"vars", "run", "over"}
      BY <1>3
    <3>2. v12' \in -1 .. 1
      <4>1. v12' = 0 \/ v12' = 1 \/ v12' = v12
        BY <1>3, Zenon
      <4>. QED
        BY <2>1, <4>1
    <3>3. v7' \in {"none", "cycle", "undefined", "depth", "flow", "no such flow"}
      BY <1>2, <1>3
    <3>. QED
      BY <3>1, <3>2, <3>3
  <2>3. \A S : << >> \in Seq(S) /\ Len(<< >>) = 0
    OBVIOUS
  <2>4. Len(v5') \in Nat
    BY <1>4
  <2>5. /\ v8' \in Seq([step : {v5'[i] : i \in DOMAIN v5'}, ok : BOOLEAN, rows : {0, 1}])
        /\ v9' \in Seq(Flow!Fates)' /\ Len(v8') <= Len(v5') /\ Len(v9') = Len(v8')
    BY <1>1, <1>2, <2>3, <2>4
  <2>. QED
    BY <1>1, <1>2, <1>4, <2>1, <2>2, <2>5 DEF Flow!RunTypeOK
<1>6. Flow!VarsTypeOK'
  BY <1>1 DEF Flow!FlowInv, Flow!TypeOK, Flow!VarsTypeOK
<1>7. Flow!StackHolds'
  BY <1>1, FlowTextsStay DEF Flow!FlowInv, Flow!StackHolds
<1>8. Flow!ValuesHold'
  BY <1>1, FlowTextsStay DEF Flow!FlowInv, Flow!ValuesHold
<1>9. Flow!VarsAreRight'
  <2>1. \A n \in DOMAIN v1 :
           /\ Flow!Refs(n) \subseteq DOMAIN v1
           /\ n \notin Flow!Leads(n) /\ v3[n] = {n} \cup Flow!Leads(n)
    BY <1>1 DEF Flow!FlowInv, Flow!ValuesHold
  <2>2. ~Flow!Cycle' /\ ~Flow!Dangling'
    BY <1>1, <2>1, FlowTextsStay DEF Flow!Cycle, Flow!Dangling
  <2>3. \A n \in DOMAIN v1' : n \in DOMAIN v3' /\ v3'[n] = {n} \cup Flow!Leads(n)'
    BY <1>1, <2>1, FlowTextsStay
  <2>4. v7' \notin {"cycle", "undefined", "depth"}
    BY <1>2, <1>3
  <2>. QED
    BY <2>2, <2>3, <2>4 DEF Flow!VarsAreRight
<1>10. Flow!StepsHold'
  <2>1. /\ v8' = << >> /\ v11' = FALSE /\ DOMAIN v8' = {} /\ Len(v8') = 0
    BY <1>1, <1>2
  <2>2. v6' = "over" /\ v7' = "none" => v5' = << >> /\ v12' = 0
    BY <1>2, <1>3
  <2>3. ~Flow!AnyFailed'
    BY <2>1 DEF Flow!AnyFailed
  <2>4. v6' # "vars"
    BY <1>3
  <2>5. Len(<< >>) = 0
    OBVIOUS
  <2>. QED
    BY <2>1, <2>2, <2>3, <2>4, <2>5 DEF Flow!StepsHold
<1>11. Flow!RowsAreOfThisRun'
  <2>1. DOMAIN v8' = {}
    BY <1>1, <1>2
  <2>. QED
    BY <2>1 DEF Flow!RowsAreOfThisRun
<1>. QED
  BY <1>5, <1>6, <1>7, <1>8, <1>9, <1>10, <1>11 DEF Flow!FlowInv, Flow!TypeOK

(* The variables are left alone once the steps run.                        *)
LEMMA FlowVarsStay ==
    ASSUME Flow!FlowInv, UNCHANGED <<v1, v2, v3, v7>>, v6' = "run" => v6 = "run"
    PROVE  Flow!VarsTypeOK' /\ Flow!StackHolds' /\ Flow!ValuesHold' /\ Flow!VarsAreRight'
<1>1. Flow!VarsTypeOK'
  BY DEF Flow!FlowInv, Flow!TypeOK, Flow!VarsTypeOK
<1>2. Flow!StackHolds'
  BY FlowTextsStay DEF Flow!FlowInv, Flow!StackHolds
<1>3. Flow!ValuesHold'
  BY FlowTextsStay DEF Flow!FlowInv, Flow!ValuesHold
<1>4. Flow!VarsAreRight'
  <2>1. Flow!Cycle' <=> Flow!Cycle
    BY FlowTextsStay DEF Flow!Cycle
  <2>2. Flow!Dangling' <=> Flow!Dangling
    BY FlowTextsStay DEF Flow!Dangling
  <2>3. Flow!TooDeep' <=> Flow!TooDeep
    BY FlowTextsStay DEF Flow!TooDeep
  <2>4. Flow!VarsAreRight
    BY DEF Flow!FlowInv
  <2>. QED
    BY <2>1, <2>2, <2>3, <2>4, FlowTextsStay DEF Flow!VarsAreRight
<1>. QED
  BY <1>1, <1>2, <1>3, <1>4

(* The steps to run and those that have run.                               *)
LEMMA FlowSelected ==
    ASSUME Flow!FlowInv
    PROVE  /\ Len(v5) \in Nat /\ DOMAIN v5 = 1 .. Len(v5)
           /\ \A i \in 1 .. Len(v5) :
                 v5[i].onError \in {"abort", "continue"} /\ v5[i].file \in FlowFailFile
           /\ Len(v8) \in Nat /\ DOMAIN v8 = 1 .. Len(v8) /\ Len(v8) <= Len(v5)
           /\ \A i \in 1 .. Len(v8) : v8[i].ok \in BOOLEAN
           /\ Len(v9) = Len(v8) /\ DOMAIN v9 = 1 .. Len(v8)
<1>1. /\ v4 \in FlowFiles /\ v5 \in Seq({v4.steps[i] : i \in DOMAIN v4.steps})
      /\ v8 \in Seq([step : {v5[i] : i \in DOMAIN v5}, ok : BOOLEAN, rows : {0, 1}])
      /\ v9 \in Seq(Flow!Fates) /\ Len(v8) <= Len(v5) /\ Len(v9) = Len(v8)
  BY DEF Flow!FlowInv, Flow!TypeOK, Flow!RunTypeOK
<1>2. \A i \in DOMAIN v4.steps :
         v4.steps[i].onError \in {"abort", "continue"} /\ v4.steps[i].file \in FlowFailFile
  BY FlowSteps
<1>3. PICK Q, R : Q = {v4.steps[i] : i \in DOMAIN v4.steps}
                  /\ R = [step : {v5[i] : i \in DOMAIN v5}, ok : BOOLEAN, rows : {0, 1}]
  OBVIOUS
<1>4. /\ \A q \in Q : q.onError \in {"abort", "continue"} /\ q.file \in FlowFailFile
      /\ \A q \in R : q.ok \in BOOLEAN
  BY <1>2, <1>3
<1>5. v5 \in Seq(Q) /\ v8 \in Seq(R)
  BY <1>1, <1>3
<1>6. /\ Len(v5) \in Nat /\ DOMAIN v5 = 1 .. Len(v5) /\ \A i \in DOMAIN v5 : v5[i] \in Q
      /\ Len(v8) \in Nat /\ DOMAIN v8 = 1 .. Len(v8) /\ \A i \in DOMAIN v8 : v8[i] \in R
  BY <1>5, FlowSequence
<1>7. DOMAIN v9 = 1 .. Len(v9)
  BY <1>1
<1>. QED
  BY <1>1, <1>4, <1>6, <1>7

(* A step runs and may stop the flow.                                      *)
LEMMA FlowStepKeeps ==
    ASSUME Flow!FlowInv, NEW fate \in Flow!Fates, Flow!Step(fate)
    PROVE  Flow!FlowInv'
<1>. DEFINE m == Len(v8)
            step == v5[m + 1]
            ended == Flow!ExitCode(step.command, fate) = 0
<1>1. /\ v6 = "run" /\ m < Len(v5) /\ ~v11 /\ UNCHANGED <<v1, v2, v3, v4, v5, v6, v7, v12>>
      /\ v13' = v13 \/ (v13 < FlowFaults /\ v13' = v13 + 1)
      /\ v10' = Flow!Rows(step, fate)
      /\ v8' = Append(v8, [step |-> step, ok |-> ended,
                  rows |-> IF step.command = "import" THEN v10'[step.file] ELSE 0])
      /\ v11' = Flow!Stops(step, ended) /\ v9' = Append(v9, fate)
  BY DEF Flow!Step
<1>2. /\ m \in Nat /\ DOMAIN v8 = 1 .. m /\ Len(v9) = m /\ DOMAIN v9 = 1 .. m
      /\ Len(v5) \in Nat /\ DOMAIN v5 = 1 .. Len(v5) /\ m + 1 \in 1 .. Len(v5)
      /\ step.onError \in {"abort", "continue"} /\ step.file \in FlowFailFile
      /\ \A i \in 1 .. m : v8[i].ok \in BOOLEAN
  BY <1>1, FlowSelected
<1>3. /\ v4 \in FlowFiles /\ v12 \in -1 .. 1 /\ v10 \in [FlowFailFile -> {0, 1}]
      /\ v13 \in 0 .. FlowFaults /\ v5 \in Seq({v4.steps[i] : i \in DOMAIN v4.steps})
      /\ v8 \in Seq([step : {v5[i] : i \in DOMAIN v5}, ok : BOOLEAN, rows : {0, 1}])
      /\ v9 \in Seq(Flow!Fates)
      /\ v7 \in {"none", "cycle", "undefined", "depth", "flow", "no such flow"}
  BY DEF Flow!FlowInv, Flow!TypeOK, Flow!RunTypeOK
<1>4. PICK onDisk, rows, good, result :
         /\ onDisk = v10' /\ good = ended
         /\ rows = IF step.command = "import" THEN onDisk[step.file] ELSE 0
         /\ result = [step |-> step, ok |-> good, rows |-> rows]
  OBVIOUS
<1>5. onDisk \in [FlowFailFile -> {0, 1}]
  BY <1>1, <1>2, <1>3, <1>4 DEF Flow!Rows
<1>6. good \in BOOLEAN /\ rows \in {0, 1}
  BY <1>2, <1>4, <1>5
<1>7. result \in [step : {v5[i] : i \in DOMAIN v5}, ok : BOOLEAN, rows : {0, 1}]
  BY <1>2, <1>4, <1>6
<1>8. v8' = Append(v8, result)
  BY <1>1, <1>4
<1>9. /\ v8' \in Seq([step : {v5[i] : i \in DOMAIN v5}, ok : BOOLEAN, rows : {0, 1}])
      /\ Len(v8') = m + 1 /\ v8'[m + 1] = result
      /\ \A i \in 1 .. m : v8'[i] = v8[i]
  <2>. DEFINE R == [step : {v5[i] : i \in DOMAIN v5}, ok : BOOLEAN, rows : {0, 1}]
  <2>1. v8 \in Seq(R) /\ result \in R
    BY <1>3, <1>7
  <2>. HIDE DEF R
  <2>2. v8' \in Seq(R) /\ Len(v8') = m + 1 /\ v8'[Len(v8')] = result
        /\ \A i \in 1 .. m : v8'[i] = v8[i]
    BY <1>8, <2>1, FlowPushed
  <2>. QED
    BY <2>2 DEF R
<1>10. /\ v9' \in Seq(Flow!Fates) /\ Len(v9') = m + 1 /\ v9'[m + 1] = fate
       /\ \A i \in 1 .. m : v9'[i] = v9[i]
  <2>1. v9' \in Seq(Flow!Fates) /\ Len(v9') = Len(v9) + 1 /\ v9'[Len(v9')] = fate
        /\ \A i \in 1 .. Len(v9) : v9'[i] = v9[i]
    <3>1. PICK R : R = Flow!Fates
      OBVIOUS
    <3>2. fate \in R /\ v9 \in Seq(R) /\ v9' = Append(v9, fate)
      BY <1>1, <1>3, <3>1
    <3>3. v9' \in Seq(R) /\ Len(v9') = Len(v9) + 1 /\ v9'[Len(v9')] = fate
          /\ \A i \in 1 .. Len(v9) : v9'[i] = v9[i]
      BY <3>2, FlowPushed
    <3>. QED
      BY <3>1, <3>3
  <2>. QED
    BY <1>2, <2>1
<1>11. DOMAIN v8' = 1 .. m + 1 /\ DOMAIN v9' = 1 .. m + 1
  BY <1>2, <1>9, <1>10
<1>12. Flow!RunTypeOK'
  <2>1. v13' \in 0 .. FlowFaults /\ v11' \in BOOLEAN
    <3>1. v13' \in 0 .. FlowFaults
      <4>1. v13' = v13 \/ (v13 < FlowFaults /\ v13' = v13 + 1)
        BY <1>1, Zenon
      <4>2. v13 \in 0 .. FlowFaults /\ FlowFaults \in Nat
        BY <1>3, FlowAssumption
      <4>. QED
        BY <4>1, <4>2
    <3>2. v11' \in BOOLEAN
      BY <1>1, Zenon DEF Flow!Stops
    <3>. QED
      BY <3>1, <3>2
  <2>2. v9' \in Seq(Flow!Fates)'
    BY <1>10 DEF Flow!Fates
  <2>3. v8' \in Seq([step : {v5'[i] : i \in DOMAIN v5'}, ok : BOOLEAN, rows : {0, 1}])
    BY <1>1, <1>9
  <2>4. Len(v8') <= Len(v5') /\ Len(v9') = Len(v8') /\ v10' \in [FlowFailFile -> {0, 1}]
    BY <1>1, <1>2, <1>4, <1>5, <1>9, <1>10
  <2>5. v4' \in FlowFiles /\ v5' \in Seq({v4'.steps[i] : i \in DOMAIN v4'.steps})
    BY <1>1, <1>3
  <2>6. v6' \in {"vars", "run", "over"} /\ v12' \in -1 .. 1
        /\ v7' \in {"none", "cycle", "undefined", "depth", "flow", "no such flow"}
    BY <1>1, <1>3
  <2>. QED
    BY <2>1, <2>2, <2>3, <2>4, <2>5, <2>6 DEF Flow!RunTypeOK
<1>13. Flow!VarsTypeOK' /\ Flow!StackHolds' /\ Flow!ValuesHold' /\ Flow!VarsAreRight'
  BY <1>1, FlowVarsStay
<1>14. result.step = step /\ result.ok = good /\ result.rows = rows
  BY <1>4
<1>15. Flow!StepsHold'
  <2>1. \A i \in 1 .. m :
           /\ v8[i].step = v5[i]
           /\ IF i = m THEN v11 = Flow!Stops(v8[i].step, v8[i].ok)
              ELSE ~Flow!Stops(v8[i].step, v8[i].ok)
    BY <1>2 DEF Flow!FlowInv, Flow!StepsHold
  <2>2. \A i \in 1 .. m : v8'[i].step = v5[i] /\ ~Flow!Stops(v8'[i].step, v8'[i].ok)
    BY <1>1, <1>9, <2>1
  <2>3. v8'[m + 1].step = v5[m + 1] /\ v11' = Flow!Stops(v8'[m + 1].step, v8'[m + 1].ok)
    BY <1>1, <1>4, <1>9, <1>14
  <2>4. \A i \in 1 .. m + 1 :
           /\ v8'[i].step = v5'[i]
           /\ IF i = m + 1 THEN v11' = Flow!Stops(v8'[i].step, v8'[i].ok)
              ELSE ~Flow!Stops(v8'[i].step, v8'[i].ok)
    BY <1>1, <1>2, <2>2, <2>3
  <2>5. v8' # << >>
    BY <1>2, <1>9
  <2>6. Flow!Stops(1, TRUE) \in BOOLEAN
    BY DEF Flow!Stops
  <2>. QED
    BY <1>1, <1>9, <1>11, <2>4, <2>5 DEF Flow!StepsHold, Flow!Stops
<1>16. Flow!RowsAreOfThisRun'
  <2>1. ASSUME NEW i \in 1 .. m, v8'[i].step.command = "import", v9'[i] \in {"done", "partial"}
        PROVE  v8'[i].rows = IF v9'[i] = "partial" THEN 1 ELSE 0
    BY <1>2, <1>9, <1>10, <2>1 DEF Flow!FlowInv, Flow!RowsAreOfThisRun
  <2>2. ASSUME step.command = "import", fate \in {"done", "partial"}
        PROVE  rows = IF fate = "partial" THEN 1 ELSE 0
    <3>1. onDisk = [v10 EXCEPT ![step.file] = IF fate = "partial" THEN 1 ELSE 0]
      BY <1>1, <1>4, <2>2 DEF Flow!Rows
    <3>. QED
      BY <1>2, <1>3, <1>4, <2>2, <3>1
  <2>3. ASSUME NEW i \in 1 .. m + 1,
               v8'[i].step.command = "import", v9'[i] \in {"done", "partial"}
        PROVE  v8'[i].rows = IF v9'[i] = "partial" THEN 1 ELSE 0
    <3>1. CASE i \in 1 .. m
      BY <2>1, <2>3, <3>1
    <3>2. CASE i = m + 1
      BY <1>9, <1>10, <1>14, <2>2, <2>3, <3>2
    <3>. QED
      BY <1>2, <3>1, <3>2
  <2>. QED
    BY <1>11, <2>3 DEF Flow!RowsAreOfThisRun
<1>. QED
  BY <1>12, <1>13, <1>15, <1>16 DEF Flow!FlowInv, Flow!TypeOK

(* The run is over: the exit code says whether any step failed.            *)
LEMMA FlowFinishKeeps ==
    ASSUME Flow!FlowInv, Flow!Finish
    PROVE  Flow!FlowInv'
<1>1. /\ v6 = "run" /\ (v11 \/ Len(v8) = Len(v5)) /\ v6' = "over"
      /\ v12' = IF Flow!AnyFailed THEN 1 ELSE 0
      /\ UNCHANGED <<v1, v2, v3, v4, v5, v7, v8, v9, v10, v11, v13>>
  BY DEF Flow!Finish
<1>2. Flow!VarsTypeOK' /\ Flow!StackHolds' /\ Flow!ValuesHold' /\ Flow!VarsAreRight'
  BY <1>1, FlowVarsStay
<1>3. Flow!RunTypeOK'
  <2>1. v12' \in -1 .. 1
    BY <1>1
  <2>. QED
    BY <1>1, <2>1 DEF Flow!FlowInv, Flow!TypeOK, Flow!RunTypeOK
<1>4. Flow!StepsHold'
  <2>1. Flow!AnyFailed' <=> Flow!AnyFailed
    BY <1>1 DEF Flow!AnyFailed
  <2>. QED
    BY <1>1, <2>1 DEF Flow!FlowInv, Flow!StepsHold
<1>5. Flow!RowsAreOfThisRun'
  BY <1>1 DEF Flow!FlowInv, Flow!RowsAreOfThisRun
<1>. QED
  BY <1>2, <1>3, <1>4, <1>5 DEF Flow!FlowInv, Flow!TypeOK

(* Nothing changes.                                                        *)
LEMMA FlowStutterKeeps ==
    ASSUME Flow!FlowInv, UNCHANGED Flow!vars
    PROVE  Flow!FlowInv'
<1>1. UNCHANGED <<v1, v2, v3, v4, v5, v6, v7, v8, v9, v10, v11, v12, v13>>
  BY DEF Flow!vars
<1>2. Flow!VarsTypeOK' /\ Flow!StackHolds' /\ Flow!ValuesHold' /\ Flow!VarsAreRight'
  BY <1>1, FlowVarsStay
<1>3. Flow!RunTypeOK'
  BY <1>1 DEF Flow!FlowInv, Flow!TypeOK, Flow!RunTypeOK
<1>4. Flow!StepsHold'
  <2>1. Flow!AnyFailed' <=> Flow!AnyFailed
    BY <1>1 DEF Flow!AnyFailed
  <2>. QED
    BY <1>1, <2>1 DEF Flow!FlowInv, Flow!StepsHold
<1>5. Flow!RowsAreOfThisRun'
  BY <1>1 DEF Flow!FlowInv, Flow!RowsAreOfThisRun
<1>. QED
  BY <1>2, <1>3, <1>4, <1>5 DEF Flow!FlowInv, Flow!TypeOK

(* It holds when the variables have been read.                             *)
LEMMA FlowInitHolds == ASSUME Flow!Init PROVE Flow!FlowInv
<1>1. PICK declared \in FlowTexts, cli \in Flow!Overrides, env \in Flow!Overrides :
         v1 = Flow!Effective(declared, cli, env)
  BY DEF Flow!Init
<1>2. /\ v4 \in FlowFiles /\ v2 = << >> /\ v3 = << >> /\ v5 = << >> /\ v6 = "vars"
      /\ v7 = "none" /\ v8 = << >> /\ v9 = << >> /\ v10 \in [FlowFailFile -> {0, 1}]
      /\ v11 = FALSE /\ v12 = -1 /\ v13 = 0
  BY DEF Flow!Init
<1>3. \A over \in Flow!Overrides :
         DOMAIN over \subseteq FlowName /\ \A n \in DOMAIN over : over[n] \in Seq(FlowName)
  <2>1. \A over \in Flow!Overrides : over = << >> \/ \E n \in FlowName : over \in [{n} -> FlowOverride]
    BY DEF Flow!Overrides
  <2>2. ASSUME NEW n \in FlowName, NEW over \in [{n} -> FlowOverride]
        PROVE  DOMAIN over \subseteq FlowName /\ \A k \in DOMAIN over : over[k] \in Seq(FlowName)
    BY FlowAssumption
  <2>3. DOMAIN << >> = {}
    OBVIOUS
  <2>4. ASSUME NEW over \in Flow!Overrides
        PROVE  DOMAIN over \subseteq FlowName /\ \A k \in DOMAIN over : over[k] \in Seq(FlowName)
    <3>1. CASE over = << >>
      BY <2>3, <3>1
    <3>2. CASE over # << >>
      BY <2>1, <2>2, <3>2
    <3>. QED
      BY <3>1, <3>2
  <2>. QED
    BY <2>4
<1>4. /\ DOMAIN declared \subseteq FlowName
      /\ \A n \in DOMAIN declared : declared[n] \in Seq(FlowName)
  BY FlowAssumption
<1>5. DOMAIN v1 \subseteq FlowName /\ \A n \in DOMAIN v1 : v1[n] \in Seq(FlowName)
  BY <1>1, <1>3, <1>4 DEF Flow!Effective
<1>6. \A S : << >> \in Seq(S) /\ Len(<< >>) = 0 /\ DOMAIN << >> = {}
  OBVIOUS
<1>7. Flow!VarsTypeOK
  BY <1>2, <1>5, <1>6, FlowAssumption DEF Flow!VarsTypeOK
<1>8. Flow!RunTypeOK
  <2>1. v5 \in Seq({v4.steps[i] : i \in DOMAIN v4.steps}) /\ v9 \in Seq(Flow!Fates)
        /\ v8 \in Seq([step : {v5[i] : i \in DOMAIN v5}, ok : BOOLEAN, rows : {0, 1}])
        /\ Len(v8) = 0 /\ Len(v9) = 0 /\ Len(v5) = 0
    BY <1>2, <1>6
  <2>2. v12 \in -1 .. 1 /\ v13 \in 0 .. FlowFaults
    BY <1>2, FlowAssumption
  <2>3. v6 \in {"vars", "run", "over"} /\ v11 \in BOOLEAN
        /\ v7 \in {"none", "cycle", "undefined", "depth", "flow", "no such flow"}
    BY <1>2
  <2>. QED
    BY <1>2, <2>1, <2>2, <2>3 DEF Flow!RunTypeOK
<1>9. Flow!VarsAreRight
  BY <1>2 DEF Flow!VarsAreRight
<1>10. Flow!StackHolds
  BY <1>2, <1>6 DEF Flow!StackHolds
<1>11. Flow!ValuesHold
  BY <1>2, <1>6 DEF Flow!ValuesHold
<1>12. Flow!StepsHold
  BY <1>2, <1>6 DEF Flow!StepsHold
<1>13. Flow!RowsAreOfThisRun
  BY <1>2, <1>6 DEF Flow!RowsAreOfThisRun
<1>. QED
  BY <1>7, <1>8, <1>9, <1>10, <1>11, <1>12, <1>13 DEF Flow!FlowInv, Flow!TypeOK

(* What the invariant says of the variables, the stack and the steps stays *)
(* true whatever the order in which names are resolved, the steps that are *)
(* asked for and what becomes of each (lib/flow.py, lib/flow_runner.py).   *)
THEOREM FlowsKeepTheirOrder == Flow!Spec => []Flow!FlowInv
<1>1. ASSUME Flow!FlowInv, [Flow!Next]_(Flow!vars) PROVE Flow!FlowInv'
  <2>1. CASE Flow!Resolve
    BY <1>1, <2>1, FlowSkipKeeps, FlowEnterKeeps, FlowReturnKeeps DEF Flow!Resolve
  <2>2. CASE Flow!Select
    BY <1>1, <2>2, FlowSelectKeeps
  <2>3. CASE Flow!Finish
    BY <1>1, <2>3, FlowFinishKeeps
  <2>4. CASE \E fate \in Flow!Fates : Flow!Step(fate)
    BY <1>1, <2>4, FlowStepKeeps
  <2>5. CASE UNCHANGED Flow!vars
    BY <1>1, <2>5, FlowStutterKeeps
  <2>. QED
    BY <1>1, <2>1, <2>2, <2>3, <2>4, <2>5 DEF Flow!Next
<1>. QED
  BY <1>1, FlowInitHolds, PTL DEF Flow!Spec

(* The invariant implies what is checked.                                  *)
LEMMA FlowGivesSound == ASSUME Flow!FlowInv PROVE Flow!FlowIsSound
<1>. DEFINE m == Len(v8)
<1>1. /\ m \in Nat /\ DOMAIN v8 = 1 .. m /\ m <= Len(v5) /\ Len(v5) \in Nat
      /\ \A i \in 1 .. Len(v5) : v5[i].onError \in {"abort", "continue"}
      /\ \A i \in 1 .. m : v8[i].ok \in BOOLEAN
  BY FlowSelected
<1>2. Flow!RunsAsWritten
  <2>1. SUFFICES ASSUME v6 = "over", v7 = "none"
                 PROVE  /\ \A i \in 1 .. m : v8[i].step = v5[i]
                        /\ \A i \in 1 .. m - 1 : v8[i].ok \/ v8[i].step.onError = "continue"
                        /\ \/ m = Len(v5)
                           \/ ~v8[m].ok /\ v8[m].step.onError = "abort"
                        /\ v12 = 0 <=> \A i \in 1 .. m : v8[i].ok
    BY <1>1 DEF Flow!RunsAsWritten
  <2>2. /\ v8 = << >> => ~v11
        /\ \A i \in 1 .. m :
              /\ v8[i].step = v5[i]
              /\ IF i = m THEN v11 = Flow!Stops(v8[i].step, v8[i].ok)
                 ELSE ~Flow!Stops(v8[i].step, v8[i].ok)
        /\ v11 \/ m = Len(v5)
        /\ v12 = IF Flow!AnyFailed THEN 1 ELSE 0
    BY <1>1, <2>1 DEF Flow!FlowInv, Flow!StepsHold
  <2>3. \A i \in 1 .. m - 1 : v8[i].ok \/ v8[i].step.onError = "continue"
    <3>1. ASSUME NEW i \in 1 .. m - 1 PROVE v8[i].ok \/ v8[i].step.onError = "continue"
      <4>1. i \in 1 .. m /\ i # m /\ i \in 1 .. Len(v5)
        <5>1. \A k, n \in Nat : k <= n =>
                 \A j \in 1 .. k - 1 : j \in 1 .. k /\ j # k /\ j \in 1 .. n
          OBVIOUS
        <5>. HIDE DEF m
        <5>. QED
          BY <1>1, <5>1
      <4>. QED
        BY <1>1, <2>2, <4>1 DEF Flow!Stops
    <3>. QED
      BY <3>1
  <2>4. m = Len(v5) \/ (~v8[m].ok /\ v8[m].step.onError = "abort")
    <3>1. m = 0 => v8 = << >>
      <4>1. v8 \in Seq([step : {v5[i] : i \in DOMAIN v5}, ok : BOOLEAN, rows : {0, 1}])
        BY DEF Flow!FlowInv, Flow!TypeOK, Flow!RunTypeOK
      <4>. QED
        BY <4>1
    <3>2. m # 0 => m \in 1 .. m
      BY <1>1
    <3>. QED
      BY <2>2, <3>1, <3>2 DEF Flow!Stops
  <2>5. v12 = 0 <=> \A i \in 1 .. m : v8[i].ok
    <3>1. Flow!AnyFailed <=> \E i \in 1 .. m : ~v8[i].ok
      BY <1>1 DEF Flow!AnyFailed
    <3>2. v12 = 0 <=> ~Flow!AnyFailed
      BY <2>2
    <3>. QED
      BY <3>1, <3>2
  <2>. QED
    BY <2>2, <2>3, <2>4, <2>5
<1>. QED
  BY <1>2 DEF Flow!FlowInv, Flow!FlowIsSound

(* Every flow runs as it is written, for any file, variables, overrides    *)
(* and failures: cycles, unknown names and too deep references are refused *)
(* and nothing else is, the steps run in order until the one that aborts,  *)
(* and exit code and failed rows are of this run (lib/flow.py,             *)
(* lib/flow_runner.py).                                                    *)
THEOREM FlowsRunAsWritten == Flow!Spec => []FlowIsSound
<1>1. Flow!FlowInv => FlowIsSound
  BY FlowGivesSound DEF FlowIsSound
<1>. QED
  BY <1>1, FlowsKeepTheirOrder, PTL
=============================================================================

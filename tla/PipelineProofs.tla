--------------------------- MODULE PipelineProofs ---------------------------
(***************************************************************************)
(* Theorems about PipelineRun, for every stage graph, set of plans, set of *)
(* digests and bound.  Each property of a run follows from an inductive    *)
(* invariant, and each of those from the ones before it:                   *)
(*                                                                         *)
(*   TypeOK           the shape of every variable                          *)
(*   FingerprintInv   stages stand on current fingerprints, and archives   *)
(*                    name closed sets of stages                           *)
(*   RecordInv        a stage has outputs exactly when it succeeded        *)
(*   PendingPlaced    at most one archive transaction is under way         *)
(*   EvidenceInv      how far that transaction has come, and therefore     *)
(*                    where every recorded output is                       *)
(*   SettledInv       settled stages stand on settled ones                 *)
(*   ExplainedInv     why a pending archive may match in part              *)
(*   RefusalInv       why a resume may be refused                          *)
(*   FailureInv       which attempts have a failure file                   *)
(*                                                                         *)
(* The last sections prove the action property of unforced commands, the   *)
(* property of the governed graph, and the refinement of EvidenceLedger.   *)
(***************************************************************************)
EXTENDS MCPipelineGoverned, TLAPS

-----------------------------------------------------------------------------
\* The manifest transitions keep the shape of a manifest.

LEMMA FingerprintType ==
  ASSUME NEW m \in Manifests, NEW s \in Stages
  PROVE  Fingerprint(m, s) \in Fingerprints
  BY DEF Fingerprint, Fingerprints, Manifests, StageRecords, Outputs

LEMMA StageUpdateType ==
  ASSUME NEW m \in Manifests, NEW s \in Stages, NEW record \in StageRecords
  PROVE  ReplaceStage(m, s, record) \in Manifests
  BY DEF ReplaceStage, Manifests

LEMMA StartStageType ==
  ASSUME NEW m \in Manifests, NEW s \in Stages
  PROVE  StartStage(m, s) \in Manifests
  <1> DEFINE record == m.stages[s]
  <1>1. record \in StageRecords
    BY DEF Manifests
  <1>2. record.attempt + 1 \in Nat
    BY <1>1 DEF StageRecords
  <1>3. Fingerprint(m, s) \in Fingerprints
    BY FingerprintType
  <1>4. [record EXCEPT !.status      = "running",
                       !.fingerprint = Fingerprint(m, s),
                       !.outputs     = None,
                       !.attempt     = record.attempt + 1] \in StageRecords
    BY <1>1, <1>2, <1>3 DEF StageRecords, StageStatuses, Outputs
  <1>5. QED
    BY <1>4, StageUpdateType DEF StartStage

LEMMA FinishStageType ==
  ASSUME NEW m \in Manifests, NEW s \in Stages, NEW o \in Outputs
  PROVE  FinishStage(m, s, o) \in Manifests
  <1>1. [m.stages[s] EXCEPT !.status = "success", !.outputs = o] \in StageRecords
    BY DEF Manifests, StageRecords, StageStatuses
  <1>2. QED
    BY <1>1, StageUpdateType DEF FinishStage

LEMMA SkipStageType ==
  ASSUME NEW m \in Manifests, NEW s \in Stages
  PROVE  SkipStage(m, s) \in Manifests
  <1>1. [m.stages[s] EXCEPT !.status      = "skipped_not_required",
                            !.fingerprint = None,
                            !.outputs     = None] \in StageRecords
    BY DEF Manifests, StageRecords, StageStatuses, Outputs
  <1>2. QED
    BY <1>1, StageUpdateType DEF SkipStage

LEMMA MarkUnsupportedType ==
  ASSUME NEW m \in Manifests, NEW s \in Stages
  PROVE  MarkUnsupported(m, s) \in Manifests
  <1>1. [m.stages[s] EXCEPT !.status = "unsupported"] \in StageRecords
    BY DEF Manifests, StageRecords, StageStatuses
  <1>2. QED
    BY <1>1, StageUpdateType DEF MarkUnsupported

LEMMA FailStageType ==
  ASSUME NEW m \in Manifests, NEW s \in Stages
  PROVE  FailStage(m, s) \in Manifests
  <1> DEFINE failed == ReplaceStage(m, s, [m.stages[s] EXCEPT !.status = "failed"])
  <1>1. [m.stages[s] EXCEPT !.status = "failed"] \in StageRecords
    BY DEF Manifests, StageRecords, StageStatuses
  <1>2. failed \in Manifests
    BY <1>1, StageUpdateType
  <1>3. QED
    BY <1>2 DEF FailStage, Manifests, RunStatuses

LEMMA ReopenType ==
  ASSUME NEW m \in Manifests, NEW forced
  PROVE  Reopen(m, forced) \in Manifests
  <1>1. \A s \in Stages : m.stages[s] \in StageRecords /\ Cleared(m.stages[s]) \in StageRecords
    BY DEF Cleared, Manifests, StageRecords, StageStatuses, Outputs
  <1>2. QED
    BY <1>1 DEF Reopen, Manifests, RunStatuses


LEMMA SequenceUpdateType ==
  ASSUME NEW S, NEW q \in Seq(S), NEW i, NEW e, i \in DOMAIN q => e \in S
  PROVE  [q EXCEPT ![i] = e] \in Seq(S)
  <1>1. q \in [1 .. Len(q) -> S] /\ Len(q) \in Nat
    OBVIOUS
  <1>2. [q EXCEPT ![i] = e] \in [1 .. Len(q) -> S]
    BY <1>1
  <1>3. QED
    BY <1>1, <1>2

LEMMA LedgerStateType ==
  ASSUME NEW q \in Seq(Ledgers), NEW i, NEW state \in LedgerStates
  PROVE  [q EXCEPT ![i].state = state] \in Seq(Ledgers)
  <1>1. i \in DOMAIN q => q[i] \in Ledgers
    OBVIOUS
  <1>2. i \in DOMAIN q => [q[i] EXCEPT !.state = state] \in Ledgers
    BY <1>1 DEF Ledgers
  <1>3. QED
    BY <1>2, SequenceUpdateType

LEMMA LedgerKeptType ==
  ASSUME NEW q \in Seq(Ledgers), NEW i, NEW s, NEW o \in Outputs
  PROVE  [q EXCEPT ![i].kept[s] = o] \in Seq(Ledgers)
  <1> DEFINE entry == [q[i] EXCEPT !.kept = [q[i].kept EXCEPT ![s] = o]]
  <1>1. i \in DOMAIN q => q[i] \in Ledgers
    OBVIOUS
  <1>2. i \in DOMAIN q => [q[i].kept EXCEPT ![s] = o] \in [Stages -> Outputs]
    BY <1>1 DEF Ledgers
  <1>3. i \in DOMAIN q => entry \in Ledgers
    BY <1>1, <1>2 DEF Ledgers
  <1>4. [q EXCEPT ![i] = entry] \in Seq(Ledgers)
    BY <1>3, SequenceUpdateType
  <1>5. QED
    BY <1>4

-----------------------------------------------------------------------------
\* Type correctness.

\* The run, its directory and the running command's memory have the shape the
\* code gives them, in every reachable state (manifests.py, pipeline/resume.py).
THEOREM TypeCorrect == Spec => []TypeOK
  <1>1. Init => TypeOK
    <2> SUFFICES ASSUME Init PROVE TypeOK
      OBVIOUS
    <2>1. InitialStages(plan.required) \in [Stages -> StageRecords]
      BY DEF InitialStages, StageRecords, StageStatuses, Outputs
    <2>2. QED
      BY <2>1 DEF Init, TypeOK, Manifests, RunStatuses, Outputs
  <1>2. TypeOK /\ [Next]_vars => TypeOK'
    <2> SUFFICES ASSUME TypeOK, [Next]_vars PROVE TypeOK'
      OBVIOUS
    <2> USE DEF TypeOK
    <2>1. CASE CreateTopology
      BY <2>1, GraphAssumption DEF CreateTopology, WithTopology, Outputs, Contents, memory
    <2>2. CASE CreateManifest
      BY <2>2 DEF CreateManifest, WriteStatusThen, disk, Manifests, RunStatuses
    <2>3. ASSUME NEW r \in (DOMAIN ledgers) \X Stages, RestoreOutput(r) PROVE TypeOK'
      <3>1. ledgers[r[1]] \in Ledgers
        OBVIOUS
      <3>2. ledgers[r[1]].kept[r[2]] \in Outputs
        BY <3>1 DEF Ledgers
      <3>3. QED
        BY <2>3, <3>2 DEF RestoreOutput, memory
    <2>4. ASSUME NEW i \in DOMAIN ledgers, SettleLedger(i) PROVE TypeOK'
      <3>1. ledgers' \in Seq(Ledgers)
        BY <2>4, LedgerStateType DEF SettleLedger, LedgerStates
      <3>2. QED
        BY <2>4, <3>1 DEF SettleLedger, memory
    <2>5. CASE AlreadyComplete
      BY <2>5 DEF AlreadyComplete, EndCommand, disk, Outputs
    <2>6. CASE ReopenRun
      BY <2>6, ReopenType DEF ReopenRun, disk, memory
    <2>7. CASE WriteLedger
      <3>1. Descendants[force] \subseteq Stages
        BY <2>7 DEF WriteLedger, Descendants
      <3>2. [ state    |-> "preparing",
              names    |-> Descendants[force],
              previous |-> manifest.stages,
              kept     |-> [s \in Stages |-> None] ] \in Ledgers
        BY <3>1 DEF Ledgers, LedgerStates, Manifests, Outputs
      <3>3. ledgers' \in Seq(Ledgers)
        BY <2>7, <3>2 DEF WriteLedger
      <3>4. QED
        BY <2>7, <3>3 DEF WriteLedger, memory
    <2>8. CASE MoveFails
      BY <2>8 DEF MoveFails, disk, memory
    <2>9. CASE RolledBack
      <3>1. ledgers' \in Seq(Ledgers)
        BY <2>9, LedgerStateType DEF RolledBack, LedgerStates
      <3>2. QED
        BY <2>9, <3>1 DEF RolledBack, EndCommand, Outputs
    <2>10. CASE SealLedger
      <3>1. ledgers' \in Seq(Ledgers)
        BY <2>10, LedgerStateType DEF SealLedger, LedgerStates
      <3>2. QED
        BY <2>10, <3>1 DEF SealLedger, memory
    <2>11. CASE CommitInvalidation
      BY <2>11, ReopenType DEF CommitInvalidation, disk, memory
    <2>12. CASE MarkCommitted
      <3>1. ledgers' \in Seq(Ledgers)
        BY <2>12, LedgerStateType DEF MarkCommitted, LedgerStates
      <3>2. QED
        BY <2>12, <3>1 DEF MarkCommitted, memory
    <2>13. CASE EnsureTopology
      BY <2>13, GraphAssumption DEF EnsureTopology, WithTopology, WriteStatusThen, Outputs, Contents
    <2>14. ASSUME NEW s \in Stages, AdoptOutput(s) PROVE TypeOK'
      <3>1. Published(s) \in Outputs
        BY DEF Published, Outputs, Contents
      <3>2. manifest' \in Manifests
        BY <2>14, <3>1, FinishStageType DEF AdoptOutput
      <3>3. QED
        BY <2>14, <3>1, <3>2 DEF AdoptOutput, WriteStatusThen
    <2>15. ASSUME NEW s \in Stages, MoveOutput(s) PROVE TypeOK'
      <3>1. ledgers' \in Seq(Ledgers)
        BY <2>15, LedgerKeptType DEF MoveOutput
      <3>2. QED
        BY <2>15, <3>1 DEF MoveOutput, memory, Outputs
    <2>16. ASSUME NEW s \in Stages, MoveBack(s) PROVE TypeOK'
      <3>1. ledgers' \in Seq(Ledgers)
        BY <2>16, LedgerKeptType DEF MoveBack, Outputs
      <3>2. Archiving.kept[s] \in Outputs
        <4>1. Len(ledgers) \in DOMAIN ledgers
          BY <2>16 DEF MoveBack
        <4>2. Archiving \in Ledgers
          BY <4>1 DEF Archiving
        <4>3. QED
          BY <4>2 DEF Ledgers
      <3>3. QED
        BY <2>16, <3>1, <3>2 DEF MoveBack, memory
    <2>17. ASSUME NEW s \in Stages, SkipDisabled(s) PROVE TypeOK'
      BY <2>17, SkipStageType DEF SkipDisabled, WriteStatusThen, disk
    <2>18. ASSUME NEW s \in Stages, BeginStage(s) PROVE TypeOK'
      BY <2>18, StartStageType DEF BeginStage, WriteStatusThen, disk
    <2>19. ASSUME NEW s \in Stages, StageUnsupported(s) PROVE TypeOK'
      BY <2>19, MarkUnsupportedType DEF StageUnsupported, WriteStatusThen, disk
    <2>20. ASSUME NEW s \in Stages, StageFails(s) PROVE TypeOK'
      BY <2>20 DEF StageFails, disk, memory
    <2>21. ASSUME NEW s \in Stages, NEW digest \in Digests \union {"config"},
                  PublishOutput(s, digest)
           PROVE  TypeOK'
      BY <2>21 DEF PublishOutput, Outputs, Contents
    <2>22. ASSUME NEW s \in Stages, FinishRunningStage(s) PROVE TypeOK'
      BY <2>22, FinishStageType DEF FinishRunningStage, WriteStatusThen, disk, Outputs
    <2>23. ASSUME NEW s \in Stages, WriteFailureEvidence(s) PROVE TypeOK'
      <3>1. manifest.stages[s].attempt \in Nat
        BY DEF Manifests, StageRecords
      <3>2. QED
        BY <2>23, <3>1 DEF WriteFailureEvidence, memory
    <2>24. ASSUME NEW s \in Stages, PersistFailure(s) PROVE TypeOK'
      BY <2>24, FailStageType DEF PersistFailure, WriteStatusThen, disk
    <2>25. CASE PersistSuccess
      BY <2>25 DEF PersistSuccess, Succeed, WriteStatusThen, disk, Manifests, RunStatuses
    <2>26. CASE PersistStatus
      <3>1. statusFile' \in RunStatuses
        BY <2>26 DEF PersistStatus, Manifests
      <3>2. QED
        BY <2>26, <3>1 DEF PersistStatus, EndCommand, disk, memory, Outputs
    <2>27. CASE ResumeRefused
      BY <2>27 DEF ResumeRefused, EndCommand, disk, Outputs
    <2>28. ASSUME NEW forced \in {0} \union Stages, ResumeBegin(forced) PROVE TypeOK'
      BY <2>28 DEF ResumeBegin, disk
    <2>29. CASE Kill
      <3>1. leftovers' \subseteq DirectoryStages
        BY <2>29 DEF Kill
      <3>2. QED
        BY <2>29, <3>1 DEF Kill, EndCommand, Outputs
    <2>30. ASSUME NEW s \in Stages, NEW content \in {None, "damaged"}, DamageOutput(s, content)
           PROVE  TypeOK'
      BY <2>30, SMTT(30) DEF DamageOutput, memory, Outputs, Contents
    <2>31. ASSUME NEW i \in DOMAIN ledgers, NEW s \in Stages,
                  NEW content \in {None, "damaged"}, DamageArchive(i, s, content)
           PROVE  TypeOK'
      <3>1. ledgers' \in Seq(Ledgers)
        BY <2>31, LedgerKeptType DEF DamageArchive, Outputs, Contents
      <3>2. spent' \in [kills : Nat, faults : Nat, forces : Nat, damages : Nat]
        BY <2>31, SMTT(30) DEF DamageArchive
      <3>3. /\ UNCHANGED <<manifest, statusFile, files, leftovers, failures, plan, pc, memory, outcome>>
            /\ pc = "idle"
        BY <2>31 DEF DamageArchive
      <3>4. QED
        BY <3>1, <3>2, <3>3 DEF memory
    <2>32. CASE UNCHANGED vars
      BY <2>32 DEF vars, disk, memory
    <2> HIDE DEF TypeOK
    <2>33. CASE ProcessStep
      <3>1. CASE \E s \in Stages : AdoptOutput(s) \/ MoveOutput(s) \/ MoveBack(s) \/ ExecuteStage(s)
        BY <3>1, <2>14, <2>15, <2>16, <2>17, <2>18, <2>19, <2>20, <2>21, <2>22, <2>23, <2>24
           DEF ExecuteStage
      <3>2. QED
        BY <2>33, <3>1, <2>1, <2>2, <2>3, <2>4, <2>5, <2>6, <2>7, <2>8, <2>9, <2>10, <2>11,
           <2>12, <2>13, <2>25, <2>26 DEF ProcessStep
    <2>34. QED
      BY <2>27, <2>28, <2>29, <2>30, <2>31, <2>32, <2>33 DEF Next, Command, Damage
  <1>3. QED
    BY <1>1, <1>2, PTL DEF Spec

-----------------------------------------------------------------------------
\* Fingerprints.

\* FingerprintsCurrent as a predicate of the manifest.
Consistent(m) ==
  \A s \in Stages : m.stages[s].status \in {"running", "success"} =>
    /\ DependenciesComplete(m, s)
    /\ m.stages[s].fingerprint = Fingerprint(m, s)

LEMMA ConsistentIsCurrent == FingerprintsCurrent <=> Consistent(manifest)
  BY DEF FingerprintsCurrent, FingerprintCurrent, Consistent

\* Replacing the record of a stage that is not complete disturbs no other
\* stage: nothing that runs or succeeded depends on it.
LEMMA ReplaceKeepsConsistent ==
  ASSUME NEW m \in Manifests, NEW t \in Stages, NEW record \in StageRecords,
         Consistent(m), ~Complete(m, t),
         record.status \in {"running", "success"} =>
           /\ DependenciesComplete(m, t)
           /\ record.fingerprint = Fingerprint(m, t)
  PROVE  Consistent(ReplaceStage(m, t, record))
  <1> DEFINE new == ReplaceStage(m, t, record)
  <1>1. /\ new.stages[t] = record
        /\ \A s \in Stages \ {t} : new.stages[s] = m.stages[s]
    BY DEF ReplaceStage, Manifests
  <1>2. SUFFICES ASSUME NEW s \in Stages,
                        new.stages[s].status \in {"running", "success"}
                 PROVE  /\ DependenciesComplete(new, s)
                        /\ new.stages[s].fingerprint = Fingerprint(new, s)
    BY DEF Consistent
  <1>3. /\ DependenciesComplete(m, s)
        /\ new.stages[s].fingerprint = Fingerprint(m, s)
    <2>1. CASE s = t
      BY <1>1, <1>2, <2>1
    <2>2. CASE s # t
      BY <1>1, <1>2, <2>2 DEF Consistent
    <2>3. QED
      BY <2>1, <2>2
  <1>4. t \notin Deps[s]
    <2>1. CASE s = t
      BY <2>1, GraphAssumption DEF Stages
    <2>2. CASE s # t
      BY <1>3 DEF DependenciesComplete
    <2>3. QED
      BY <2>1, <2>2
  <1>5. \A d \in Deps[s] : d \in Stages \ {t}
    BY <1>4, GraphAssumption
  <1>6. DependenciesComplete(new, s)
    BY <1>1, <1>3, <1>5 DEF DependenciesComplete, Complete
  <1>7. Fingerprint(new, s) = Fingerprint(m, s)
    BY <1>1, <1>5 DEF Fingerprint
  <1>8. QED
    BY <1>3, <1>6, <1>7

\* Consistency does not depend on the status of the run.
LEMMA ConsistentStages ==
  ASSUME NEW m, NEW n, m.stages = n.stages, Consistent(m)
  PROVE  Consistent(n)
  BY DEF Consistent, DependenciesComplete, Complete, Fingerprint

\* The transitions of a stage that is not complete.
LEMMA StartKeepsConsistent ==
  ASSUME NEW m \in Manifests, NEW s \in Stages, Consistent(m),
         ~Complete(m, s), DependenciesComplete(m, s)
  PROVE  Consistent(StartStage(m, s))
  <1> DEFINE record == [m.stages[s] EXCEPT !.status      = "running",
                                           !.fingerprint = Fingerprint(m, s),
                                           !.outputs     = None,
                                           !.attempt     = @ + 1]
  <1>1. m.stages[s] \in StageRecords
    BY DEF Manifests
  <1>2. m.stages[s].attempt + 1 \in Nat
    BY <1>1 DEF StageRecords
  <1>3. record \in StageRecords /\ record.fingerprint = Fingerprint(m, s)
    BY <1>1, <1>2, FingerprintType DEF StageRecords, StageStatuses, Outputs
  <1>4. QED
    BY <1>3, ReplaceKeepsConsistent DEF StartStage

LEMMA FinishKeepsConsistent ==
  ASSUME NEW m \in Manifests, NEW s \in Stages, NEW o \in Outputs, Consistent(m),
         m.stages[s].status = "running", DependenciesComplete(m, s),
         m.stages[s].fingerprint = Fingerprint(m, s)
  PROVE  Consistent(FinishStage(m, s, o))
  <1> DEFINE record == [m.stages[s] EXCEPT !.status = "success", !.outputs = o]
  <1>1. record \in StageRecords /\ record.fingerprint = m.stages[s].fingerprint
    BY DEF Manifests, StageRecords, StageStatuses
  <1>2. ~Complete(m, s)
    BY DEF Complete
  <1>3. QED
    BY <1>1, <1>2, ReplaceKeepsConsistent DEF FinishStage

LEMMA SkipKeepsConsistent ==
  ASSUME NEW m \in Manifests, NEW s \in Stages, Consistent(m), ~Complete(m, s)
  PROVE  Consistent(SkipStage(m, s))
  <1> DEFINE record == [m.stages[s] EXCEPT !.status      = "skipped_not_required",
                                           !.fingerprint = None,
                                           !.outputs     = None]
  <1>1. record \in StageRecords /\ record.status = "skipped_not_required"
    BY DEF Manifests, StageRecords, StageStatuses, Outputs
  <1>2. QED
    BY <1>1, ReplaceKeepsConsistent DEF SkipStage

LEMMA UnsupportedKeepsConsistent ==
  ASSUME NEW m \in Manifests, NEW s \in Stages, Consistent(m), ~Complete(m, s)
  PROVE  Consistent(MarkUnsupported(m, s))
  <1> DEFINE record == [m.stages[s] EXCEPT !.status = "unsupported"]
  <1>1. record \in StageRecords /\ record.status = "unsupported"
    BY DEF Manifests, StageRecords, StageStatuses
  <1>2. QED
    BY <1>1, ReplaceKeepsConsistent DEF MarkUnsupported

LEMMA FailKeepsConsistent ==
  ASSUME NEW m \in Manifests, NEW s \in Stages, Consistent(m), ~Complete(m, s)
  PROVE  Consistent(FailStage(m, s))
  <1> DEFINE record == [m.stages[s] EXCEPT !.status = "failed"]
             failed == ReplaceStage(m, s, record)
  <1>1. record \in StageRecords /\ record.status = "failed"
    BY DEF Manifests, StageRecords, StageStatuses
  <1>2. Consistent(failed) /\ failed \in Manifests
    BY <1>1, ReplaceKeepsConsistent, StageUpdateType
  <1>3. FailStage(m, s).stages = failed.stages
    BY <1>2 DEF FailStage, Manifests
  <1>4. QED
    BY <1>2, <1>3, ConsistentStages

\* Reopening a run keeps it consistent when the forced stages include all
\* their dependents.
LEMMA ReopenKeepsConsistent ==
  ASSUME NEW m \in Manifests, NEW forced \in ClosedSets, Consistent(m)
  PROVE  Consistent(Reopen(m, forced))
  <1> DEFINE new == Reopen(m, forced)
  <1>1. \A s \in Stages :
          /\ s \in forced \/ m.stages[s].status = "running" =>
               new.stages[s].status = "invalidated"
          /\ ~(s \in forced \/ m.stages[s].status = "running") =>
               new.stages[s] = m.stages[s]
    BY DEF Reopen, Cleared, Manifests, StageRecords
  <1>2. SUFFICES ASSUME NEW s \in Stages,
                        new.stages[s].status \in {"running", "success"}
                 PROVE  /\ DependenciesComplete(new, s)
                        /\ new.stages[s].fingerprint = Fingerprint(new, s)
    BY DEF Consistent
  <1>3. s \notin forced /\ new.stages[s] = m.stages[s]
    BY <1>1, <1>2
  <1>4. /\ DependenciesComplete(m, s)
        /\ new.stages[s].fingerprint = Fingerprint(m, s)
    BY <1>2, <1>3 DEF Consistent
  <1>5. \A d \in Deps[s] : d \in Stages /\ new.stages[d] = m.stages[d]
    <2> SUFFICES ASSUME NEW d \in Deps[s]
                 PROVE  d \in Stages /\ new.stages[d] = m.stages[d]
      OBVIOUS
    <2>1. d \in Stages
      BY GraphAssumption
    <2>2. d \notin forced
      BY <1>3 DEF ClosedSets
    <2>3. m.stages[d].status # "running"
      BY <1>4 DEF DependenciesComplete, Complete
    <2>4. QED
      BY <1>1, <2>1, <2>2, <2>3
  <1>6. DependenciesComplete(new, s)
    BY <1>4, <1>5 DEF DependenciesComplete, Complete
  <1>7. Fingerprint(new, s) = Fingerprint(m, s)
    BY <1>5 DEF Fingerprint
  <1>8. QED
    BY <1>4, <1>6, <1>7

\* The set of stages that a forced rerun invalidates is closed under
\* dependents (pipeline/stages.py, stage_descendants).
THEOREM DescendantsClosed ==
  ASSUME NEW f \in Stages
  PROVE  f \in Descendants[f] /\ Descendants[f] \in ClosedSets
  <1>1. Descendants[f] = {s \in Stages : \A C \in ClosedSets : f \in C => s \in C}
    BY DEF Descendants
  <1>2. ASSUME NEW s \in Stages, Deps[s] \intersect Descendants[f] # {}
        PROVE  s \in Descendants[f]
    <2>1. PICK d \in Deps[s] : d \in Descendants[f]
      BY <1>2
    <2>2. ASSUME NEW C \in ClosedSets, f \in C PROVE s \in C
      <3>1. d \in C
        BY <1>1, <2>1, <2>2
      <3>2. QED
        BY <3>1 DEF ClosedSets
    <2>3. QED
      BY <1>1, <2>2
  <1>3. QED
    BY <1>1, <1>2 DEF ClosedSets

-----------------------------------------------------------------------------
\* The inductive invariant: besides FingerprintsCurrent it says that every
\* archive names a set of stages closed under dependents, so that the manifest
\* committed after the archive invalidates no input without its readers.
LedgersClosed == \A i \in DOMAIN ledgers : ledgers[i].names \in ClosedSets

FingerprintInv == Consistent(manifest) /\ LedgersClosed

LEMMA LedgersClosedKept ==
  ASSUME LedgersClosed,
         DOMAIN ledgers' = DOMAIN ledgers,
         \A i \in DOMAIN ledgers : ledgers'[i].names = ledgers[i].names
  PROVE  LedgersClosed'
  BY DEF LedgersClosed

LEMMA FingerprintInvariant == Spec => []FingerprintInv
  <1>1. Init => FingerprintInv
    BY DEF Init, InitialStages, FingerprintInv, Consistent, LedgersClosed
  <1>2. TypeOK /\ FingerprintInv /\ [Next]_vars => FingerprintInv'
    <2> SUFFICES ASSUME TypeOK, FingerprintInv, [Next]_vars PROVE FingerprintInv'
      OBVIOUS
    <2>1. /\ manifest \in Manifests /\ ledgers \in Seq(Ledgers)
          /\ force \in {0} \union Stages
          /\ Consistent(manifest) /\ LedgersClosed
      BY DEF TypeOK, FingerprintInv
    <2>2. ASSUME UNCHANGED manifest, UNCHANGED ledgers PROVE FingerprintInv'
      BY <2>2, <2>1 DEF FingerprintInv, LedgersClosed, Consistent
    <2>3. ASSUME UNCHANGED manifest, LedgersClosed' PROVE FingerprintInv'
      BY <2>3, <2>1 DEF FingerprintInv, Consistent
    <2>4. ASSUME UNCHANGED ledgers, Consistent(manifest') PROVE FingerprintInv'
      BY <2>4, <2>1 DEF FingerprintInv, LedgersClosed
    <2>5. CASE CreateTopology
      BY <2>5, <2>2 DEF CreateTopology
    <2>6. CASE CreateManifest
      BY <2>6, <2>1, <2>4, ConsistentStages DEF CreateManifest, disk, Manifests
    <2>7. ASSUME NEW r \in (DOMAIN ledgers) \X Stages, RestoreOutput(r) PROVE FingerprintInv'
      BY <2>7, <2>2 DEF RestoreOutput
    <2>8. ASSUME NEW i \in DOMAIN ledgers, SettleLedger(i) PROVE FingerprintInv'
      BY <2>8, <2>1, <2>3, LedgersClosedKept DEF SettleLedger, Ledgers
    <2>9. CASE AlreadyComplete
      BY <2>9, <2>2 DEF AlreadyComplete, disk
    <2>10. CASE ReopenRun
      <3>1. {} \in ClosedSets
        BY DEF ClosedSets
      <3>2. QED
        BY <2>10, <2>1, <2>4, <3>1, ReopenKeepsConsistent DEF ReopenRun, disk
    <2>11. CASE WriteLedger
      <3>1. Descendants[force] \in ClosedSets
        BY <2>11, <2>1, DescendantsClosed DEF WriteLedger
      <3>2. LedgersClosed'
        BY <2>11, <2>1, <3>1 DEF WriteLedger, LedgersClosed
      <3>3. QED
        BY <2>11, <2>3, <3>2 DEF WriteLedger
    <2>12. CASE MoveFails
      BY <2>12, <2>2 DEF MoveFails, disk
    <2>13. CASE RolledBack
      BY <2>13, <2>1, <2>3, LedgersClosedKept DEF RolledBack, Ledgers
    <2>14. CASE SealLedger
      BY <2>14, <2>1, <2>3, LedgersClosedKept DEF SealLedger, Ledgers
    <2>15. CASE CommitInvalidation
      <3>1. Archiving.names \in ClosedSets
        BY <2>15, <2>1 DEF CommitInvalidation, TypeOK, Archiving, LedgersClosed
      <3>2. QED
        BY <2>15, <2>1, <2>4, <3>1, ReopenKeepsConsistent DEF CommitInvalidation, disk
    <2>16. CASE MarkCommitted
      BY <2>16, <2>1, <2>3, LedgersClosedKept DEF MarkCommitted, Ledgers
    <2>17. CASE EnsureTopology
      BY <2>17, <2>2 DEF EnsureTopology
    <2>18. ASSUME NEW s \in Stages, AdoptOutput(s) PROVE FingerprintInv'
      <3>1. manifest.stages[s].status = "running" /\ FingerprintCurrent(s)
        BY <2>18 DEF AdoptOutput, Adoptable
      <3>2. Published(s) \in Outputs
        BY DEF TypeOK, Published, Outputs, Contents
      <3>3. Consistent(FinishStage(manifest, s, Published(s)))
        BY <3>1, <3>2, <2>1, FinishKeepsConsistent DEF FingerprintCurrent
      <3>4. QED
        BY <2>18, <2>4, <3>3 DEF AdoptOutput
    <2>19. ASSUME NEW s \in Stages, MoveOutput(s) PROVE FingerprintInv'
      BY <2>19, <2>1, <2>3, LedgersClosedKept DEF MoveOutput, Ledgers
    <2>20. ASSUME NEW s \in Stages, MoveBack(s) PROVE FingerprintInv'
      BY <2>20, <2>1, <2>3, LedgersClosedKept DEF MoveBack, Ledgers
    <2>21. ASSUME NEW s \in Stages, SkipDisabled(s) PROVE FingerprintInv'
      <3>1. ~Complete(manifest, s)
        BY <2>21 DEF SkipDisabled, NextStage
      <3>2. Consistent(SkipStage(manifest, s))
        BY <3>1, <2>1, SkipKeepsConsistent
      <3>3. QED
        BY <2>21, <2>4, <3>2 DEF SkipDisabled, disk
    <2>22. ASSUME NEW s \in Stages, BeginStage(s) PROVE FingerprintInv'
      <3>1. ~Complete(manifest, s) /\ DependenciesComplete(manifest, s)
        BY <2>22 DEF BeginStage, NextStage
      <3>2. Consistent(StartStage(manifest, s))
        BY <3>1, <2>1, StartKeepsConsistent
      <3>3. QED
        BY <2>22, <2>4, <3>2 DEF BeginStage, disk
    <2>23. ASSUME NEW s \in Stages, StageUnsupported(s) PROVE FingerprintInv'
      <3>1. ~Complete(manifest, s)
        BY <2>23 DEF StageUnsupported, Working, NextStage
      <3>2. Consistent(MarkUnsupported(manifest, s))
        BY <3>1, <2>1, UnsupportedKeepsConsistent
      <3>3. QED
        BY <2>23, <2>4, <3>2 DEF StageUnsupported, disk
    <2>24. ASSUME NEW s \in Stages, StageFails(s) PROVE FingerprintInv'
      BY <2>24, <2>2 DEF StageFails, disk
    <2>25. ASSUME NEW s \in Stages, NEW digest \in Digests \union {"config"},
                  PublishOutput(s, digest)
           PROVE  FingerprintInv'
      BY <2>25, <2>2 DEF PublishOutput
    <2>26. ASSUME NEW s \in Stages, FinishRunningStage(s) PROVE FingerprintInv'
      <3>1. manifest.stages[s].status = "running"
        BY <2>26 DEF FinishRunningStage, Working
      <3>2. /\ DependenciesComplete(manifest, s)
            /\ manifest.stages[s].fingerprint = Fingerprint(manifest, s)
        BY <3>1, <2>1 DEF Consistent
      <3>3. Consistent(FinishStage(manifest, s, produced))
        BY <3>1, <3>2, <2>1, FinishKeepsConsistent DEF TypeOK
      <3>4. QED
        BY <2>26, <2>4, <3>3 DEF FinishRunningStage, disk
    <2>27. ASSUME NEW s \in Stages, WriteFailureEvidence(s) PROVE FingerprintInv'
      BY <2>27, <2>2 DEF WriteFailureEvidence
    <2>28. ASSUME NEW s \in Stages, PersistFailure(s) PROVE FingerprintInv'
      <3>1. ~Complete(manifest, s)
        BY <2>28 DEF PersistFailure, Working, NextStage
      <3>2. Consistent(FailStage(manifest, s))
        BY <3>1, <2>1, FailKeepsConsistent
      <3>3. QED
        BY <2>28, <2>4, <3>2 DEF PersistFailure, disk
    <2>29. CASE PersistSuccess
      BY <2>29, <2>1, <2>4, ConsistentStages DEF PersistSuccess, Succeed, disk, Manifests
    <2>30. CASE PersistStatus
      BY <2>30, <2>2 DEF PersistStatus, disk
    <2>31. CASE ResumeRefused
      BY <2>31, <2>2 DEF ResumeRefused, disk
    <2>32. ASSUME NEW forced \in {0} \union Stages, ResumeBegin(forced) PROVE FingerprintInv'
      BY <2>32, <2>2 DEF ResumeBegin, disk
    <2>33. CASE Kill
      BY <2>33, <2>2 DEF Kill
    <2>34. ASSUME NEW s \in Stages, NEW content \in {None, "damaged"}, DamageOutput(s, content)
           PROVE  FingerprintInv'
      BY <2>34, <2>2 DEF DamageOutput
    <2>35. ASSUME NEW i \in DOMAIN ledgers, NEW s \in Stages,
                  NEW content \in {None, "damaged"}, DamageArchive(i, s, content)
           PROVE  FingerprintInv'
      BY <2>35, <2>1, <2>3, LedgersClosedKept DEF DamageArchive, Ledgers
    <2>36. CASE UNCHANGED vars
      BY <2>36, <2>2 DEF vars, disk
    <2>37. CASE ProcessStep
      <3>1. CASE \E s \in Stages : AdoptOutput(s) \/ MoveOutput(s) \/ MoveBack(s) \/ ExecuteStage(s)
        BY <3>1, <2>18, <2>19, <2>20, <2>21, <2>22, <2>23, <2>24, <2>25, <2>26, <2>27, <2>28
           DEF ExecuteStage
      <3>2. QED
        BY <2>37, <3>1, <2>5, <2>6, <2>7, <2>8, <2>9, <2>10, <2>11, <2>12, <2>13, <2>14,
           <2>15, <2>16, <2>17, <2>29, <2>30 DEF ProcessStep
    <2>38. QED
      BY <2>31, <2>32, <2>33, <2>34, <2>35, <2>36, <2>37 DEF Next, Command, Damage
  <1>3. QED
    BY <1>1, <1>2, TypeCorrect, PTL DEF Spec

\* A stage that is running or successful has complete dependencies and the
\* fingerprint of their present outputs, through every kill, adoption,
\* recovery, forced invalidation and rerun (pipeline/resume.py,
\* verify_successful_stage_fingerprints).
THEOREM FingerprintsStayCurrent == Spec => []FingerprintsCurrent
  <1>1. FingerprintInv => FingerprintsCurrent
    BY ConsistentIsCurrent DEF FingerprintInv
  <1>2. QED
    BY <1>1, FingerprintInvariant, PTL

-----------------------------------------------------------------------------
\* What each transition leaves in the records.

LEMMA ReplacedStage ==
  ASSUME NEW m \in Manifests, NEW s \in Stages, NEW record
  PROVE  /\ ReplaceStage(m, s, record).status = m.status
         /\ ReplaceStage(m, s, record).stages[s] = record
         /\ \A t \in Stages \ {s} : ReplaceStage(m, s, record).stages[t] = m.stages[t]
  BY DEF ReplaceStage, Manifests

LEMMA StartedStage ==
  ASSUME NEW m \in Manifests, NEW s \in Stages
  PROVE  LET n == StartStage(m, s)
         IN  /\ n.status = m.status
             /\ n.stages[s].status = "running" /\ n.stages[s].outputs = None
             /\ n.stages[s].attempt = m.stages[s].attempt + 1
             /\ n.stages[s].required = m.stages[s].required
             /\ \A t \in Stages \ {s} : n.stages[t] = m.stages[t]
  <1> DEFINE record == [m.stages[s] EXCEPT !.status      = "running",
                                           !.fingerprint = Fingerprint(m, s),
                                           !.outputs     = None,
                                           !.attempt     = @ + 1]
  <1>1. m.stages[s] \in StageRecords
    BY DEF Manifests
  <1>2. /\ record.status = "running" /\ record.outputs = None
        /\ record.attempt = m.stages[s].attempt + 1
        /\ record.required = m.stages[s].required
    BY <1>1 DEF StageRecords
  <1>3. StartStage(m, s) = ReplaceStage(m, s, record)
    BY DEF StartStage
  <1> HIDE DEF record
  <1>4. QED
    BY <1>2, <1>3, ReplacedStage

LEMMA FinishedStage ==
  ASSUME NEW m \in Manifests, NEW s \in Stages, NEW o
  PROVE  LET n == FinishStage(m, s, o)
         IN  /\ n.status = m.status
             /\ n.stages[s].status = "success" /\ n.stages[s].outputs = o
             /\ n.stages[s].fingerprint = m.stages[s].fingerprint
             /\ n.stages[s].attempt = m.stages[s].attempt
             /\ n.stages[s].required = m.stages[s].required
             /\ \A t \in Stages \ {s} : n.stages[t] = m.stages[t]
  <1> DEFINE record == [m.stages[s] EXCEPT !.status = "success", !.outputs = o]
  <1>1. m.stages[s] \in StageRecords
    BY DEF Manifests
  <1>2. /\ record.status = "success" /\ record.outputs = o
        /\ record.fingerprint = m.stages[s].fingerprint
        /\ record.attempt = m.stages[s].attempt
        /\ record.required = m.stages[s].required
    BY <1>1 DEF StageRecords
  <1>3. FinishStage(m, s, o) = ReplaceStage(m, s, record)
    BY DEF FinishStage
  <1> HIDE DEF record
  <1>4. QED
    BY <1>2, <1>3, ReplacedStage

LEMMA SkippedStage ==
  ASSUME NEW m \in Manifests, NEW s \in Stages
  PROVE  LET n == SkipStage(m, s)
         IN  /\ n.status = m.status
             /\ n.stages[s].status = "skipped_not_required" /\ n.stages[s].outputs = None
             /\ n.stages[s].attempt = m.stages[s].attempt
             /\ n.stages[s].required = m.stages[s].required
             /\ \A t \in Stages \ {s} : n.stages[t] = m.stages[t]
  <1> DEFINE record == [m.stages[s] EXCEPT !.status      = "skipped_not_required",
                                           !.fingerprint = None,
                                           !.outputs     = None]
  <1>1. m.stages[s] \in StageRecords
    BY DEF Manifests
  <1>2. /\ record.status = "skipped_not_required" /\ record.outputs = None
        /\ record.attempt = m.stages[s].attempt
        /\ record.required = m.stages[s].required
    BY <1>1 DEF StageRecords
  <1>3. SkipStage(m, s) = ReplaceStage(m, s, record)
    BY DEF SkipStage
  <1> HIDE DEF record
  <1>4. QED
    BY <1>2, <1>3, ReplacedStage

LEMMA UnsupportedStage ==
  ASSUME NEW m \in Manifests, NEW s \in Stages
  PROVE  LET n == MarkUnsupported(m, s)
         IN  /\ n.status = m.status
             /\ n.stages[s].status = "unsupported"
             /\ n.stages[s].outputs = m.stages[s].outputs
             /\ n.stages[s].attempt = m.stages[s].attempt
             /\ n.stages[s].required = m.stages[s].required
             /\ \A t \in Stages \ {s} : n.stages[t] = m.stages[t]
  <1> DEFINE record == [m.stages[s] EXCEPT !.status = "unsupported"]
  <1>1. m.stages[s] \in StageRecords
    BY DEF Manifests
  <1>2. /\ record.status = "unsupported" /\ record.outputs = m.stages[s].outputs
        /\ record.attempt = m.stages[s].attempt
        /\ record.required = m.stages[s].required
    BY <1>1 DEF StageRecords
  <1>3. MarkUnsupported(m, s) = ReplaceStage(m, s, record)
    BY DEF MarkUnsupported
  <1> HIDE DEF record
  <1>4. QED
    BY <1>2, <1>3, ReplacedStage

LEMMA FailedStage ==
  ASSUME NEW m \in Manifests, NEW s \in Stages
  PROVE  LET n == FailStage(m, s)
         IN  /\ n.status = "failed"
             /\ n.stages[s].status = "failed"
             /\ n.stages[s].outputs = m.stages[s].outputs
             /\ n.stages[s].attempt = m.stages[s].attempt
             /\ n.stages[s].required = m.stages[s].required
             /\ \A t \in Stages \ {s} : n.stages[t] = m.stages[t]
  <1> DEFINE record == [m.stages[s] EXCEPT !.status = "failed"]
             failed == ReplaceStage(m, s, record)
  <1>1. m.stages[s] \in StageRecords
    BY DEF Manifests
  <1>2. /\ record.status = "failed" /\ record.outputs = m.stages[s].outputs
        /\ record.attempt = m.stages[s].attempt
        /\ record.required = m.stages[s].required
        /\ record \in StageRecords
    BY <1>1 DEF StageRecords, StageStatuses
  <1>3. failed \in Manifests
    BY <1>2, StageUpdateType
  <1>4. FailStage(m, s) = [failed EXCEPT !.status = "failed"]
    BY DEF FailStage
  <1>5. FailStage(m, s).status = "failed" /\ FailStage(m, s).stages = failed.stages
    BY <1>3, <1>4 DEF Manifests
  <1> HIDE DEF record
  <1>6. QED
    BY <1>2, <1>5, ReplacedStage

LEMMA ReopenedStages ==
  ASSUME NEW m \in Manifests, NEW forced
  PROVE  /\ Reopen(m, forced).status = "running"
         /\ \A s \in Stages :
              LET record == Reopen(m, forced).stages[s]
              IN  /\ s \in forced \/ m.stages[s].status = "running" =>
                       /\ record.status = "invalidated"
                       /\ record.fingerprint = None /\ record.outputs = None
                       /\ record.attempt = m.stages[s].attempt
                       /\ record.required = m.stages[s].required
                  /\ ~(s \in forced \/ m.stages[s].status = "running") =>
                       record = m.stages[s]
  <1>1. \A s \in Stages :
          /\ Cleared(m.stages[s]).status = "invalidated"
          /\ Cleared(m.stages[s]).fingerprint = None
          /\ Cleared(m.stages[s]).outputs = None
          /\ Cleared(m.stages[s]).attempt = m.stages[s].attempt
          /\ Cleared(m.stages[s]).required = m.stages[s].required
    BY DEF Cleared, Manifests, StageRecords
  <1>2. QED
    BY <1>1 DEF Reopen

\* Only one stage is next.
LEMMA OneNextStage ==
  ASSUME NEW s \in Stages, NEW t \in Stages, NextStage(s), NextStage(t)
  PROVE  s = t
  <1>1. ~(t < s) /\ ~(s < t)
    BY DEF NextStage, Stages
  <1>2. QED
    BY <1>1, GraphAssumption DEF Stages

-----------------------------------------------------------------------------
\* The steps, by what they write.

\* Neither the manifest, nor a canonical file, nor an archive.
QuietStep ==
  \/ AlreadyComplete \/ MoveFails \/ PersistStatus \/ ResumeRefused \/ Kill
  \/ \E s \in Stages : StageFails(s) \/ WriteFailureEvidence(s)
  \/ \E forced \in {0} \union Stages : ResumeBegin(forced)
  \/ UNCHANGED vars

\* Canonical files only.
FileStep ==
  \/ CreateTopology \/ EnsureTopology
  \/ \E r \in (DOMAIN ledgers) \X Stages : RestoreOutput(r)
  \/ \E s \in Stages, digest \in Digests \union {"config"} : PublishOutput(s, digest)
  \/ \E s \in Stages, content \in {None, "damaged"} : DamageOutput(s, content)

\* Archives, and for a move also the file.
ArchiveStep ==
  \/ \E i \in DOMAIN ledgers : SettleLedger(i)
  \/ WriteLedger \/ RolledBack \/ SealLedger \/ MarkCommitted
  \/ \E s \in Stages : MoveOutput(s) \/ MoveBack(s)
  \/ \E s \in Stages, content \in {None, "damaged"}, i \in DOMAIN ledgers : DamageArchive(i, s, content)

\* The manifest, and for an adoption also the file.
ManifestStep ==
  \/ CreateManifest \/ ReopenRun \/ CommitInvalidation \/ PersistSuccess
  \/ \E s \in Stages :
       \/ AdoptOutput(s) \/ SkipDisabled(s) \/ BeginStage(s) \/ FinishRunningStage(s)
       \/ StageUnsupported(s) \/ PersistFailure(s)

LEMMA StepKinds ==
  ASSUME [Next]_vars
  PROVE  QuietStep \/ FileStep \/ ArchiveStep \/ ManifestStep
  <1>1. CASE ProcessStep
    <2>1. CASE \E s \in Stages : AdoptOutput(s) \/ MoveOutput(s) \/ MoveBack(s) \/ ExecuteStage(s)
      BY <2>1 DEF ExecuteStage, QuietStep, FileStep, ArchiveStep, ManifestStep
    <2>2. QED
      BY <1>1, <2>1 DEF ProcessStep, QuietStep, FileStep, ArchiveStep, ManifestStep
  <1>2. CASE Command \/ Kill \/ UNCHANGED vars
    BY <1>2 DEF Command, QuietStep
  <1>3. CASE Damage
    BY <1>3 DEF Damage, FileStep, ArchiveStep
  <1>4. QED
    BY <1>1, <1>2, <1>3 DEF Next

LEMMA QuietStepKeeps ==
  ASSUME QuietStep PROVE UNCHANGED <<manifest, files, ledgers>>
  BY DEF QuietStep, AlreadyComplete, MoveFails, PersistStatus, ResumeRefused, Kill,
         StageFails, WriteFailureEvidence, ResumeBegin, vars, disk

LEMMA FileStepKeeps ==
  ASSUME FileStep PROVE UNCHANGED <<manifest, ledgers>>
  BY DEF FileStep, CreateTopology, EnsureTopology, RestoreOutput, PublishOutput, DamageOutput

LEMMA ArchiveStepKeeps ==
  ASSUME ArchiveStep PROVE UNCHANGED manifest
  BY DEF ArchiveStep, SettleLedger, WriteLedger, RolledBack, SealLedger, MarkCommitted,
         MoveOutput, MoveBack, DamageArchive

LEMMA QuietStepControl ==
  ASSUME TypeOK, QuietStep
  PROVE  \/ UNCHANGED vars
         \/ pc' \in {"idle", "rollback", "execute", "work", "decide", "evidence", "fail", "recover"}
  BY DEF TypeOK, QuietStep, AlreadyComplete, MoveFails, PersistStatus, ResumeRefused, Kill,
         StageFails, WriteFailureEvidence, ResumeBegin, EndCommand

-----------------------------------------------------------------------------
\* Records and outputs.

\* A stage has recorded outputs if and only if it succeeded, and nothing is
\* left of the evidence of an invalidated stage (manifests.py).
OutputsRecorded ==
  \A s \in Stages :
    /\ manifest.stages[s].outputs # None <=> Succeeded(s)
    /\ manifest.stages[s].status = "invalidated" => manifest.stages[s].fingerprint = None

\* No stage has begun before the manifest is written.
NothingBegun ==
  pc \in {"new", "create"} => \A s \in Stages : manifest.stages[s].status = "pending"

\* What a stage has published and not recorded yet is in place.
PublishedInPlace ==
  pc = "finish" => produced # None /\ \A s \in Stages : Working(s) => files[s] = produced

RecordInv == OutputsRecorded /\ NothingBegun /\ PublishedInPlace

\* A step that changes one stage's record, to one that is again honest.
LEMMA RecordStepKeeps ==
  ASSUME OutputsRecorded, NEW s \in Stages,
         \A t \in Stages \ {s} : manifest'.stages[t] = manifest.stages[t],
         manifest'.stages[s].outputs # None <=> manifest'.stages[s].status = "success",
         manifest'.stages[s].status # "invalidated"
  PROVE  OutputsRecorded'
  <1> SUFFICES ASSUME NEW t \in Stages
               PROVE  /\ manifest'.stages[t].outputs # None <=> Succeeded(t)'
                      /\ manifest'.stages[t].status = "invalidated" =>
                           manifest'.stages[t].fingerprint = None
    BY DEF OutputsRecorded
  <1>1. CASE t = s
    BY <1>1 DEF Succeeded
  <1>2. CASE t # s
    BY <1>2 DEF OutputsRecorded, Succeeded
  <1>3. QED
    BY <1>1, <1>2

LEMMA RecordInvInit ==
  Init => RecordInv
  BY DEF Init, InitialStages, RecordInv, OutputsRecorded, NothingBegun, PublishedInPlace, Succeeded

LEMMA RecordInvNext ==
  ASSUME TypeOK, RecordInv, [Next]_vars PROVE RecordInv'
  <1>1. manifest \in Manifests /\ OutputsRecorded
    BY DEF TypeOK, RecordInv
  <1>2. ASSUME UNCHANGED manifest PROVE OutputsRecorded'
    BY <1>1, <1>2 DEF OutputsRecorded, Succeeded
  <1>3. CASE QuietStep
    <2>1. UNCHANGED <<manifest, files, ledgers>>
      BY <1>3, QuietStepKeeps
    <2>2. CASE UNCHANGED vars
      BY <1>2, <2>1, <2>2 DEF RecordInv, NothingBegun, PublishedInPlace, Working, NextStage, Complete,
                              vars, memory
    <2>3. CASE pc' \in {"idle", "rollback", "execute", "work", "decide", "evidence", "fail", "recover"}
      BY <1>2, <2>1, <2>3 DEF RecordInv, NothingBegun, PublishedInPlace
    <2>4. QED
      BY <1>3, <2>2, <2>3, QuietStepControl
  <1>4. CASE FileStep
    <2>1. UNCHANGED <<manifest, ledgers>>
      BY <1>4, FileStepKeeps
    <2>2. CASE \/ CreateTopology \/ EnsureTopology
               \/ \E r \in (DOMAIN ledgers) \X Stages : RestoreOutput(r)
               \/ \E s \in Stages, content \in {None, "damaged"} : DamageOutput(s, content)
      <3>1. pc' \in {"create", "status", "recover", "idle"} /\ (pc' = "create" => pc = "new")
        BY <2>2 DEF CreateTopology, EnsureTopology, WriteStatusThen, RestoreOutput, DamageOutput
      <3>2. QED
        BY <1>2, <2>1, <3>1 DEF RecordInv, NothingBegun, PublishedInPlace
    <2>3. ASSUME NEW s \in Stages, NEW digest \in Digests \union {"config"}, PublishOutput(s, digest)
          PROVE  RecordInv'
      <3>1. pc' = "finish" /\ produced' = digest /\ files' = [files EXCEPT ![s] = digest] /\ Working(s)
        BY <2>3 DEF PublishOutput
      <3>2. digest # None
        BY ContentAssumption DEF Contents
      <3>3. ASSUME NEW t \in Stages, Working(t)' PROVE files'[t] = produced'
        <4>1. Working(t)
          BY <2>1, <3>3 DEF Working, NextStage, Complete
        <4>2. t = s
          BY <3>1, <4>1, OneNextStage DEF Working
        <4>3. QED
          BY <3>1, <4>2 DEF TypeOK
      <3>4. QED
        BY <1>2, <2>1, <3>1, <3>2, <3>3 DEF RecordInv, NothingBegun, PublishedInPlace
    <2>4. QED
      BY <1>4, <2>2, <2>3 DEF FileStep
  <1>5. CASE ArchiveStep
    <2>1. pc' \in {"idle", "recover", "move", "rollback", "invalidate", "topology"}
      BY <1>5 DEF ArchiveStep, SettleLedger, WriteLedger, RolledBack, EndCommand, SealLedger,
                  MarkCommitted, MoveOutput, MoveBack, DamageArchive
    <2>2. QED
      BY <1>2, <1>5, <2>1, ArchiveStepKeeps DEF RecordInv, NothingBegun, PublishedInPlace
  <1>6. CASE ManifestStep
    <2>1. pc' \in {"status", "topology", "mark"}
      BY <1>6 DEF ManifestStep, CreateManifest, ReopenRun, CommitInvalidation, PersistSuccess,
                  AdoptOutput, SkipDisabled, BeginStage, FinishRunningStage, StageUnsupported,
                  PersistFailure, WriteStatusThen
    <2>2. NothingBegun' /\ PublishedInPlace'
      BY <2>1 DEF NothingBegun, PublishedInPlace
    <2>3. ASSUME manifest'.stages = manifest.stages PROVE OutputsRecorded'
      BY <1>1, <2>3 DEF OutputsRecorded, Succeeded
    <2>4. ASSUME CreateManifest \/ PersistSuccess PROVE OutputsRecorded'
      <3>1. manifest'.stages = manifest.stages
        BY <1>1, <2>4 DEF CreateManifest, PersistSuccess, Succeed, Manifests
      <3>2. QED
        BY <2>3, <3>1
    <2>5. ASSUME ReopenRun \/ CommitInvalidation PROVE OutputsRecorded'
      <3>1. PICK forced : manifest' = Reopen(manifest, forced)
        BY <2>5 DEF ReopenRun, CommitInvalidation
      <3>2. ASSUME NEW s \in Stages
            PROVE  /\ manifest'.stages[s].outputs # None <=> Succeeded(s)'
                   /\ manifest'.stages[s].status = "invalidated" =>
                        manifest'.stages[s].fingerprint = None
        <4>1. CASE s \in forced \/ manifest.stages[s].status = "running"
          BY <1>1, <3>1, <4>1, ReopenedStages DEF Succeeded
        <4>2. CASE ~(s \in forced \/ manifest.stages[s].status = "running")
          <5>1. manifest'.stages[s] = manifest.stages[s]
            BY <1>1, <3>1, <4>2, ReopenedStages
          <5>2. QED
            BY <1>1, <5>1 DEF OutputsRecorded, Succeeded
        <4>3. QED
          BY <4>1, <4>2
      <3>3. QED
        BY <3>2 DEF OutputsRecorded
    <2>6. ASSUME NEW s \in Stages, AdoptOutput(s) PROVE OutputsRecorded'
      <3>1. manifest' = FinishStage(manifest, s, Published(s)) /\ Published(s) # None
        BY <2>6 DEF AdoptOutput, Adoptable
      <3>2. QED
        BY <1>1, <3>1, FinishedStage, RecordStepKeeps
    <2>7. ASSUME NEW s \in Stages, SkipDisabled(s) PROVE OutputsRecorded'
      BY <1>1, <2>7, SkippedStage, RecordStepKeeps DEF SkipDisabled
    <2>8. ASSUME NEW s \in Stages, BeginStage(s) PROVE OutputsRecorded'
      BY <1>1, <2>8, StartedStage, RecordStepKeeps DEF BeginStage
    <2>9. ASSUME NEW s \in Stages, FinishRunningStage(s) PROVE OutputsRecorded'
      <3>1. manifest' = FinishStage(manifest, s, produced) /\ produced # None
        BY <2>9 DEF FinishRunningStage, RecordInv, PublishedInPlace
      <3>2. QED
        BY <1>1, <3>1, FinishedStage, RecordStepKeeps
    <2>10. ASSUME NEW s \in Stages, StageUnsupported(s) \/ PersistFailure(s) PROVE OutputsRecorded'
      <3>1. manifest.stages[s].outputs = None
        BY <1>1, <2>10 DEF StageUnsupported, PersistFailure, Working, OutputsRecorded, Succeeded
      <3>2. QED
        BY <1>1, <2>10, <3>1, UnsupportedStage, FailedStage, RecordStepKeeps
           DEF StageUnsupported, PersistFailure
    <2>11. QED
      BY <1>6, <2>2, <2>4, <2>5, <2>6, <2>7, <2>8, <2>9, <2>10 DEF ManifestStep, RecordInv
  <1>7. QED
    BY <1>3, <1>4, <1>5, <1>6, StepKinds

\* In every reachable state a stage has outputs exactly when it succeeded, and
\* an invalidated one has no evidence left (manifests.py, with_stage).
THEOREM RecordsAreHonest == Spec => []RecordInv
  BY RecordInvInit, RecordInvNext, TypeCorrect, PTL DEF Spec

-----------------------------------------------------------------------------
\* Archives under way.

\* What a step does to one archive ledger and to the others.
StateMoves(i, state) ==
  /\ DOMAIN ledgers' = DOMAIN ledgers /\ Len(ledgers') = Len(ledgers)
  /\ ledgers'[i].state = state /\ ledgers'[i].names = ledgers[i].names
  /\ ledgers'[i].previous = ledgers[i].previous /\ ledgers'[i].kept = ledgers[i].kept
  /\ \A j \in DOMAIN ledgers \ {i} : ledgers'[j] = ledgers[j]

KeptBecomes(i, s, output) ==
  /\ DOMAIN ledgers' = DOMAIN ledgers /\ Len(ledgers') = Len(ledgers)
  /\ ledgers'[i].state = ledgers[i].state /\ ledgers'[i].names = ledgers[i].names
  /\ ledgers'[i].previous = ledgers[i].previous /\ ledgers'[i].kept[s] = output
  /\ \A t \in Stages \ {s} : ledgers'[i].kept[t] = ledgers[i].kept[t]
  /\ \A j \in DOMAIN ledgers \ {i} : ledgers'[j] = ledgers[j]

LEMMA StateUpdate ==
  ASSUME ledgers \in Seq(Ledgers), NEW i \in DOMAIN ledgers, NEW state,
         ledgers' = [ledgers EXCEPT ![i].state = state]
  PROVE  StateMoves(i, state)
  <1>1. ledgers[i] \in Ledgers
    OBVIOUS
  <1>2. ledgers[i] = [state |-> ledgers[i].state, names |-> ledgers[i].names,
                      previous |-> ledgers[i].previous, kept |-> ledgers[i].kept]
    BY <1>1 DEF Ledgers
  <1>3. QED
    BY <1>2 DEF StateMoves

LEMMA KeptUpdate ==
  ASSUME ledgers \in Seq(Ledgers), NEW i \in DOMAIN ledgers, NEW s \in Stages, NEW o,
         ledgers' = [ledgers EXCEPT ![i].kept[s] = o]
  PROVE  KeptBecomes(i, s, o)
  <1>1. ledgers[i] \in Ledgers
    OBVIOUS
  <1>2. /\ ledgers[i] = [state |-> ledgers[i].state, names |-> ledgers[i].names,
                         previous |-> ledgers[i].previous, kept |-> ledgers[i].kept]
        /\ ledgers[i].kept \in [Stages -> Outputs]
    BY <1>1 DEF Ledgers
  <1>3. QED
    BY <1>2, SMTT(30) DEF KeptBecomes

Transaction == {"move", "rollback", "invalidate", "mark"}

LEMMA LastLedger ==
  ASSUME TypeOK, pc \in Transaction
  PROVE  Len(ledgers) \in DOMAIN ledgers /\ Archiving = ledgers[Len(ledgers)] /\ Archiving \in Ledgers
  <1>1. ledgers \in Seq(Ledgers) /\ ledgers # <<>>
    BY DEF TypeOK, Transaction
  <1>2. Len(ledgers) \in DOMAIN ledgers
    BY <1>1
  <1>3. QED
    BY <1>1, <1>2 DEF Archiving

\* The step of each action on the archives.
LEMMA ArchiveEffects ==
  ASSUME TypeOK
  PROVE  /\ \A i \in DOMAIN ledgers : SettleLedger(i) =>
              \E state \in {"recovered", "manifest_committed"} : StateMoves(i, state)
         /\ RolledBack => StateMoves(Len(ledgers), "rolled_back")
         /\ SealLedger => StateMoves(Len(ledgers), "outputs_archived")
         /\ MarkCommitted => StateMoves(Len(ledgers), "manifest_committed")
         /\ \A s \in Stages : MoveOutput(s) => KeptBecomes(Len(ledgers), s, files[s])
         /\ \A s \in Stages : MoveBack(s) => KeptBecomes(Len(ledgers), s, None)
         /\ \A i \in DOMAIN ledgers, s \in Stages, content \in {None, "damaged"} :
              DamageArchive(i, s, content) => KeptBecomes(i, s, content)
  <1>1. ledgers \in Seq(Ledgers)
    BY DEF TypeOK
  <1>2. ASSUME NEW i \in DOMAIN ledgers, SettleLedger(i)
        PROVE  \E state \in {"recovered", "manifest_committed"} : StateMoves(i, state)
    <2>1. PICK state \in {"recovered", "manifest_committed"} :
            ledgers' = [ledgers EXCEPT ![i].state = state]
      BY <1>2 DEF SettleLedger
    <2>2. QED
      BY <1>1, <2>1, StateUpdate
  <1>3. ASSUME RolledBack PROVE StateMoves(Len(ledgers), "rolled_back")
    BY <1>1, <1>3, LastLedger, StateUpdate DEF RolledBack, Transaction
  <1>4. ASSUME SealLedger PROVE StateMoves(Len(ledgers), "outputs_archived")
    BY <1>1, <1>4, LastLedger, StateUpdate DEF SealLedger, Transaction
  <1>5. ASSUME MarkCommitted PROVE StateMoves(Len(ledgers), "manifest_committed")
    BY <1>1, <1>5, LastLedger, StateUpdate DEF MarkCommitted, Transaction
  <1>6. ASSUME NEW s \in Stages, MoveOutput(s) PROVE KeptBecomes(Len(ledgers), s, files[s])
    BY <1>1, <1>6, LastLedger, KeptUpdate DEF MoveOutput, Transaction
  <1>7. ASSUME NEW s \in Stages, MoveBack(s) PROVE KeptBecomes(Len(ledgers), s, None)
    BY <1>1, <1>7, LastLedger, KeptUpdate DEF MoveBack, Transaction
  <1>8. ASSUME NEW i \in DOMAIN ledgers, NEW s \in Stages, NEW content \in {None, "damaged"},
               DamageArchive(i, s, content)
        PROVE  KeptBecomes(i, s, content)
    BY <1>1, <1>8, KeptUpdate DEF DamageArchive
  <1>9. QED
    BY <1>2, <1>3, <1>4, <1>5, <1>6, <1>7, <1>8

\* At most one archive is pending, and unless a recovery is still to settle it,
\* it is the last one and its own transaction is running; only a forced resume
\* runs one.
PendingPlaced ==
  /\ \A i \in DOMAIN ledgers : Pending(i) =>
       /\ \A j \in DOMAIN ledgers : Pending(j) => j = i
       /\ pc \in {"idle", "recover"} \/ (pc \in Transaction /\ i = Len(ledgers))
  /\ pc \in Transaction => force # 0

LEMMA NothingPending ==
  ASSUME PendingPlaced, Deciding \/ pc \notin {"idle", "recover"} \union Transaction
  PROVE  ~SomePending
  BY DEF PendingPlaced, Deciding, SomePending, Transaction

LEMMA LedgerWritten ==
  ASSUME TypeOK, WriteLedger
  PROVE  /\ Len(ledgers') = Len(ledgers) + 1 /\ DOMAIN ledgers' = 1 .. Len(ledgers) + 1
         /\ Len(ledgers) \in Nat /\ DOMAIN ledgers = 1 .. Len(ledgers)
         /\ \A j \in DOMAIN ledgers : ledgers'[j] = ledgers[j]
         /\ ledgers'[Len(ledgers')].state = "preparing"
         /\ ledgers'[Len(ledgers')].names = Descendants[force]
         /\ Descendants[force] \subseteq Stages
         /\ ledgers'[Len(ledgers')].previous = manifest.stages
         /\ \A s \in Stages : ledgers'[Len(ledgers')].kept[s] = None
  <1> DEFINE ledger == [ state    |-> "preparing",
                         names    |-> Descendants[force],
                         previous |-> manifest.stages,
                         kept     |-> [s \in Stages |-> None] ]
  <1>1. ledgers \in Seq(Ledgers) /\ force \in Stages
    BY DEF TypeOK, WriteLedger
  <1>2. ledgers' = Append(ledgers, ledger)
    BY DEF WriteLedger
  <1>3. Descendants[force] \subseteq Stages
    BY <1>1 DEF Descendants
  <1>4. /\ ledger.state = "preparing" /\ ledger.names = Descendants[force]
        /\ ledger.previous = manifest.stages /\ \A s \in Stages : ledger.kept[s] = None
    OBVIOUS
  <1> HIDE DEF ledger
  <1>5. QED
    BY <1>1, <1>2, <1>3, <1>4

LEMMA PendingPlacedNext ==
  ASSUME TypeOK, PendingPlaced, [Next]_vars PROVE PendingPlaced'
  <1>1. ledgers \in Seq(Ledgers) /\ Len(ledgers) \in Nat
    BY DEF TypeOK
  <1>2. ASSUME UNCHANGED ledgers, ~SomePending, pc' \notin Transaction PROVE PendingPlaced'
    BY <1>2 DEF PendingPlaced, SomePending, Pending
  <1>3. ASSUME UNCHANGED <<ledgers, pc, force>> PROVE PendingPlaced'
    BY <1>3 DEF PendingPlaced, Pending
  <1>4. ASSUME UNCHANGED ledgers, pc' \in {"idle", "recover"} PROVE PendingPlaced'
    BY <1>4 DEF PendingPlaced, Pending, Transaction
  <1>5. ASSUME UNCHANGED <<ledgers, force>>, pc \in Transaction, pc' \in Transaction PROVE PendingPlaced'
    BY <1>5 DEF PendingPlaced, Pending, Transaction
  <1>6. CASE QuietStep
    <2>1. CASE MoveFails
      BY <2>1, <1>5 DEF MoveFails, memory, disk, Transaction
    <2>2. CASE PersistStatus
      <3>1. ~SomePending
        BY <2>2, NothingPending DEF PersistStatus, Transaction
      <3>2. UNCHANGED ledgers /\ pc' \notin Transaction
        BY <2>2 DEF PersistStatus, EndCommand, disk, TypeOK, Transaction
      <3>3. QED
        BY <3>1, <3>2, <1>2
    <2>3. CASE \E s \in Stages : StageFails(s) \/ WriteFailureEvidence(s)
      <3>1. pc \in {"work", "evidence"} /\ UNCHANGED ledgers /\ pc' \in {"evidence", "fail"}
        BY <2>3 DEF StageFails, WriteFailureEvidence, disk
      <3>2. QED
        BY <3>1, <1>2, NothingPending DEF Transaction
    <2>4. CASE UNCHANGED vars
      BY <2>4, <1>3 DEF vars, disk, memory
    <2>5. CASE AlreadyComplete \/ ResumeRefused \/ Kill
               \/ \E forced \in {0} \union Stages : ResumeBegin(forced)
      BY <2>5, <1>4 DEF AlreadyComplete, ResumeRefused, Kill, ResumeBegin, EndCommand, disk
    <2>6. QED
      BY <1>6, <2>1, <2>2, <2>3, <2>4, <2>5 DEF QuietStep
  <1>7. CASE FileStep
    <2>1. UNCHANGED ledgers
      BY <1>7, FileStepKeeps
    <2>2. CASE \/ \E r \in (DOMAIN ledgers) \X Stages : RestoreOutput(r)
               \/ \E s \in Stages, content \in {None, "damaged"} : DamageOutput(s, content)
      BY <2>1, <2>2, <1>3 DEF RestoreOutput, DamageOutput, memory
    <2>3. CASE \/ CreateTopology \/ EnsureTopology
               \/ \E s \in Stages, digest \in Digests \union {"config"} : PublishOutput(s, digest)
      <3>1. pc \in {"new", "topology", "work"} /\ pc' \in {"create", "status", "finish"}
        BY <2>3 DEF CreateTopology, EnsureTopology, PublishOutput, WriteStatusThen
      <3>2. QED
        BY <2>1, <3>1, <1>2, NothingPending DEF Transaction
    <2>4. QED
      BY <1>7, <2>2, <2>3 DEF FileStep
  <1>8. CASE ArchiveStep
    <2>1. ASSUME NEW i \in DOMAIN ledgers, SettleLedger(i) PROVE PendingPlaced'
      <3>1. PICK state \in {"recovered", "manifest_committed"} : StateMoves(i, state)
        BY <2>1, ArchiveEffects
      <3>2. /\ DOMAIN ledgers' = DOMAIN ledgers
            /\ \A j \in DOMAIN ledgers : Pending(j)' => Pending(j)
        BY <3>1 DEF StateMoves, Pending
      <3>3. pc' = "recover"
        BY <2>1 DEF SettleLedger
      <3>4. QED
        BY <3>2, <3>3 DEF PendingPlaced, Transaction
    <2>2. CASE WriteLedger
      <3>1. /\ Len(ledgers') = Len(ledgers) + 1 /\ DOMAIN ledgers' = 1 .. Len(ledgers) + 1
            /\ \A j \in 1 .. Len(ledgers) : ledgers'[j] = ledgers[j]
        BY <2>2, LedgerWritten
      <3>2. ~SomePending
        BY <2>2, NothingPending DEF WriteLedger
      <3>3. \A j \in DOMAIN ledgers' : Pending(j)' => j = Len(ledgers')
        BY <1>1, <3>1, <3>2 DEF SomePending, Pending
      <3>4. pc' = "move" /\ force' # 0
        BY <2>2 DEF WriteLedger, memory
      <3>5. QED
        BY <3>3, <3>4 DEF PendingPlaced, Transaction
    <2>3. ASSUME NEW state, pc \in Transaction, StateMoves(Len(ledgers), state),
                 \/ state \notin {"preparing", "outputs_archived"} /\ pc' \notin Transaction
                 \/ pc' \in Transaction /\ force' = force
          PROVE  PendingPlaced'
      <3>1. \A j \in DOMAIN ledgers \ {Len(ledgers)} : ~Pending(j)
        BY <2>3 DEF PendingPlaced, Transaction
      <3>2. \A j \in DOMAIN ledgers' : Pending(j)' =>
              j = Len(ledgers') /\ state \in {"preparing", "outputs_archived"}
        BY <2>3, <3>1 DEF StateMoves, Pending
      <3>3. QED
        BY <2>3, <3>2 DEF PendingPlaced
    <2>4. CASE RolledBack
      <3>1. pc = "rollback" /\ pc' = "idle"
        BY <2>4 DEF RolledBack, EndCommand
      <3>2. QED
        BY <2>3, <2>4, <3>1, ArchiveEffects DEF Transaction
    <2>5. CASE SealLedger
      <3>1. pc = "move" /\ pc' = "invalidate" /\ force' = force
        BY <2>5 DEF SealLedger, memory
      <3>2. QED
        BY <2>3, <2>5, <3>1, ArchiveEffects DEF Transaction
    <2>6. CASE MarkCommitted
      <3>1. pc = "mark" /\ pc' = "topology"
        BY <2>6 DEF MarkCommitted
      <3>2. QED
        BY <2>3, <2>6, <3>1, ArchiveEffects DEF Transaction
    <2>7. ASSUME NEW i \in DOMAIN ledgers, NEW s \in Stages, NEW o, KeptBecomes(i, s, o),
                 UNCHANGED <<pc, force>>
          PROVE  PendingPlaced'
      <3>1. /\ DOMAIN ledgers' = DOMAIN ledgers /\ Len(ledgers') = Len(ledgers)
            /\ \A j \in DOMAIN ledgers : Pending(j)' = Pending(j)
        BY <2>7 DEF KeptBecomes, Pending
      <3>2. QED
        BY <2>7, <3>1 DEF PendingPlaced
    <2>8. ASSUME NEW s \in Stages, MoveOutput(s) \/ MoveBack(s) PROVE PendingPlaced'
      <3>1. pc \in Transaction /\ UNCHANGED <<pc, force>>
        BY <2>8 DEF MoveOutput, MoveBack, memory, Transaction
      <3>2. QED
        BY <2>7, <2>8, <3>1, LastLedger, ArchiveEffects
    <2>9. ASSUME NEW s \in Stages, NEW content \in {None, "damaged"}, NEW i \in DOMAIN ledgers,
                 DamageArchive(i, s, content)
          PROVE  PendingPlaced'
      <3>1. UNCHANGED <<pc, force>>
        BY <2>9 DEF DamageArchive, memory
      <3>2. QED
        BY <2>7, <2>9, <3>1, ArchiveEffects
    <2>10. QED
      BY <1>8, <2>1, <2>2, <2>4, <2>5, <2>6, <2>8, <2>9 DEF ArchiveStep
  <1>9. CASE ManifestStep
    <2>1. CASE CommitInvalidation
      BY <2>1, <1>5 DEF CommitInvalidation, disk, memory, Transaction
    <2>2. CASE ReopenRun
      <3>1. UNCHANGED ledgers /\ Deciding /\ pc' = "topology"
        BY <2>2 DEF ReopenRun, disk
      <3>2. QED
        BY <3>1, <1>2, NothingPending DEF Transaction
    <2>3. ASSUME NEW s \in Stages, AdoptOutput(s) PROVE PendingPlaced'
      BY <2>3, <1>2 DEF AdoptOutput, WriteStatusThen, Transaction
    <2>4. CASE \/ CreateManifest \/ PersistSuccess
               \/ \E s \in Stages : \/ SkipDisabled(s) \/ BeginStage(s) \/ FinishRunningStage(s)
                                    \/ StageUnsupported(s) \/ PersistFailure(s)
      <3>1. pc \in {"create", "execute", "finish", "work", "fail"} /\ pc' = "status" /\ UNCHANGED ledgers
        BY <2>4 DEF CreateManifest, PersistSuccess, SkipDisabled, BeginStage, FinishRunningStage,
                    StageUnsupported, PersistFailure, WriteStatusThen, disk
      <3>2. QED
        BY <3>1, <1>2, NothingPending DEF Transaction
    <2>5. QED
      BY <1>9, <2>1, <2>2, <2>3, <2>4 DEF ManifestStep
  <1>10. QED
    BY <1>6, <1>7, <1>8, <1>9, StepKinds

\* At every moment at most one archive transaction is open, and a command that
\* has got past the recovery has none but its own (archive_and_invalidate,
\* recover_forced_archives).
THEOREM OneArchiveTransaction == Spec => []PendingPlaced
  <1>1. Init => PendingPlaced
    BY DEF Init, PendingPlaced, Transaction
  <1>2. QED
    BY <1>1, PendingPlacedNext, TypeCorrect, PTL DEF Spec

-----------------------------------------------------------------------------
\* Evidence.

\* While a recovery runs, every pending archive is one it can settle.
RecoveryPlanned ==
  pc = "recover" => \A i \in DOMAIN ledgers : Pending(i) => Recoverable(i)

\* While an archive transaction runs: until the manifest is committed, the
\* ledger's records are the manifest's and what it keeps is gone from its
\* place; afterwards nothing is left in the manifest of what it names, and
\* everything that had an output is kept as it was recorded.
ArchiveUnderWay ==
  /\ pc \in {"move", "rollback", "invalidate"} =>
       /\ Archiving.previous = manifest.stages
       /\ Archiving.state = IF pc = "invalidate" THEN "outputs_archived" ELSE "preparing"
       /\ \A s \in Moved : files[s] = None
  /\ pc = "invalidate" => Unmoved = {}
  /\ pc = "mark" =>
       /\ Archiving.state = "outputs_archived"
       /\ \A s \in Archiving.names :
            /\ manifest.stages[s].status = "invalidated"
            /\ Archiving.previous[s].outputs # None => Archiving.previous[s].status = "success"
            /\ Archiving.previous[s].status = "invalidated" => Archiving.previous[s].fingerprint = None
       /\ \A s \in WithOutputs(Len(ledgers)) :
            files[s] = None /\ Archiving.kept[s] = Archiving.previous[s].outputs

OutputsHeld == \A s \in Stages : Succeeded(s) => OutputInPlace(s) \/ OutputInArchive(s)

EvidenceInv == RecoveryPlanned /\ ArchiveUnderWay /\ EvidenceIntact

LEMMA HeldWhileRunning ==
  ASSUME EvidenceIntact, pc # "idle" PROVE OutputsHeld
  BY DEF EvidenceIntact, OutputsHeld

\* With nothing pending, every output is in place.
LEMMA AllInPlace ==
  ASSUME OutputsRecorded, OutputsHeld, ~SomePending
  PROVE  \A s \in Stages : Succeeded(s) =>
           /\ OutputInPlace(s)
           /\ files[s] = manifest.stages[s].outputs /\ files[s] # None
  BY DEF OutputsRecorded, OutputsHeld, SomePending, OutputInArchive, OutputInPlace

\* An output that is not in place is kept by the one pending archive.
LEMMA KeptByLast ==
  ASSUME PendingPlaced, pc \in Transaction, NEW s \in Stages, OutputInArchive(s)
  PROVE  /\ files[s] = None /\ Len(ledgers) \in DOMAIN ledgers
         /\ Pending(Len(ledgers)) /\ ClaimsAll(Len(ledgers))
         /\ s \in WithOutputs(Len(ledgers))
         /\ ledgers[Len(ledgers)].kept[s] = manifest.stages[s].outputs
  BY DEF PendingPlaced, OutputInArchive, Transaction

LEMMA RecoveryPlannedNext ==
  ASSUME TypeOK, PendingPlaced, RecoveryPlanned, [Next]_vars
  PROVE  RecoveryPlanned'
  <1> SUFFICES ASSUME pc' = "recover" PROVE RecoveryPlanned'
    BY DEF RecoveryPlanned
  <1>1. ASSUME UNCHANGED <<manifest, files, ledgers>>,
               \A i \in DOMAIN ledgers : Pending(i) => Recoverable(i)
        PROVE  RecoveryPlanned'
    BY <1>1 DEF RecoveryPlanned, Pending, Recoverable, ClaimsAll, ClaimsNone, StillClaims, WithOutputs
  <1>2. CASE QuietStep
    <2>1. pc' = "recover" => UNCHANGED pc \/ \E forced \in {0} \union Stages : ResumeBegin(forced)
      BY <1>2 DEF QuietStep, AlreadyComplete, MoveFails, PersistStatus, ResumeRefused, Kill,
                  StageFails, WriteFailureEvidence, EndCommand, vars, TypeOK
    <2>2. QED
      BY <1>1, <1>2, <2>1, QuietStepKeeps
         DEF RecoveryPlanned, ResumeBegin, ResumeAllowed, PreflightPasses
  <1>3. CASE FileStep
    <2>1. PICK r \in (DOMAIN ledgers) \X Stages : RestoreOutput(r)
      BY <1>3 DEF FileStep, CreateTopology, EnsureTopology, PublishOutput, DamageOutput, WriteStatusThen
    <2>2. /\ UNCHANGED <<manifest, ledgers>> /\ pc = "recover"
          /\ files' = [files EXCEPT ![r[2]] = ledgers[r[1]].kept[r[2]]]
          /\ Pending(r[1]) /\ ClaimsAll(r[1]) /\ r[2] \in WithOutputs(r[1]) /\ files[r[2]] = None
      BY <2>1 DEF RestoreOutput, NextRestoration, Restorations
    <2>3. ledgers[r[1]].kept[r[2]] = ledgers[r[1]].previous[r[2]].outputs
      BY <2>2 DEF RecoveryPlanned, Recoverable
    <2>4. SUFFICES ASSUME NEW i \in DOMAIN ledgers, Pending(i)' PROVE Recoverable(i)'
      BY <2>2 DEF RecoveryPlanned
    <2>5. i = r[1] /\ Recoverable(i)
      BY <2>2, <2>4 DEF PendingPlaced, RecoveryPlanned, Pending
    <2>6. ClaimsAll(i)' = ClaimsAll(i) /\ ClaimsNone(i)' = ClaimsNone(i) /\ WithOutputs(i)' = WithOutputs(i)
      BY <2>2 DEF ClaimsAll, ClaimsNone, StillClaims, WithOutputs
    <2>7. ASSUME NEW s \in WithOutputs(i)
          PROVE  /\ files'[s] \in {None, ledgers[i].previous[s].outputs}
                 /\ files'[s] = files[s] \/ files'[s] = ledgers[i].kept[s]
      <3>1. s \in Stages
        <4>1. ledgers[i] \in Ledgers
          BY DEF TypeOK
        <4>2. QED
          BY <4>1, <2>7 DEF WithOutputs, Ledgers
      <3>2. CASE s = r[2]
        BY <2>2, <2>3, <2>5, <3>1, <3>2 DEF TypeOK
      <3>3. CASE s # r[2]
        BY <2>2, <2>5, <2>7, <3>1, <3>3 DEF TypeOK, Recoverable
      <3>4. QED
        BY <3>2, <3>3
    <2>8. QED
      BY <2>2, <2>5, <2>6, <2>7 DEF Recoverable
  <1>4. CASE ArchiveStep
    <2>1. PICK i \in DOMAIN ledgers : SettleLedger(i)
      <3>1. ASSUME NEW s \in Stages, NEW content \in {None, "damaged"}, NEW i \in DOMAIN ledgers,
                   DamageArchive(i, s, content)
            PROVE  FALSE
        BY <3>1 DEF DamageArchive
      <3>2. QED
        BY <1>4, <3>1 DEF ArchiveStep, WriteLedger, RolledBack, EndCommand, SealLedger, MarkCommitted,
                       MoveOutput, MoveBack
    <2>2. Pending(i) /\ \E state \in {"recovered", "manifest_committed"} : StateMoves(i, state)
      BY <2>1, ArchiveEffects DEF SettleLedger, FirstPending
    <2>3. \A j \in DOMAIN ledgers' : ~Pending(j)'
      BY <2>2 DEF StateMoves, PendingPlaced, Pending
    <2>4. QED
      BY <2>3 DEF RecoveryPlanned
  <1>5. CASE ManifestStep
    BY <1>5 DEF ManifestStep, CreateManifest, ReopenRun, CommitInvalidation, PersistSuccess,
                AdoptOutput, SkipDisabled, BeginStage, FinishRunningStage, StageUnsupported,
                PersistFailure, WriteStatusThen
  <1>6. QED
    BY <1>2, <1>3, <1>4, <1>5, StepKinds

LEMMA ArchiveUnderWayNext ==
  ASSUME TypeOK, OutputsRecorded, PendingPlaced, EvidenceIntact, ArchiveUnderWay, [Next]_vars
  PROVE  ArchiveUnderWay'
  <1> SUFFICES ASSUME pc' \in Transaction PROVE ArchiveUnderWay'
    BY DEF ArchiveUnderWay, Transaction
  <1>1. CASE QuietStep
    <2>1. UNCHANGED <<manifest, files, ledgers>>
      BY <1>1, QuietStepKeeps
    <2>2. UNCHANGED pc \/ (pc = "move" /\ pc' = "rollback")
      BY <1>1 DEF QuietStep, AlreadyComplete, MoveFails, PersistStatus, ResumeRefused, Kill,
                  StageFails, WriteFailureEvidence, ResumeBegin, EndCommand, vars, TypeOK, Transaction
    <2>3. /\ Archiving' = Archiving /\ Moved' = Moved /\ Unmoved' = Unmoved
          /\ WithOutputs(Len(ledgers))' = WithOutputs(Len(ledgers))
      BY <2>1 DEF Archiving, Moved, Unmoved, WithOutputs
    <2>4. QED
      BY <2>1, <2>2, <2>3 DEF ArchiveUnderWay
  <1>2. CASE FileStep
    BY <1>2 DEF FileStep, CreateTopology, EnsureTopology, RestoreOutput, PublishOutput, DamageOutput,
                WriteStatusThen, Transaction
  <1>3. CASE ArchiveStep
    <2>1. UNCHANGED manifest
      BY <1>3, ArchiveStepKeeps
    <2>2. CASE WriteLedger
      <3>1. pc' = "move"
        BY <2>2 DEF WriteLedger
      <3>2. /\ Archiving'.previous = manifest.stages /\ Archiving'.state = "preparing"
            /\ \A s \in Stages : Archiving'.kept[s] = None
            /\ Archiving'.names \subseteq Stages
        BY <2>2, LedgerWritten DEF Archiving
      <3>3. Moved' = {}
        BY <3>2 DEF Moved, Unmoved, WithOutputs, Archiving
      <3>4. QED
        BY <2>1, <3>1, <3>2, <3>3 DEF ArchiveUnderWay
    <2>3. ASSUME NEW s \in Stages, MoveOutput(s) PROVE ArchiveUnderWay'
      <3>1. /\ pc = "move" /\ pc' = "move" /\ files' = [files EXCEPT ![s] = None]
            /\ KeptBecomes(Len(ledgers), s, files[s])
        BY <2>3, ArchiveEffects DEF MoveOutput
      <3>2. /\ Archiving'.previous = Archiving.previous /\ Archiving'.state = Archiving.state
            /\ WithOutputs(Len(ledgers))' = WithOutputs(Len(ledgers))
            /\ \A t \in Stages \ {s} : Archiving'.kept[t] = Archiving.kept[t]
        BY <3>1 DEF KeptBecomes, Archiving, WithOutputs
      <3>3. WithOutputs(Len(ledgers)) \subseteq Stages
        BY <3>1, LastLedger DEF WithOutputs, Transaction, Ledgers
      <3>4. \A t \in Moved' : files'[t] = None
        BY <3>1, <3>2, <3>3 DEF Moved, Unmoved, ArchiveUnderWay, TypeOK
      <3>5. QED
        BY <2>1, <3>1, <3>2, <3>4 DEF ArchiveUnderWay
    <2>4. ASSUME NEW s \in Stages, MoveBack(s) PROVE ArchiveUnderWay'
      <3>1. /\ pc = "rollback" /\ pc' = "rollback" /\ \A t \in Stages \ {s} : files'[t] = files[t]
            /\ KeptBecomes(Len(ledgers), s, None)
        BY <2>4, ArchiveEffects DEF MoveBack, TypeOK
      <3>2. /\ Archiving'.previous = Archiving.previous /\ Archiving'.state = Archiving.state
            /\ WithOutputs(Len(ledgers))' = WithOutputs(Len(ledgers))
            /\ Archiving'.kept[s] = None
            /\ \A t \in Stages \ {s} : Archiving'.kept[t] = Archiving.kept[t]
        BY <3>1 DEF KeptBecomes, Archiving, WithOutputs
      <3>3. WithOutputs(Len(ledgers)) \subseteq Stages
        BY <3>1, LastLedger DEF WithOutputs, Transaction, Ledgers
      <3>4. \A t \in Moved' : files'[t] = None
        BY <3>1, <3>2, <3>3 DEF Moved, Unmoved, ArchiveUnderWay
      <3>5. QED
        BY <2>1, <3>1, <3>2, <3>4 DEF ArchiveUnderWay
    <2>5. CASE SealLedger
      <3>1. /\ pc = "move" /\ pc' = "invalidate" /\ UNCHANGED files /\ Unmoved = {}
            /\ StateMoves(Len(ledgers), "outputs_archived")
        BY <2>5, ArchiveEffects DEF SealLedger
      <3>2. /\ Archiving'.previous = Archiving.previous /\ Archiving'.state = "outputs_archived"
            /\ WithOutputs(Len(ledgers))' = WithOutputs(Len(ledgers))
            /\ Moved' = Moved /\ Unmoved' = Unmoved
        BY <3>1 DEF StateMoves, Archiving, WithOutputs, Moved, Unmoved
      <3>3. QED
        BY <2>1, <3>1, <3>2 DEF ArchiveUnderWay
    <2>6. QED
      BY <1>3, <2>2, <2>3, <2>4, <2>5
         DEF ArchiveStep, SettleLedger, RolledBack, EndCommand, MarkCommitted, DamageArchive, Transaction
  <1>4. CASE ManifestStep
    <2>1. CommitInvalidation
      BY <1>4 DEF ManifestStep, CreateManifest, ReopenRun, PersistSuccess, AdoptOutput, SkipDisabled,
                  BeginStage, FinishRunningStage, StageUnsupported, PersistFailure, WriteStatusThen,
                  Transaction
    <2>2. /\ pc = "invalidate" /\ pc' = "mark" /\ UNCHANGED <<files, ledgers>>
          /\ manifest' = Reopen(manifest, Archiving.names)
      BY <2>1 DEF CommitInvalidation, disk
    <2>3. /\ Archiving \in Ledgers /\ manifest \in Manifests
          /\ Archiving.names \subseteq Stages
      BY <2>2, LastLedger DEF Transaction, TypeOK, Ledgers
    <2>4. /\ Archiving' = Archiving /\ WithOutputs(Len(ledgers))' = WithOutputs(Len(ledgers))
          /\ Archiving.previous = manifest.stages /\ Archiving.state = "outputs_archived"
      BY <2>2 DEF Archiving, WithOutputs, ArchiveUnderWay
    <2>5. ASSUME NEW s \in Archiving.names
          PROVE  /\ manifest'.stages[s].status = "invalidated"
                 /\ Archiving.previous[s].outputs # None => Archiving.previous[s].status = "success"
                 /\ Archiving.previous[s].status = "invalidated" => Archiving.previous[s].fingerprint = None
      BY <2>2, <2>3, <2>4, ReopenedStages DEF OutputsRecorded, Succeeded
    <2>6. ASSUME NEW s \in WithOutputs(Len(ledgers))
          PROVE  files[s] = None /\ Archiving.kept[s] = Archiving.previous[s].outputs
      <3>1. s \in Stages /\ manifest.stages[s].outputs # None
        BY <2>3, <2>4 DEF WithOutputs, Archiving
      <3>2. files[s] = None
        BY <2>2 DEF ArchiveUnderWay, Moved
      <3>3. OutputInArchive(s)
        BY <2>2, <3>1, <3>2, HeldWhileRunning DEF OutputsHeld, OutputsRecorded, OutputInPlace
      <3>4. QED
        BY <2>2, <2>4, <3>1, <3>2, <3>3, KeptByLast DEF Transaction, Archiving
    <2>7. QED
      BY <2>2, <2>4, <2>5, <2>6 DEF ArchiveUnderWay
  <1>5. QED
    BY <1>1, <1>2, <1>3, <1>4, StepKinds

\* A step of one stage, in a state where every output is in place.
LEMMA InPlaceKept ==
  ASSUME \A t \in Stages : Succeeded(t) => OutputInPlace(t),
         NEW s \in Stages,
         \A t \in Stages \ {s} : manifest'.stages[t] = manifest.stages[t] /\ files'[t] = files[t],
         manifest'.stages[s].status = "success" => files'[s] = manifest'.stages[s].outputs
  PROVE  OutputsHeld'
  <1> SUFFICES ASSUME NEW t \in Stages, Succeeded(t)' PROVE OutputInPlace(t)'
    BY DEF OutputsHeld
  <1>1. CASE t = s
    BY <1>1 DEF Succeeded, OutputInPlace
  <1>2. CASE t # s
    BY <1>2 DEF Succeeded, OutputInPlace
  <1>3. QED
    BY <1>1, <1>2

LEMMA HeldByFileStep ==
  ASSUME TypeOK, RecordInv, PendingPlaced, RecoveryPlanned, OutputsHeld, pc # "idle", FileStep
  PROVE  OutputsHeld'
  <1>1. UNCHANGED <<manifest, ledgers>>
    BY FileStepKeeps
  <1>2. files \in [Stages -> Outputs]
    BY DEF TypeOK
  <1>3. CASE CreateTopology
    BY <1>1, <1>3 DEF CreateTopology, RecordInv, NothingBegun, OutputsHeld, Succeeded
  <1>4. CASE EnsureTopology
    <2>1. ~SomePending
      BY <1>4, NothingPending DEF EnsureTopology, Transaction
    <2>2. \A s \in Stages : Succeeded(s) => OutputInPlace(s) /\ files[s] # None
      BY <2>1, AllInPlace DEF RecordInv
    <2>3. \A s \in Stages : files[s] # None => files'[s] = files[s]
      BY <1>2, <1>4 DEF EnsureTopology, WithTopology
    <2>4. QED
      BY <1>1, <2>2, <2>3 DEF OutputsHeld, Succeeded, OutputInPlace
  <1>5. ASSUME NEW r \in (DOMAIN ledgers) \X Stages, RestoreOutput(r) PROVE OutputsHeld'
    <2>1. /\ pc = "recover" /\ files' = [files EXCEPT ![r[2]] = ledgers[r[1]].kept[r[2]]]
          /\ r[2] \in Stages
          /\ Pending(r[1]) /\ ClaimsAll(r[1]) /\ r[2] \in WithOutputs(r[1]) /\ files[r[2]] = None
      BY <1>5 DEF RestoreOutput, NextRestoration, Restorations
    <2>2. /\ ledgers[r[1]].kept[r[2]] = ledgers[r[1]].previous[r[2]].outputs
          /\ manifest.stages[r[2]].outputs = ledgers[r[1]].previous[r[2]].outputs
      BY <2>1 DEF RecoveryPlanned, Recoverable, ClaimsAll, StillClaims, WithOutputs
    <2>3. ASSUME NEW s \in Stages, s # r[2], Succeeded(s)
          PROVE  (OutputInPlace(s) \/ OutputInArchive(s))'
      <3>1. files'[s] = files[s]
        BY <1>2, <2>1, <2>3
      <3>2. OutputInPlace(s)' = OutputInPlace(s) /\ OutputInArchive(s)' = OutputInArchive(s)
        BY <1>1, <3>1 DEF OutputInPlace, OutputInArchive, Pending, ClaimsAll, StillClaims, WithOutputs
      <3>3. QED
        BY <2>3, <3>2 DEF OutputsHeld
    <2>4. OutputInPlace(r[2])'
      BY <1>1, <1>2, <2>1, <2>2 DEF OutputInPlace
    <2>5. QED
      BY <1>1, <2>3, <2>4 DEF OutputsHeld, Succeeded
  <1>6. ASSUME NEW s \in Stages, NEW digest \in Digests \union {"config"}, PublishOutput(s, digest)
        PROVE  OutputsHeld'
    <2>1. pc = "work" /\ ~Succeeded(s) /\ \A t \in Stages \ {s} : files'[t] = files[t]
      BY <1>2, <1>6 DEF PublishOutput, Working, Succeeded
    <2>2. \A t \in Stages : Succeeded(t) => OutputInPlace(t)
      BY <2>1, NothingPending, AllInPlace DEF RecordInv, Transaction
    <2>3. QED
      BY <1>1, <2>1, <2>2, InPlaceKept DEF Succeeded
  <1>7. QED
    BY <1>3, <1>4, <1>5, <1>6 DEF FileStep, DamageOutput

LEMMA HeldByArchiveStep ==
  ASSUME TypeOK, RecordInv, PendingPlaced, ArchiveUnderWay, OutputsHeld, pc # "idle", ArchiveStep
  PROVE  OutputsHeld'
  <1>1. UNCHANGED manifest
    BY ArchiveStepKeeps
  <1>2. files \in [Stages -> Outputs]
    BY DEF TypeOK
  <1>3. ASSUME UNCHANGED files, \A s \in Stages : Succeeded(s) => OutputInPlace(s)
        PROVE  OutputsHeld'
    BY <1>1, <1>3 DEF OutputsHeld, Succeeded, OutputInPlace
  <1>4. ASSUME NEW i \in DOMAIN ledgers, SettleLedger(i) PROVE OutputsHeld'
    <2>1. ASSUME NEW s \in Stages, OutputInArchive(s) PROVE FALSE
      <3>1. PICK j \in DOMAIN ledgers :
              Pending(j) /\ ClaimsAll(j) /\ s \in WithOutputs(j) /\ files[s] = None
        BY <2>1 DEF OutputInArchive
      <3>2. <<j, s>> \in Restorations
        BY <3>1 DEF Restorations
      <3>3. QED
        BY <1>4, <3>2 DEF SettleLedger
    <2>2. QED
      BY <1>3, <1>4, <2>1 DEF OutputsHeld, SettleLedger
  <1>5. CASE WriteLedger
    BY <1>3, <1>5 DEF WriteLedger, EvidenceVerified
  <1>6. CASE RolledBack
    <2>1. pc = "rollback" /\ Moved = {} /\ UNCHANGED files
      BY <1>6 DEF RolledBack
    <2>2. ASSUME NEW s \in Stages, Succeeded(s), OutputInArchive(s) PROVE FALSE
      <3>1. s \in WithOutputs(Len(ledgers)) /\ ledgers[Len(ledgers)].kept[s] # None
        BY <2>1, <2>2, KeptByLast DEF Transaction, RecordInv, OutputsRecorded
      <3>2. QED
        BY <2>1, <3>1 DEF Moved, Unmoved, Archiving
    <2>3. QED
      BY <1>3, <2>1, <2>2 DEF OutputsHeld
  <1>7. CASE SealLedger
    <2>1. pc = "move" /\ UNCHANGED files /\ StateMoves(Len(ledgers), "outputs_archived")
      BY <1>7, ArchiveEffects DEF SealLedger
    <2>2. ASSUME NEW s \in Stages, OutputInArchive(s) PROVE OutputInArchive(s)'
      <3>1. /\ files[s] = None /\ Len(ledgers) \in DOMAIN ledgers /\ ClaimsAll(Len(ledgers))
            /\ s \in WithOutputs(Len(ledgers))
            /\ ledgers[Len(ledgers)].kept[s] = manifest.stages[s].outputs
        BY <2>1, <2>2, KeptByLast DEF Transaction
      <3>2. /\ Pending(Len(ledgers))' /\ ClaimsAll(Len(ledgers))'
            /\ s \in WithOutputs(Len(ledgers))'
        BY <1>1, <2>1, <3>1 DEF StateMoves, Pending, ClaimsAll, StillClaims, WithOutputs
      <3>3. QED
        BY <1>1, <2>1, <3>1, <3>2 DEF OutputInArchive, StateMoves
    <2>3. QED
      BY <1>1, <2>1, <2>2 DEF OutputsHeld, Succeeded, OutputInPlace
  <1>8. CASE MarkCommitted
    <2>1. pc = "mark" /\ UNCHANGED files
      BY <1>8 DEF MarkCommitted
    <2>2. ASSUME NEW s \in Stages, Succeeded(s), OutputInArchive(s) PROVE FALSE
      <3>1. s \in WithOutputs(Len(ledgers))
        BY <2>1, <2>2, KeptByLast DEF Transaction
      <3>2. manifest.stages[s].status = "invalidated"
        BY <2>1, <3>1 DEF WithOutputs, ArchiveUnderWay, Archiving
      <3>3. QED
        BY <2>2, <3>2 DEF Succeeded
    <2>3. QED
      BY <1>3, <2>1, <2>2 DEF OutputsHeld
  <1>9. ASSUME NEW s \in Stages, MoveOutput(s) PROVE OutputsHeld'
    <2>1. /\ pc = "move" /\ files' = [files EXCEPT ![s] = None] /\ s \in Unmoved
          /\ KeptBecomes(Len(ledgers), s, files[s])
      BY <1>9, ArchiveEffects DEF MoveOutput
    <2>2. /\ Len(ledgers) \in DOMAIN ledgers /\ ledgers[Len(ledgers)].previous = manifest.stages
          /\ ledgers[Len(ledgers)].state = "preparing" /\ ledgers[Len(ledgers)].names \subseteq Stages
      BY <2>1, LastLedger DEF Transaction, ArchiveUnderWay, Ledgers
    <2>3. /\ Len(ledgers)' = Len(ledgers) /\ Len(ledgers)' \in DOMAIN ledgers'
          /\ Pending(Len(ledgers))' /\ ClaimsAll(Len(ledgers))'
          /\ WithOutputs(Len(ledgers))' = WithOutputs(Len(ledgers))
      BY <1>1, <2>1, <2>2 DEF KeptBecomes, Pending, ClaimsAll, StillClaims, WithOutputs
    <2>4. ASSUME NEW t \in Stages, Succeeded(t) PROVE (OutputInPlace(t) \/ OutputInArchive(t))'
      <3>1. CASE t = s
        <4>1. files[s] = manifest.stages[s].outputs
          <5>1. CASE OutputInArchive(s)
            <6>1. ledgers[Len(ledgers)].kept[s] = manifest.stages[s].outputs
              BY <2>1, <5>1, KeptByLast DEF Transaction
            <6>2. QED
              BY <2>1, <2>4, <3>1, <6>1 DEF Unmoved, Archiving, RecordInv, OutputsRecorded
          <5>2. CASE ~OutputInArchive(s)
            BY <2>4, <3>1, <5>2 DEF OutputsHeld, OutputInPlace, RecordInv, OutputsRecorded
          <5>3. QED
            BY <5>1, <5>2
        <4>2. files'[s] = None /\ ledgers'[Len(ledgers)].kept[s] = manifest'.stages[s].outputs
          BY <1>1, <1>2, <2>1, <4>1 DEF KeptBecomes
        <4>3. s \in WithOutputs(Len(ledgers))'
          BY <2>1, <2>3 DEF Unmoved
        <4>4. QED
          BY <2>3, <3>1, <4>2, <4>3 DEF OutputInArchive
      <3>2. CASE t # s
        <4>1. files'[t] = files[t]
          BY <1>2, <2>1, <3>2
        <4>2. CASE OutputInArchive(t)
          <5>1. /\ files[t] = None /\ t \in WithOutputs(Len(ledgers))
                /\ ledgers[Len(ledgers)].kept[t] = manifest.stages[t].outputs
            BY <2>1, <4>2, KeptByLast DEF Transaction
          <5>2. ledgers'[Len(ledgers)].kept[t] = manifest'.stages[t].outputs
            BY <1>1, <2>1, <3>2, <5>1 DEF KeptBecomes
          <5>3. QED
            BY <2>3, <4>1, <5>1, <5>2 DEF OutputInArchive
        <4>3. QED
          BY <1>1, <2>4, <4>1, <4>2 DEF OutputsHeld, OutputInPlace
      <3>3. QED
        BY <3>1, <3>2
    <2>5. QED
      BY <1>1, <2>4 DEF OutputsHeld, Succeeded
  <1>10. ASSUME NEW s \in Stages, MoveBack(s) PROVE OutputsHeld'
    <2>1. /\ pc = "rollback" /\ files' = [files EXCEPT ![s] = ledgers[Len(ledgers)].kept[s]]
          /\ s \in Moved /\ KeptBecomes(Len(ledgers), s, None)
      BY <1>10, ArchiveEffects DEF MoveBack, Archiving
    <2>2. /\ Len(ledgers) \in DOMAIN ledgers /\ ledgers[Len(ledgers)].previous = manifest.stages
          /\ ledgers[Len(ledgers)].state = "preparing" /\ ledgers[Len(ledgers)].names \subseteq Stages
          /\ files[s] = None
      BY <2>1, LastLedger DEF Transaction, ArchiveUnderWay, Ledgers
    <2>3. /\ Len(ledgers)' = Len(ledgers) /\ Len(ledgers)' \in DOMAIN ledgers'
          /\ Pending(Len(ledgers))' /\ ClaimsAll(Len(ledgers))'
          /\ WithOutputs(Len(ledgers))' = WithOutputs(Len(ledgers))
      BY <1>1, <2>1, <2>2 DEF KeptBecomes, Pending, ClaimsAll, StillClaims, WithOutputs
    <2>4. ASSUME NEW t \in Stages, Succeeded(t) PROVE (OutputInPlace(t) \/ OutputInArchive(t))'
      <3>1. CASE t = s
        <4>1. OutputInArchive(s)
          BY <2>2, <2>4, <3>1 DEF OutputsHeld, OutputInPlace, RecordInv, OutputsRecorded
        <4>2. ledgers[Len(ledgers)].kept[s] = manifest.stages[s].outputs
          BY <2>1, <4>1, KeptByLast DEF Transaction
        <4>3. QED
          BY <1>1, <1>2, <2>1, <3>1, <4>2 DEF OutputInPlace
      <3>2. CASE t # s
        <4>1. files'[t] = files[t]
          BY <1>2, <2>1, <3>2
        <4>2. CASE OutputInArchive(t)
          <5>1. /\ files[t] = None /\ t \in WithOutputs(Len(ledgers))
                /\ ledgers[Len(ledgers)].kept[t] = manifest.stages[t].outputs
            BY <2>1, <4>2, KeptByLast DEF Transaction
          <5>2. ledgers'[Len(ledgers)].kept[t] = manifest'.stages[t].outputs
            BY <1>1, <2>1, <3>2, <5>1 DEF KeptBecomes
          <5>3. QED
            BY <2>3, <4>1, <5>1, <5>2 DEF OutputInArchive
        <4>3. QED
          BY <1>1, <2>4, <4>1, <4>2 DEF OutputsHeld, OutputInPlace
      <3>3. QED
        BY <3>1, <3>2
    <2>5. QED
      BY <1>1, <2>4 DEF OutputsHeld, Succeeded
  <1>11. QED
    BY <1>4, <1>5, <1>6, <1>7, <1>8, <1>9, <1>10 DEF ArchiveStep, DamageArchive

LEMMA HeldByManifestStep ==
  ASSUME TypeOK, RecordInv, PendingPlaced, ArchiveUnderWay, OutputsHeld, pc # "idle", ManifestStep
  PROVE  OutputsHeld'
  <1>1. manifest \in Manifests /\ files \in [Stages -> Outputs]
    BY DEF TypeOK
  <1>2. CASE CreateManifest
    <2>1. \A s \in Stages : manifest'.stages[s].status = "pending"
      BY <1>1, <1>2 DEF CreateManifest, RecordInv, NothingBegun, Manifests
    <2>2. QED
      BY <2>1 DEF OutputsHeld, Succeeded
  <1>3. CASE CommitInvalidation
    <2>1. /\ pc = "invalidate" /\ UNCHANGED files
          /\ manifest' = Reopen(manifest, Archiving.names)
      BY <1>3 DEF CommitInvalidation, disk
    <2>2. ASSUME NEW s \in Stages, Succeeded(s)' PROVE OutputInPlace(s)'
      <3>1. s \notin Archiving.names /\ manifest'.stages[s] = manifest.stages[s]
        BY <1>1, <2>1, <2>2, ReopenedStages DEF Succeeded
      <3>2. ~OutputInArchive(s)
        BY <2>1, <3>1, KeptByLast DEF Transaction, WithOutputs, Archiving
      <3>3. QED
        BY <2>1, <2>2, <3>1, <3>2 DEF OutputsHeld, Succeeded, OutputInPlace
    <2>3. QED
      BY <2>2 DEF OutputsHeld
  <1>4. ASSUME ~CreateManifest, ~CommitInvalidation
        PROVE  \A s \in Stages : Succeeded(s) => OutputInPlace(s)
    <2>1. ~SomePending
      BY <1>4, NothingPending
         DEF ManifestStep, ReopenRun, PersistSuccess, AdoptOutput, SkipDisabled, BeginStage,
             FinishRunningStage, StageUnsupported, PersistFailure, Transaction
    <2>2. QED
      BY <2>1, AllInPlace DEF RecordInv
  <1>5. CASE ReopenRun
    <2>1. manifest' = Reopen(manifest, {}) /\ UNCHANGED files /\ EvidenceVerified
      BY <1>5 DEF ReopenRun, disk
    <2>2. ASSUME NEW s \in Stages, Succeeded(s)' PROVE OutputInPlace(s)'
      <3>1. manifest'.stages[s] = manifest.stages[s]
        BY <1>1, <2>1, <2>2, ReopenedStages DEF Succeeded
      <3>2. QED
        BY <2>1, <2>2, <3>1 DEF EvidenceVerified, Succeeded, OutputInPlace
    <2>3. QED
      BY <2>2 DEF OutputsHeld
  <1>6. CASE PersistSuccess
    <2>1. manifest'.stages = manifest.stages /\ UNCHANGED files
      BY <1>1, <1>6 DEF PersistSuccess, Succeed, Manifests, disk
    <2>2. \A s \in Stages : Succeeded(s) => OutputInPlace(s)
      BY <1>4, <1>6 DEF CreateManifest, CommitInvalidation, PersistSuccess
    <2>3. QED
      BY <2>1, <2>2 DEF OutputsHeld, Succeeded, OutputInPlace
  <1>7. ASSUME NEW s \in Stages,
               \/ AdoptOutput(s) \/ SkipDisabled(s) \/ BeginStage(s) \/ FinishRunningStage(s)
               \/ StageUnsupported(s) \/ PersistFailure(s)
        PROVE  OutputsHeld'
    <2>1. pc \notin {"create", "invalidate"}
      BY <1>7 DEF AdoptOutput, SkipDisabled, BeginStage, FinishRunningStage, StageUnsupported, PersistFailure
    <2>2. \A t \in Stages : Succeeded(t) => OutputInPlace(t)
      BY <1>4, <2>1 DEF CreateManifest, CommitInvalidation
    <2>3. \A t \in Stages \ {s} : files'[t] = files[t]
      BY <1>1, <1>7 DEF AdoptOutput, SkipDisabled, BeginStage, FinishRunningStage, StageUnsupported,
                        PersistFailure, disk
    <2>4. CASE AdoptOutput(s)
      <3>1. manifest' = FinishStage(manifest, s, Published(s)) /\ files'[s] = Published(s)
        BY <1>1, <2>4 DEF AdoptOutput
      <3>2. QED
        BY <1>1, <2>2, <2>3, <3>1, FinishedStage, InPlaceKept
    <2>5. CASE FinishRunningStage(s)
      <3>1. manifest' = FinishStage(manifest, s, produced) /\ files'[s] = produced
        BY <2>5 DEF FinishRunningStage, RecordInv, PublishedInPlace, disk
      <3>2. QED
        BY <1>1, <2>2, <2>3, <3>1, FinishedStage, InPlaceKept
    <2>6. CASE SkipDisabled(s) \/ BeginStage(s) \/ StageUnsupported(s) \/ PersistFailure(s)
      <3>1. \/ manifest' = SkipStage(manifest, s) \/ manifest' = StartStage(manifest, s)
            \/ manifest' = MarkUnsupported(manifest, s) \/ manifest' = FailStage(manifest, s)
        BY <2>6 DEF SkipDisabled, BeginStage, StageUnsupported, PersistFailure
      <3>2. /\ manifest'.stages[s].status # "success"
            /\ \A t \in Stages \ {s} : manifest'.stages[t] = manifest.stages[t]
        BY <1>1, <3>1, SkippedStage, StartedStage, UnsupportedStage, FailedStage
      <3>3. QED
        BY <2>2, <2>3, <3>2, InPlaceKept
    <2>7. QED
      BY <1>7, <2>4, <2>5, <2>6
  <1>8. QED
    BY <1>2, <1>3, <1>5, <1>6, <1>7 DEF ManifestStep

LEMMA EvidenceIntactNext ==
  ASSUME TypeOK, RecordInv, PendingPlaced, EvidenceInv, [Next]_vars
  PROVE  EvidenceIntact'
  <1>1. RecoveryPlanned /\ ArchiveUnderWay /\ EvidenceIntact
    BY DEF EvidenceInv
  <1>2. CASE QuietStep
    <2>1. UNCHANGED <<manifest, files, ledgers>>
      BY <1>2, QuietStepKeeps
    <2>2. OutputsHeld' = OutputsHeld
      BY <2>1 DEF OutputsHeld, Succeeded, OutputInPlace, OutputInArchive, Pending, ClaimsAll, StillClaims, WithOutputs
    <2>3. ASSUME NEW forced, ResumeBegin(forced) PROVE OutputsHeld
      BY <2>3 DEF ResumeBegin, ResumeAllowed, PreflightPasses, OutputsHeld
    <2>4. CASE pc = "idle" /\ ~\E forced \in {0} \union Stages : ResumeBegin(forced)
      <3>1. pc' = "idle" /\ UNCHANGED spent
        BY <1>2, <2>4 DEF QuietStep, AlreadyComplete, Deciding, MoveFails, PersistStatus, ResumeRefused,
                          EndCommand, Kill, StageFails, WriteFailureEvidence, vars
      <3>2. QED
        BY <1>1, <2>2, <2>4, <3>1 DEF EvidenceIntact, OutputsHeld
    <2>5. QED
      BY <1>1, <2>2, <2>3, <2>4, HeldWhileRunning DEF EvidenceIntact, OutputsHeld
  <1>3. CASE Damage
    <2>1. pc' = "idle" /\ spent'.damages = spent.damages + 1 /\ spent.damages \in Nat
      BY <1>3 DEF Damage, DamageOutput, DamageArchive, TypeOK
    <2>2. QED
      BY <2>1 DEF EvidenceIntact
  <1>4. CASE (FileStep \/ ArchiveStep \/ ManifestStep) /\ ~Damage
    <2>1. pc # "idle"
      BY <1>4 DEF FileStep, CreateTopology, EnsureTopology, RestoreOutput, PublishOutput, ArchiveStep,
                  SettleLedger, WriteLedger, Deciding, RolledBack, SealLedger, MarkCommitted, MoveOutput,
                  MoveBack, ManifestStep, CreateManifest, ReopenRun, CommitInvalidation, PersistSuccess,
                  AdoptOutput, SkipDisabled, BeginStage, FinishRunningStage, StageUnsupported,
                  PersistFailure, Damage
    <2>2. OutputsHeld'
      BY <1>1, <1>4, <2>1, HeldWhileRunning, HeldByFileStep, HeldByArchiveStep, HeldByManifestStep
    <2>3. QED
      BY <2>2 DEF EvidenceIntact, OutputsHeld
  <1>5. QED
    BY <1>2, <1>3, <1>4, StepKinds

LEMMA EvidenceInvNext ==
  ASSUME TypeOK, RecordInv, PendingPlaced, EvidenceInv, [Next]_vars
  PROVE  EvidenceInv'
  BY RecoveryPlannedNext, ArchiveUnderWayNext, EvidenceIntactNext DEF EvidenceInv, RecordInv

LEMMA EvidenceInvariant == Spec => []EvidenceInv
  <1>1. Init => EvidenceInv
    BY DEF Init, InitialStages, EvidenceInv, RecoveryPlanned, ArchiveUnderWay, EvidenceIntact, Succeeded
  <1>2. QED
    BY <1>1, EvidenceInvNext, TypeCorrect, RecordsAreHonest, OneArchiveTransaction, PTL DEF Spec

\* The output of a successful stage is in place, or kept by the archive that
\* will bring it back: on an undamaged disk always, and on any disk while a
\* command runs (preflight_resume_integrity, archive_and_invalidate).
THEOREM EvidenceStaysIntact == Spec => []EvidenceIntact
  BY EvidenceInvariant, PTL DEF EvidenceInv

-----------------------------------------------------------------------------
\* Settled stages.

\* A settled stage, skipped and unsupported ones included, has only settled
\* dependencies.
Settled(m) == \A s \in Stages : Complete(m, s) => DependenciesComplete(m, s)

\* A successful run has every stage settled and every required one successful.
SuccessIsComplete ==
  /\ manifest.status = "success" =>
       \A s \in Stages : Complete(manifest, s) /\ (manifest.stages[s].required => Succeeded(s))
  /\ pc = "status" /\ after = "returned" => manifest.status = "success"

SettledInv == Settled(manifest) /\ SuccessIsComplete

LEMMA NextIsOpen ==
  ASSUME NEW s \in Stages, NextStage(s)
  PROVE  ~Complete(manifest, s) /\ DependenciesComplete(manifest, s)
  <1>1. \A d \in Deps[s] : d \in 1 .. s - 1
    BY GraphAssumption DEF Stages
  <1>2. QED
    BY <1>1 DEF NextStage, DependenciesComplete

LEMMA StepKeepsSettled ==
  ASSUME NEW m, NEW n, NEW s \in Stages, Settled(m), ~Complete(m, s),
         \A t \in Stages \ {s} : n.stages[t] = m.stages[t],
         Complete(n, s) => DependenciesComplete(m, s)
  PROVE  Settled(n)
  <1>1. \A t \in Stages : Complete(n, t) => DependenciesComplete(m, t)
    BY DEF Settled, Complete
  <1>2. \A t \in Stages : DependenciesComplete(m, t) => DependenciesComplete(n, t)
    <2> SUFFICES ASSUME NEW t \in Stages, DependenciesComplete(m, t), NEW d \in Deps[t]
                 PROVE  Complete(n, d)
      BY DEF DependenciesComplete
    <2>1. d \in Stages /\ Complete(m, d)
      BY GraphAssumption DEF DependenciesComplete
    <2>2. n.stages[d] = m.stages[d]
      BY <2>1
    <2>3. QED
      BY <2>1, <2>2 DEF Complete
  <1>3. QED
    BY <1>1, <1>2 DEF Settled

LEMMA ReopenKeepsSettled ==
  ASSUME NEW m \in Manifests, NEW forced \in ClosedSets, Settled(m)
  PROVE  Settled(Reopen(m, forced))
  <1> DEFINE n == Reopen(m, forced)
  <1>1. ASSUME NEW s \in Stages, Complete(n, s)
        PROVE  s \notin forced /\ n.stages[s] = m.stages[s]
    BY <1>1, ReopenedStages DEF Complete
  <1>2. ASSUME NEW s \in Stages, Complete(m, s), s \notin forced PROVE Complete(n, s)
    <2>1. n.stages[s] = m.stages[s]
      BY <1>2, ReopenedStages DEF Complete
    <2>2. QED
      BY <1>2, <2>1 DEF Complete
  <1>3. ASSUME NEW s \in Stages, Complete(n, s), NEW d \in Deps[s] PROVE Complete(n, d)
    <2>1. d \in Stages /\ d \notin forced
      BY <1>1, <1>3, GraphAssumption DEF ClosedSets
    <2>2. Complete(m, s)
      BY <1>1, <1>3 DEF Complete
    <2>3. Complete(m, d)
      BY <2>2, <1>3 DEF Settled, DependenciesComplete
    <2>4. QED
      BY <1>2, <2>1, <2>3
  <1>4. QED
    BY <1>3 DEF Settled, DependenciesComplete

\* The step of one stage that is not settled.
LEMMA SettledStageStep ==
  ASSUME TypeOK, FingerprintInv, SettledInv, NEW s \in Stages,
         \/ AdoptOutput(s) \/ SkipDisabled(s) \/ BeginStage(s) \/ FinishRunningStage(s)
         \/ StageUnsupported(s) \/ PersistFailure(s)
  PROVE  SettledInv'
  <1>1. manifest \in Manifests /\ Settled(manifest)
    BY DEF TypeOK, SettledInv
  <1>2. ~Complete(manifest, s) /\ DependenciesComplete(manifest, s)
    <2>1. CASE AdoptOutput(s)
      BY <2>1 DEF AdoptOutput, Adoptable, Complete, FingerprintCurrent
    <2>2. CASE ~AdoptOutput(s)
      BY <2>2, NextIsOpen
         DEF SkipDisabled, BeginStage, FinishRunningStage, StageUnsupported, PersistFailure, Working
    <2>3. QED
      BY <2>1, <2>2
  <1>3. /\ \A t \in Stages \ {s} : manifest'.stages[t] = manifest.stages[t]
        /\ manifest'.status # "success"
    <2>1. manifest.status # "success"
      BY <1>2 DEF SettledInv, SuccessIsComplete
    <2>2. \/ \E o : manifest' = FinishStage(manifest, s, o)
          \/ manifest' = SkipStage(manifest, s) \/ manifest' = StartStage(manifest, s)
          \/ manifest' = MarkUnsupported(manifest, s) \/ manifest' = FailStage(manifest, s)
      BY DEF AdoptOutput, FinishRunningStage, SkipDisabled, BeginStage, StageUnsupported, PersistFailure
    <2>3. QED
      BY <1>1, <2>1, <2>2, FinishedStage, SkippedStage, StartedStage, UnsupportedStage, FailedStage
  <1>4. pc' = "status" /\ after' # "returned"
    BY DEF AdoptOutput, FinishRunningStage, SkipDisabled, BeginStage, StageUnsupported, PersistFailure,
           WriteStatusThen
  <1>5. Settled(manifest')
    BY <1>1, <1>2, <1>3, StepKeepsSettled
  <1>6. QED
    BY <1>3, <1>4, <1>5 DEF SettledInv, SuccessIsComplete

LEMMA SettledInvNext ==
  ASSUME TypeOK, FingerprintInv, SettledInv, [Next]_vars
  PROVE  SettledInv'
  <1>1. manifest \in Manifests /\ Settled(manifest)
    BY DEF TypeOK, SettledInv
  <1>2. ASSUME UNCHANGED manifest, pc' = "status" /\ after' = "returned" => UNCHANGED <<pc, after>>
        PROVE  SettledInv'
    BY <1>2 DEF SettledInv, SuccessIsComplete, Settled, Succeeded
  <1>3. CASE QuietStep
    BY <1>2, <1>3, QuietStepKeeps, QuietStepControl DEF vars, memory
  <1>4. CASE FileStep
    <2>1. pc' = "status" => after' = "execute"
      BY <1>4 DEF FileStep, CreateTopology, EnsureTopology, RestoreOutput, PublishOutput, DamageOutput,
                  WriteStatusThen
    <2>2. QED
      BY <1>2, <1>4, <2>1, FileStepKeeps
  <1>5. CASE ArchiveStep
    <2>1. pc' # "status"
      BY <1>5 DEF ArchiveStep, SettleLedger, WriteLedger, RolledBack, EndCommand, SealLedger,
                  MarkCommitted, MoveOutput, MoveBack, DamageArchive
    <2>2. QED
      BY <1>2, <1>5, <2>1, ArchiveStepKeeps
  <1>6. CASE CreateManifest \/ PersistSuccess
    <2>1. manifest'.stages = manifest.stages
      BY <1>1, <1>6 DEF CreateManifest, PersistSuccess, Succeed, Manifests
    <2>2. Settled(manifest')
      BY <1>1, <2>1 DEF Settled, Complete, DependenciesComplete
    <2>3. CASE CreateManifest
      <3>1. manifest'.status = "running" /\ after' = "execute"
        BY <1>1, <2>3 DEF CreateManifest, WriteStatusThen, Manifests
      <3>2. QED
        BY <2>2, <3>1 DEF SettledInv, SuccessIsComplete
    <2>4. CASE PersistSuccess
      <3>1. /\ manifest'.status = "success"
            /\ \A s \in Stages : Complete(manifest, s)
            /\ \A s \in Stages : manifest.stages[s].required => manifest.stages[s].status = "success"
        BY <1>1, <2>4 DEF PersistSuccess, Succeed, CanSucceed, Manifests
      <3>2. QED
        BY <2>1, <2>2, <3>1 DEF SettledInv, SuccessIsComplete, Succeeded, Complete
    <2>5. QED
      BY <1>6, <2>3, <2>4
  <1>7. CASE ReopenRun \/ CommitInvalidation
    <2>1. PICK forced \in ClosedSets : manifest' = Reopen(manifest, forced)
      <3>1. {} \in ClosedSets
        BY DEF ClosedSets
      <3>2. CASE CommitInvalidation
        <4>1. Archiving.names \in ClosedSets
          BY <3>2, LastLedger DEF CommitInvalidation, Transaction, FingerprintInv, LedgersClosed
        <4>2. QED
          BY <3>2, <4>1 DEF CommitInvalidation
      <3>3. QED
        BY <1>7, <3>1, <3>2 DEF ReopenRun
    <2>2. manifest'.status = "running" /\ Settled(manifest')
      BY <1>1, <2>1, ReopenedStages, ReopenKeepsSettled
    <2>3. pc' # "status"
      BY <1>7 DEF ReopenRun, CommitInvalidation
    <2>4. QED
      BY <2>2, <2>3 DEF SettledInv, SuccessIsComplete
  <1>8. QED
    BY <1>3, <1>4, <1>5, <1>6, <1>7, SettledStageStep, StepKinds DEF ManifestStep

LEMMA SettledInvariant == Spec => []SettledInv
  <1>1. Init => SettledInv
    BY DEF Init, InitialStages, SettledInv, Settled, SuccessIsComplete, Complete
  <1>2. QED
    BY <1>1, SettledInvNext, TypeCorrect, FingerprintInvariant, PTL DEF Spec

\* A successful stage only ever stands on settled ones, however far up the
\* graph: whoever is among the transitive dependents of a stage that is not
\* settled has no result (pipeline/stages.py, stage_descendants).
THEOREM ResultsStandOnSettledStages ==
  Spec => [](\A s \in Stages : Succeeded(s) =>
               \A r \in Stages : s \in Descendants[r] => Complete(manifest, r))
  <1>1. ASSUME Settled(manifest), NEW s \in Stages, Succeeded(s), NEW r \in Stages,
               s \in Descendants[r]
        PROVE  Complete(manifest, r)
    <2> DEFINE C == {t \in Stages : ~Complete(manifest, t)}
    <2>1. ASSUME NEW t \in Stages, Deps[t] \intersect C # {} PROVE t \in C
      BY <1>1, <2>1 DEF Settled, DependenciesComplete
    <2>2. C \in ClosedSets
      BY <2>1 DEF ClosedSets
    <2>3. s \notin C
      BY <1>1 DEF Succeeded, Complete
    <2>4. QED
      BY <1>1, <2>2, <2>3 DEF Descendants
  <1>2. SettledInv => \A s \in Stages : Succeeded(s) =>
                        \A r \in Stages : s \in Descendants[r] => Complete(manifest, r)
    BY <1>1 DEF SettledInv
  <1>3. QED
    BY <1>2, SettledInvariant, PTL

-----------------------------------------------------------------------------
\* What a returning command leaves.

\* The steps that end a command, and what they leave unchanged.
LEMMA CommandEnds ==
  ASSUME TypeOK, [Next]_vars, pc # "idle", pc' = "idle"
  PROVE  /\ UNCHANGED manifest /\ UNCHANGED files /\ UNCHANGED spent.damages
         /\ UNCHANGED ledgers \/ RolledBack
         /\ outcome' \in {"returned", "raised", "killed"}
         /\ outcome' = "returned" => /\ UNCHANGED ledgers
                                     /\ AlreadyComplete \/ (pc = "status" /\ after = "returned")
  <1>1. CASE QuietStep
    <2>1. CASE Kill
      BY <1>1, <2>1, QuietStepKeeps DEF Kill, EndCommand, TypeOK
    <2>2. CASE AlreadyComplete
      BY <1>1, <2>2, QuietStepKeeps DEF AlreadyComplete, EndCommand
    <2>3. CASE PersistStatus
      BY <1>1, <2>3, QuietStepKeeps DEF PersistStatus, EndCommand, TypeOK
    <2>4. QED
      BY <1>1, <2>1, <2>2, <2>3
         DEF QuietStep, MoveFails, ResumeRefused, StageFails, WriteFailureEvidence, ResumeBegin, vars
  <1>2. CASE FileStep
    BY <1>2 DEF FileStep, CreateTopology, EnsureTopology, RestoreOutput, PublishOutput, DamageOutput,
                WriteStatusThen
  <1>3. CASE ArchiveStep
    <2>1. RolledBack
      BY <1>3 DEF ArchiveStep, SettleLedger, WriteLedger, SealLedger, MarkCommitted, MoveOutput, MoveBack,
                  DamageArchive
    <2>2. QED
      BY <2>1 DEF RolledBack, EndCommand
  <1>4. CASE ManifestStep
    BY <1>4 DEF ManifestStep, CreateManifest, ReopenRun, CommitInvalidation, PersistSuccess,
                AdoptOutput, SkipDisabled, BeginStage, FinishRunningStage, StageUnsupported,
                PersistFailure, WriteStatusThen
  <1>5. QED
    BY <1>1, <1>2, <1>3, <1>4, StepKinds

\* Nothing happens between two commands, unless the disk is damaged.
LEMMA StaysIdle ==
  ASSUME TypeOK, [Next]_vars, pc = "idle", pc' = "idle", spent'.damages = 0
  PROVE  /\ UNCHANGED <<manifest, files, ledgers, spent>>
         /\ UNCHANGED outcome \/ (outcome' = "refused" /\ ResumeRefused)
  <1>1. ~Damage
    BY DEF Damage, DamageOutput, DamageArchive, TypeOK
  <1>2. CASE ResumeRefused
    BY <1>2 DEF ResumeRefused, EndCommand, disk
  <1>3. CASE UNCHANGED vars
    BY <1>3 DEF vars, disk
  <1>4. QED
    <2>1. ~\E forced \in {0} \union Stages : ResumeBegin(forced)
      BY DEF ResumeBegin
    <2>2. ~Kill
      BY DEF Kill
    <2>3. ~ProcessStep
      BY DEF ProcessStep, CreateTopology, CreateManifest, RestoreOutput, SettleLedger, AlreadyComplete,
             Deciding, ReopenRun, WriteLedger, MoveFails, RolledBack, SealLedger, CommitInvalidation,
             MarkCommitted, EnsureTopology, AdoptOutput, MoveOutput, MoveBack, ExecuteStage,
             SkipDisabled, BeginStage, StageUnsupported, StageFails, PublishOutput,
             FinishRunningStage, WriteFailureEvidence, PersistFailure, PersistSuccess, PersistStatus
    <2>4. QED
      BY <1>1, <1>2, <1>3, <2>1, <2>2, <2>3 DEF Next, Command

LEMMA ReturnedNext ==
  ASSUME TypeOK, OutputsRecorded, PendingPlaced, EvidenceIntact, FingerprintInv, SettledInv,
         ReturnedRunComplete, [Next]_vars
  PROVE  ReturnedRunComplete'
  <1> SUFFICES ASSUME pc' = "idle", outcome' = "returned", spent'.damages = 0
               PROVE  /\ manifest'.status = "success"
                      /\ \A s \in Stages :
                           /\ Complete(manifest', s)
                           /\ manifest'.stages[s].required => Succeeded(s)'
                           /\ Succeeded(s)' => OutputInPlace(s)' /\ FingerprintCurrent(s)'
    BY DEF ReturnedRunComplete
  <1>1. CASE pc = "idle"
    <2>1. UNCHANGED <<manifest, files, outcome, spent>>
      BY <1>1, StaysIdle
    <2>2. QED
      BY <1>1, <2>1
         DEF ReturnedRunComplete, Succeeded, OutputInPlace, FingerprintCurrent, Complete,
             DependenciesComplete, Fingerprint
  <1>2. CASE pc # "idle"
    <2>1. /\ UNCHANGED <<manifest, files>>
          /\ AlreadyComplete \/ (pc = "status" /\ after = "returned")
      BY <1>2, CommandEnds
    <2>2. manifest.status = "success" /\ ~SomePending
      BY <2>1, NothingPending DEF AlreadyComplete, SettledInv, SuccessIsComplete, Transaction
    <2>3. \A s \in Stages : Succeeded(s) => OutputInPlace(s)
      BY <1>2, <2>2, HeldWhileRunning, AllInPlace
    <2>4. \A s \in Stages : Succeeded(s) => FingerprintCurrent(s)
      BY DEF FingerprintInv, Consistent, FingerprintCurrent, Succeeded
    <2>5. \A s \in Stages : Complete(manifest, s) /\ (manifest.stages[s].required => Succeeded(s))
      BY <2>2 DEF SettledInv, SuccessIsComplete
    <2>6. QED
      BY <2>1, <2>2, <2>3, <2>4, <2>5
         DEF Succeeded, OutputInPlace, FingerprintCurrent, Complete, DependenciesComplete, Fingerprint
  <1>3. QED
    BY <1>1, <1>2

\* When a command reports the run complete, it is: every required stage
\* succeeded, every stage is settled on current fingerprints, and every
\* recorded output is in place (validate_completed_run).
THEOREM ReturnedRunsAreComplete == Spec => []ReturnedRunComplete
  <1>1. Init => ReturnedRunComplete
    BY DEF Init, ReturnedRunComplete
  <1>2. EvidenceInv /\ RecordInv => EvidenceIntact /\ OutputsRecorded
    BY DEF EvidenceInv, RecordInv
  <1>3. QED
    BY <1>1, <1>2, ReturnedNext, TypeCorrect, RecordsAreHonest, OneArchiveTransaction, EvidenceInvariant,
       FingerprintInvariant, SettledInvariant, PTL DEF Spec

-----------------------------------------------------------------------------
\* Refusals.

AllInvalidated(i) == \A s \in ledgers[i].names : manifest.stages[s].status = "invalidated"

\* A pending archive can be recovered, or it names a stage that was already
\* invalidated when it was archived, and all of its stages are now.
PendingExplained ==
  \A i \in DOMAIN ledgers : Pending(i) => Recoverable(i) \/ (PartlyClaimed(i) /\ AllInvalidated(i))

LEMMA ExplainedWhileMoving ==
  ASSUME TypeOK, OutputsRecorded, PendingPlaced, ArchiveUnderWay, OutputsHeld,
         pc \in {"move", "rollback", "invalidate"}
  PROVE  PendingExplained
  <1> DEFINE i == Len(ledgers)
  <1>1. SUFFICES ASSUME Pending(i) PROVE Recoverable(i)
    BY DEF PendingExplained, PendingPlaced
  <1>2. /\ ledgers[i].previous = manifest.stages
        /\ ledgers[i].state = "outputs_archived" => pc = "invalidate"
        /\ ledgers[i].names \subseteq Stages
    BY LastLedger DEF ArchiveUnderWay, Archiving, Transaction, Ledgers
  <1>3. ClaimsAll(i)
    BY <1>2 DEF ClaimsAll, StillClaims
  <1>4. ASSUME NEW s \in WithOutputs(i)
        PROVE  /\ files[s] \in {None, ledgers[i].previous[s].outputs}
               /\ ledgers[i].kept[s] \in {None, ledgers[i].previous[s].outputs}
               /\ ledgers[i].state = "outputs_archived" => ledgers[i].kept[s] # None
               /\ files[s] # None \/ ledgers[i].kept[s] # None
    <2>1. s \in Stages /\ manifest.stages[s].outputs # None
      BY <1>2 DEF WithOutputs
    <2>2. OutputInPlace(s) \/ OutputInArchive(s)
      BY <2>1 DEF OutputsHeld, OutputsRecorded
    <2>3. ledgers[i].kept[s] # None => files[s] = None
      BY DEF ArchiveUnderWay, Moved, Unmoved, Archiving
    <2>4. OutputInArchive(s) => files[s] = None /\ ledgers[i].kept[s] = manifest.stages[s].outputs
      BY <2>1, KeptByLast DEF Transaction
    <2>5. ledgers[i].state = "outputs_archived" => ledgers[i].kept[s] # None
      BY <1>2 DEF ArchiveUnderWay, Unmoved, Archiving
    <2>6. QED
      BY <1>2, <2>1, <2>2, <2>3, <2>4, <2>5 DEF OutputInPlace
  <1>5. QED
    BY <1>3, <1>4 DEF Recoverable

LEMMA ExplainedWhenCommitted ==
  ASSUME TypeOK, PendingPlaced, ArchiveUnderWay, pc = "mark"
  PROVE  PendingExplained
  <1> DEFINE i == Len(ledgers)
  <1>1. SUFFICES ASSUME Pending(i), ClaimsAll(i) \/ ClaimsNone(i) PROVE Recoverable(i)
    BY DEF PendingExplained, PendingPlaced, PartlyClaimed, AllInvalidated, ArchiveUnderWay, Archiving
  <1>2. /\ \A s \in ledgers[i].names :
             /\ manifest.stages[s].status = "invalidated"
             /\ ledgers[i].previous[s].outputs # None => ledgers[i].previous[s].status = "success"
        /\ \A s \in WithOutputs(i) : files[s] = None /\ ledgers[i].kept[s] = ledgers[i].previous[s].outputs
    BY DEF ArchiveUnderWay, Archiving
  <1>3. ClaimsAll(i) => WithOutputs(i) = {}
    BY <1>2 DEF ClaimsAll, StillClaims, WithOutputs
  <1>4. \A s \in WithOutputs(i) : ledgers[i].previous[s].outputs # None
    BY DEF WithOutputs
  <1>5. QED
    BY <1>1, <1>2, <1>3, <1>4 DEF Recoverable

LEMMA RunningExplained ==
  ASSUME TypeOK, OutputsRecorded, PendingPlaced, EvidenceInv, pc # "idle"
  PROVE  PendingExplained
  <1>1. OutputsHeld
    BY HeldWhileRunning DEF EvidenceInv
  <1>2. CASE pc = "recover"
    BY <1>2 DEF EvidenceInv, RecoveryPlanned, PendingExplained
  <1>3. CASE pc \in Transaction
    BY <1>1, <1>3, ExplainedWhileMoving, ExplainedWhenCommitted DEF Transaction, EvidenceInv
  <1>4. CASE pc \notin {"idle", "recover"} \union Transaction
    BY <1>4, NothingPending DEF PendingExplained, SomePending
  <1>5. QED
    BY <1>2, <1>3, <1>4

LEMMA ExplanationKept ==
  ASSUME UNCHANGED <<manifest, files, ledgers>>, PendingExplained
  PROVE  PendingExplained'
  BY DEF PendingExplained, Pending, Recoverable, PartlyClaimed, AllInvalidated, ClaimsAll, ClaimsNone,
         StillClaims, WithOutputs

ExplainedInv == spent.damages = 0 => PendingExplained
Idle == pc = "idle"

LEMMA ExplainedNext ==
  ASSUME TypeOK, OutputsRecorded, PendingPlaced, EvidenceInv, ExplainedInv, [Next]_vars, pc' = "idle"
  PROVE  ExplainedInv'
  <1> SUFFICES ASSUME spent'.damages = 0 PROVE PendingExplained'
    BY DEF ExplainedInv
  <1>1. CASE pc = "idle"
    BY <1>1, StaysIdle, ExplanationKept DEF ExplainedInv
  <1>2. CASE pc # "idle" /\ UNCHANGED ledgers
    BY <1>2, CommandEnds, RunningExplained, ExplanationKept
  <1>3. CASE RolledBack
    <2>1. pc = "rollback" /\ StateMoves(Len(ledgers), "rolled_back")
      BY <1>3, ArchiveEffects DEF RolledBack
    <2>2. \A j \in DOMAIN ledgers' : ~Pending(j)'
      BY <2>1 DEF StateMoves, PendingPlaced, Pending
    <2>3. QED
      BY <2>2 DEF PendingExplained
  <1>4. QED
    BY <1>1, <1>2, <1>3, CommandEnds

LEMMA ExplainedInvariant == Spec => []ExplainedInv
  <1>1. Init => ExplainedInv
    BY DEF Init, ExplainedInv, PendingExplained
  <1>2. TypeOK /\ RecordInv /\ PendingPlaced /\ EvidenceInv /\ ~Idle => ExplainedInv
    BY RunningExplained DEF RecordInv, ExplainedInv, Idle
  <1>3. TypeOK /\ RecordInv /\ PendingPlaced /\ EvidenceInv /\ ExplainedInv /\ [Next]_vars /\ Idle'
        => ExplainedInv'
    BY ExplainedNext DEF RecordInv, Idle
  <1>4. QED
    BY <1>1, <1>2, <1>3, TypeCorrect, RecordsAreHonest, OneArchiveTransaction, EvidenceInvariant, PTL DEF Spec

\* Without damage the configuration is readable whenever there is a run to
\* resume: in place, or kept by the last archive that took it.
ConfigKept ==
  spent.damages = 0 =>
    /\ files[ConfigStage] \in {None, "config"}
    /\ \A i \in DOMAIN ledgers : ledgers[i].kept[ConfigStage] \in {None, "config"}
    /\ ConfigLoadable \/ (manifest.status = "absent" /\ pc \in {"new", "idle"})

LEMMA ConfigIsAFile == ConfigStage \in Stages \ DirectoryStages /\ "config" # None
  BY GraphAssumption, ContentAssumption DEF ConfigStage, Stages, DirectoryStages, Contents

\* With the file in place, or unchanged archives, there is nothing to show.
LEMMA ConfigStaysReadable ==
  ASSUME ConfigKept, spent.damages = 0, pc \notin {"new", "idle"},
         files'[ConfigStage] \in {files[ConfigStage], "config"},
         DOMAIN ledgers' = DOMAIN ledgers,
         \/ \A i \in DOMAIN ledgers : ledgers'[i].kept[ConfigStage] = ledgers[i].kept[ConfigStage]
         \/ /\ files'[ConfigStage] = "config"
            /\ \A i \in DOMAIN ledgers :
                 ledgers'[i].kept[ConfigStage] \in {None, ledgers[i].kept[ConfigStage]}
  PROVE  ConfigKept'
  <1>1. files'[ConfigStage] # None => files'[ConfigStage] = "config"
    BY DEF ConfigKept
  <1>2. CASE files'[ConfigStage] = "config"
    <2>1. \A i \in DOMAIN ledgers : ledgers'[i].kept[ConfigStage] \in {None, ledgers[i].kept[ConfigStage]}
      OBVIOUS
    <2>2. \A i \in DOMAIN ledgers' : ledgers'[i].kept[ConfigStage] \in {None, "config"}
      BY <2>1 DEF ConfigKept
    <2>3. ConfigLoadable'
      BY <1>2, ConfigIsAFile DEF ConfigLoadable
    <2>4. QED
      BY <1>2, <2>2, <2>3 DEF ConfigKept
  <1>3. CASE files'[ConfigStage] # "config"
    <2>1. /\ files'[ConfigStage] = None /\ files[ConfigStage] = None
          /\ \A i \in DOMAIN ledgers : ledgers'[i].kept[ConfigStage] = ledgers[i].kept[ConfigStage]
      BY <1>1, <1>3 DEF ConfigKept
    <2>2. ConfigLoadable
      BY DEF ConfigKept
    <2>3. ConfigLoadable'
      BY <2>1, <2>2 DEF ConfigLoadable
    <2>4. QED
      BY <2>1, <2>3 DEF ConfigKept
  <1>4. QED
    BY <1>2, <1>3

LEMMA ConfigByFileStep ==
  ASSUME TypeOK, PendingPlaced, RecoveryPlanned, ConfigKept, FileStep, spent'.damages = 0, spent.damages = 0
  PROVE  ConfigKept'
  <1>1. UNCHANGED <<manifest, ledgers>> /\ files \in [Stages -> Outputs] /\ ConfigStage \in Stages
    BY FileStepKeeps, ConfigIsAFile DEF TypeOK
  <1>2. CASE CreateTopology \/ EnsureTopology
    <2>1. files'[ConfigStage] = "config"
      <3>1. files' = WithTopology
        BY <1>2 DEF CreateTopology, EnsureTopology
      <3>2. ConfigStage # ProbeStage /\ ProbeStage \in Stages
        BY GraphAssumption DEF ConfigStage, ProbeStage, Stages
      <3>3. files'[ConfigStage] = IF files[ConfigStage] = None THEN "config" ELSE files[ConfigStage]
        BY <1>1, <3>1, <3>2 DEF WithTopology
      <3>4. QED
        BY <3>3 DEF ConfigKept
    <2>2. ConfigLoadable'
      BY <2>1, ConfigIsAFile DEF ConfigLoadable
    <2>3. QED
      BY <1>1, <2>1, <2>2 DEF ConfigKept
  <1>3. ASSUME NEW r \in (DOMAIN ledgers) \X Stages, RestoreOutput(r) PROVE ConfigKept'
    <2>1. /\ pc = "recover" /\ files' = [files EXCEPT ![r[2]] = ledgers[r[1]].kept[r[2]]]
          /\ Pending(r[1]) /\ ClaimsAll(r[1]) /\ r[2] \in WithOutputs(r[1]) /\ files[r[2]] = None
      BY <1>3 DEF RestoreOutput, NextRestoration, Restorations
    <2>2. ledgers[r[1]].kept[r[2]] # None
      BY <2>1 DEF RecoveryPlanned, Recoverable
    <2>3. files'[ConfigStage] \in {files[ConfigStage], "config"}
      BY <1>1, <2>1, <2>2 DEF ConfigKept
    <2>4. QED
      BY <1>1, <2>1, <2>3, ConfigStaysReadable
  <1>4. ASSUME NEW s \in Stages, NEW digest \in Digests \union {"config"}, PublishOutput(s, digest)
        PROVE  ConfigKept'
    <2>1. pc = "work" /\ files'[ConfigStage] \in {files[ConfigStage], "config"}
      BY <1>1, <1>4 DEF PublishOutput
    <2>2. QED
      BY <1>1, <2>1, ConfigStaysReadable
  <1>5. ASSUME NEW s \in Stages, NEW content, DamageOutput(s, content) PROVE FALSE
    BY <1>5 DEF DamageOutput, TypeOK
  <1>6. QED
    BY <1>2, <1>3, <1>4, <1>5 DEF FileStep

LEMMA ConfigByArchiveStep ==
  ASSUME TypeOK, ConfigKept, ArchiveStep, spent'.damages = 0, spent.damages = 0
  PROVE  ConfigKept'
  <1>1. UNCHANGED manifest /\ files \in [Stages -> Outputs] /\ ConfigStage \in Stages
    BY ArchiveStepKeeps, ConfigIsAFile DEF TypeOK
  <1>2. ASSUME NEW i \in DOMAIN ledgers, NEW state, StateMoves(i, state), UNCHANGED files,
               pc \notin {"new", "idle"}
        PROVE  ConfigKept'
    BY <1>2, ConfigStaysReadable DEF StateMoves
  <1>3. CASE WriteLedger
    <2>1. /\ UNCHANGED files /\ pc \notin {"new", "idle"}
          /\ DOMAIN ledgers' = 1 .. Len(ledgers) + 1 /\ DOMAIN ledgers = 1 .. Len(ledgers)
          /\ Len(ledgers) \in Nat
          /\ \A j \in DOMAIN ledgers : ledgers'[j] = ledgers[j]
          /\ ledgers'[Len(ledgers) + 1].kept[ConfigStage] = None
      BY <1>1, <1>3, LedgerWritten DEF WriteLedger, Deciding
    <2>2. ConfigLoadable
      BY <2>1 DEF ConfigKept
    <2>3. ConfigLoadable'
      <3>1. CASE files[ConfigStage] # None
        BY <2>1, <2>2, <3>1 DEF ConfigLoadable
      <3>2. CASE files[ConfigStage] = None
        <4>1. PICK i \in DOMAIN ledgers :
                /\ ledgers[i].kept[ConfigStage] = "config"
                /\ \A j \in DOMAIN ledgers : j > i => ledgers[j].kept[ConfigStage] = None
          BY <2>2, <3>2 DEF ConfigLoadable
        <4>2. i \in DOMAIN ledgers' /\ ledgers'[i].kept[ConfigStage] = "config"
          BY <2>1, <4>1
        <4>3. \A j \in DOMAIN ledgers' : j > i => ledgers'[j].kept[ConfigStage] = None
          BY <2>1, <4>1
        <4>4. QED
          BY <2>1, <3>2, <4>2, <4>3 DEF ConfigLoadable
      <3>3. QED
        BY <3>1, <3>2
    <2>4. \A j \in DOMAIN ledgers' : ledgers'[j].kept[ConfigStage] \in {None, "config"}
      BY <2>1 DEF ConfigKept
    <2>5. QED
      BY <2>1, <2>3, <2>4 DEF ConfigKept
  <1>4. ASSUME NEW s \in Stages, MoveOutput(s) PROVE ConfigKept'
    <2>1. /\ pc = "move" /\ files' = [files EXCEPT ![s] = None]
          /\ KeptBecomes(Len(ledgers), s, files[s])
          /\ Len(ledgers) \in DOMAIN ledgers /\ DOMAIN ledgers = 1 .. Len(ledgers) /\ Len(ledgers) \in Nat
          /\ s \in Unmoved
      <3>1. pc = "move" /\ s \in Unmoved
        BY <1>4 DEF MoveOutput
      <3>2. ledgers # <<>> /\ ledgers \in Seq(Ledgers)
        BY <3>1 DEF TypeOK
      <3>3. /\ DOMAIN ledgers = 1 .. Len(ledgers) /\ Len(ledgers) \in Nat
            /\ Len(ledgers) \in DOMAIN ledgers
        <4>1. Len(ledgers) \in DOMAIN ledgers
          BY <3>1, LastLedger DEF Transaction
        <4>2. QED
          BY <3>2, <4>1
      <3>4. KeptBecomes(Len(ledgers), s, files[s])
        BY <1>4, ArchiveEffects
      <3>5. files' = [files EXCEPT ![s] = None]
        BY <1>4 DEF MoveOutput
      <3>6. QED
        BY <3>1, <3>3, <3>4, <3>5
    <2>2. CASE s # ConfigStage \/ files[s] = None
      <3>1. \A i \in DOMAIN ledgers : ledgers'[i].kept[ConfigStage] = ledgers[i].kept[ConfigStage]
        BY <1>1, <2>1, <2>2 DEF KeptBecomes, Unmoved, Archiving
      <3>2. QED
        BY <1>1, <2>1, <2>2, <3>1, ConfigStaysReadable DEF KeptBecomes
    <2>3. CASE s = ConfigStage /\ files[s] # None
      <3>1. /\ files'[ConfigStage] = None /\ ledgers'[Len(ledgers)].kept[ConfigStage] = "config"
            /\ DOMAIN ledgers' = 1 .. Len(ledgers)
            /\ \A j \in DOMAIN ledgers \ {Len(ledgers)} : ledgers'[j] = ledgers[j]
        BY <1>1, <2>1, <2>3 DEF KeptBecomes, ConfigKept
      <3>2. \A j \in DOMAIN ledgers' : ~(j > Len(ledgers))
        BY <2>1, <3>1
      <3>3. ConfigLoadable'
        BY <2>1, <3>1, <3>2 DEF ConfigLoadable
      <3>4. QED
        BY <2>1, <3>1, <3>3 DEF ConfigKept
    <2>4. QED
      BY <2>2, <2>3
  <1>5. ASSUME NEW s \in Stages, MoveBack(s) PROVE ConfigKept'
    <2>1. /\ pc = "rollback" /\ files' = [files EXCEPT ![s] = ledgers[Len(ledgers)].kept[s]]
          /\ KeptBecomes(Len(ledgers), s, None) /\ Len(ledgers) \in DOMAIN ledgers
          /\ ledgers[Len(ledgers)].kept[s] # None
      BY <1>5, ArchiveEffects, LastLedger DEF MoveBack, Transaction, Archiving, Moved, Unmoved
    <2>2. CASE s # ConfigStage
      <3>1. \A i \in DOMAIN ledgers : ledgers'[i].kept[ConfigStage] = ledgers[i].kept[ConfigStage]
        BY <1>1, <2>1, <2>2 DEF KeptBecomes
      <3>2. QED
        BY <1>1, <2>1, <2>2, <3>1, ConfigStaysReadable DEF KeptBecomes
    <2>3. CASE s = ConfigStage
      <3>1. files'[ConfigStage] = "config"
        BY <1>1, <2>1, <2>3 DEF ConfigKept
      <3>2. \A i \in DOMAIN ledgers :
              ledgers'[i].kept[ConfigStage] \in {None, ledgers[i].kept[ConfigStage]}
        BY <2>1, <2>3 DEF KeptBecomes
      <3>3. QED
        BY <2>1, <3>1, <3>2, ConfigStaysReadable DEF KeptBecomes
    <2>4. QED
      BY <2>2, <2>3
  <1>6. ASSUME NEW i \in DOMAIN ledgers, NEW s \in Stages, NEW content, DamageArchive(i, s, content)
        PROVE  FALSE
    BY <1>6 DEF DamageArchive, TypeOK
  <1>7. ASSUME NEW i \in DOMAIN ledgers, SettleLedger(i) PROVE ConfigKept'
    BY <1>2, <1>7, ArchiveEffects DEF SettleLedger
  <1>8. CASE RolledBack
    BY <1>2, <1>8, ArchiveEffects, LastLedger DEF RolledBack, Transaction
  <1>9. CASE SealLedger
    BY <1>2, <1>9, ArchiveEffects, LastLedger DEF SealLedger, Transaction
  <1>10. CASE MarkCommitted
    BY <1>2, <1>10, ArchiveEffects, LastLedger DEF MarkCommitted, Transaction
  <1>11. QED
    BY <1>3, <1>4, <1>5, <1>6, <1>7, <1>8, <1>9, <1>10 DEF ArchiveStep

LEMMA ConfigKeptNext ==
  ASSUME TypeOK, PendingPlaced, RecoveryPlanned, ConfigKept, [Next]_vars
  PROVE  ConfigKept'
  <1> SUFFICES ASSUME spent'.damages = 0 PROVE ConfigKept'
    BY DEF ConfigKept
  <1>1. spent.damages = 0
    <2>1. CASE Damage
      BY <2>1 DEF Damage, DamageOutput, DamageArchive, TypeOK
    <2>2. CASE ~Damage
      <3>1. spent'.damages = spent.damages
        <4>1. CASE QuietStep
          BY <4>1 DEF QuietStep, AlreadyComplete, MoveFails, PersistStatus, ResumeRefused, Kill,
                      StageFails, WriteFailureEvidence, ResumeBegin, vars, TypeOK
        <4>2. CASE FileStep \/ ArchiveStep \/ ManifestStep
          BY <2>2, <4>2
             DEF FileStep, CreateTopology, EnsureTopology, RestoreOutput, PublishOutput, ArchiveStep,
                 SettleLedger, WriteLedger, RolledBack, SealLedger, MarkCommitted, MoveOutput,
                 MoveBack, ManifestStep, CreateManifest, ReopenRun, CommitInvalidation, PersistSuccess,
                 AdoptOutput, SkipDisabled, BeginStage, FinishRunningStage, StageUnsupported,
                 PersistFailure, Damage
        <4>3. QED
          BY <4>1, <4>2, StepKinds
      <3>2. QED
        BY <3>1
    <2>3. QED
      BY <2>1, <2>2
  <1>2. CASE QuietStep
    <2>1. UNCHANGED <<manifest, files, ledgers>>
      BY <1>2, QuietStepKeeps
    <2>2. ConfigLoadable' = ConfigLoadable
      BY <2>1 DEF ConfigLoadable
    <2>3. pc = "new" => pc' \in {"new", "idle"}
      BY <1>2 DEF QuietStep, AlreadyComplete, Deciding, MoveFails, PersistStatus, ResumeRefused, Kill,
                  StageFails, WriteFailureEvidence, ResumeBegin, EndCommand, vars
    <2>4. pc = "idle" => pc' = "idle" \/ ConfigLoadable
      BY <1>2 DEF QuietStep, AlreadyComplete, Deciding, MoveFails, PersistStatus, ResumeRefused, Kill,
                  StageFails, WriteFailureEvidence, ResumeBegin, ResumeAllowed, EndCommand, vars
    <2>5. QED
      BY <1>1, <2>1, <2>2, <2>3, <2>4 DEF ConfigKept
  <1>3. CASE FileStep
    BY <1>1, <1>3, ConfigByFileStep
  <1>4. CASE ArchiveStep
    BY <1>1, <1>4, ConfigByArchiveStep
  <1>5. CASE ManifestStep
    <2>1. UNCHANGED ledgers /\ pc \notin {"new", "idle"}
      BY <1>5 DEF ManifestStep, CreateManifest, ReopenRun, Deciding, CommitInvalidation, PersistSuccess,
                  AdoptOutput, SkipDisabled, BeginStage, FinishRunningStage, StageUnsupported,
                  PersistFailure, disk
    <2>2. ASSUME NEW s \in Stages, AdoptOutput(s)
          PROVE  files'[ConfigStage] \in {files[ConfigStage], "config"}
      <3>1. files' = [files EXCEPT ![s] = Published(s)] /\ Published(s) # None
        BY <2>2 DEF AdoptOutput, Adoptable
      <3>2. ConfigStage \notin leftovers
        BY ConfigIsAFile DEF TypeOK
      <3>3. Published(ConfigStage) \in {None, files[ConfigStage]}
        BY <1>1, <3>2 DEF Published, ConfigKept
      <3>4. QED
        BY <3>1, <3>3, ConfigIsAFile DEF TypeOK
    <2>3. files'[ConfigStage] \in {files[ConfigStage], "config"}
      BY <1>5, <2>2 DEF ManifestStep, CreateManifest, ReopenRun, CommitInvalidation, PersistSuccess,
                        SkipDisabled, BeginStage, FinishRunningStage, StageUnsupported, PersistFailure, disk
    <2>4. QED
      BY <1>1, <2>1, <2>3, ConfigStaysReadable
  <1>6. QED
    BY <1>2, <1>3, <1>4, <1>5, StepKinds

RefusalInv == outcome = "refused" /\ spent.damages = 0 => pc = "idle" /\ RefusalExplained

LEMMA RefusalNext ==
  ASSUME TypeOK, EvidenceIntact, FingerprintInv, ExplainedInv, ConfigKept, RefusalInv, [Next]_vars
  PROVE  RefusalInv'
  <1> SUFFICES ASSUME outcome' = "refused", spent'.damages = 0 PROVE pc' = "idle" /\ RefusalExplained'
    BY DEF RefusalInv
  <1>1. CASE pc = "idle" /\ pc' = "idle"
    <2>1. UNCHANGED <<manifest, files, ledgers, spent>>
      BY <1>1, StaysIdle
    <2>2. RefusalExplained' = (outcome' = "refused" /\ spent.damages = 0 =>
            \/ manifest.status = "absent"
            \/ \E i \in DOMAIN ledgers : PartlyClaimed(i) /\ AllInvalidated(i))
      BY <2>1 DEF RefusalExplained, AllInvalidated, PartlyClaimed, Pending, ClaimsAll, ClaimsNone, StillClaims
    <2>3. CASE ResumeRefused
      <3>1. ~ResumeAllowed
        BY <2>3 DEF ResumeRefused
      <3>2. CASE manifest.status # "absent"
        <4>1. ConfigLoadable
          BY <2>1, <3>2 DEF ConfigKept
        <4>2. \A s \in Stages : Succeeded(s) => OutputInPlace(s) \/ OutputInArchive(s)
          BY <2>1 DEF EvidenceIntact
        <4>3. \A s \in Stages : Succeeded(s) => FingerprintCurrent(s)
          BY DEF FingerprintInv, Consistent, FingerprintCurrent, Succeeded
        <4>4. \E i \in DOMAIN ledgers : Pending(i) /\ ~Recoverable(i)
          BY <3>1, <3>2, <4>1, <4>2, <4>3 DEF ResumeAllowed, PreflightPasses
        <4>5. QED
          BY <1>1, <2>1, <2>2, <4>4 DEF ExplainedInv, PendingExplained
      <3>3. QED
        BY <1>1, <2>2, <3>2
    <2>4. CASE UNCHANGED outcome
      BY <1>1, <2>1, <2>2, <2>4 DEF RefusalInv, RefusalExplained, AllInvalidated
    <2>5. QED
      BY <1>1, <2>3, <2>4, StaysIdle
  <1>2. CASE pc = "idle" /\ pc' # "idle"
    <2>1. ResumeAllowed /\ UNCHANGED outcome /\ spent'.damages = spent.damages
      <3>1. \E forced \in {0} \union Stages : ResumeBegin(forced)
        <4>1. ~Kill /\ ~ResumeRefused /\ ~Damage /\ ~UNCHANGED vars
          BY <1>2 DEF Kill, ResumeRefused, EndCommand, Damage, DamageOutput, DamageArchive, vars
        <4>2. ~ProcessStep
          BY <1>2 DEF ProcessStep, CreateTopology, CreateManifest, RestoreOutput, SettleLedger,
                 AlreadyComplete, Deciding, ReopenRun, WriteLedger, MoveFails, RolledBack, SealLedger,
                 CommitInvalidation, MarkCommitted, EnsureTopology, AdoptOutput, MoveOutput, MoveBack,
                 ExecuteStage, SkipDisabled, BeginStage, StageUnsupported, StageFails, PublishOutput,
                 FinishRunningStage, WriteFailureEvidence, PersistFailure, PersistSuccess, PersistStatus
        <4>3. QED
          BY <4>1, <4>2 DEF Next, Command
      <3>2. QED
        BY <3>1 DEF ResumeBegin, TypeOK
    <2>2. RefusalExplained
      BY <1>2, <2>1 DEF RefusalInv
    <2>3. \E i \in DOMAIN ledgers : PartlyClaimed(i)
      BY <2>1, <2>2 DEF RefusalExplained, ResumeAllowed
    <2>4. QED
      BY <2>1, <2>3 DEF ResumeAllowed, PreflightPasses, PartlyClaimed, Recoverable
  <1>3. CASE pc # "idle" /\ pc' = "idle"
    BY <1>3, CommandEnds
  <1>4. CASE pc # "idle" /\ pc' # "idle"
    <2>1. UNCHANGED outcome /\ spent'.damages = spent.damages
      <3>1. CASE QuietStep
        BY <1>4, <3>1 DEF QuietStep, AlreadyComplete, MoveFails, PersistStatus, ResumeRefused, Kill,
                  EndCommand, StageFails, WriteFailureEvidence, ResumeBegin, vars, TypeOK
      <3>2. CASE FileStep \/ ArchiveStep \/ ManifestStep
        BY <1>4, <3>2
           DEF FileStep, CreateTopology, EnsureTopology, RestoreOutput, PublishOutput, DamageOutput,
               ArchiveStep, SettleLedger, WriteLedger, RolledBack, EndCommand, SealLedger, MarkCommitted,
               MoveOutput, MoveBack, DamageArchive, ManifestStep, CreateManifest, ReopenRun,
               CommitInvalidation, PersistSuccess, AdoptOutput, SkipDisabled, BeginStage,
               FinishRunningStage, StageUnsupported, PersistFailure
      <3>3. QED
        BY <3>1, <3>2, StepKinds
    <2>2. QED
      BY <1>4, <2>1 DEF RefusalInv
  <1>5. QED
    BY <1>1, <1>2, <1>3, <1>4

\* On an undamaged disk a resume is refused only if the run never got a
\* manifest, or if a pending archive names a stage that was already invalidated
\* when it was archived (_plan_forced_archive_recovery, load_resume_config).
THEOREM RefusalsAreExplained == Spec => []RefusalExplained
  <1>1. Init => ConfigKept /\ RefusalInv
    <2>1. ConfigStage \in Stages
      BY ConfigIsAFile
    <2>2. QED
      BY <2>1 DEF Init, ConfigKept, RefusalInv
  <1>2. EvidenceInv => RecoveryPlanned /\ EvidenceIntact
    BY DEF EvidenceInv
  <1>3. Spec => []ConfigKept
    BY <1>1, <1>2, ConfigKeptNext, TypeCorrect, OneArchiveTransaction, EvidenceInvariant, PTL DEF Spec
  <1>4. Spec => []RefusalInv
    BY <1>1, <1>2, <1>3, RefusalNext, TypeCorrect, EvidenceInvariant, FingerprintInvariant,
       ExplainedInvariant, PTL DEF Spec
  <1>5. RefusalInv => RefusalExplained
    BY DEF RefusalInv, RefusalExplained
  <1>6. QED
    BY <1>4, <1>5, PTL

-----------------------------------------------------------------------------
\* The failure files.

\* The running attempt has not failed yet.
Fresh == pc \in {"work", "evidence"} \/ (pc = "status" /\ after = "work")

\* No failure is numbered beyond the stage's attempts, a failed stage has the
\* file of its present attempt, and the attempt under way gets its file just
\* before it is recorded as failed.
FailureInv ==
  /\ \A s \in Stages, n \in Nat : <<s, n>> \in failures => n <= manifest.stages[s].attempt
  /\ \A s \in Stages :
       LET present == <<s, manifest.stages[s].attempt>>
       IN  /\ manifest.stages[s].status = "failed" => present \in failures
           /\ Working(s) /\ Fresh => present \notin failures
           /\ Working(s) /\ pc = "fail" => present \in failures

\* A step that begins no attempt and writes no failure file.
LEMMA FailuresKept ==
  ASSUME TypeOK, FailureInv, UNCHANGED failures,
         \A s \in Stages : manifest'.stages[s].attempt = manifest.stages[s].attempt,
         \A s \in Stages : manifest'.stages[s].status = "failed" =>
                             \/ manifest.stages[s].status = "failed"
                             \/ pc = "fail" /\ Working(s),
         Fresh' => Fresh /\ UNCHANGED manifest,
         pc' = "fail" => pc = "fail" /\ UNCHANGED manifest
  PROVE  FailureInv'
  <1>1. \A s \in Stages, n \in Nat : <<s, n>> \in failures' => n <= manifest'.stages[s].attempt
    BY DEF FailureInv
  <1>2. ASSUME NEW s \in Stages, manifest'.stages[s].status = "failed"
        PROVE  <<s, manifest'.stages[s].attempt>> \in failures'
    BY <1>2 DEF FailureInv
  <1>3. ASSUME NEW s \in Stages, Working(s)', Fresh'
        PROVE  <<s, manifest'.stages[s].attempt>> \notin failures'
    BY <1>3 DEF FailureInv, Working, NextStage, Complete
  <1>4. ASSUME NEW s \in Stages, Working(s)', pc' = "fail"
        PROVE  <<s, manifest'.stages[s].attempt>> \in failures'
    BY <1>4 DEF FailureInv, Working, NextStage, Complete
  <1>5. QED
    BY <1>1, <1>2, <1>3, <1>4 DEF FailureInv

\* A new attempt is numbered above every attempt that failed.
LEMMA AttemptIsFresh ==
  ASSUME TypeOK, FailureInv, NEW s \in Stages, BeginStage(s)
  PROVE  FailureInv'
  <1>1. /\ manifest \in Manifests /\ failures' = failures /\ NextStage(s)
        /\ manifest' = StartStage(manifest, s) /\ pc' = "status"
    BY DEF TypeOK, BeginStage, WriteStatusThen, disk
  <1>2. /\ manifest'.stages[s].status = "running"
        /\ manifest'.stages[s].attempt = manifest.stages[s].attempt + 1
        /\ \A t \in Stages \ {s} : manifest'.stages[t] = manifest.stages[t]
    BY <1>1, StartedStage
  <1>3. manifest.stages[s].attempt \in Nat
    BY <1>1 DEF Manifests, StageRecords
  <1>4. <<s, manifest'.stages[s].attempt>> \notin failures
    BY <1>2, <1>3 DEF FailureInv
  <1>5. ASSUME NEW t \in Stages, Working(t)' PROVE t = s
    <2>1. CASE t < s
      <3>1. t \in 1 .. s - 1
        BY <2>1, GraphAssumption DEF Stages
      <3>2. Complete(manifest, t) /\ manifest'.stages[t] = manifest.stages[t]
        BY <1>1, <1>2, <2>1, <3>1 DEF NextStage
      <3>3. QED
        BY <1>5, <3>2 DEF Working, Complete
    <2>2. CASE s < t
      <3>1. s \in 1 .. t - 1
        BY <2>2, GraphAssumption DEF Stages
      <3>2. Complete(manifest', s)
        BY <1>5, <3>1 DEF Working, NextStage
      <3>3. QED
        BY <1>2, <3>2 DEF Complete
    <2>3. QED
      BY <2>1, <2>2, GraphAssumption DEF Stages
  <1>6. \A t \in Stages, n \in Nat : <<t, n>> \in failures' => n <= manifest'.stages[t].attempt
    BY <1>1, <1>2, <1>3 DEF FailureInv
  <1>7. \A t \in Stages : manifest'.stages[t].status = "failed" =>
                            <<t, manifest'.stages[t].attempt>> \in failures'
    BY <1>1, <1>2 DEF FailureInv
  <1>8. QED
    BY <1>1, <1>4, <1>5, <1>6, <1>7 DEF FailureInv

LEMMA FailureWritten ==
  ASSUME TypeOK, FailureInv, NEW s \in Stages, WriteFailureEvidence(s)
  PROVE  FailureInv'
  <1>1. /\ manifest \in Manifests /\ manifest' = manifest /\ pc' = "fail"
        /\ failures' = failures \union {<<s, manifest.stages[s].attempt>>} /\ Working(s)
    BY DEF TypeOK, WriteFailureEvidence
  <1>2. \A t \in Stages : manifest.stages[t].attempt \in Nat
    BY <1>1 DEF Manifests, StageRecords
  <1>3. \A t \in Stages : Working(t)' => t = s
    BY <1>1, OneNextStage DEF Working, NextStage, Complete
  <1>4. ~Fresh'
    BY <1>1 DEF Fresh
  <1>5. QED
    BY <1>1, <1>2, <1>3, <1>4 DEF FailureInv

LEMMA FailureInvNext ==
  ASSUME TypeOK, FailureInv, [Next]_vars
  PROVE  FailureInv'
  <1>1. manifest \in Manifests
    BY DEF TypeOK
  <1>2. ASSUME UNCHANGED <<manifest, failures>>, Fresh' => Fresh, pc' = "fail" => pc = "fail"
        PROVE  FailureInv'
    BY <1>2, FailuresKept
  <1>3. CASE QuietStep
    <2>1. CASE \E s \in Stages : WriteFailureEvidence(s)
      BY <2>1, FailureWritten
    <2>2. CASE PersistStatus
      BY <1>2, <2>2 DEF PersistStatus, EndCommand, Fresh, TypeOK, disk, memory
    <2>3. CASE ~PersistStatus /\ ~ \E s \in Stages : WriteFailureEvidence(s)
      <3>1. UNCHANGED <<manifest, failures>>
        BY <1>3, <2>3 DEF QuietStep, AlreadyComplete, MoveFails, ResumeRefused, Kill, StageFails,
                          ResumeBegin, vars, disk
      <3>2. (Fresh' => Fresh) /\ (pc' = "fail" => pc = "fail")
        BY <1>3, <2>3 DEF QuietStep, AlreadyComplete, MoveFails, ResumeRefused, Kill, StageFails,
                          ResumeBegin, EndCommand, vars, memory, Fresh
      <3>3. QED
        BY <1>2, <3>1, <3>2
    <2>4. QED
      BY <2>1, <2>2, <2>3
  <1>4. CASE FileStep
    <2>1. UNCHANGED <<manifest, failures>>
      BY <1>4 DEF FileStep, CreateTopology, EnsureTopology, RestoreOutput, PublishOutput, DamageOutput
    <2>2. ~Fresh' /\ pc' # "fail"
      BY <1>4 DEF FileStep, CreateTopology, EnsureTopology, RestoreOutput, PublishOutput, DamageOutput,
                  WriteStatusThen, Fresh
    <2>3. QED
      BY <1>2, <2>1, <2>2
  <1>5. CASE ArchiveStep
    <2>1. UNCHANGED <<manifest, failures>>
      BY <1>5 DEF ArchiveStep, SettleLedger, WriteLedger, RolledBack, SealLedger, MarkCommitted,
                  MoveOutput, MoveBack, DamageArchive
    <2>2. ~Fresh' /\ pc' # "fail"
      BY <1>5 DEF ArchiveStep, SettleLedger, WriteLedger, RolledBack, SealLedger, MarkCommitted,
                  MoveOutput, MoveBack, DamageArchive, EndCommand, Fresh
    <2>3. QED
      BY <1>2, <2>1, <2>2
  <1>6. CASE CreateManifest \/ PersistSuccess
    <2>1. manifest'.stages = manifest.stages /\ UNCHANGED failures
      BY <1>1, <1>6 DEF CreateManifest, PersistSuccess, Succeed, Manifests, disk
    <2>2. ~Fresh' /\ pc' # "fail"
      BY <1>6 DEF CreateManifest, PersistSuccess, WriteStatusThen, Fresh
    <2>3. QED
      BY <2>1, <2>2, FailuresKept
  <1>7. CASE ReopenRun \/ CommitInvalidation
    <2>1. UNCHANGED failures /\ ~Fresh' /\ pc' # "fail"
      BY <1>7 DEF ReopenRun, CommitInvalidation, Fresh, disk
    <2>2. PICK forced : manifest' = Reopen(manifest, forced)
      BY <1>7 DEF ReopenRun, CommitInvalidation
    <2>3. \A s \in Stages :
            /\ manifest'.stages[s].attempt = manifest.stages[s].attempt
            /\ manifest'.stages[s].status = "failed" => manifest.stages[s].status = "failed"
      BY <1>1, <2>2, ReopenedStages
    <2>4. QED
      BY <2>1, <2>3, FailuresKept
  <1>8. ASSUME NEW s \in Stages,
               \/ AdoptOutput(s) \/ SkipDisabled(s) \/ FinishRunningStage(s)
               \/ StageUnsupported(s) \/ PersistFailure(s)
        PROVE  FailureInv'
    <2>1. UNCHANGED failures /\ ~Fresh' /\ pc' # "fail"
      BY <1>8 DEF AdoptOutput, SkipDisabled, FinishRunningStage, StageUnsupported, PersistFailure,
                  WriteStatusThen, Fresh, disk
    <2>2. \/ \E o : manifest' = FinishStage(manifest, s, o)
          \/ manifest' = SkipStage(manifest, s)
          \/ manifest' = MarkUnsupported(manifest, s)
          \/ manifest' = FailStage(manifest, s) /\ pc = "fail" /\ Working(s)
      BY <1>8 DEF AdoptOutput, FinishRunningStage, SkipDisabled, StageUnsupported, PersistFailure
    <2>3. /\ manifest'.stages[s].attempt = manifest.stages[s].attempt
          /\ manifest'.stages[s].status = "failed" => pc = "fail" /\ Working(s)
          /\ \A t \in Stages \ {s} : manifest'.stages[t] = manifest.stages[t]
      BY <1>1, <2>2, FinishedStage, SkippedStage, UnsupportedStage, FailedStage
    <2>4. \A t \in Stages :
            /\ manifest'.stages[t].attempt = manifest.stages[t].attempt
            /\ manifest'.stages[t].status = "failed" =>
                 manifest.stages[t].status = "failed" \/ (pc = "fail" /\ Working(t))
      BY <2>3
    <2>5. QED
      BY <2>1, <2>4, FailuresKept
  <1>9. QED
    BY <1>3, <1>4, <1>5, <1>6, <1>7, <1>8, AttemptIsFresh, StepKinds DEF ManifestStep

LEMMA FailureInvariant == Spec => []FailureInv
  <1>1. Init => FailureInv
    BY DEF Init, InitialStages, FailureInv, Fresh
  <1>2. QED
    BY <1>1, FailureInvNext, TypeCorrect, PTL DEF Spec

\* Every failed stage has the failure file of its present attempt, and no
\* attempt under way is numbered like one that failed, over every resume,
\* kill and forced rerun: the evidence is never refused as an overwrite
\* (pipeline/runner.py, _record_failure).
THEOREM FailuresAreRecorded == Spec => []FailureEvidence
  <1>1. FailureInv => FailureEvidence
    BY DEF FailureInv, FailureEvidence, Fresh
  <1>2. QED
    BY <1>1, FailureInvariant, PTL

-----------------------------------------------------------------------------
\* A command without --force-stage.

ResultKept(s) ==
  /\ manifest'.stages[s] = manifest.stages[s]
  /\ files'[s] = files[s] \/ (files[s] = None /\ files'[s] = manifest.stages[s].outputs)

LEMMA UnforcedFileStep ==
  ASSUME TypeOK, RecordInv, PendingPlaced, EvidenceInv, FileStep, pc # "idle",
         NEW s \in Stages, Succeeded(s)
  PROVE  ResultKept(s)
  <1>1. /\ UNCHANGED manifest /\ files \in [Stages -> Outputs] /\ OutputsRecorded /\ OutputsHeld
    BY FileStepKeeps, HeldWhileRunning DEF TypeOK, RecordInv, EvidenceInv
  <1>2. CASE CreateTopology
    BY <1>2 DEF CreateTopology, RecordInv, NothingBegun, Succeeded
  <1>3. CASE EnsureTopology
    <2>1. files[s] # None
      BY <1>1, <1>3, NothingPending, AllInPlace DEF EnsureTopology, Transaction
    <2>2. files'[s] = files[s]
      BY <1>1, <1>3, <2>1 DEF EnsureTopology, WithTopology
    <2>3. QED
      BY <1>1, <2>2 DEF ResultKept
  <1>4. ASSUME NEW r \in (DOMAIN ledgers) \X Stages, RestoreOutput(r) PROVE ResultKept(s)
    <2>1. /\ files' = [files EXCEPT ![r[2]] = ledgers[r[1]].kept[r[2]]]
          /\ pc = "recover" /\ r[1] \in DOMAIN ledgers /\ r[2] \in Stages
          /\ Pending(r[1]) /\ ClaimsAll(r[1]) /\ r[2] \in WithOutputs(r[1]) /\ files[r[2]] = None
      BY <1>4 DEF RestoreOutput, NextRestoration, Restorations
    <2>2. Recoverable(r[1])
      BY <2>1 DEF EvidenceInv, RecoveryPlanned
    <2>3. ledgers[r[1]].kept[r[2]] = ledgers[r[1]].previous[r[2]].outputs
      BY <2>1, <2>2 DEF Recoverable
    <2>4. ledgers[r[1]].previous[r[2]].outputs = manifest.stages[r[2]].outputs
      BY <2>1 DEF ClaimsAll, StillClaims, WithOutputs
    <2>5. QED
      BY <1>1, <2>1, <2>3, <2>4 DEF ResultKept
  <1>5. ASSUME NEW t \in Stages, NEW digest, PublishOutput(t, digest) PROVE ResultKept(s)
    <2>1. t # s /\ files' = [files EXCEPT ![t] = digest]
      BY <1>5 DEF PublishOutput, Working, Succeeded
    <2>2. QED
      BY <1>1, <2>1 DEF ResultKept
  <1>6. ASSUME NEW t \in Stages, NEW content, DamageOutput(t, content) PROVE FALSE
    BY <1>6 DEF DamageOutput
  <1>7. QED
    BY <1>2, <1>3, <1>4, <1>5, <1>6 DEF FileStep

LEMMA UnforcedManifestStep ==
  ASSUME TypeOK, PendingPlaced, ManifestStep, force = 0, NEW s \in Stages, Succeeded(s)
  PROVE  ResultKept(s)
  <1>1. manifest \in Manifests /\ files \in [Stages -> Outputs]
    BY DEF TypeOK
  <1>2. CASE CreateManifest \/ PersistSuccess
    BY <1>1, <1>2 DEF CreateManifest, PersistSuccess, Succeed, Manifests, ResultKept, disk
  <1>3. CASE ReopenRun
    <2>1. manifest' = Reopen(manifest, {}) /\ UNCHANGED files
      BY <1>3 DEF ReopenRun, disk
    <2>2. QED
      BY <1>1, <2>1, ReopenedStages DEF Succeeded, ResultKept
  <1>4. CASE CommitInvalidation
    BY <1>4 DEF CommitInvalidation, PendingPlaced, Transaction
  <1>5. ASSUME NEW t \in Stages,
               \/ AdoptOutput(t) \/ SkipDisabled(t) \/ BeginStage(t) \/ FinishRunningStage(t)
               \/ StageUnsupported(t) \/ PersistFailure(t)
        PROVE  ResultKept(s)
    <2>1. t # s
      BY <1>5, NextIsOpen DEF AdoptOutput, Adoptable, SkipDisabled, BeginStage, FinishRunningStage,
                              StageUnsupported, PersistFailure, Working, Succeeded, Complete
    <2>2. \/ \E o : manifest' = FinishStage(manifest, t, o)
          \/ manifest' = SkipStage(manifest, t) \/ manifest' = StartStage(manifest, t)
          \/ manifest' = MarkUnsupported(manifest, t) \/ manifest' = FailStage(manifest, t)
      BY <1>5 DEF AdoptOutput, FinishRunningStage, SkipDisabled, BeginStage, StageUnsupported,
                  PersistFailure
    <2>3. manifest'.stages[s] = manifest.stages[s]
      BY <1>1, <2>1, <2>2, FinishedStage, SkippedStage, StartedStage, UnsupportedStage, FailedStage
    <2>4. UNCHANGED files \/ \E o : files' = [files EXCEPT ![t] = o]
      BY <1>5 DEF AdoptOutput, FinishRunningStage, SkipDisabled, BeginStage, StageUnsupported,
                  PersistFailure, disk
    <2>5. files'[s] = files[s]
      BY <1>1, <2>1, <2>4
    <2>6. QED
      BY <2>3, <2>5 DEF ResultKept
  <1>6. QED
    BY <1>2, <1>3, <1>4, <1>5 DEF ManifestStep

LEMMA UnforcedStep ==
  ASSUME TypeOK, RecordInv, PendingPlaced, EvidenceInv, [Next]_vars, pc # "idle", force = 0,
         NEW s \in Stages, Succeeded(s)
  PROVE  ResultKept(s)
  <1>1. CASE QuietStep
    BY <1>1, QuietStepKeeps DEF ResultKept
  <1>2. CASE ArchiveStep
    <2>1. pc \notin Transaction
      BY DEF PendingPlaced
    <2>2. UNCHANGED <<manifest, files>>
      BY <1>2, <2>1, ArchiveStepKeeps
         DEF ArchiveStep, SettleLedger, WriteLedger, RolledBack, SealLedger, MarkCommitted,
             MoveOutput, MoveBack, DamageArchive, Transaction
    <2>3. QED
      BY <2>2 DEF ResultKept
  <1>3. QED
    BY <1>1, <1>2, UnforcedFileStep, UnforcedManifestStep, StepKinds

\* A command without --force-stage changes no successful stage, whatever it
\* recovers, adopts or repeats: not its record, nor its output except to
\* restore it from the archive (pipeline/resume.py, prepare_resume).
THEOREM UnforcedCommandsKeepResults == Spec => UnforcedKeepsResults
  <1>1. ASSUME TypeOK, RecordInv, PendingPlaced, EvidenceInv, [Next]_vars
        PROVE  [pc # "idle" /\ force = 0 =>
                  \A s \in Stages : Succeeded(s) =>
                    /\ manifest'.stages[s] = manifest.stages[s]
                    /\ files'[s] = files[s] \/ (files[s] = None /\ files'[s] = manifest.stages[s].outputs)]_vars
    BY <1>1, UnforcedStep DEF ResultKept
  <1>2. QED
    BY <1>1, TypeCorrect, RecordsAreHonest, OneArchiveTransaction, EvidenceInvariant, PTL
       DEF Spec, UnforcedKeepsResults

-----------------------------------------------------------------------------
\* The governed graph.

\* The positions of the stages that are read, or stand between a stage and
\* what it reads.
LEMMA GovernedPositions ==
  /\ Positions = 1 .. 14
  /\ PositionOf("probe_runtime") = 2 /\ PositionOf("load_baseline") = 3
  /\ PositionOf("collect_statistics") = 5 /\ PositionOf("resolve_precision_policy") = 6
  /\ PositionOf("quantize") = 7 /\ PositionOf("evaluate_baseline") = 8
  /\ PositionOf("evaluate_candidate") = 9 /\ PositionOf("benchmark_baseline") = 10
  /\ PositionOf("benchmark_candidate") = 11 /\ PositionOf("compare_routing") = 12
  BY DEF Positions, PositionOf, StageOrder

\* The dependencies on the way from a stage to what it reads.
LEMMA GovernedDependencies ==
  /\ 5 \in StageDeps[6] /\ 6 \in StageDeps[7] /\ 7 \in StageDeps[9] /\ 7 \in StageDeps[11]
  /\ 7 \in StageDeps[12] /\ {8, 9, 10, 11, 12} \subseteq StageDeps[13]
  /\ 3 \in StageDeps[8] /\ 2 \in StageDeps[3]
  <1> USE GovernedPositions
  <1>1. \A i \in 1 .. 14 : StageDeps[i] = {PositionOf(d) : d \in StageDependencies[StageOrder[i]]}
    BY DEF StageDeps
  <1>2. "collect_statistics" \in StageDependencies[StageOrder[6]]
    BY DEF StageDependencies, StageOrder
  <1>3. "resolve_precision_policy" \in StageDependencies[StageOrder[7]]
    BY DEF StageDependencies, StageOrder
  <1>4. \A i \in {9, 11, 12} : "quantize" \in StageDependencies[StageOrder[i]]
    BY DEF StageDependencies, StageOrder
  <1>5. {"evaluate_baseline", "evaluate_candidate", "benchmark_baseline", "benchmark_candidate",
         "compare_routing"} \subseteq StageDependencies[StageOrder[13]]
    BY DEF StageDependencies, StageOrder
  <1>6. "load_baseline" \in StageDependencies[StageOrder[8]]
    BY DEF StageDependencies, StageOrder
  <1>7. "probe_runtime" \in StageDependencies[StageOrder[3]]
    BY DEF StageDependencies, StageOrder
  <1>8. QED
    BY <1>1, <1>2, <1>3, <1>4, <1>5, <1>6, <1>7

\* What each stage reads, by position.
LEMMA GovernedReaders ==
  ASSUME N = 14, NEW s \in Stages, NEW r \in GovernedReads[s]
  PROVE  \/ s = 6 /\ r = 5
         \/ s = 7 /\ r \in {5, 6}
         \/ s \in {9, 11, 12} /\ r \in {5, 6, 7}
         \/ s = 13 /\ r \in {2, 5, 6, 7, 8, 9, 10, 11, 12}
  <1> USE GovernedPositions
  <1>1. s \in 1 .. 14 /\ \E n \in StageReads[StageOrder[s]] : r = PositionOf(n)
    BY DEF GovernedReads, Stages
  <1>2. PICK n \in StageReads[StageOrder[s]] : r = PositionOf(n)
    BY <1>1
  <1>3. StageOrder[s] \in ToSet(StageOrder)
    BY <1>1 DEF ToSet, StageOrder
  <1>4. StageReads[StageOrder[s]] =
          CASE s = 6               -> {"collect_statistics"}
            [] s = 7               -> {"resolve_precision_policy", "collect_statistics"}
            [] s \in {9, 11, 12}   -> CandidateInputs
            [] s = 13              -> CandidateInputs \union
                 {"probe_runtime", "evaluate_baseline", "evaluate_candidate",
                  "benchmark_baseline", "benchmark_candidate", "compare_routing"}
            [] OTHER               -> {}
    BY <1>1, <1>3 DEF StageReads, StageOrder
  <1>5. QED
    BY <1>1, <1>2, <1>4 DEF CandidateInputs

\* On the governed graph, a successful stage read only results that are still
\* the recorded ones, also those it does not depend on directly, whatever is
\* forced, killed or damaged (pipeline/stages.py, stage_descendants).
THEOREM ReadersFollow ==
  ASSUME N = 14, Deps = StageDeps
  PROVE  Spec => []ReadersFollowSources
  <1>1. ASSUME Settled(manifest), NEW s \in Stages, Complete(manifest, s), NEW d \in Deps[s]
        PROVE  d \in Stages /\ Complete(manifest, d)
    BY <1>1, GraphAssumption DEF Settled, DependenciesComplete
  <1>2. ASSUME Settled(manifest), NEW s \in Stages, Succeeded(s), NEW r \in GovernedReads[s]
        PROVE  Complete(manifest, r)
    <2> USE GovernedDependencies
    <2>1. s \in 1 .. 14 /\ Complete(manifest, s) /\ Stages = 1 .. 14
      BY <1>2 DEF Succeeded, Complete, Stages
    <2>2. ASSUME Complete(manifest, 7)
          PROVE  Complete(manifest, 6) /\ Complete(manifest, 5)
      BY <1>1, <1>2, <2>1, <2>2
    <2>3. ASSUME Complete(manifest, 6)
          PROVE  Complete(manifest, 5)
      BY <1>1, <1>2, <2>1, <2>3
    <2>4. ASSUME Complete(manifest, 9) \/ Complete(manifest, 11) \/ Complete(manifest, 12)
          PROVE  Complete(manifest, 7)
      BY <1>1, <1>2, <2>1, <2>4
    <2>5. ASSUME Complete(manifest, 8)
          PROVE  Complete(manifest, 2)
      <3>1. Complete(manifest, 3)
        BY <1>1, <1>2, <2>1, <2>5
      <3>2. QED
        BY <1>1, <1>2, <2>1, <3>1
    <2>6. ASSUME Complete(manifest, 13)
          PROVE  \A d \in {8, 9, 10, 11, 12} : Complete(manifest, d)
      BY <1>1, <1>2, <2>1, <2>6
    <2>7. QED
      BY <1>2, <2>1, <2>2, <2>3, <2>4, <2>5, <2>6, GovernedReaders
  <1>3. SettledInv => ReadersFollowSources
    BY <1>2 DEF SettledInv, ReadersFollowSources
  <1>4. QED
    BY <1>3, SettledInvariant, PTL

-----------------------------------------------------------------------------
\* The abstract ledger.

\* An output is retained when the manifest records it or an archive keeps it.
Holds(s, output) ==
  \/ Succeeded(s) /\ manifest.stages[s].outputs = output
  \/ output # None /\ \E i \in DOMAIN ledgers : ledgers[i].kept[s] = output

LEMMA RetainedMeans ==
  \A s, output : <<s, output>> \in Retained <=> s \in Stages /\ Holds(s, output)
  BY DEF Retained, Holds

LEMMA RetainedPairs ==
  \A x \in Retained : \E s \in Stages : \E output : x = <<s, output>>
  BY DEF Retained

\* Two states that hold the same outputs retain the same pairs.
LEMMA SameRetained ==
  ASSUME \A s \in Stages : \A output : Holds(s, output)' <=> Holds(s, output)
  PROVE  Retained' = Retained
  <1>1. \A s, output : <<s, output>> \in Retained' <=> s \in Stages /\ Holds(s, output)'
    BY DEF Retained, Holds, Succeeded
  <1>2. \A x \in Retained' : \E s \in Stages : \E output : x = <<s, output>>
    BY DEF Retained
  <1>3. \A x : x \in Retained' <=> x \in Retained
    BY <1>1, <1>2, RetainedMeans, RetainedPairs
  <1>4. QED
    BY <1>3

LEMMA MoreRetained ==
  ASSUME NEW t \in Stages, NEW new,
         \A s \in Stages : \A output :
           Holds(s, output)' <=> Holds(s, output) \/ (s = t /\ output = new)
  PROVE  Retained' = Retained \union {<<t, new>>}
  <1>1. \A s, output : <<s, output>> \in Retained' <=> s \in Stages /\ Holds(s, output)'
    BY DEF Retained, Holds, Succeeded
  <1>2. \A x \in Retained' : \E s \in Stages : \E output : x = <<s, output>>
    BY DEF Retained
  <1>3. \A x : x \in Retained' <=> x \in Retained \union {<<t, new>>}
    BY <1>1, <1>2, RetainedMeans, RetainedPairs
  <1>4. QED
    BY <1>3

\* A stage's result depends only on its record.
LEMMA ResultOfRecord ==
  ASSUME NEW s \in Stages
  PROVE  /\ manifest'.stages[s] = manifest.stages[s] => LedgerResult(s)' = LedgerResult(s)
         /\ ~Complete(manifest, s) <=> LedgerResult(s).state = "open"
         /\ ~Complete(manifest, s) => LedgerResult(s) = Ledger!Open
         /\ ~Complete(manifest', s) => LedgerResult(s)' = Ledger!Open
         /\ Complete(manifest', s) /\ ~Succeeded(s)' => LedgerResult(s)' = Ledger!Waived
  BY DEF LedgerResult, Succeeded, Complete, Ledger!Open, Ledger!Waived, Ledger!NoInputs

\* A step that only moves outputs between the run directory and an archive.
LEMMA ArchiveStutters ==
  ASSUME TypeOK, RecordInv, PendingPlaced, EvidenceInv, ArchiveStep, MaxDamages = 0
  PROVE  Retained' = Retained
  <1>1. UNCHANGED manifest /\ OutputsRecorded /\ ledgers \in Seq(Ledgers)
    BY ArchiveStepKeeps DEF RecordInv, TypeOK
  <1>2. ASSUME \A s \in Stages : \A output :
                 output # None /\ ~(Succeeded(s) /\ manifest.stages[s].outputs = output) =>
                   ((\E i \in DOMAIN ledgers' : ledgers'[i].kept[s] = output)
                      <=> \E i \in DOMAIN ledgers : ledgers[i].kept[s] = output)
        PROVE  Retained' = Retained
    BY <1>1, <1>2, SameRetained DEF Holds, Succeeded
  <1>3. ASSUME NEW i \in DOMAIN ledgers, NEW state, StateMoves(i, state)
        PROVE  Retained' = Retained
    <2>1. DOMAIN ledgers' = DOMAIN ledgers
          /\ \A j \in DOMAIN ledgers : ledgers'[j].kept = ledgers[j].kept
      BY <1>3 DEF StateMoves
    <2>2. QED
      BY <1>2, <2>1
  <1>4. CASE WriteLedger
    BY <1>2, <1>4, LedgerWritten
  <1>5. ASSUME NEW s \in Stages, pc \in {"move", "rollback"}, s \in WithOutputs(Len(ledgers))
        PROVE  /\ Succeeded(s) /\ OutputsHeld
               /\ Len(ledgers) \in DOMAIN ledgers
               /\ OutputInPlace(s) \/ OutputInArchive(s)
               /\ manifest.stages[s].outputs # None
               /\ OutputInArchive(s) =>
                    files[s] = None /\ ledgers[Len(ledgers)].kept[s] = manifest.stages[s].outputs
    <2>1. pc \in Transaction /\ pc # "idle"
      BY <1>5 DEF Transaction
    <2>2. manifest.stages[s].outputs # None
      BY <1>5, <2>1, LastLedger DEF EvidenceInv, ArchiveUnderWay, WithOutputs
    <2>3. Succeeded(s) /\ OutputsHeld
      BY <1>1, <2>1, <2>2, HeldWhileRunning DEF OutputsRecorded, EvidenceInv
    <2>4. QED
      BY <2>1, <2>2, <2>3, KeptByLast, LastLedger DEF OutputsHeld
  <1>6. ASSUME NEW s \in Stages, MoveOutput(s) PROVE Retained' = Retained
    <2>1. /\ pc = "move" /\ s \in WithOutputs(Len(ledgers))
          /\ Archiving.kept[s] = None
      BY <1>6 DEF MoveOutput, Unmoved
    <2>2. KeptBecomes(Len(ledgers), s, files[s]) /\ Archiving = ledgers[Len(ledgers)]
      BY <1>6, ArchiveEffects DEF Archiving
    <2>3. /\ Succeeded(s) /\ files[s] = manifest.stages[s].outputs
          /\ Len(ledgers) \in DOMAIN ledgers
      BY <1>5, <2>1, <2>2 DEF OutputInPlace
    <2>4. QED
      BY <1>2, <2>1, <2>2, <2>3 DEF KeptBecomes
  <1>7. ASSUME NEW s \in Stages, MoveBack(s) PROVE Retained' = Retained
    <2>1. pc = "rollback" /\ s \in WithOutputs(Len(ledgers)) /\ s \in Moved
      BY <1>7 DEF MoveBack, Moved
    <2>2. KeptBecomes(Len(ledgers), s, None) /\ files[s] = None
      BY <1>7, <2>1, ArchiveEffects DEF EvidenceInv, ArchiveUnderWay
    <2>3. /\ Succeeded(s) /\ ledgers[Len(ledgers)].kept[s] = manifest.stages[s].outputs
          /\ Len(ledgers) \in DOMAIN ledgers
      BY <1>5, <2>1, <2>2 DEF OutputInPlace
    <2>4. QED
      BY <1>2, <2>2, <2>3 DEF KeptBecomes
  <1>8. ASSUME NEW i \in DOMAIN ledgers, NEW s \in Stages, NEW content, DamageArchive(i, s, content)
        PROVE  FALSE
    BY <1>8 DEF DamageArchive, TypeOK
  <1>9. Len(ledgers) \in DOMAIN ledgers \/ pc \notin Transaction
    BY LastLedger
  <1>10. CASE RolledBack \/ SealLedger \/ MarkCommitted
    <2>1. Len(ledgers) \in DOMAIN ledgers
      BY <1>9, <1>10 DEF RolledBack, SealLedger, MarkCommitted, Transaction
    <2>2. QED
      BY <1>3, <1>10, <2>1, ArchiveEffects
  <1>11. ASSUME NEW i \in DOMAIN ledgers, SettleLedger(i) PROVE Retained' = Retained
    BY <1>3, <1>11, ArchiveEffects
  <1>12. QED
    BY <1>4, <1>6, <1>7, <1>8, <1>10, <1>11 DEF ArchiveStep
ResultsStay(S) == \A s \in S : manifest'.stages[s] = manifest.stages[s]
RunStays == (manifest'.status = "success") = (manifest.status = "success")

LEMMA LedgerKeeps ==
  ASSUME \A s \in Stages : manifest'.stages[s] = manifest.stages[s]
                           \/ (~Complete(manifest, s) /\ ~Complete(manifest', s)),
         Retained' = Retained, RunStays
  PROVE  UNCHANGED Ledger!ledgerVars
  <1>1. \A s \in Stages : LedgerResult(s)' = LedgerResult(s)
    BY ResultOfRecord
  <1>2. [s \in Stages |-> LedgerResult(s)]' = [s \in Stages |-> LedgerResult(s)]
    BY <1>1
  <1>3. QED
    BY <1>2 DEF Ledger!ledgerVars, RunStays

\* A step that opens the stages of a closed set, and the run.
LEMMA LedgerWithdraws ==
  ASSUME NEW S \in ClosedSets,
         \A s \in S : ~Complete(manifest', s),
         \A s \in Stages \ S : manifest'.stages[s] = manifest.stages[s]
                               \/ (~Complete(manifest, s) /\ ~Complete(manifest', s)),
         manifest'.status # "success", Retained' = Retained
  PROVE  Ledger!Withdraw(S)
  <1>1. \A s \in Stages : LedgerResult(s)' = IF s \in S THEN Ledger!Open ELSE LedgerResult(s)
    BY ResultOfRecord DEF ClosedSets
  <1>2. [s \in Stages |-> LedgerResult(s)]'
          = [s \in Stages |-> IF s \in S THEN Ledger!Open ELSE [t \in Stages |-> LedgerResult(t)][s]]
    BY <1>1
  <1>3. (manifest.status = "success")' = FALSE
    OBVIOUS
  <1>4. QED
    BY <1>2, <1>3 DEF Ledger!Withdraw, ClosedSets

LEMMA LedgerOpens ==
  ASSUME \A s \in Stages : manifest'.stages[s] = manifest.stages[s]
                           \/ (~Complete(manifest, s) /\ ~Complete(manifest', s)),
         manifest'.status # "success", Retained' = Retained
  PROVE  Ledger!LedgerNext
  <1>1. {} \in ClosedSets /\ {} \in SUBSET Stages
    BY DEF ClosedSets
  <1>2. Ledger!Withdraw({})
    BY <1>1, LedgerWithdraws
  <1>3. QED
    BY <1>1, <1>2 DEF Ledger!LedgerNext

LEMMA LedgerDependencies ==
  ASSUME NEW s \in Stages, ~Complete(manifest, s), DependenciesComplete(manifest, s)
  PROVE  Ledger!IsOpen(s) /\ Ledger!DependenciesSettled(s)
  <1>1. Deps[s] \subseteq Stages
    BY GraphAssumption
  <1>2. \A d \in Deps[s] : LedgerResult(d).state # "open"
    BY <1>1, ResultOfRecord DEF DependenciesComplete
  <1>3. QED
    BY <1>1, <1>2, ResultOfRecord DEF Ledger!IsOpen, Ledger!DependenciesSettled

LEMMA LedgerWaives ==
  ASSUME NEW s \in Stages, ~Complete(manifest, s), DependenciesComplete(manifest, s),
         ResultsStay(Stages \ {s}), Complete(manifest', s), ~Succeeded(s)',
         RunStays, Retained' = Retained
  PROVE  Ledger!LedgerNext
  <1>1. \A t \in Stages : LedgerResult(t)' = IF t = s THEN Ledger!Waived ELSE LedgerResult(t)
    BY ResultOfRecord DEF ResultsStay
  <1>2. [t \in Stages |-> LedgerResult(t)]'
          = [[t \in Stages |-> LedgerResult(t)] EXCEPT ![s] = Ledger!Waived]
    BY <1>1
  <1>3. Ledger!Waive(s)
    BY <1>2, LedgerDependencies DEF Ledger!Waive, RunStays
  <1>4. QED
    BY <1>3 DEF Ledger!LedgerNext

\* A stage's fingerprint is made of the outputs the ledger shows.
LEMMA LedgerInputs ==
  ASSUME NEW s \in Stages PROVE Ledger!Inputs(s) = Fingerprint(manifest, s)
  BY GraphAssumption DEF Ledger!Inputs, Fingerprint, LedgerResult, Succeeded

LEMMA LedgerRecords ==
  ASSUME NEW s \in Stages, NEW output \in Contents,
         ~Complete(manifest, s), FingerprintCurrent(s), ResultsStay(Stages \ {s}),
         Succeeded(s)', manifest'.stages[s].outputs = output,
         manifest'.stages[s].fingerprint = manifest.stages[s].fingerprint,
         RunStays, Retained' = Retained \union {<<s, output>>}
  PROVE  Ledger!LedgerNext
  <1> DEFINE entry == [state |-> "recorded", output |-> output, inputs |-> Ledger!Inputs(s)]
  <1>1. LedgerResult(s)' = entry
    BY LedgerInputs DEF LedgerResult, Succeeded, Complete, FingerprintCurrent
  <1>2. \A t \in Stages : LedgerResult(t)' = IF t = s THEN entry ELSE LedgerResult(t)
    BY <1>1, ResultOfRecord DEF ResultsStay
  <1> HIDE DEF entry
  <1>3. [t \in Stages |-> LedgerResult(t)]'
          = [[t \in Stages |-> LedgerResult(t)] EXCEPT ![s] = entry]
    BY <1>2
  <1>4. Ledger!IsOpen(s) /\ Ledger!DependenciesSettled(s)
    BY LedgerDependencies DEF FingerprintCurrent
  <1>5. Ledger!Record(s, output)
    BY <1>3, <1>4 DEF Ledger!Record, RunStays, entry
  <1>6. QED
    BY <1>5 DEF Ledger!LedgerNext
\* The step of one stage.
LEMMA LedgerStageStep ==
  ASSUME TypeOK, FingerprintInv, RecordInv, NEW s \in Stages,
         \/ AdoptOutput(s) \/ SkipDisabled(s) \/ BeginStage(s) \/ FinishRunningStage(s)
         \/ StageUnsupported(s) \/ PersistFailure(s)
  PROVE  Ledger!LedgerNext \/ UNCHANGED Ledger!ledgerVars
  <1>1. /\ manifest \in Manifests /\ files \in [Stages -> Outputs] /\ produced \in Outputs
        /\ OutputsRecorded /\ UNCHANGED ledgers
    BY DEF TypeOK, RecordInv, AdoptOutput, SkipDisabled, BeginStage, FinishRunningStage,
           StageUnsupported, PersistFailure, disk
  <1>2. /\ ~Complete(manifest, s) /\ ~Succeeded(s)
        /\ ~AdoptOutput(s) => DependenciesComplete(manifest, s)
    BY NextIsOpen DEF AdoptOutput, Adoptable, Complete, Succeeded, SkipDisabled, BeginStage,
                      FinishRunningStage, StageUnsupported, PersistFailure, Working
  <1>3. ASSUME ResultsStay(Stages \ {s}), ~Succeeded(s)' PROVE Retained' = Retained
    BY <1>1, <1>2, <1>3, SameRetained DEF ResultsStay, Holds, Succeeded
  <1>4. CASE AdoptOutput(s) \/ FinishRunningStage(s)
    <2>1. PICK output \in Contents :
            manifest' = FinishStage(manifest, s, output) /\ manifest.stages[s].status = "running"
      <3>1. CASE AdoptOutput(s)
        <4>1. Published(s) \in Contents
          BY <1>1, <3>1 DEF AdoptOutput, Adoptable, Published, Outputs, Contents
        <4>2. QED
          BY <3>1, <4>1 DEF AdoptOutput, Adoptable
      <3>2. CASE FinishRunningStage(s)
        <4>1. produced \in Contents
          BY <1>1, <3>2 DEF FinishRunningStage, RecordInv, PublishedInPlace, Outputs
        <4>2. QED
          BY <3>2, <4>1 DEF FinishRunningStage, Working
      <3>3. QED
        BY <1>4, <3>1, <3>2
    <2>2. FingerprintCurrent(s)
      BY <2>1, ConsistentIsCurrent DEF FingerprintInv, FingerprintsCurrent
    <2>3. /\ manifest'.status = manifest.status /\ Succeeded(s)'
          /\ manifest'.stages[s].outputs = output
          /\ manifest'.stages[s].fingerprint = manifest.stages[s].fingerprint
          /\ ResultsStay(Stages \ {s})
      BY <1>1, <2>1, FinishedStage DEF Succeeded, ResultsStay
    <2>4. \A t \in Stages : \A o : Holds(t, o)' <=> Holds(t, o) \/ (t = s /\ o = output)
      <3>1. \A o : Holds(s, o)' <=> Holds(s, o) \/ o = output
        BY <1>1, <1>2, <2>3 DEF Holds
      <3>2. \A t \in Stages \ {s} : \A o : Holds(t, o)' <=> Holds(t, o)
        BY <1>1, <2>3 DEF Holds, Succeeded, ResultsStay
      <3>3. QED
        BY <3>1, <3>2
    <2>5. Retained' = Retained \union {<<s, output>>}
      BY <2>4, MoreRetained
    <2>6. QED
      BY <1>2, <2>2, <2>3, <2>5, LedgerRecords DEF RunStays
  <1>5. CASE SkipDisabled(s) \/ StageUnsupported(s)
    <2>1. /\ manifest'.status = manifest.status /\ ResultsStay(Stages \ {s}) /\ ~Succeeded(s)'
      BY <1>1, <1>5, SkippedStage, UnsupportedStage
         DEF SkipDisabled, StageUnsupported, ResultsStay, Succeeded
    <2>2. CASE Complete(manifest', s)
      BY <1>2, <1>3, <1>5, <2>1, <2>2, LedgerWaives DEF RunStays, AdoptOutput, SkipDisabled, StageUnsupported
    <2>3. CASE ~Complete(manifest', s)
      BY <1>2, <1>3, <2>1, <2>3, LedgerKeeps DEF RunStays, ResultsStay
    <2>4. QED
      BY <2>2, <2>3
  <1>6. CASE BeginStage(s)
    <2>1. /\ manifest'.status = manifest.status /\ ResultsStay(Stages \ {s})
          /\ ~Succeeded(s)' /\ ~Complete(manifest', s)
      BY <1>1, <1>6, StartedStage DEF BeginStage, ResultsStay, Succeeded, Complete
    <2>2. QED
      BY <1>2, <1>3, <2>1, LedgerKeeps DEF RunStays, ResultsStay
  <1>7. CASE PersistFailure(s)
    <2>1. /\ manifest'.status = "failed" /\ ResultsStay(Stages \ {s})
          /\ ~Succeeded(s)' /\ ~Complete(manifest', s)
      BY <1>1, <1>7, FailedStage DEF PersistFailure, ResultsStay, Succeeded, Complete
    <2>2. QED
      BY <1>2, <1>3, <2>1, LedgerOpens DEF ResultsStay
  <1>8. QED
    BY <1>4, <1>5, <1>6, <1>7

LEMMA LedgerManifestStep ==
  ASSUME TypeOK, FingerprintInv, RecordInv, PendingPlaced, EvidenceInv, ManifestStep
  PROVE  Ledger!LedgerNext \/ UNCHANGED Ledger!ledgerVars
  <1>1. manifest \in Manifests /\ OutputsRecorded
    BY DEF TypeOK, RecordInv
  <1>2. CASE CreateManifest
    <2>1. /\ manifest'.status = "running" /\ manifest'.stages = manifest.stages
          /\ UNCHANGED ledgers
      BY <1>1, <1>2 DEF CreateManifest, Manifests, disk
    <2>2. Retained' = Retained
      BY <2>1, SameRetained DEF Holds, Succeeded
    <2>3. QED
      BY <2>1, <2>2, LedgerOpens
  <1>3. CASE PersistSuccess
    <2>1. /\ manifest'.status = "success" /\ manifest'.stages = manifest.stages
          /\ \A s \in Stages : Complete(manifest, s)
          /\ UNCHANGED ledgers
      BY <1>1, <1>3 DEF PersistSuccess, Succeed, Manifests, disk
    <2>2. Retained' = Retained
      BY <2>1, SameRetained DEF Holds, Succeeded
    <2>3. \A s \in Stages : LedgerResult(s)' = LedgerResult(s) /\ LedgerResult(s).state # "open"
      BY <2>1, ResultOfRecord
    <2>4. [s \in Stages |-> LedgerResult(s)]' = [s \in Stages |-> LedgerResult(s)]
      BY <2>3
    <2>5. Ledger!CompleteRun
      BY <2>1, <2>2, <2>3, <2>4 DEF Ledger!CompleteRun, Ledger!IsOpen
    <2>6. QED
      BY <2>5 DEF Ledger!LedgerNext
  <1>4. CASE ReopenRun
    <2>1. manifest' = Reopen(manifest, {}) /\ UNCHANGED ledgers
      BY <1>4 DEF ReopenRun, disk
    <2>2. /\ manifest'.status = "running"
          /\ \A s \in Stages :
               IF manifest.stages[s].status = "running"
                 THEN ~Complete(manifest, s) /\ ~Complete(manifest', s)
                 ELSE manifest'.stages[s] = manifest.stages[s]
      BY <1>1, <2>1, ReopenedStages DEF Complete
    <2>3. Retained' = Retained
      <3>1. \A s \in Stages : Succeeded(s)' <=> Succeeded(s)
        BY <2>2 DEF Succeeded, Complete
      <3>2. \A s \in Stages : Succeeded(s) => manifest'.stages[s] = manifest.stages[s]
        BY <2>2 DEF Succeeded
      <3>3. QED
        BY <2>1, <3>1, <3>2, SameRetained DEF Holds
    <2>4. QED
      BY <2>2, <2>3, LedgerOpens
  <1>5. CASE CommitInvalidation
    <2>1. /\ pc = "invalidate" /\ manifest' = Reopen(manifest, Archiving.names) /\ UNCHANGED ledgers
      BY <1>5 DEF CommitInvalidation, disk
    <2>2. /\ Len(ledgers) \in DOMAIN ledgers /\ Archiving = ledgers[Len(ledgers)]
          /\ pc \in Transaction /\ pc # "idle"
      BY <2>1, LastLedger DEF Transaction
    <2>3. Archiving.names \in ClosedSets
      BY <2>2 DEF FingerprintInv, LedgersClosed
    <2>4. /\ manifest'.status = "running"
          /\ \A s \in Stages :
               IF s \in Archiving.names \/ manifest.stages[s].status = "running"
                 THEN ~Complete(manifest', s) /\ ~Succeeded(s)'
                 ELSE manifest'.stages[s] = manifest.stages[s]
      BY <1>1, <2>1, ReopenedStages DEF Complete, Succeeded
    <2>5. ASSUME NEW s \in Archiving.names, Succeeded(s)
          PROVE  /\ manifest.stages[s].outputs # None
                 /\ ledgers[Len(ledgers)].kept[s] = manifest.stages[s].outputs
      <3>1. s \in Stages
        BY <2>3 DEF ClosedSets
      <3>2. manifest.stages[s].outputs # None
        BY <1>1, <2>5, <3>1 DEF OutputsRecorded
      <3>3. /\ s \in WithOutputs(Len(ledgers)) /\ s \notin Unmoved
        BY <2>1, <2>2, <2>5, <3>2 DEF EvidenceInv, ArchiveUnderWay, WithOutputs
      <3>4. files[s] = None
        BY <2>1, <3>3 DEF EvidenceInv, ArchiveUnderWay, Moved
      <3>5. OutputInArchive(s)
        BY <2>2, <2>5, <3>1, <3>2, <3>4, HeldWhileRunning DEF EvidenceInv, OutputsHeld, OutputInPlace
      <3>6. QED
        BY <2>2, <3>1, <3>2, <3>5, KeptByLast
    <2>6. Retained' = Retained
      <3>1. ASSUME NEW s \in Stages, NEW output, Holds(s, output)' PROVE Holds(s, output)
        BY <2>1, <2>4, <3>1 DEF Holds, Succeeded
      <3>2. ASSUME NEW s \in Stages, NEW output, Holds(s, output) PROVE Holds(s, output)'
        <4>1. CASE Succeeded(s) /\ s \in Archiving.names /\ manifest.stages[s].outputs = output
          BY <2>1, <2>2, <2>5, <4>1 DEF Holds
        <4>2. CASE Succeeded(s) /\ s \notin Archiving.names /\ manifest.stages[s].outputs = output
          BY <2>4, <4>2 DEF Holds, Succeeded
        <4>3. QED
          BY <2>1, <3>2, <4>1, <4>2 DEF Holds
      <3>3. QED
        BY <3>1, <3>2, SameRetained
    <2>7. \A s \in Stages \ Archiving.names :
            manifest'.stages[s] = manifest.stages[s]
            \/ (~Complete(manifest, s) /\ ~Complete(manifest', s))
      BY <2>4 DEF Complete
    <2>8. Ledger!Withdraw(Archiving.names) /\ Archiving.names \in SUBSET Stages
      BY <2>3, <2>4, <2>6, <2>7, LedgerWithdraws DEF ClosedSets
    <2>9. QED
      BY <2>8 DEF Ledger!LedgerNext
  <1>6. QED
    BY <1>2, <1>3, <1>4, <1>5, LedgerStageStep DEF ManifestStep

LEMMA LedgerStep ==
  ASSUME TypeOK, FingerprintInv, RecordInv, PendingPlaced, EvidenceInv, [Next]_vars, MaxDamages = 0
  PROVE  [Ledger!LedgerNext]_(Ledger!ledgerVars)
  <1>1. CASE QuietStep \/ FileStep
    <2>1. UNCHANGED <<manifest, ledgers>>
      BY <1>1, QuietStepKeeps, FileStepKeeps
    <2>2. Retained' = Retained
      BY <2>1, SameRetained DEF Holds, Succeeded
    <2>3. QED
      BY <2>1, <2>2, LedgerKeeps DEF RunStays
  <1>2. CASE ArchiveStep
    BY <1>2, ArchiveStepKeeps, ArchiveStutters, LedgerKeeps DEF RunStays
  <1>3. CASE ManifestStep
    BY <1>3, LedgerManifestStep
  <1>4. QED
    BY <1>1, <1>2, <1>3, StepKinds

\* Every run implements the abstract ledger: whatever is killed, forced,
\* rolled back or recovered, a result appears only on the recorded results it
\* was computed from, disappears only with everything computed from it, and
\* its output is retained for good, in its place or in an archive
\* (manifests.py, pipeline/resume.py).
THEOREM RunImplementsLedger ==
  ASSUME MaxDamages = 0
  PROVE  Spec => ImplementsLedger
  <1>1. Init => Ledger!LedgerInit
    <2> SUFFICES ASSUME Init PROVE Ledger!LedgerInit
      OBVIOUS
    <2>1. \A s \in Stages : ~Complete(manifest, s) /\ ~Succeeded(s)
      BY DEF Init, InitialStages, Complete, Succeeded
    <2>2. [s \in Stages |-> LedgerResult(s)] = [s \in Stages |-> Ledger!Open]
      BY <2>1, ResultOfRecord
    <2>3. Retained = {}
      <3>1. DOMAIN ledgers = {}
        BY DEF Init
      <3>2. QED
        BY <2>1, <3>1 DEF Retained
    <2>4. manifest.status # "success"
      BY DEF Init
    <2>5. QED
      BY <2>2, <2>3, <2>4 DEF Ledger!LedgerInit
  <1>2. QED
    BY <1>1, LedgerStep, TypeCorrect, FingerprintInvariant, RecordsAreHonest, OneArchiveTransaction,
       EvidenceInvariant, PTL DEF Spec, ImplementsLedger, Ledger!LedgerSpec
=============================================================================

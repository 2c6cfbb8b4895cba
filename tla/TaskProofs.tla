----------------------------- MODULE TaskProofs -----------------------------
(***************************************************************************)
(* Theorems about the task aggregate for every choice of its constants.    *)
(***************************************************************************)
EXTENDS Task, FiniteSetTheorems, WellFoundedInduction, TLAPS

-----------------------------------------------------------------------------
(* Type correctness.  TypeOK is inductive together with LeasesSound: the    *)
(* evidence finish_check appends takes its identity from the leased job, and *)
(* a user shell's job is none of the leased ones.                           *)
ShellSound ==
    shell # None => /\ jobs[shell.job].kind = "shell"
                    /\ jobs[shell.job].status # "absent"

TypeInv == TypeOK /\ LeasesSound /\ ShellSound

\* The parts of the type invariant an action leaves alone stay true.
LEMMA Frames ==
    /\ GenerationType /\ NoInvalidate => GenerationType'
    /\ ScopeType /\ UNCHANGED scopeVars => ScopeType'
    /\ ContractType /\ UNCHANGED contract => ContractType'
    /\ SourceType /\ UNCHANGED sourceVars => SourceType'
    /\ WorkType /\ UNCHANGED workVars => WorkType'
    /\ LeasesSound /\ UNCHANGED workVars => LeasesSound'
    /\ ShellSound /\ (UNCHANGED workVars \/ UNCHANGED jobs)
                  /\ (UNCHANGED envVars \/ UNCHANGED shell) => ShellSound'
    /\ RecordType /\ UNCHANGED <<effects, findings>> => RecordType'
    /\ AccountType /\ UNCHANGED accountVars => AccountType'
    /\ EndType /\ UNCHANGED endVars => EndType'
    /\ EnvType /\ UNCHANGED envVars => EnvType'
<1>1. GenerationType /\ NoInvalidate => GenerationType'
  BY DEF GenerationType, NoInvalidate
<1>2. ScopeType /\ UNCHANGED scopeVars => ScopeType'
  BY DEF ScopeType, scopeVars
<1>3. ContractType /\ UNCHANGED contract => ContractType'
  BY DEF ContractType
<1>4. SourceType /\ UNCHANGED sourceVars => SourceType'
  BY DEF SourceType, sourceVars
<1>5. WorkType /\ UNCHANGED workVars => WorkType'
  BY DEF WorkType, workVars
<1>6. LeasesSound /\ UNCHANGED workVars => LeasesSound'
  BY DEF LeasesSound, workVars
<1>7. RecordType /\ UNCHANGED <<effects, findings>> => RecordType'
  BY DEF RecordType
<1>8. AccountType /\ UNCHANGED accountVars => AccountType'
  BY DEF AccountType, accountVars
<1>9. EndType /\ UNCHANGED endVars => EndType'
  BY DEF EndType, endVars
<1>10. EnvType /\ UNCHANGED envVars => EnvType'
  BY DEF EnvType, envVars
<1>11. ShellSound /\ (UNCHANGED workVars \/ UNCHANGED jobs)
                  /\ (UNCHANGED envVars \/ UNCHANGED shell) => ShellSound'
  BY DEF ShellSound, workVars, envVars
<1>12. QED
  BY <1>1, <1>2, <1>3, <1>4, <1>5, <1>6, <1>7, <1>8, <1>9, <1>10, <1>11

\* A new generation is well typed.
LEMMA InvalidateType ==
    ASSUME GenerationType, NEW n \in Nat, Invalidate(n) PROVE GenerationType'
BY DEF GenerationType, Invalidate

\* A job's status and receipt may change within its record's type.
LEMMA JobUpdate ==
    ASSUME NEW J \in [JobIds -> JobRecord], NEW j \in JobIds,
           NEW s \in JobStatus, NEW b \in BOOLEAN
    PROVE  /\ [J EXCEPT ![j].status = s] \in [JobIds -> JobRecord]
           /\ [J EXCEPT ![j].status = s, ![j].receipt = b] \in [JobIds -> JobRecord]
<1>1. J[j] \in JobRecord
  OBVIOUS
<1>2. [J[j] EXCEPT !.status = s] \in JobRecord
  BY <1>1 DEF JobRecord
<1>3. [[J[j] EXCEPT !.status = s] EXCEPT !.receipt = b] \in JobRecord
  BY <1>2 DEF JobRecord
<1>4. QED
  BY <1>2, <1>3

\* A new job of the current generation is well typed.
LEMMA NewJob ==
    ASSUME NEW g \in Nat, NEW kind \in {"check", "plain", "execution", "shell"},
           NEW m \in BOOLEAN, NEW id \in Identities \cup {None}
    PROVE  Job(kind, m, id, g) \in JobRecord
BY DEF Job, JobRecord, JobStatus

LEMMA InitType == Init => TypeInv
<1> SUFFICES ASSUME Init PROVE TypeInv
  OBVIOUS
<1>1. NoJob \in JobRecord
  BY DEF NoJob, JobRecord, JobStatus
<1>2. WorkType
  BY <1>1 DEF Init, WorkType
<1>3. ScopeType
  BY DEF Init, ScopeType
<1>4. AccountType
  BY DEF Init, AccountType, Usage
<1>5. RecordType
  BY DEF Init, RecordType
<1>6. GenerationType /\ ContractType
  BY DEF Init, GenerationType, ContractType
<1>9. SourceType
  BY DEF Init, SourceType
<1>10. EndType
  <2>1. certificates \in Seq(CertificateRecord) BY DEF Init
  <2>2. cancelRequested \in BOOLEAN BY DEF Init
  <2>3. QED BY <2>1, <2>2 DEF Init, EndType
<1>11. EnvType
  BY DEF Init, EnvType
<1>7. LeasesSound /\ ShellSound
  BY DEF Init, LeasesSound, ShellSound
<1>8. QED
  BY <1>2, <1>3, <1>4, <1>5, <1>6, <1>7, <1>9, <1>10, <1>11 DEF TypeInv, TypeOK

\* The certificate complete records is well typed.
LEMMA CertificateType ==
    ASSUME TypeInv, evaluate PROVE Certificate \in CertificateRecord
<1> DEFINE E(k) == CHOOSE i \in DOMAIN evidence : Accepted(i, k)
<1>1. contract \in Contracts /\ candidate.source \in Sources /\ generation \in Nat
  BY DEF evaluate, TypeInv, TypeOK, ContractType, SourceType, GenerationType, Frozen
<1>2. DOMAIN contract.checks \subseteq Checks
  <2>1. contract.checks \in UNION {[K -> CheckDef] : K \in SUBSET Checks \ {{}}}
    BY <1>1, ContractsAssumption DEF Contract
  <2>2. QED BY <2>1
<1>3. ASSUME NEW k \in DOMAIN contract.checks PROVE evidence[E(k)].job \in JobIds
  <2>1. \E i \in DOMAIN evidence : Accepted(i, k)
    BY DEF evaluate
  <2>2. E(k) \in DOMAIN evidence
    BY <2>1
  <2>3. evidence[E(k)] \in EvidenceRecord
    BY <2>2 DEF TypeInv, TypeOK, WorkType
  <2>4. QED BY <2>3 DEF EvidenceRecord
<1>4. [k \in DOMAIN contract.checks |-> evidence[E(k)].job]
        \in [DOMAIN contract.checks -> JobIds]
  BY <1>3
<1>5. QED
  BY <1>1, <1>2, <1>4 DEF Certificate, CertificateRecord

LEMMA StepType == TypeInv /\ [Next]_vars => TypeInv'
<1> SUFFICES ASSUME TypeInv, [Next]_vars PROVE TypeInv'
  OBVIOUS
<1> USE DEF TypeInv, TypeOK
<1>1. ASSUME NEW c \in Contracts, admit_contract(c) PROVE TypeInv'
  <2>1. ContractType'
    BY <1>1 DEF admit_contract, ContractType
  <2>2. QED
    BY <1>1, <2>1, Frames, InvalidateType DEF admit_contract
<1>2. ASSUME NEW c \in Contracts, amend_contract(c) PROVE TypeInv'
  <2>1. ContractType'
    BY <1>2 DEF amend_contract, ContractType
  <2>2. EnvType'
    BY <1>2 DEF amend_contract, EnvType, envVars
  <2>3. QED
    BY <1>2, <2>1, <2>2, Frames, InvalidateType DEF amend_contract
<1>3. ASSUME NEW c \in Contracts, accept_additive_contract(c) PROVE TypeInv'
  <2>1. ContractType'
    BY <1>3 DEF accept_additive_contract, ContractType
  <2>2. ScopeType'
    BY <1>3 DEF accept_additive_contract, ScopeType, scopeVars
  <2>3. QED
    BY <1>3, <2>1, <2>2, Frames, InvalidateType DEF accept_additive_contract
<1>4. ASSUME NEW r \in Requests, receive_directive(r) PROVE TypeInv'
  <2>1. ScopeType'
    BY <1>4 DEF receive_directive, ScopeType, Directive, scopeVars
  <2>2. WorkType'
    BY <1>4 DEF receive_directive, WorkType, Directive
  <2>3. EndType'
    BY <1>4 DEF receive_directive, EndType, Directive
  <2>4. LeasesSound'
    BY <1>4 DEF receive_directive, LeasesSound, WorkType, Directive
  <2>5. QED
    BY <1>4, <2>1, <2>2, <2>3, <2>4, Frames, InvalidateType DEF receive_directive
<1>5. ASSUME NEW r \in Requests, replace_directive(r) PROVE TypeInv'
  <2>1. ScopeType'
    BY <1>5 DEF replace_directive, ScopeType, Directive, scopeVars
  <2>2. WorkType'
    BY <1>5 DEF replace_directive, WorkType, Directive
  <2>3. EndType'
    BY <1>5 DEF replace_directive, EndType, Directive
  <2>4. LeasesSound'
    BY <1>5 DEF replace_directive, LeasesSound, WorkType, Directive
  <2>5. QED
    BY <1>5, <2>1, <2>2, <2>3, <2>4, Frames, InvalidateType DEF replace_directive
<1>6. ASSUME NEW r \in Requests, continue_submission(r) PROVE TypeInv'
  <2>1. GenerationType'
    BY <1>6, InvalidateType DEF continue_submission, GenerationType
  <2>2. ScopeType'
    <3>1. CASE directives[r] = 0
      BY <1>6, <3>1 DEF continue_submission, ScopeType, Directive
    <3>2. CASE directives[r] # 0
      BY <1>6, <3>2, Frames DEF continue_submission
    <3>3. QED BY <3>1, <3>2
  <2>3. WorkType'
    BY <1>6 DEF continue_submission, WorkType, Directive
  <2>4. EndType'
    BY <1>6 DEF continue_submission, EndType, Directive
  <2>5. LeasesSound'
    BY <1>6 DEF continue_submission, LeasesSound, WorkType, Directive
  <2>6. QED
    BY <1>6, <2>1, <2>2, <2>3, <2>4, <2>5, Frames, InvalidateType DEF continue_submission
<1>7. ASSUME NEW s \in Sources, establish_workspace(s) PROVE TypeInv'
  <2>1. SourceType'
    BY <1>7 DEF establish_workspace, SourceType
  <2>2. QED
    BY <1>7, <2>1, Frames, InvalidateType DEF establish_workspace
<1>8. ASSUME NEW s \in Sources, establish_baseline(s) PROVE TypeInv'
  <2>1. SourceType'
    BY <1>8 DEF establish_baseline, SourceType
  <2>2. QED
    BY <1>8, <2>1, Frames, InvalidateType DEF establish_baseline
<1>9. ASSUME NEW s \in Sources, NEW f \in BOOLEAN, select_candidate(s, f) PROVE TypeInv'
  <2>1. SourceType'
    BY <1>9 DEF select_candidate, SourceType
  <2>2. QED
    BY <1>9, <2>1, Frames, InvalidateType DEF select_candidate
<1>10. ASSUME invalidate_candidate PROVE TypeInv'
  <2>1. SourceType'
    BY <1>10 DEF invalidate_candidate, SourceType
  <2>2. QED
    BY <1>10, <2>1, Frames, InvalidateType DEF invalidate_candidate
<1>11. ASSUME workspace_restored PROVE TypeInv'
  <2>1. SourceType'
    BY <1>11 DEF workspace_restored, SourceType
  <2>2. QED
    BY <1>11, <2>1, Frames, InvalidateType DEF workspace_restored
<1>12. ASSUME NEW j \in JobIds, NEW k \in Checks, begin_check(j, k) PROVE TypeInv'
  <2>1. Identity(contract, candidate.source, k) \in Identities
    BY <1>12 DEF Identity, Identities, Frozen, ContractType, SourceType,
       begin_check
  <2>2. WorkType'
    BY <1>12, <2>1, NewJob DEF GenerationType, begin_check, WorkType
  <2>3. LeasesSound'
    BY <1>12, <2>1 DEF begin_check, LeasesSound, WorkType, Job
  <2>4. ShellSound'
    BY <1>12 DEF begin_check, ShellSound, WorkType, envVars, EnvType
  <2>5. QED
    BY <1>12, <2>1, <2>2, <2>3, <2>4, Frames, InvalidateType DEF begin_check
<1>13. ASSUME NEW j \in JobIds, NEW o \in Observations, finish_check(j, o) PROVE TypeInv'
  <2>1. ObservedStatus(o) \in JobStatus
    BY <1>13 DEF ObservedStatus, JobStatus
  <2>2. WorkType'
    <3>1. jobs' \in [JobIds -> JobRecord]
      BY <1>13, <2>1, JobUpdate DEF finish_check, WorkType
    <3>2. leases' \subseteq JobIds
      BY <1>13 DEF finish_check, WorkType, ReleaseLease
    <3>3. jobs[j].identity \in Identities
      BY <1>13 DEF finish_check, LeaseHeld, LeasesSound
    <3>4. [job |-> j, generation |-> generation, identity |-> jobs[j].identity,
           result |-> o] \in EvidenceRecord
      BY <3>3 DEF EvidenceRecord, GenerationType
    <3>5. evidence' \in Seq(EvidenceRecord)
      BY <1>13, <3>4 DEF finish_check, WorkType
    <3>6. QED BY <3>1, <3>2, <3>5 DEF WorkType
  <2>3. LeasesSound'
    BY <1>13 DEF finish_check, LeasesSound, WorkType, LeaseHeld, ReleaseLease
  <2>4. ShellSound'
    BY <1>13, <2>1 DEF finish_check, ShellSound, WorkType, envVars, EnvType,
       ObservedStatus
  <2>5. QED
    BY <1>13, <2>1, <2>2, <2>3, <2>4, Frames, InvalidateType DEF finish_check
<1>14. ASSUME NEW j \in JobIds, NEW m \in BOOLEAN, start_job(j, m) PROVE TypeInv'
  <2>1. WorkType'
    BY <1>14, NewJob DEF GenerationType, start_job, WorkType
  <2>2. LeasesSound'
    BY <1>14 DEF start_job, LeasesSound, WorkType, Job
  <2>3. ShellSound'
    BY <1>14 DEF start_job, ShellSound, WorkType, envVars, EnvType
  <2>4. QED
    BY <1>14, <2>1, <2>2, <2>3, Frames, InvalidateType DEF start_job
<1>15. ASSUME NEW j \in JobIds, NEW m \in BOOLEAN, start_execution_job(j, m) PROVE TypeInv'
  <2>1. WorkType'
    BY <1>15, NewJob DEF GenerationType, start_execution_job, WorkType
  <2>2. LeasesSound'
    BY <1>15 DEF start_execution_job, LeasesSound, WorkType, Job
  <2>3. ShellSound'
    BY <1>15 DEF start_execution_job, ShellSound, WorkType, envVars, EnvType
  <2>4. QED
    BY <1>15, <2>1, <2>2, <2>3, Frames, InvalidateType DEF start_execution_job
<1>16. ASSUME NEW j \in JobIds, NEW s \in SettledStatus, NEW r \in BOOLEAN, settle_job(j, s, r) PROVE TypeInv'
  <2>1. WorkType'
    BY <1>16, JobUpdate DEF settle_job, WorkType, ReleaseLease, SettledStatus,
       JobStatus
  <2>2. LeasesSound'
    BY <1>16 DEF settle_job, LeasesSound, WorkType, ReleaseLease
  <2>3. ShellSound'
    BY <1>16 DEF settle_job, ShellSound, WorkType, envVars, EnvType, SettledStatus
  <2>4. QED
    BY <1>16, <2>1, <2>2, <2>3, Frames, InvalidateType DEF settle_job
<1>17. ASSUME NEW j \in JobIds, fence_job(j) PROVE TypeInv'
  <2>1. WorkType'
    BY <1>17, JobUpdate DEF fence_job, WorkType, ReleaseLease, JobStatus
  <2>2. LeasesSound'
    BY <1>17 DEF fence_job, LeasesSound, WorkType, ReleaseLease
  <2>3. ShellSound'
    BY <1>17 DEF fence_job, ShellSound, WorkType, envVars, EnvType, Unresolved
  <2>4. QED
    BY <1>17, <2>1, <2>2, <2>3, Frames, InvalidateType DEF fence_job
<1>18. ASSUME NEW j \in JobIds, NEW e \in EffectIds, begin_shell(j, e) PROVE TypeInv'
  <2>1. ScopeType'
    BY <1>18 DEF begin_shell, ScopeType
  <2>2. Job("shell", TRUE, None, generation + 1) \in JobRecord
    <3>1. generation + 1 \in Nat BY DEF GenerationType
    <3>2. QED BY <3>1, NewJob
  <2>3. WorkType'
    BY <1>18, <2>2 DEF begin_shell, WorkType
  <2>4. LeasesSound'
    BY <1>18 DEF begin_shell, LeasesSound, WorkType, Job, NothingUnsettled
  <2>5. RecordType'
    BY <1>18 DEF begin_shell, RecordType, EffectStatus
  <2>6. EndType'
    BY <1>18 DEF begin_shell, EndType
  <2>7. EnvType'
    BY <1>18 DEF begin_shell, EnvType, ScopeType
  <2>8. ShellSound'
    BY <1>18 DEF begin_shell, ShellSound, WorkType, Job, EnvType
  <2>9. QED
    BY <1>18, <2>1, <2>2, <2>3, <2>4, <2>5, <2>6, <2>7, <2>8, Frames,
       InvalidateType DEF begin_shell
<1>19. ASSUME NEW s \in SettledStatus, NEW a \in Sources \cup {None}, finish_shell(s, a) PROVE TypeInv'
  <2>1. SourceType'
    BY <1>19 DEF finish_shell, SourceType
  <2>2. WorkType'
    BY <1>19, JobUpdate DEF finish_shell, WorkType, EnvType, JobStatus,
       SettledStatus
  <2>3. LeasesSound'
    BY <1>19 DEF finish_shell, LeasesSound, WorkType, EnvType, ShellSound
  <2>4. RecordType'
    BY <1>19 DEF finish_shell, RecordType, EnvType, EffectStatus
  <2>5. EndType'
    BY <1>19 DEF finish_shell, EndType, Outcomes
  <2>6. EnvType'
    BY <1>19 DEF finish_shell, EnvType
  <2>7. ShellSound'
    BY <1>19 DEF finish_shell, ShellSound, WorkType
  <2>8. QED
    BY <1>19, <2>1, <2>2, <2>3, <2>4, <2>5, <2>6, <2>7, Frames, InvalidateType DEF finish_shell
<1>20. ASSUME NEW e \in EffectIds, NEW s \in EffectStatus, record_effect(e, s) PROVE TypeInv'
  <2>1. RecordType'
    BY <1>20 DEF record_effect, RecordType
  <2>2. QED
    BY <1>20, <2>1, Frames, InvalidateType DEF record_effect
<1>21. ASSUME NEW f \in FindingIds, NEW s \in {"blocking", "cleared"}, record_finding(f, s) PROVE TypeInv'
  <2>1. RecordType'
    BY <1>21 DEF record_finding, RecordType
  <2>2. QED
    BY <1>21, <2>1, Frames, InvalidateType DEF record_finding
<1>22. ASSUME NEW o \in Operations, reserve_model_call(o) PROVE TypeInv'
  <2>1. AccountType'
    BY <1>22 DEF reserve_model_call, AccountType, Usage
  <2>2. QED
    BY <1>22, <2>1, Frames, InvalidateType DEF reserve_model_call
<1>23. ASSUME NEW o \in Operations, NEW r \in Receipts, record_model_call(o, r) PROVE TypeInv'
  <2>1. GenerationType'
    BY <1>23, InvalidateType, Frames DEF record_model_call, GenerationType,
       LateAccounting
  <2>2. AccountType'
    BY <1>23, ReceiptsAssumption DEF record_model_call, AccountType,
       LateAccounting, Usage, Receipt
  <2>3. EndType'
    BY <1>23 DEF record_model_call, EndType, LateAccounting, Outcomes
  <2>4. QED
    BY <1>23, <2>1, <2>2, <2>3, Frames, InvalidateType DEF record_model_call, LateAccounting
<1>24. ASSUME NEW o \in Operations, NEW u \in Charges, charge_usage(o, u) PROVE TypeInv'
  <2>1. GenerationType'
    BY <1>24, InvalidateType, Frames DEF charge_usage, GenerationType,
       LateAccounting
  <2>2. AccountType'
    BY <1>24, ChargesAssumption DEF charge_usage, AccountType, LateAccounting,
       Usage
  <2>3. EndType'
    BY <1>24 DEF charge_usage, EndType, LateAccounting, Outcomes
  <2>4. QED
    BY <1>24, <2>1, <2>2, <2>3, Frames, InvalidateType DEF charge_usage, LateAccounting
<1>25. ASSUME complete PROVE TypeInv'
  <2>1. Certificate \in CertificateRecord
    BY <1>25, CertificateType DEF complete
  <2>2. EndType'
    BY <1>25, <2>1 DEF complete, EndType, Outcomes
  <2>3. QED
    BY <1>25, <2>1, <2>2, Frames, InvalidateType DEF complete
<1>26. ASSUME record_delivery PROVE TypeInv'
  <2>1. GenerationType'
    BY <1>26, ContractsAssumption DEF record_delivery, GenerationType, Frozen,
       SourceType, ContractType, Contract
  <2>2. QED
    BY <1>26, <2>1, Frames, InvalidateType DEF record_delivery
<1>27. ASSUME NEW end \in StopOutcomes, stop(end) PROVE TypeInv'
  <2>1. EndType'
    BY <1>27, StopAssumption DEF stop, EndType
  <2>2. QED
    BY <1>27, <2>1, Frames, InvalidateType DEF stop
<1>28. ASSUME request_cancellation PROVE TypeInv'
  <2>1. EndType'
    BY <1>28 DEF request_cancellation, EndType
  <2>2. QED
    BY <1>28, <2>1, Frames, InvalidateType DEF request_cancellation
<1>29. ASSUME audit_evidence PROVE TypeInv'
  <2>1. EndType'
    BY <1>29 DEF audit_evidence, EndType, Outcomes
  <2>2. QED
    BY <1>29, <2>1, Frames, InvalidateType DEF audit_evidence
<1>30. ASSUME resume_task PROVE TypeInv'
  <2>1. EndType'
    BY <1>30 DEF resume_task, EndType, Reopened
  <2>2. QED
    BY <1>30, <2>1, Frames, InvalidateType DEF resume_task, Reopened
<1>31. ASSUME reopen PROVE TypeInv'
  <2>1. EndType'
    BY <1>31 DEF reopen, EndType, Reopened
  <2>2. QED
    BY <1>31, <2>1, Frames, InvalidateType DEF reopen, Reopened
<1>32. ASSUME recover_interrupted PROVE TypeInv'
  <2>1. GenerationType'
    BY <1>32, InvalidateType, Frames DEF recover_interrupted, GenerationType
  <2>2. \A j \in JobIds : [jobs[j] EXCEPT !.status = "unknown"] \in JobRecord
    BY <1>32 DEF WorkType, JobRecord, JobStatus
  <2>3. WorkType'
    BY <1>32, <2>2 DEF recover_interrupted, WorkType
  <2>4. LeasesSound'
    BY <1>32 DEF recover_interrupted, LeasesSound, WorkType
  <2>5. RecordType'
    BY <1>32 DEF recover_interrupted, RecordType, EffectStatus
  <2>6. EndType'
    BY <1>32 DEF recover_interrupted, EndType, Outcomes
  <2>7. EnvType'
    BY <1>32 DEF recover_interrupted, EnvType
  <2>8. ShellSound'
    BY <1>32 DEF recover_interrupted, ShellSound, WorkType
  <2>9. QED
    BY <1>32, <2>1, <2>2, <2>3, <2>4, <2>5, <2>6, <2>7, <2>8, Frames,
       InvalidateType DEF recover_interrupted
<1>33. ASSUME elapse PROVE TypeInv'
  <2>1. EnvType'
    BY <1>33 DEF elapse, EnvType, envVars
  <2>2. QED
    BY <1>33, <2>1, Frames, InvalidateType DEF elapse
<1>34. CASE UNCHANGED vars
  <2>1. UNCHANGED <<scopeVars, contract, sourceVars, workVars, <<effects, findings>>,
                    accountVars, endVars, envVars>> /\ NoInvalidate
    BY <1>34 DEF vars, NoInvalidate
  <2>2. QED
    BY <2>1, Frames
<1>35. QED
  BY <1>1, <1>2, <1>3, <1>4, <1>5, <1>6, <1>7, <1>8, <1>9, <1>10, <1>11, <1>12,
     <1>13, <1>14, <1>15, <1>16, <1>17, <1>18, <1>19, <1>20, <1>21, <1>22,
     <1>23, <1>24, <1>25, <1>26, <1>27, <1>28, <1>29, <1>30, <1>31, <1>32,
     <1>33, <1>34
     DEF Next, ContractStep, DirectiveStep, SourceStep, JobStep, ShellStep,
         RecordStep, AccountStep, EndStep

LEMMA TypeInvariant == Spec => []TypeInv
BY InitType, StepType, PTL DEF Spec

\* TaskState and the leases table keep their types, and a lease row belongs to
\* a running check, whatever operations the store accepts.
THEOREM TypeCorrect == Spec => [](TypeOK /\ LeasesSound)
BY TypeInvariant, PTL DEF TypeInv

-----------------------------------------------------------------------------
(* Follow-ups.  AmendmentExact needs to know that scopes only grow: a scope  *)
(* handed out is never above the counter, and neither is the admitted one.   *)
ScopeInv == /\ ScopeType
            /\ admittedScope <= scope
            /\ \A r \in Requests : directives[r] <= scope
            /\ AmendmentExact

\* The operations that touch the scope of a task.
LEMMA ScopeSteps ==
    [Next]_vars =>
      \/ UNCHANGED scopeVars
      \/ \E c \in Contracts : accept_additive_contract(c)
      \/ \E r \in Requests : \/ receive_directive(r) \/ replace_directive(r)
                             \/ continue_submission(r)
      \/ \E j \in JobIds, e \in EffectIds : begin_shell(j, e)
<1> SUFFICES ASSUME [Next]_vars,
                    ~ \E c \in Contracts : accept_additive_contract(c),
                    ~ \E r \in Requests : \/ receive_directive(r) \/ replace_directive(r)
                                          \/ continue_submission(r),
                    ~ \E j \in JobIds, e \in EffectIds : begin_shell(j, e)
             PROVE  UNCHANGED scopeVars
  OBVIOUS
<1>1. ContractStep => UNCHANGED scopeVars
  BY DEF ContractStep, admit_contract, amend_contract
<1>2. SourceStep => UNCHANGED scopeVars
  BY DEF SourceStep, establish_workspace, establish_baseline, select_candidate,
         invalidate_candidate, workspace_restored
<1>3. JobStep => UNCHANGED scopeVars
  BY DEF JobStep, begin_check, finish_check, start_job, start_execution_job,
         settle_job, fence_job
<1>4. ShellStep \/ RecordStep => UNCHANGED scopeVars
  BY DEF ShellStep, RecordStep, finish_shell, record_effect, record_finding
<1>5. AccountStep => UNCHANGED scopeVars
  BY DEF AccountStep, reserve_model_call, record_model_call, charge_usage,
         LateAccounting
<1>6. EndStep => UNCHANGED scopeVars
  BY DEF EndStep, record_delivery, complete, request_cancellation, audit_evidence,
         resume_task, reopen, Reopened, recover_interrupted, elapse, stop
<1>7. UNCHANGED vars => UNCHANGED scopeVars
  BY DEF vars
<1>8. QED
  BY <1>1, <1>2, <1>3, <1>4, <1>5, <1>6, <1>7 DEF Next, DirectiveStep

\* A directive takes the next scope number and makes the amendment pending.
LEMMA DirectiveScope ==
    ASSUME ScopeInv, NEW r \in Requests, Directive(r), UNCHANGED admittedScope
    PROVE  ScopeInv'
<1>1. /\ scope' = scope + 1
      /\ directives' = [directives EXCEPT ![r] = scope + 1]
      /\ amendmentPending' = TRUE
      /\ admittedScope' = admittedScope
  BY DEF Directive
<1>2. ScopeType'
  BY <1>1 DEF ScopeInv, ScopeType
<1>3. admittedScope' <= scope' /\ \A q \in Requests : directives'[q] <= scope'
  BY <1>1 DEF ScopeInv, ScopeType
<1>4. directives'[r] > admittedScope'
  BY <1>1 DEF ScopeInv, ScopeType
<1>5. AmendmentExact'
  BY <1>1, <1>4 DEF AmendmentExact
<1>6. QED BY <1>2, <1>3, <1>5 DEF ScopeInv

LEMMA ScopeStep == ScopeInv /\ [Next]_vars => ScopeInv'
<1> SUFFICES ASSUME ScopeInv, [Next]_vars PROVE ScopeInv'
  OBVIOUS
<1>1. CASE UNCHANGED scopeVars
  BY <1>1 DEF ScopeInv, ScopeType, AmendmentExact, scopeVars
<1>2. ASSUME NEW c \in Contracts, accept_additive_contract(c) PROVE ScopeInv'
  <2>1. /\ scope' = scope /\ directives' = directives
        /\ amendmentPending' = FALSE /\ admittedScope' = scope
    BY <1>2 DEF accept_additive_contract
  <2>a. amendmentPending' \in BOOLEAN
    BY <2>1
  <2>2. ScopeType' /\ admittedScope' <= scope'
    BY <2>1, <2>a DEF ScopeInv, ScopeType
  <2>3. \A r \in Requests : directives'[r] <= scope' /\ ~(directives'[r] > admittedScope')
    BY <2>1 DEF ScopeInv, ScopeType
  <2>4. AmendmentExact'
    BY <2>1, <2>3 DEF AmendmentExact
  <2>5. QED BY <2>2, <2>3, <2>4 DEF ScopeInv
<1>3. ASSUME NEW r \in Requests,
             receive_directive(r) \/ replace_directive(r) \/ continue_submission(r)
      PROVE  ScopeInv'
  <2>1. (Directive(r) /\ UNCHANGED admittedScope) \/ UNCHANGED scopeVars
    BY <1>3 DEF receive_directive, replace_directive, continue_submission
  <2>2. QED BY <2>1, <1>1, DirectiveScope
<1>4. ASSUME NEW j \in JobIds, NEW e \in EffectIds, begin_shell(j, e) PROVE ScopeInv'
  <2>1. /\ scope' = scope + 1
        /\ UNCHANGED <<admittedScope, directives, amendmentPending>>
    BY <1>4 DEF begin_shell
  <2>2. ScopeType' /\ admittedScope' <= scope'
    BY <2>1 DEF ScopeInv, ScopeType
  <2>3. \A r \in Requests : directives'[r] <= scope'
    BY <2>1 DEF ScopeInv, ScopeType
  <2>4. AmendmentExact'
    BY <2>1 DEF ScopeInv, AmendmentExact
  <2>5. QED BY <2>2, <2>3, <2>4 DEF ScopeInv
<1>5. QED BY <1>1, <1>2, <1>3, <1>4, ScopeSteps

\* No interleaving of steering, editing, continuation, user shells and contract
\* admission loses a follow-up: an amendment is pending exactly while a
\* directive is newer than the scope the contract was admitted for.
THEOREM FollowUpsKept == Spec => []AmendmentExact
<1>1. ASSUME Init PROVE ScopeInv
  <2>1. ScopeType
    BY <1>1, InitType DEF TypeInv, TypeOK
  <2>2. admittedScope <= scope /\ \A r \in Requests : directives[r] <= scope
    BY <1>1 DEF Init
  <2>3. ~amendmentPending /\ \A r \in Requests : ~(directives[r] > admittedScope)
    BY <1>1 DEF Init
  <2>4. QED BY <2>1, <2>2, <2>3 DEF ScopeInv, AmendmentExact
<1>2. ScopeInv => AmendmentExact
  BY DEF ScopeInv
<1>3. QED
  BY <1>1, <1>2, ScopeStep, PTL DEF Spec
-----------------------------------------------------------------------------
(* Completion.  Everything a certificate speaks about stays put while the   *)
(* task says "complete": the store refuses what would move it, or the move  *)
(* takes the outcome away.                                                  *)
Certified == <<generation, delivery, amendmentPending, contract, candidate,
               baseline, jobs, evidence, effects, findings, reserved, receipts,
               cancelRequested, certificates>>

LEMMA StillComplete ==
    ASSUME TypeInv, CompleteIsSettled, outcome = "complete", [Next]_vars,
           outcome' = "complete"
    PROVE  /\ UNCHANGED Certified
           /\ usage'.tokens <= contract.limits.tokens
           /\ usage'.calls <= contract.limits.calls
<1> DEFINE Within(u) == /\ u.tokens <= contract.limits.tokens
                        /\ u.calls <= contract.limits.calls
           Kept == UNCHANGED Certified /\ Within(usage')
<1>0. "complete" # None
  BY NoneAssumption DEF Outcomes
<1>1. ~Open /\ Discharged /\ contract # None
  BY <1>0 DEF Open, CompleteIsSettled
<1>2. Within(usage)
  BY <1>1 DEF Discharged
<1>3. (\A j \in JobIds : ~Unresolved(j)) /\ (\A e \in EffectIds : ~UnresolvedEffect(e))
  BY <1>1 DEF Discharged, NothingUnsettled
<1>4. ~ContractStep
  BY <1>1 DEF ContractStep, admit_contract, amend_contract, accept_additive_contract
<1>5. ~DirectiveStep
  BY <1>0 DEF DirectiveStep, receive_directive, replace_directive,
              continue_submission, Directive
<1>6. ~SourceStep
  BY <1>1 DEF SourceStep, establish_workspace, establish_baseline,
              select_candidate, invalidate_candidate, workspace_restored
<1>7. ~JobStep
  BY <1>0, <1>1, <1>3 DEF JobStep, begin_check, finish_check, LeaseHeld, start_job,
              start_execution_job, settle_job, fence_job, begin_shell
<1>8. ~ShellStep
  BY DEF ShellStep, finish_shell
<1>9. ~RecordStep
  BY <1>1, <1>3 DEF RecordStep, record_effect, record_finding
<1>10. ASSUME AccountStep PROVE Kept
  <2>1. ASSUME NEW o \in Operations PROVE ~reserve_model_call(o)
    BY <1>1 DEF reserve_model_call
  <2>2. ASSUME NEW o \in Operations, NEW r \in Receipts PROVE ~record_model_call(o, r)
    <3>1. o \in reserved => receipts[o] # None /\ ~Refines(receipts[o], r)
      BY <1>1 DEF Discharged, Reconciled, StatusKnown, Refines
    <3>2. QED BY <3>1 DEF record_model_call
  <2>3. ASSUME NEW o \in Operations, NEW u \in Charges, charge_usage(o, u) PROVE Kept
    <3>1. contract.limits \in Limits
      BY <1>1, ContractsAssumption DEF TypeInv, TypeOK, ContractType, Contract
    <3>2. usage' \in Usage
      BY <2>3, ChargesAssumption DEF charge_usage, Usage, TypeInv, TypeOK, AccountType
    <3>3. /\ ~(usage'.calls > Limit.calls \/ usage'.tokens > Limit.tokens)
          /\ NoInvalidate
      BY <2>3 DEF charge_usage, LateAccounting
    <3>4. Limit = contract.limits
      BY <1>1 DEF Limit
    <3>5. Within(usage')
      BY <3>1, <3>2, <3>3, <3>4 DEF Limits, Usage
    <3>6. UNCHANGED Certified
      BY <2>3, <3>3 DEF charge_usage, LateAccounting, NoInvalidate, Certified,
                        scopeVars, sourceVars, workVars
    <3>7. QED BY <3>5, <3>6
  <2>4. QED BY <1>10, <2>1, <2>2, <2>3 DEF AccountStep
<1>11. ASSUME EndStep PROVE Kept
  <2>1. ~record_delivery /\ ~complete /\ ~request_cancellation
    BY <1>1 DEF record_delivery, complete, evaluate, request_cancellation
  <2>2. ~audit_evidence /\ ~resume_task /\ ~reopen
    BY <1>0 DEF audit_evidence, resume_task, reopen, Reopened
  <2>3. ASSUME NEW end \in StopOutcomes PROVE ~stop(end)
    BY <1>1 DEF stop
  <2>4. recover_interrupted => Kept
    BY <1>1, <1>2 DEF recover_interrupted, NoInvalidate, Certified, scopeVars,
              sourceVars, accountVars
  <2>5. elapse => Kept
    BY <1>2 DEF elapse, NoInvalidate, Certified, scopeVars, sourceVars, workVars,
              accountVars, endVars
  <2>6. QED BY <1>11, <2>1, <2>2, <2>3, <2>4, <2>5 DEF EndStep
<1>12. UNCHANGED vars => Kept
  BY <1>2 DEF vars, Certified, scopeVars, sourceVars, workVars, accountVars, endVars
<1>13. QED
  BY <1>4, <1>5, <1>6, <1>7, <1>8, <1>9, <1>10, <1>11, <1>12 DEF Next
\* The operation that makes a task complete reaches a state its certificate
\* covers.
LEMMA CompletionCertified ==
    ASSUME TypeInv, complete PROVE CertificateSound' /\ CompleteIsSettled'
<1> DEFINE E(k) == CHOOSE i \in DOMAIN evidence : Accepted(i, k)
<1>1. /\ evaluate
      /\ certificates' = Append(certificates, Certificate)
      /\ UNCHANGED <<generation, delivery, amendmentPending, contract, candidate,
                     baseline, jobs, evidence, effects, findings, reserved,
                     receipts, usage, cancelRequested>>
  BY DEF complete, NoInvalidate, scopeVars, sourceVars, workVars, accountVars
<1>2. /\ contract # None /\ Frozen /\ Discharged
      /\ delivery = [source |-> candidate.source, kind |-> contract.delivery]
  BY <1>1 DEF evaluate
<1>3. /\ certificates' # <<>>
      /\ certificates'[Len(certificates')] = Certificate
  BY <1>1 DEF TypeInv, TypeOK, EndType
<1>4. ASSUME NEW k \in DOMAIN contract.checks
      PROVE  \E i \in DOMAIN evidence :
               /\ evidence[i].job = Certificate.evidence[k]
               /\ evidence[i].generation = generation
               /\ IsLast(i, Identity(contract, candidate.source, k))
               /\ Satisfies(evidence[i].result, contract.checks[k])
               /\ RetryPolicy(i, evidence[i].identity, contract.checks[k])
  <2>1. \E i \in DOMAIN evidence : Accepted(i, k)
    BY <1>1 DEF evaluate
  <2>2. E(k) \in DOMAIN evidence /\ Accepted(E(k), k)
    BY <2>1
  <2>3. evidence[E(k)].job = Certificate.evidence[k]
    BY DEF Certificate
  <2>4. evidence[E(k)].identity = Identity(contract, candidate.source, k)
    BY <2>2 DEF Accepted, IsLast, Attempts
  <2>5. QED BY <2>2, <2>3, <2>4 DEF Accepted
<1>5. CertificateSound'
  <2>1. \A id : Attempts(id)' = Attempts(id)
    BY <1>1 DEF Attempts
  <2>2. \A i, id : IsLast(i, id)' = IsLast(i, id)
    BY <2>1 DEF IsLast
  <2>3. \A o, d : Satisfies(o, d)' = Satisfies(o, d)
    BY <1>1 DEF Satisfies
  <2>4. \A i, id, d : RetryPolicy(i, id, d)' = RetryPolicy(i, id, d)
    BY <1>1, <2>1 DEF RetryPolicy
  <2>5. /\ Certificate.generation = generation /\ Certificate.contract = contract
        /\ Certificate.source = candidate.source
        /\ DOMAIN Certificate.evidence = DOMAIN contract.checks
    BY DEF Certificate
  <2>6. QED
    BY <1>1, <1>2, <1>3, <1>4, <2>2, <2>3, <2>4, <2>5
       DEF CertificateSound, Frozen, Identity
<1>6. CompleteIsSettled'
  BY <1>1, <1>2 DEF CompleteIsSettled, Discharged, NothingUnsettled, Unresolved,
     UnresolvedEffect, Reconciled, StatusKnown
<1>7. QED BY <1>5, <1>6
CompleteInv == TypeInv /\ CertificateSound /\ CompleteIsSettled

LEMMA CompleteStep == CompleteInv /\ [Next]_vars => CompleteInv'
<1> SUFFICES ASSUME CompleteInv, [Next]_vars
             PROVE  CertificateSound' /\ CompleteIsSettled'
  BY StepType DEF CompleteInv
<1>1. CASE outcome' # "complete"
  BY <1>1 DEF CertificateSound, CompleteIsSettled
<1>2. CASE outcome' = "complete" /\ outcome # "complete"
  <2>1. complete
    <3>1. ~ContractStep
      BY <1>2 DEF ContractStep, admit_contract, amend_contract,
                  accept_additive_contract, endVars
    <3>2. ~DirectiveStep
      BY <1>2, NoneAssumption DEF DirectiveStep, receive_directive,
         replace_directive, continue_submission, Directive, Outcomes
    <3>3. ~SourceStep
      BY <1>2 DEF SourceStep, establish_workspace, establish_baseline,
         select_candidate, invalidate_candidate, workspace_restored, endVars
    <3>4. ~JobStep
      BY <1>2, NoneAssumption DEF JobStep, begin_check, finish_check, start_job,
         start_execution_job, settle_job, fence_job, begin_shell, endVars, Outcomes
    <3>5. ~ShellStep /\ ~RecordStep
      BY <1>2 DEF ShellStep, finish_shell, RecordStep, record_effect,
         record_finding, endVars
    <3>6. ~AccountStep
      BY <1>2 DEF AccountStep, reserve_model_call, record_model_call,
         charge_usage, LateAccounting, endVars
    <3>7. EndStep => complete
      BY <1>2, NoneAssumption, StopAssumption DEF EndStep, record_delivery,
         request_cancellation, audit_evidence, resume_task, reopen, Reopened,
         recover_interrupted, elapse, stop, endVars, Outcomes
    <3>8. ~UNCHANGED vars
      BY <1>2 DEF vars, endVars
    <3>9. QED BY <3>1, <3>2, <3>3, <3>4, <3>5, <3>6, <3>7, <3>8 DEF Next
  <2>2. QED BY <2>1, CompletionCertified DEF CompleteInv
<1>3. CASE outcome' = "complete" /\ outcome = "complete"
  <2>1. /\ UNCHANGED Certified
        /\ usage'.tokens <= contract.limits.tokens
        /\ usage'.calls <= contract.limits.calls
    BY <1>3, StillComplete DEF CompleteInv
  <2>2. CertificateSound'
    <3>1. \A id : Attempts(id)' = Attempts(id)
      BY <2>1 DEF Attempts, Certified
    <3>2. \A i, id : IsLast(i, id)' = IsLast(i, id)
      BY <3>1 DEF IsLast
    <3>3. \A o, d : Satisfies(o, d)' = Satisfies(o, d)
      BY <2>1 DEF Satisfies, Certified
    <3>4. \A i, id, d : RetryPolicy(i, id, d)' = RetryPolicy(i, id, d)
      BY <2>1, <3>1 DEF RetryPolicy, Certified
    <3>5. QED
      BY <1>3, <2>1, <3>2, <3>3, <3>4
         DEF CompleteInv, CertificateSound, Certified, Frozen, Identity
  <2>3. CompleteIsSettled'
    BY <1>3, <2>1 DEF CompleteInv, CompleteIsSettled, Certified, Discharged,
       NothingUnsettled, Unresolved, UnresolvedEffect, Reconciled, StatusKnown
  <2>4. QED BY <2>2, <2>3
<1>4. QED BY <1>1, <1>2, <1>3

LEMMA CompleteInvariant == Spec => []CompleteInv
<1>1. Init => CompleteInv
  BY InitType, NoneAssumption
     DEF Init, CompleteInv, CertificateSound, CompleteIsSettled, Outcomes
<1>2. QED
  BY <1>1, CompleteStep, PTL DEF Spec

\* Whatever happens to a task, while its outcome is "complete" its last
\* certificate is over the current generation, contract, candidate and delivery,
\* and over the last, accepted attempt at every check.
THEOREM CompletionSound == Spec => []CertificateSound
BY CompleteInvariant, PTL DEF CompleteInv

\* While a task's outcome is "complete" nothing of it is unsettled and its spend
\* is within its contract, late accounting included.
THEOREM CompletionSettled == Spec => []CompleteIsSettled
BY CompleteInvariant, PTL DEF CompleteInv
-----------------------------------------------------------------------------
(* What a step does to the work of a task.  Every operation leaves a job    *)
(* alone, starts an absent one or settles an unresolved one, and whoever    *)
(* opens a task again, or changes its contract or candidate while it is     *)
(* open, starts a new evidence generation.                                  *)
JobKept(j) == jobs'[j] = jobs[j]
JobStarts(j) ==
    /\ jobs[j].status = "absent" /\ jobs'[j].status = "running"
    /\ jobs'[j].generation = generation'
    /\ jobs'[j].kind = "check" =>
          /\ candidate # None
          /\ jobs'[j].identity.contract = contract
          /\ jobs'[j].identity.source = candidate.source
          /\ UNCHANGED <<contract, candidate>>
    /\ jobs'[j].kind = "execution" =>
          /\ shell = None /\ shell' = None
          /\ UNCHANGED candidate /\ (jobs'[j].mutates => ~Frozen)
JobSettles(j) ==
    /\ Unresolved(j) /\ jobs'[j].status \notin {"absent", "running"}
    /\ jobs'[j].generation = jobs[j].generation
    /\ jobs'[j].kind = jobs[j].kind
    /\ jobs'[j].mutates = jobs[j].mutates
    /\ jobs'[j].identity = jobs[j].identity

\* A settlement changes the status and the receipt of one unresolved job.
LEMMA SettleShape ==
    ASSUME TypeInv, NEW j \in JobIds, Unresolved(j),
           NEW s \in JobStatus \ {"absent", "running"},
           \/ jobs' = [jobs EXCEPT ![j].status = s]
           \/ \E b \in BOOLEAN :
                jobs' = [jobs EXCEPT ![j].status = s, ![j].receipt = b]
    PROVE  JobSettles(j) /\ \A q \in JobIds \ {j} : JobKept(q)
<1>1. jobs[j] \in JobRecord /\ jobs \in [JobIds -> JobRecord]
  BY DEF TypeInv, TypeOK, WorkType
<1>2. CASE jobs' = [jobs EXCEPT ![j].status = s]
  BY <1>1, <1>2 DEF JobRecord, JobSettles, JobKept
<1>3. ASSUME NEW b \in BOOLEAN,
             jobs' = [jobs EXCEPT ![j].status = s, ![j].receipt = b]
      PROVE  JobSettles(j) /\ \A q \in JobIds \ {j} : JobKept(q)
  BY <1>1, <1>3 DEF JobRecord, JobSettles, JobKept
<1>4. QED BY <1>2, <1>3

\* The operations of a step that start or settle jobs.
LEMMA JobActions ==
    [Next]_vars =>
      \/ UNCHANGED jobs
      \/ JobStep \/ ShellStep \/ recover_interrupted
<1>1. ContractStep => UNCHANGED jobs
  BY DEF ContractStep, admit_contract, amend_contract, accept_additive_contract, workVars
<1>2. DirectiveStep => UNCHANGED jobs
  BY DEF DirectiveStep, receive_directive, replace_directive, continue_submission
<1>3. SourceStep => UNCHANGED jobs
  BY DEF SourceStep, establish_workspace, establish_baseline, select_candidate,
         invalidate_candidate, workspace_restored, workVars
<1>4. RecordStep \/ AccountStep => UNCHANGED jobs
  BY DEF RecordStep, record_effect, record_finding, AccountStep, reserve_model_call,
         record_model_call, charge_usage, LateAccounting, workVars
<1>5. EndStep => UNCHANGED jobs \/ recover_interrupted
  BY DEF EndStep, record_delivery, complete, request_cancellation, audit_evidence,
         resume_task, reopen, Reopened, elapse, stop, workVars
<1>6. UNCHANGED vars => UNCHANGED jobs
  BY DEF vars, workVars
<1>7. QED BY <1>1, <1>2, <1>3, <1>4, <1>5, <1>6 DEF Next

LEMMA JobShape ==
    TypeInv /\ [Next]_vars =>
        \A q \in JobIds : JobKept(q) \/ JobStarts(q) \/ JobSettles(q)
<1> SUFFICES ASSUME TypeInv, [Next]_vars
             PROVE  \A q \in JobIds : JobKept(q) \/ JobStarts(q) \/ JobSettles(q)
  OBVIOUS
<1> DEFINE Goal == \A q \in JobIds : JobKept(q) \/ JobStarts(q) \/ JobSettles(q)
<1>1. CASE UNCHANGED jobs
  BY <1>1 DEF JobKept
<1>2. ASSUME NEW j \in JobIds, NEW k \in Checks, begin_check(j, k) PROVE Goal
  <2>1. /\ jobs[j].status = "absent" /\ candidate # None
        /\ jobs' = [jobs EXCEPT ![j] =
              Job("check", FALSE, Identity(contract, candidate.source, k), generation)]
        /\ UNCHANGED <<generation, contract, candidate>>
    BY <1>2 DEF begin_check, Frozen, NoInvalidate, sourceVars
  <2>2. /\ \A q \in JobIds \ {j} : JobKept(q)
        /\ jobs'[j].status = "running" /\ jobs'[j].generation = generation
        /\ jobs'[j].kind = "check"
        /\ jobs'[j].identity = Identity(contract, candidate.source, k)
    BY <2>1 DEF TypeInv, TypeOK, WorkType, Job, JobKept
  <2>a. jobs'[j].identity.contract = contract /\ jobs'[j].identity.source = candidate.source
    BY <2>2 DEF Identity
  <2>3. JobStarts(j)
    BY <2>1, <2>2, <2>a DEF JobStarts
  <2>4. QED BY <2>2, <2>3
<1>3. ASSUME NEW j \in JobIds, NEW o \in Observations, finish_check(j, o) PROVE Goal
  <2>1. Unresolved(j) /\ jobs' = [jobs EXCEPT ![j].status = ObservedStatus(o)]
    BY <1>3 DEF finish_check, LeaseHeld, Unresolved
  <2>2. ObservedStatus(o) \in JobStatus \ {"absent", "running"}
    BY DEF ObservedStatus, JobStatus
  <2>3. JobSettles(j) /\ \A q \in JobIds \ {j} : JobKept(q)
    BY <2>1, <2>2, SettleShape
  <2>4. QED BY <2>3
<1>4. ASSUME NEW j \in JobIds, NEW m \in BOOLEAN, start_job(j, m) PROVE Goal
  <2>1. /\ jobs[j].status = "absent" /\ UNCHANGED generation
        /\ jobs' = [jobs EXCEPT ![j] = Job("plain", m, None, generation)]
    BY <1>4 DEF start_job, NoInvalidate
  <2>2. /\ \A q \in JobIds \ {j} : JobKept(q)
        /\ jobs'[j].status = "running" /\ jobs'[j].generation = generation
        /\ jobs'[j].kind = "plain"
    BY <2>1 DEF TypeInv, TypeOK, WorkType, Job, JobKept
  <2>3. JobStarts(j)
    BY <2>1, <2>2 DEF JobStarts
  <2>4. QED BY <2>2, <2>3
<1>5. ASSUME NEW j \in JobIds, NEW m \in BOOLEAN, start_execution_job(j, m) PROVE Goal
  <2>1. /\ jobs[j].status = "absent" /\ shell = None /\ (m => ~Frozen)
        /\ jobs' = [jobs EXCEPT ![j] = Job("execution", m, None, generation)]
        /\ UNCHANGED <<generation, candidate, shell>>
    BY <1>5 DEF start_execution_job, NoInvalidate, sourceVars, envVars
  <2>2. /\ \A q \in JobIds \ {j} : JobKept(q)
        /\ jobs'[j].status = "running" /\ jobs'[j].generation = generation
        /\ jobs'[j].kind = "execution" /\ jobs'[j].mutates = m
    BY <2>1 DEF TypeInv, TypeOK, WorkType, Job, JobKept
  <2>a. jobs'[j].mutates => ~Frozen
    BY <2>1, <2>2, Zenon
  <2>3. JobStarts(j)
    BY <2>1, <2>2, <2>a, Zenon DEF JobStarts
  <2>4. QED BY <2>2, <2>3
<1>6. ASSUME NEW j \in JobIds, NEW s \in SettledStatus, NEW r \in BOOLEAN,
             settle_job(j, s, r)
      PROVE  Goal
  <2>1. /\ Unresolved(j)
        /\ jobs' = [jobs EXCEPT ![j].status = s, ![j].receipt = r]
    BY <1>6 DEF settle_job
  <2>2. s \in JobStatus \ {"absent", "running"}
    BY DEF SettledStatus, JobStatus
  <2>3. JobSettles(j) /\ \A q \in JobIds \ {j} : JobKept(q)
    BY <2>1, <2>2, SettleShape
  <2>4. QED BY <2>3
<1>7. ASSUME NEW j \in JobIds, fence_job(j) PROVE Goal
  <2>1. /\ Unresolved(j)
        /\ jobs' = [jobs EXCEPT ![j].status = "fenced", ![j].receipt = TRUE]
    BY <1>7 DEF fence_job
  <2>2. "fenced" \in JobStatus \ {"absent", "running"} /\ TRUE \in BOOLEAN
    BY DEF JobStatus
  <2>3. JobSettles(j) /\ \A q \in JobIds \ {j} : JobKept(q)
    BY <2>1, <2>2, SettleShape
  <2>4. QED BY <2>3
<1>8. ASSUME NEW j \in JobIds, NEW e \in EffectIds, begin_shell(j, e) PROVE Goal
  <2>1. /\ jobs[j].status = "absent" /\ generation' = generation + 1
        /\ jobs' = [jobs EXCEPT ![j] = Job("shell", TRUE, None, generation + 1)]
    BY <1>8 DEF begin_shell, Invalidate
  <2>2. /\ \A q \in JobIds \ {j} : JobKept(q)
        /\ jobs'[j].status = "running" /\ jobs'[j].generation = generation + 1
        /\ jobs'[j].kind = "shell"
    BY <2>1 DEF TypeInv, TypeOK, WorkType, Job, JobKept
  <2>3. JobStarts(j)
    BY <2>1, <2>2 DEF JobStarts
  <2>4. QED BY <2>2, <2>3
<1>9. ASSUME NEW s \in SettledStatus, NEW a \in Sources \cup {None}, finish_shell(s, a)
      PROVE  Goal
  <2>1. /\ Unresolved(shell.job)
        /\ jobs' = [jobs EXCEPT ![shell.job].status = s, ![shell.job].receipt = TRUE]
    BY <1>9 DEF finish_shell, Unresolved
  <2>2. shell.job \in JobIds
    BY <1>9 DEF finish_shell, TypeInv, TypeOK, EnvType
  <2>3. s \in JobStatus \ {"absent", "running"} /\ TRUE \in BOOLEAN
    BY DEF SettledStatus, JobStatus
  <2>4. JobSettles(shell.job) /\ \A q \in JobIds \ {shell.job} : JobKept(q)
    BY <2>1, <2>2, <2>3, SettleShape
  <2>5. QED BY <2>4
<1>10. CASE recover_interrupted
  <2>1. CASE ~Open
    BY <1>10, <2>1 DEF recover_interrupted, JobKept
  <2>2. CASE Open
    <3> SUFFICES ASSUME NEW q \in JobIds PROVE JobKept(q) \/ JobSettles(q)
      OBVIOUS
    <3>1. jobs'[q] = IF jobs[q].status = "running"
                     THEN [jobs[q] EXCEPT !.status = "unknown"] ELSE jobs[q]
      BY <1>10, <2>2 DEF recover_interrupted
    <3>2. jobs[q] \in JobRecord
      BY DEF TypeInv, TypeOK, WorkType
    <3>3. QED BY <3>1, <3>2 DEF JobKept, JobSettles, Unresolved, JobRecord
  <2>3. QED BY <2>1, <2>2
<1>11. JobStep => Goal
  BY <1>2, <1>3, <1>4, <1>5, <1>6, <1>7, <1>8 DEF JobStep
<1>12. QED BY <1>1, <1>9, <1>10, <1>11, JobActions DEF ShellStep

\* Generations only grow, and the contract and the candidate of an open task
\* stay those of its generation.
GenerationGrows ==
    /\ generation' \in Nat /\ generation <= generation'
    /\ Open' => \/ generation < generation'
                \/ generation' = generation /\ Open /\ UNCHANGED <<contract, candidate>>

LEMMA Grows ==
    ASSUME TypeInv, NEW n \in {1, 2}, Invalidate(n)
    PROVE  generation' \in Nat /\ generation < generation'
BY DEF TypeInv, TypeOK, GenerationType, Invalidate

LEMMA Stays ==
    ASSUME TypeInv, NoInvalidate, ~Open' \/ (Open /\ UNCHANGED <<contract, candidate>>)
    PROVE  GenerationGrows
BY DEF TypeInv, TypeOK, GenerationType, NoInvalidate, GenerationGrows

LEMMA GenerationShape == TypeInv /\ [Next]_vars => GenerationGrows
<1> SUFFICES ASSUME TypeInv, [Next]_vars PROVE GenerationGrows
  OBVIOUS
<1>1. (\E n \in {1, 2} : Invalidate(n)) => GenerationGrows
  <2> SUFFICES ASSUME NEW n \in {1, 2}, Invalidate(n) PROVE GenerationGrows
    OBVIOUS
  <2>1. generation' \in Nat /\ generation < generation'
    BY Grows
  <2>2. generation \in Nat
    BY DEF TypeInv, TypeOK, GenerationType
  <2>3. QED BY <2>1, <2>2 DEF GenerationGrows
<1>2. NoInvalidate /\ (~Open' \/ (Open /\ UNCHANGED <<contract, candidate>>))
        => GenerationGrows
  BY Stays
<1>3. ContractStep => GenerationGrows
  BY <1>1 DEF ContractStep, admit_contract, amend_contract, accept_additive_contract
<1>4. DirectiveStep => GenerationGrows
  BY <1>1 DEF DirectiveStep, receive_directive, replace_directive, continue_submission
<1>5. SourceStep => GenerationGrows
  <2>1. ASSUME NEW s \in Sources, establish_workspace(s) \/ establish_baseline(s)
        PROVE  GenerationGrows
    BY <1>2, <2>1 DEF establish_workspace, establish_baseline, Open, endVars
  <2>2. ASSUME NEW s \in Sources, NEW f \in BOOLEAN, select_candidate(s, f)
        PROVE  GenerationGrows
    BY <1>1, <2>2 DEF select_candidate
  <2>3. CASE invalidate_candidate
    BY <1>1, <2>3 DEF invalidate_candidate
  <2>4. CASE workspace_restored
    BY <1>2, <2>4 DEF workspace_restored, Open, endVars
  <2>5. QED BY <2>1, <2>2, <2>3, <2>4 DEF SourceStep
<1>6. JobStep => GenerationGrows
  <2>1. ASSUME NEW q \in JobIds, NEW k \in Checks, begin_check(q, k) PROVE GenerationGrows
    BY <1>2, <2>1 DEF begin_check, Open, endVars, sourceVars
  <2>2. ASSUME NEW q \in JobIds, NEW o \in Observations, finish_check(q, o)
        PROVE  GenerationGrows
    BY <1>2, <2>2 DEF finish_check, LeaseHeld, Open, endVars, sourceVars
  <2>3. ASSUME NEW q \in JobIds, NEW m \in BOOLEAN,
               start_job(q, m) \/ start_execution_job(q, m)
        PROVE  GenerationGrows
    BY <1>2, <2>3 DEF start_job, start_execution_job, Open, endVars, sourceVars
  <2>4. ASSUME NEW q \in JobIds, NEW s \in SettledStatus, NEW r \in BOOLEAN,
               settle_job(q, s, r)
        PROVE  GenerationGrows
    BY <1>2, <2>4 DEF settle_job, Open, endVars, sourceVars
  <2>5. ASSUME NEW q \in JobIds, NEW e \in EffectIds, begin_shell(q, e)
        PROVE  GenerationGrows
    BY <1>1, <2>5 DEF begin_shell
  <2>6. ASSUME NEW q \in JobIds, fence_job(q) PROVE GenerationGrows
    BY <1>2, <2>6 DEF fence_job, Open, endVars, sourceVars
  <2>7. QED BY <2>1, <2>2, <2>3, <2>4, <2>5, <2>6 DEF JobStep
<1>7. ShellStep => GenerationGrows
  <2>1. ASSUME NEW s \in SettledStatus, NEW a \in Sources \cup {None}, finish_shell(s, a)
        PROVE  GenerationGrows
    <3>1. NoInvalidate /\ outcome' = "blocked"
      BY <2>1 DEF finish_shell
    <3>2. ~Open'
      BY <3>1, NoneAssumption DEF Open, Outcomes
    <3>3. QED BY <1>2, <3>1, <3>2
  <2>2. QED BY <2>1 DEF ShellStep
<1>8. RecordStep => GenerationGrows
  BY <1>2 DEF RecordStep, record_effect, record_finding, Open, endVars, sourceVars
<1>9. AccountStep => GenerationGrows
  <2>1. ASSUME NEW o \in Operations, reserve_model_call(o) PROVE GenerationGrows
    BY <1>2, <2>1 DEF reserve_model_call, Open, endVars, sourceVars
  <2>2. ASSUME NEW over, LateAccounting(over) PROVE GenerationGrows
    <3>1. CASE Invalidate(1)
      BY <1>1, <3>1
    <3>2. CASE NoInvalidate /\ UNCHANGED outcome
      BY <1>2, <2>2, <3>2 DEF LateAccounting, Open, sourceVars
    <3>3. QED BY <2>2, <3>1, <3>2 DEF LateAccounting
  <2>3. QED BY <2>1, <2>2 DEF AccountStep, record_model_call, charge_usage
<1>10. EndStep => GenerationGrows
  <2>1. CASE record_delivery
    BY <2>1, <1>2 DEF record_delivery, Open, endVars, sourceVars, GenerationGrows,
       TypeInv, TypeOK, GenerationType
  <2>2. CASE complete
    <3>1. NoInvalidate /\ Open /\ UNCHANGED <<contract, candidate>>
      BY <2>2 DEF complete, evaluate, sourceVars
    <3>2. QED BY <1>2, <3>1
  <2>3. CASE request_cancellation \/ elapse
    BY <2>3, <1>2 DEF request_cancellation, elapse, Open, endVars, sourceVars
  <2>4. CASE audit_evidence \/ resume_task \/ reopen
    BY <2>4, <1>1 DEF audit_evidence, resume_task, reopen, Reopened
  <2>5. CASE recover_interrupted
    <3>1. CASE Open
      BY <1>1, <2>5, <3>1 DEF recover_interrupted
    <3>2. CASE ~Open
      BY <1>2, <2>5, <3>2 DEF recover_interrupted, Open
    <3>3. QED BY <3>1, <3>2
  <2>6. ASSUME NEW end \in StopOutcomes, stop(end) PROVE GenerationGrows
    BY <1>2, <2>6 DEF stop, Open, sourceVars
  <2>7. QED BY <2>1, <2>2, <2>3, <2>4, <2>5, <2>6 DEF EndStep
<1>11. CASE UNCHANGED vars
  <2>1. UNCHANGED <<generation, outcome, contract, candidate>>
    BY <1>11 DEF vars, sourceVars, endVars
  <2>2. QED BY <2>1 DEF GenerationGrows, Open, TypeInv, TypeOK, GenerationType
<1>12. QED
  BY <1>3, <1>4, <1>5, <1>6, <1>7, <1>8, <1>9, <1>10, <1>11 DEF Next

\* Evidence is appended by finish_check alone, for a leased job of the current
\* generation; a lease is taken by begin_check alone, for a new job; and the
\* jobs a dead host was running are collected by the recovery.
EvidenceAppended(j, o) ==
    /\ LeaseHeld(j) /\ jobs'[j].status \notin {"absent", "running"}
    /\ evidence' = Append(evidence, [job |-> j, generation |-> generation,
                                     identity |-> jobs[j].identity, result |-> o])
    /\ UNCHANGED <<generation, contract, candidate, outcome, orphans>>
WorkShape ==
    /\ \/ UNCHANGED evidence
       \/ \E j \in JobIds, o \in Observations : EvidenceAppended(j, o)
    /\ \A j \in leases' : j \in leases \/ jobs[j].status = "absent"
    /\ \/ UNCHANGED orphans
       \/ /\ Open => leases' = {}
          /\ orphans' = orphans \cup {j \in JobIds : jobs[j].status = "running"}
          /\ ~Open'

LEMMA Quiet ==
    ASSUME UNCHANGED evidence, leases' \subseteq leases, UNCHANGED orphans
    PROVE  WorkShape
BY DEF WorkShape

LEMMA EvidenceShape == TypeInv /\ [Next]_vars => WorkShape
<1> SUFFICES ASSUME TypeInv, [Next]_vars PROVE WorkShape
  OBVIOUS
<1>1. ContractStep => WorkShape
  BY Quiet DEF ContractStep, admit_contract, amend_contract, accept_additive_contract,
     workVars, envVars
<1>2. DirectiveStep => WorkShape
  BY Quiet DEF DirectiveStep, receive_directive, replace_directive, continue_submission,
     Directive, envVars
<1>3. SourceStep => WorkShape
  BY Quiet DEF SourceStep, establish_workspace, establish_baseline, select_candidate,
     invalidate_candidate, workspace_restored, workVars, envVars
<1>4. JobStep => WorkShape
  <2>1. ASSUME NEW j \in JobIds, NEW k \in Checks, begin_check(j, k) PROVE WorkShape
    BY <2>1 DEF begin_check, WorkShape, envVars
  <2>2. ASSUME NEW j \in JobIds, NEW o \in Observations, finish_check(j, o)
        PROVE  WorkShape
    <3>1. jobs' = [jobs EXCEPT ![j].status = ObservedStatus(o)]
      BY <2>2 DEF finish_check
    <3>2. jobs'[j].status = ObservedStatus(o)
      BY <3>1 DEF TypeInv, TypeOK, WorkType, JobRecord
    <3>3. jobs'[j].status \notin {"absent", "running"}
      BY <3>2 DEF ObservedStatus
    <3>4. EvidenceAppended(j, o)
      BY <2>2, <3>3 DEF finish_check, EvidenceAppended, NoInvalidate, sourceVars,
         endVars, envVars
    <3>5. leases' \subseteq leases /\ UNCHANGED orphans
      BY <2>2 DEF finish_check, ReleaseLease, envVars
    <3>6. QED BY <3>4, <3>5 DEF WorkShape
  <2>3. ASSUME NEW j \in JobIds, NEW m \in BOOLEAN,
               start_job(j, m) \/ start_execution_job(j, m)
        PROVE  WorkShape
    BY <2>3, Quiet DEF start_job, start_execution_job, envVars
  <2>4. ASSUME NEW j \in JobIds, NEW s \in SettledStatus, NEW r \in BOOLEAN,
               settle_job(j, s, r)
        PROVE  WorkShape
    BY <2>4, Quiet DEF settle_job, ReleaseLease, envVars
  <2>5. ASSUME NEW j \in JobIds, fence_job(j) PROVE WorkShape
    BY <2>5, Quiet DEF fence_job, ReleaseLease, envVars
  <2>6. ASSUME NEW j \in JobIds, NEW e \in EffectIds, begin_shell(j, e) PROVE WorkShape
    BY <2>6, Quiet DEF begin_shell
  <2>7. QED BY <2>1, <2>2, <2>3, <2>4, <2>5, <2>6 DEF JobStep
<1>5. ShellStep \/ RecordStep => WorkShape
  BY Quiet DEF ShellStep, RecordStep, finish_shell, record_effect, record_finding,
     workVars, envVars
<1>6. AccountStep => WorkShape
  BY Quiet DEF AccountStep, reserve_model_call, record_model_call, charge_usage,
     LateAccounting, workVars, envVars
<1>7. CASE recover_interrupted
  <2>1. Open => leases' = {} /\ ~Open'
    BY <1>7, NoneAssumption DEF recover_interrupted, Open, Outcomes
  <2>2. ~Open => leases' = leases /\ ~Open'
    BY <1>7 DEF recover_interrupted, Open
  <2>3. /\ UNCHANGED evidence
        /\ orphans' = orphans \cup {j \in JobIds : jobs[j].status = "running"}
    BY <1>7 DEF recover_interrupted
  <2>4. QED BY <2>1, <2>2, <2>3 DEF WorkShape
<1>8. EndStep => WorkShape \/ recover_interrupted
  BY Quiet DEF EndStep, record_delivery, complete, request_cancellation, audit_evidence,
     resume_task, reopen, Reopened, elapse, stop, workVars, envVars
<1>9. UNCHANGED vars => WorkShape
  BY Quiet DEF vars, workVars, envVars
<1>10. QED
  BY <1>1, <1>2, <1>3, <1>4, <1>5, <1>6, <1>7, <1>8, <1>9 DEF Next

-----------------------------------------------------------------------------
(* Evidence.  EvidenceCurrent and EvidenceOnce are inductive once the jobs  *)
(* are in: no job or observation is of a later generation, a check of the   *)
(* current generation is about the current contract and candidate, and a    *)
(* job that outlived its host has lost its generation by the time the task  *)
(* is open.                                                                 *)
Bounded == /\ \A j \in JobIds : jobs[j].generation <= generation
           /\ \A i \in DOMAIN evidence : evidence[i].generation <= generation
ChecksCurrent ==
    Open => \A j \in JobIds :
              jobs[j].kind = "check" /\ jobs[j].generation = generation =>
                /\ contract = jobs[j].identity.contract
                /\ candidate # None
                /\ candidate.source = jobs[j].identity.source
OrphansFenced ==
    \A j \in orphans : /\ jobs[j].status # "absent"
                       /\ Open /\ j \in leases => jobs[j].generation < generation
EvidenceInv == /\ TypeInv /\ Bounded /\ ChecksCurrent /\ OrphansFenced
               /\ EvidenceCurrent /\ EvidenceOnce

\* The positions of an appended sequence.
LEMMA Appended ==
    ASSUME NEW S, NEW s \in Seq(S), NEW x \in S, NEW t, t = Append(s, x)
    PROVE  /\ t \in Seq(S) /\ Len(t) = Len(s) + 1
           /\ DOMAIN t = 1 .. Len(s) + 1 /\ DOMAIN s = 1 .. Len(s) /\ Len(s) \in Nat
           /\ t[Len(s) + 1] = x /\ \A i \in DOMAIN s : t[i] = s[i]
OBVIOUS

LEMMA InitEvidence == Init => EvidenceInv
<1> SUFFICES ASSUME Init PROVE EvidenceInv
  OBVIOUS
<1>1. TypeInv
  BY InitType
<1>2. DOMAIN evidence = {} /\ orphans = {} /\ generation = 1
  BY DEF Init
<1>3. \A j \in JobIds : jobs[j].generation = 0 /\ jobs[j].kind = "none"
  BY DEF Init, NoJob
<1>4. QED
  BY <1>1, <1>2, <1>3
     DEF EvidenceInv, Bounded, ChecksCurrent, OrphansFenced, EvidenceCurrent, EvidenceOnce

LEMMA EvidenceStep == EvidenceInv /\ [Next]_vars => EvidenceInv'
<1> SUFFICES ASSUME EvidenceInv, [Next]_vars PROVE EvidenceInv'
  OBVIOUS
<1>1. TypeInv /\ TypeInv'
  BY StepType DEF EvidenceInv
<1>2. \A q \in JobIds : JobKept(q) \/ JobStarts(q) \/ JobSettles(q)
  BY <1>1, JobShape
<1>3. GenerationGrows
  BY <1>1, GenerationShape
<1>4. WorkShape
  BY <1>1, EvidenceShape
<1>5. /\ generation \in Nat /\ generation' \in Nat /\ generation <= generation'
      /\ jobs \in [JobIds -> JobRecord] /\ jobs' \in [JobIds -> JobRecord]
      /\ evidence \in Seq(EvidenceRecord) /\ evidence' \in Seq(EvidenceRecord)
      /\ leases' \subseteq JobIds /\ orphans \subseteq JobIds
  BY <1>1, <1>3 DEF TypeInv, TypeOK, GenerationType, WorkType, EnvType, GenerationGrows
<1>6. \A q \in JobIds : jobs[q].generation \in Nat /\ jobs'[q].generation \in Nat
  BY <1>5 DEF JobRecord
<1>7. \A q \in JobIds : jobs'[q].generation <= generation'
  <2> SUFFICES ASSUME NEW q \in JobIds PROVE jobs'[q].generation <= generation'
    OBVIOUS
  <2>1. jobs[q].generation <= generation
    BY DEF EvidenceInv, Bounded
  <2>2. jobs'[q].generation = generation' \/ jobs'[q].generation = jobs[q].generation
    BY <1>2 DEF JobKept, JobStarts, JobSettles
  <2>3. QED BY <1>5, <1>6, <2>1, <2>2
<1>8. ChecksCurrent'
  <2> SUFFICES ASSUME Open', NEW q \in JobIds, jobs'[q].kind = "check",
                      jobs'[q].generation = generation'
               PROVE  /\ contract' = jobs'[q].identity.contract
                      /\ candidate' # None
                      /\ candidate'.source = jobs'[q].identity.source
    BY DEF ChecksCurrent, Open
  <2>1. CASE JobStarts(q)
    BY <2>1 DEF JobStarts
  <2>2. CASE JobKept(q) \/ JobSettles(q)
    <3>1. /\ jobs[q].kind = "check" /\ jobs'[q].identity = jobs[q].identity
          /\ jobs[q].generation = generation'
      BY <2>2 DEF JobKept, JobSettles
    <3>2. jobs[q].generation <= generation
      BY DEF EvidenceInv, Bounded
    <3>3. generation' = generation /\ Open /\ UNCHANGED <<contract, candidate>>
      BY <1>3, <1>5, <3>1, <3>2 DEF GenerationGrows
    <3>4. QED BY <3>1, <3>3 DEF EvidenceInv, ChecksCurrent
  <2>3. QED BY <1>2, <2>1, <2>2
<1>9. OrphansFenced'
  <2> SUFFICES ASSUME NEW q \in orphans'
               PROVE  /\ jobs'[q].status # "absent"
                      /\ Open' /\ q \in leases' => jobs'[q].generation < generation'
    BY DEF OrphansFenced
  <2>1. q \in JobIds
    BY <1>4, <1>5 DEF WorkShape
  <2>2. jobs[q].status # "absent"
    BY <1>4 DEF WorkShape, EvidenceInv, OrphansFenced
  <2>3. jobs'[q].status # "absent" /\ jobs'[q].generation = jobs[q].generation
    BY <1>2, <2>1, <2>2 DEF JobKept, JobStarts, JobSettles
  <2>4. ASSUME Open', q \in leases' PROVE jobs'[q].generation < generation'
    <3>1. q \in orphans /\ q \in leases
      BY <1>4, <2>2, <2>4 DEF WorkShape
    <3>2. CASE generation < generation'
      BY <1>5, <1>6, <2>1, <2>3, <3>2 DEF EvidenceInv, Bounded
    <3>3. CASE generation' = generation /\ Open
      BY <2>3, <3>1, <3>3 DEF EvidenceInv, OrphansFenced
    <3>4. QED BY <1>3, <2>4, <3>2, <3>3 DEF GenerationGrows
  <2>5. QED BY <2>3, <2>4
<1>10. CASE UNCHANGED evidence
  <2>1. \A i \in DOMAIN evidence : evidence[i] \in EvidenceRecord
    BY <1>5
  <2>2. \A i \in DOMAIN evidence : /\ evidence[i].generation \in Nat
                                   /\ evidence[i].job \in JobIds
    BY <2>1 DEF EvidenceRecord
  <2>3. \A i \in DOMAIN evidence : evidence[i].generation <= generation
    BY DEF EvidenceInv, Bounded
  <2>4. Bounded'
    BY <1>5, <1>7, <1>10, <2>2, <2>3 DEF Bounded
  <2>5. EvidenceCurrent'
    <3> SUFFICES ASSUME Open', NEW i \in DOMAIN evidence,
                        evidence[i].generation = generation'
                 PROVE  /\ contract' = evidence[i].identity.contract
                        /\ candidate' # None
                        /\ candidate'.source = evidence[i].identity.source
      BY <1>10 DEF EvidenceCurrent, Open
    <3>1. generation' = generation /\ Open /\ UNCHANGED <<contract, candidate>>
      BY <1>3, <1>5, <2>2, <2>3 DEF GenerationGrows
    <3>2. QED BY <3>1 DEF EvidenceInv, EvidenceCurrent
  <2>6. \A j \in JobIds : jobs[j].status \notin {"absent", "running"}
                            => jobs'[j].status \notin {"absent", "running"}
    BY <1>2 DEF JobKept, JobStarts, JobSettles
  <2>7. EvidenceOnce'
    BY <1>10, <2>2, <2>6 DEF EvidenceInv, EvidenceOnce
  <2>8. QED BY <1>1, <1>8, <1>9, <2>4, <2>5, <2>7 DEF EvidenceInv
<1>11. ASSUME NEW j \in JobIds, NEW o \in Observations, EvidenceAppended(j, o)
       PROVE  EvidenceInv'
  <2> DEFINE n == Len(evidence) + 1
             x == [job |-> j, generation |-> generation,
                   identity |-> jobs[j].identity, result |-> o]
  <2>1. /\ Open /\ j \in leases /\ jobs[j].status = "running"
        /\ jobs[j].generation = generation
        /\ jobs'[j].status \notin {"absent", "running"}
        /\ evidence' = Append(evidence, x)
        /\ UNCHANGED <<generation, contract, candidate, outcome>>
    BY <1>11 DEF EvidenceAppended, LeaseHeld
  <2>2. jobs[j].kind = "check" /\ jobs[j].identity \in Identities
    BY <1>1, <2>1 DEF TypeInv, LeasesSound
  <2>3. x \in EvidenceRecord
    BY <1>5, <2>2 DEF EvidenceRecord
  <2>4. /\ DOMAIN evidence' = DOMAIN evidence \cup {n} /\ n \notin DOMAIN evidence
        /\ evidence'[n] = x /\ \A i \in DOMAIN evidence : evidence'[i] = evidence[i]
    <3> HIDE DEF x
    <3>1. /\ DOMAIN evidence' = 1 .. n /\ DOMAIN evidence = 1 .. Len(evidence)
          /\ Len(evidence) \in Nat /\ evidence'[n] = x
          /\ \A i \in DOMAIN evidence : evidence'[i] = evidence[i]
      BY <1>5, <2>1, <2>3, Appended
    <3>2. QED BY <3>1
  <2>5. /\ x.job = j /\ x.generation = generation /\ x.identity = jobs[j].identity
    OBVIOUS
  <2> HIDE DEF n, x
  <2>6. \A i \in DOMAIN evidence : evidence[i] \in EvidenceRecord
    BY <1>5
  <2>7. \A i \in DOMAIN evidence : evidence[i].job \in JobIds
    BY <2>6 DEF EvidenceRecord
  <2>8. Bounded'
    BY <1>5, <1>7, <2>1, <2>4, <2>5 DEF EvidenceInv, Bounded
  <2>9. EvidenceCurrent'
    BY <2>1, <2>2, <2>4, <2>5 DEF EvidenceInv, EvidenceCurrent, ChecksCurrent, Open
  <2>10. \A q \in JobIds : jobs[q].status \notin {"absent", "running"}
                             => jobs'[q].status \notin {"absent", "running"}
    BY <1>2 DEF JobKept, JobStarts, JobSettles
  <2>11. \A i \in DOMAIN evidence : evidence[i].job # j
    BY <2>1 DEF EvidenceInv, EvidenceOnce
  <2>12. EvidenceOnce'
    <3> SUFFICES ASSUME NEW i \in DOMAIN evidence'
                 PROVE  /\ jobs'[evidence'[i].job].status \notin {"absent", "running"}
                        /\ \A k \in DOMAIN evidence' :
                              evidence'[k].job = evidence'[i].job => k = i
      BY DEF EvidenceOnce
    <3>1. CASE i = n
      BY <2>1, <2>4, <2>5, <2>11, <3>1
    <3>2. CASE i \in DOMAIN evidence
      BY <2>4, <2>5, <2>7, <2>10, <2>11, <3>2 DEF EvidenceInv, EvidenceOnce
    <3>3. QED BY <2>4, <3>1, <3>2
  <2>13. QED BY <1>1, <1>8, <1>9, <2>8, <2>9, <2>12 DEF EvidenceInv
<1>12. QED BY <1>4, <1>10, <1>11 DEF WorkShape

LEMMA EvidenceInvariant == Spec => []EvidenceInv
BY InitEvidence, EvidenceStep, PTL DEF Spec

\* Whatever settlements, fences, directives, reopenings and restarts come in
\* between, a lease belongs to a running check and a job has at most one
\* observation, which it reports when it stops running.
THEOREM VerifiersReportOnce == Spec => []ObservedOnce
<1>1. EvidenceInv => ObservedOnce
  BY DEF EvidenceInv, TypeInv, ObservedOnce
<1>2. QED BY <1>1, EvidenceInvariant, PTL

\* Evidence of the current generation of an open task is about its contract
\* and its candidate, although leases survive a new generation and the user's
\* shell moves the candidate without one.
THEOREM EvidenceIsCurrent == Spec => []EvidenceCurrent
<1>1. EvidenceInv => EvidenceCurrent
  BY DEF EvidenceInv
<1>2. QED BY <1>1, EvidenceInvariant, PTL

\* A check that was running when a host died never becomes evidence, also when
\* the recovery found its task settled and a user opened it again later.
THEOREM NothingCrossesARestart == Spec => NoOrphanEvidence
<1> DEFINE Fresh == \A i \in DOMAIN evidence' \ DOMAIN evidence :
                        evidence'[i].job \notin orphans
<1>1. EvidenceInv /\ [Next]_vars => [Fresh]_vars
  <2> SUFFICES ASSUME EvidenceInv, [Next]_vars PROVE Fresh
    OBVIOUS
  <2>1. TypeInv
    BY DEF EvidenceInv
  <2>2. CASE UNCHANGED evidence
    BY <2>2
  <2>3. ASSUME NEW j \in JobIds, NEW o \in Observations, EvidenceAppended(j, o)
        PROVE  Fresh
    <3> DEFINE x == [job |-> j, generation |-> generation,
                     identity |-> jobs[j].identity, result |-> o]
    <3>1. /\ Open /\ j \in leases /\ jobs[j].generation = generation
          /\ evidence' = Append(evidence, x)
      BY <2>3 DEF EvidenceAppended, LeaseHeld
    <3>2. j \notin orphans
      <4>1. generation \in Nat
        BY <2>1 DEF TypeInv, TypeOK, GenerationType
      <4>2. QED BY <3>1, <4>1 DEF EvidenceInv, OrphansFenced
    <3>3. evidence \in Seq(EvidenceRecord) /\ x \in EvidenceRecord
      BY <2>1, <3>1 DEF TypeInv, TypeOK, WorkType, GenerationType, LeasesSound,
         EvidenceRecord
    <3>4. x.job = j
      OBVIOUS
    <3> HIDE DEF x
    <3>5. /\ DOMAIN evidence' = 1 .. Len(evidence) + 1
          /\ DOMAIN evidence = 1 .. Len(evidence) /\ Len(evidence) \in Nat
          /\ evidence'[Len(evidence) + 1] = x
      BY <3>1, <3>3, Appended
    <3>6. \A i \in DOMAIN evidence' \ DOMAIN evidence : i = Len(evidence) + 1
      BY <3>5
    <3>7. QED BY <3>2, <3>4, <3>5, <3>6
  <2>4. QED BY <2>1, <2>2, <2>3, EvidenceShape DEF WorkShape
<1>2. QED BY <1>1, EvidenceInvariant, PTL DEF Spec, NoOrphanEvidence

-----------------------------------------------------------------------------
(* Writers.  WriterExclusion needs the user's shell: while one is active no  *)
(* agent execution is unresolved, so the tree it leaves may be frozen.       *)
WriterInv ==
    /\ TypeInv /\ WriterExclusion
    /\ shell # None => \A j \in JobIds : jobs[j].kind = "execution" => ~Unresolved(j)

\* A candidate is frozen by select_candidate without active writers or by the
\* end of a user shell, which begin_shell starts with nothing unsettled.
FrozenShape ==
    /\ Frozen' => \/ Frozen
                  \/ NoActiveWriters /\ UNCHANGED jobs
                  \/ shell # None
    /\ shell' # None => \/ shell # None
                        \/ \A j \in JobIds : ~Unresolved(j)

LEMMA StillFrozen ==
    ASSUME UNCHANGED candidate \/ candidate' = None, UNCHANGED shell \/ shell' = None
    PROVE  FrozenShape
BY DEF FrozenShape, Frozen

LEMMA FreezeShape == TypeInv /\ [Next]_vars => FrozenShape
<1> SUFFICES ASSUME TypeInv, [Next]_vars PROVE FrozenShape
  OBVIOUS
<1>1. ContractStep => FrozenShape
  BY StillFrozen DEF ContractStep, admit_contract, amend_contract,
     accept_additive_contract, sourceVars, envVars
<1>2. DirectiveStep => FrozenShape
  BY StillFrozen DEF DirectiveStep, receive_directive, replace_directive,
     continue_submission, sourceVars, envVars
<1>3. SourceStep => FrozenShape
  <2>1. ASSUME NEW s \in Sources, NEW f \in BOOLEAN, select_candidate(s, f)
        PROVE  FrozenShape
    BY <2>1 DEF select_candidate, FrozenShape, workVars, envVars
  <2>2. QED
    BY <2>1, StillFrozen DEF SourceStep, establish_workspace, establish_baseline,
       invalidate_candidate, workspace_restored, envVars
<1>4. JobStep => FrozenShape
  <2>1. ASSUME NEW j \in JobIds, NEW e \in EffectIds, begin_shell(j, e)
        PROVE  FrozenShape
    BY <2>1 DEF begin_shell, NothingUnsettled, FrozenShape, Frozen, sourceVars
  <2>2. QED
    BY <2>1, StillFrozen DEF JobStep, begin_check, finish_check, start_job,
       start_execution_job, settle_job, fence_job, sourceVars, envVars
<1>5. ShellStep => FrozenShape
  BY DEF ShellStep, finish_shell, FrozenShape
<1>6. RecordStep \/ AccountStep => FrozenShape
  BY StillFrozen DEF RecordStep, record_effect, record_finding, AccountStep,
     reserve_model_call, record_model_call, charge_usage, LateAccounting,
     sourceVars, envVars
<1>7. EndStep => FrozenShape
  BY StillFrozen DEF EndStep, record_delivery, complete, request_cancellation,
     audit_evidence, resume_task, reopen, Reopened, recover_interrupted, elapse, stop,
     sourceVars, envVars
<1>8. UNCHANGED vars => FrozenShape
  BY StillFrozen DEF vars, sourceVars, envVars
<1>9. QED BY <1>1, <1>2, <1>3, <1>4, <1>5, <1>6, <1>7, <1>8 DEF Next

\* No agent execution that writes the workspace is running or of unknown fate
\* while the candidate is frozen, although a user shell freezes what it leaves.
THEOREM WritersExcluded == Spec => []WriterExclusion
<1>1. Init => WriterInv
  BY InitType DEF Init, WriterInv, WriterExclusion, Frozen
<1>2. WriterInv /\ [Next]_vars => WriterInv'
  <2> SUFFICES ASSUME WriterInv, [Next]_vars PROVE WriterInv'
    OBVIOUS
  <2>1. TypeInv /\ TypeInv'
    BY StepType DEF WriterInv
  <2>2. \A j \in JobIds : JobKept(j) \/ JobStarts(j) \/ JobSettles(j)
    BY <2>1, JobShape
  <2>3. FrozenShape
    BY <2>1, FreezeShape
  <2>4. ASSUME NEW j \in JobIds, jobs'[j].kind = "execution", Unresolved(j)',
               ~JobStarts(j)
        PROVE  /\ jobs[j].kind = "execution" /\ Unresolved(j)
               /\ jobs'[j].mutates = jobs[j].mutates
    BY <2>2, <2>4 DEF JobKept, JobSettles, Unresolved
  <2>5. WriterExclusion'
    <3> SUFFICES ASSUME Frozen', NEW j \in JobIds, jobs'[j].kind = "execution",
                        jobs'[j].mutates, Unresolved(j)'
                 PROVE  FALSE
      BY DEF WriterExclusion, Frozen, Unresolved
    <3>1. CASE JobStarts(j)
      BY <3>1 DEF JobStarts, Frozen
    <3>2. CASE ~JobStarts(j)
      <4>1. jobs[j].kind = "execution" /\ Unresolved(j) /\ jobs[j].mutates
        BY <2>4, <3>2
      <4>2. ~Frozen /\ shell = None
        BY <4>1 DEF WriterInv, WriterExclusion
      <4>3. NoActiveWriters
        BY <2>3, <4>2 DEF FrozenShape
      <4>4. QED BY <4>1, <4>3 DEF NoActiveWriters
    <3>3. QED BY <3>1, <3>2
  <2>6. ASSUME shell' # None, NEW j \in JobIds, jobs'[j].kind = "execution",
               Unresolved(j)'
        PROVE  FALSE
    <3>1. ~JobStarts(j)
      BY <2>6 DEF JobStarts
    <3>2. jobs[j].kind = "execution" /\ Unresolved(j)
      BY <2>4, <2>6, <3>1
    <3>3. shell = None
      BY <3>2 DEF WriterInv
    <3>4. QED BY <2>3, <2>6, <3>2, <3>3 DEF FrozenShape
  <2>7. QED BY <2>1, <2>5, <2>6 DEF WriterInv, Unresolved
<1>3. WriterInv => WriterExclusion
  BY DEF WriterInv
<1>4. QED BY <1>1, <1>2, <1>3, PTL DEF Spec

-----------------------------------------------------------------------------
(* What a step may never do.                                                *)

\* A settled task that stays settled keeps its contract, candidate, evidence,
\* certificates, findings, scope and reservations, unless a user shell is
\* under way: late receipts, settlements, audits and restarts move none of it.
THEOREM SettledStaysPut == Spec => TerminalFrozen
<1> DEFINE Kept == UNCHANGED <<contract, candidate, baseline, evidence, certificates,
                               findings, scope, admittedScope, directives, reserved>>
           Settled == outcome # None /\ outcome' # None /\ shell = None
<1>1. [Next]_vars => [Settled => Kept]_vars
  <2> SUFFICES ASSUME [Next]_vars, Settled PROVE Kept
    OBVIOUS
  <2>1. ~ContractStep
    BY DEF ContractStep, admit_contract, amend_contract, accept_additive_contract, Open
  <2>2. ~DirectiveStep
    BY DEF DirectiveStep, receive_directive, replace_directive, continue_submission,
       Directive
  <2>3. ~SourceStep
    BY DEF SourceStep, establish_workspace, establish_baseline, select_candidate,
       invalidate_candidate, workspace_restored, Open
  <2>4. JobStep => Kept
    <3>1. ~ \E j \in JobIds : \/ \E k \in Checks : begin_check(j, k)
                              \/ \E o \in Observations : finish_check(j, o)
                              \/ \E m \in BOOLEAN : \/ start_job(j, m)
                                                    \/ start_execution_job(j, m)
                              \/ \E e \in EffectIds : begin_shell(j, e)
      BY DEF begin_check, finish_check, LeaseHeld, start_job, start_execution_job,
         begin_shell, Open
    <3>2. QED
      BY <3>1 DEF JobStep, settle_job, fence_job, sourceVars, scopeVars, accountVars,
         endVars
  <2>5. ~ShellStep
    BY DEF ShellStep, finish_shell
  <2>6. RecordStep => Kept
    BY DEF RecordStep, record_effect, record_finding, Open, sourceVars, scopeVars,
       accountVars, endVars, workVars
  <2>7. AccountStep => Kept
    BY DEF AccountStep, reserve_model_call, record_model_call, charge_usage,
       LateAccounting, Open, sourceVars, scopeVars, workVars
  <2>8. EndStep => Kept
    <3>1. ~(record_delivery \/ complete \/ request_cancellation \/ resume_task \/ reopen)
      BY DEF record_delivery, complete, evaluate, request_cancellation, resume_task,
         reopen, Reopened, Open
    <3>2. ~ \E end \in StopOutcomes : stop(end)
      BY DEF stop, Open
    <3>3. audit_evidence \/ recover_interrupted \/ elapse => Kept
      BY DEF audit_evidence, recover_interrupted, elapse, sourceVars, scopeVars,
         accountVars, endVars, workVars
    <3>4. QED BY <3>1, <3>2, <3>3 DEF EndStep
  <2>9. UNCHANGED vars => Kept
    BY DEF vars, sourceVars, scopeVars, accountVars, endVars, workVars
  <2>10. QED
    BY <2>1, <2>2, <2>3, <2>4, <2>5, <2>6, <2>7, <2>8, <2>9 DEF Next
<1>2. QED BY <1>1, PTL DEF Spec, TerminalFrozen

(* The records a later step must not rewrite, and the operations that touch  *)
(* each of them.                                                             *)
EffectsKept ==
    \A e \in EffectIds : effects[e] # "absent" /\ ~UnresolvedEffect(e)
          => effects'[e] = effects[e] \/ (shell # None /\ shell.effect = e)
AccountsKept ==
    /\ \A o \in Operations :
          /\ charges[o] # None => charges'[o] = charges[o]
          /\ receipts[o] # None =>
                /\ receipts[o].billed => /\ receipts'[o].billed
                                         /\ receipts'[o].tokens = receipts[o].tokens
                /\ StatusKnown(o) => receipts'[o].status = receipts[o].status
    /\ usage'.tokens >= usage.tokens /\ usage'.calls >= usage.calls

\* An effect leaves the intended and unknown states once: record_effect refuses
\* a settled one, a recovery only loses sight of an intended one, and the end of
\* a shell writes the effect the shell owns.
LEMMA EffectsShape == TypeInv /\ [Next]_vars => EffectsKept
<1> SUFFICES ASSUME TypeInv, [Next]_vars PROVE EffectsKept
  OBVIOUS
<1>0. UNCHANGED effects => EffectsKept
  BY DEF EffectsKept
<1>a. effects \in [EffectIds -> EffectStatus \cup {"absent"}]
  BY DEF TypeInv, TypeOK, RecordType
<1>1. ContractStep \/ DirectiveStep => EffectsKept
  BY <1>0 DEF ContractStep, admit_contract, amend_contract, accept_additive_contract,
     DirectiveStep, receive_directive, replace_directive, continue_submission
<1>2. SourceStep => EffectsKept
  BY <1>0 DEF SourceStep, establish_workspace, establish_baseline, select_candidate,
     invalidate_candidate, workspace_restored
<1>3. JobStep => EffectsKept
  <2>1. ASSUME NEW j \in JobIds, NEW e \in EffectIds, begin_shell(j, e)
        PROVE  EffectsKept
    BY <1>a, <2>1 DEF begin_shell, EffectsKept
  <2>2. QED
    BY <1>0, <2>1 DEF JobStep, begin_check, finish_check, start_job,
       start_execution_job, settle_job, fence_job
<1>4. ShellStep => EffectsKept
  <2>1. ASSUME NEW s \in SettledStatus, NEW a \in Sources \cup {None}, finish_shell(s, a)
        PROVE  EffectsKept
    <3>1. PICK v : shell # None /\ effects' = [effects EXCEPT ![shell.effect] = v]
      BY <2>1 DEF finish_shell
    <3>2. QED BY <1>a, <3>1 DEF EffectsKept
  <2>2. QED BY <2>1 DEF ShellStep
<1>5. RecordStep => EffectsKept
  <2>1. ASSUME NEW e \in EffectIds, NEW s \in EffectStatus, record_effect(e, s)
        PROVE  EffectsKept
    BY <1>a, <2>1 DEF record_effect, EffectsKept
  <2>2. QED BY <1>0, <2>1 DEF RecordStep, record_finding
<1>6. AccountStep => EffectsKept
  BY <1>0 DEF AccountStep, reserve_model_call, record_model_call, charge_usage,
     LateAccounting
<1>7. EndStep => EffectsKept
  <2>1. CASE recover_interrupted
    <3>1. CASE Open
      <4>1. \A e \in EffectIds :
               effects'[e] = IF effects[e] = "intended" THEN "unknown" ELSE effects[e]
        BY <2>1, <3>1 DEF recover_interrupted
      <4>2. QED BY <4>1 DEF EffectsKept, UnresolvedEffect
    <3>2. QED BY <1>0, <2>1, <3>1 DEF recover_interrupted
  <2>2. QED
    BY <1>0, <2>1 DEF EndStep, record_delivery, complete, request_cancellation,
       audit_evidence, resume_task, reopen, Reopened, elapse, stop
<1>8. UNCHANGED vars => EffectsKept
  BY <1>0 DEF vars
<1>9. QED BY <1>1, <1>2, <1>3, <1>4, <1>5, <1>6, <1>7, <1>8 DEF Next

\* A receipt is refined, never contradicted, and what a call cost is added once.
LEMMA AccountsShape == TypeInv /\ [Next]_vars => AccountsKept
<1> SUFFICES ASSUME TypeInv, [Next]_vars PROVE AccountsKept
  OBVIOUS
<1>a. /\ usage.calls \in Nat /\ usage.tokens \in Nat
      /\ receipts \in [Operations -> Receipts \cup {None}]
      /\ charges \in [Operations -> Charges \cup {None}]
  BY DEF TypeInv, TypeOK, AccountType, Usage
<1>0. UNCHANGED accountVars => AccountsKept
  BY <1>a DEF AccountsKept, accountVars
<1>1. ContractStep \/ DirectiveStep => AccountsKept
  BY <1>0 DEF ContractStep, admit_contract, amend_contract, accept_additive_contract,
     DirectiveStep, receive_directive, replace_directive, continue_submission
<1>2. SourceStep => AccountsKept
  BY <1>0 DEF SourceStep, establish_workspace, establish_baseline, select_candidate,
     invalidate_candidate, workspace_restored
<1>3. JobStep => AccountsKept
  BY <1>0 DEF JobStep, begin_check, finish_check, start_job, start_execution_job,
     settle_job, fence_job, begin_shell
<1>4. ShellStep \/ RecordStep => AccountsKept
  BY <1>0 DEF ShellStep, finish_shell, RecordStep, record_effect, record_finding
<1>5. ASSUME NEW o \in Operations, reserve_model_call(o) PROVE AccountsKept
  <2>1. usage' = [usage EXCEPT !.calls = @ + 1] /\ UNCHANGED <<receipts, charges>>
    BY <1>5 DEF reserve_model_call
  <2>2. usage'.calls = usage.calls + 1 /\ usage'.tokens = usage.tokens
    BY <2>1 DEF TypeInv, TypeOK, AccountType, Usage
  <2>3. QED BY <1>a, <2>1, <2>2 DEF AccountsKept
<1>6. ASSUME NEW o \in Operations, NEW r \in Receipts, record_model_call(o, r)
      PROVE  AccountsKept
  <2> DEFINE previous == IF receipts[o] = None THEN 0 ELSE receipts[o].tokens
             added == IF r.tokens > previous THEN r.tokens - previous ELSE 0
  <2>1. /\ receipts[o] # None => Refines(receipts[o], r)
        /\ usage' = [usage EXCEPT !.tokens = @ + added]
        /\ receipts' = [receipts EXCEPT ![o] = r] /\ UNCHANGED charges
    BY <1>6 DEF record_model_call
  <2>2. r.tokens \in Nat /\ previous \in Nat
    BY <1>a, ReceiptsAssumption DEF Receipt
  <2>3. added \in Nat
    BY <2>2
  <2> HIDE DEF added
  <2>4. usage'.tokens = usage.tokens + added /\ usage'.calls = usage.calls
    BY <2>1 DEF TypeInv, TypeOK, AccountType, Usage
  <2>5. receipts'[o] = r /\ \A q \in Operations \ {o} : receipts'[q] = receipts[q]
    BY <1>a, <2>1
  <2>6. receipts[o] # None =>
           /\ receipts[o].billed => r.billed /\ r.tokens = receipts[o].tokens
           /\ StatusKnown(o) => r.status = receipts[o].status
    BY <2>1, Zenon DEF Refines, StatusKnown
  <2>7. \A q \in Operations :
           /\ charges[q] # None => charges'[q] = charges[q]
           /\ receipts[q] # None =>
                /\ receipts[q].billed => /\ receipts'[q].billed
                                         /\ receipts'[q].tokens = receipts[q].tokens
                /\ StatusKnown(q) => receipts'[q].status = receipts[q].status
    <3> SUFFICES ASSUME NEW q \in Operations
                 PROVE  receipts[q] # None =>
                /\ receipts[q].billed => /\ receipts'[q].billed
                                         /\ receipts'[q].tokens = receipts[q].tokens
                /\ StatusKnown(q) => receipts'[q].status = receipts[q].status
      BY <2>1
    <3>1. CASE q = o
      BY <2>5, <2>6, <3>1, Zenon
    <3>2. CASE q # o
      BY <2>5, <3>2, Zenon
    <3>3. QED BY <3>1, <3>2
  <2>8. usage'.tokens >= usage.tokens /\ usage'.calls >= usage.calls
    BY <1>a, <2>3, <2>4
  <2>9. QED BY <2>7, <2>8 DEF AccountsKept
<1>7. ASSUME NEW o \in Operations, NEW u \in Charges, charge_usage(o, u)
      PROVE  AccountsKept
  <2>1. /\ charges[o] = None /\ charges' = [charges EXCEPT ![o] = u]
        /\ usage' = [calls |-> usage.calls + u.calls, tokens |-> usage.tokens + u.tokens]
        /\ UNCHANGED receipts
    BY <1>7 DEF charge_usage
  <2>2. u.calls \in Nat /\ u.tokens \in Nat
    BY ChargesAssumption DEF Usage
  <2>3. usage'.tokens >= usage.tokens /\ usage'.calls >= usage.calls
    BY <1>a, <2>1, <2>2
  <2>4. QED BY <1>a, <2>1, <2>3 DEF AccountsKept
<1>8. AccountStep => AccountsKept
  BY <1>5, <1>6, <1>7 DEF AccountStep
<1>9. EndStep => AccountsKept
  BY <1>0 DEF EndStep, record_delivery, complete, request_cancellation, audit_evidence,
     resume_task, reopen, Reopened, recover_interrupted, elapse, stop
<1>10. UNCHANGED vars => AccountsKept
  BY <1>0 DEF vars
<1>11. QED BY <1>1, <1>2, <1>3, <1>4, <1>8, <1>9, <1>10 DEF Next

LEMMA CertificatesShape ==
    [Next]_vars => UNCHANGED certificates \/ complete
<1>1. ContractStep \/ DirectiveStep => UNCHANGED certificates
  BY DEF ContractStep, admit_contract, amend_contract, accept_additive_contract,
     DirectiveStep, receive_directive, replace_directive, continue_submission, endVars
<1>2. SourceStep => UNCHANGED certificates
  BY DEF SourceStep, establish_workspace, establish_baseline, select_candidate,
     invalidate_candidate, workspace_restored, endVars
<1>3. JobStep => UNCHANGED certificates
  BY DEF JobStep, begin_check, finish_check, start_job, start_execution_job,
     settle_job, fence_job, begin_shell, endVars
<1>4. ShellStep \/ RecordStep \/ AccountStep => UNCHANGED certificates
  BY DEF ShellStep, finish_shell, RecordStep, record_effect, record_finding,
     AccountStep, reserve_model_call, record_model_call, charge_usage, LateAccounting,
     endVars
<1>5. EndStep => UNCHANGED certificates \/ complete
  BY DEF EndStep, record_delivery, request_cancellation, audit_evidence, resume_task,
     reopen, Reopened, recover_interrupted, elapse, stop, endVars
<1>6. UNCHANGED vars => UNCHANGED certificates
  BY DEF vars, endVars
<1>7. QED BY <1>1, <1>2, <1>3, <1>4, <1>5, <1>6 DEF Next

\* No step rewrites the history of a task: evidence and certificates only grow,
\* a settled job or effect stays as it is, a known end or cost of a provider
\* attempt stays known, and what was spent never shrinks.
THEOREM HistoryIsKept == Spec => HistoryKept
<1> DEFINE Jobs == \A j \in JobIds : jobs[j].status # "absent" /\ ~Unresolved(j)
                                         => jobs'[j] = jobs[j]
           Kept == /\ IsPrefixOf(evidence, evidence')
                   /\ IsPrefixOf(certificates, certificates')
                   /\ Jobs /\ EffectsKept /\ AccountsKept
<1>1. ASSUME TypeInv, TypeInv', [Next]_vars PROVE Kept
  <2>1. \A s : \A S : s \in Seq(S) => IsPrefixOf(s, s)
    BY DEF IsPrefixOf
  <2>2. IsPrefixOf(evidence, evidence')
    <3>1. CASE UNCHANGED evidence
      BY <1>1, <2>1, <3>1 DEF TypeInv, TypeOK, WorkType
    <3>2. ASSUME NEW j \in JobIds, NEW o \in Observations, EvidenceAppended(j, o)
          PROVE  IsPrefixOf(evidence, evidence')
      BY <1>1, <3>2 DEF EvidenceAppended, TypeInv, TypeOK, WorkType, IsPrefixOf
    <3>3. QED BY <1>1, <3>1, <3>2, EvidenceShape DEF WorkShape
  <2>3. IsPrefixOf(certificates, certificates')
    <3>1. CASE UNCHANGED certificates
      BY <1>1, <2>1, <3>1 DEF TypeInv, TypeOK, EndType
    <3>2. CASE complete
      BY <1>1, <3>2 DEF complete, TypeInv, TypeOK, EndType, IsPrefixOf
    <3>3. QED BY <1>1, <3>1, <3>2, CertificatesShape
  <2>4. Jobs
    BY <1>1, JobShape DEF JobKept, JobStarts, JobSettles
  <2>5. QED BY <1>1, <2>2, <2>3, <2>4, EffectsShape, AccountsShape
<1>2. TypeInv /\ TypeInv' /\ [Next]_vars => [Kept]_vars
  BY <1>1
<1>3. QED
  BY <1>2, TypeInvariant, PTL DEF Spec, HistoryKept, EffectsKept, AccountsKept

-----------------------------------------------------------------------------
(* Accounting.  The sum of UsageExact is a recursion over the subsets of    *)
(* Operations that takes one chosen operation out at a time; the facts      *)
(* below are inductions over those subsets.                                 *)
LEMMA SmallestNumber ==
    ASSUME NEW S \in SUBSET Nat, S # {}
    PROVE  \E n \in S : \A m \in S : n <= m
<1>1. PICK n \in S : \A m \in S : ~(<<m, n>> \in OpToRel(<, Nat))
  BY NatLessThanWellFounded, WFMin, Zenon
<1>2. \A m \in S : ~(m < n)
  BY <1>1, Zenon DEF OpToRel
<1> QED BY <1>2

LEMMA NumberInduction ==
    ASSUME NEW T \in SUBSET Nat, 0 \in T, \A n \in T : n + 1 \in T
    PROVE  T = Nat
<1> SUFFICES ASSUME T # Nat PROVE FALSE
  OBVIOUS
<1> DEFINE Out == Nat \ T
<1>1. Out \in SUBSET Nat /\ Out # {}
  OBVIOUS
<1>2. PICK n \in Out : \A m \in Out : n <= m
  BY <1>1, SmallestNumber
<1>3. n # 0 /\ n - 1 \in Nat /\ ~(n <= n - 1)
  BY <1>2
<1>4. n - 1 \in T /\ (n - 1) + 1 = n
  BY <1>2, <1>3
<1> QED BY <1>2, <1>4

First(s) == CHOOSE x \in s : TRUE
Rest(s) == s \ {First(s)}

LEMMA RestFacts ==
    ASSUME NEW s \in SUBSET Operations
    PROVE  /\ IsFiniteSet(s) /\ Cardinality(s) \in Nat /\ (Cardinality(s) = 0 <=> s = {})
           /\ s # {} => /\ First(s) \in s /\ Rest(s) \in SUBSET Operations
                        /\ Cardinality(Rest(s)) = Cardinality(s) - 1
<1>1. IsFiniteSet(s)
  BY OperationsAssumption, FS_Subset
<1>2. Cardinality(s) \in Nat /\ (Cardinality(s) = 0 <=> s = {})
  BY <1>1, FS_CardinalityType, FS_EmptySet
<1>3. ASSUME s # {} PROVE First(s) \in s
  BY <1>3, Zenon DEF First
<1>4. ASSUME s # {} PROVE Cardinality(Rest(s)) = Cardinality(s) - 1
  BY <1>1, <1>3, <1>4, FS_RemoveElement DEF Rest
<1> QED BY <1>1, <1>2, <1>3, <1>4 DEF Rest

LEMMA SetInduction ==
    ASSUME NEW T \in SUBSET (SUBSET Operations), {} \in T,
           \A s \in SUBSET Operations : s # {} /\ Rest(s) \in T => s \in T
    PROVE  \A s \in SUBSET Operations : s \in T
<1> DEFINE N == {n \in Nat : \A s \in SUBSET Operations : Cardinality(s) = n => s \in T}
<1>1. 0 \in N
  BY RestFacts
<1>2. ASSUME NEW n \in N PROVE n + 1 \in N
  <2> SUFFICES ASSUME NEW s \in SUBSET Operations, Cardinality(s) = n + 1
               PROVE  s \in T
    OBVIOUS
  <2>1. s # {}
    BY RestFacts
  <2>2. Rest(s) \in SUBSET Operations /\ Cardinality(Rest(s)) = n
    BY <2>1, RestFacts
  <2> QED BY <2>1, <2>2
<1>3. N = Nat
  <2> HIDE DEF N
  <2>1. N \in SUBSET Nat
    BY DEF N
  <2> QED BY <1>1, <1>2, <2>1, NumberInduction
<1> QED BY <1>3, RestFacts

Added(f, g, s) == IF s = {} THEN 0 ELSE f[First(s)] + g[Rest(s)]
Sums(f) == CHOOSE g : g = [s \in SUBSET Operations |-> Added(f, g, s)]

Sum(f) == Sums(f)[Operations]

LEMMA TotalIsSum ==
    ASSUME NEW f PROVE Total(f) = Sum(f)
BY DEF Sum, Total, MapThenSumSet, MapThenFoldSet, Sums, Added, First, Rest

LEMMA SumsExist ==
    ASSUME NEW f \in [Operations -> Nat]
    PROVE  \E g : g = [s \in SUBSET Operations |-> Added(f, g, s)]
<1> DEFINE Small(n) == {s \in SUBSET Operations : Cardinality(s) <= n}
           Upto(n, g) == \A s \in Small(n) : g[s] = Added(f, g, s)
           N == {n \in Nat : \E g \in [SUBSET Operations -> Nat] : Upto(n, g)}
<1>1. 0 \in N
  <2> DEFINE g == [s \in SUBSET Operations |-> 0]
  <2>1. g \in [SUBSET Operations -> Nat]
    OBVIOUS
  <2>2. \A s \in Small(0) : s = {}
    BY RestFacts
  <2>3. Upto(0, g)
    BY <2>2 DEF Added
  <2> QED BY <2>1, <2>3
<1>2. ASSUME NEW n \in N PROVE n + 1 \in N
  <2>1. PICK g \in [SUBSET Operations -> Nat] : Upto(n, g)
    OBVIOUS
  <2> DEFINE h == [s \in SUBSET Operations |->
                       IF Cardinality(s) <= n THEN g[s] ELSE Added(f, g, s)]
  <2>2. \A s \in SUBSET Operations : Added(f, g, s) \in Nat
    BY RestFacts DEF Added
  <2>3. h \in [SUBSET Operations -> Nat]
    BY <2>2
  <2>4. \A s \in Small(n) : h[s] = g[s]
    OBVIOUS
  <2>5. \A s \in Small(n + 1) : s # {} => Rest(s) \in Small(n)
    BY RestFacts
  <2>6. \A s \in Small(n + 1) : Added(f, h, s) = Added(f, g, s)
    BY <2>4, <2>5 DEF Added
  <2>7. \A s \in Small(n + 1) : h[s] = Added(f, g, s)
    BY <2>1
  <2>8. Upto(n + 1, h)
    BY <2>6, <2>7
  <2>9. n + 1 \in Nat
    OBVIOUS
  <2> HIDE DEF h, Upto
  <2> QED BY <2>3, <2>8, <2>9
<1>3. N = Nat
  <2> HIDE DEF N
  <2>1. N \in SUBSET Nat
    BY DEF N
  <2> QED BY <1>1, <1>2, <2>1, NumberInduction
<1>4. Cardinality(Operations) \in N
  BY <1>3, OperationsAssumption, FS_CardinalityType
<1>5. PICK g \in [SUBSET Operations -> Nat] : Upto(Cardinality(Operations), g)
  BY <1>4
<1>6. \A s \in SUBSET Operations : s \in Small(Cardinality(Operations))
  BY OperationsAssumption, FS_Subset
<1>7. g = [s \in SUBSET Operations |-> Added(f, g, s)]
  BY <1>5, <1>6
<1> QED BY <1>7

LEMMA SumsFacts ==
    ASSUME NEW f \in [Operations -> Nat]
    PROVE  /\ Sums(f)[{}] = 0
           /\ \A s \in SUBSET Operations :
                s # {} => Sums(f)[s] = f[First(s)] + Sums(f)[Rest(s)]
           /\ \A s \in SUBSET Operations : Sums(f)[s] \in Nat
<1>1. Sums(f) = [s \in SUBSET Operations |-> Added(f, Sums(f), s)]
  BY SumsExist, Zenon DEF Sums
<1>2. \A s \in SUBSET Operations : Sums(f)[s] = Added(f, Sums(f), s)
  BY <1>1
<1>3. /\ Sums(f)[{}] = 0
      /\ \A s \in SUBSET Operations :
           s # {} => Sums(f)[s] = f[First(s)] + Sums(f)[Rest(s)]
  BY <1>2 DEF Added
<1> DEFINE T == {s \in SUBSET Operations : Sums(f)[s] \in Nat}
<1>4. {} \in T
  BY <1>3
<1>5. \A s \in SUBSET Operations : s # {} /\ Rest(s) \in T => s \in T
  BY <1>3, RestFacts
<1>6. \A s \in SUBSET Operations : s \in T
  <2> HIDE DEF T
  <2>1. T \in SUBSET (SUBSET Operations)
    BY DEF T
  <2> QED BY <1>4, <1>5, <2>1, SetInduction
<1> QED BY <1>3, <1>6

LEMMA SumOfNothing ==
    ASSUME NEW f \in [Operations -> Nat], \A o \in Operations : f[o] = 0
    PROVE  Sum(f) = 0
<1> DEFINE T == {s \in SUBSET Operations : Sums(f)[s] = 0}
<1>4. {} \in T
  BY SumsFacts
<1>5. \A s \in SUBSET Operations : s # {} /\ Rest(s) \in T => s \in T
  BY SumsFacts, RestFacts
<1>6. \A s \in SUBSET Operations : s \in T
  <2> HIDE DEF T
  <2>1. T \in SUBSET (SUBSET Operations)
    BY DEF T
  <2> QED BY <1>4, <1>5, <2>1, SetInduction
<1> QED BY <1>6 DEF Sum

LEMMA SumGrows ==
    ASSUME NEW f \in [Operations -> Nat], NEW g \in [Operations -> Nat],
           NEW o \in Operations, NEW d \in Nat, g[o] = f[o] + d,
           \A p \in Operations \ {o} : g[p] = f[p]
    PROVE  Sum(g) = Sum(f) + d /\ Sum(f) \in Nat
<1> DEFINE T == {s \in SUBSET Operations :
                    Sums(g)[s] = Sums(f)[s] + (IF o \in s THEN d ELSE 0)}
<1>1. Sums(f)[{}] = 0 /\ Sums(g)[{}] = 0
  BY SumsFacts
<1>4. {} \in T
  BY <1>1
<1>5. ASSUME NEW s \in SUBSET Operations, s # {}, Rest(s) \in T PROVE s \in T
  <2>1. /\ Sums(f)[s] = f[First(s)] + Sums(f)[Rest(s)]
        /\ Sums(g)[s] = g[First(s)] + Sums(g)[Rest(s)]
        /\ First(s) \in Operations /\ Rest(s) \in SUBSET Operations
    BY <1>5, SumsFacts, RestFacts
  <2>2. Sums(f)[Rest(s)] \in Nat /\ f[First(s)] \in Nat
    BY <2>1, SumsFacts
  <2>3. Sums(g)[Rest(s)] = Sums(f)[Rest(s)] + (IF o \in Rest(s) THEN d ELSE 0)
    BY <1>5
  <2>4. CASE First(s) = o
    <3>1. o \in s /\ o \notin Rest(s)
      BY <2>4, <1>5, RestFacts DEF Rest
    <3> QED BY <2>1, <2>2, <2>3, <2>4, <3>1
  <2>5. CASE First(s) # o
    <3>1. o \in s <=> o \in Rest(s)
      BY <2>5 DEF Rest
    <3>2. g[First(s)] = f[First(s)]
      BY <2>1, <2>5
    <3> QED BY <2>1, <2>2, <2>3, <3>1, <3>2
  <2> QED BY <2>4, <2>5
<1>6. \A s \in SUBSET Operations : s \in T
  <2> HIDE DEF T
  <2>1. T \in SUBSET (SUBSET Operations)
    BY DEF T
  <2> QED BY <1>4, <1>5, <2>1, SetInduction
<1>7. Sums(g)[Operations] = Sums(f)[Operations] + d /\ Sums(f)[Operations] \in Nat
  BY <1>6, SumsFacts
<1> QED BY <1>7 DEF Sum

\* What is billed so far is a number for every operation.
LEMMA BilledTypes ==
    AccountType =>
        BilledTokens \in [Operations -> Nat] /\ BilledCalls \in [Operations -> Nat]
<1> SUFFICES ASSUME AccountType
    PROVE  BilledTokens \in [Operations -> Nat] /\ BilledCalls \in [Operations -> Nat]
  OBVIOUS
<1>1. \A o \in Operations : receipts[o] # None => receipts[o].tokens \in Nat
  BY ReceiptsAssumption DEF AccountType, Receipt
<1>2. \A o \in Operations :
         charges[o] # None => charges[o].tokens \in Nat /\ charges[o].calls \in Nat
  BY ChargesAssumption DEF AccountType, Usage
<1> QED BY <1>1, <1>2 DEF BilledTokens, BilledCalls

\* UsageExact, with its sums as values of Sums.
UsageSums ==
    /\ usage.tokens = Sum(BilledTokens)
    /\ usage.calls = Cardinality(reserved) + Sum(BilledCalls)

LEMMA UsageIsSums == UsageExact <=> UsageSums
BY TotalIsSum DEF UsageExact, UsageSums

LEMMA UsageStart == Init => UsageSums
<1> SUFFICES ASSUME Init PROVE UsageSums
  OBVIOUS
<1>1. /\ usage = [calls |-> 0, tokens |-> 0] /\ reserved = {}
      /\ \A o \in Operations : receipts[o] = None /\ charges[o] = None
  BY DEF Init
<1>2. /\ BilledTokens \in [Operations -> Nat] /\ BilledCalls \in [Operations -> Nat]
      /\ \A o \in Operations : BilledTokens[o] = 0 /\ BilledCalls[o] = 0
  BY <1>1 DEF BilledTokens, BilledCalls
<1>3. Sum(BilledTokens) = 0 /\ Sum(BilledCalls) = 0
  BY <1>2, SumOfNothing
<1>4. Cardinality(reserved) = 0
  BY <1>1, FS_EmptySet
<1> QED BY <1>1, <1>3, <1>4 DEF UsageSums

LEMMA UsageKept ==
    ASSUME UsageSums, UNCHANGED accountVars PROVE UsageSums'
BY DEF UsageSums, BilledTokens, BilledCalls, accountVars

LEMMA UsageReserved ==
    ASSUME TypeInv, UsageSums, NEW o \in Operations, reserve_model_call(o)
    PROVE  UsageSums'
<1>1. /\ o \notin reserved /\ reserved' = reserved \cup {o}
      /\ usage' = [usage EXCEPT !.calls = @ + 1] /\ UNCHANGED <<receipts, charges>>
  BY DEF reserve_model_call
<1>2. AccountType
  BY DEF TypeInv, TypeOK
<1>3. usage'.calls = usage.calls + 1 /\ usage'.tokens = usage.tokens
  BY <1>1, <1>2 DEF AccountType, Usage
<1>4. IsFiniteSet(reserved)
  BY <1>2, OperationsAssumption, FS_Subset DEF AccountType
<1>5. Cardinality(reserved') = Cardinality(reserved) + 1 /\ Cardinality(reserved) \in Nat
  BY <1>1, <1>4, FS_AddElement, FS_CardinalityType
<1>6. BilledTokens' = BilledTokens /\ BilledCalls' = BilledCalls
  BY <1>1 DEF BilledTokens, BilledCalls
<1>7. Sum(BilledCalls) \in Nat
  BY <1>2, BilledTypes, SumsFacts DEF Sum
<1>8. /\ Sum(BilledTokens') = Sum(BilledTokens)
      /\ Sum(BilledCalls') = Sum(BilledCalls)
  BY <1>6, Zenon
<1> QED BY <1>3, <1>5, <1>7, <1>8 DEF UsageSums

\* A receipt adds what its attempt cost beyond what an earlier one said: an
\* earlier one that knew no cost said 0, one that knew it is not contradicted.
LEMMA UsageRecorded ==
    ASSUME TypeInv, TypeInv', UsageSums, NEW o \in Operations, NEW r \in Receipts,
           record_model_call(o, r)
    PROVE  UsageSums'
<1> DEFINE previous == IF receipts[o] = None THEN 0 ELSE receipts[o].tokens
           added == IF r.tokens > previous THEN r.tokens - previous ELSE 0
<1>1. /\ receipts[o] # None => Refines(receipts[o], r)
      /\ usage' = [usage EXCEPT !.tokens = @ + added]
      /\ receipts' = [receipts EXCEPT ![o] = r] /\ UNCHANGED <<charges, reserved>>
  BY DEF record_model_call, LateAccounting
<1>2. AccountType /\ AccountType'
  BY DEF TypeInv, TypeOK
<1>3. /\ r.tokens \in Nat /\ previous \in Nat
      /\ receipts[o] # None /\ ~receipts[o].billed => receipts[o].tokens = 0
  BY <1>2, ReceiptsAssumption DEF Receipt, AccountType
<1>4. r.tokens >= previous
  <2>1. CASE receipts[o] = None
    BY <1>3, <2>1
  <2>2. CASE receipts[o] # None /\ receipts[o].billed
    <3>1. r.tokens = receipts[o].tokens
      BY <1>1, <2>2, Zenon DEF Refines
    <3> QED BY <1>3, <2>2, <3>1
  <2>3. CASE receipts[o] # None /\ ~receipts[o].billed
    BY <1>3, <2>3
  <2> QED BY <2>1, <2>2, <2>3
<1>5. added \in Nat /\ r.tokens = previous + added
  BY <1>3, <1>4
<1> HIDE DEF added
<1>6. usage'.tokens = usage.tokens + added /\ usage'.calls = usage.calls
  BY <1>1, <1>2 DEF AccountType, Usage
<1>7. receipts'[o] = r /\ \A q \in Operations \ {o} : receipts'[q] = receipts[q]
  BY <1>1, <1>2 DEF AccountType
<1>8. BilledCalls' = BilledCalls
  BY <1>1 DEF BilledCalls
<1> DEFINE f == BilledTokens
           g == BilledTokens'
           c == IF charges[o] = None THEN 0 ELSE charges[o].tokens
<1>9. f \in [Operations -> Nat] /\ g \in [Operations -> Nat]
  <2>1. (AccountType =>
           BilledTokens \in [Operations -> Nat] /\ BilledCalls \in [Operations -> Nat])'
    BY BilledTypes, PTL
  <2> QED BY <1>2, <2>1, BilledTypes
<1>10. c \in Nat
  BY <1>2, ChargesAssumption DEF AccountType, Usage
<1>11. f[o] = previous + c /\ g[o] = r.tokens + c
  <2>1. r # None
    BY NoneAssumption
  <2> QED BY <1>1, <1>7, <2>1 DEF BilledTokens
<1>12. \A q \in Operations \ {o} : g[q] = f[q]
  BY <1>1, <1>7 DEF BilledTokens
<1> HIDE DEF f, g, c, previous
<1>13. g[o] = f[o] + added
  BY <1>3, <1>5, <1>10, <1>11
<1>14. Sum(g) = Sum(f) + added
  BY <1>5, <1>9, <1>12, <1>13, SumGrows
<1>15. UsageSums' <=> /\ usage'.tokens = Sum(g)
                       /\ usage'.calls = Cardinality(reserved') + Sum(BilledCalls')
  BY DEF UsageSums, g
<1> QED BY <1>1, <1>6, <1>8, <1>14, <1>15 DEF UsageSums, f

LEMMA UsageCharged ==
    ASSUME TypeInv, TypeInv', UsageSums, NEW o \in Operations, NEW u \in Charges,
           charge_usage(o, u)
    PROVE  UsageSums'
<1>1. /\ charges[o] = None /\ charges' = [charges EXCEPT ![o] = u]
      /\ usage' = [calls |-> usage.calls + u.calls, tokens |-> usage.tokens + u.tokens]
      /\ UNCHANGED <<receipts, reserved>>
  BY DEF charge_usage, LateAccounting
<1>2. AccountType /\ AccountType'
  BY DEF TypeInv, TypeOK
<1>3. u.calls \in Nat /\ u.tokens \in Nat /\ u # None
  BY ChargesAssumption, NoneAssumption DEF Usage
<1>4. charges'[o] = u /\ \A q \in Operations \ {o} : charges'[q] = charges[q]
  BY <1>1, <1>2 DEF AccountType
<1> DEFINE f == BilledTokens
           g == BilledTokens'
           h == BilledCalls
           k == BilledCalls'
           c == IF receipts[o] = None THEN 0 ELSE receipts[o].tokens
<1>5. /\ f \in [Operations -> Nat] /\ g \in [Operations -> Nat]
      /\ h \in [Operations -> Nat] /\ k \in [Operations -> Nat]
  <2>1. (AccountType =>
           BilledTokens \in [Operations -> Nat] /\ BilledCalls \in [Operations -> Nat])'
    BY BilledTypes, PTL
  <2> QED BY <1>2, <2>1, BilledTypes
<1>6. c \in Nat
  BY <1>2, ReceiptsAssumption DEF AccountType, Receipt
<1>7. f[o] = c + 0 /\ g[o] = c + u.tokens /\ h[o] = 0 /\ k[o] = u.calls
  BY <1>1, <1>3, <1>4 DEF BilledTokens, BilledCalls
<1>8. \A q \in Operations \ {o} : g[q] = f[q] /\ k[q] = h[q]
  BY <1>1, <1>4 DEF BilledTokens, BilledCalls
<1> HIDE DEF f, g, h, k, c
<1>9. g[o] = f[o] + u.tokens /\ k[o] = h[o] + u.calls
  BY <1>3, <1>6, <1>7
<1>10. Sum(g) = Sum(f) + u.tokens
  BY <1>3, <1>5, <1>8, <1>9, SumGrows
<1>11. Sum(k) = Sum(h) + u.calls /\ Sum(h) \in Nat
  BY <1>3, <1>5, <1>8, <1>9, SumGrows
<1>12. UsageSums' <=> /\ usage'.tokens = Sum(g)
                       /\ usage'.calls = Cardinality(reserved') + Sum(k)
  BY DEF UsageSums, g, k
<1>13. Cardinality(reserved) \in Nat
  BY <1>2, OperationsAssumption, FS_Subset, FS_CardinalityType DEF AccountType
<1>14. usage.tokens = Sum(f) /\ usage.calls = Cardinality(reserved) + Sum(h)
  BY DEF UsageSums, f, h
<1>15. usage'.tokens = usage.tokens + u.tokens /\ usage'.calls = usage.calls + u.calls
  BY <1>1
<1> QED BY <1>1, <1>3, <1>10, <1>11, <1>12, <1>13, <1>14, <1>15

LEMMA UsageStep ==
    ASSUME TypeInv, TypeInv', UsageSums, [Next]_vars PROVE UsageSums'
<1>1. ContractStep \/ DirectiveStep => UNCHANGED accountVars
  BY DEF ContractStep, admit_contract, amend_contract, accept_additive_contract,
     DirectiveStep, receive_directive, replace_directive, continue_submission
<1>2. SourceStep => UNCHANGED accountVars
  BY DEF SourceStep, establish_workspace, establish_baseline, select_candidate,
     invalidate_candidate, workspace_restored
<1>3. JobStep => UNCHANGED accountVars
  BY DEF JobStep, begin_check, finish_check, start_job, start_execution_job,
     settle_job, fence_job, begin_shell
<1>4. ShellStep \/ RecordStep => UNCHANGED accountVars
  BY DEF ShellStep, finish_shell, RecordStep, record_effect, record_finding
<1>5. EndStep => UNCHANGED accountVars
  BY DEF EndStep, record_delivery, complete, request_cancellation, audit_evidence,
     resume_task, reopen, Reopened, recover_interrupted, elapse, stop
<1>6. UNCHANGED vars => UNCHANGED accountVars
  BY DEF vars
<1>7. AccountStep => UsageSums'
  BY UsageReserved, UsageRecorded, UsageCharged DEF AccountStep
<1> QED BY <1>1, <1>2, <1>3, <1>4, <1>5, <1>6, <1>7, UsageKept DEF Next

\* The usage a task is held to is the sum of what its receipts and charges say,
\* in every state: no order in which reservations are made, receipts arrive, are
\* refined or repeated, and side charges are booked makes account_usage count
\* a cost twice or miss it.
THEOREM UsageIsExact == Spec => []UsageExact
<1>1. TypeInv /\ TypeInv' /\ UsageSums /\ [Next]_vars => UsageSums'
  BY UsageStep
<1> QED BY <1>1, UsageStart, UsageIsSums, TypeInvariant, PTL DEF Spec

=============================================================================

------------------------------- MODULE MCTask -------------------------------
(* Small instances of Task for TLC. *)
EXTENDS Task, TLC

CONSTANTS c1, j1, j2, s1, s2, r1, r2, e1, f1, o1, o2

Def == [noNewFailure |-> FALSE, control |-> "none", controlSource |-> None,
        attempts |-> 0]
Lim(t, c, j) == [tokens |-> t, calls |-> c, jobs |-> j]
Con(def, lim) == [checks |-> (c1 :> def), delivery |-> "patch", open |-> FALSE,
                  limits |-> lim]
Obs(status) ==
    [status |-> status, limited |-> FALSE, unreconciled |-> FALSE,
     unchanged |-> FALSE, exercised |-> TRUE, control |-> "none",
     controlSource |-> None]
Rec(status, billed, tokens) ==
    [status |-> status, billed |-> billed, tokens |-> tokens]

MCLimits == Lim(2, 2, 2)
OneContract == {Con(Def, MCLimits)}

\* Any failure rejects; a retry is allowed; the baseline must fail.
TwoContracts == {Con(Def, MCLimits), Con([Def EXCEPT !.attempts = 2], MCLimits)}
PassOnly == {Obs("passed")}
PassFail == {Obs("passed"), Obs("failed")}
EvidenceObservations == PassFail \cup
    {[Obs("passed") EXCEPT !.unreconciled = TRUE],
     [Obs("passed") EXCEPT !.limited = TRUE]}
ControlContracts ==
    {Con([Def EXCEPT !.control = "baseline", !.noNewFailure = TRUE], MCLimits)}
ControlObservations ==
    {[Obs(st) EXCEPT !.control = "baseline", !.controlSource = s, !.unchanged = TRUE]
        : st \in {"passed", "failed"}, s \in {s1}}
ControlsContracts == OneContract \cup ControlContracts
ControlsObservations == PassOnly \cup ControlObservations

BillingContracts == {Con(Def, MCLimits), Con(Def, Lim(1, 1, 1))}
AccountsContracts == TwoContracts \cup BillingContracts
BillingReceipts == {Rec("unknown", FALSE, 0), Rec("completed", FALSE, 0),
                    Rec("unknown", TRUE, 1), Rec("completed", TRUE, 1),
                    Rec("failed", TRUE, 2)}
BillingCharges == {[calls |-> 1, tokens |-> 0], [calls |-> 0, tokens |-> 1]}

MCStop == {"failed"}
Jobs == Permutations(JobIds)

(* State constraints: each run explores one side of the aggregate in depth.  *)
Kinds(ks) == \A j \in JobIds : jobs[j].kind \in ks \cup {"none"}
Statuses(ss) == \A j \in JobIds : jobs[j].status \in ss \cup {"absent"}
Undisturbed == ~expired /\ ~cancelRequested

\* Checks, directives, restarts and reopenings; no other job, no baseline,
\* no spending.
EvidenceRun == /\ Kinds({"check"})
               /\ Statuses({"running", "succeeded", "unknown", "failed"})
               /\ Undisturbed /\ baseline = None
               /\ \A j \in JobIds : ~jobs[j].receipt
               /\ reserved = {} /\ \A o \in Operations : charges[o] = None
               /\ contract \in TwoContracts \cup {None}
\* Agent writers, user shells and checks on one candidate after another.
WriterRun == /\ Kinds({"check", "execution", "shell"})
             /\ Statuses({"running", "succeeded", "unknown"})
             /\ Undisturbed /\ baseline = None
             /\ \A j \in JobIds : jobs[j].receipt = (jobs[j].kind # "check" /\
                                     jobs[j].status \notin {"absent", "running"})
\* Every other operation on one job, an effect or a finding, and one source,
\* under a contract with a baseline control.
ReconcileRun == /\ contract \in ControlContracts \cup {None}
                /\ scope = 0 /\ shell = None
                /\ Cardinality({j \in JobIds : jobs[j].status # "absent"}) <= 1
                /\ Kinds({"check", "plain", "execution"})
                /\ \A e \in EffectIds, f \in FindingIds :
                      effects[e] = "absent" \/ findings[f] = "absent"
                /\ baseline \in {None, s1}
                /\ candidate # None => candidate.source = s1
ControlsRun ==
    \/ WriterRun /\ contract \in OneContract \cup {None}
       /\ \A f \in FindingIds : findings[f] = "absent"
    \/ ReconcileRun

\* One check, plainly passed; provider attempts and charges all along.
BillingRun == /\ Kinds({"check"}) /\ Statuses({"running", "succeeded"})
              /\ ~expired /\ baseline = None
              /\ candidate # None => candidate.frozen
              /\ leases = {j \in JobIds : jobs[j].status = "running"}
              /\ Cardinality({j \in JobIds : jobs[j].status # "absent"}) <= 1
              /\ candidate # None => candidate.source = s1
              /\ scope = 0
              /\ contract \in BillingContracts \cup {None}
AccountsRun == EvidenceRun \/ BillingRun
=============================================================================

----------------------------- MODULE Acceptance -----------------------------
(***************************************************************************)
(* What a task must satisfy and how it is found out: the compilation of a  *)
(* proposal into the contract, first and amended (admission.rs,            *)
(* contract.rs), and the verification of one check on a frozen candidate   *)
(* (verification.rs).                                                      *)
(*                                                                         *)
(* Abstractions.  A requirement or check of a proposal is a member of a    *)
(* small pool; `ver` stands for its wording.  A probe passes or not on     *)
(* given contents: `truth` is what it would show on a healthy executor.    *)
(* A directory that is changed while probes run is not changed back.       *)
(***************************************************************************)
EXTENDS Integers, Sequences, FiniteSets, SequencesExt

CONSTANTS
    MaxAmendments,   \* bound on the amendments of a contract
    MaxProposed,     \* bound on the requirements and the checks of a proposal
    MaxDisturbances  \* bound on what happens to a verification from outside

ASSUME AcceptanceAssumption ==
    MaxAmendments \in Nat /\ MaxProposed \in Nat /\ MaxDisturbances \in Nat

VARIABLES
    theme,      \* what this behaviour is about: "contract" or "check"
    accepted_contract,   \* the accepted contract, or NoContract
    directives, \* user inputs since the request: what a requirement may quote
    amended,    \* how many proposals were accepted
    refusal,    \* why the last proposal was refused
    check,      \* the verification of a check
    truth,      \* <<probe, contents>> that pass
    reason      \* the control fails the way the program says it should

aVars == <<theme, accepted_contract, directives, amended, refusal, check, truth, reason>>

(***************************************************************************)
(* Contracts.                                                              *)
(***************************************************************************)
\* A requirement: identity, wording, where it comes from, checks and
\* dependencies.  "later" quotes an input the user has not sent yet.
Requirement(i, v, o, c, d) == [id |-> i, ver |-> v, origin |-> o, checks |-> c, deps |-> d]

ReqPool == { Requirement("r1", 1, "user", {"c1"}, {}),
             Requirement("r1", 2, "user", {"c1"}, {"r2", "profile-p"}),
             Requirement("r2", 1, "inferred", {"c2"}, {"r1"}),
             Requirement("r2", 2, "later", {"c2", "c1"}, {}),
             Requirement("r3", 1, "file", {}, {"r2"}),
             Requirement("profile-p", 2, "file", {"c1"}, {}),
             Requirement("r4", 1, "inferred", {"c1"}, {"r4"}) }

\* A check: identity, wording, whether it is only a build or static check,
\* whether it is controlled by the baseline, the reason when it is not.
Check(i, v, s, b, w) == [id |-> i, ver |-> v, static |-> s, baseline |-> b, why |-> w]

CheckPool == { Check("c1", 1, FALSE, TRUE, "none"), Check("c1", 2, FALSE, FALSE, "o1"),
               Check("c2", 1, TRUE, FALSE, "o2"), Check("c2", 2, FALSE, FALSE, "none"),
               Check("profile-q", 1, FALSE, FALSE, "o2") }

\* The operator's profile has one check.
ProfileChecks == { Check("profile-p", 1, TRUE, FALSE, "op") }
ProfileRequirements == { Requirement("profile-p", 1, "profile", {"profile-p"}, {}) }

NoContract == [reqs |-> {}, checks |-> {}, assumptions |-> {}, protected |-> {}, wordings |-> <<>>]

CheckIds(S) == {x.id : x \in S}
UniqueIds(S) == \A x, y \in S : x.id = y.id => x = y

\* RequestPolicy::validate, RepositoryProfile::validate, validate_check: the
\* reason for omitting a control is visible.
validate_check(c) == c.baseline = (c.why = "none")

\* Origins: a user requirement quotes the request or a later input, a
\* repository one names a file of the baseline.
OriginKnown(r) == r.origin # "later" \/ directives > 0

Ripe(reqs, visited) == {r.id : r \in {q \in reqs : q.deps \subseteq visited}}
Visited(reqs) ==
    LET pass[n \in 0..Cardinality(reqs)] ==
          IF n = 0 THEN {} ELSE pass[n - 1] \cup Ripe(reqs, pass[n - 1])
    IN  pass[Cardinality(reqs)]

\* Contract::validate
validate(c) ==
    /\ c.reqs # {} /\ UniqueIds(c.reqs)
    /\ \A r \in c.reqs : /\ r.checks # {} /\ r.checks \subseteq CheckIds(c.checks)
                         /\ r.deps \subseteq CheckIds(c.reqs)
    /\ Visited(c.reqs) = CheckIds(c.reqs)
    /\ \A k \in c.checks : \E r \in c.reqs : k.id \in r.checks

\* definition: an omitted control is disclosed as an assumption.
Omissions(checks) == {<<k.id, k.why>> : k \in {x \in checks : ~x.baseline}}

\* The part of compile that looks only at the proposal.
Proposable(reqs, checks) ==
    /\ \A r \in reqs : OriginKnown(r)
    /\ \E k \in checks : ~k.static
    /\ \A k \in checks : k.id # "profile-q" /\ validate_check(k)

CompiledContract(reqs, checks, behaviour, wording) ==
    [reqs |-> reqs \cup ProfileRequirements, checks |-> checks \cup ProfileChecks,
     assumptions |-> Omissions(checks \cup ProfileChecks), protected |-> {behaviour},
     wordings |-> <<wording>>]

\* An amendment may repeat an accepted requirement or check, not rewrite it.
Rewrites(old, new) ==
    \/ \E r \in old.reqs, q \in new.reqs : r.id = q.id /\ r # q
    \/ \E k \in old.checks, l \in new.checks : k.id = l.id /\ k # l

Amended(old, new) ==
    [reqs |-> new.reqs \cup old.reqs, checks |-> new.checks \cup old.checks,
     assumptions |-> new.assumptions \cup old.assumptions,
     protected |-> new.protected \cup old.protected,
     wordings |-> IF new.wordings = old.wordings THEN new.wordings ELSE old.wordings \o new.wordings]

preserves_obligations(old, new) ==
    /\ IsPrefix(old.wordings, new.wordings)
    /\ old.reqs \subseteq new.reqs /\ old.checks \subseteq new.checks
    /\ old.protected \subseteq new.protected /\ old.assumptions \subseteq new.assumptions

\* compile, with the errors in the order of the code.
RefusedContract(old, new, merged) ==
    IF old # NoContract /\ Rewrites(old, new) THEN "rewrites"
    ELSE IF old # NoContract /\ ~preserves_obligations(old, merged) THEN "obligations"
    ELSE IF ~validate(merged) THEN "invalid"
    ELSE "none"

CheckVars == UNCHANGED <<theme, check, truth, reason>>

compile(reqs, checks, behaviour, wording) ==
    /\ amended <= MaxAmendments
    /\ amended > 0 => directives >= amended    \* amendment_pending
    /\ \E new \in {CompiledContract(reqs, checks, behaviour, wording)} :
       \E merged \in {IF accepted_contract = NoContract THEN new ELSE Amended(accepted_contract, new)} :
       \E refused \in {IF ~Proposable(reqs, checks) THEN "proposal"
                       ELSE RefusedContract(accepted_contract, new, merged)} :
          /\ refusal' = refused
          /\ IF refused = "none" THEN accepted_contract' = merged /\ amended' = amended + 1
             ELSE UNCHANGED <<accepted_contract, amended>>
    /\ UNCHANGED directives /\ CheckVars

\* A follow-up of the user: its text may be quoted from now on.
Directive ==
    /\ theme = "contract" /\ directives < MaxAmendments
    /\ directives' = directives + 1
    /\ UNCHANGED <<accepted_contract, amended, refusal>> /\ CheckVars

(***************************************************************************)
(* Verification.                                                           *)
(***************************************************************************)
Probes == <<"p1", "p2">>
TreeContents == {"candidate", "baseline"}
NamedProbe == "p1"        \* the probe of control_failure

IdleCheck == [pc |-> "idle", control |-> FALSE, candidateAt |-> "candidate", controlAt |-> "baseline",
              environment |-> TRUE, cancelled |-> FALSE, noticed |-> FALSE, probes |-> <<>>,
              controls |-> <<>>, source |-> FALSE, limitations |-> {}, status |-> "none",
              unreconciled |-> {}]

ContractVars == UNCHANGED <<theme, accepted_contract, directives, amended, refusal, truth, reason>>
StepAt(pc) == theme = "check" /\ check.pc = pc
Limited(c, why) == [c EXCEPT !.limitations = @ \cup {why}]

\* prepare: the frozen candidate, the baseline when the check is controlled,
\* a program that says how the control fails; the lease of begin_check.
prepare ==
    /\ StepAt("idle")
    /\ \E control, environment \in BOOLEAN :
          check' = [IdleCheck EXCEPT !.pc = "start", !.control = control, !.environment = environment]
    /\ ContractVars

Disturbances == Cardinality({x \in {"candidate", "control", "cancel"} :
                      \/ x = "candidate" /\ check.candidateAt = "changed"
                      \/ x = "control" /\ check.controlAt = "changed"
                      \/ x = "cancel" /\ check.cancelled})

\* Something changes a directory, or the user cancels.
Disturb ==
    /\ theme = "check" /\ check.pc \in {"start", "probe", "control", "controls", "controlled", "last"}
    /\ Disturbances < MaxDisturbances
    /\ \/ check.candidateAt = "candidate" /\ check' = [check EXCEPT !.candidateAt = "changed"]
       \/ check.controlAt = "baseline" /\ check' = [check EXCEPT !.controlAt = "changed"]
       \/ ~check.cancelled /\ check' = [check EXCEPT !.cancelled = TRUE]
    /\ ContractVars

\* execute refuses another environment and a changed candidate.
execute ==
    /\ StepAt("start")
    /\ check' = IF ~check.environment THEN [Limited(check, "environment") EXCEPT !.pc = "finish"]
                ELSE IF check.candidateAt # "candidate"
                THEN [Limited(check, "candidate") EXCEPT !.pc = "finish"]
                ELSE [check EXCEPT !.pc = "probe"]
    /\ ContractVars

\* run_probe: a healthy run shows the truth about what it read; the executor
\* may also fail, or end with an unknown outcome.  What a failing executor
\* printed may or may not look like the expected failure.
ShownEvidence(probe, contents) ==
    IF contents \in TreeContents THEN {(<<probe, contents>> \in truth)} ELSE BOOLEAN

run_probe(probe, contents) ==
    [id : {probe}, passed : ShownEvidence(probe, contents), ok : {TRUE}, unknown : {FALSE}, looks : {reason}]
    \cup [id : {probe}, passed : {FALSE}, ok : {FALSE}, unknown : {FALSE}, looks : BOOLEAN]
    \cup [id : {probe}, passed : {FALSE}, ok : {FALSE}, unknown : {TRUE}, looks : {FALSE}]

\* One probe on the candidate; an exhausted deadline or a cancellation ends
\* the loop.
probe_candidate ==
    /\ StepAt("probe")
    /\ \E n \in {Len(check.probes) + 1} :
          IF n > Len(Probes)
          THEN check' = [check EXCEPT !.pc = IF check.control THEN "control" ELSE "last"]
          ELSE \/ /\ ~check.cancelled
                  /\ \E p \in run_probe(Probes[n], check.candidateAt) :
                        check' = [check EXCEPT !.probes = Append(@, p)]
               \/ check' = [Limited(check, "interrupted") EXCEPT !.noticed = check.cancelled,
                               !.pc = IF check.control THEN "control" ELSE "last"]
    /\ ContractVars

\* The control runs only on the unchanged baseline.
control_source ==
    /\ StepAt("control")
    /\ check' = IF check.controlAt = "baseline"
                THEN [check EXCEPT !.pc = "controls", !.source = TRUE]
                ELSE [Limited(check, "control unavailable") EXCEPT !.pc = "last"]
    /\ ContractVars

probe_control ==
    /\ StepAt("controls")
    /\ \E n \in {Len(check.controls) + 1} :
          IF n > Len(Probes) THEN check' = [check EXCEPT !.pc = "controlled"]
          ELSE \/ /\ ~check.cancelled
                  /\ \E p \in run_probe(Probes[n], check.controlAt) :
                        check' = [check EXCEPT !.controls = Append(@, p)]
               \/ check' = [Limited(check, "control interrupted") EXCEPT !.pc = "controlled"]
    /\ ContractVars

controlled ==
    /\ StepAt("controlled")
    /\ check' = [(IF check.controlAt # "baseline" THEN Limited(check, "control changed") ELSE check)
                 EXCEPT !.pc = "last"]
    /\ ContractVars

\* The candidate is compared once more and the cancellation read last.
matches_exact ==
    /\ StepAt("last")
    /\ check' = [(IF check.candidateAt # "candidate" THEN Limited(check, "candidate changed") ELSE check)
                 EXCEPT !.pc = "finish", !.noticed = @ \/ check.cancelled]
    /\ ContractVars

\* The named probe failed on the control, on a healthy executor, in the way
\* the program says.
control_matched_bug(c) == \E p \in ToSet(c.controls) : p.id = NamedProbe /\ ~p.passed /\ p.looks
control_matched(c) == \E p \in ToSet(c.controls) : p.id = NamedProbe /\ ~p.passed /\ p.ok /\ p.looks

\* finish
CheckVerdict(c) ==
    LET observed == Len(c.probes) = Len(Probes) /\ (\A p \in ToSet(c.probes) : p.ok) /\ c.limitations = {}
        passed == (\A p \in ToSet(c.probes) : p.passed) /\ (c.control => control_matched(c))
    IN  IF c.noticed THEN "cancelled" ELSE IF ~observed THEN "inconclusive"
        ELSE IF passed THEN "passed" ELSE "failed"

finish_check ==
    /\ StepAt("finish")
    /\ check' = [check EXCEPT !.pc = "done", !.status = CheckVerdict(check),
                    !.unreconciled = {p.id : p \in {q \in ToSet(check.probes \o check.controls) : q.unknown}}]
    /\ ContractVars

(***************************************************************************)
(* The specification.                                                      *)
(***************************************************************************)
AcceptanceInit ==
    /\ theme \in {"contract", "check"}
    /\ accepted_contract = NoContract /\ directives = 0 /\ amended = 0 /\ refusal = "none"
    /\ check = IdleCheck
    /\ IF theme = "check"
       THEN /\ truth \in {t \cup ({"p2"} \X TreeContents) : t \in SUBSET ({"p1"} \X TreeContents)}
            /\ reason \in BOOLEAN
       ELSE truth = {} /\ reason = FALSE

AcceptanceNext ==
    \/ /\ theme = "contract"
       /\ \E reqs \in SUBSET ReqPool, checks \in SUBSET CheckPool, b \in {"b1", "b2"} :
             /\ Cardinality(reqs) <= MaxProposed /\ Cardinality(checks) <= MaxProposed
             /\ compile(reqs, checks, b, b)
    \/ Directive
    \/ prepare \/ Disturb \/ execute \/ probe_candidate \/ control_source \/ probe_control
    \/ controlled \/ matches_exact \/ finish_check

AcceptanceTypeOK ==
    /\ accepted_contract.reqs \subseteq ReqPool \cup ProfileRequirements
    /\ accepted_contract.checks \subseteq CheckPool \cup ProfileChecks
    /\ check.status \in {"none", "cancelled", "inconclusive", "passed", "failed"}

\* Reference: from no requirement does a chain of dependencies lead back to
\* it.
Acyclic(reqs) ==
    LET edge == {<<r.id, d>> : r \in reqs, d \in CheckIds(reqs)} \cap
                UNION {{<<r.id, d>> : d \in r.deps} : r \in reqs}
        reach[n \in 0..Cardinality(reqs)] ==
           IF n = 0 THEN edge
           ELSE reach[n - 1] \cup {e \in CheckIds(reqs) \X CheckIds(reqs) :
                                    \E z \in CheckIds(reqs) : <<e[1], z>> \in reach[n - 1] /\ <<z, e[2]>> \in edge}
    IN  \A i \in CheckIds(reqs) : <<i, i>> \notin reach[Cardinality(reqs)]

\* Whatever is proposed and amended, an accepted contract can be worked
\* through: its dependencies have an order (Contract::validate finds every
\* cycle), each requirement has its checks and each check its requirement,
\* and the operator's profile is in it as written.
ContractSound ==
    accepted_contract # NoContract =>
       /\ Acyclic(accepted_contract.reqs) /\ UniqueIds(accepted_contract.reqs)
       /\ UNION {r.checks : r \in accepted_contract.reqs} = CheckIds(accepted_contract.checks)
       /\ ProfileRequirements \subseteq accepted_contract.reqs /\ ProfileChecks \subseteq accepted_contract.checks

\* Merging a follow-up into the accepted contract never loses an obligation,
\* a disclosed assumption or a protected behaviour: an amendment that
\* rewrites nothing is never refused by preserves_obligations.
AmendmentsPreserve == refusal # "obligations"

\* A check passes only if every probe passes on the frozen bytes and the
\* control fails as intended, and fails only if a probe rejects those bytes
\* or the control did not show the intended failure; an executor failure, a
\* directory changed meanwhile, a deadline or a cancellation never turn into
\* a pass.
VerdictSound ==
    /\ check.status = "passed" =>
          /\ \A p \in ToSet(Probes) : <<p, "candidate">> \in truth
          /\ check.control => <<NamedProbe, "baseline">> \notin truth /\ reason
          /\ check.environment /\ check.unreconciled \subseteq (IF check.control THEN ToSet(Probes) ELSE {})
    /\ check.status = "failed" =>
          \/ \E p \in ToSet(Probes) : <<p, "candidate">> \notin truth
          \/ check.control /\ ~control_matched(check)

=============================================================================

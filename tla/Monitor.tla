------------------------------ MODULE Monitor ------------------------------
(***************************************************************************)
(* The behaviour monitor (crates/harness/src/monitor.rs,                   *)
(* monitor/evaluation.rs, controller/monitor.rs, store/monitor.rs).        *)
(*                                                                         *)
(* A release fixes how many bytes a native read may answer; a session      *)
(* keeps the release that was active when it was admitted.  Once a second  *)
(* the monitor reads a page of the journal, counts outcomes per cohort and *)
(* signature, and diagnoses a read that a smaller release cut short.  It   *)
(* then evaluates the parent's capacity and activates it.  Operators       *)
(* install and roll back releases, and the host may crash at any step and  *)
(* come back as another build.                                             *)
(***************************************************************************)
EXTENDS Naturals, FiniteSets, Sequences, SequencesExt, FiniteSetsExt, TLC

CONSTANTS Baseline,     \* bytes of the compiled release
          Sizes,        \* bytes an operator may install
          Heldout,      \* bytes the largest held-out case needs
          Sessions,     \* sessions the monitor watches
          PageSize,     \* journal records of one page
          MaxJournal,   \* journal records
          MaxReleases,  \* activations
          MaxInstalls,  \* installs by operators
          MonitorCrashes

ASSUME MonitorAssumption ==
    /\ Baseline \in Nat /\ Sizes \subseteq 0 .. Baseline
    /\ Heldout \in Nat /\ PageSize \in Nat \ {0} /\ MaxJournal \in Nat
    /\ MaxReleases \in Nat /\ MaxInstalls \in Nat /\ MonitorCrashes \in Nat

VARIABLES journalled,    \* the journal, as far as the monitor reads it
          pinned,     \* session |-> the release it was admitted with
          cursor,     \* status: records read
          sampling,   \* status: [every, considered, selected, skipped]
          active,     \* status: the release in force
          previous,   \* status: the one before it, <<>> when there is none
          facts,      \* <<operation, signature>> |-> its contribution
          measures,   \* <<cohort, signature>> |-> the sums
          episodes,   \* regressed release |-> the episode
          activations,\* every activation, in order
          build,      \* the build of the running host
          tick,       \* where the running tick stands
          monitorDown \* crashes so far

monitorVars == <<journalled, pinned, cursor, sampling, active, previous, facts,
                 measures, episodes, activations, build, tick, monitorDown>>

----------------------------------------------------------------------------
(* Releases, records and what they contribute.                             *)

\* A release is known by its content: its parent, its bytes and who wrote it.
Compiled == <<[bytes |-> Baseline, by |-> "compiled"]>>
Install(parent, n, who) == Append(parent, [bytes |-> n, by |-> who])
Parent(r) == Front(r)
Capacity(r) == Last(r).bytes

Operations == {1, 2}
Unpinned == <<>>

\* Journal records: a job of a session that starts, settles or is fenced, a
\* model call that is reserved, recorded and priced, a check that is observed.
JournalRecord(s, o, b, kind, status, n) ==
    [session |-> s, op |-> o, build |-> b, kind |-> kind, status |-> status,
     wanted |-> n]

Value(opp, fail, meas) == [opportunities |-> opp, failures |-> fail, measured |-> meas]
One(b) == IF b THEN 1 ELSE 0

\* What one record says of its operation, per signature.
Contribution(r) ==
    CASE r.kind \in {"started", "fenced"} ->
            LET m == One(r.kind = "fenced")
            IN "JobOutcome" :> Value(1, 0, m) @@ "UnresolvedJob" :> Value(1, 0, m)
      [] r.kind = "settled" ->
            "JobOutcome" :> Value(1, One(r.status = "Failed"), One(r.status # "Unknown"))
            @@ "UnresolvedJob" :> Value(1, One(r.status = "Unknown"), 1)
      [] r.kind = "reserved" ->
            "ProviderError" :> Value(1, 0, 0) @@ "Cost" :> Value(1, 0, 0)
      [] r.kind = "recorded" ->
            "ProviderError" :> Value(1, One(r.status = "Failed"), One(r.status # "Unknown"))
      [] r.kind = "priced" -> "Cost" :> Value(1, 0, 1)

\* Reads: bytes asked for, and bytes they take in an answer once escaped.
Wanted == {<<2, 2>>, <<1, 2>>}

\* A read is underfilled when its answer held less than it asked for.
Reads(r) == r.kind = "settled" /\ r.status = "Succeeded"
Underfilled(r) == Reads(r) /\ r.wanted[2] > Capacity(pinned[r.session])

\* The build of a job's own invocation; a model call has none.
JobKinds == {"started", "settled", "fenced"}
CohortOf(r) == <<pinned[r.session], IF r.kind \in JobKinds THEN r.build ELSE 0>>

MonitorInit ==
    /\ journalled = <<>> /\ pinned = [s \in Sessions |-> Unpinned]
    /\ cursor = 0
    /\ sampling = [every |-> 1, considered |-> 0, selected |-> 0, skipped |-> 0]
    /\ active = Compiled /\ previous = <<>>
    /\ facts = <<>> /\ measures = <<>> /\ episodes = <<>>
    /\ activations = <<>> /\ build = 1
    /\ tick = [pc |-> "idle", of |-> <<>>] /\ monitorDown = 0

----------------------------------------------------------------------------
(* The tasks the monitor watches.  A tick looks at the journal and at the  *)
(* sessions only when it reads its page: what they do while it goes on is  *)
(* what they do just after it.                                             *)

\* A session is admitted with the release in force.
pin_read_behavior(s) ==
    /\ tick.pc = "idle" /\ pinned[s] = Unpinned
    /\ pinned' = [pinned EXCEPT ![s] = active]
    /\ UNCHANGED <<journalled, cursor, sampling, active, previous, facts, measures,
                   episodes, activations, build, tick, monitorDown>>

Last_(o) == LET i == {k \in DOMAIN journalled : journalled[k].op = o}
            IN IF i = {} THEN "none" ELSE journalled[Max(i)].kind
Status_(o) == journalled[Max({k \in DOMAIN journalled : journalled[k].op = o})].status

\* Operations are numbered as they begin.
Begun(o) == \A p \in Operations : p < o => Last_(p) # "none"

\* The next record of an operation: a job ends once, or is unknown and then
\* reconciled; a call is recorded and then priced.
Follows(o, s, kind, status) ==
    CASE kind = "started" -> Last_(o) = "none" /\ Begun(o)
      [] kind = "settled" ->
            \/ Last_(o) = "started"
            \/ Last_(o) = "settled" /\ Status_(o) = "Unknown" /\ status # "Unknown"
      [] kind = "fenced" ->
            \/ Last_(o) = "started"
            \/ Last_(o) = "settled" /\ Status_(o) = "Unknown"
      [] kind = "reserved" -> Last_(o) = "none" /\ Begun(o) /\ o # 1
      [] kind = "recorded" -> Last_(o) = "reserved"
      [] kind = "priced" -> Last_(o) = "recorded"

Owner(o, s) == \A i \in DOMAIN journalled : journalled[i].op = o => journalled[i].session = s
JobBuild(o) == LET i == {k \in DOMAIN journalled : journalled[k].op = o}
               IN IF i = {} THEN build ELSE journalled[Min(i)].build

append(o, s, kind, status, n) ==
    /\ tick.pc = "idle" /\ Len(journalled) < MaxJournal /\ pinned[s] # Unpinned
    /\ Owner(o, s) /\ Follows(o, s, kind, status)
    /\ journalled' = Append(journalled, JournalRecord(s, o, JobBuild(o), kind, status, n))
    /\ UNCHANGED <<pinned, cursor, sampling, active, previous, facts, measures,
                   episodes, activations, build, tick, monitorDown>>

----------------------------------------------------------------------------
(* A page of the journal.                                                  *)

\* A contribution replaces the operation's earlier one in the sums.
Minus(a, b) == Value(a.opportunities - b.opportunities, a.failures - b.failures,
                     a.measured - b.measured)
Plus(a, b) == Value(a.opportunities + b.opportunities, a.failures + b.failures,
                    a.measured + b.measured)

Prior(fs, key) == IF key \in DOMAIN fs THEN fs[key].value ELSE Value(0, 0, 0)
Sum(ms, key) == IF key \in DOMAIN ms THEN ms[key] ELSE Value(0, 0, 0)

monitor_commit(book, id, cohort, c) ==
    [facts |-> [f \in DOMAIN book.facts \cup {<<id, sig>> : sig \in DOMAIN c} |->
                   IF f[1] = id /\ f[2] \in DOMAIN c
                   THEN [cohort |-> cohort, value |-> c[f[2]]]
                   ELSE book.facts[f]],
     measures |-> [k \in DOMAIN book.measures \cup {<<cohort, sig>> : sig \in DOMAIN c} |->
                   IF k[1] = cohort /\ k[2] \in DOMAIN c
                   THEN Plus(Minus(Sum(book.measures, k), Prior(book.facts, <<id, k[2]>>)),
                             c[k[2]])
                   ELSE book.measures[k]]]

FactIdentity(r) == <<"operation", <<r.op>>>>

Count(book, r) == monitor_commit(book, FactIdentity(r), CohortOf(r), Contribution(r))

EpisodeId(r, n) == r

Waiting(e) == e.state \in {"Diagnosed", "Evaluating"}
monitor_pending(es) == {i \in DOMAIN es : Waiting(es[i])}

\* The release of the session is the one in force, and its parent's capacity
\* would have been enough.
diagnose(r, n, es) ==
    LET c == pinned[r.session]
    IN /\ r.build = build
       /\ c = active /\ Len(c) > 1
       /\ Capacity(c) < Capacity(Parent(c)) /\ r.wanted[1] <= Capacity(Parent(c))
       /\ EpisodeId(c, n) \notin DOMAIN es

Sampled(st) == (st.considered - 1) % st.every = 0

\* One record of a page, on the status, the sums and the new episodes.
inspect(page, n) ==
    LET r == journalled[n]
        counted == [page EXCEPT !.book = Count(@, r)]
        seen == [counted EXCEPT !.sampling.considered = @ + 1]
        picked == [seen EXCEPT !.sampling.selected = @ + 1]
    IN IF ~Underfilled(r) THEN counted
       ELSE IF ~Sampled(seen.sampling)
       THEN [seen EXCEPT !.sampling.skipped = @ + 1]
       ELSE IF ~diagnose(r, n, page.episodes) \/ monitor_pending(page.episodes) # {}
       THEN picked
       ELSE [picked EXCEPT !.episodes =
                (EpisodeId(pinned[r.session], n) :>
                    [regressed |-> pinned[r.session], build |-> r.build,
                     need |-> r.wanted[1], state |-> "Diagnosed", evaluations |-> 0]) @@ @]

FirstPage == [book |-> [facts |-> facts, measures |-> measures],
              sampling |-> sampling, episodes |-> episodes]
Upto == IF cursor + PageSize < Len(journalled) THEN cursor + PageSize ELSE Len(journalled)

\* The page is one transaction with the cursor.
read_page ==
    /\ tick.pc = "idle"
    /\ cursor < Len(journalled) \/ monitor_pending(episodes) # {}
    /\ \E page \in FoldLeft(LAMBDA ps, n : {inspect(p, n) : p \in ps},
                             {FirstPage}, [i \in 1 .. Upto - cursor |-> cursor + i]) :
          /\ facts' = page.book.facts /\ measures' = page.book.measures
          /\ sampling' = page.sampling /\ episodes' = page.episodes
    /\ cursor' = Upto
    /\ tick' = [tick EXCEPT !.pc = "pending"]
    /\ UNCHANGED <<journalled, pinned, active, previous, activations, build,
                   monitorDown>>

----------------------------------------------------------------------------
(* The pending episode.                                                    *)

EndTick == tick' = [pc |-> "idle", of |-> <<>>]
SetState(i, s) == episodes' = [episodes EXCEPT ![i].state = s]
tickOnly == UNCHANGED <<journalled, pinned, cursor, sampling, active, previous,
                        activations, build, monitorDown>>

\* The monitor's own evaluations are counted like everything else.
Evaluator(i, fail, meas) ==
    \E book \in {monitor_commit([facts |-> facts, measures |-> measures],
                                <<"episode", i>>,
                                <<episodes[i].regressed, episodes[i].build>>,
                                "EvaluatorFailure" :> Value(1, fail, meas))} :
        facts' = book.facts /\ measures' = book.measures
Uncounted == UNCHANGED <<facts, measures>>

no_episode ==
    /\ tick.pc = "pending" /\ monitor_pending(episodes) = {}
    /\ EndTick /\ Uncounted /\ UNCHANGED episodes /\ tickOnly

GivesUp(e) == e.state = "Evaluating" \/ e.build # build \/ active # e.regressed
abandon_episode ==
    /\ tick.pc = "pending"
    /\ \E i \in monitor_pending(episodes) :
          /\ GivesUp(episodes[i])
          /\ IF episodes[i].state = "Evaluating"
             THEN SetState(i, "Uncertain") /\ Evaluator(i, 1, 0)
             ELSE /\ SetState(i, IF episodes[i].build # build THEN "Uncertain"
                                 ELSE "Superseded")
                  /\ Uncounted
    /\ EndTick /\ tickOnly

begin_evaluation ==
    /\ tick.pc = "pending"
    /\ \E i \in monitor_pending(episodes) :
          /\ ~GivesUp(episodes[i])
          /\ episodes' = [episodes EXCEPT ![i].state = "Evaluating",
                                         ![i].evaluations = @ + 1]
          /\ Evaluator(i, 0, 0)
          /\ tick' = [pc |-> "evaluate", of |-> i]
    /\ tickOnly

\* The candidate cannot be written: the tick ends in an error and leaves the
\* episode as it is.
tick_failed ==
    /\ tick.pc = "evaluate"
    /\ EndTick /\ Uncounted /\ UNCHANGED episodes /\ tickOnly

\* The control, plain bytes, must fail before, every case must pass after.
accepted(e) ==
    /\ e.need > Capacity(e.regressed)
    /\ e.need <= Capacity(Parent(e.regressed))
    /\ Heldout <= Capacity(Parent(e.regressed))

monitor_activate(r, why) ==
    /\ Len(activations) < MaxReleases
    /\ previous' = active /\ active' = r
    /\ activations' = Append(activations, [from |-> active, to |-> r, why |-> why])

\* An accepted candidate becomes the release in one transaction with the
\* episode's result; an evaluator that fails leaves it uncertain.
finish_evaluation ==
    /\ tick.pc = "evaluate"
    /\ LET e == episodes[tick.of]
       IN \/ /\ accepted(e) /\ active = e.regressed
             /\ SetState(tick.of, "Promoted") /\ Evaluator(tick.of, 0, 1)
             /\ monitor_activate(
                    Install(e.regressed, Capacity(Parent(e.regressed)), "repair"),
                    "checks")
          \/ /\ ~accepted(e)
             /\ SetState(tick.of, "Rejected") /\ Evaluator(tick.of, 0, 1)
             /\ UNCHANGED <<active, previous, activations>>
          \/ /\ SetState(tick.of, "Uncertain") /\ Evaluator(tick.of, 1, 1)
             /\ UNCHANGED <<active, previous, activations>>
    /\ EndTick
    /\ UNCHANGED <<journalled, pinned, cursor, sampling, build, monitorDown>>

----------------------------------------------------------------------------
(* Operators and crashes.  Operators wait for the tick to end.             *)

install_read_behavior(n) ==
    /\ tick.pc = "idle"
    /\ Cardinality({i \in DOMAIN activations : activations[i].why = "install"})
          < MaxInstalls
    /\ monitor_activate(Install(active, n, "operator"), "install")
    /\ UNCHANGED <<journalled, pinned, cursor, sampling, facts, measures, episodes,
                   build, tick, monitorDown>>

rollback_read_behavior ==
    /\ tick.pc = "idle" /\ previous # <<>>
    /\ monitor_activate(previous, "rollback")
    /\ UNCHANGED <<journalled, pinned, cursor, sampling, facts, measures, episodes,
                   build, tick, monitorDown>>

set_monitor_sampling ==
    /\ tick.pc = "idle" /\ sampling.every = 1
    /\ sampling' = [sampling EXCEPT !.every = 2]
    /\ UNCHANGED <<journalled, pinned, cursor, active, previous, facts, measures,
                   episodes, activations, build, tick, monitorDown>>

restart_host(b) ==
    /\ monitorDown < MonitorCrashes /\ tick.pc # "idle"
    /\ monitorDown' = monitorDown + 1 /\ build' = b
    /\ EndTick
    /\ UNCHANGED <<journalled, pinned, cursor, sampling, active, previous, facts,
                   measures, episodes, activations>>

----------------------------------------------------------------------------
Tick == read_page \/ no_episode \/ abandon_episode \/ begin_evaluation \/ finish_evaluation

MonitorNext ==
    \/ \E s \in Sessions : pin_read_behavior(s)
    \/ \E o \in Operations, s \in Sessions :
          \/ append(o, s, "started", "", <<0, 0>>)
          \/ \E n \in Wanted : append(o, s, "settled", "Succeeded", n)
          \/ \E st \in {"Failed", "Unknown"} : append(o, s, "settled", st, <<0, 0>>)
          \/ append(o, s, "fenced", "", <<0, 0>>)
          \/ append(o, s, "reserved", "", <<0, 0>>)
          \/ append(o, s, "recorded", "Failed", <<0, 0>>)
          \/ append(o, s, "priced", "", <<0, 0>>)
    \/ Tick \/ tick_failed
    \/ \E n \in Sizes : install_read_behavior(n)
    \/ rollback_read_behavior \/ set_monitor_sampling
    \/ \E b \in {1, 2} : restart_host(b)

MonitorTypeOK ==
    /\ cursor \in 0 .. Len(journalled) /\ Len(journalled) <= MaxJournal
    /\ Len(activations) <= MaxReleases
    /\ tick.pc \in {"idle", "pending", "evaluate"}
    /\ \A k \in DOMAIN measures :
          measures[k] \in [{"opportunities", "failures", "measured"} -> Nat]

----------------------------------------------------------------------------
(* Properties.                                                             *)

Over(sig, field) ==
    FoldSet(LAMBDA k, n : n + measures[k][field], 0, {k \in DOMAIN measures : k[2] = sig})
Latest(kind, status) ==
    Cardinality({o \in Operations : Last_(o) = kind /\ Status_(o) = status})

\* The sums of every cohort and signature are those of the contributions on
\* record: nothing is counted twice or lost when a contribution is replaced
\* (monitor_commit_page).
MeasuresExact ==
    \A key \in DOMAIN measures :
        LET mine == {f \in DOMAIN facts : <<facts[f].cohort, f[2]>> = key}
        IN \A field \in DOMAIN measures[key] :
              measures[key][field] =
                  FoldSet(LAMBDA f, n : n + facts[f].value[field], 0, mine)

\* Once the journal is read, the counters say what became of each operation:
\* one opportunity each, its latest outcome and its price, also when an
\* unknown outcome was reconciled pages later.
CountsCurrent ==
    cursor = Len(journalled) =>
        /\ Over("JobOutcome", "opportunities") =
              Cardinality({o \in Operations : Last_(o) \in JobKinds})
        /\ Over("JobOutcome", "failures") = Latest("settled", "Failed")
        /\ Over("UnresolvedJob", "failures") = Latest("settled", "Unknown")
        /\ Over("Cost", "measured") = Latest("priced", "")

\* The monitor moves away from a release at most once: a release an operator
\* rolls back to stays, whatever its reads show.
RepairedOnce ==
    \A i, j \in DOMAIN activations :
        (i # j /\ activations[i].why = "checks" /\ activations[j].why = "checks")
            => activations[i].from # activations[j].from

\* A repair is activated only by the build that showed the regression, over
\* the release that regressed, and gives back what its parent answered.
PromotionSound ==
    \A i \in DOMAIN episodes :
       (episodes[i].state # "Promoted" /\ episodes'[i].state = "Promoted") =>
           /\ episodes[i].build = build
           /\ active = episodes[i].regressed
           /\ Capacity(active') = Capacity(Parent(active))

\* An evaluation that failed, or that a crash cut off, is not begun again: an
\* episode is evaluated at most once.
EvaluatedOnce == \A i \in DOMAIN episodes : episodes[i].evaluations <= 1
=============================================================================

---------------------------- MODULE TraceReplay -----------------------------
(***************************************************************************)
(* Forensic bundles (harness trace.rs, trace/receipts.rs).  A turn and its *)
(* child write dispatches, costs, outcomes and tool receipts to one        *)
(* journal, in any interleaving and up to any crash; a bundle is exported  *)
(* at any moment, with artifacts left out or beyond the hop bound, and is  *)
(* reduced again without running anything.                                 *)
(***************************************************************************)
EXTENDS Naturals, Sequences, FiniteSets

CONSTANTS
    WithCost    \* whether the provider reports what a call costs

ASSUME TraceAssumption == WithCost \in BOOLEAN

VARIABLES
    traced,    \* the journal
    turnAt,     \* next record of the turn
    childAt,    \* next record of the child
    childDone   \* the child is terminal

traceVars == <<traced, turnAt, childAt, childDone>>

Rec(kind, id, child) == [kind |-> kind, id |-> id, child |-> child]

\* What one turn appends around a provider call and a tool of its answer.
TurnScript ==
    << Rec("reserved", "p1", FALSE), Rec("dispatch", "p1", FALSE), Rec("cost", "p1", FALSE),
       Rec("recorded", "p1", FALSE), Rec("response", "p1", FALSE),
       Rec("job_started", "q1", FALSE), Rec("job_settled", "q1", FALSE), Rec("tool_result", "q1", FALSE) >>

\* A child is not reserved against the task; its outcome is a span.
ChildScript ==
    << Rec("dispatch", "c1", TRUE), Rec("cost", "c1", TRUE), Rec("span_response", "c1", TRUE),
       Rec("job_started", "k1", TRUE), Rec("tool_dispatch", "k1", TRUE), Rec("job_settled", "k1", TRUE),
       Rec("dispatch", "c2", TRUE), Rec("span_response", "c2", TRUE) >>

ChildTerminal == Rec("child_terminal", "child", TRUE)
TracedCalls == {"p1", "c1", "c2"}
Proposer == [q1 |-> "p1", k1 |-> "c1"]    \* the call whose answer proposes the tool
RecKinds == {"reserved", "dispatch", "cost", "recorded", "response", "job_started", "job_settled",
          "tool_result", "span_response", "tool_dispatch", "child_terminal"}

TraceTypeOK ==
    /\ \A i \in DOMAIN traced : traced[i].kind \in RecKinds
    /\ turnAt \in 1..(Len(TurnScript) + 1) /\ childAt \in 1..(Len(ChildScript) + 1)
    /\ childDone \in BOOLEAN

TraceInit == traced = << >> /\ turnAt = 1 /\ childAt = 1 /\ childDone = FALSE

\* A provider that reports no cost leaves no ProviderCost.
Skipped(r) == r.kind = "cost" /\ ~WithCost

\* record_span and record_dispatch: one transaction each.  Every prefix of
\* every interleaving is a state, so a crash needs no step of its own.
turn_appends ==
    /\ turnAt <= Len(TurnScript)
    /\ traced' = IF Skipped(TurnScript[turnAt]) THEN traced ELSE Append(traced, TurnScript[turnAt])
    /\ turnAt' = turnAt + 1 /\ UNCHANGED <<childAt, childDone>>

\* The child runs once the answer that spawned it is recorded.
ChildSpawned == turnAt > 5

child_appends ==
    /\ ChildSpawned /\ ~childDone /\ childAt <= Len(ChildScript)
    /\ traced' = IF Skipped(ChildScript[childAt]) THEN traced ELSE Append(traced, ChildScript[childAt])
    /\ childAt' = childAt + 1 /\ UNCHANGED <<turnAt, childDone>>

\* The child ends, however far it came.
child_terminal ==
    /\ ChildSpawned /\ ~childDone /\ childDone' = TRUE
    /\ traced' = Append(traced, ChildTerminal) /\ UNCHANGED <<turnAt, childAt>>

TraceNext == turn_appends \/ child_appends \/ child_terminal

-----------------------------------------------------------------------------
(* Artifacts: a record names its own, a span those it was made from *)

HasSpan == {"dispatch", "span_response", "tool_dispatch", "child_terminal"}
Span(r) == <<"span", r.kind, r.id>>
Payload(id) == <<"payload", id>>      \* input, tools, instructions, template
CallReport(id) == <<"report", id>>
Receipt(id) == <<"receipt", id>>

\* references(): the digests in a record, at hop 0.
References(r) ==
    (IF r.kind \in HasSpan THEN {Span(r)} ELSE {})
    \cup (IF r.kind = "recorded" THEN {CallReport(r.id)} ELSE {})
    \cup (IF r.kind = "job_settled" THEN {Receipt(r.id)} ELSE {})

\* The digests in an artifact, one hop further.
Nested(a) == IF a[1] = "span" /\ a[2] = "dispatch" THEN {Payload(a[3])} ELSE {}

\* TraceBundle::export follows references breadth first; a payload that was
\* omitted, or lies beyond the bound, makes the bundle inexact.
Closure(rs, omitted, depth) ==
    LET first == UNION {References(rs[i]) : i \in DOMAIN rs}
        second == UNION {Nested(a) : a \in first \ omitted}
    IN  [present |-> (first \cup (IF depth >= 1 THEN second ELSE {})) \ omitted,
         gaps |-> ((first \cup second) \cap omitted) \cup (IF depth >= 1 THEN {} ELSE second)]

Export(rs, omitted, depth) ==
    LET c == Closure(rs, omitted, depth)
    IN  [records |-> rs, artifacts |-> c.present, depth |-> depth, exact |-> c.gaps = {}]

-----------------------------------------------------------------------------
(* reduce: what the records and the spans at hand say *)

RecAt(b, kind, id) == {i \in DOMAIN b.records : b.records[i].kind = kind /\ b.records[i].id = id}
Has(b, a) == a \in b.artifacts
SpanAt(b, kind, id) == {i \in RecAt(b, kind, id) : Has(b, Span(b.records[i]))}
First(S) == CHOOSE i \in S : \A k \in S : i <= k

\* Where the outcome of a call is recorded, and whether its data is at hand.
OutcomeAt(b, c) == RecAt(b, "recorded", c) \cup SpanAt(b, "span_response", c)
OutcomeKnown(b, c) ==
    SpanAt(b, "span_response", c) # {} \/ (RecAt(b, "recorded", c) # {} /\ Has(b, CallReport(c)))

\* The calls the cost is about: reserved, dispatched, answered or charged.
Counted(b) ==
    {c \in TracedCalls :
        \/ RecAt(b, "reserved", c) # {} \/ RecAt(b, "cost", c) # {}
        \/ SpanAt(b, "dispatch", c) # {} \/ SpanAt(b, "span_response", c) # {}}

CostComplete(b) == \A c \in Counted(b) : RecAt(b, "cost", c) # {}

-----------------------------------------------------------------------------
(* receipts::replay *)

\* The calls the audit knows.
Audited(b) == Counted(b) \cup {c \in TracedCalls : RecAt(b, "recorded", c) # {}}

\* RecordedProvider::respond: an outcome never precedes its dispatch, and
\* neither is recorded twice.
CallValid(b, c) ==
    /\ Cardinality(SpanAt(b, "dispatch", c)) <= 1 /\ Cardinality(OutcomeAt(b, c)) <= 1
    /\ (SpanAt(b, "dispatch", c) # {} /\ OutcomeAt(b, c) # {} /\ OutcomeKnown(b, c)) =>
           First(SpanAt(b, "dispatch", c)) < First(OutcomeAt(b, c))

CallGaps(b, c) ==
    (IF SpanAt(b, "dispatch", c) = {} THEN {"DispatchMissing"} ELSE {})
    \cup (IF SpanAt(b, "dispatch", c) # {} /\ ~Has(b, Payload(c)) THEN {"DispatchPayloadUnavailable"} ELSE {})
    \cup (IF OutcomeKnown(b, c) THEN {} ELSE {"OutcomeMissing"})
    \cup (IF c \in {"c1", "c2"} /\ SpanAt(b, "dispatch", c) \cup SpanAt(b, "span_response", c) # {}
          THEN {"ChildOriginUnavailable"} ELSE {})

\* The call a tool belongs to: a child's through its dispatch span, a turn's
\* through the proposal.
ToolCall(b, q) ==
    IF q = "k1" THEN (IF SpanAt(b, "tool_dispatch", q) # {} THEN {Proposer[q]} ELSE {})
    ELSE IF OutcomeKnown(b, Proposer[q]) /\ SpanAt(b, "dispatch", Proposer[q]) # {} THEN {Proposer[q]} ELSE {}

\* Proposed by a known answer of a call whose session is known.
Proposed(b, q) ==
    /\ OutcomeKnown(b, Proposer[q])
    /\ SpanAt(b, "dispatch", Proposer[q]) \cup SpanAt(b, "span_response", Proposer[q]) # {}

ToolValid(b, q) ==
    LET links == SpanAt(b, "tool_dispatch", q)
        starts == RecAt(b, "job_started", q)
        ends == RecAt(b, "job_settled", q)
    IN  /\ links # {} =>
              /\ starts # {}
              /\ First(starts) < First(links)
              /\ ends # {} => First(links) < First(ends)
        /\ (ToolCall(b, q) # {} /\ Proposed(b, q) /\ starts # {}) =>
              First(OutcomeAt(b, Proposer[q])) < First(starts)
        \* a tool that no recorded answer proposed is refused
        /\ (ToolCall(b, q) # {} /\ OutcomeKnown(b, Proposer[q])) => Proposed(b, q)

ToolGaps(b, q) ==
    (IF ToolCall(b, q) = {} THEN {"ToolLinkUnavailable"} ELSE {})
    \cup (IF ToolCall(b, q) = {} \/ ~Proposed(b, q) THEN {"ProposalUnavailable"} ELSE {})
    \cup (IF RecAt(b, "job_settled", q) # {} /\ Has(b, Receipt(q)) THEN {} ELSE {"ToolResultUnavailable"})

\* validate_child_inputs: the second dispatch of a child carries the output
\* of the tool of its first.
ChildInputsValid(b) ==
    (SpanAt(b, "dispatch", "c1") # {} /\ SpanAt(b, "dispatch", "c2") # {}) =>
        First(SpanAt(b, "dispatch", "c1")) < First(SpanAt(b, "dispatch", "c2"))

JobsOf(b) == {q \in {"q1", "k1"} : RecAt(b, "job_started", q) # {}}

\* validate_events: a tool result without its proposal, a trace receipt
\* without its artifact, a terminal child without calls.
EventGaps(b) ==
    (IF RecAt(b, "tool_result", "q1") # {} /\ ~Proposed(b, "q1") THEN {"ToolLinkUnavailable"} ELSE {})
    \cup (IF \E i \in DOMAIN b.records : b.records[i].kind \in HasSpan /\ ~Has(b, Span(b.records[i]))
          THEN {"UnavailableTraceReceipt"} ELSE {})
    \cup (IF /\ SpanAt(b, "child_terminal", "child") # {}
             /\ \A c \in {"c1", "c2"} : SpanAt(b, "dispatch", c) \cup SpanAt(b, "span_response", c) = {}
          THEN {"ChildCallsUnavailable"} ELSE {})

Gaps(b) ==
    EventGaps(b) \cup UNION {CallGaps(b, c) : c \in Audited(b)} \cup UNION {ToolGaps(b, q) : q \in JobsOf(b)}

\* TraceBundle::replay of what was exported.
Replays(b) ==
    /\ \A c \in TracedCalls : CallValid(b, c)
    /\ \A q \in {"q1", "k1"} : ToolValid(b, q)
    /\ ChildInputsValid(b)
    /\ b.exact => \A i \in DOMAIN b.records :
          References(b.records[i]) \cup UNION {Nested(a) : a \in References(b.records[i])} \subseteq b.artifacts

\* prefix_at: the records before a dispatch and what they refer to.
Prefix(b, i) ==
    LET rs == SubSeq(b.records, 1, i - 1)
        first == UNION {References(rs[k]) : k \in DOMAIN rs} \cap b.artifacts
    IN  [b EXCEPT !.records = rs, !.artifacts = first \cup (UNION {Nested(a) : a \in first} \cap b.artifacts)]

-----------------------------------------------------------------------------
(* Properties: for every bundle that can be exported now *)

AllArtifacts ==
    LET first == UNION {References(traced[i]) : i \in DOMAIN traced}
    IN  first \cup UNION {Nested(a) : a \in first}

Bundles == {Export(traced, omitted, depth) : omitted \in {{}} \cup {{a} : a \in AllArtifacts}, depth \in {0, 1}}

\* Whatever the interleaving of a turn and its child, whatever the crash and
\* whatever is left out, the host's own journal is never called inconsistent,
\* and neither is a prefix fixture made from it.
OwnJournalReplays ==
    \A b \in Bundles :
        /\ Replays(b)
        /\ \A i \in DOMAIN b.records :
              (b.records[i].kind = "dispatch" /\ Has(b, Span(b.records[i]))) => Replays(Prefix(b, i))

\* A replay that reports no gap leaves nothing out: every call of the journal
\* has its dispatch, its payload and its outcome, every tool its result.
NoGapMeansWhole ==
    \A b \in Bundles : Gaps(b) = {} =>
        /\ AllArtifacts \subseteq b.artifacts
        /\ \A c \in TracedCalls : RecAt(b, "dispatch", c) # {} => OutcomeKnown(b, c)
        /\ \A q \in JobsOf(b) : RecAt(b, "job_settled", q) # {}

\* An exact bundle whose cost is called complete knows the cost of every call
\* that went to the provider, also of one a crash interrupted.
CostCoversDispatches ==
    \A b \in Bundles : (b.exact /\ CostComplete(b)) =>
        \A c \in TracedCalls : RecAt(b, "dispatch", c) # {} => RecAt(b, "cost", c) # {}

\* A fixture made before a dispatch knows nothing of what comes after it.
PrefixBlind ==
    \A b \in Bundles, i \in DOMAIN traced :
        (traced[i].kind = "dispatch" /\ Has(b, Span(traced[i]))) =>
            \A k \in i..Len(traced) : References(traced[k]) \cap Prefix(b, i).artifacts = {}
=============================================================================

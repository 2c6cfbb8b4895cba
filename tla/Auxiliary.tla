----------------------------- MODULE Auxiliary -----------------------------
(***************************************************************************)
(* Read-only requests: the classification of an ordinary input and the     *)
(* answer of a conversation, question, reflection or handoff               *)
(* (controller/auxiliary.rs), the records that account for every provider  *)
(* call (auxiliary.rs, store/auxiliary.rs), and the charge of a            *)
(* classification to the task it starts.  Who owns the turn of the session *)
(* is SubmissionQueue's matter; here one request has it.                   *)
(*                                                                         *)
(* Abstractions.  A call is the number of its intent.  Tokens are small    *)
(* numbers, Unknown when the receipt does not establish an amount.  The    *)
(* contents of inputs, answers and tool results are left out.              *)
(***************************************************************************)
EXTENDS Integers, Sequences, FiniteSets, SequencesExt

CONSTANTS
    AuxCalls,      \* AuxiliaryLimits.model_calls
    AuxTokens,     \* AuxiliaryLimits.tokens
    MaxSpend,      \* bound on the tokens one call uses
    AuxRecords,    \* 256
    AuxRetries     \* MAX_RECOVERABLE_PROVIDER_RETRIES

ASSUME AuxiliaryAssumption ==
    /\ AuxCalls \in Nat /\ AuxTokens \in Nat /\ MaxSpend \in Nat
    /\ AuxRecords \in Nat /\ AuxRetries \in Nat

UnknownUsage == -1
StillPending == -2

VARIABLES
    intent,      \* "ordinary" or "auxiliary"
    records,     \* the records of the submission, durable
    aux_turn,        \* "free", "open", "published", "settled"
    actor,       \* the running actor: [pc, retries, call, response, tools]
    stopping,    \* its token was cancelled
    overdue,        \* the elapsed allowance is used up
    report,      \* the published status, "none" before
    taskCalls    \* the calls charged to the task: sequence of tokens

xVars == <<intent, records, aux_turn, actor, stopping, overdue, report, taskCalls>>

NoActor == [pc |-> "gone", retries |-> 0, call |-> 0, response |-> "none", spent |-> 0,
            kind |-> "none", tools |-> 0]

(***************************************************************************)
(* Accounting.                                                             *)
(***************************************************************************)
Intents(rs) == {i \in DOMAIN rs : rs[i].type \in {"classification_intended", "model_intended"}}
Receipts(rs, c) == {i \in DOMAIN rs : rs[i].type \in {"classification_observed", "model_observed"}
                                      /\ rs[i].call = c}
AuxCallIds(rs) == {rs[i].call : i \in Intents(rs)}
TokensOf(rs, c) == IF Receipts(rs, c) = {} THEN StillPending
                   ELSE rs[CHOOSE i \in Receipts(rs, c) : TRUE].tokens
has_pending_receipt(rs) == \E c \in AuxCallIds(rs) : TokensOf(rs, c) = StillPending

\* Accounting::tokens and known_tokens: no total without every receipt.
KnownTokens(rs) == \A c \in AuxCallIds(rs) : TokensOf(rs, c) >= 0
TotalTokens(rs) == FoldLeft(LAMBDA n, c : n + TokensOf(rs, c), 0, SetToSeq(AuxCallIds(rs)))

RunStarted(rs) == \E i \in DOMAIN rs : rs[i].type = "started"

\* Accounting::apply
Applies(rs, r) ==
    CASE r.type = "classification_intended" -> ~RunStarted(rs) /\ r.call \notin AuxCallIds(rs)
      [] r.type = "model_intended" -> r.call \notin AuxCallIds(rs)
      [] r.type \in {"classification_observed", "model_observed"} ->
            r.call \in AuxCallIds(rs) /\ TokensOf(rs, r.call) = StillPending
      [] r.type = "started" -> ~RunStarted(rs)
      [] r.type = "tool_observed" -> RunStarted(rs)

Budget(rs) ==
    /\ Cardinality(AuxCallIds(rs)) < AuxCalls
    /\ ~has_pending_receipt(rs)
    /\ KnownTokens(rs) => TotalTokens(rs) < AuxTokens
    /\ ~(overdue /\ rs # <<>>)

AdmitsCall(r) ==
    /\ aux_turn = "open"
    /\ r.type \in {"classification_intended", "model_intended"} => Budget(records)
    /\ Len(records) < AuxRecords
    /\ Applies(records, r)

Record(type, call, tokens, kind) == [type |-> type, call |-> call, tokens |-> tokens, kind |-> kind]

(***************************************************************************)
(* Steps of the actor.                                                     *)
(***************************************************************************)
Is(pc) == actor.pc = pc
Moves(a) == actor' = a
OtherActors == UNCHANGED <<intent, stopping, overdue, taskCalls>>

\* A step that writes a record, or ends in an error when the store refuses
\* it.
Recording(r, next, refused) ==
    IF AdmitsCall(r)
    THEN records' = Append(records, r) /\ Moves(next)
    ELSE UNCHANGED records /\ Moves(refused)

\* An error of the run: cancelled, budget or failed.
Errs(a, why) == [a EXCEPT !.pc = "publish", !.response = IF stopping THEN "cancelled" ELSE why]
FailsClosed(a) == [a EXCEPT !.pc = "unclassified"]

\* execute_auxiliary and classify_ordinary: the actor is registered and the
\* turn opened.
begin ==
    /\ Is("idle") /\ aux_turn = "free"
    /\ aux_turn' = "open"
    /\ Moves([actor EXCEPT !.pc = IF intent = "ordinary" THEN "classify" ELSE "start"])
    /\ UNCHANGED <<records, report>> /\ OtherActors

\* classify_ordinary_call: the intent of a call ...
classify_ordinary_call ==
    /\ Is("classify")
    /\ \E c \in {Cardinality(AuxCallIds(records)) + 1} :
          Recording(Record("classification_intended", c, 0, "none"),
                    [actor EXCEPT !.pc = "classifying", !.call = c], FailsClosed(actor))
    /\ UNCHANGED <<aux_turn, report>> /\ OtherActors

\* The provider: what came back and what its receipt establishes.  A clean
\* rejection before generation costs nothing.
Responses ==
    [response : {"completed"}, spent : 1..MaxSpend \cup {UnknownUsage}, kind : {"information", "action", "none"}]
    \cup [response : {"rejected"}, spent : {0}, kind : {"none"}]
    \cup [response : {"failed"}, spent : {0, UnknownUsage}, kind : {"none"}]

aux_responds ==
    /\ actor.pc \in {"classifying", "asking"}
    /\ \E r \in Responses :
          Moves([actor EXCEPT !.pc = IF @ = "classifying" THEN "classified" ELSE "answered",
                              !.response = r.response, !.spent = r.spent, !.kind = r.kind])
    /\ UNCHANGED <<records, aux_turn, report>> /\ OtherActors

\* ... its receipt, with the kind only when the answer is exactly one ...
classification_text(a) == IF a.response = "completed" THEN a.kind ELSE "none"

observe_classification ==
    /\ Is("classified")
    /\ Recording(Record("classification_observed", actor.call, actor.spent, classification_text(actor)),
                 [actor EXCEPT !.pc = "reclassify"], FailsClosed(actor))
    /\ UNCHANGED <<aux_turn, report>> /\ OtherActors

\* ... and another attempt after a rejection, a verdict, or nothing.
Retries(a) == a.response = "rejected" /\ a.retries < AuxRetries /\ ~stopping

TurnVerdict(a) == a.spent # UnknownUsage /\ classification_text(a) # "none"

settle_classification ==
    /\ Is("reclassify")
    /\ \/ Retries(actor) /\ Moves([actor EXCEPT !.pc = "classify", !.retries = @ + 1])
       \/ /\ ~Retries(actor)
          /\ Moves(IF ~TurnVerdict(actor) THEN FailsClosed(actor)
                   ELSE IF actor.kind = "information" THEN [NoActor EXCEPT !.pc = "start"]
                   ELSE [NoActor EXCEPT !.pc = "charge"])
    /\ UNCHANGED <<records, aux_turn, report>> /\ OtherActors

\* settle_failed_classification
settle_failed_classification ==
    /\ Is("unclassified")
    /\ aux_turn' = "settled" /\ Moves(NoActor)
    /\ UNCHANGED <<records, report>> /\ OtherActors

\* ordinary_classification: the one verdict with a known receipt.
Verdicts(rs) == {i \in DOMAIN rs : rs[i].type = "classification_observed" /\ rs[i].tokens >= 0
                                   /\ rs[i].kind # "none"}

\* account_ordinary_classification: an action is charged to its task, under
\* an operation of the request.
account_ordinary_classification ==
    /\ Is("charge")
    /\ taskCalls' = IF Verdicts(records) = {} THEN taskCalls
                    ELSE Append(taskCalls, records[CHOOSE i \in Verdicts(records) : TRUE].tokens)
    /\ aux_turn' = "settled" /\ Moves(NoActor)     \* the task takes the turn over
    /\ UNCHANGED <<records, report, intent, stopping, overdue>>

\* run_auxiliary: the frozen source and the start of the run.
run_auxiliary ==
    /\ Is("start")
    /\ Recording(Record("started", 0, 0, "none"), [actor EXCEPT !.pc = "loop"], Errs(actor, "failed"))
    /\ UNCHANGED <<aux_turn, report>> /\ OtherActors

\* One round: the projection of the history, the instructions and the
\* admitted tools become a request whose intent is recorded first.
auxiliary_round ==
    /\ Is("loop")
    /\ IF stopping THEN UNCHANGED records /\ Moves([actor EXCEPT !.pc = "publish", !.response = "cancelled"])
       ELSE \E c \in {Cardinality(AuxCallIds(records)) + 1} :
               Recording(Record("model_intended", c, 0, "none"),
                         [actor EXCEPT !.pc = "asking", !.call = c], Errs(actor, "budget_exhausted"))
    /\ UNCHANGED <<aux_turn, report>> /\ OtherActors

observe_model ==
    /\ Is("answered")
    /\ Recording(Record("model_observed", actor.call, actor.spent, "none"),
                 [actor EXCEPT !.pc = "decide"], Errs(actor, "failed"))
    /\ UNCHANGED <<aux_turn, report>> /\ OtherActors

Decided(a) ==
    IF stopping THEN {[a EXCEPT !.pc = "publish", !.response = "cancelled"]}
    ELSE IF a.spent = UnknownUsage THEN {[a EXCEPT !.pc = "publish", !.response = "unknown_billing"]}
    ELSE IF Retries(a) THEN {[a EXCEPT !.pc = "loop", !.retries = @ + 1]}
    ELSE IF a.response # "completed" THEN {[a EXCEPT !.pc = "publish", !.response = "failed"]}
    ELSE {[a EXCEPT !.pc = "publish", !.response = x] : x \in {"completed", "failed"}}
         \cup {[a EXCEPT !.pc = "tools", !.tools = n, !.retries = 0] : n \in 1..2}

decide ==
    /\ Is("decide")
    /\ \E a \in Decided(actor) : Moves(a)
    /\ UNCHANGED <<records, aux_turn, report>> /\ OtherActors

\* auxiliary_tool: read-only tools, one record each; a reused call ID is an
\* error.
auxiliary_tool ==
    /\ Is("tools")
    /\ \/ IF actor.tools = 0 THEN UNCHANGED records /\ Moves([actor EXCEPT !.pc = "loop"])
          ELSE Recording(Record("tool_observed", 0, 0, "none"), [actor EXCEPT !.tools = @ - 1],
                         Errs(actor, "budget_exhausted"))
       \/ actor.tools > 0 /\ UNCHANGED records /\ Moves(Errs(actor, "failed"))
    /\ UNCHANGED <<aux_turn, report>> /\ OtherActors

\* The timeout around the run: the future is dropped wherever it is.
time_out ==
    /\ actor.pc \in {"start", "loop", "asking", "answered", "decide", "tools"}
    /\ overdue
    /\ stopping' = TRUE
    /\ Moves([actor EXCEPT !.pc = "publish", !.response = "budget_exhausted"])
    /\ UNCHANGED <<records, aux_turn, report, intent, overdue, taskCalls>>

Publishable(rs) == AuxCallIds(rs) # {} /\ KnownTokens(rs) /\ TotalTokens(rs) <= AuxTokens

publish_auxiliary ==
    /\ Is("publish")
    /\ IF actor.response = "completed" /\ ~Publishable(records)
       THEN UNCHANGED <<aux_turn, report>> /\ Moves(NoActor)
       ELSE aux_turn' = "published" /\ report' = actor.response /\ Moves([actor EXCEPT !.pc = "settle"])
    /\ UNCHANGED records /\ OtherActors

settle_auxiliary ==
    /\ Is("settle")
    /\ aux_turn' = "settled" /\ Moves(NoActor)
    /\ UNCHANGED <<records, report>> /\ OtherActors

(***************************************************************************)
(* The user, the clock and the host.                                       *)
(***************************************************************************)
Cancel ==
    /\ ~stopping /\ actor.pc # "gone" /\ stopping' = TRUE
    /\ UNCHANGED <<intent, records, aux_turn, actor, overdue, report, taskCalls>>

Elapse ==
    /\ ~overdue /\ actor.pc # "gone" /\ overdue' = TRUE
    /\ UNCHANGED <<intent, records, aux_turn, actor, stopping, report, taskCalls>>

\* The process dies: the records stay, the turn is recovered elsewhere.
HostDies ==
    /\ actor.pc \notin {"gone", "idle"}
    /\ Moves(NoActor)
    /\ UNCHANGED <<records, aux_turn, report>> /\ OtherActors

AuxiliaryInit ==
    /\ intent \in {"ordinary", "auxiliary"}
    /\ records = <<>> /\ aux_turn = "free" /\ actor = [NoActor EXCEPT !.pc = "idle"]
    /\ stopping = FALSE /\ overdue = FALSE /\ report = "none" /\ taskCalls = <<>>

AuxiliaryNext ==
    \/ begin \/ classify_ordinary_call \/ aux_responds \/ observe_classification \/ settle_classification
    \/ settle_failed_classification \/ account_ordinary_classification
    \/ run_auxiliary \/ auxiliary_round \/ observe_model \/ decide \/ auxiliary_tool \/ time_out
    \/ publish_auxiliary \/ settle_auxiliary
    \/ Cancel \/ Elapse \/ HostDies

AuxiliaryTypeOK ==
    /\ Len(records) <= AuxRecords
    /\ aux_turn \in {"free", "open", "published", "settled"}
    /\ actor.retries \in 0..AuxRetries
    /\ Len(taskCalls) <= 1

\* A completed answer is published only when every call made for it, those
\* of its classification included, has a receipt with a known amount and
\* together they are within the limit.
AnswerAccounted ==
    report = "completed" => KnownTokens(records) /\ TotalTokens(records) <= AuxTokens /\ AuxCallIds(records) # {}

\* Whatever is retried, cancelled, timed out or reclassified, no provider
\* call is made after one whose usage is unknown or that has no receipt yet
\* ("Provider usage is unknown; no further auxiliary calls were admitted"),
\* although the store would admit the former.
UnknownIsLast ==
    \A i \in Intents(records) : \A c \in AuxCallIds(SubSeq(records, 1, i - 1)) :
       TokensOf(SubSeq(records, 1, i - 1), c) >= 0

\* What a request can spend is bounded: before the call that was made last
\* the total was below the limit, and there are at most model_calls of them.
SpendBounded ==
    /\ Cardinality(AuxCallIds(records)) <= AuxCalls
    /\ \A i \in Intents(records) : TotalTokens(SubSeq(records, 1, i - 1)) < AuxTokens

\* An ordinary request has at most one verdict, an answer or a task only
\* with a verdict of that kind, and a task is charged exactly its tokens.
OneVerdict ==
    /\ Cardinality(Verdicts(records)) <= 1
    /\ intent = "ordinary" /\ (RunStarted(records) \/ taskCalls # <<>>) =>
          \E i \in Verdicts(records) :
             IF RunStarted(records) THEN records[i].kind = "information"
             ELSE records[i].kind = "action" /\ taskCalls = <<records[i].tokens>>

=============================================================================

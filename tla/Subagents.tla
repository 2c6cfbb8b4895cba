----------------------------- MODULE Subagents -----------------------------
(***************************************************************************)
(* The children of one session (harness/src/controller/subagents.rs and    *)
(* subagents/lifecycle.rs): the registry, the durable lifecycle journal,   *)
(* the steering inbox, the child loop, and a host that dies and rebuilds   *)
(* the registry from the journal.  A handler holds the registry lock over  *)
(* its one commit, so it is one step; a child that reads its inbox holds   *)
(* it over several, and the host may die between them.  The provider and   *)
(* the tools of a child run between steps.                                 *)
(***************************************************************************)
EXTENDS Naturals, Sequences, FiniteSets

CONSTANTS
    Agents,             \* identities spawn may draw
    MaxRunning,         \* max_children
    MaxInbox,           \* MAX_INBOX
    MaxChildCalls,      \* MAX_CHILD_CALLS
    MaxChildRetries,    \* MAX_RECOVERABLE_PROVIDER_RETRIES
    MaxMessages,        \* bound on messages per child
    MaxAgentCrashes     \* bound on restarts

ASSUME SubagentsAssumption ==
    /\ IsFiniteSet(Agents)
    /\ {MaxRunning, MaxChildCalls} \subseteq Nat \ {0}
    /\ {MaxInbox, MaxChildRetries, MaxMessages, MaxAgentCrashes} \subseteq Nat

VARIABLES
    registry,       \* Subagents::children
    journal,        \* the ChildLifecycle commands of each child
    loop,           \* ChildLoop
    nextSequence,   \* next_child_sequence
    agentHost,      \* "up", or "recovering" while Subagents::recover runs
    agentCrashes

agentVars == <<registry, journal, loop, nextSequence, agentHost, agentCrashes>>

Verdicts == {"completed", "unsubmitted", "failed", "interrupted"}
NoChild == [status |-> "absent", sequence |-> 0, inbox |-> <<>>, token |-> FALSE]
NoLoop == [pc |-> "off", calls |-> 0, retries |-> 0, result |-> "none"]

Spawned(n) == [kind |-> "spawned", value |-> n]
Accepted(m) == [kind |-> "accepted", value |-> m]
Consumed(m) == [kind |-> "consumed", value |-> m]
Terminal(v) == [kind |-> "terminal", value |-> v]

AgentTypeOK ==
    /\ \A a \in Agents :
        /\ registry[a].status \in Verdicts \cup {"absent", "running"}
        /\ registry[a].sequence \in Nat /\ registry[a].token \in BOOLEAN
        /\ registry[a].inbox \in Seq(1..MaxMessages)
        /\ Len(registry[a].inbox) <= MaxInbox
        /\ loop[a].pc \in {"off", "turn", "inbox", "respond", "tools", "drive"}
        /\ loop[a].calls \in 0..MaxChildCalls /\ loop[a].retries \in 0..MaxChildRetries
        /\ loop[a].result \in Verdicts \cup {"none"}
    /\ nextSequence \in Nat /\ agentHost \in {"up", "recovering"}
    /\ agentCrashes \in 0..MaxAgentCrashes

AgentInit ==
    /\ registry = [a \in Agents |-> NoChild] /\ journal = [a \in Agents |-> <<>>]
    /\ loop = [a \in Agents |-> NoLoop] /\ nextSequence = 0
    /\ agentHost = "up" /\ agentCrashes = 0

AgentUp == agentHost = "up"
Running(a) == registry[a].status = "running"
Record(a, e) == journal' = [journal EXCEPT ![a] = Append(@, e)]
\* The lock of the registry is free.
RegistryFree == \A a \in Agents : loop[a].pc # "inbox"
Written(a) == Cardinality({i \in DOMAIN journal[a] : journal[a][i].kind = "accepted"})

-----------------------------------------------------------------------------
(* Tools of the parent *)

\* spawn: the sequence number is drawn before the limit is looked at.
spawn_child(a) ==
    /\ AgentUp /\ RegistryFree /\ journal[a] = <<>>
    /\ nextSequence' = nextSequence + 1
    /\ IF Cardinality({b \in Agents : Running(b)}) < MaxRunning
       THEN /\ Record(a, Spawned(nextSequence))
            /\ registry' = [registry EXCEPT ![a] =
                    [NoChild EXCEPT !.status = "running", !.sequence = nextSequence]]
            /\ loop' = [loop EXCEPT ![a] = [NoLoop EXCEPT !.pc = "turn"]]
       ELSE nextSequence < Cardinality(Agents) /\ UNCHANGED <<registry, journal, loop>>
    /\ UNCHANGED <<agentHost, agentCrashes>>

\* send_agent_message is for a child that runs now.
Receiving(a) == Running(a)

InboxRoom(a) == Len(registry[a].inbox) < MaxInbox

send_message(a) ==
    /\ AgentUp /\ RegistryFree /\ Receiving(a) /\ InboxRoom(a)
    /\ Written(a) < MaxMessages
    /\ LET m == Written(a) + 1 IN
        /\ Record(a, Accepted(m))
        /\ registry' = [registry EXCEPT ![a].inbox = Append(@, m)]
    /\ UNCHANGED <<loop, nextSequence, agentHost, agentCrashes>>

\* interrupt_agent, close_agent, and cancel_for_request when the turn ends.
interrupt(a) ==
    /\ AgentUp /\ RegistryFree /\ Running(a) /\ ~registry[a].token
    /\ registry' = [registry EXCEPT ![a].token = TRUE]
    /\ UNCHANGED <<journal, loop, nextSequence, agentHost, agentCrashes>>

-----------------------------------------------------------------------------
(* The child *)

At_(a, p) == AgentUp /\ loop[a].pc = p
Step(a, p) == loop' = [loop EXCEPT ![a].pc = p]
Ends_(a, v) == loop' = [loop EXCEPT ![a].pc = "drive", ![a].result = v]

\* The head of ChildLoop::run.
next_call(a) ==
    /\ At_(a, "turn")
    /\ IF loop[a].calls = MaxChildCalls THEN Ends_(a, "unsubmitted")
       ELSE IF registry[a].token THEN Ends_(a, "failed")
       ELSE RegistryFree /\ loop' = [loop EXCEPT ![a].pc = "inbox", ![a].calls = @ + 1]
    /\ UNCHANGED <<journal, registry, nextSequence, agentHost, agentCrashes>>

\* A message leaves the inbox once it is recorded as consumed.
Consume(a) ==
    /\ Record(a, Consumed(Head(registry[a].inbox)))
    /\ registry' = [registry EXCEPT ![a].inbox = Tail(@)]

\* The whole inbox is consumed, in order and one commit for each message.
read_inbox(a) ==
    /\ At_(a, "inbox")
    /\ \/ registry[a].inbox # <<>> /\ Consume(a) /\ UNCHANGED loop
       \/ /\ registry[a].inbox = <<>> /\ UNCHANGED <<journal, registry>>
          /\ loop' = [loop EXCEPT ![a].pc = "respond", ![a].retries = 0]
    /\ UNCHANGED <<nextSequence, agentHost, agentCrashes>>

\* The provider: a rejection before generation is retried, a failure or a
\* cancelled call ends the child.
child_respond(a) ==
    /\ At_(a, "respond")
    /\ \/ Step(a, "tools")
       \/ /\ loop[a].retries < MaxChildRetries
          /\ loop' = [loop EXCEPT ![a].retries = @ + 1]
       \/ Ends_(a, "failed")
    /\ UNCHANGED <<registry, journal, nextSequence, agentHost, agentCrashes>>

\* The proposals of a response: a valid submit_result ends the child, prose
\* alone ends it unsubmitted, anything else is followed by another call.
child_tools(a) ==
    /\ At_(a, "tools")
    /\ Ends_(a, "completed") \/ Ends_(a, "unsubmitted") \/ Step(a, "turn")
    /\ UNCHANGED <<registry, journal, nextSequence, agentHost, agentCrashes>>

\* LifecycleEvent::Terminal, then Child::settle.
Settle(a, v) ==
    /\ Record(a, Terminal(v))
    /\ registry' = [registry EXCEPT ![a].status = v]

\* drive: a cancelled child is interrupted, whatever it answered.
drive(a) ==
    /\ At_(a, "drive") /\ RegistryFree
    /\ IF ~Running(a) THEN UNCHANGED <<registry, journal>>
       ELSE Settle(a, IF registry[a].token THEN "interrupted" ELSE loop[a].result)
    /\ loop' = [loop EXCEPT ![a] = NoLoop]
    /\ UNCHANGED <<nextSequence, agentHost, agentCrashes>>

-----------------------------------------------------------------------------
(* A host that dies, and Subagents::recover *)

agents_die ==
    /\ agentCrashes < MaxAgentCrashes /\ agentCrashes' = agentCrashes + 1
    /\ agentHost' = "recovering"
    /\ registry' = [a \in Agents |-> NoChild] /\ loop' = [a \in Agents |-> NoLoop]
    /\ nextSequence' = 0 /\ UNCHANGED journal

Kinds(a, k) == {i \in DOMAIN journal[a] : journal[a][i].kind = k}
Values(a, k) == {journal[a][i].value : i \in Kinds(a, k)}

\* Messages that were accepted and not consumed.
Unread(a) == (1..Written(a)) \ Values(a, "consumed")

\* The members of a finite set of numbers, the smallest first.
InOrder(S) ==
    [i \in 1..Cardinality(S) |-> CHOOSE m \in S : Cardinality({k \in S : k <= m}) = i]

\* What the journal of a child says of it.
Replayed(a) ==
    IF journal[a] = <<>> THEN NoChild
    ELSE [status |-> IF Kinds(a, "terminal") = {} THEN "running"
                     ELSE CHOOSE v \in Values(a, "terminal") : TRUE,
          sequence |-> journal[a][1].value,
          inbox |-> InOrder(Unread(a)),
          token |-> FALSE]

\* An unfinished child is interrupted, one commit for each; the host may die
\* again in between.
recover_interrupt(a) ==
    /\ agentHost = "recovering" /\ Replayed(a).status = "running"
    /\ Record(a, Terminal("interrupted"))
    /\ UNCHANGED <<registry, loop, nextSequence, agentHost, agentCrashes>>

\* The sequence goes on after the largest one retained.
NextSequence ==
    LET used == {journal[a][1].value : a \in {b \in Agents : journal[b] # <<>>}}
    IN  IF used = {} THEN 0 ELSE (CHOOSE n \in used : \A m \in used : m <= n) + 1

recover ==
    /\ agentHost = "recovering"
    /\ \A a \in Agents : Replayed(a).status # "running"
    /\ registry' = [a \in Agents |-> Replayed(a)]
    /\ nextSequence' = NextSequence /\ agentHost' = "up"
    /\ UNCHANGED <<journal, loop, agentCrashes>>

ChildStep(a) ==
    next_call(a) \/ read_inbox(a) \/ child_respond(a) \/ child_tools(a) \/ drive(a)
RecoverStep == recover \/ \E a \in Agents : recover_interrupt(a)

AgentNext ==
    \/ \E a \in Agents : spawn_child(a) \/ send_message(a) \/ interrupt(a) \/ ChildStep(a)
    \/ agents_die \/ RecoverStep

AgentSpec == AgentInit /\ [][AgentNext]_agentVars

-----------------------------------------------------------------------------
(* Properties *)

\* Whatever happened, the next host can replay the journal of every child:
\* one spawn first, messages consumed once and only after they were accepted,
\* and nothing at all after the terminal (recover fails closed otherwise).
JournalReplays ==
    \A a \in Agents : LET j == journal[a] IN
        /\ \A i \in DOMAIN j : j[i].kind = "spawned" <=> i = 1
        /\ \A i \in DOMAIN j : j[i].kind = "terminal" => i = Len(j)
        /\ \A i \in DOMAIN j : j[i].kind = "consumed" =>
            /\ \E k \in 1..(i - 1) : j[k] = Accepted(j[i].value)
            /\ \A k \in 1..(i - 1) : j[k] # j[i]

\* The registry shows what the next host would rebuild: no result, failure or
\* message is published before its record, and none is forgotten after it.
RegistryDurable ==
    AgentUp => \A a \in Agents :
        [registry[a] EXCEPT !.token = FALSE] = Replayed(a)

\* Children keep distinct sequence numbers across restarts and refused
\* spawns, so snapshots list them in the order they were created.
SequencesDistinct ==
    \A a, b \in Agents : journal[a] # <<>> /\ journal[b] # <<>> /\ a # b =>
        journal[a][1] # journal[b][1]

\* Every child comes to an end that is recorded, also across restarts.
ChildEnds ==
    \A a \in Agents : (journal[a] # <<>>) ~> (Kinds(a, "terminal") # {})
=============================================================================

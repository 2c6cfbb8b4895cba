----------------------------- MODULE MCProgress -----------------------------
(***************************************************************************)
(* The components of the host whose progress matters, model-checked in     *)
(* one run: a behaviour is a behaviour of one of them, under the fairness  *)
(* of its own tasks, and the others stay as they are.                      *)
(***************************************************************************)
EXTENDS Watch, CompletionHook, TaskController, Subagents

\* The component of this behaviour: every other one stays as it is.
VARIABLE part

Parts == {"queueview", "hooks", "turn", "agents", "watch"}

\* Every variable but the component, for each of them.
vars == <<part, queueViewVars, hookVars, tcVars, agentVars, watchVars>>

Init ==
    /\ part \in Parts
    /\ QueueViewInit
    /\ HookInit /\ (part = "hooks" \/ (configured = TRUE))
    /\ TcInit /\ (part = "turn" \/ (turn.native /\ task.contract = "none"))
    /\ AgentInit
    /\ WatchInit

Next ==
    \/ /\ part = "queueview" /\ QueueViewNext
       /\ UNCHANGED <<part, hookVars, tcVars, agentVars, watchVars>>
    \/ /\ part = "hooks" /\ HookNext
       /\ UNCHANGED <<part, queueViewVars, tcVars, agentVars, watchVars>>
    \/ /\ part = "turn" /\ TcNext
       /\ UNCHANGED <<part, queueViewVars, hookVars, agentVars, watchVars>>
    \/ /\ part = "agents" /\ AgentNext
       /\ UNCHANGED <<part, queueViewVars, hookVars, tcVars, watchVars>>
    \/ /\ part = "watch" /\ WatchNext
       /\ UNCHANGED <<part, queueViewVars, hookVars, tcVars, agentVars>>

Spec ==
    /\ Init /\ [][Next]_vars
    /\ WF_queueViewVars(part = "queueview" /\ LoadStep)
    /\ WF_queueViewVars(part = "queueview" /\ queue_announced)
    /\ WF_hookVars(part = "hooks" /\ HookTurnStep)
    /\ WF_hookVars(part = "hooks" /\ recover_completion_hooks)
    /\ WF_hookVars(part = "hooks" /\ (\E r \in followUp : arm_completion_hook(r)))
    /\ WF_tcVars(part = "turn" /\ TurnStep)
    /\ (\A a \in Agents : WF_agentVars(part = "agents" /\ ChildStep(a)))
    /\ WF_agentVars(part = "agents" /\ RecoverStep)
    /\ WF_watchVars(part = "watch" /\ ServerStep)
    /\ WF_watchVars(part = "watch" /\ ViewerStep)

-----------------------------------------------------------------------------
\* Turns and their children: a task is completed only over the contract of
\* its scope with a verified, delivered candidate and no writer left, every
\* reserved provider call of a turn that was left has its receipt, a turn
\* that ends in order has cancelled its children, and the registry of
\* children is what the next host rebuilds from a journal it can replay.
AgentsSound ==
    /\ part = "turn" =>
          /\ TcTypeOK /\ CompletionCovered /\ CallsReceipted
          /\ SettledCancelsChildren
    /\ part = "agents" =>
          /\ AgentTypeOK /\ JournalReplays /\ RegistryDurable
          /\ SequencesDistinct

\* What a terminal shows of the host: every record once and in order whatever
\* is lost or reconnected, no older delta under a finished response, and a
\* queue that is one roster of the host.
ViewsSound ==
    /\ part = "watch" =>
          /\ WatchTypeOK /\ RecordsOnce /\ ConfirmedStays
    /\ part = "queueview" =>
          /\ QueueViewTypeOK /\ QueueUntorn

\* A recorded follow-up fences the turn (no workspace job and no provider
\* call starts for a superseded scope), and "View reconnected" is said only
\* of a view that shows everything committed before the loss.
TurnsFenced ==
    /\ SupersededStartsNothing /\ ReconnectedIsCurrent

\* Every armed notification is attempted unless it is left behind, with the
\* task open or the request active, by a follow-up that was withdrawn or
\* refused or by a turn that was abandoned; every admitted turn is left,
\* every child has a recorded end, and the views of a silent host converge to
\* its journal, its children and its queue, crashes, lags, retries and
\* follow-ups included.
EverythingEnds ==
    /\ HookAttempted /\ TurnEnds /\ ChildEnds /\ ViewConverges
    /\ QueueConverges
=============================================================================

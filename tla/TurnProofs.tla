----------------------------- MODULE TurnProofs -----------------------------
(***************************************************************************)
(* What one turn of a task keeps (module TaskController), for every limit  *)
(* on calls, retries, proposals, follow-ups and jobs of the child, and     *)
(* proofs about the children of a turn (module Subagents), for any set of  *)
(* children, any size of the inbox and any number of calls, messages and   *)
(* restarts.                                                               *)
(*                                                                         *)
(* The properties of TaskController are not inductive.  They rest on where *)
(* a turn can be once its task has an outcome, on an amended contract      *)
(* staying amended for the rest of a superseded turn, on the one call that *)
(* may still be without its receipt, and on the children being cancelled   *)
(* before the checkpoint of an ending turn.  TurnEffects and TaskEffects   *)
(* say once per action what it does to the fields these facts speak of.    *)
(*                                                                         *)
(* The registry of the children is what recover rebuilds from the          *)
(* journals, so the proof is about what a replay of one journal says       *)
(* (Kept, StatusOf, SequenceOf, InboxOf) and what one more record changes  *)
(* of it.  A replay counts and orders records; where that needs induction  *)
(* over a journal, it is by the least counterexample (LeastNumber).        *)
(***************************************************************************)
EXTENDS TaskController, Subagents, FiniteSetTheorems, SequenceTheorems,
        WellFoundedInduction, TLAPS

-----------------------------------------------------------------------------
(* One turn of a task. *)

\* At most the call in flight has no receipt yet.
Ledger ==
    /\ task.calls = IF turn.pc \in {"respond", "receipt"}
                    THEN task.receipts + 1 ELSE task.receipts
    /\ task.unbilled <= task.receipts

\* Nothing but another turn accepts a contract for a superseded scope.
ScopeFence == turn.superseded => task.contract # "accepted"

\* A task with an outcome leaves its turn nothing to do but to end, and only
\* complete records a completion.
OutcomeLast ==
    /\ task.outcome # "none" => turn.pc \in {"settle", "left"}
    /\ turn.end # "complete"

\* Children are cancelled before an ending turn is checkpointed.
ChildrenStopped ==
    /\ turn.pc = "admit" => child.state = "none"
    /\ turn.pc \in {"checkpoint", "saving", "stop", "left"} /\ ~turn.failed =>
          child.state \in {"none", "over"} \/ child.cancelled

TurnKept == Ledger /\ ScopeFence /\ OutcomeLast /\ ChildrenStopped /\ CompletionCovered
TurnKeeps == TcTypeOK /\ TurnKept

\* The counters of a turn stay within their limits.
LEMMA TurnBounds ==
    /\ 0 \in 0..MaxProposals /\ 0 \in 0..MaxRetries
    /\ \A n \in 0..MaxRetries : n < MaxRetries => n + 1 \in 0..MaxRetries
    /\ \A n \in 0..MaxProposals : n > 0 => n - 1 \in 0..MaxProposals
    /\ \A n \in 0..MaxFollowUps : n < MaxFollowUps => n + 1 \in 0..MaxFollowUps
    /\ \A n \in 0..MaxChildJobs : n < MaxChildJobs => n + 1 \in 0..MaxChildJobs
    /\ \A n \in 1..MaxProposals : n \in 0..MaxProposals
    /\ \A n \in 0..ModelCalls : n # ModelCalls => n + 1 \in 0..ModelCalls
BY TaskControllerAssumption

\* The locals a turn drops and the positions it goes to keep it well typed.
LEMMA TurnMoves ==
    ASSUME turn \in Turn
    PROVE  /\ \A p \in TurnPcs : To(p) \in Turn /\ Load(p) \in Turn /\ Leave(p) \in Turn
           /\ Loop \in Turn /\ Fail \in Turn
           /\ \A o \in Ends : Ending(o) \in Turn
<1>0. 0 \in 0..MaxProposals /\ 0 \in 0..MaxRetries
  BY TurnBounds
<1>1. \A p \in TurnPcs : To(p) \in Turn /\ Load(p) \in Turn
  BY DEF Turn, To, Load
<1>2. \A p \in TurnPcs : Leave(p) \in Turn
  BY <1>0 DEF Turn, Leave
<1>3. Loop \in Turn /\ Leave("ending") \in Turn /\ Leave("error") \in Turn
  BY <1>2, Zenon DEF Loop, TurnPcs
<1>4. Fail \in Turn
  BY <1>0, <1>3 DEF Turn, Fail
<1>5. ASSUME NEW o \in Ends PROVE Ending(o) \in Turn
  <2>1. Leave("ending") \in Turn
    BY <1>3
  <2>2. 0 \in 0..MaxRetries
    BY <1>0
  <2>3. QED
    BY <2>1, <2>2 DEF Turn, Ending
<1>6. QED
  BY <1>1, <1>2, <1>3, <1>4, <1>5

\* What a move leaves alone.
LEMMA TurnFields ==
    ASSUME turn \in Turn
    PROVE  /\ \A p \in TurnPcs :
                 /\ To(p).pc = p /\ Load(p).pc = p /\ Leave(p).pc = p
                 /\ To(p).failed = turn.failed /\ Load(p).failed = turn.failed
                 /\ Leave(p).failed = turn.failed
                 /\ To(p).superseded = turn.superseded
                 /\ Load(p).superseded = turn.superseded
                 /\ Leave(p).superseded = turn.superseded
                 /\ To(p).end = turn.end /\ Load(p).end = turn.end
                 /\ Leave(p).end = turn.end
           /\ Loop.pc = "head" /\ Loop.failed = turn.failed
           /\ Loop.superseded = turn.superseded /\ Loop.end = turn.end
           /\ Fail.pc = "error" /\ Fail.failed = turn.failed
           /\ Fail.superseded = turn.superseded /\ Fail.end = turn.end
           /\ \A o \in Ends :
                 /\ Ending(o).pc = "ending" /\ Ending(o).failed = turn.failed
                 /\ Ending(o).superseded = turn.superseded /\ Ending(o).end = o
<1>1. \A p \in TurnPcs :
        /\ To(p).pc = p /\ To(p).failed = turn.failed
        /\ To(p).superseded = turn.superseded /\ To(p).end = turn.end
  BY DEF Turn, To
<1>2. \A p \in TurnPcs :
        /\ Load(p).pc = p /\ Load(p).failed = turn.failed
        /\ Load(p).superseded = turn.superseded /\ Load(p).end = turn.end
  BY DEF Turn, Load
<1>3. \A p \in TurnPcs :
        /\ Leave(p).pc = p /\ Leave(p).failed = turn.failed
        /\ Leave(p).superseded = turn.superseded /\ Leave(p).end = turn.end
  BY DEF Turn, Leave
<1>4. /\ Leave("ending") \in Turn /\ Leave("error") \in Turn
      /\ {"head", "ending", "error"} \subseteq TurnPcs
  BY TurnMoves DEF TurnPcs
<1>5. /\ Loop.pc = "head" /\ Loop.failed = turn.failed
      /\ Loop.superseded = turn.superseded /\ Loop.end = turn.end
  BY <1>3, <1>4 DEF Loop
<1>6. /\ Fail.pc = "error" /\ Fail.failed = turn.failed
      /\ Fail.superseded = turn.superseded /\ Fail.end = turn.end
  BY <1>3, <1>4 DEF Fail, Turn
<1>7. \A o \in Ends :
        /\ Ending(o).pc = "ending" /\ Ending(o).failed = turn.failed
        /\ Ending(o).superseded = turn.superseded /\ Ending(o).end = o
  BY <1>3, <1>4 DEF Ending, Turn
<1>8. QED
  BY <1>1, <1>2, <1>3, <1>5, <1>6, <1>7

\* Every step keeps the turn well typed.
LEMMA TurnTypeStep ==
    ASSUME TcTypeOK, TcNext
    PROVE  turn' \in Turn
<1> USE DEF TcTypeOK, TurnPcs
<1>1. CASE admit
  BY <1>1, TurnMoves DEF admit, At
<1>2. CASE prepare_isolated_workspace
  BY <1>2, TurnMoves DEF prepare_isolated_workspace, At
<1>3. CASE run_contract
  <2>1. ASSUME NEW d \in BOOLEAN
        PROVE  [Load("context") EXCEPT !.discovery = d] \in Turn
    <3>1. Load("context") \in Turn
      BY TurnMoves
    <3>2. QED
      BY <3>1 DEF Turn
  <2>2. [Load("context") EXCEPT !.discovery = task.contract # "accepted"] \in Turn
    BY <2>1
  <2>3. QED
    BY <1>3, <2>2, TurnMoves DEF run_contract, CancellationOutcome, Ends
<1>4. CASE prepare_turn_tools
  <2>1. ASSUME NEW b \in BOOLEAN
        PROVE  [To("reserve") EXCEPT !.force = FALSE, !.bitmap = b] \in Turn
    <3>1. To("reserve") \in Turn
      BY TurnMoves
    <3>2. QED
      BY <3>1 DEF Turn
  <2>2. QED
    BY <1>4, <2>1, TurnMoves DEF prepare_turn_tools
<1>5. CASE reserve_model_call
  BY <1>5, TurnMoves DEF reserve_model_call, Ends, At
<1>6. CASE respond
  <2>1. ASSUME NEW a \in Answers, NEW b \in BOOLEAN
        PROVE  [To("receipt") EXCEPT !.answer = a, !.billed = b] \in Turn
    <3>1. To("receipt") \in Turn
      BY TurnMoves
    <3>2. QED
      BY <3>1 DEF Turn
  <2>2. QED
    BY <1>6, <2>1 DEF respond
<1>7. CASE record_model_call
  BY <1>7, TurnMoves DEF record_model_call, At
<1>8. CASE judge
  <2>1. Loop \in Turn
    BY TurnMoves
  <2>2. [Loop EXCEPT !.force = TRUE] \in Turn
    BY <2>1, TurnBounds DEF Turn
  <2>3. Load("backoff") \in Turn
    BY TurnMoves
  <2>4. turn.retries < MaxRetries => [Load("backoff") EXCEPT !.retries = @ + 1] \in Turn
    <3> DEFINE n == Load("backoff").retries + 1
    <3>1. turn.retries < MaxRetries => n \in 0..MaxRetries
      BY TurnBounds DEF Load, Turn
    <3> HIDE DEF n
    <3>2. n \in 0..MaxRetries => [Load("backoff") EXCEPT !.retries = n] \in Turn
      BY <2>3 DEF Turn
    <3>3. QED
      BY <3>1, <3>2 DEF n
  <2>5. Load("record") \in Turn
    BY TurnMoves
  <2>6. [Load("record") EXCEPT !.retries = 0] \in Turn
    BY <2>4, <2>5, TurnBounds DEF Turn
  <2>7. QED
    BY <1>8, TurnMoves, <2>1, <2>2, <2>3, <2>4, <2>5, <2>6 DEF judge, Ends,
       CancellationOutcome
<1>9. CASE wait_for_provider_retry
  BY <1>9, TurnMoves DEF wait_for_provider_retry, Ends, At, CancellationOutcome
<1>10. CASE record_response
  <2>1. ASSUME NEW n \in 0..MaxProposals, NEW b \in BOOLEAN
        PROVE  /\ [Load("propose") EXCEPT !.todo = n, !.exclusive = b] \in Turn
               /\ [Load("propose") EXCEPT !.todo = n] \in Turn
    <3>1. Load("propose") \in Turn
      BY TurnMoves
    <3>2. QED
      BY <3>1 DEF Turn
  <2>2. \A n \in 1..MaxProposals : [Load("propose") EXCEPT !.todo = n, !.exclusive = n = 1] \in Turn
    BY <2>1, TurnBounds
  <2>3. QED
    BY <1>10, <2>1, <2>2, TurnBounds, TurnMoves DEF record_response, Ends
<1>11. CASE handle_empty_response
  <2>1. To("reconcile") \in Turn
    BY TurnMoves
  <2>2. [To("reconcile") EXCEPT !.goal = "complete"] \in Turn
    BY <2>1, TurnBounds DEF Turn
  <2>3. QED
    BY <1>11, TurnMoves, <2>1, <2>2 DEF handle_empty_response, Ends
<1>12. CASE proposals_done
  BY <1>12, TurnMoves DEF proposals_done, At, Proposing
<1>13. CASE propose_other
  <2>1. Done(turn) \in Turn
    BY <1>13, TurnBounds DEF Turn, Done, propose_other, CanPropose, Proposing
  <2>2. QED
    BY <1>13, TurnMoves, <2>1 DEF propose_other
<1>14. CASE admit_proposal
  <2>1. Done(turn) \in Turn
    BY <1>14, TurnBounds DEF Turn, Done, admit_proposal, CanPropose, Proposing
  <2>2. [Done(turn) EXCEPT !.fresh = TRUE] \in Turn
    BY <2>1, TurnBounds DEF Turn
  <2>3. QED
    BY <1>14, TurnMoves, <2>1, <2>2 DEF admit_proposal
<1>15. CASE propose_completion
  <2>1. To("reconcile") \in Turn
    BY TurnMoves
  <2>2. Done(To("reconcile")) \in Turn
    BY <2>1, <1>15, TurnBounds DEF Turn, Done, propose_completion, CanPropose, Proposing
  <2>3. [Done(To("reconcile")) EXCEPT !.goal = "complete"] \in Turn
    BY <2>1, <2>2, TurnBounds DEF Turn
  <2>4. QED
    BY <1>15, TurnMoves, <2>1, <2>2, <2>3 DEF propose_completion, Ends
<1>16. CASE report_blocker
  BY <1>16, TurnMoves DEF report_blocker, Ends, At, Proposing, CanPropose
<1>17. CASE verify_task
  <2>1. To("reconcile") \in Turn
    BY TurnMoves
  <2>2. Done(To("reconcile")) \in Turn
    BY <2>1, <1>17, TurnBounds DEF Turn, Done, verify_task, CanPropose, Proposing
  <2>3. [Done(To("reconcile")) EXCEPT !.goal = "verify"] \in Turn
    BY <2>1, <2>2, TurnBounds DEF Turn
  <2>4. QED
    BY <1>17, TurnMoves, <2>1, <2>2, <2>3 DEF verify_task
<1>18. CASE spawn_agent
  <2>1. Done(turn) \in Turn
    BY <1>18, TurnBounds DEF Turn, Done, spawn_agent, CanPropose, Proposing
  <2>2. QED
    BY <1>18, TurnMoves, <2>1 DEF spawn_agent
<1>19. CASE dispatch
  <2>1. ASSUME NEW m \in BOOLEAN
        PROVE  [Done(To("dispatch")) EXCEPT !.mutates = m] \in Turn
    <3>1. To("dispatch") \in Turn
      BY TurnMoves
    <3>2. Done(To("dispatch")) \in Turn
      BY <1>19, <3>1, TurnBounds DEF Turn, Done, dispatch, CanPropose, Proposing
    <3>3. QED
      BY <3>2 DEF Turn
  <2>2. QED
    BY <1>19, <2>1 DEF dispatch
<1>20. CASE start_execution_job
  BY <1>20, TurnMoves DEF start_execution_job, At, TaskOpen, Admissible, Current
<1>21. CASE settle_execution_job
  <2>1. Load("propose") \in Turn
    BY TurnMoves
  <2>2. [Load("propose") EXCEPT !.mutates = FALSE] \in Turn
    BY <2>1, TurnBounds DEF Turn
  <2>3. QED
    BY <1>21, TurnMoves, <2>1, <2>2 DEF settle_execution_job
<1>22. CASE reconcile_unresolved
  BY <1>22, TurnMoves DEF reconcile_unresolved, At, NoWriter
<1>23. CASE freeze
  BY <1>23, TurnMoves DEF freeze, At, TaskOpen, NoWriter
<1>24. CASE verify_missing
  <2>1. Load("reconcile") \in Turn
    BY TurnMoves
  <2>2. [Load("reconcile") EXCEPT !.goal = "recheck"] \in Turn
    BY <2>1, TurnBounds DEF Turn
  <2>3. QED
    BY <1>24, TurnMoves, <2>1, <2>2 DEF verify_missing
<1>25. CASE prepare_check
  BY <1>25, TurnMoves DEF prepare_check, At, TaskOpen, Admissible, AfterCheck
<1>26. CASE finish_check
  BY <1>26, TurnMoves DEF finish_check, At, AfterCheck
<1>27. CASE deliver
  BY <1>27, TurnMoves DEF deliver, At, TaskOpen, predicates_match
<1>28. CASE complete
  <2>1. Loop \in Turn
    BY TurnMoves
  <2>2. [Loop EXCEPT !.fresh = TRUE] \in Turn
    BY <2>1, TurnBounds DEF Turn
  <2>3. QED
    BY <1>28, TurnMoves, <2>1, <2>2 DEF complete
<1>29. CASE finish_run
  BY <1>29, TurnMoves DEF finish_run, At, CancelChildren
<1>30. CASE end_task
  BY <1>30, TurnMoves DEF end_task, At, CancelChildren
<1>31. CASE checkpoint_workspace
  BY <1>31, TurnMoves DEF checkpoint_workspace, At, TaskOpen, NoWriter
<1>32. CASE stop
  BY <1>32, TurnMoves DEF stop, At, TaskOpen
<1>33. CASE execute_task_request
  <2> DEFINE e == IF task.cancel = "requested" THEN "cancelled"
                  ELSE IF ~turn.native /\ task.elapsed THEN "budget" ELSE "failed"
  <2>1. Load("checkpoint") \in Turn
    BY TurnMoves
  <2>2. e \in Ends
    BY DEF Ends
  <2> HIDE DEF e
  <2>3. [Load("checkpoint") EXCEPT !.failed = TRUE, !.end = e] \in Turn
    BY <2>1, <2>2, TurnBounds DEF Turn
  <2>4. QED
    BY <1>33, TurnMoves, <2>1, <2>2, <2>3 DEF execute_task_request, e
<1>34. CASE receive_directive
  <2>1. [turn EXCEPT !.superseded = TRUE] \in Turn
    BY TurnBounds DEF Turn
  <2>2. [[turn EXCEPT !.superseded = TRUE] EXCEPT !.fresh = FALSE] \in Turn
    BY <2>1, TurnBounds DEF Turn
  <2>3. QED
    BY <1>34, TurnMoves, <2>1, <2>2 DEF receive_directive, Elsewhere
<1>35. CASE cancel
  <2>1. [turn EXCEPT !.token = TRUE] \in Turn
    BY TurnBounds DEF Turn
  <2>2. [turn EXCEPT !.fresh = FALSE] \in Turn
    BY <2>1, TurnBounds DEF Turn
  <2>3. QED
    BY <1>35, TurnMoves, <2>1, <2>2 DEF cancel, Elsewhere
<1>36. CASE expire
  <2>1. ASSUME NEW d \in BOOLEAN
        PROVE  [turn EXCEPT !.deadline = d, !.token = TRUE] \in Turn
    BY DEF Turn
  <2>2. [turn EXCEPT !.deadline = ~turn.token, !.token = TRUE] \in Turn
    BY <2>1
  <2>3. QED
    BY <1>36, <2>2 DEF expire
<1>37. CASE child_start_job
  <2>1. [turn EXCEPT !.fresh = FALSE] \in Turn
    BY TurnBounds DEF Turn
  <2>2. QED
    BY <1>37, TurnMoves, <2>1 DEF child_start_job, Elsewhere
<1>38. CASE child_settle_job
  <2>1. [turn EXCEPT !.fresh = FALSE] \in Turn
    BY TurnBounds DEF Turn
  <2>2. QED
    BY <1>38, TurnMoves, <2>1 DEF child_settle_job, Elsewhere
<1>39. CASE child_ends
  BY <1>39, TurnMoves DEF child_ends
<1>40. QED
  BY <1>1, <1>2, <1>3, <1>4, <1>5, <1>6, <1>7, <1>8, <1>9, <1>10, <1>11, <1>12,
     <1>13, <1>14, <1>15, <1>16, <1>17, <1>18, <1>19, <1>20, <1>21, <1>22, <1>23,
     <1>24, <1>25, <1>26, <1>27, <1>28, <1>29, <1>30, <1>31, <1>32, <1>33, <1>34,
     <1>35, <1>36, <1>37, <1>38, <1>39 DEF TcNext, TurnStep

\* TaskState::invalidate keeps a task well typed and forgets only what was
\* shown about the tree.
LEMMA InvalidatedTask ==
    ASSUME NEW t \in Task
    PROVE  /\ Invalidated(t) \in Task
           /\ Invalidated(t).outcome = t.outcome /\ Invalidated(t).contract = t.contract
           /\ Invalidated(t).job = t.job /\ Invalidated(t).calls = t.calls
           /\ Invalidated(t).receipts = t.receipts /\ Invalidated(t).unbilled = t.unbilled
BY DEF Invalidated, Task

\* Every step keeps the task well typed: a receipt belongs to a reserved call.
LEMMA TaskTypeStep ==
    ASSUME TcTypeOK, Ledger, OutcomeLast, TcNext
    PROVE  task' \in Task
<1> USE DEF TcTypeOK
<1>1. CASE admit
  <2>1. [task EXCEPT !.active = TRUE] \in Task
    BY DEF Task
  <2>2. QED
    BY <1>1, <2>1 DEF admit
<1>2. CASE reserve_model_call
  <2>1. task.calls # ModelCalls => [task EXCEPT !.calls = @ + 1] \in Task
    BY TurnBounds DEF Task
  <2>2. QED
    BY <1>2, <2>1 DEF reserve_model_call
<1>3. CASE record_model_call
  <2> DEFINE r == task.receipts + 1
             u == IF turn.billed THEN task.unbilled ELSE task.unbilled + 1
  <2>1. r \in 0..ModelCalls /\ u \in 0..ModelCalls
    BY <1>3, TaskControllerAssumption DEF record_model_call, At, Ledger, Task
  <2> HIDE DEF r, u
  <2>2. [task EXCEPT !.receipts = r, !.unbilled = u] \in Task
    BY <2>1 DEF Task
  <2>3. QED
    BY <1>3, <2>2 DEF record_model_call, r, u
<1>4. CASE admit_proposal
  <2>1. [task EXCEPT !.contract = "accepted"] \in Task
    BY DEF Task
  <2>2. QED
    BY <1>4, <2>1, InvalidatedTask DEF admit_proposal
<1>5. CASE start_execution_job
  <2>1. [task EXCEPT !.candidate = FALSE] \in Task
    BY DEF Task
  <2> DEFINE t == IF turn.mutates /\ ~turn.native
                  THEN Invalidated([task EXCEPT !.candidate = FALSE]) ELSE task
  <2>2. t \in Task
    BY <2>1, InvalidatedTask
  <2> HIDE DEF t
  <2>3. [t EXCEPT !.job = "running"] \in Task
    BY <2>2 DEF Task
  <2>4. QED
    BY <1>5, <2>3 DEF start_execution_job, t
<1>6. CASE settle_execution_job
  <2>1. \A j \in {"none", "unknown"} : [task EXCEPT !.job = j] \in Task
    BY DEF Task
  <2>2. QED
    BY <1>6, <2>1 DEF settle_execution_job
<1>7. CASE reconcile_unresolved
  <2>1. [task EXCEPT !.job = "none"] \in Task
    BY DEF Task
  <2>2. QED
    BY <1>7, <2>1 DEF reconcile_unresolved
<1>8. CASE freeze
  <2>1. [task EXCEPT !.candidate = TRUE] \in Task
    BY DEF Task
  <2>2. QED
    BY <1>8, <2>1, InvalidatedTask DEF freeze
<1>9. CASE prepare_check
  <2>1. [task EXCEPT !.lease = TRUE] \in Task
    BY DEF Task
  <2>2. QED
    BY <1>9, <2>1 DEF prepare_check
<1>10. CASE finish_check
  <2>1. ASSUME NEW r \in {"none", "pass", "fail"}
        PROVE  [task EXCEPT !.lease = FALSE, !.evidence = r] \in Task
    BY DEF Task
  <2>2. task.evidence \in {"none", "pass", "fail"}
    BY DEF Task
  <2>3. QED
    BY <1>10, <2>1, <2>2 DEF finish_check
<1>11. CASE deliver
  <2>1. [task EXCEPT !.delivered = TRUE] \in Task
    BY DEF Task
  <2>2. QED
    BY <1>11, <2>1 DEF deliver
<1>12. CASE complete
  <2>1. [task EXCEPT !.outcome = "complete"] \in Task
    BY DEF Task, Ends
  <2>2. QED
    BY <1>12, <2>1 DEF complete
<1>13. CASE finish_run
  <2>1. [task EXCEPT !.active = FALSE] \in Task
    BY DEF Task
  <2>2. QED
    BY <1>13, <2>1 DEF finish_run
<1>14. CASE checkpoint_workspace
  <2>1. [task EXCEPT !.candidate = TRUE] \in Task
    BY DEF Task
  <2>2. QED
    BY <1>14, <2>1, InvalidatedTask DEF checkpoint_workspace
<1>15. CASE stop
  <2>1. ASSUME NEW o \in Ends \cup {"none"}
        PROVE  [task EXCEPT !.outcome = o, !.active = FALSE] \in Task
    BY DEF Task
  <2>2. turn.end \in Ends \cup {"none"}
    BY DEF Turn
  <2>3. QED
    BY <1>15, <2>1, <2>2 DEF stop
<1>16. CASE receive_directive
  <2>1. ASSUME NEW c \in {"none", "accepted", "amending"}
        PROVE  [task EXCEPT !.outcome = "none", !.lease = FALSE, !.contract = c] \in Task
    BY DEF Task
  <2>2. task.contract \in {"none", "accepted", "amending"}
    BY DEF Task
  <2>3. [task EXCEPT !.outcome = "none", !.lease = FALSE,
            !.contract = IF @ = "none" THEN @ ELSE "amending"] \in Task
    BY <2>1, <2>2
  <2>4. QED
    BY <1>16, <2>3, InvalidatedTask DEF receive_directive
<1>17. CASE cancel
  <2>1. \A c \in {"wanted", "requested"} : [task EXCEPT !.cancel = c] \in Task
    BY DEF Task
  <2>2. QED
    BY <1>17, <2>1 DEF cancel
<1>18. CASE expire
  <2>1. [task EXCEPT !.elapsed = TRUE] \in Task
    BY DEF Task
  <2>2. QED
    BY <1>18, <2>1 DEF expire
<1>19. CASE UNCHANGED task
  BY <1>19
<1>20. QED
  BY <1>1, <1>2, <1>3, <1>4, <1>5, <1>6, <1>7, <1>8, <1>9, <1>10, <1>11, <1>12,
     <1>13, <1>14, <1>15, <1>16, <1>17, <1>18, <1>19 DEF TcNext, TurnStep,
     prepare_isolated_workspace, run_contract, prepare_turn_tools, respond, judge,
     wait_for_provider_retry, record_response, handle_empty_response,
     proposals_done, propose_other, propose_completion, report_blocker,
     verify_task, spawn_agent, dispatch, verify_missing, end_task,
     execute_task_request, child_start_job, child_settle_job, child_ends

\* CancelChildren leaves no child that may start a job.
LEMMA ChildCancelled ==
    ASSUME child \in Child, CancelChildren
    PROVE  /\ child' \in Child /\ child'.state = child.state
           /\ child'.state \in {"none", "over"} \/ child'.cancelled
<1>1. CASE child.state \in {"idle", "running"}
  <2>1. child' = [child EXCEPT !.cancelled = TRUE]
    BY <1>1, Zenon DEF CancelChildren
  <2>2. QED
    BY <2>1 DEF Child
<1>2. CASE child.state \notin {"idle", "running"}
  <2>1. child' = [child EXCEPT !.cancelled = FALSE]
    <3>1. (child.state \in {"idle", "running"}) = FALSE
      BY <1>2
    <3>2. QED
      BY <3>1, Zenon DEF CancelChildren
  <2>2. QED
    BY <1>2, <2>1 DEF Child
<1>3. QED
  BY <1>1, <1>2

\* Every step keeps the child and the count of follow-ups well typed.
LEMMA ChildTypeStep ==
    ASSUME TcTypeOK, TcNext
    PROVE  child' \in Child /\ followUps' \in 0..MaxFollowUps
<1> USE DEF TcTypeOK
<1>1. CASE spawn_agent
  BY <1>1, TurnBounds DEF spawn_agent, Child
<1>2. CASE reconcile_unresolved
  BY <1>2, TurnBounds DEF reconcile_unresolved, Child
<1>3. CASE finish_run
  BY <1>3, ChildCancelled DEF finish_run
<1>4. CASE end_task
  BY <1>4, ChildCancelled DEF end_task
<1>5. CASE receive_directive
  BY <1>5, TurnBounds DEF receive_directive, Child
<1>6. CASE child_start_job
  BY <1>6, TurnBounds DEF child_start_job, Child
<1>7. CASE child_settle_job
  BY <1>7, TurnBounds DEF child_settle_job, Child
<1>8. CASE child_ends
  BY <1>8, TurnBounds DEF child_ends, Child
<1>9. CASE UNCHANGED <<child, followUps>>
  BY <1>9
<1>10. QED
  BY <1>1, <1>2, <1>3, <1>4, <1>5, <1>6, <1>7, <1>8, <1>9 DEF TcNext, TurnStep,
     admit, prepare_isolated_workspace, run_contract, prepare_turn_tools,
     reserve_model_call,
     respond, record_model_call, judge, wait_for_provider_retry, record_response,
     handle_empty_response, proposals_done, propose_other, admit_proposal,
     propose_completion,
     report_blocker, verify_task, dispatch, start_execution_job, settle_execution_job,
     freeze, verify_missing, prepare_check, finish_check, deliver,
     complete, checkpoint_workspace, stop, execute_task_request, cancel,
     expire

\* The positions at which an ending turn has stopped its children.
Closed == {"checkpoint", "saving", "stop", "left"}
InFlight == turn.pc \in {"respond", "receipt"}
\* The turn goes on to p and remembers what it did.
Along(p) ==
    /\ turn'.pc = p /\ turn'.superseded = turn.superseded
    /\ turn'.failed = turn.failed /\ turn'.end = turn.end

\* What a step does to the position of a turn and to what it remembers of its
\* scope, its end and its failure.
LEMMA TurnEffects ==
    ASSUME TcTypeOK, TcNext
    PROVE  /\ turn'.superseded = turn.superseded \/ receive_directive
           /\ turn'.failed = turn.failed \/ execute_task_request
           /\ turn'.end = turn.end \/ turn'.end \in Ends \ {"complete"}
           /\ turn'.pc = "admit" => turn.pc = "admit"
           /\ turn'.pc \in Closed =>
                 turn.pc \in Closed \/ admit \/ end_task \/ finish_run \/ execute_task_request
           /\ (InFlight <=> InFlight') \/ reserve_model_call \/ record_model_call
<1> USE DEF TcTypeOK, TurnPcs, Closed, InFlight
<1>1. CASE admit
  BY <1>1, TurnMoves, TurnFields DEF admit, Turn, At
<1>2. CASE prepare_isolated_workspace
  BY <1>2, TurnMoves, TurnFields DEF prepare_isolated_workspace, Turn, At
<1>3. CASE run_contract
  BY <1>3, TurnMoves, TurnFields DEF run_contract, Ends, Turn, At, CancellationOutcome
<1>4. CASE prepare_turn_tools
  <2>1. turn.pc = "context"
    BY <1>4 DEF prepare_turn_tools, At
  <2>2. ASSUME NEW b, turn' = [To("reserve") EXCEPT !.force = FALSE, !.bitmap = b]
        PROVE  Along("reserve")
    BY <2>2, TurnMoves, TurnFields DEF Turn, Along
  <2>3. turn' = Fail \/ Along("reserve")
    BY <1>4, <2>2 DEF prepare_turn_tools
  <2>4. CASE turn' = Fail
    BY <2>1, <2>4, TurnFields
  <2>5. CASE Along("reserve")
    BY <2>1, <2>5 DEF Along
  <2>6. QED
    BY <2>3, <2>4, <2>5
<1>5. CASE reserve_model_call
  BY <1>5, TurnMoves, TurnFields DEF reserve_model_call, Ends, Turn, At
<1>6. CASE respond
  BY <1>6, TurnMoves, TurnFields DEF respond, Turn, At
<1>7. CASE record_model_call
  BY <1>7, TurnMoves, TurnFields DEF record_model_call, Turn, At
<1>8. CASE judge
  BY <1>8, TurnMoves, TurnFields DEF judge, Ends, Turn, At, CancellationOutcome
<1>9. CASE wait_for_provider_retry
  BY <1>9, TurnMoves, TurnFields DEF wait_for_provider_retry, Ends, Turn, At,
     CancellationOutcome
<1>10. CASE record_response
  <2>1. turn.pc = "record"
    BY <1>10 DEF record_response, At
  <2>2. ASSUME NEW n, NEW e, turn' = [Load("propose") EXCEPT !.todo = n, !.exclusive = e]
        PROVE  Along("propose")
    BY <2>2, TurnMoves, TurnFields DEF Turn, Along
  <2>3. ASSUME turn' = [Load("propose") EXCEPT !.todo = 0]
        PROVE  Along("propose")
    BY <2>3, TurnMoves, TurnFields DEF Turn, Along
  <2>4. turn' = Ending("budget") \/ Along("propose")
    BY <1>10, <2>2, <2>3 DEF record_response
  <2>5. CASE turn' = Ending("budget")
    BY <2>1, <2>5, TurnFields DEF Ends
  <2>6. CASE Along("propose")
    BY <2>1, <2>6 DEF Along
  <2>7. QED
    BY <2>4, <2>5, <2>6
<1>11. CASE handle_empty_response
  BY <1>11, TurnMoves, TurnFields DEF handle_empty_response, Ends, Turn, At
<1>12. CASE proposals_done
  BY <1>12, TurnMoves, TurnFields DEF proposals_done, Turn, At, Proposing
<1>13. CASE propose_other
  BY <1>13, TurnMoves, TurnFields DEF propose_other, Turn, At, Proposing,
     CanPropose, Done
<1>14. CASE admit_proposal
  BY <1>14, TurnMoves, TurnFields DEF admit_proposal, Turn, At, TaskOpen,
     Proposing, CanPropose, Done
<1>15. CASE propose_completion
  BY <1>15, TurnMoves, TurnFields DEF propose_completion, Ends, Turn, At,
     Proposing, CanPropose, Done
<1>16. CASE report_blocker
  BY <1>16, TurnMoves, TurnFields DEF report_blocker, Ends, Turn, At, Proposing,
     CanPropose
<1>17. CASE verify_task
  BY <1>17, TurnMoves, TurnFields DEF verify_task, Turn, At, Proposing, CanPropose, Done
<1>18. CASE spawn_agent
  BY <1>18, TurnMoves, TurnFields DEF spawn_agent, Turn, At, Proposing, CanPropose, Done
<1>19. CASE dispatch
  BY <1>19, TurnMoves, TurnFields DEF dispatch, Turn, At, Proposing, CanPropose, Done
<1>20. CASE start_execution_job
  BY <1>20, TurnMoves, TurnFields DEF start_execution_job, Turn, At, TaskOpen,
     Admissible, Current
<1>21. CASE settle_execution_job
  BY <1>21, TurnMoves, TurnFields DEF settle_execution_job, Turn, At
<1>22. CASE reconcile_unresolved
  BY <1>22, TurnMoves, TurnFields DEF reconcile_unresolved, Turn, At, NoWriter
<1>23. CASE freeze
  BY <1>23, TurnMoves, TurnFields DEF freeze, Turn, At, TaskOpen, NoWriter
<1>24. CASE verify_missing
  BY <1>24, TurnMoves, TurnFields DEF verify_missing, Turn, At
<1>25. CASE prepare_check
  BY <1>25, TurnMoves, TurnFields DEF prepare_check, Turn, At, TaskOpen,
     Admissible, AfterCheck
<1>26. CASE finish_check
  BY <1>26, TurnMoves, TurnFields DEF finish_check, Turn, At, AfterCheck
<1>27. CASE deliver
  BY <1>27, TurnMoves, TurnFields DEF deliver, Turn, At, TaskOpen, predicates_match
<1>28. CASE complete
  BY <1>28, TurnMoves, TurnFields DEF complete, Turn, At, TaskOpen, Admissible, NoWriter
<1>29. CASE finish_run
  BY <1>29, TurnMoves, TurnFields DEF finish_run, Turn, At, CancelChildren
<1>30. CASE end_task
  BY <1>30, TurnMoves, TurnFields DEF end_task, Turn, At, CancelChildren
<1>31. CASE checkpoint_workspace
  BY <1>31, TurnMoves, TurnFields DEF checkpoint_workspace, Turn, At, TaskOpen, NoWriter
<1>32. CASE stop
  BY <1>32, TurnMoves, TurnFields DEF stop, Turn, At, TaskOpen
<1>33. CASE execute_task_request
  BY <1>33, TurnMoves, TurnFields DEF execute_task_request, Ends, Turn, At, TaskOpen
<1>34. CASE receive_directive
  <2>1. turn' = [[turn EXCEPT !.superseded = TRUE] EXCEPT !.fresh = FALSE]
    BY <1>34 DEF receive_directive, Elsewhere
  <2>2. turn'.failed = turn.failed /\ turn'.end = turn.end /\ turn'.pc = turn.pc
    BY <2>1 DEF Turn
  <2>3. QED
    BY <1>34, <2>2
<1>35. CASE cancel
  BY <1>35, TurnMoves, TurnFields DEF cancel, Turn, TaskOpen, Elsewhere, InTurn
<1>36. CASE expire
  BY <1>36, TurnMoves, TurnFields DEF expire, Turn, InTurn
<1>37. CASE child_start_job
  BY <1>37, TurnMoves, TurnFields DEF child_start_job, Turn, TaskOpen, Admissible,
     Elsewhere
<1>38. CASE child_settle_job
  BY <1>38, TurnMoves, TurnFields DEF child_settle_job, Turn, Elsewhere
<1>39. CASE child_ends
  BY <1>39, TurnMoves, TurnFields DEF child_ends, Turn
<1>40. QED
  BY <1>1, <1>2, <1>3, <1>4, <1>5, <1>6, <1>7, <1>8, <1>9, <1>10, <1>11,
     <1>12, <1>13, <1>14, <1>15, <1>16, <1>17, <1>18, <1>19, <1>20, <1>21,
     <1>22, <1>23, <1>24, <1>25, <1>26, <1>27, <1>28, <1>29, <1>30, <1>31,
     <1>32, <1>33, <1>34, <1>35, <1>36, <1>37, <1>38, <1>39 DEF TcNext, TurnStep

\* What a step does to the account, the contract and the outcome of a task.
LEMMA TaskEffects ==
    ASSUME TcTypeOK, TcNext
    PROVE  /\ \/ reserve_model_call \/ record_model_call
              \/ /\ task'.calls = task.calls /\ task'.receipts = task.receipts
                 /\ task'.unbilled = task.unbilled
           /\ task'.contract = "accepted" => task.contract = "accepted" \/ admit_proposal
           /\ \/ task'.outcome \in {task.outcome, "none"} \/ complete
              \/ stop /\ task'.outcome = turn.end
           /\ task.job = "running" \/ task'.job # "running" \/ start_execution_job
<1> USE DEF TcTypeOK
<1>1. CASE admit
  BY <1>1 DEF admit, Task, Invalidated
<1>2. CASE reserve_model_call
  BY <1>2 DEF reserve_model_call, Task, Invalidated
<1>3. CASE record_model_call
  BY <1>3 DEF record_model_call, Task, Invalidated
<1>4. CASE admit_proposal
  BY <1>4 DEF admit_proposal, Task, Invalidated
<1>5. CASE start_execution_job
  BY <1>5 DEF start_execution_job, Task, Invalidated
<1>6. CASE settle_execution_job
  BY <1>6 DEF settle_execution_job, Task, Invalidated
<1>7. CASE reconcile_unresolved
  BY <1>7 DEF reconcile_unresolved, Task, Invalidated
<1>8. CASE freeze
  BY <1>8 DEF freeze, Task, Invalidated
<1>9. CASE prepare_check
  BY <1>9 DEF prepare_check, Task, Invalidated
<1>10. CASE finish_check
  BY <1>10 DEF finish_check, Task, Invalidated
<1>11. CASE deliver
  BY <1>11 DEF deliver, Task, Invalidated
<1>12. CASE complete
  BY <1>12 DEF complete, Task, Invalidated
<1>13. CASE finish_run
  BY <1>13 DEF finish_run, Task, Invalidated
<1>14. CASE checkpoint_workspace
  BY <1>14 DEF checkpoint_workspace, Task, Invalidated
<1>15. CASE stop
  BY <1>15 DEF stop, Task, Invalidated
<1>16. CASE receive_directive
  BY <1>16 DEF receive_directive, Task, Invalidated
<1>17. CASE cancel
  BY <1>17 DEF cancel, Task, Invalidated
<1>18. CASE expire
  BY <1>18 DEF expire, Task, Invalidated
<1>19. CASE UNCHANGED task
  BY <1>19
<1>20. QED
  BY <1>1, <1>2, <1>3, <1>4, <1>5, <1>6, <1>7, <1>8, <1>9, <1>10, <1>11,
     <1>12, <1>13, <1>14, <1>15, <1>16, <1>17, <1>18, <1>19 DEF TcNext, TurnStep,
     prepare_isolated_workspace, run_contract, prepare_turn_tools, respond,
     judge, wait_for_provider_retry, record_response, handle_empty_response,
     proposals_done, propose_other, propose_completion, report_blocker,
     verify_task, spawn_agent, dispatch, verify_missing, end_task,
     execute_task_request, child_start_job, child_settle_job, child_ends

\* Once a task has its outcome, its turn can only finish; the operator, the
\* deadline and the child may still act.
LEMMA AfterOutcome ==
    ASSUME turn.pc \in {"settle", "left"}, TcNext
    PROVE  \/ finish_run \/ receive_directive \/ cancel \/ expire
           \/ child_start_job \/ child_settle_job \/ child_ends
BY DEF TcNext, TurnStep, At, Proposing, CanPropose,
     admit, prepare_isolated_workspace, run_contract, prepare_turn_tools,
     reserve_model_call, respond, record_model_call, judge,
     wait_for_provider_retry, record_response, handle_empty_response,
     proposals_done, propose_other, admit_proposal, propose_completion,
     report_blocker, verify_task, spawn_agent, dispatch, start_execution_job,
     settle_execution_job, reconcile_unresolved, freeze, verify_missing,
     prepare_check, finish_check, deliver, complete, end_task,
     checkpoint_workspace, stop, execute_task_request

\* A call is reserved before it is sent and receipted before it is judged.
LEMMA LedgerStep ==
    ASSUME TcTypeOK, Ledger, TcNext
    PROVE  Ledger'
<1>1. CASE reserve_model_call
  <2>1. turn.pc = "reserve"
    BY <1>1 DEF reserve_model_call, At
  <2>2. \/ turn' = Load("respond") /\ task' = [task EXCEPT !.calls = @ + 1]
        \/ UNCHANGED task /\ turn'.pc = "ending"
    BY <1>1, TurnFields DEF reserve_model_call, TcTypeOK, Ends
  <2>3. CASE turn' = Load("respond") /\ task' = [task EXCEPT !.calls = @ + 1]
    BY <2>1, <2>3, TurnFields DEF TcTypeOK, TurnPcs, Task, Ledger
  <2>4. CASE UNCHANGED task /\ turn'.pc = "ending"
    BY <2>1, <2>4 DEF Ledger
  <2>5. QED
    BY <2>2, <2>3, <2>4
<1>2. CASE record_model_call
  BY <1>2, TurnFields DEF record_model_call, At, TcTypeOK, Task, TurnPcs, Ledger
<1>3. CASE ~reserve_model_call /\ ~record_model_call
  BY <1>3, TurnEffects, TaskEffects DEF Ledger, InFlight
<1>4. QED
  BY <1>1, <1>2, <1>3

\* A contract is accepted only for a scope that has not moved.
LEMMA FenceStep ==
    ASSUME TcTypeOK, ScopeFence, TcNext
    PROVE  ScopeFence'
<1>1. CASE receive_directive
  BY <1>1 DEF receive_directive, Invalidated, TcTypeOK, Task, ScopeFence
<1>2. CASE ~receive_directive
  <2>1. turn'.superseded = turn.superseded
    BY <1>2, TurnEffects
  <2>2. task'.contract = "accepted" => task.contract = "accepted" \/ ~turn.superseded
    BY TaskEffects DEF admit_proposal
  <2>3. QED
    BY <2>1, <2>2 DEF ScopeFence
<1>3. QED
  BY <1>1, <1>2

\* An outcome is recorded only by complete, on the way to settle, and by stop.
LEMMA OutcomeStep ==
    ASSUME TcTypeOK, OutcomeLast, TcNext
    PROVE  OutcomeLast'
<1>1. turn'.end # "complete"
  BY TurnEffects DEF OutcomeLast
<1>2. ASSUME task'.outcome # "none"
      PROVE  turn'.pc \in {"settle", "left"}
  <2>1. CASE turn.pc \in {"settle", "left"}
    <3>1. CASE finish_run
      BY <1>2, <3>1, TurnFields DEF finish_run, TaskOpen, TcTypeOK, TurnPcs
    <3>2. CASE receive_directive
      BY <2>1, <3>2 DEF receive_directive, Elsewhere, TcTypeOK, Turn
    <3>3. CASE cancel
      BY <2>1, <3>3 DEF cancel, Elsewhere, TcTypeOK, Turn
    <3>4. CASE expire
      BY <2>1, <3>4 DEF expire, TcTypeOK, Turn
    <3>5. CASE child_start_job \/ child_settle_job \/ child_ends
      BY <2>1, <3>5 DEF child_start_job, child_settle_job, child_ends, Elsewhere,
         TcTypeOK, Turn
    <3>6. QED
      BY <2>1, <3>1, <3>2, <3>3, <3>4, <3>5, AfterOutcome
  <2>2. CASE complete
    <3>1. turn' = Load("settle") \/ UNCHANGED task
      BY <2>2 DEF complete
    <3>2. turn.pc = "finish"
      BY <2>2 DEF complete, At
    <3>3. QED
      BY <1>2, <3>1, <3>2, TurnFields DEF TcTypeOK, TurnPcs, OutcomeLast
  <2>3. CASE stop
    BY <1>2, <2>3, TurnFields DEF stop, At, TcTypeOK, TurnPcs, OutcomeLast
  <2>4. QED
    BY <1>2, <2>1, <2>2, <2>3, TaskEffects DEF OutcomeLast
<1>3. QED
  BY <1>1, <1>2 DEF OutcomeLast

\* Only a failed turn is checkpointed or left with a live child.
LEMMA ChildrenStep ==
    ASSUME TcTypeOK, OutcomeLast, ChildrenStopped, TcNext
    PROVE  ChildrenStopped'
<1>1. \/ UNCHANGED child \/ spawn_agent \/ reconcile_unresolved \/ finish_run \/ end_task
      \/ child_start_job \/ child_settle_job \/ child_ends
  BY DEF TcNext, TurnStep,
     admit, prepare_isolated_workspace, run_contract, prepare_turn_tools,
     reserve_model_call, respond, record_model_call, judge,
     wait_for_provider_retry, record_response, handle_empty_response,
     proposals_done, propose_other, admit_proposal, propose_completion,
     report_blocker, verify_task, dispatch, start_execution_job,
     settle_execution_job, freeze, verify_missing, prepare_check,
     finish_check, deliver, complete, checkpoint_workspace, stop,
     execute_task_request, receive_directive, cancel, expire
<1>2. ASSUME turn.pc \in Closed \cup {"admit"}
      PROVE  UNCHANGED child \/ child_start_job \/ child_settle_job \/ child_ends
  BY <1>1, <1>2 DEF Closed, spawn_agent, CanPropose, Proposing, reconcile_unresolved,
     finish_run, end_task, At
<1>3. turn'.pc = "admit" => child'.state = "none"
  BY <1>2, TurnEffects DEF ChildrenStopped, child_start_job, child_settle_job,
     child_ends
<1>4. ASSUME turn'.pc \in Closed, ~turn'.failed
      PROVE  child'.state \in {"none", "over"} \/ child'.cancelled
  <2>1. CASE end_task \/ finish_run
    BY <2>1, ChildCancelled DEF end_task, finish_run, TcTypeOK
  <2>2. CASE admit
    BY <2>2 DEF admit, At, ChildrenStopped
  <2>3. CASE execute_task_request
    <3>1. turn.pc = "error" /\ TaskOpen
      BY <2>3 DEF execute_task_request, At, OutcomeLast, TaskOpen
    <3>2. turn'.failed
      BY <2>3, <3>1, TurnMoves, TurnFields DEF execute_task_request, TcTypeOK,
         Turn, TurnPcs
    <3>3. QED
      BY <1>4, <3>2
  <2>4. CASE turn.pc \in Closed /\ ~execute_task_request
    <3>1. child.state \in {"none", "over"} \/ child.cancelled
      BY <1>4, <2>4, TurnEffects DEF ChildrenStopped, Closed
    <3>2. CASE UNCHANGED child
      BY <3>1, <3>2
    <3>3. CASE child_start_job
      BY <3>1, <3>3 DEF child_start_job
    <3>4. CASE child_settle_job \/ child_ends
      BY <3>1, <3>4 DEF child_settle_job, child_ends, TcTypeOK, Child
    <3>5. QED
      BY <2>4, <1>2, <3>2, <3>3, <3>4
  <2>5. QED
    BY <1>4, <2>1, <2>2, <2>3, <2>4, TurnEffects
<1>5. QED
  BY <1>3, <1>4 DEF ChildrenStopped, Closed

\* What a completion rests on stands until a follow-up reopens the task.
LEMMA CoveredStep ==
    ASSUME TcTypeOK, OutcomeLast, ScopeFence, CompletionCovered, TcNext
    PROVE  CompletionCovered'
<1>1. CASE task.outcome = "complete"
  <2>1. CASE receive_directive
    BY <2>1 DEF receive_directive, Invalidated, TcTypeOK, Task, CompletionCovered
  <2>2. CASE finish_run
    BY <1>1, <2>2, ChildCancelled, TurnFields DEF finish_run, TcTypeOK, Task,
       TurnPcs, CompletionCovered
  <2>3. CASE cancel \/ expire
    <3>1. turn'.superseded = turn.superseded
      BY <2>3 DEF cancel, expire, Elsewhere, TcTypeOK, Turn
    <3>2. /\ task'.contract = task.contract /\ task'.delivered = task.delivered
          /\ task'.evidence = task.evidence /\ task'.job = task.job /\ UNCHANGED child
      BY <2>3 DEF cancel, expire, TcTypeOK, Task
    <3>3. QED
      BY <1>1, <3>1, <3>2 DEF CompletionCovered
  <2>4. CASE child_start_job \/ child_settle_job \/ child_ends
    BY <1>1, <2>4 DEF child_start_job, child_settle_job, child_ends, Admissible,
       TaskOpen,
       Elsewhere, TcTypeOK, Child, Turn, CompletionCovered
  <2>5. QED
    BY <1>1, <2>1, <2>2, <2>3, <2>4, AfterOutcome DEF OutcomeLast
<1>2. CASE task.outcome # "complete" /\ task'.outcome = "complete"
  <2>1. complete
    BY <1>2, TaskEffects DEF OutcomeLast
  <2>2. /\ task.contract = "accepted" /\ task.evidence = "pass" /\ task.delivered
        /\ task.job = "none" /\ child.state # "running" /\ UNCHANGED child
        /\ turn' = Load("settle") /\ task' = [task EXCEPT !.outcome = "complete"]
    BY <1>2, <2>1 DEF complete, NoWriter
  <2>3. ~turn'.superseded
    BY <2>2, TurnFields DEF TcTypeOK, TurnPcs, ScopeFence
  <2>4. QED
    BY <2>2, <2>3 DEF TcTypeOK, Task, CompletionCovered
<1>3. QED
  BY <1>1, <1>2 DEF CompletionCovered

\* The invariant above holds in every reachable state of a turn, for every
\* limit on calls, retries, proposals, follow-ups and jobs of the child.
THEOREM TurnInvariant == TcSpec => []TurnKeeps
<1>1. TcInit => TurnKeeps
  <2>1. TcInit => TcTypeOK
    BY TaskControllerAssumption DEF TcInit, TcTypeOK, Turn, Task, Child, TurnPcs,
       Answers, Ends
  <2>2. TcInit => TurnKept
    BY DEF TcInit, TurnKept, Ledger, ScopeFence, OutcomeLast, ChildrenStopped,
       CompletionCovered
  <2>3. QED
    BY <2>1, <2>2 DEF TurnKeeps
<1>2. TurnKeeps /\ [TcNext]_tcVars => TurnKeeps'
  <2>1. TurnKeeps /\ TcNext => TcTypeOK'
    BY TurnTypeStep, TaskTypeStep, ChildTypeStep DEF TurnKeeps, TurnKept, TcTypeOK
  <2>2. TurnKeeps /\ TcNext => TurnKept'
    BY LedgerStep, FenceStep, OutcomeStep, ChildrenStep, CoveredStep DEF TurnKeeps,
       TurnKept
  <2>3. TurnKeeps /\ UNCHANGED tcVars => TurnKeeps'
    BY DEF tcVars, TurnKeeps, TurnKept, TcTypeOK, Ledger, ScopeFence, OutcomeLast,
       ChildrenStopped, CompletionCovered
  <2>4. QED
    BY <2>1, <2>2, <2>3 DEF TurnKeeps
<1>3. QED
  BY <1>1, <1>2, PTL DEF TcSpec

\* Store::complete and what may follow it: a completed task stays covered by
\* the contract of its scope, its evidence and its delivery until a follow-up
\* reopens it.
THEOREM CompletionIsCovered == TcSpec => []CompletionCovered
<1>1. TurnKeeps => CompletionCovered
  BY DEF TurnKeeps, TurnKept
<1>2. QED
  BY <1>1, TurnInvariant, PTL

\* record_model_call: no way out of a turn skips the receipt of a call.
THEOREM EveryCallReceipted == TcSpec => []CallsReceipted
<1>1. TurnKeeps => CallsReceipted
  BY DEF TurnKeeps, TurnKept, Ledger, CallsReceipted, At
<1>2. QED
  BY <1>1, TurnInvariant, PTL

\* end_task and finish_run cancel the children before the turn is left.
THEOREM ChildrenEndWithTurn == TcSpec => []SettledCancelsChildren
<1>1. TurnKeeps => SettledCancelsChildren
  BY DEF TurnKeeps, TurnKept, ChildrenStopped, SettledCancelsChildren, At
<1>2. QED
  BY <1>1, TurnInvariant, PTL

\* reserve_model_call and dispatch compare the scope under the lock that
\* starts the call or the job.
THEOREM FollowUpFences == TcSpec => SupersededStartsNothing
<1> DEFINE Fenced == turn.superseded => /\ ~(task.job # "running" /\ task'.job = "running")
                                       /\ task'.calls = task.calls
<1>1. TurnKeeps /\ [TcNext]_tcVars => [Fenced]_tcVars
  <2>1. ASSUME TurnKeeps, TcNext, turn.superseded
        PROVE  Fenced
    <3>1. TcTypeOK
      BY <2>1 DEF TurnKeeps
    <3>2. CASE start_execution_job
      BY <2>1, <3>1, <3>2 DEF start_execution_job, Current
    <3>3. CASE reserve_model_call
      BY <2>1, <3>1, <3>3 DEF reserve_model_call
    <3>4. CASE record_model_call
      BY <3>1, <3>4 DEF record_model_call, TcTypeOK, Task
    <3>5. QED
      BY <2>1, <3>1, <3>2, <3>3, <3>4, TaskEffects
  <2>2. QED
    BY <2>1
<1>2. QED
  BY <1>1, TurnInvariant, PTL DEF TcSpec, SupersededStartsNothing

-----------------------------------------------------------------------------
(* The children of a turn. *)

\* A nonempty set of numbers has a least member.
LEMMA LeastNumber ==
    ASSUME NEW S \in SUBSET Nat, S # {}
    PROVE  \E n \in S : \A m \in S : n <= m
<1>1. PICK n \in S : \A m \in S : ~(<<m, n>> \in OpToRel(<, Nat))
  BY NatLessThanWellFounded, WFMin, Zenon
<1>2. \A m \in S : ~(m < n)
  BY <1>1, Zenon DEF OpToRel
<1> QED BY <1>2

\* A finite set of numbers is bounded.
LEMMA FiniteBounded ==
    ASSUME NEW S \in SUBSET Nat, IsFiniteSet(S)
    PROVE  \E n \in Nat : \A m \in S : m <= n
<1> DEFINE Bounded(T) == \E n \in Nat : \A m \in T : m <= n
           Sizes == {Cardinality(T) : T \in {U \in SUBSET S : ~Bounded(U)}}
<1> SUFFICES ASSUME ~Bounded(S) PROVE FALSE
  OBVIOUS
<1>1. \A T \in SUBSET S : IsFiniteSet(T) /\ Cardinality(T) \in Nat
  BY FS_Subset, FS_CardinalityType
<1>2. Sizes \in SUBSET Nat /\ Sizes # {}
  BY <1>1
<1>3. PICK n \in Sizes : \A m \in Sizes : n <= m
  BY <1>2, LeastNumber
<1>4. PICK T \in SUBSET S : ~Bounded(T) /\ n = Cardinality(T)
  BY <1>3
<1>5. PICK x \in T : TRUE
  <2>1. Bounded({})
    OBVIOUS
  <2> QED BY <2>1, <1>4
<1>6. Cardinality(T \ {x}) = Cardinality(T) - 1 /\ T \ {x} \in SUBSET S
  BY <1>1, FS_RemoveElement
<1>7. Bounded(T \ {x})
  <2> SUFFICES ASSUME ~Bounded(T \ {x}) PROVE FALSE
    OBVIOUS
  <2>1. Cardinality(T \ {x}) \in Sizes
    BY <1>6
  <2> HIDE DEF Sizes
  <2> QED BY <2>1, <1>3, <1>6, <1>4, <1>1
<1>8. PICK b \in Nat : \A m \in T \ {x} : m <= b
  BY <1>7
<1>9. \A m \in T : m <= b + x
  BY <1>8
<1>10. b + x \in Nat
  BY <1>8, <1>5
<1>11. Bounded(T)
  BY <1>9, <1>10
<1> QED BY <1>11, <1>4

\* A nonempty finite set of numbers has a largest member.
LEMMA Largest ==
    ASSUME NEW S \in SUBSET Nat, IsFiniteSet(S), S # {}
    PROVE  \E n \in S : \A m \in S : m <= n
<1> DEFINE Bounds == {n \in Nat : \A m \in S : m <= n}
<1>1. Bounds \in SUBSET Nat /\ Bounds # {}
  BY FiniteBounded
<1>2. PICK n \in Bounds : \A m \in Bounds : n <= m
  BY <1>1, LeastNumber
<1>3. n \in S
  <2> SUFFICES ASSUME n \notin S PROVE FALSE
    OBVIOUS
  <2>1. \A m \in S : m <= n - 1 /\ m \in Nat
    BY <1>2
  <2>0. PICK m \in S : TRUE
    OBVIOUS
  <2>2. n - 1 \in Nat
    BY <2>0, <2>1, <1>2
  <2>3. n - 1 \in Bounds
    BY <2>1, <2>2
  <2>4. n \in Nat
    BY <1>2
  <2> HIDE DEF Bounds
  <2> QED BY <2>3, <1>2, <2>4
<1> QED BY <1>3, <1>2

-----------------------------------------------------------------------------
(* Replaying one journal. *)

Entry == [kind : {"spawned", "accepted", "consumed"}, value : Nat]
            \cup [kind : {"terminal"}, value : Verdicts]

Places(j, k) == {i \in DOMAIN j : j[i].kind = k}
Worth(j, k) == {j[i].value : i \in Places(j, k)}
Count(j) == Cardinality(Places(j, "accepted"))
Left(j) == (1..Count(j)) \ Worth(j, "consumed")

\* What recover makes of the journal of one child.
StatusOf(j) ==
    IF j = <<>> THEN "absent"
    ELSE IF Places(j, "terminal") = {} THEN "running"
    ELSE CHOOSE v \in Worth(j, "terminal") : TRUE
SequenceOf(j) == IF j = <<>> THEN 0 ELSE j[1].value
InboxOf(j) == IF j = <<>> THEN <<>> ELSE InOrder(Left(j))

\* A journal the next host can replay: JournalReplays of one child, the
\* messages numbered without a gap and consumed in order.
Kept(j) ==
    /\ j \in Seq(Entry)
    /\ \A i \in 1..Len(j) : j[i].kind = "spawned" <=> i = 1
    /\ \A i \in 1..Len(j) : j[i].kind = "terminal" => i = Len(j)
    /\ \A m \in 1..Count(j) : \E i \in 1..Len(j) : j[i] = Accepted(m)
    /\ \A i \in 1..Len(j) : j[i].kind = "consumed" =>
            \E k \in 1..(i - 1) : j[k] = Accepted(j[i].value)
    /\ \A i \in 1..Len(j) : j[i].kind = "consumed" =>
            \A k \in 1..(i - 1) : j[k] # j[i]
    /\ \E c \in 0..Count(j) : Worth(j, "consumed") = 1..c

\* InOrder of an interval: the messages after c, up to w.
LEMMA IntervalInOrder ==
    ASSUME NEW c \in Nat, NEW w \in Nat, c <= w
    PROVE  /\ InOrder((c + 1)..w) = [i \in 1..(w - c) |-> c + i]
           /\ Cardinality((c + 1)..w) = w - c
<1>1. \A m \in Nat : c <= m => Cardinality((c + 1)..m) = m - c
  <2> TAKE m \in Nat
  <2> HAVE c <= m
  <2>1. c + 1 \in Int /\ m \in Int
    OBVIOUS
  <2>2. Cardinality((c + 1)..m) = IF c + 1 > m THEN 0 ELSE m - (c + 1) + 1
    BY <2>1, FS_Interval, Zenon
  <2> QED BY <2>2
<1>2. Cardinality((c + 1)..w) = w - c
  BY <1>1
<1>3. ASSUME NEW i \in 1..(w - c)
      PROVE  (CHOOSE m \in (c + 1)..w : Cardinality({k \in (c + 1)..w : k <= m}) = i) = c + i
  <2>1. \A m \in (c + 1)..w : {k \in (c + 1)..w : k <= m} = (c + 1)..m
    OBVIOUS
  <2>2. \A m \in (c + 1)..w : Cardinality({k \in (c + 1)..w : k <= m}) = m - c
    <3> TAKE m \in (c + 1)..w
    <3>1. m \in Nat /\ c <= m
      OBVIOUS
    <3>2. Cardinality((c + 1)..m) = m - c
      BY <3>1, <1>1
    <3> QED BY <3>2, <2>1
  <2>3. c + i \in (c + 1)..w
    OBVIOUS
  <2>4. \A m \in (c + 1)..w : Cardinality({k \in (c + 1)..w : k <= m}) = i <=> m = c + i
    BY <2>2
  <2> QED BY <2>3, <2>4
<1> QED BY <1>2, <1>3 DEF InOrder

LEMMA FunctionIsSeq ==
    ASSUME NEW S, NEW n \in Nat, NEW f \in [1..n -> S]
    PROVE  f \in Seq(S) /\ Len(f) = n
OBVIOUS

\* What one more record does to the places and the values of a kind.
LEMMA AppendPlaces ==
    ASSUME NEW j \in Seq(Entry), NEW e \in Entry, NEW k
    PROVE  /\ Append(j, e) \in Seq(Entry) /\ Append(j, e) # <<>>
           /\ Places(Append(j, e), k) =
                Places(j, k) \cup (IF e.kind = k THEN {Len(j) + 1} ELSE {})
           /\ Worth(Append(j, e), k) =
                Worth(j, k) \cup (IF e.kind = k THEN {e.value} ELSE {})
<1>1. /\ Append(j, e) \in Seq(Entry) /\ Append(j, e) # <<>>
      /\ DOMAIN Append(j, e) = DOMAIN j \cup {Len(j) + 1}
      /\ Len(Append(j, e)) = Len(j) + 1
      /\ \A i \in DOMAIN j : Append(j, e)[i] = j[i]
      /\ Append(j, e)[Len(j) + 1] = e
      /\ Len(j) + 1 \notin DOMAIN j
  OBVIOUS
<1>2. Places(Append(j, e), k) =
                Places(j, k) \cup (IF e.kind = k THEN {Len(j) + 1} ELSE {})
  BY <1>1 DEF Places
<1>3. \A i \in Places(j, k) : Append(j, e)[i] = j[i]
  BY <1>1 DEF Places
<1>4. Worth(Append(j, e), k) =
                Worth(j, k) \cup (IF e.kind = k THEN {e.value} ELSE {})
  <2>1. CASE e.kind = k
    <3>1. Places(Append(j, e), k) = Places(j, k) \cup {Len(j) + 1}
      BY <1>2, <2>1
    <3>2. Worth(Append(j, e), k) = Worth(j, k) \cup {e.value}
      <4> DEFINE J == Append(j, e)
                 n == Len(j) + 1
                 P == Places(j, k)
      <4>1. J[n].value = e.value /\ \A i \in P : J[i].value = j[i].value
        BY <1>1, <1>3
      <4>2. Worth(J, k) = {J[i].value : i \in P \cup {n}} /\ Worth(j, k) = {j[i].value : i \in P}
        BY <3>1 DEF Worth
      <4> HIDE DEF J, n, P
      <4>3. {J[i].value : i \in P \cup {n}} = {j[i].value : i \in P} \cup {e.value}
        BY <4>1, Zenon
      <4> QED BY <4>2, <4>3 DEF J
    <3> QED BY <3>2, <2>1
  <2>2. CASE e.kind # k
    <3>1. Places(Append(j, e), k) = Places(j, k)
      BY <1>2, <2>2
    <3>2. Worth(Append(j, e), k) = Worth(j, k)
      BY <3>1, <1>3 DEF Worth
    <3> QED BY <3>2, <2>2
  <2> QED BY <2>1, <2>2
<1> QED BY <1>1, <1>2, <1>4

LEMMA PlacesFinite ==
    ASSUME NEW j \in Seq(Entry), NEW k
    PROVE  /\ IsFiniteSet(Places(j, k)) /\ Cardinality(Places(j, k)) \in Nat
           /\ Places(j, k) \subseteq 1..Len(j)
<1>1. Places(j, k) \subseteq 1..Len(j) /\ IsFiniteSet(1..Len(j))
  BY FS_Interval DEF Places
<1> QED BY <1>1, FS_Subset, FS_CardinalityType

LEMMA EntriesKept ==
    /\ \A n \in Nat : Spawned(n) \in Entry /\ Accepted(n) \in Entry /\ Consumed(n) \in Entry
    /\ \A v \in Verdicts : Terminal(v) \in Entry
BY DEF Entry, Spawned, Accepted, Consumed, Terminal

\* The journal of a child that was just spawned.
LEMMA KeptSpawned ==
    ASSUME NEW n \in Nat
    PROVE  LET j == Append(<<>>, Spawned(n)) IN
           /\ Kept(j) /\ j # <<>> /\ Count(j) = 0
           /\ StatusOf(j) = "running" /\ SequenceOf(j) = n /\ InboxOf(j) = <<>>
           /\ Cardinality(Left(j)) = 0
<1> DEFINE j == <<Spawned(n)>>
<1>0. Append(<<>>, Spawned(n)) = j
  OBVIOUS
<1>1. /\ j \in Seq(Entry) /\ Len(j) = 1 /\ j # <<>> /\ DOMAIN j = {1}
      /\ j[1].kind = "spawned" /\ j[1].value = n
  BY EntriesKept DEF Spawned
<1> HIDE DEF j
<1>2. Places(j, "accepted") = {} /\ Places(j, "consumed") = {} /\ Places(j, "terminal") = {}
  BY <1>1 DEF Places
<1>3. Count(j) = 0 /\ Worth(j, "consumed") = {}
  BY <1>2, FS_EmptySet DEF Count, Worth
<1>4. Left(j) = {}
  BY <1>3 DEF Left
<1>5. Cardinality(Left(j)) = 0
  BY <1>4, FS_EmptySet
<1>6. InOrder(Left(j)) = <<>>
  BY <1>5 DEF InOrder
<1>7. Kept(j)
  <2>1. 0 \in 0..Count(j) /\ Worth(j, "consumed") = 1..0
    BY <1>3
  <2> QED BY <1>1, <1>3, <2>1 DEF Kept
<1> QED BY <1>0, <1>1, <1>2, <1>3, <1>5, <1>6, <1>7 DEF StatusOf, SequenceOf, InboxOf

\* A journal without a terminal is that of a running child.
LEMMA RunningOpen ==
    ASSUME NEW j, Kept(j)
    PROVE  /\ (StatusOf(j) = "running") <=> (j # <<>> /\ Places(j, "terminal") = {})
           /\ StatusOf(j) \in Verdicts \cup {"absent", "running"}
           /\ (StatusOf(j) = "absent") <=> (j = <<>>)
<1>1. CASE j = <<>>
  BY <1>1 DEF StatusOf
<1>2. CASE j # <<>> /\ Places(j, "terminal") = {}
  BY <1>2 DEF StatusOf
<1>3. CASE j # <<>> /\ Places(j, "terminal") # {}
  <2>1. j \in Seq(Entry)
    BY DEF Kept
  <2>2. \A i \in Places(j, "terminal") : j[i].value \in Verdicts
    BY <2>1 DEF Places, Entry
  <2>3. Worth(j, "terminal") # {} /\ Worth(j, "terminal") \subseteq Verdicts
    BY <1>3, <2>2 DEF Worth
  <2>4. StatusOf(j) \in Verdicts
    BY <1>3, <2>3 DEF StatusOf
  <2>5. "running" \notin Verdicts /\ "absent" \notin Verdicts
    BY DEF Verdicts
  <2> QED BY <1>3, <2>4, <2>5
<1> QED BY <1>1, <1>2, <1>3

\* The messages left are those after the last one consumed.
LEMMA LeftInterval ==
    ASSUME NEW j, Kept(j)
    PROVE  /\ Count(j) \in Nat
           /\ \E c \in 0..Count(j) :
                /\ Worth(j, "consumed") = 1..c
                /\ Left(j) = (c + 1)..Count(j)
                /\ Cardinality(Left(j)) = Count(j) - c
                /\ InOrder(Left(j)) = [i \in 1..(Count(j) - c) |-> c + i]
<1>1. Count(j) \in Nat
  BY PlacesFinite DEF Kept, Count
<1>2. PICK c \in 0..Count(j) : Worth(j, "consumed") = 1..c
  BY DEF Kept
<1>3. c \in Nat /\ c <= Count(j)
  BY <1>1
<1>4. Left(j) = (c + 1)..Count(j)
  BY <1>1, <1>2, <1>3 DEF Left
<1>5. /\ InOrder((c + 1)..Count(j)) = [i \in 1..(Count(j) - c) |-> c + i]
      /\ Cardinality((c + 1)..Count(j)) = Count(j) - c
  BY <1>1, <1>3, IntervalInOrder
<1> QED BY <1>1, <1>2, <1>4, <1>5

\* One more message is accepted: it is the last of the inbox.
LEMMA KeptAccepted ==
    ASSUME NEW j, Kept(j), StatusOf(j) = "running"
    PROVE  LET J == Append(j, Accepted(Count(j) + 1)) IN
           /\ Kept(J) /\ J # <<>> /\ J[1] = j[1] /\ Count(J) = Count(j) + 1
           /\ StatusOf(J) = "running" /\ SequenceOf(J) = SequenceOf(j)
           /\ InboxOf(J) = Append(InboxOf(j), Count(j) + 1)
           /\ Cardinality(Left(J)) = Cardinality(Left(j)) + 1
<1> DEFINE w == Count(j)
           e == Accepted(w + 1)
           J == Append(j, e)
<1>1. /\ j \in Seq(Entry) /\ w \in Nat /\ j # <<>> /\ Places(j, "terminal") = {}
  BY RunningOpen, LeftInterval DEF Kept
<1>2. e \in Entry /\ e.kind = "accepted" /\ e.value = w + 1
  BY <1>1, EntriesKept DEF Accepted
<1> HIDE DEF w
<1>3. /\ J \in Seq(Entry) /\ J # <<>>
      /\ Places(J, "accepted") = Places(j, "accepted") \cup {Len(j) + 1}
      /\ Places(J, "terminal") = {} /\ Worth(J, "consumed") = Worth(j, "consumed")
  <2> HIDE DEF e, J
  <2>1. \A k : /\ Append(j, e) \in Seq(Entry) /\ Append(j, e) # <<>>
               /\ Places(Append(j, e), k) =
                    Places(j, k) \cup (IF e.kind = k THEN {Len(j) + 1} ELSE {})
               /\ Worth(Append(j, e), k) =
                    Worth(j, k) \cup (IF e.kind = k THEN {e.value} ELSE {})
    BY <1>1, <1>2, AppendPlaces
  <2> QED BY <1>1, <1>2, <2>1 DEF J
<1>4. Count(J) = w + 1
  <2>1. Len(j) + 1 \notin Places(j, "accepted") /\ IsFiniteSet(Places(j, "accepted"))
    BY <1>1, PlacesFinite
  <2>2. Cardinality(Places(j, "accepted") \cup {Len(j) + 1}) = w + 1
    BY <2>1, FS_AddElement DEF w, Count
  <2> QED BY <1>3, <2>2 DEF Count
<1>5. /\ Len(J) = Len(j) + 1 /\ J[Len(j) + 1] = e
      /\ \A i \in 1..Len(j) : J[i] = j[i]
      /\ Len(j) \in Nat /\ Len(j) > 0
  BY <1>1
<1>6. PICK c \in 0..w : /\ Worth(j, "consumed") = 1..c
                        /\ Left(j) = (c + 1)..w
                        /\ Cardinality(Left(j)) = w - c
                        /\ InOrder(Left(j)) = [i \in 1..(w - c) |-> c + i]
  BY LeftInterval DEF w
<1> HIDE DEF J, e
<1>7. Kept(J)
  <2>1. \A i \in 1..Len(J) : i \in 1..Len(j) \/ (i = Len(j) + 1 /\ i # 1)
    BY <1>5
  <2>2. \A i \in 1..Len(J) : J[i].kind = "spawned" <=> i = 1
    BY <2>1, <1>5, <1>2 DEF Kept
  <2>3. \A i \in 1..Len(J) : J[i].kind = "terminal" => i = Len(J)
    <3>1. \A i \in 1..Len(j) : j[i].kind # "terminal"
      BY <1>1 DEF Places
    <3> QED BY <3>1, <2>1, <1>5, <1>2
  <2>4. \A m \in 1..Count(J) : \E i \in 1..Len(J) : J[i] = Accepted(m)
    <3> TAKE m \in 1..Count(J)
    <3>1. CASE m \in 1..w
      <4>1. PICK i \in 1..Len(j) : j[i] = Accepted(m)
        BY <3>1 DEF Kept, w
      <4> QED BY <4>1, <1>5
    <3>2. CASE m = w + 1
      BY <3>2, <1>5 DEF e
    <3> QED BY <3>1, <3>2, <1>4, <1>1
  <2>5. \A i \in 1..Len(J) : J[i].kind = "consumed" =>
            \E k \in 1..(i - 1) : J[k] = Accepted(J[i].value)
    <3> SUFFICES ASSUME NEW i \in 1..Len(J), J[i].kind = "consumed"
                 PROVE  \E k \in 1..(i - 1) : J[k] = Accepted(J[i].value)
      OBVIOUS
    <3>1. i \in 1..Len(j) /\ J[i] = j[i]
      BY <2>1, <1>5, <1>2
    <3>2. PICK k \in 1..(i - 1) : j[k] = Accepted(j[i].value)
      BY <3>1 DEF Kept
    <3>3. k \in 1..Len(j) /\ J[k] = j[k]
      BY <3>1, <1>5
    <3> QED BY <3>1, <3>2, <3>3
  <2>6. \A i \in 1..Len(J) : J[i].kind = "consumed" =>
            \A k \in 1..(i - 1) : J[k] # J[i]
    <3> SUFFICES ASSUME NEW i \in 1..Len(J), J[i].kind = "consumed", NEW k \in 1..(i - 1)
                 PROVE  J[k] # J[i]
      OBVIOUS
    <3>1. i \in 1..Len(j) /\ J[i] = j[i]
      BY <2>1, <1>5, <1>2
    <3>2. k \in 1..Len(j) /\ J[k] = j[k]
      BY <3>1, <1>5
    <3> QED BY <3>1, <3>2 DEF Kept
  <2>7. c \in 0..Count(J) /\ Worth(J, "consumed") = 1..c
    BY <1>3, <1>4, <1>6, <1>1
  <2> QED BY <1>3, <2>2, <2>3, <2>4, <2>5, <2>6, <2>7 DEF Kept
<1>8. /\ Left(J) = (c + 1)..(w + 1)
      /\ InOrder(Left(J)) = [i \in 1..(w + 1 - c) |-> c + i]
      /\ Cardinality(Left(J)) = w + 1 - c
  <2>1. Left(J) = (c + 1)..(w + 1)
    BY <1>1, <1>3, <1>4, <1>6 DEF Left
  <2> QED BY <2>1, <1>1, IntervalInOrder
<1>9. [i \in 1..(w + 1 - c) |-> c + i] = Append([i \in 1..(w - c) |-> c + i], w + 1)
  BY <1>1
<1>10. InboxOf(J) = Append(InboxOf(j), w + 1)
  BY <1>1, <1>3, <1>6, <1>8, <1>9 DEF InboxOf
<1>11. Cardinality(Left(J)) = Cardinality(Left(j)) + 1
  BY <1>1, <1>6, <1>8
<1>12. J[1] = j[1] /\ StatusOf(J) = "running" /\ SequenceOf(J) = SequenceOf(j)
  BY <1>1, <1>3, <1>5 DEF StatusOf, SequenceOf
<1> QED BY <1>3, <1>4, <1>7, <1>10, <1>11, <1>12 DEF w, J, e

\* The first message of the inbox is consumed.
LEMMA KeptConsumed ==
    ASSUME NEW j, Kept(j), StatusOf(j) = "running", InboxOf(j) # <<>>
    PROVE  LET J == Append(j, Consumed(Head(InboxOf(j)))) IN
           /\ Kept(J) /\ J # <<>> /\ J[1] = j[1] /\ Count(J) = Count(j)
           /\ StatusOf(J) = "running" /\ SequenceOf(J) = SequenceOf(j)
           /\ InboxOf(J) = Tail(InboxOf(j))
           /\ Cardinality(Left(J)) = Cardinality(Left(j)) - 1
<1> DEFINE w == Count(j)
<1>1. /\ j \in Seq(Entry) /\ w \in Nat /\ j # <<>> /\ Places(j, "terminal") = {}
  BY RunningOpen, LeftInterval DEF Kept
<1>2. PICK c \in 0..w : /\ Worth(j, "consumed") = 1..c
                        /\ Left(j) = (c + 1)..w
                        /\ Cardinality(Left(j)) = w - c
                        /\ InOrder(Left(j)) = [i \in 1..(w - c) |-> c + i]
  BY LeftInterval DEF w
<1> HIDE DEF w
<1>3. InboxOf(j) = [i \in 1..(w - c) |-> c + i]
  BY <1>1, <1>2 DEF InboxOf
<1>4. c < w /\ c \in Nat
  <2>1. CASE c = w
    <3>1. [i \in 1..(w - c) |-> c + i] = <<>>
      BY <2>1, <1>1
    <3> QED BY <3>1, <1>3
  <2> QED BY <2>1, <1>1
<1>5. /\ Head(InboxOf(j)) = c + 1
      /\ Tail(InboxOf(j)) = [i \in 1..(w - (c + 1)) |-> (c + 1) + i]
  BY <1>1, <1>3, <1>4
<1> DEFINE e == Consumed(c + 1)
           J == Append(j, e)
<1>6. e \in Entry /\ e.kind = "consumed" /\ e.value = c + 1
  BY <1>4, EntriesKept DEF Consumed
<1>7. /\ J \in Seq(Entry) /\ J # <<>>
      /\ Places(J, "accepted") = Places(j, "accepted") /\ Places(J, "terminal") = {}
      /\ Worth(J, "consumed") = Worth(j, "consumed") \cup {c + 1}
  <2> HIDE DEF e, J
  <2>1. \A k : /\ Append(j, e) \in Seq(Entry) /\ Append(j, e) # <<>>
               /\ Places(Append(j, e), k) =
                    Places(j, k) \cup (IF e.kind = k THEN {Len(j) + 1} ELSE {})
               /\ Worth(Append(j, e), k) =
                    Worth(j, k) \cup (IF e.kind = k THEN {e.value} ELSE {})
    BY <1>1, <1>6, AppendPlaces
  <2> QED BY <1>1, <1>6, <2>1 DEF J
<1>8. Count(J) = w
  BY <1>7 DEF Count, w
<1>9. Worth(J, "consumed") = 1..(c + 1)
  <2> HIDE DEF J, e
  <2>1. (1..c) \cup {c + 1} = 1..(c + 1)
    BY <1>4
  <2> QED BY <1>2, <1>7, <2>1
<1>10. /\ Len(J) = Len(j) + 1 /\ J[Len(j) + 1] = e
       /\ \A i \in 1..Len(j) : J[i] = j[i]
       /\ Len(j) \in Nat /\ Len(j) > 0
  BY <1>1
<1> HIDE DEF J, e
<1>11. Kept(J)
  <2>1. \A i \in 1..Len(J) : i \in 1..Len(j) \/ (i = Len(j) + 1 /\ i # 1)
    BY <1>10
  <2>2. \A i \in 1..Len(J) : J[i].kind = "spawned" <=> i = 1
    BY <2>1, <1>6, <1>10 DEF Kept
  <2>3. \A i \in 1..Len(J) : J[i].kind = "terminal" => i = Len(J)
    <3>1. \A i \in 1..Len(j) : j[i].kind # "terminal"
      BY <1>1 DEF Places
    <3> QED BY <3>1, <2>1, <1>6, <1>10
  <2>4. \A m \in 1..Count(J) : \E i \in 1..Len(J) : J[i] = Accepted(m)
    <3> TAKE m \in 1..Count(J)
    <3>1. PICK i \in 1..Len(j) : j[i] = Accepted(m)
      BY <1>8 DEF Kept, w
    <3> QED BY <3>1, <1>10
  <2>5. ASSUME NEW i \in 1..Len(J), J[i].kind = "consumed"
        PROVE  \E k \in 1..(i - 1) : J[k] = Accepted(J[i].value)
    <3>1. CASE i \in 1..Len(j)
      <4>1. PICK k \in 1..(i - 1) : j[k] = Accepted(j[i].value)
        BY <2>5, <3>1, <1>10 DEF Kept
      <4>2. k \in 1..Len(j) /\ J[k] = j[k] /\ J[i] = j[i]
        BY <3>1, <1>10
      <4> QED BY <4>1, <4>2
    <3>2. CASE i = Len(j) + 1
      <4>1. PICK k \in 1..Len(j) : j[k] = Accepted(c + 1)
        BY <1>1, <1>4 DEF Kept, w
      <4>2. k \in 1..(i - 1) /\ J[k] = j[k] /\ J[i].value = c + 1
        BY <3>2, <1>6, <1>10
      <4> QED BY <4>1, <4>2
    <3> QED BY <2>1, <3>1, <3>2
  <2>6. ASSUME NEW i \in 1..Len(J), J[i].kind = "consumed", NEW k \in 1..(i - 1)
        PROVE  J[k] # J[i]
    <3>1. k \in 1..Len(j) /\ J[k] = j[k]
      BY <1>10
    <3>2. CASE i \in 1..Len(j)
      BY <2>6, <3>1, <3>2, <1>10 DEF Kept
    <3>3. CASE i = Len(j) + 1
      <4>1. SUFFICES ASSUME j[k] = e PROVE FALSE
        BY <3>1, <3>3, <1>10
      <4>2. k \in Places(j, "consumed") /\ j[k].value = c + 1
        BY <4>1, <3>1, <1>1, <1>6 DEF Places
      <4>3. c + 1 \in Worth(j, "consumed")
        BY <4>2 DEF Worth
      <4> QED BY <4>3, <1>2, <1>4
    <3> QED BY <2>1, <3>2, <3>3
  <2>7. c + 1 \in 0..Count(J) /\ Worth(J, "consumed") = 1..(c + 1)
    BY <1>1, <1>4, <1>8, <1>9
  <2> QED BY <1>7, <2>2, <2>3, <2>4, <2>5, <2>6, <2>7 DEF Kept
<1>12. /\ Left(J) = ((c + 1) + 1)..w
       /\ InOrder(Left(J)) = [i \in 1..(w - (c + 1)) |-> (c + 1) + i]
       /\ Cardinality(Left(J)) = w - (c + 1)
  <2>1. Left(J) = ((c + 1) + 1)..w
    BY <1>1, <1>4, <1>8, <1>9 DEF Left
  <2>2. c + 1 \in Nat /\ c + 1 <= w
    BY <1>1, <1>4
  <2> QED BY <2>1, <2>2, <1>1, IntervalInOrder
<1>13. InboxOf(J) = Tail(InboxOf(j)) /\ Cardinality(Left(J)) = Cardinality(Left(j)) - 1
  BY <1>1, <1>2, <1>4, <1>5, <1>7, <1>12 DEF InboxOf
<1>14. J[1] = j[1] /\ StatusOf(J) = "running" /\ SequenceOf(J) = SequenceOf(j)
  BY <1>1, <1>7, <1>10 DEF StatusOf, SequenceOf
<1> QED BY <1>5, <1>7, <1>8, <1>11, <1>13, <1>14 DEF w, J, e

\* The end of a child is its last record.
LEMMA KeptTerminal ==
    ASSUME NEW j, Kept(j), StatusOf(j) = "running", NEW v \in Verdicts
    PROVE  LET J == Append(j, Terminal(v)) IN
           /\ Kept(J) /\ J # <<>> /\ J[1] = j[1] /\ Count(J) = Count(j)
           /\ StatusOf(J) = v /\ SequenceOf(J) = SequenceOf(j)
           /\ InboxOf(J) = InboxOf(j) /\ Left(J) = Left(j)
<1> DEFINE w == Count(j)
           e == Terminal(v)
           J == Append(j, e)
<1>1. /\ j \in Seq(Entry) /\ w \in Nat /\ j # <<>> /\ Places(j, "terminal") = {}
  BY RunningOpen, LeftInterval DEF Kept
<1>2. e \in Entry /\ e.kind = "terminal" /\ e.value = v
  BY <1>1, EntriesKept DEF Terminal
<1> HIDE DEF w
<1>3. /\ J \in Seq(Entry) /\ J # <<>>
      /\ Places(J, "accepted") = Places(j, "accepted")
      /\ Places(J, "terminal") # {} /\ Worth(J, "terminal") = {v}
      /\ Worth(J, "consumed") = Worth(j, "consumed")
  <2> HIDE DEF e, J
  <2>1. \A k : /\ Append(j, e) \in Seq(Entry) /\ Append(j, e) # <<>>
               /\ Places(Append(j, e), k) =
                    Places(j, k) \cup (IF e.kind = k THEN {Len(j) + 1} ELSE {})
               /\ Worth(Append(j, e), k) =
                    Worth(j, k) \cup (IF e.kind = k THEN {e.value} ELSE {})
    BY <1>1, <1>2, AppendPlaces
  <2>2. Worth(j, "terminal") = {}
    BY <1>1 DEF Worth
  <2> QED BY <1>1, <1>2, <2>1, <2>2 DEF J
<1>4. Count(J) = w /\ Left(J) = Left(j)
  BY <1>3 DEF Count, w, Left
<1>5. /\ Len(J) = Len(j) + 1 /\ J[Len(j) + 1] = e
      /\ \A i \in 1..Len(j) : J[i] = j[i]
      /\ Len(j) \in Nat /\ Len(j) > 0
  BY <1>1
<1> HIDE DEF J, e
<1>6. Kept(J)
  <2>1. \A i \in 1..Len(J) : i \in 1..Len(j) \/ (i = Len(j) + 1 /\ i # 1)
    BY <1>5
  <2>2. \A i \in 1..Len(J) : J[i].kind = "spawned" <=> i = 1
    BY <2>1, <1>5, <1>2 DEF Kept
  <2>3. \A i \in 1..Len(J) : J[i].kind = "terminal" => i = Len(J)
    <3>1. \A i \in 1..Len(j) : j[i].kind # "terminal"
      BY <1>1 DEF Places
    <3> QED BY <3>1, <2>1, <1>5, <1>2
  <2>4. \A m \in 1..Count(J) : \E i \in 1..Len(J) : J[i] = Accepted(m)
    <3> TAKE m \in 1..Count(J)
    <3>1. PICK i \in 1..Len(j) : j[i] = Accepted(m)
      BY <1>4 DEF Kept, w
    <3> QED BY <3>1, <1>5
  <2>5. \A i \in 1..Len(J) : J[i].kind = "consumed" =>
            \E k \in 1..(i - 1) : J[k] = Accepted(J[i].value)
    <3> SUFFICES ASSUME NEW i \in 1..Len(J), J[i].kind = "consumed"
                 PROVE  \E k \in 1..(i - 1) : J[k] = Accepted(J[i].value)
      OBVIOUS
    <3>1. i \in 1..Len(j) /\ J[i] = j[i]
      BY <2>1, <1>5, <1>2
    <3>2. PICK k \in 1..(i - 1) : j[k] = Accepted(j[i].value)
      BY <3>1 DEF Kept
    <3>3. k \in 1..Len(j) /\ J[k] = j[k]
      BY <3>1, <1>5
    <3> QED BY <3>1, <3>2, <3>3
  <2>6. \A i \in 1..Len(J) : J[i].kind = "consumed" =>
            \A k \in 1..(i - 1) : J[k] # J[i]
    <3> SUFFICES ASSUME NEW i \in 1..Len(J), J[i].kind = "consumed", NEW k \in 1..(i - 1)
                 PROVE  J[k] # J[i]
      OBVIOUS
    <3>1. i \in 1..Len(j) /\ J[i] = j[i]
      BY <2>1, <1>5, <1>2
    <3>2. k \in 1..Len(j) /\ J[k] = j[k]
      BY <3>1, <1>5
    <3> QED BY <3>1, <3>2 DEF Kept
  <2>7. \E c \in 0..Count(J) : Worth(J, "consumed") = 1..c
    BY <1>3, <1>4 DEF Kept, w
  <2> QED BY <1>3, <2>2, <2>3, <2>4, <2>5, <2>6, <2>7 DEF Kept
<1>7. J[1] = j[1] /\ StatusOf(J) = v /\ SequenceOf(J) = SequenceOf(j) /\ InboxOf(J) = InboxOf(j)
  BY <1>1, <1>3, <1>4, <1>5 DEF StatusOf, SequenceOf, InboxOf
<1> QED BY <1>3, <1>4, <1>6, <1>7 DEF w, J, e

-----------------------------------------------------------------------------
(* The inductive invariant. *)

ChildRow == [status : Verdicts \cup {"absent", "running"}, sequence : Nat,
          inbox : Seq(1..MaxMessages), token : BOOLEAN]
LoopRow == [pc : {"off", "turn", "inbox", "respond", "tools", "drive"}, calls : 0..MaxChildCalls,
         retries : 0..MaxChildRetries, result : Verdicts \cup {"none"}]

\* The registry entry r, the journal j and the loop l of one child.
ChildInv(r, j, l, up) ==
    /\ r \in ChildRow /\ l \in LoopRow /\ Kept(j)
    /\ Count(j) <= MaxMessages /\ Cardinality(Left(j)) <= MaxInbox
    /\ Len(r.inbox) <= MaxInbox
    /\ up => r.status = StatusOf(j) /\ r.sequence = SequenceOf(j) /\ r.inbox = InboxOf(j)
    /\ l.pc # "off" => up /\ r.status = "running"
    /\ l.pc = "drive" => l.result # "none"

\* Sequence numbers handed out are below the next one.
Numbered ==
    \A a \in Agents : journal[a] # <<>> =>
        journal[a][1].value \in Nat /\ (AgentUp => journal[a][1].value < nextSequence)

Tables ==
    /\ registry \in [Agents -> ChildRow] /\ loop \in [Agents -> LoopRow]
    /\ journal \in [Agents -> Seq(Entry)]
    /\ nextSequence \in Nat /\ agentHost \in {"up", "recovering"}
    /\ agentCrashes \in 0..MaxAgentCrashes

\* The registry of a host that is up is what its journals replay to, a loop
\* runs only for a child that is running, and every journal can be replayed.
AgentInv ==
    /\ Tables
    /\ \A a \in Agents : ChildInv(registry[a], journal[a], loop[a], AgentUp)
    /\ Numbered /\ SequencesDistinct

\* What a step of one child leaves to show: the others are as they were.
LEMMA OneChild ==
    ASSUME AgentInv, NEW a \in Agents, NEW r \in ChildRow, NEW j \in Seq(Entry), NEW l \in LoopRow,
           ChildInv(r, j, l, AgentUp),
           registry' = [registry EXCEPT ![a] = r],
           journal' = [journal EXCEPT ![a] = j],
           loop' = [loop EXCEPT ![a] = l],
           UNCHANGED <<agentHost, agentCrashes>>, nextSequence' \in Nat
    PROVE  /\ Tables'
           /\ (\A b \in Agents : ChildInv(registry[b], journal[b], loop[b], AgentUp))'
           /\ journal'[a] = j /\ \A b \in Agents : b # a => journal'[b] = journal[b]
<1>1. Tables'
  BY DEF AgentInv, Tables
<1>2. /\ registry'[a] = r /\ journal'[a] = j /\ loop'[a] = l
      /\ \A b \in Agents : b # a => /\ registry'[b] = registry[b] /\ journal'[b] = journal[b]
                                   /\ loop'[b] = loop[b]
  BY DEF AgentInv, Tables
<1>3. AgentUp' = AgentUp
  BY DEF AgentUp
<1>4. ASSUME NEW b \in Agents PROVE ChildInv(registry'[b], journal'[b], loop'[b], AgentUp')
  <2>1. ChildInv(registry[b], journal[b], loop[b], AgentUp)
    BY DEF AgentInv
  <2> QED BY <1>2, <1>3, <2>1
<1> QED BY <1>1, <1>2, <1>4

\* A record after the first changes no sequence number.
LEMMA NumbersStay ==
    ASSUME AgentInv, agentHost' = agentHost, nextSequence' = nextSequence,
           \A b \in Agents : /\ (journal'[b] = <<>>) <=> (journal[b] = <<>>)
                             /\ journal[b] # <<>> => journal'[b][1] = journal[b][1]
    PROVE  Numbered' /\ SequencesDistinct'
<1>1. Numbered /\ SequencesDistinct
  BY DEF AgentInv
<1>2. AgentUp' = AgentUp
  BY DEF AgentUp
<1> QED BY <1>1, <1>2 DEF Numbered, SequencesDistinct

LEMMA SameJournals ==
    ASSUME AgentInv, NEW a \in Agents
    PROVE  /\ journal[a] \in Seq(Entry) /\ registry[a] \in ChildRow /\ loop[a] \in LoopRow
           /\ ChildInv(registry[a], journal[a], loop[a], AgentUp)
           /\ journal = [journal EXCEPT ![a] = journal[a]]
           /\ registry = [registry EXCEPT ![a] = registry[a]]
           /\ loop = [loop EXCEPT ![a] = loop[a]]
           /\ journal \in [Agents -> Seq(Entry)]
           /\ registry \in [Agents -> ChildRow] /\ loop \in [Agents -> LoopRow]
BY DEF AgentInv, Tables

-----------------------------------------------------------------------------
(* One lemma for each action. *)

\* spawn takes the next sequence number and the journal's first record.
LEMMA SpawnStep ==
    ASSUME AgentInv, NEW a \in Agents, spawn_child(a)
    PROVE  AgentInv'
<1> DEFINE n == nextSequence
           r == [status |-> "running", sequence |-> n, inbox |-> <<>>, token |-> FALSE]
           l == [pc |-> "turn", calls |-> 0, retries |-> 0, result |-> "none"]
           J == Append(<<>>, Spawned(n))
<1>1. /\ n \in Nat /\ agentHost = "up" /\ journal[a] = <<>> /\ nextSequence' = n + 1
      /\ UNCHANGED <<agentHost, agentCrashes>> /\ nextSequence' \in Nat
      /\ AgentUp /\ AgentUp'
  BY DEF AgentInv, Tables, spawn_child, AgentUp
<1>2. CASE UNCHANGED <<registry, journal, loop>>
  <2>1. Tables'
    BY <1>1, <1>2 DEF AgentInv, Tables
  <2>2. ASSUME NEW b \in Agents PROVE ChildInv(registry'[b], journal'[b], loop'[b], AgentUp')
    <3>1. ChildInv(registry[b], journal[b], loop[b], AgentUp)
      BY DEF AgentInv
    <3>2. AgentUp' = AgentUp
      BY <1>1 DEF AgentUp
    <3> QED BY <3>1, <3>2, <1>2
  <2>3. Numbered'
    <3>1. Numbered
      BY DEF AgentInv
    <3> QED BY <3>1, <1>1, <1>2 DEF Numbered
  <2>4. SequencesDistinct'
    BY <1>2 DEF AgentInv, SequencesDistinct
  <2> QED BY <2>1, <2>2, <2>3, <2>4 DEF AgentInv
<1>3. CASE ~ UNCHANGED <<registry, journal, loop>>
  <2>1. /\ registry' = [registry EXCEPT ![a] = r]
        /\ loop' = [loop EXCEPT ![a] = l]
        /\ journal' = [journal EXCEPT ![a] = J]
    BY <1>1, <1>3 DEF spawn_child, Record, NoChild, NoLoop
  <2>2. /\ Kept(J) /\ J # <<>> /\ Count(J) = 0
        /\ StatusOf(J) = "running" /\ SequenceOf(J) = n /\ InboxOf(J) = <<>>
        /\ Cardinality(Left(J)) = 0
    BY <1>1, KeptSpawned
  <2>3. r \in ChildRow /\ l \in LoopRow /\ J \in Seq(Entry)
    <3>1. J \in Seq(Entry)
      BY <2>2 DEF Kept
    <3> QED BY <1>1, <3>1, SubagentsAssumption DEF ChildRow, LoopRow, Verdicts
  <2>4. J[1].value = n
    BY <2>2 DEF SequenceOf
  <2>5. /\ r.status = "running" /\ r.sequence = n /\ r.inbox = <<>> /\ Len(r.inbox) = 0
        /\ l.pc = "turn"
    OBVIOUS
  <2> HIDE DEF r, l, J
  <2>6. ChildInv(r, J, l, AgentUp)
    BY <1>1, <2>2, <2>3, <2>5, SubagentsAssumption DEF ChildInv
  <2>7. /\ Tables'
        /\ (\A b \in Agents : ChildInv(registry[b], journal[b], loop[b], AgentUp))'
        /\ journal'[a] = J /\ \A b \in Agents : b # a => journal'[b] = journal[b]
    BY <1>1, <2>1, <2>3, <2>6, OneChild
  <2>8. Numbered'
    <3>1. Numbered
      BY DEF AgentInv
    <3>2. ASSUME NEW b \in Agents, journal'[b] # <<>>
          PROVE journal'[b][1].value \in Nat /\ journal'[b][1].value < nextSequence'
      <4>1. CASE b = a
        BY <4>1, <2>7, <2>4, <1>1
      <4>2. CASE b # a
        <5>1. journal[b][1].value \in Nat /\ journal[b][1].value < nextSequence
          BY <3>1, <3>2, <4>2, <2>7, <1>1 DEF Numbered
        <5> QED BY <5>1, <4>2, <2>7, <1>1
      <4> QED BY <4>1, <4>2
    <3> QED BY <3>2, <1>1 DEF Numbered
  <2>9. SequencesDistinct'
    <3>1. \A b \in Agents : b # a /\ journal[b] # <<>> => journal[b][1] # J[1]
      BY <2>4, <1>1 DEF AgentInv, Numbered
    <3> QED BY <3>1, <2>7 DEF AgentInv, SequencesDistinct
  <2> QED BY <2>7, <2>8, <2>9 DEF AgentInv
<1> QED BY <1>2, <1>3

\* A step of a running child that keeps the first record of its journal.
LEMMA RunningStep ==
    ASSUME AgentInv, NEW a \in Agents, NEW r \in ChildRow, NEW j \in Seq(Entry), NEW l \in LoopRow,
           ChildInv(r, j, l, AgentUp),
           (j = <<>>) <=> (journal[a] = <<>>), journal[a] # <<>> => j[1] = journal[a][1],
           registry' = [registry EXCEPT ![a] = r],
           journal' = [journal EXCEPT ![a] = j],
           loop' = [loop EXCEPT ![a] = l],
           UNCHANGED <<nextSequence, agentHost, agentCrashes>>
    PROVE  AgentInv'
<1>1. nextSequence' \in Nat
  BY DEF AgentInv, Tables
<1>2. /\ Tables'
      /\ (\A b \in Agents : ChildInv(registry[b], journal[b], loop[b], AgentUp))'
      /\ journal'[a] = j /\ \A b \in Agents : b # a => journal'[b] = journal[b]
  BY <1>1, OneChild
<1>3. Numbered' /\ SequencesDistinct'
  BY <1>2, NumbersStay
<1> QED BY <1>2, <1>3 DEF AgentInv

\* A message is recorded before the inbox has it.
LEMMA MessageStep ==
    ASSUME AgentInv, NEW a \in Agents, send_message(a)
    PROVE  AgentInv'
<1> DEFINE j == journal[a]
           w == Count(j)
           r == [registry[a] EXCEPT !.inbox = Append(registry[a].inbox, w + 1)]
           J == Append(j, Accepted(w + 1))
<1>1. /\ ChildInv(registry[a], j, loop[a], AgentUp) /\ registry[a] \in ChildRow
      /\ loop[a] \in LoopRow /\ loop = [loop EXCEPT ![a] = loop[a]]
  BY SameJournals
<1>2. Written(a) = w
  BY DEF Written, Count, Places
<1>3. /\ AgentUp /\ registry[a].status = "running" /\ w < MaxMessages
      /\ Len(registry[a].inbox) < MaxInbox
      /\ registry' = [registry EXCEPT ![a] = r]
      /\ journal' = [journal EXCEPT ![a] = J]
      /\ loop' = loop /\ UNCHANGED <<nextSequence, agentHost, agentCrashes>>
  BY <1>2 DEF send_message, Receiving, Running, InboxRoom, Record
<1>4. /\ Kept(j) /\ StatusOf(j) = "running" /\ registry[a].inbox = InboxOf(j)
      /\ registry[a].sequence = SequenceOf(j)
  BY <1>1, <1>3 DEF ChildInv
<1>5. /\ Kept(J) /\ J # <<>> /\ J[1] = j[1] /\ Count(J) = w + 1
      /\ StatusOf(J) = "running" /\ SequenceOf(J) = SequenceOf(j)
      /\ InboxOf(J) = Append(InboxOf(j), w + 1)
      /\ Cardinality(Left(J)) = Cardinality(Left(j)) + 1
  BY <1>4, KeptAccepted
<1>6. w \in Nat /\ j # <<>> /\ J \in Seq(Entry)
  BY <1>4, <1>5, LeftInterval, RunningOpen DEF Kept
<1>7. Cardinality(Left(j)) = Len(registry[a].inbox)
  <2>1. PICK c \in 0..w : /\ Cardinality(Left(j)) = w - c
                          /\ InOrder(Left(j)) = [i \in 1..(w - c) |-> c + i]
    BY <1>4, LeftInterval
  <2>2. InboxOf(j) = [i \in 1..(w - c) |-> c + i]
    BY <2>1, <1>6 DEF InboxOf
  <2>3. Len([i \in 1..(w - c) |-> c + i]) = w - c
    BY <1>6
  <2> QED BY <2>1, <2>2, <2>3, <1>4
<1>8. /\ registry[a].inbox \in Seq(1..MaxMessages) /\ w + 1 \in 1..MaxMessages
      /\ Append(registry[a].inbox, w + 1) \in Seq(1..MaxMessages)
      /\ Len(Append(registry[a].inbox, w + 1)) = Len(registry[a].inbox) + 1
      /\ Len(registry[a].inbox) \in Nat /\ {MaxMessages, MaxInbox} \subseteq Nat
  <2>1. registry[a].inbox \in Seq(1..MaxMessages)
    BY <1>1 DEF ChildRow
  <2>2. w + 1 \in 1..MaxMessages /\ {MaxMessages, MaxInbox} \subseteq Nat
    BY <1>3, <1>6, SubagentsAssumption
  <2> QED BY <2>1, <2>2
<1> HIDE DEF w, J
<1>9. /\ r \in ChildRow /\ r.inbox = Append(registry[a].inbox, w + 1)
      /\ r.status = registry[a].status /\ r.sequence = registry[a].sequence
  BY <1>1, <1>8 DEF ChildRow
<1> HIDE DEF r, j
<1>10. ChildInv(r, J, loop[a], AgentUp)
  <2>1. Count(J) <= MaxMessages /\ Cardinality(Left(J)) <= MaxInbox /\ Len(r.inbox) <= MaxInbox
    BY <1>3, <1>5, <1>6, <1>7, <1>8, <1>9
  <2>2. r.status = StatusOf(J) /\ r.sequence = SequenceOf(J) /\ r.inbox = InboxOf(J)
    BY <1>3, <1>4, <1>5, <1>9
  <2>3. loop[a].pc = "drive" => loop[a].result # "none"
    BY <1>1 DEF ChildInv
  <2> QED BY <1>1, <1>3, <1>5, <1>9, <2>1, <2>2, <2>3 DEF ChildInv
<1> QED
  BY <1>1, <1>3, <1>5, <1>6, <1>9, <1>10, RunningStep DEF j

LEMMA InterruptStep ==
    ASSUME AgentInv, NEW a \in Agents, interrupt(a)
    PROVE  AgentInv'
<1> DEFINE r == [registry[a] EXCEPT !.token = TRUE]
<1>1. /\ ChildInv(registry[a], journal[a], loop[a], AgentUp) /\ registry[a] \in ChildRow
      /\ loop[a] \in LoopRow /\ loop = [loop EXCEPT ![a] = loop[a]]
      /\ journal[a] \in Seq(Entry) /\ journal = [journal EXCEPT ![a] = journal[a]]
  BY SameJournals
<1>2. /\ registry' = [registry EXCEPT ![a] = r]
      /\ UNCHANGED <<journal, loop, nextSequence, agentHost, agentCrashes>>
  BY DEF interrupt
<1>3. /\ r \in ChildRow /\ r.inbox = registry[a].inbox
      /\ r.status = registry[a].status /\ r.sequence = registry[a].sequence
  BY <1>1 DEF ChildRow
<1> HIDE DEF r
<1>4. ChildInv(r, journal[a], loop[a], AgentUp)
  BY <1>1, <1>3 DEF ChildInv
<1> QED BY <1>1, <1>2, <1>3, <1>4, RunningStep

\* A step of the loop alone: the child goes on, or ends with a result.
LEMMA LoopStep ==
    ASSUME AgentInv, NEW a \in Agents, NEW l \in LoopRow,
           loop[a].pc # "off", l.pc = "drive" => l.result # "none",
           loop' = [loop EXCEPT ![a] = l],
           UNCHANGED <<registry, journal, nextSequence, agentHost, agentCrashes>>
    PROVE  AgentInv'
<1>1. /\ ChildInv(registry[a], journal[a], loop[a], AgentUp) /\ registry[a] \in ChildRow
      /\ journal[a] \in Seq(Entry) /\ journal = [journal EXCEPT ![a] = journal[a]]
      /\ registry = [registry EXCEPT ![a] = registry[a]]
  BY SameJournals
<1>2. ChildInv(registry[a], journal[a], l, AgentUp)
  BY <1>1 DEF ChildInv
<1> QED BY <1>1, <1>2, RunningStep

LEMMA EndsStep ==
    ASSUME AgentInv, NEW a \in Agents, loop[a].pc # "off", NEW v \in Verdicts, Ends_(a, v),
           UNCHANGED <<registry, journal, nextSequence, agentHost, agentCrashes>>
    PROVE  AgentInv'
<1> DEFINE l == [loop[a] EXCEPT !.pc = "drive", !.result = v]
<1>1. loop[a] \in LoopRow
  BY SameJournals
<1>2. l \in LoopRow /\ l.result = v /\ v # "none"
  BY <1>1 DEF LoopRow, Verdicts
<1>3. loop' = [loop EXCEPT ![a] = l]
  BY DEF Ends_
<1> HIDE DEF l
<1> QED BY <1>2, <1>3, LoopStep

LEMMA RespondStep ==
    ASSUME AgentInv, NEW a \in Agents, child_respond(a)
    PROVE  AgentInv'
<1>1. /\ loop[a] \in LoopRow /\ loop[a].pc = "respond"
      /\ UNCHANGED <<registry, journal, nextSequence, agentHost, agentCrashes>>
  BY SameJournals DEF child_respond, At_
<1>2. CASE Step(a, "tools")
  <2> DEFINE l == [loop[a] EXCEPT !.pc = "tools"]
  <2>1. l \in LoopRow /\ l.pc = "tools"
    BY <1>1 DEF LoopRow
  <2>2. loop' = [loop EXCEPT ![a] = l]
    BY <1>2 DEF Step
  <2> HIDE DEF l
  <2> QED BY <2>1, <2>2, <1>1, LoopStep
<1>3. CASE loop[a].retries < MaxChildRetries /\ loop' = [loop EXCEPT ![a].retries = @ + 1]
  <2> DEFINE l == [loop[a] EXCEPT !.retries = @ + 1]
  <2>0. loop[a].retries + 1 \in 0..MaxChildRetries
    BY <1>1, <1>3, SubagentsAssumption DEF LoopRow
  <2>1. l \in LoopRow /\ l.pc = "respond"
    BY <1>1, <2>0 DEF LoopRow
  <2>2. loop' = [loop EXCEPT ![a] = l]
    BY <1>3
  <2> HIDE DEF l
  <2> QED BY <2>1, <2>2, <1>1, LoopStep
<1>4. CASE Ends_(a, "failed")
  <2>1. "failed" \in Verdicts
    BY DEF Verdicts
  <2> QED BY <2>1, <1>1, <1>4, EndsStep
<1> QED BY <1>2, <1>3, <1>4 DEF child_respond

LEMMA ToolsStep ==
    ASSUME AgentInv, NEW a \in Agents, child_tools(a)
    PROVE  AgentInv'
<1>1. /\ loop[a] \in LoopRow /\ loop[a].pc = "tools"
      /\ UNCHANGED <<registry, journal, nextSequence, agentHost, agentCrashes>>
  BY SameJournals DEF child_tools, At_
<1>2. CASE Step(a, "turn")
  <2> DEFINE l == [loop[a] EXCEPT !.pc = "turn"]
  <2>1. l \in LoopRow /\ l.pc = "turn"
    BY <1>1 DEF LoopRow
  <2>2. loop' = [loop EXCEPT ![a] = l]
    BY <1>2 DEF Step
  <2> HIDE DEF l
  <2> QED BY <2>1, <2>2, <1>1, LoopStep
<1>3. CASE Ends_(a, "completed") \/ Ends_(a, "unsubmitted")
  <2>1. "completed" \in Verdicts /\ "unsubmitted" \in Verdicts
    BY DEF Verdicts
  <2> QED BY <2>1, <1>1, <1>3, EndsStep
<1> QED BY <1>2, <1>3 DEF child_tools

LEMMA CallStep ==
    ASSUME AgentInv, NEW a \in Agents, next_call(a)
    PROVE  AgentInv'
<1>1. /\ loop[a] \in LoopRow /\ loop[a].pc = "turn"
      /\ UNCHANGED <<registry, journal, nextSequence, agentHost, agentCrashes>>
  BY SameJournals DEF next_call, At_
<1>2. CASE Ends_(a, "unsubmitted") \/ Ends_(a, "failed")
  <2>1. "failed" \in Verdicts /\ "unsubmitted" \in Verdicts
    BY DEF Verdicts
  <2> QED BY <2>1, <1>1, <1>2, EndsStep
<1>3. CASE /\ loop[a].calls # MaxChildCalls
           /\ loop' = [loop EXCEPT ![a].pc = "inbox", ![a].calls = @ + 1]
  <2> DEFINE l == [loop[a] EXCEPT !.pc = "inbox", !.calls = @ + 1]
  <2>1. loop[a].calls + 1 \in 0..MaxChildCalls
    BY <1>1, <1>3, SubagentsAssumption DEF LoopRow
  <2>2. l \in LoopRow /\ l.pc = "inbox"
    BY <1>1, <2>1 DEF LoopRow
  <2>3. loop' = [loop EXCEPT ![a] = l]
    BY <1>3
  <2> HIDE DEF l
  <2> QED BY <1>1, <2>2, <2>3, LoopStep
<1> QED BY <1>2, <1>3 DEF next_call

\* A message is recorded as consumed before the inbox has lost it.
LEMMA InboxStep ==
    ASSUME AgentInv, NEW a \in Agents, read_inbox(a)
    PROVE  AgentInv'
<1>1. /\ loop[a] \in LoopRow /\ loop[a].pc = "inbox" /\ AgentUp
      /\ UNCHANGED <<nextSequence, agentHost, agentCrashes>>
      /\ ChildInv(registry[a], journal[a], loop[a], AgentUp) /\ registry[a] \in ChildRow
      /\ loop = [loop EXCEPT ![a] = loop[a]]
  BY SameJournals DEF read_inbox, At_
<1>2. CASE /\ registry[a].inbox = <<>> /\ UNCHANGED <<journal, registry>>
           /\ loop' = [loop EXCEPT ![a].pc = "respond", ![a].retries = 0]
  <2> DEFINE l == [loop[a] EXCEPT !.pc = "respond", !.retries = 0]
  <2>1. 0 \in 0..MaxChildRetries
    BY SubagentsAssumption
  <2>2. l \in LoopRow /\ l.pc = "respond"
    BY <1>1, <2>1 DEF LoopRow
  <2>3. loop' = [loop EXCEPT ![a] = l]
    BY <1>2
  <2> HIDE DEF l
  <2> QED BY <1>1, <1>2, <2>2, <2>3, LoopStep
<1>3. CASE registry[a].inbox # <<>> /\ Consume(a) /\ UNCHANGED loop
  <2> DEFINE j == journal[a]
             q == registry[a].inbox
             r == [registry[a] EXCEPT !.inbox = Tail(q)]
             J == Append(j, Consumed(Head(q)))
  <2>1. /\ registry[a].status = "running" /\ q = InboxOf(j) /\ q # <<>>
        /\ Kept(j) /\ StatusOf(j) = "running" /\ registry[a].sequence = SequenceOf(j)
        /\ Count(j) <= MaxMessages /\ Cardinality(Left(j)) <= MaxInbox /\ Len(q) <= MaxInbox
    BY <1>1, <1>3 DEF ChildInv
  <2>2. /\ registry' = [registry EXCEPT ![a] = r]
        /\ journal' = [journal EXCEPT ![a] = J]
    BY <1>3 DEF Consume, Record
  <2>3. /\ Kept(J) /\ J # <<>> /\ J[1] = j[1] /\ Count(J) = Count(j)
        /\ StatusOf(J) = "running" /\ SequenceOf(J) = SequenceOf(j)
        /\ InboxOf(J) = Tail(q) /\ Cardinality(Left(J)) = Cardinality(Left(j)) - 1
    BY <2>1, KeptConsumed
  <2>4. j # <<>> /\ J \in Seq(Entry)
    BY <2>1, <2>3, RunningOpen DEF Kept
  <2>5. /\ q \in Seq(1..MaxMessages) /\ Tail(q) \in Seq(1..MaxMessages)
        /\ Len(q) \in Nat /\ Len(Tail(q)) = Len(q) - 1
    <3>1. q \in Seq(1..MaxMessages)
      BY <1>1 DEF ChildRow
    <3> HIDE DEF q
    <3> QED BY <3>1, <2>1
  <2>6. /\ r \in ChildRow /\ r.inbox = Tail(q) /\ r.status = "running"
        /\ r.sequence = registry[a].sequence
    <3> HIDE DEF q
    <3>1. /\ r \in ChildRow /\ r.inbox = Tail(q) /\ r.status = registry[a].status
          /\ r.sequence = registry[a].sequence
      BY <1>1, <2>5 DEF ChildRow
    <3> QED BY <3>1, <2>1
  <2> HIDE DEF J, r, q, j
  <2>7. Cardinality(Left(j)) \in Nat
    <3>1. PICK c \in 0..Count(j) : Cardinality(Left(j)) = Count(j) - c
      BY <2>1, LeftInterval
    <3> QED BY <3>1, <2>1, LeftInterval
  <2>8. Cardinality(Left(J)) <= MaxInbox /\ Len(r.inbox) <= MaxInbox
    BY <2>1, <2>3, <2>5, <2>6, <2>7, SubagentsAssumption
  <2>9. ChildInv(r, J, loop[a], AgentUp)
    BY <1>1, <2>1, <2>3, <2>6, <2>8 DEF ChildInv
  <2> QED BY <1>1, <1>3, <2>2, <2>3, <2>4, <2>6, <2>9, RunningStep DEF j
<1> QED BY <1>2, <1>3 DEF read_inbox

LEMMA DriveStep ==
    ASSUME AgentInv, NEW a \in Agents, drive(a)
    PROVE  AgentInv'
<1>1. /\ loop[a] \in LoopRow /\ loop[a].pc = "drive" /\ AgentUp
      /\ UNCHANGED <<nextSequence, agentHost, agentCrashes>>
      /\ loop' = [loop EXCEPT ![a] = NoLoop]
      /\ ChildInv(registry[a], journal[a], loop[a], AgentUp) /\ registry[a] \in ChildRow
  BY SameJournals DEF drive, At_
<1> DEFINE v == IF registry[a].token THEN "interrupted" ELSE loop[a].result
           j == journal[a]
           r == [registry[a] EXCEPT !.status = v]
           J == Append(j, Terminal(v))
<1>2. /\ registry[a].status = "running" /\ registry[a].inbox = InboxOf(j)
      /\ Kept(j) /\ StatusOf(j) = "running" /\ registry[a].sequence = SequenceOf(j)
      /\ Count(j) <= MaxMessages /\ Cardinality(Left(j)) <= MaxInbox
      /\ Len(registry[a].inbox) <= MaxInbox /\ loop[a].result # "none"
  BY <1>1 DEF ChildInv
<1>3. v \in Verdicts
  BY <1>1, <1>2 DEF LoopRow, Verdicts
<1>4. /\ registry' = [registry EXCEPT ![a] = r]
      /\ journal' = [journal EXCEPT ![a] = J]
  BY <1>2 DEF drive, Settle, Running, Record
<1> HIDE DEF v
<1>5. /\ Kept(J) /\ J # <<>> /\ J[1] = j[1] /\ Count(J) = Count(j)
      /\ StatusOf(J) = v /\ SequenceOf(J) = SequenceOf(j)
      /\ InboxOf(J) = InboxOf(j) /\ Left(J) = Left(j)
  BY <1>2, <1>3, KeptTerminal
<1>6. j # <<>> /\ J \in Seq(Entry)
  BY <1>2, <1>5, RunningOpen DEF Kept
<1>7. /\ r \in ChildRow /\ r.inbox = registry[a].inbox /\ r.status = v
      /\ r.sequence = registry[a].sequence
  BY <1>1, <1>3 DEF ChildRow
<1>8. NoLoop \in LoopRow /\ NoLoop.pc = "off"
  BY SubagentsAssumption DEF NoLoop, LoopRow
<1> HIDE DEF J, r, j
<1>9. ChildInv(r, J, NoLoop, AgentUp)
  BY <1>1, <1>2, <1>5, <1>7, <1>8 DEF ChildInv
<1> QED BY <1>1, <1>4, <1>5, <1>6, <1>7, <1>8, <1>9, RunningStep DEF j

LEMMA Blank ==
    /\ NoChild \in ChildRow /\ NoLoop \in LoopRow /\ Len(NoChild.inbox) <= MaxInbox
    /\ NoLoop.pc = "off" /\ NoChild.status = "absent" /\ NoChild.sequence = 0
    /\ NoChild.inbox = <<>>
<1>1. Len(<<>>) = 0 /\ <<>> \in Seq(1..MaxMessages)
  OBVIOUS
<1> QED BY <1>1, SubagentsAssumption DEF NoChild, NoLoop, ChildRow, LoopRow

\* A crash takes the registry and the loops, and no record.
LEMMA DieStep ==
    ASSUME AgentInv, agents_die
    PROVE  AgentInv'
<1>1. /\ agentCrashes' \in 0..MaxAgentCrashes /\ agentHost' = "recovering" /\ ~AgentUp'
      /\ registry' = [a \in Agents |-> NoChild] /\ loop' = [a \in Agents |-> NoLoop]
      /\ nextSequence' = 0 /\ journal' = journal
  BY SubagentsAssumption DEF AgentInv, Tables, agents_die, AgentUp
<1>2. Tables'
  BY <1>1, Blank DEF AgentInv, Tables
<1>3. ASSUME NEW b \in Agents PROVE ChildInv(registry'[b], journal'[b], loop'[b], AgentUp')
  <2>1. ChildInv(registry[b], journal[b], loop[b], AgentUp)
    BY DEF AgentInv
  <2>2. registry'[b] = NoChild /\ loop'[b] = NoLoop /\ journal'[b] = journal[b]
    BY <1>1
  <2> QED BY <1>1, <2>1, <2>2, Blank DEF ChildInv
<1>4. Numbered' /\ SequencesDistinct'
  BY <1>1 DEF AgentInv, Numbered, SequencesDistinct
<1> QED BY <1>2, <1>3, <1>4 DEF AgentInv

\* The model's Replayed, as the functions of one journal above.
LEMMA ReplayedIs ==
    ASSUME NEW a \in Agents
    PROVE  Replayed(a) = [status |-> StatusOf(journal[a]), sequence |-> SequenceOf(journal[a]),
                          inbox |-> InboxOf(journal[a]), token |-> FALSE]
<1>1. /\ Kinds(a, "terminal") = Places(journal[a], "terminal")
      /\ Values(a, "terminal") = Worth(journal[a], "terminal")
      /\ Unread(a) = Left(journal[a])
  BY DEF Kinds, Values, Places, Worth, Unread, Left, Written, Count
<1>2. CASE journal[a] = <<>>
  BY <1>2 DEF Replayed, StatusOf, SequenceOf, InboxOf, NoChild
<1>3. CASE journal[a] # <<>>
  <2>1. StatusOf(journal[a]) = IF Kinds(a, "terminal") = {} THEN "running"
                               ELSE CHOOSE v \in Values(a, "terminal") : TRUE
    <3>1. StatusOf(journal[a]) = IF Places(journal[a], "terminal") = {} THEN "running"
                                 ELSE CHOOSE v \in Worth(journal[a], "terminal") : TRUE
      BY <1>3 DEF StatusOf
    <3> QED BY <1>1, <3>1, Zenon
  <2>2. SequenceOf(journal[a]) = journal[a][1].value /\ InboxOf(journal[a]) = InOrder(Unread(a))
    BY <1>1, <1>3 DEF SequenceOf, InboxOf
  <2> QED BY <2>1, <2>2, <1>3, Zenon DEF Replayed
<1> QED BY <1>2, <1>3

\* Recovery gives a child that was running its end before it is registered.
LEMMA RecoverInterruptStep ==
    ASSUME AgentInv, NEW a \in Agents, recover_interrupt(a)
    PROVE  AgentInv'
<1> DEFINE j == journal[a]
           J == Append(j, Terminal("interrupted"))
<1>1. /\ ChildInv(registry[a], j, loop[a], AgentUp) /\ registry[a] \in ChildRow
      /\ loop[a] \in LoopRow /\ loop = [loop EXCEPT ![a] = loop[a]]
      /\ registry = [registry EXCEPT ![a] = registry[a]]
  BY SameJournals
<1>2. /\ ~AgentUp /\ StatusOf(j) = "running" /\ journal' = [journal EXCEPT ![a] = J]
      /\ UNCHANGED <<registry, loop, nextSequence, agentHost, agentCrashes>>
  BY ReplayedIs DEF recover_interrupt, AgentUp, Record
<1>3. Kept(j) /\ "interrupted" \in Verdicts
  BY <1>1 DEF ChildInv, Verdicts
<1>4. /\ Kept(J) /\ J # <<>> /\ J[1] = j[1] /\ Count(J) = Count(j)
      /\ Left(J) = Left(j)
  BY <1>2, <1>3, KeptTerminal
<1>5. j # <<>> /\ J \in Seq(Entry)
  BY <1>2, <1>3, <1>4, RunningOpen DEF Kept
<1> HIDE DEF J, j
<1>6. ChildInv(registry[a], J, loop[a], AgentUp)
  BY <1>1, <1>2, <1>4 DEF ChildInv
<1> QED BY <1>1, <1>2, <1>4, <1>5, <1>6, RunningStep DEF j

\* The next sequence number is larger than every one retained.
LEMMA NextIsLarger ==
    ASSUME AgentInv
    PROVE  /\ NextSequence \in Nat
           /\ \A a \in Agents : journal[a] # <<>> => journal[a][1].value < NextSequence
<1> DEFINE used == {journal[a][1].value : a \in {b \in Agents : journal[b] # <<>>}}
<1>1. used \in SUBSET Nat
  BY DEF AgentInv, Numbered
<1>2. IsFiniteSet(used)
  <2>1. IsFiniteSet({b \in Agents : journal[b] # <<>>})
    BY FS_Subset, SubagentsAssumption
  <2> DEFINE B == {b \in Agents : journal[b] # <<>>}
             f == [b \in B |-> journal[b][1].value]
  <2>2. used = {f[b] : b \in B}
    OBVIOUS
  <2>3. f \in Surjection(B, used)
    BY <2>2 DEF Surjection
  <2> HIDE DEF used, f
  <2> QED BY <2>1, <2>3, FS_Surjection
<1>3. CASE used = {}
  BY <1>3 DEF NextSequence
<1>4. CASE used # {}
  <2>1. \E n \in used : \A m \in used : m <= n
    BY <1>1, <1>2, <1>4, Largest
  <2> DEFINE top == CHOOSE n \in used : \A m \in used : m <= n
  <2>2. top \in used /\ \A m \in used : m <= top
    BY <2>1
  <2>3. NextSequence = top + 1
    BY <1>4 DEF NextSequence
  <2>4. \A a \in Agents : journal[a] # <<>> => journal[a][1].value \in used
    OBVIOUS
  <2> HIDE DEF top, used
  <2>5. top \in Nat /\ \A m \in used : m \in Nat /\ m < top + 1
    BY <2>2, <1>1
  <2>6. NextSequence \in Nat /\ \A m \in used : m < NextSequence
    BY <2>3, <2>5
  <2> QED BY <2>4, <2>6
<1> QED BY <1>3, <1>4

\* recover registers what the journals say.
LEMMA RecoverStepKeeps ==
    ASSUME AgentInv, recover
    PROVE  AgentInv'
<1>1. /\ registry' = [a \in Agents |-> Replayed(a)] /\ nextSequence' = NextSequence
      /\ AgentUp' /\ agentHost' = "up" /\ ~AgentUp
      /\ UNCHANGED <<journal, loop, agentCrashes>>
  BY DEF recover, AgentUp
<1>2. ASSUME NEW a \in Agents
      PROVE  Replayed(a) \in ChildRow /\ ChildInv(Replayed(a), journal[a], loop[a], TRUE)
  <2> DEFINE j == journal[a]
             r == [status |-> StatusOf(j), sequence |-> SequenceOf(j), inbox |-> InboxOf(j),
                   token |-> FALSE]
  <2>1. ChildInv(registry[a], j, loop[a], AgentUp) /\ loop[a] \in LoopRow
    BY SameJournals
  <2>2. Kept(j) /\ loop[a].pc = "off" /\ Count(j) <= MaxMessages /\ Cardinality(Left(j)) <= MaxInbox
    BY <1>1, <2>1 DEF ChildInv
  <2>3. StatusOf(j) \in Verdicts \cup {"absent", "running"}
    BY <2>2, RunningOpen
  <2>4. SequenceOf(j) \in Nat
    BY DEF AgentInv, Numbered, SequenceOf
  <2>5. InboxOf(j) \in Seq(1..MaxMessages) /\ Len(InboxOf(j)) <= MaxInbox
    <3>1. CASE j = <<>>
      BY <3>1, SubagentsAssumption DEF InboxOf
    <3>2. CASE j # <<>>
      <4>1. PICK c \in 0..Count(j) : /\ Cardinality(Left(j)) = Count(j) - c
                                     /\ InOrder(Left(j)) = [i \in 1..(Count(j) - c) |-> c + i]
        BY <2>2, LeftInterval
      <4>2. Count(j) \in Nat /\ MaxMessages \in Nat
        BY <2>2, LeftInterval, SubagentsAssumption
      <4>3. InboxOf(j) = [i \in 1..(Count(j) - c) |-> c + i]
        BY <4>1, <3>2 DEF InboxOf
      <4>4. \A i \in 1..(Count(j) - c) : c + i \in 1..MaxMessages
        BY <4>2, <2>2
      <4>5. [i \in 1..(Count(j) - c) |-> c + i] \in [1..(Count(j) - c) -> 1..MaxMessages]
        BY <4>4, Zenon
      <4>6. Count(j) - c \in Nat
        BY <4>2
      <4>7. InboxOf(j) \in Seq(1..MaxMessages) /\ Len(InboxOf(j)) = Count(j) - c
        <5> DEFINE n == Count(j) - c
        <5> HIDE DEF n
        <5>1. InboxOf(j) \in [1..n -> 1..MaxMessages] /\ n \in Nat
          BY <4>3, <4>5, <4>6 DEF n
        <5>2. InboxOf(j) \in Seq(1..MaxMessages) /\ Len(InboxOf(j)) = n
          BY <5>1, FunctionIsSeq
        <5> QED BY <5>2 DEF n
      <4> QED BY <4>1, <4>7, <2>2
    <3> QED BY <3>1, <3>2
  <2>6. r \in ChildRow
    BY <2>3, <2>4, <2>5 DEF ChildRow
  <2>7. Replayed(a) = r
    BY ReplayedIs
  <2>8. /\ r.status = StatusOf(j) /\ r.sequence = SequenceOf(j) /\ r.inbox = InboxOf(j)
    OBVIOUS
  <2> HIDE DEF r, j
  <2> QED BY <2>1, <2>2, <2>5, <2>6, <2>7, <2>8 DEF ChildInv, j
<1>3. Tables'
  BY <1>1, <1>2, NextIsLarger DEF AgentInv, Tables
<1>4. ASSUME NEW b \in Agents PROVE ChildInv(registry'[b], journal'[b], loop'[b], AgentUp')
  <2>1. registry'[b] = Replayed(b) /\ journal'[b] = journal[b] /\ loop'[b] = loop[b]
    BY <1>1
  <2>2. AgentUp' = TRUE
    BY <1>1 DEF AgentUp
  <2> QED BY <1>2, <2>1, <2>2
<1>5. Numbered'
  BY <1>1, NextIsLarger DEF AgentInv, Numbered
<1>6. SequencesDistinct'
  BY <1>1 DEF AgentInv, SequencesDistinct
<1> QED BY <1>3, <1>4, <1>5, <1>6 DEF AgentInv

\* The registry of a running host and the journals agree after every step of
\* spawn, send_message, interrupt, the loop of a child, a crash and recover.
THEOREM ChildrenInvariant == AgentSpec => []AgentInv
<1>1. AgentInit => AgentInv
  <2> SUFFICES ASSUME AgentInit PROVE AgentInv
    OBVIOUS
  <2>1. <<>> \in Seq(Entry) /\ Len(<<>>) = 0 /\ DOMAIN <<>> = {}
    OBVIOUS
  <2>2. \A k : Places(<<>>, k) = {} /\ Worth(<<>>, k) = {}
    BY <2>1 DEF Places, Worth
  <2>3. Count(<<>>) = 0
    BY <2>2, FS_EmptySet DEF Count
  <2>4. Left(<<>>) = {} /\ Cardinality(Left(<<>>)) = 0
    BY <2>2, <2>3, FS_EmptySet DEF Left
  <2>5. Kept(<<>>)
    <3>1. 0 \in 0..Count(<<>>) /\ Worth(<<>>, "consumed") = 1..0
      BY <2>2, <2>3
    <3> QED BY <2>1, <2>3, <3>1 DEF Kept
  <2>6. StatusOf(<<>>) = "absent" /\ SequenceOf(<<>>) = 0 /\ InboxOf(<<>>) = <<>>
    BY DEF StatusOf, SequenceOf, InboxOf
  <2>7. ChildInv(NoChild, <<>>, NoLoop, AgentUp)
    BY <2>3, <2>4, <2>5, <2>6, Blank, SubagentsAssumption DEF ChildInv
  <2>8. /\ registry = [a \in Agents |-> NoChild] /\ journal = [a \in Agents |-> <<>>]
        /\ loop = [a \in Agents |-> NoLoop]
    BY DEF AgentInit
  <2>9. \A a \in Agents : ChildInv(registry[a], journal[a], loop[a], AgentUp)
    BY <2>7, <2>8
  <2>10. Tables
    BY <2>1, Blank, SubagentsAssumption DEF AgentInit, Tables
  <2> QED BY <2>8, <2>9, <2>10 DEF AgentInv, Numbered, SequencesDistinct
<1>2. AgentInv /\ [AgentNext]_agentVars => AgentInv'
  <2> SUFFICES ASSUME AgentInv, [AgentNext]_agentVars PROVE AgentInv'
    OBVIOUS
  <2>1. CASE UNCHANGED agentVars
    BY <2>1 DEF agentVars, AgentInv, Tables, Numbered, SequencesDistinct, AgentUp
  <2>2. CASE \E a \in Agents : spawn_child(a) \/ send_message(a) \/ interrupt(a) \/ ChildStep(a)
    BY <2>2, SpawnStep, MessageStep, InterruptStep, CallStep, InboxStep, RespondStep, ToolsStep,
       DriveStep
       DEF ChildStep
  <2>3. CASE agents_die \/ RecoverStep
    BY <2>3, DieStep, RecoverInterruptStep, RecoverStepKeeps DEF RecoverStep
  <2> QED BY <2>1, <2>2, <2>3 DEF AgentNext
<1> QED BY <1>1, <1>2, PTL DEF AgentSpec

\* Whatever is spawned, sent, interrupted or lost, and whenever the host dies:
\* every journal of a child can be replayed by recover (one spawn first, one
\* terminal last, a message consumed once and after it was accepted), the
\* registry is what a replay would rebuild, and no two children ever have the
\* same sequence number, not across a restart either.
THEOREM ChildrenSound ==
    AgentSpec => [](AgentTypeOK /\ JournalReplays /\ RegistryDurable /\ SequencesDistinct)
<1>1. AgentInv => AgentTypeOK
  <2> SUFFICES ASSUME AgentInv PROVE AgentTypeOK
    OBVIOUS
  <2>1. ASSUME NEW a \in Agents
        PROVE  registry[a] \in ChildRow /\ loop[a] \in LoopRow /\ Len(registry[a].inbox) <= MaxInbox
    BY SameJournals DEF ChildInv
  <2> QED BY <2>1 DEF AgentInv, Tables, AgentTypeOK, ChildRow, LoopRow
<1>2. AgentInv => JournalReplays
  <2> SUFFICES ASSUME AgentInv, NEW a \in Agents
               PROVE  LET j == journal[a] IN
                        /\ \A i \in DOMAIN j : j[i].kind = "spawned" <=> i = 1
                        /\ \A i \in DOMAIN j : j[i].kind = "terminal" => i = Len(j)
                        /\ \A i \in DOMAIN j : j[i].kind = "consumed" =>
                            /\ \E k \in 1..(i - 1) : j[k] = Accepted(j[i].value)
                            /\ \A k \in 1..(i - 1) : j[k] # j[i]
    BY DEF JournalReplays
  <2>1. Kept(journal[a])
    BY SameJournals DEF ChildInv
  <2>2. DOMAIN journal[a] = 1..Len(journal[a])
    BY <2>1 DEF Kept
  <2> QED BY <2>1, <2>2 DEF Kept
<1>3. AgentInv => RegistryDurable
  <2> SUFFICES ASSUME AgentInv, AgentUp, NEW a \in Agents
               PROVE  [registry[a] EXCEPT !.token = FALSE] = Replayed(a)
    BY DEF RegistryDurable
  <2>1. registry[a] \in ChildRow /\ ChildInv(registry[a], journal[a], loop[a], AgentUp)
    BY SameJournals
  <2>2. /\ registry[a].status = StatusOf(journal[a])
        /\ registry[a].sequence = SequenceOf(journal[a])
        /\ registry[a].inbox = InboxOf(journal[a])
    BY <2>1 DEF ChildInv
  <2>3. [registry[a] EXCEPT !.token = FALSE] =
            [status |-> registry[a].status, sequence |-> registry[a].sequence,
             inbox |-> registry[a].inbox, token |-> FALSE]
    <3>1. ASSUME NEW x \in ChildRow, NEW b
          PROVE  [x EXCEPT !.token = b] = [status |-> x.status, sequence |-> x.sequence,
                                           inbox |-> x.inbox, token |-> b]
      BY DEF ChildRow
    <3> QED BY <2>1, <3>1, Zenon
  <2> QED BY <2>2, <2>3, ReplayedIs
<1>4. AgentInv => SequencesDistinct
  BY DEF AgentInv
<1> QED BY <1>1, <1>2, <1>3, <1>4, ChildrenInvariant, PTL
=============================================================================

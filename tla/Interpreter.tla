---------------------------- MODULE Interpreter ----------------------------
(***************************************************************************)
(* JavaScript cells of a session (crates/harness/src/interpreter.rs,       *)
(* controller/interpreter.rs and their commands in store.rs).              *)
(*                                                                         *)
(* The provider loop evaluates a cell in the session's virtual machine,    *)
(* which runs in a thread of its own: the cell calls host tools, saves a   *)
(* checkpoint, returns or fails.  Every cell and every host call is        *)
(* journalled before it happens.  Meanwhile the turn can be cancelled or   *)
(* settled, and the host can crash: the machine and its globals are gone   *)
(* then, only a checkpoint of a settled cell comes back.                   *)
(***************************************************************************)
EXTENDS Naturals, FiniteSets, Sequences, SequencesExt

CONSTANTS Requests,   \* the turns of the session, in order: 1 .. Requests
          CellCalls,  \* outer tool calls of one turn
          HostCalls,   \* host calls of one cell
          CallWindow, \* host calls a cell may have unanswered
          CrashBound  \* crashes of the host

ASSUME InterpreterAssumption ==
    /\ Requests \in Nat \ {0} /\ CellCalls \in Nat \ {0}
    /\ HostCalls \in Nat /\ CallWindow \in Nat \ {0} /\ CrashBound \in Nat

VARIABLES request,    \* the active request, 0 when there is none
          nextTurn,   \* requests begun so far
          cells,      \* journal: cell |-> its status
          saved,      \* journal: the cell whose checkpoint is current
          pendingCalls, \* journal: host calls started and not settled
          cancelled,  \* the turn's cancellation token
          actors,     \* the session has a machine in the host's table
          machine,    \* the latest machine
          ctl,        \* the evaluation under way in the host
          vm,         \* the cell the machine's thread is running
          outcomes,   \* results recorded, in order
          dispatched, \* the last host call: its authority and the cell that made it
          crashes

interpVars == <<request, nextTurn, cells, saved, pendingCalls, cancelled, actors,
                machine, ctl, vm, outcomes, dispatched, crashes>>

----------------------------------------------------------------------------
(* Cells, calls and machines.                                              *)

CellIds == (1 .. Requests) \X (1 .. CellCalls)
NoCell == <<0, 0>>
CellStatuses == {"absent", "pending", "settled", "interrupted"}

Machine(base) == [alive |-> TRUE, base |-> base, globals |-> {}, left |-> {}]

\* evaluate_cell between two awaits: its next step, the cell, what it read
\* before, the machine it holds and the call it is serving.
NoEvaluation == [pc |-> "idle", cell |-> NoCell, saved |-> NoCell, prior |-> FALSE,
         restored |-> FALSE, call |-> 0, for |-> NoCell]

\* A cell in the machine: calls sent, received by the host, unanswered in
\* order, answered; what it saved; how it ended.
RunOf(c) ==
    [cell |-> c, heard |-> TRUE, cancelled |-> FALSE, sent |-> 0,
     queue |-> <<>>, pending |-> <<>>, replies |-> {}, save |-> FALSE,
     waiting |-> FALSE, end |-> "running"]
VmIdle == [RunOf(NoCell) EXCEPT !.end = "none"]

Pending(c) == cells[c] = "pending"

\* What the journal accepts of a cell: its start under a pending outer call,
\* its calls and their answers while it is pending, and its end once no call
\* of it is pending.
StartAccepted(c) == request = c[1] /\ cells[c] = "absent"
CallAccepted(c, n) == request = c[1] /\ Pending(c) /\ <<c, n>> \notin pendingCalls
AnswerAccepted(c, n) == request = c[1] /\ Pending(c) /\ <<c, n>> \in pendingCalls
EndAccepted(c) ==
    request = c[1] /\ Pending(c) /\ \A p \in pendingCalls : p[1] # c

InterpInit ==
    /\ request = 0 /\ nextTurn = 0
    /\ cells = [c \in CellIds |-> "absent"]
    /\ saved = NoCell /\ machine = [Machine(NoCell) EXCEPT !.alive = FALSE]
    /\ pendingCalls = {} /\ cancelled = FALSE
    /\ actors = FALSE /\ ctl = NoEvaluation /\ vm = VmIdle
    /\ outcomes = <<>> /\ dispatched = <<NoCell, NoCell>>
    /\ crashes = 0

----------------------------------------------------------------------------
(* The turn around the cells.                                              *)

begin_turn ==
    /\ request = 0 /\ nextTurn < Requests /\ ctl.pc = "idle"
    /\ nextTurn' = nextTurn + 1 /\ request' = nextTurn + 1 /\ cancelled' = FALSE
    /\ UNCHANGED <<cells, saved, pendingCalls, actors, machine, ctl, vm, outcomes, dispatched, crashes>>

\* A settled turn interrupts its cells that are still pending.
interrupt_cells(cs) ==
    [c \in CellIds |-> IF c[1] = request /\ cs[c] = "pending" THEN "interrupted"
                       ELSE cs[c]]

\* The turn is settled, by its own end or by a stop of the user while a cell
\* is being evaluated.
settle_turn ==
    /\ request # 0
    /\ request' = 0 /\ cancelled' = FALSE /\ cells' = interrupt_cells(cells)
    /\ ctl' = IF ctl.pc = "failed" THEN NoEvaluation ELSE ctl
    /\ UNCHANGED <<nextTurn, saved, pendingCalls, actors, machine, vm,
                   outcomes, dispatched, crashes>>

\* The cell's token is a child of the turn's token.
cancel_turn ==
    /\ request # 0 /\ ~cancelled
    /\ cancelled' = TRUE
    /\ vm' = [vm EXCEPT !.cancelled = TRUE]
    /\ UNCHANGED <<request, nextTurn, cells, saved, pendingCalls, actors, machine, ctl,
                   outcomes, dispatched, crashes>>

\* The host dies with every machine; the next host settles the turn it finds.
crash ==
    /\ crashes < CrashBound /\ request # 0
    /\ crashes' = crashes + 1
    /\ request' = 0 /\ cells' = interrupt_cells(cells)
    /\ actors' = FALSE /\ ctl' = NoEvaluation /\ vm' = VmIdle /\ cancelled' = FALSE
    /\ machine' = [machine EXCEPT !.alive = FALSE]
    /\ UNCHANGED <<nextTurn, saved, pendingCalls, outcomes, dispatched>>

----------------------------------------------------------------------------
(* evaluate_cell.                                                          *)

\* An error of the evaluation fails the turn's run, which drops the session's
\* machine and settles the turn: the receiver of the machine's calls and the
\* reply it waits for are gone too.
Failed == IF request = 0 THEN NoEvaluation ELSE [NoEvaluation EXCEPT !.pc = "failed"]

failed_run ==
    /\ ctl' = Failed /\ actors' = FALSE
    /\ vm' = [vm EXCEPT !.heard = FALSE]

\* A cell is known by its outer call: one that was journalled is answered
\* from its result, or reported as interrupted; it never runs again.
Known(c) == cells[c] # "absent"

evaluate_cell(c) ==
    /\ ctl.pc = "idle" /\ request # 0 /\ c[1] = request
    /\ ~Known(c) /\ \A d \in CellIds : d[1] = request /\ d[2] > c[2] => ~Known(d)
    /\ ctl' = [NoEvaluation EXCEPT !.pc = "actor", !.cell = c, !.saved = saved,
                           !.prior = \E d \in CellIds : cells[d] # "absent"]
    /\ UNCHANGED <<request, nextTurn, cells, saved, pendingCalls, cancelled, actors,
                   machine, vm, outcomes, dispatched, crashes>>

Restored(prior, s) == prior

\* The session's machine, or a new one from the checkpoint that was read.
take_actor ==
    /\ ctl.pc = "actor"
    /\ IF actors
       THEN /\ ctl' = [ctl EXCEPT !.pc = "lock"]
            /\ UNCHANGED <<actors, machine, vm>>
       ELSE /\ machine' = Machine(ctl.saved) /\ vm' = VmIdle
            /\ actors' = TRUE
            /\ ctl' = [ctl EXCEPT !.pc = "lock",
                                  !.restored = Restored(ctl.prior, ctl.saved)]
    /\ UNCHANGED <<request, nextTurn, cells, saved, pendingCalls, cancelled,
                   outcomes, dispatched, crashes>>

\* A checkpoint that does not validate, or a machine that does not start: the
\* evaluation ends with an answer and no trace in the journal.
start_failed ==
    /\ ctl.pc = "actor" /\ ~actors
    /\ ctl' = NoEvaluation
    /\ UNCHANGED <<request, nextTurn, cells, saved, pendingCalls, cancelled, actors,
                   machine, vm, outcomes, dispatched, crashes>>

\* The start is journalled, unless the turn was settled meanwhile.
record_started ==
    /\ ctl.pc = "lock"
    /\ IF StartAccepted(ctl.cell)
       THEN /\ cells' = [cells EXCEPT ![ctl.cell] = "pending"]
            /\ ctl' = [ctl EXCEPT !.pc = "send"]
            /\ UNCHANGED <<actors, vm>>
       ELSE failed_run /\ UNCHANGED cells
    /\ UNCHANGED <<request, nextTurn, saved, pendingCalls, cancelled, machine, outcomes, dispatched, crashes>>

\* The cell goes to the machine's thread, if there is still one.
start_cell ==
    /\ ctl.pc = "send"
    /\ IF machine.alive
       THEN /\ vm.end # "running"
            /\ vm' = [RunOf(ctl.cell) EXCEPT !.cancelled = cancelled]
            /\ ctl' = [ctl EXCEPT !.pc = "serve"]
            /\ UNCHANGED actors
       ELSE failed_run
    /\ UNCHANGED <<request, nextTurn, cells, saved, pendingCalls, cancelled, machine,
                   outcomes, dispatched, crashes>>

\* The next call of the cell is journalled under the cell's authority.
record_call ==
    /\ ctl.pc = "serve" /\ vm.queue # <<>>
    /\ IF CallAccepted(ctl.cell, Head(vm.queue)[1])
       THEN /\ pendingCalls' = pendingCalls \cup {<<ctl.cell, Head(vm.queue)[1]>>}
            /\ ctl' = [ctl EXCEPT !.pc = "dispatch", !.call = Head(vm.queue)[1],
                                  !.for = Head(vm.queue)[2]]
            /\ vm' = [vm EXCEPT !.queue = Tail(@)]
            /\ UNCHANGED actors
       ELSE failed_run /\ UNCHANGED pendingCalls
    /\ UNCHANGED <<request, nextTurn, cells, saved, cancelled, machine, outcomes,
                   dispatched, crashes>>

\* A call is dispatched with the authority of its cell's request, which the
\* job's admission checks again; the others are answered with an error.
Admits(c, n) == request = c[1] /\ Pending(c) /\ <<c, n>> \in pendingCalls
dispatch_call ==
    /\ ctl.pc = "dispatch"
    /\ \/ /\ ~vm.cancelled /\ Admits(ctl.cell, ctl.call)
          /\ dispatched' = <<ctl.cell, ctl.for>>
       \/ UNCHANGED dispatched
    /\ ctl' = [ctl EXCEPT !.pc = "reply"]
    /\ UNCHANGED <<request, nextTurn, cells, saved, pendingCalls, cancelled, actors,
                   machine, vm, outcomes, crashes>>

Reply(n) == {n}

\* The answer is journalled before the machine gets it.
settle_call ==
    /\ ctl.pc = "reply"
    /\ IF AnswerAccepted(ctl.cell, ctl.call)
       THEN /\ pendingCalls' = pendingCalls \ {<<ctl.cell, ctl.call>>}
            /\ ctl' = [ctl EXCEPT !.pc = "serve", !.call = 0, !.for = NoCell]
            /\ vm' = [vm EXCEPT !.replies = @ \cup Reply(ctl.call)]
            /\ UNCHANGED actors
       ELSE failed_run /\ UNCHANGED pendingCalls
    /\ dispatched' = <<NoCell, NoCell>>
    /\ UNCHANGED <<request, nextTurn, cells, saved, cancelled, machine, outcomes,
                   crashes>>

\* The machine is through: a cell that returned settles with its checkpoint,
\* a cell that failed settles without one and takes the machine with it.
Lost(ok) == ~ok \/ ctl.restored
settle_cell ==
    /\ ctl.pc = "serve" /\ vm.queue = <<>> /\ vm.end \in {"returned", "failed"}
    /\ LET ok == vm.end = "returned"
       IN IF EndAccepted(ctl.cell)
          THEN /\ cells' = [cells EXCEPT ![ctl.cell] = "settled"]
               /\ saved' = IF ok /\ vm.save THEN ctl.cell ELSE saved
               /\ outcomes' = Append(outcomes,
                      [cell |-> ctl.cell, ok |-> ok, lost |-> Lost(ok),
                       globals |-> machine.globals])
               /\ actors' = IF ok THEN actors ELSE FALSE
               /\ ctl' = NoEvaluation /\ vm' = VmIdle
          ELSE failed_run /\ UNCHANGED <<cells, saved, outcomes>>
    /\ UNCHANGED <<request, nextTurn, pendingCalls, cancelled, machine, dispatched,
                   crashes>>

----------------------------------------------------------------------------
(* The machine's thread.                                                   *)

Executing == vm.end = "running" /\ ~vm.waiting
vmOnly == UNCHANGED <<request, nextTurn, cells, saved, pendingCalls, cancelled,
                      actors, ctl, outcomes, dispatched, crashes>>

\* A failed cell cancels its own token and ends the thread of its machine.
fails ==
    /\ vm' = [vm EXCEPT !.end = "failed", !.pending = <<>>,
                        !.waiting = FALSE, !.cancelled = TRUE]
    /\ machine' = [machine EXCEPT !.alive = FALSE]

\* host.call, by the cell or by what an earlier one left to run: an exception
\* beyond the window or when nobody receives it.
vm_call ==
    /\ Executing /\ vm.sent < HostCalls /\ vm.heard
    /\ Len(vm.pending) < CallWindow
    /\ \E o \in {vm.cell} \cup machine.left :
           vm' = [vm EXCEPT !.sent = @ + 1,
                            !.queue = Append(@, <<vm.sent + 1, o>>),
                            !.pending = Append(@, vm.sent + 1)]
    /\ UNCHANGED machine /\ vmOnly

vm_save ==
    /\ Executing /\ ~vm.save
    /\ vm' = [vm EXCEPT !.save = TRUE]
    /\ UNCHANGED machine /\ vmOnly

\* The oldest unanswered call is awaited, also after the cell has returned.
vm_wait ==
    /\ Executing /\ vm.pending # <<>>
    /\ vm' = [vm EXCEPT !.waiting = TRUE]
    /\ UNCHANGED machine /\ vmOnly

vm_reply ==
    /\ vm.waiting /\ Head(vm.pending) \in vm.replies
    /\ IF vm.cancelled THEN fails
       ELSE /\ vm' = [vm EXCEPT !.pending = Tail(@), !.waiting = FALSE]
            /\ UNCHANGED machine
    /\ vmOnly

\* Nobody will answer it any more.
vm_abandoned ==
    /\ vm.waiting /\ ~vm.heard
    /\ Head(vm.pending) \notin vm.replies
    /\ fails /\ vmOnly

Drained == vm.pending = <<>>
vm_return ==
    /\ Executing /\ Drained
    /\ vm' = [vm EXCEPT !.end = "returned"]
    /\ machine' = [machine EXCEPT !.globals = @ \cup {vm.cell},
           !.left = IF vm.pending = <<>> THEN @ ELSE @ \cup {vm.cell}]
    /\ vmOnly

\* An exception, the CPU budget, the memory limit or the cancellation; a
\* thread that waits for an answer does none of these.
vm_fail ==
    /\ Executing
    /\ fails /\ vmOnly

----------------------------------------------------------------------------
VmNext == vm_call \/ vm_save \/ vm_wait \/ vm_reply \/ vm_abandoned \/ vm_return \/ vm_fail

EvaluationNext ==
    \/ take_actor \/ start_failed \/ record_started \/ start_cell
    \/ record_call \/ dispatch_call \/ settle_call \/ settle_cell

InterpNext ==
    \/ begin_turn \/ settle_turn \/ cancel_turn \/ crash
    \/ \E c \in CellIds : evaluate_cell(c)
    \/ EvaluationNext \/ VmNext

InterpTypeOK ==
    /\ request \in 0 .. Requests /\ nextTurn \in request .. Requests
    /\ cells \in [CellIds -> CellStatuses] /\ saved \in CellIds \cup {NoCell}
    /\ pendingCalls \subseteq CellIds \X (1 .. HostCalls)
    /\ actors \in BOOLEAN /\ machine.globals \subseteq CellIds
    /\ Len(vm.pending) <= CallWindow /\ vm.sent \in 0 .. HostCalls
    /\ crashes \in 0 .. CrashBound

----------------------------------------------------------------------------
(* Properties.                                                             *)

\* A cell that says its globals were kept ran in a machine that holds what
\* every cell settled since the last reported loss left there
\* (controller/interpreter.rs: prior_cells, restored, state_lost).
StateHonest ==
    \A j \in DOMAIN outcomes : \A i \in 1 .. j - 1 :
        (outcomes[i].ok /\ \A k \in i + 1 .. j : ~outcomes[k].lost)
            => outcomes[i].cell \in outcomes[j].globals

\* A cell that was interrupted, and is answered with the loss of its state,
\* leaves nothing in the machine a later cell runs in (controller.rs drops the
\* machine of a run that failed).
InterruptedForgotten ==
    \A j \in DOMAIN outcomes :
        outcomes[j].globals \subseteq
            {outcomes[j].cell} \cup {outcomes[i].cell : i \in 1 .. j - 1}

\* A machine in use has seen the session's current checkpoint: it was started
\* from it or it ran the cell that saved it.
CheckpointCurrent ==
    ctl.pc \in {"serve", "dispatch", "reply"} =>
        \/ saved = machine.base
        \/ saved \in machine.globals

\* A host call is dispatched under the authority of the cell that made it: no
\* call of one cell leaks into a later cell with another request's authority
\* (the machine drains its jobs and its calls before a cell ends).
CallsContained == dispatched[1] = dispatched[2]

\* The host and the machine never wait for each other: an evaluation under way
\* has a next step, in the host or in the machine's thread.
NeverStuck ==
    ctl.pc \notin {"idle", "failed"} => ENABLED EvaluationNext \/ ENABLED VmNext
=============================================================================

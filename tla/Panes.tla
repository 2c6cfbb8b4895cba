------------------------------- MODULE Panes ---------------------------------
(***************************************************************************)
(* The panes of the terminal client and the sessions behind them: the      *)
(* application node keeps a main pane and an optional fork, the event loop *)
(* keeps the connected session of each pane and the generation it expects  *)
(* next (tui/components/app.rs, tui/event_loop.rs, tui/client.rs).         *)
(*                                                                         *)
(* The effects of a key or an update are dispatched before the next one is *)
(* taken, so an action is one turn of the loop with all its effects. Pane  *)
(* 0 is PaneId::Main, pane n is PaneId::Fork(n).                           *)
(***************************************************************************)
EXTENDS Integers, FiniteSets

CONSTANTS
    MaxForks,        \* how many forks are opened
    MaxGenerations   \* how many sessions are asked for

ASSUME PanesAssumption == {MaxForks, MaxGenerations} \subseteq Nat

VARIABLES
    main, fork, focus, next_fork,   \* AppNode
    nodes,         \* the RootNode of each pane
    expected,      \* expected_generations
    panes,         \* the sessions of the event loop, by pane
    next_generation,
    asked,          \* what was asked and not answered yet
    watches,       \* the view streams that are not cancelled
    exited

panesVars == <<main, fork, focus, next_fork, nodes, expected, panes,
               next_generation, asked, watches, exited>>

Ids == 0..MaxForks
NoPane == -1
Fresh == [interactive |-> TRUE, blocked |-> FALSE, forking |-> FALSE,
          fork_available |-> TRUE, memory |-> TRUE, shows |-> NoPane]
Kinds == {"new", "settings", "fork", "handoff", "list"}

\* install in pane 0 before the loop starts.
PanesInit ==
    /\ main = 0 /\ fork = NoPane /\ focus = 0 /\ next_fork = 1
    /\ nodes = [p \in Ids |-> [Fresh EXCEPT !.shows = IF p = 0 THEN 0 ELSE NoPane]]
    /\ expected = [p \in Ids |-> NoPane]
    /\ panes = [p \in Ids |-> IF p = 0 THEN 0 ELSE NoPane]
    /\ next_generation = 1 /\ asked = {} /\ watches = {[pane |-> 0, generation |-> 0]}
    /\ exited = FALSE

Visible == {main, fork} \ {NoPane}
CanAsk == next_generation <= MaxGenerations
\* Keys reach the node of the focus when it takes them.
Keyed == ~exited /\ nodes[focus].interactive /\ ~nodes[focus].blocked
SameApp == UNCHANGED <<main, fork, focus, next_fork>>

-----------------------------------------------------------------------------
(* AppNode *)

\* A click in the other pane.
focus_pane ==
    /\ ~exited /\ \E p \in Visible \ {focus} : focus' = p
    /\ UNCHANGED <<main, fork, next_fork, nodes, expected, panes, next_generation, asked, watches, exited>>

\* begin_fork, and OpenFork: the fork copies the node of the main pane, whose
\* session is there: a pane without one takes no keys.
open_fork ==
    /\ Keyed /\ nodes[focus].fork_available /\ fork = NoPane /\ panes[main] # NoPane /\ next_fork <= MaxForks /\ CanAsk
    /\ fork' = next_fork /\ focus' = next_fork /\ next_fork' = next_fork + 1
    /\ nodes' = [nodes EXCEPT ![main].fork_available = FALSE,
                    ![next_fork] = [Fresh EXCEPT !.interactive = FALSE, !.forking = TRUE,
                                      !.fork_available = FALSE, !.memory = nodes[main].memory]]
    /\ expected' = [expected EXCEPT ![next_fork] = next_generation]
    /\ next_generation' = next_generation + 1
    /\ asked' = asked \cup {[pane |-> next_fork, generation |-> next_generation, kind |-> "fork"]}
    /\ UNCHANGED <<main, panes, watches, exited>>

\* What is left when a pane goes: the fork takes the place of the main pane.
remove_pane(p) ==
    LET rest == IF p = main THEN fork ELSE main
    IN /\ main' = rest /\ fork' = NoPane
       /\ focus' = IF rest = NoPane THEN focus ELSE rest
       /\ nodes' = IF rest = NoPane THEN nodes ELSE [nodes EXCEPT ![rest].fork_available = TRUE]
       /\ UNCHANGED next_fork
forget_bug(p) ==
    /\ UNCHANGED expected
    /\ panes' = [panes EXCEPT ![p] = NoPane]
    /\ watches' = {w \in watches : ~(w.pane = p /\ w.generation = panes[p])}

\* ClosePane: nobody waits for the session any more and its stream ends.
forget(p) ==
    /\ expected' = [expected EXCEPT ![p] = NoPane]
    /\ panes' = [panes EXCEPT ![p] = NoPane]
    /\ watches' = {w \in watches : ~(w.pane = p /\ w.generation = panes[p])}
\* Ctrl+C twice with two panes; also in one that takes no keys.
close_pane ==
    /\ ~exited /\ fork # NoPane /\ remove_pane(focus) /\ forget(focus)
    /\ UNCHANGED <<next_generation, asked, exited>>

\* Ctrl+C twice with one pane: the streams are cancelled, the asked aborted;
\* no task of the host is.
shutdown ==
    /\ ~exited /\ fork = NoPane /\ exited' = TRUE /\ watches' = {} /\ asked' = {}
    /\ SameApp /\ UNCHANGED <<nodes, expected, panes, next_generation>>

-----------------------------------------------------------------------------
(* Effects of a node (handle_session_effect and its neighbours) *)

\* An effect of a pane without a session is dropped.
ask(kind) ==
    /\ Keyed /\ panes[focus] # NoPane /\ CanAsk
    /\ asked' = asked \cup {[pane |-> focus, generation |-> next_generation, kind |-> kind]}
    /\ expected' = [expected EXCEPT ![focus] = next_generation]
    /\ next_generation' = next_generation + 1
    /\ nodes' = [nodes EXCEPT ![focus].interactive = FALSE]
    /\ SameApp /\ UNCHANGED <<panes, watches, exited>>

\* NewSession, ResumeSession, SetModel: and SetEffort, SetFastMode.
new_session == ask("new")
set_effort == ask("settings")

\* Handoff and the lists are answered for the session that is there now.
ask_current(kind) ==
    /\ Keyed /\ panes[focus] # NoPane
    /\ asked' = asked \cup {[pane |-> focus, generation |-> panes[focus], kind |-> kind]}
    /\ UNCHANGED <<expected, panes, next_generation, watches, exited>> /\ SameApp
ask_handoff == CanAsk /\ ask_current("handoff") /\ nodes' = [nodes EXCEPT ![focus].blocked = TRUE]
load_list == ask_current("list") /\ UNCHANGED nodes

\* The configuration is read again; memory goes off in every pane and comes
\* back where it is enabled.
reload_config ==
    /\ Keyed /\ panes[focus] # NoPane
    /\ \E enabled \in BOOLEAN :
          nodes' = [p \in Ids |-> IF p \in Visible THEN [nodes[p] EXCEPT !.memory = enabled] ELSE nodes[p]]
    /\ SameApp /\ UNCHANGED <<expected, panes, next_generation, asked, watches, exited>>

-----------------------------------------------------------------------------
(* Answers (handle_session_updates, handle_handoff_updates, reject...) *)

take(j) == ~exited /\ j \in asked /\ asked' = asked \ {j}

\* reset_session keeps what belongs to the pane and not to its session.
reset(node, generation) ==
    [Fresh EXCEPT !.fork_available = node.fork_available, !.memory = node.memory,
                  !.shows = generation]

\* install: the old stream is cancelled, the new one starts.
install(p, generation) ==
    /\ panes' = [panes EXCEPT ![p] = generation]
    /\ watches' = {w \in watches : ~(w.pane = p /\ w.generation = panes[p])}
                    \cup {[pane |-> p, generation |-> generation]}

renewed(j) ==
    IF j.pane \in Visible THEN [nodes EXCEPT ![j.pane] = reset(@, j.generation)] ELSE nodes

\* Changed settings are saved first; when that fails so does the session.
Sent(kind) == {"new", "settings", "fork"} \cap {kind} # {}
replacement_ready ==
    /\ \E j \in asked :
          /\ Sent(j.kind) /\ take(j) /\ expected[j.pane] = j.generation
          /\ expected' = [expected EXCEPT ![j.pane] = NoPane]
          /\ nodes' = renewed(j)
          /\ install(j.pane, j.generation)
    /\ SameApp /\ UNCHANGED <<next_generation, exited>>

\* ForkFailed closes the pane, and the terminal with the last one.
replacement_failed ==
    /\ \E j \in asked :
          /\ Sent(j.kind) /\ take(j) /\ expected[j.pane] = j.generation
          /\ expected' = [expected EXCEPT ![j.pane] = NoPane]
          /\ IF j.kind = "fork"
             THEN /\ remove_pane(j.pane)
                  /\ exited' = (main' = NoPane)
             ELSE /\ nodes' = [nodes EXCEPT ![j.pane].interactive = TRUE]
                  /\ SameApp /\ UNCHANGED exited
    /\ UNCHANGED <<panes, next_generation, watches>>

\* Of a generation nobody expects.
late_session ==
    /\ \E j \in asked : Sent(j.kind) /\ take(j) /\ expected[j.pane] # j.generation
    /\ SameApp /\ UNCHANGED <<nodes, expected, panes, next_generation, watches, exited>>

Current(j) == panes[j.pane] = j.generation
handoff_ready ==
    /\ CanAsk
    /\ \E j \in asked :
          /\ j.kind = "handoff" /\ take(j) /\ Current(j)
          /\ nodes' = [nodes EXCEPT ![j.pane] = reset(@, next_generation)]
          /\ install(j.pane, next_generation) /\ next_generation' = next_generation + 1
    /\ SameApp /\ UNCHANGED <<expected, exited>>
handoff_failed ==
    /\ \E j \in asked : /\ j.kind = "handoff" /\ take(j) /\ Current(j)
                       /\ nodes' = [nodes EXCEPT ![j.pane].blocked = FALSE]
    /\ SameApp /\ UNCHANGED <<expected, panes, next_generation, watches, exited>>

\* A list of sessions, prompts, files or memories; and what comes too late.
answered ==
    /\ \E j \in asked : take(j) /\ (j.kind = "list" \/ (j.kind = "handoff" /\ ~Current(j)))
    /\ SameApp /\ UNCHANGED <<nodes, expected, panes, next_generation, watches, exited>>

PanesNext ==
    \/ focus_pane \/ open_fork \/ close_pane \/ shutdown
    \/ new_session \/ set_effort \/ ask_handoff \/ load_list \/ reload_config
    \/ replacement_ready \/ replacement_failed \/ late_session \/ handoff_ready \/ handoff_failed \/ answered

-----------------------------------------------------------------------------

PanesTypeOK ==
    /\ {main, fork} \subseteq Ids \cup {NoPane} /\ focus \in Ids /\ next_fork \in 1..MaxForks + 1
    /\ expected \in [Ids -> -1..MaxGenerations] /\ panes \in [Ids -> -1..MaxGenerations]
    /\ next_generation \in 1..MaxGenerations + 1 /\ exited \in BOOLEAN
    /\ \A j \in asked : j.kind \in Kinds

\* No session is left behind a pane that was closed: what the loop keeps, and
\* every stream that still runs, belongs to a pane on the screen, one each.
NoOrphanSession ==
    /\ \A p \in Ids : panes[p] # NoPane => p \in Visible
    /\ ~exited => watches = {[pane |-> p, generation |-> panes[p]] : p \in {q \in Ids : panes[q] # NoPane}}

\* A pane shows the session it is connected to: no answer that was asked for
\* by an earlier session, or by another pane, replaced it.
ShowsItsSession ==
    \A p \in Visible : nodes[p].shows = panes[p] /\ (panes[p] = NoPane => expected[p] # NoPane)

\* A pane that takes no keys has the answer that unlocks it on its way.
PaneUnlocks ==
    ~exited => \A p \in Visible :
        /\ ~nodes[p].interactive => \E j \in asked : j.pane = p /\ j.generation = expected[p]
        /\ nodes[p].blocked => \E j \in asked : j.pane = p /\ j.kind = "handoff" /\ Current(j)

\* The focus is on the screen, and a fork can be opened exactly when there is
\* none, from the pane that is left, whichever it is.
ForkOffered ==
    ~exited => /\ focus \in Visible
               /\ nodes[main].fork_available = (fork = NoPane)
               /\ fork # NoPane => ~nodes[fork].fork_available

\* The panes agree on whether memory can be used, however each of them came
\* to its session since the configuration was read.
MemoryAgrees == \A p, q \in Visible : nodes[p].memory = nodes[q].memory
=============================================================================

---------------------------- MODULE ServiceBase ----------------------------
(***************************************************************************)
(* The state of dinit's service manager: the service records, the links    *)
(* between them, the two work queues and the console queue of the service  *)
(* set, and the C++ call stack of the single event-loop thread.            *)
(*                                                                         *)
(* dinit is single-threaded.  An event handler (a control command, a child *)
(* status, a timer, a readable pipe) runs to completion before the next    *)
(* one.  A handler is a tree of calls that recurse through the dependency  *)
(* graph, so it is modelled step by step: "stack" holds the pending calls  *)
(* (frames), every action executes one step of the frame on top, and an    *)
(* event may only be delivered when the stack is empty.                    *)
(***************************************************************************)
EXTENDS Integers, Sequences, FiniteSets

CONSTANTS
  Services,      \* the loaded service records
  None,          \* "no service"
  Links,         \* every service_dep that may exist during the run
  Graph,         \* the dependency lists of the records after loading
  Records,       \* service_set::records, in order
  ServiceType,   \* the record's class
  Options,       \* the settings of each record that the control flow reads
  ChainTo        \* start_on_completion: service named by "chain-to", or None

DepTypes == {"REGULAR", "SOFT", "WAITS_FOR", "MILESTONE", "BEFORE", "AFTER"}

\* Settings read by the modelled code (auto_restart, smooth_recovery, onstart_flags,
\* whether timeouts, a stop command, readiness notification and a restart limit are set).
OptionNames == {"auto_restart", "smooth_recovery", "starts_on_console", "runs_on_console",
                "start_interruptible", "always_chain", "start_timeout", "stop_timeout",
                "stop_command", "notification", "restart_limit"}

ASSUME ServicesAssumption == IsFiniteSet(Services) /\ None \notin Services
ASSUME LinksAssumption ==
  /\ IsFiniteSet(Links)
  /\ Links \subseteq [from : Services, to : Services, type : DepTypes]
LinkLists == [Services -> Seq(Links)]
LinkSet(list) == {list[i] : i \in DOMAIN list}
ASSUME GraphAssumption ==
  /\ Graph \in [depends_on : LinkLists, dependents : LinkLists]
  /\ \A s \in Services : /\ Graph.depends_on[s] \in Seq({l \in Links : l.from = s})
                         /\ Graph.dependents[s] \in Seq({l \in Links : l.to = s})
ASSUME RecordsAssumption == Records \in Seq(Services)
ASSUME SettingsAssumption ==
  /\ ServiceType \in [Services -> {"INTERNAL", "TRIGGERED", "PROCESS"}]
  /\ Options \in [Services -> SUBSET OptionNames]
  /\ ChainTo \in [Services -> Services \cup {None}]

VARIABLES
  service_state,   \* [Services -> State]
  desired_state,   \* [Services -> {"STOPPED", "STARTED"}]
  required_by,     \* [Services -> Int], the activation count
  flags,           \* the boolean bit-fields of each record that are set
  prop,            \* the prop_* bit-fields of each record that are set
  stop_reason,
  waiting_on,      \* links whose waiting_on is set
  holding_acq,     \* links whose holding_acq is set
  depends_on,      \* [Services -> Seq(Links)]
  dependents,      \* [Services -> Seq(Links)]
  prop_queue,      \* service_set::prop_queue
  stop_queue,      \* service_set::stop_queue (the "transition" queue)
  console_queue,   \* services waiting for the console
  console_log,     \* who owns the console as far as the log is concerned
  active_services, \* service_set::active_services
  restart_enabled, \* FALSE once a shutdown has begun
  ps,              \* the process-related fields of each record that are set
  stack            \* pending calls of the event-loop thread, innermost first

recordVars == <<service_state, desired_state, required_by, flags, prop, stop_reason>>
linkVars == <<waiting_on, holding_acq>>
graphVars == <<depends_on, dependents>>
queueVars == <<prop_queue, stop_queue>>
consoleVars == <<console_queue, console_log>>
setVars == <<active_services, restart_enabled>>
vars == <<service_state, desired_state, required_by, flags, prop, stop_reason,
          waiting_on, holding_acq, depends_on, dependents, prop_queue, stop_queue,
          console_queue, console_log, active_services, restart_enabled, ps, stack>>

-----------------------------------------------------------------------------
State == {"STOPPED", "STARTING", "STARTED", "STOPPING"}
Up == {"STARTING", "STARTED"}
Flag == {"start_explicit", "waiting_for_deps", "waiting_for_console", "have_console",
         "force_stop", "start_failed", "in_auto_restart", "in_user_restart",
         "pinned_stopped", "pinned_started", "dept_pinned_started", "is_triggered"}
Prop == {"require", "release", "failure", "start", "stop", "pin_dpt"}
StopReason == {"NORMAL", "DEPRESTART", "DEPFAILED", "FAILED", "EXECFAILED",
               "TIMEDOUT", "TERMINATED"}

\* Fields of base_process_service / process_service: "pid" (pid != -1), "execstat"
\* (waiting_for_execstat), the two timer flags, "stop_issued", "stop_pid" (stop_pid != -1),
\* "notify" (notification_fd != -1), "ready_watch" (readiness watcher enabled), and facts of
\* the environment: "timer" (process_timer is armed), "stop_exec" (the outstanding exec status
\* is the stop command's), "signal" (a signal was sent to the process group) and "killed" (SIGKILL
\* was sent to the process or to the stop command).
PsField == {"pid", "execstat", "stopstart_timer", "restart_timer", "stop_issued", "stop_pid",
            "notify", "ready_watch", "timer", "stop_exec", "signal", "killed"}

Op == {"process_queues", "do_propagation", "require_deps", "release_deps", "pin_deps",
       "pin_dpt_done", "execute_transition", "start", "do_start", "initiate_start",
       "all_deps_started", "bring_up", "pull_console", "acquired_console", "started",
       "notify_dependents", "failed_to_start", "fail_dependents", "drop_link", "drop_explicit",
       "stopped", "break_soft", "stopped_deps", "chain", "stop", "forced_stop",
       "unrecoverable_stop", "do_stop", "stop_dependents", "queue_stop", "bring_down",
       "pin_start", "unpin", "unpin_started", "unpin_stopped", "start_dep", "rewake",
       "do_restart", "handle_exit_status", "after_termination"}
Arg == Prop \cup {"issue_stop", "immediate", "will_restart", "bring_down", "with_restart",
                  "for_restart", "all_stopped", "pin"}

Frame == [op : Op, svc : Services \cup {None}, todo : Seq(Links), arg : SUBSET Arg]

Call(op, s) == [op |-> op, svc |-> s, todo |-> <<>>, arg |-> {}]
CallWith(op, s, arg) == [op |-> op, svc |-> s, todo |-> <<>>, arg |-> arg]
Loop(op, s, todo, arg) == [op |-> op, svc |-> s, todo |-> todo, arg |-> arg]
ProcessQueues == <<Call("process_queues", None)>>

Top == Head(stack)
Me == Top.svc
At(op) == stack # <<>> /\ Top.op = op /\ Me \in Services
AtLoop(op) == At(op) /\ Top.todo # <<>>
AtLoopEnd(op) == At(op) /\ Top.todo = <<>>
\* Finish the call on top of the stack after making the given calls.
Return(calls) == stack' = calls \o Tail(stack)
\* One round of a loop over a dependency list: make the calls, then go on with the rest.
NextRound(calls) == Return(calls \o <<Loop(Top.op, Me, Tail(Top.todo), Top.arg)>>)
Idle == stack = <<>>

-----------------------------------------------------------------------------
\* service_dep::is_hard: a milestone is hard while it is still waited for.
is_hard(l) == l.type = "REGULAR" \/ (l.type = "MILESTONE" /\ l \in waiting_on)
\* service_dep::is_only_ordering
is_only_ordering(l) == l.type \in {"BEFORE", "AFTER"}

is_start_pinned(s) == {"pinned_started", "dept_pinned_started"} \cap flags[s] # {}
ForcedStopInterruptible(s) == "waiting_for_deps" \in flags[s]
can_interrupt_stop(s) == "waiting_for_deps" \in flags[s] /\ "force_stop" \notin flags[s]
is_fundamentally_stopped(s) ==
  \/ service_state[s] = "STOPPED"
  \/ service_state[s] = "STARTING" /\ "waiting_for_deps" \in flags[s]

check_deps_started(s) == LinkSet(depends_on[s]) \cap waiting_on = {}
stop_check_dependents(s) ==
  \A l \in LinkSet(dependents[s]) : ~(is_hard(l) /\ l \in holding_acq /\ l \notin waiting_on)

SetState(s, v) == service_state' = [service_state EXCEPT ![s] = v]
SetDesired(s, v) == desired_state' = [desired_state EXCEPT ![s] = v]
SetFlags(s, on, off) == flags' = [flags EXCEPT ![s] = (@ \ off) \cup on]
SetPs(s, on, off) == ps' = [ps EXCEPT ![s] = (@ \ off) \cup on]
When(cond, x) == IF cond THEN {x} ELSE {}
CallIf(cond, frame) == IF cond THEN <<frame>> ELSE <<>>

(***************************************************************************)
(* The queues are intrusive singly-linked lists (slist).  insert() puts an *)
(* element in front.  is_queued() tests "next pointer set or first", so it *)
(* answers FALSE for the last element unless that is also the first one,   *)
(* and such an element is inserted a second time in front of the list it   *)
(* already ends: popping the list then meets it twice.                     *)
(***************************************************************************)
is_queued(q, s) == \E i \in DOMAIN q : q[i] = s /\ (i = 1 \/ i < Len(q))
Insert(q, s) == IF is_queued(q, s) THEN q ELSE <<s>> \o q
add_prop_queue(s) == prop_queue' = Insert(prop_queue, s)
add_transition_queue(s) == stop_queue' = Insert(stop_queue, s)
\* Unlinking an element of a list in which it occurs at most once
Position(q, x) == CHOOSE i \in DOMAIN q : q[i] = x
Unless(q, x) == IF \E i \in DOMAIN q : q[i] = x
                THEN SubSeq(q, 1, Position(q, x) - 1) \o SubSeq(q, Position(q, x) + 1, Len(q))
                ELSE q

=============================================================================

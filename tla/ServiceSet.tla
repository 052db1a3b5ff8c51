----------------------------- MODULE ServiceSet -----------------------------
(***************************************************************************)
(* service_set (service.h): processing of the two work queues, hand-over   *)
(* of the console, the commands that reach the records from the control    *)
(* connections, shutdown, and the specification of the whole service       *)
(* manager.                                                                *)
(***************************************************************************)
EXTENDS ProcService

CONSTANT Commands   \* the commands operators may issue
CommandNames == {"start", "start_pin", "stop", "stop_pin", "stop_gentle", "restart", "wake",
                 "wake_pin", "release", "release_pin", "unpin", "trigger", "untrigger",
                 "add_dep", "enable_dep", "rm_dep", "shutdown"}
ASSUME CommandsAssumption == Commands \subseteq CommandNames

-----------------------------------------------------------------------------
(* process_queues(): propagation has precedence over transitions *)

AtProcessQueues == stack # <<>> /\ Top.op = "process_queues"

PopPropQueue ==
  /\ AtProcessQueues /\ prop_queue # <<>>
  /\ prop_queue' = Tail(prop_queue)
  /\ stack' = <<CallWith("do_propagation", Head(prop_queue), Prop)>> \o stack
  /\ Local /\ UNCHANGED <<recordVars, linkVars, stop_queue>>

PopStopQueue ==
  /\ AtProcessQueues /\ prop_queue = <<>> /\ stop_queue # <<>>
  /\ stop_queue' = Tail(stop_queue)
  /\ stack' = <<Call("execute_transition", Head(stop_queue))>> \o stack
  /\ Local /\ UNCHANGED <<recordVars, linkVars, prop_queue>>

QueuesProcessed ==
  /\ AtProcessQueues /\ prop_queue = <<>> /\ stop_queue = <<>>
  /\ Return(<<>>)
  /\ Local /\ UNCHANGED <<recordVars, linkVars, queueVars>>

-----------------------------------------------------------------------------
(* The console.  The log owns it ("active") until a service queues for it; the log then *)
(* gives it up at the end of the message it is writing ("releasing", then "released").  *)

\* queue_for_console() with append_console_queue() and enable_console_log(false): if the
\* log has nothing to finish, the console is handed over within the call
QueueForConsole ==
  /\ At("all_deps_started")
  /\ "starts_on_console" \in Options[Me] /\ "have_console" \notin flags[Me]
  /\ SetFlags(Me, {"waiting_for_console"}, {})
  /\ \/ /\ console_queue = <<>> /\ console_log = "active"
        /\ console_log' = "released"
        /\ UNCHANGED console_queue
        /\ Return(<<Call("acquired_console", Me)>>)
     \/ /\ console_queue' = Append(console_queue, Me)
        /\ console_log' = IF console_queue = <<>> /\ console_log = "active" THEN "releasing"
                                                                            ELSE console_log
        /\ Return(<<>>)
  /\ NoProcess
  /\ UNCHANGED <<service_state, desired_state, required_by, prop, stop_reason,
                 linkVars, queueVars>>

LogGetsItToo ==
  /\ At("pull_console")
  /\ console_log' = "active"
  /\ IF console_queue = <<>>
     THEN UNCHANGED console_queue /\ Return(<<>>)
     ELSE /\ console_queue' = Tail(console_queue)
          /\ Return(<<Call("acquired_console", Head(console_queue))>>)
  /\ NoProcess /\ UNCHANGED <<recordVars, linkVars, queueVars>>

\* pull_console_queue(), called by a service that has given the console up
PullConsoleQueue ==
  /\ At("pull_console")
  /\ IF console_queue = <<>>
     THEN console_log' = "active" /\ UNCHANGED console_queue /\ Return(<<>>)
     ELSE /\ console_queue' = Tail(console_queue)
          /\ Return(<<Call("acquired_console", Head(console_queue))>>)
          /\ UNCHANGED console_log
  /\ NoProcess /\ UNCHANGED <<recordVars, linkVars, queueVars>>

\* acquired_console(): use it, or pass it on if the start has been given up meanwhile
AcquiredConsole ==
  /\ At("acquired_console")
  /\ LET use == service_state[Me] = "STARTING" /\ check_deps_started(Me)
     IN /\ SetFlags(Me, When(use, "have_console"), {"waiting_for_console"})
        /\ Return(<<Call(IF use THEN "all_deps_started" ELSE "pull_console", Me)>>)
  /\ Local
  /\ UNCHANGED <<service_state, desired_state, required_by, prop, stop_reason,
                 linkVars, queueVars>>

\* The log finishes its message and calls pull_console_queue().  The log's handler does
\* not process the queues afterwards.
LogReleasesConsole ==
  /\ NextEvent /\ console_log = "releasing"
  /\ IF console_queue = <<>>
     THEN console_log' = "active" /\ UNCHANGED <<console_queue, stack>>
     ELSE /\ console_log' = "released"
          /\ console_queue' = Tail(console_queue)
          /\ stack' = <<Call("acquired_console", Head(console_queue))>>
  /\ NoProcess /\ UNCHANGED <<recordVars, linkVars, queueVars>>

SetStep ==
  \/ PopPropQueue \/ PopStopQueue \/ QueuesProcessed
  \/ QueueForConsole \/ PullConsoleQueue \/ AcquiredConsole

-----------------------------------------------------------------------------
(* Commands (control.cc).  Each checks its preconditions, then makes its calls. *)

Command(c) == NextEvent /\ c \in Commands
OnlyCalls == UNCHANGED <<recordVars, linkVars, queueVars>> /\ Local

RefusedPinnedStopped(s) ==
  service_state[s] \in {"STOPPED", "STOPPING"} /\ "pinned_stopped" \in flags[s]
RefusedPinnedStarted(s) == service_state[s] \in Up /\ is_start_pinned(s)

StartService(s) ==
  \E pin \in BOOLEAN :
    /\ Command(IF pin THEN "start_pin" ELSE "start")
    /\ restart_enabled /\ ~RefusedPinnedStopped(s)
    /\ stack' = CallIf(pin, Call("pin_start", s)) \o <<Call("start", s)>> \o ProcessQueues
    /\ OnlyCalls

\* A stop, possibly pinned, or only if no hard dependent would be affected ("gentle")
StopService(s) ==
  \E c \in {"stop", "stop_pin", "stop_gentle"} :
    /\ Command(c)
    /\ ~RefusedPinnedStarted(s)
    /\ c = "stop_gentle" =>
         \A l \in LinkSet(dependents[s]) : ~(l.type = "REGULAR" /\ l \in holding_acq)
    /\ SetFlags(s, When(c = "stop_pin", "pinned_stopped"), {})
    /\ stack' = <<CallWith("stop", s, {"bring_down"}), Call("forced_stop", s)>> \o ProcessQueues
    /\ Local
    /\ UNCHANGED <<service_state, desired_state, required_by, prop, stop_reason,
                   linkVars, queueVars>>

\* restart(): only of a started service
RestartService(s) ==
  /\ Command("restart")
  /\ restart_enabled /\ ~RefusedPinnedStarted(s) /\ service_state[s] = "STARTED"
  /\ stop_reason' = [stop_reason EXCEPT ![s] = "NORMAL"]
  /\ SetFlags(s, {"force_stop"}, {})
  /\ stack' = <<CallWith("do_stop", s, {"with_restart"})>> \o ProcessQueues
  /\ Local
  /\ UNCHANGED <<service_state, desired_state, required_by, prop, linkVars, queueVars>>

WakeService(s) ==
  \E pin \in BOOLEAN :
    /\ Command(IF pin THEN "wake_pin" ELSE "wake")
    /\ restart_enabled /\ ~RefusedPinnedStopped(s)
    /\ stack' = <<Loop("rewake", s, dependents[s], {})>>
                \o CallIf(pin, Call("pin_start", s)) \o ProcessQueues
    /\ OnlyCalls

ReleaseService(s) ==
  \E pin \in BOOLEAN :
    /\ Command(IF pin THEN "release_pin" ELSE "release")
    /\ SetFlags(s, When(pin, "pinned_stopped"), {})
    /\ stack' = <<Call("stop", s)>> \o ProcessQueues
    /\ Local
    /\ UNCHANGED <<service_state, desired_state, required_by, prop, stop_reason,
                   linkVars, queueVars>>

UnpinService(s) ==
  /\ Command("unpin")
  /\ stack' = <<Call("unpin", s)>> \o ProcessQueues
  /\ OnlyCalls

\* set_trigger() of a triggered service
SetTrigger(s) ==
  \E on \in BOOLEAN :
    /\ Command(IF on THEN "trigger" ELSE "untrigger") /\ ServiceType[s] = "TRIGGERED"
    /\ SetFlags(s, When(on, "is_triggered"), {"is_triggered"})
    /\ stack' = CallIf(on /\ service_state[s] = "STARTING" /\ "waiting_for_deps" \notin flags[s],
                       Call("started", s)) \o ProcessQueues
    /\ Local
    /\ UNCHANGED <<service_state, desired_state, required_by, prop, stop_reason,
                   linkVars, queueVars>>

\* The services reachable from s along the dependency lists, s included
DependsOnSet(S) == S \cup {l.to : l \in UNION {LinkSet(depends_on[s]) : s \in S}}
Closure(s) ==
  LET reach[n \in 0 .. Cardinality(Services)] ==
        IF n = 0 THEN {s} ELSE DependsOnSet(reach[n - 1])
  IN reach[Cardinality(Services)]

\* add_service_dep(): refused if it contradicts the states or closes a cycle.  A type that a
\* command may not use gets the bad-request reply, and the link is added all the same.
MayAddDep(l) ==
  /\ l.from # l.to
  /\ l.type = "REGULAR" => service_state[l.from] = "STOPPED" \/ service_state[l.to] = "STARTED"
  /\ l.from \notin Closure(l.to)
AddDep(l) ==
  \E enable \in BOOLEAN :
    /\ Command(IF enable THEN "enable_dep" ELSE "add_dep")
    /\ MayAddDep(l)
    /\ LET new == l \notin LinkSet(depends_on[l.from])
           acquire == /\ new /\ service_state[l.from] \in Up
                      /\ l.type = "REGULAR" \/ service_state[l.to] \in Up
       IN /\ depends_on' = IF new THEN [depends_on EXCEPT ![l.from] = Append(@, l)] ELSE depends_on
          /\ dependents' = IF new THEN [dependents EXCEPT ![l.to] = Append(@, l)] ELSE dependents
          /\ IF acquire
             THEN Require(l.to) /\ holding_acq' = holding_acq \cup {l}
             ELSE UNCHANGED <<required_by, prop, prop_queue, holding_acq>>
          /\ stack' = (IF new THEN ProcessQueues ELSE <<>>)
                      \o CallIf(enable, Loop("start_dep", l.from, <<l>>, {}))
    /\ UNCHANGED <<service_state, desired_state, flags, stop_reason, waiting_on, stop_queue,
                   consoleVars, setVars, ps>>

\* rm_dep(): the link disappears, whatever its type, with the activation it held
RemoveDep(l) ==
  /\ Command("rm_dep")
  /\ l \in LinkSet(depends_on[l.from])
  /\ depends_on' = [depends_on EXCEPT ![l.from] = Unless(@, l)]
  /\ dependents' = [dependents EXCEPT ![l.to] = Unless(@, l)]
  /\ waiting_on' = waiting_on \ {l}
  /\ holding_acq' = holding_acq \ {l}
  /\ IF l \in holding_acq
     THEN /\ Release(l.to, TRUE)
          /\ stack' = ReleaseCalls(l.to, TRUE) \o ProcessQueues
     ELSE /\ UNCHANGED <<required_by, desired_state, prop, prop_queue, stop_reason>>
          /\ stack' = ProcessQueues
  /\ UNCHANGED <<service_state, flags, stop_queue, consoleVars, setVars, ps>>

\* stop_all_services(): stop and unpin every record, in order
StopAllServices ==
  /\ Command("shutdown")
  /\ restart_enabled' = FALSE
  /\ stack' = [i \in 1 .. 2 * Len(Records) |->
                 Call(IF i % 2 = 1 THEN "stop" ELSE "unpin", Records[(i + 1) \div 2])]
              \o ProcessQueues
  /\ UNCHANGED <<recordVars, linkVars, graphVars, queueVars, consoleVars, active_services, ps>>

-----------------------------------------------------------------------------
Init ==
  /\ service_state = [s \in Services |-> "STOPPED"]
  /\ desired_state = [s \in Services |-> "STOPPED"]
  /\ required_by = [s \in Services |-> 0]
  /\ flags = [s \in Services |-> {}]
  /\ prop = [s \in Services |-> {}]
  /\ stop_reason = [s \in Services |-> "NORMAL"]
  /\ waiting_on = {} /\ holding_acq = {}
  /\ depends_on = Graph.depends_on /\ dependents = Graph.dependents
  /\ prop_queue = <<>> /\ stop_queue = <<>>
  /\ console_queue = <<>> /\ console_log = "active"
  /\ active_services = 0 /\ restart_enabled = TRUE
  /\ ps = [s \in Services |-> {}]
  /\ stack = <<>>

\* One step of the handler that is running
Step == RecordStep \/ ProcStep \/ SetStep
ServiceCommand(s) ==
  \/ StartService(s) \/ StopService(s) \/ RestartService(s) \/ WakeService(s)
  \/ ReleaseService(s) \/ UnpinService(s) \/ SetTrigger(s)
OperatorStep ==
  \/ \E s \in Services : ServiceCommand(s)
  \/ \E l \in Links : AddDep(l) \/ RemoveDep(l)
  \/ StopAllServices
Next == Step \/ OperatorStep \/ LogReleasesConsole \/ \E s \in Services : ProcEvent(s)

Spec == Init /\ [][Next]_vars


=============================================================================

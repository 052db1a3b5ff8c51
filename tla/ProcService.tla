---------------------------- MODULE ProcService ----------------------------
(***************************************************************************)
(* base_process_service and process_service (baseproc-service.cc,          *)
(* proc-service.cc): the virtual methods service_record calls to bring a   *)
(* process up and down, and the handlers of the events a process causes:   *)
(* exec status, termination, readiness, timers, and the same for the stop  *)
(* command.  fork, exec, exit, the clock and the pipes are the environment:*)
(* whether a launch fails and when an event arrives is left open.          *)
(***************************************************************************)
EXTENDS ServiceRecord

\* Whether another event may be handled between the termination of a process and its exec
\* status.  The pipe is readable before the process can be reaped, so both are in the same
\* batch of events, but so may be a command or a timer.
CONSTANT StatusRace
ASSUME StatusRaceAssumption == StatusRace \in BOOLEAN

\* Actions of this module leave the graph, the links, the queues, the console and the set
\* alone; what they do to these they do through calls.
ProcessOnly == UNCHANGED <<required_by, prop, linkVars, graphVars, queueVars, consoleVars, setVars>>

\* The fields set by a successful start_ps_process()
Launched(s) == {"pid", "execstat"} \cup When("notification" \in Options[s], "notify")

-----------------------------------------------------------------------------
(* bring_up and bring_down *)

\* bring_up(): a first launch, with a start timer
BringUpProcess ==
  /\ At("bring_up") /\ ServiceType[Me] = "PROCESS" /\ "in_auto_restart" \notin flags[Me]
  /\ SetPs(Me, Launched(Me) \cup ArmTimer(Me, "start_timeout"), StopTimer(Me))
  /\ Return(<<>>)
  /\ ProcessOnly /\ UNCHANGED <<service_state, desired_state, flags, stop_reason>>

\* bring_up() for an automatic restart: restart_ps_process() launches now or after a delay
BringUpRestart ==
  /\ At("bring_up") /\ ServiceType[Me] = "PROCESS" /\ "in_auto_restart" \in flags[Me]
  /\ \/ Return(<<Call("do_restart", Me)>>) /\ UNCHANGED ps
     \/ Return(<<>>) /\ SetPs(Me, {"restart_timer", "timer"}, {})
  /\ ProcessOnly /\ UNCHANGED <<service_state, desired_state, flags, stop_reason>>

\* bring_up() returns false: no activation socket, pipe, or fork
BringUpFails ==
  /\ At("bring_up") /\ ServiceType[Me] = "PROCESS"
  /\ SetState(Me, "STOPPING")
  /\ Return(<<CallWith("failed_to_start", Me, {"immediate"})>>)
  /\ ProcessOnly /\ UNCHANGED <<ps, desired_state, flags, stop_reason>>

\* do_restart(), a regular restart or smooth recovery; a failure processes the queues itself
DoRestart ==
  /\ At("do_restart")
  /\ \/ /\ SetPs(Me, Launched(Me) \cup ArmTimer(Me, "start_timeout"), {"restart_timer"})
        /\ Return(<<>>)
     \/ /\ SetPs(Me, {}, {"restart_timer"})
        /\ Return(<<IF service_state[Me] = "STARTING"
                    THEN CallWith("failed_to_start", Me, {"immediate"})
                    ELSE Call("unrecoverable_stop", Me)>> \o ProcessQueues)
  /\ ProcessOnly /\ UNCHANGED <<service_state, desired_state, flags, stop_reason>>

SignalledAgain ==
  /\ At("bring_down") /\ ServiceType[Me] = "PROCESS"
  /\ SetPs(Me, {"signal", "stop_issued"} \cup ArmTimer(Me, "stop_timeout"), {})
  /\ Return(<<>>)
  /\ ProcessOnly /\ UNCHANGED <<service_state, desired_state, flags, stop_reason>>
\* bring_down(): run the stop command or signal the process, once; or finish if it is gone
BringDownProcess ==
  /\ At("bring_down") /\ ServiceType[Me] = "PROCESS"
  /\ \/ /\ {"stop_pid", "stop_issued", "execstat"} \cap ps[Me] # {}
        /\ Return(<<>>) /\ UNCHANGED ps
     \/ /\ {"stop_pid", "stop_issued", "execstat"} \cap ps[Me] = {} /\ "pid" \in ps[Me]
        /\ \/ "stop_command" \in Options[Me]
              /\ SetPs(Me, {"stop_pid", "execstat", "stop_exec", "stop_issued"}
                           \cup ArmTimer(Me, "stop_timeout"), {})
           \/ SetPs(Me, {"signal", "stop_issued"} \cup ArmTimer(Me, "stop_timeout"), {})
        /\ Return(<<>>)
     \/ /\ {"stop_pid", "stop_issued", "execstat", "pid"} \cap ps[Me] = {}
        /\ SetPs(Me, {}, StopRestartTimer(Me))
        /\ Return(<<Call("stopped", Me)>>)
  /\ ProcessOnly /\ UNCHANGED <<service_state, desired_state, flags, stop_reason>>

-----------------------------------------------------------------------------
(* Termination of the process *)

\* handle_exit_status(), by the state the exit is taken to happen in
HandleExitStatus ==
  /\ At("handle_exit_status")
  /\ LET recovering == service_state[Me] = "STARTED" /\ "stopstart_timer" \in ps[Me]
         cur == IF recovering THEN "STARTING" ELSE service_state[Me]
         closed == {"notify", "ready_watch"} \cup StopTimer(Me)
         finish == {"stop_pid", "execstat"} \cap ps[Me] = {}
         again == desired_state[Me] = "STARTED" /\ "pinned_stopped" \notin flags[Me]
         \* handle_unexpected_termination()
         Unexpected == /\ stop_reason' = [stop_reason EXCEPT ![Me] = "TERMINATED"]
                       /\ SetFlags(Me, {"force_stop"}, {})
                       /\ SetPs(Me, {}, closed)
                       /\ Return(<<Call("do_stop", Me)>> \o ProcessQueues
                                 \o <<Call("after_termination", Me)>> \o ProcessQueues)
     IN \/ /\ cur = "STARTING"
           /\ stop_reason' = [stop_reason EXCEPT ![Me] = "FAILED"]
           /\ SetPs(Me, {}, closed)
           /\ Return(<<CallWith("failed_to_start", Me, {"immediate"})>> \o ProcessQueues)
           /\ UNCHANGED <<desired_state, flags>>
        \/ /\ cur = "STOPPING" /\ "waiting_for_deps" \notin flags[Me]
           /\ SetPs(Me, {}, closed \cup When(finish, "stop_issued"))
           /\ Return(CallIf(finish, Call("stopped", Me)) \o ProcessQueues)
           /\ UNCHANGED <<desired_state, flags, stop_reason>>
        \/ /\ cur = "STOPPING" /\ "waiting_for_deps" \in flags[Me]
           /\ SetPs(Me, {}, closed)
           /\ Return(CallIf(again, Call("initiate_start", Me)) \o ProcessQueues)
           /\ UNCHANGED <<desired_state, flags, stop_reason>>
        \/ /\ cur = "STARTED" /\ "smooth_recovery" \in Options[Me]
           /\ \/ Return(<<Call("do_restart", Me)>>) /\ SetPs(Me, {}, closed)
              \/ Return(<<>>) /\ SetPs(Me, {"restart_timer", "timer"}, closed)
           /\ UNCHANGED <<desired_state, flags, stop_reason>>
        \/ /\ cur = "STARTED" /\ "smooth_recovery" \in Options[Me]
           /\ FALSE \in RestartVerdicts(Me)
           /\ SetDesired(Me, "STOPPED")
           /\ Unexpected
        \/ /\ cur = "STOPPED" \/ (cur = "STARTED" /\ "smooth_recovery" \notin Options[Me])
           /\ Unexpected /\ UNCHANGED desired_state
  /\ ProcessOnly /\ UNCHANGED service_state

\* the end of handle_unexpected_termination(): restart without waiting for dependents
AfterTermination ==
  /\ At("after_termination")
  /\ Return(IF /\ service_state[Me] = "STOPPING" /\ desired_state[Me] = "STARTED"
               /\ "pinned_stopped" \notin flags[Me]
            THEN <<Call("initiate_start", Me)>> \o ProcessQueues ELSE <<>>)
  /\ ProcessOnly /\ UNCHANGED <<ps, service_state, desired_state, flags, stop_reason>>

ProcStep ==
  \/ BringUpProcess \/ BringUpRestart \/ BringUpFails \/ DoRestart \/ BringDownProcess
  \/ HandleExitStatus \/ AfterTermination

-----------------------------------------------------------------------------
(* Events.  Each runs with an empty stack and names the calls its handler makes. *)

\* Terminated before its exec status was read
ExitedEarly(s) == /\ "execstat" \in ps[s]
                  /\ IF "stop_exec" \in ps[s] THEN "stop_pid" \notin ps[s] ELSE "pid" \notin ps[s]
NextEvent == Idle /\ (StatusRace \/ \A s \in Services : ~ExitedEarly(s))

\* service_child_watcher::status_change: the process has terminated
ChildExit(s) ==
  /\ NextEvent /\ "pid" \in ps[s]
  /\ LET gone == {"pid", "signal"} \cup When("stop_pid" \notin ps[s], "killed")
     IN IF "execstat" \in ps[s]
        THEN SetPs(s, {}, gone) /\ UNCHANGED stack
        ELSE SetPs(s, {}, gone \cup StopTimer(s)) /\ stack' = <<Call("handle_exit_status", s)>>
  /\ ProcessOnly /\ UNCHANGED <<service_state, desired_state, flags, stop_reason>>

\* exec_status_pipe_watcher::fd_event after a successful exec, with exec_succeeded()
ExecSucceeded(s) ==
  /\ Idle /\ "execstat" \in ps[s] /\ "stop_exec" \notin ps[s]
  /\ LET ready == service_state[s] = "STARTING" /\ "notification" \notin Options[s]
         recovered == service_state[s] = "STARTED" /\ "notify" \notin ps[s]
     IN /\ SetPs(s, When(service_state[s] = "STARTING" /\ ~ready, "ready_watch"),
                 {"execstat"} \cup (IF ready \/ recovered THEN StopTimer(s) ELSE {}))
        /\ stack' = CallIf(ready, Call("started", s))
                    \o CallIf(service_state[s] = "STOPPING" /\ stop_check_dependents(s),
                              Call("bring_down", s))
                    \o CallIf("pid" \notin ps[s], Call("handle_exit_status", s))
                    \o ProcessQueues
  /\ ProcessOnly /\ UNCHANGED <<service_state, desired_state, flags, stop_reason>>

\* exec_status_pipe_watcher::fd_event after a failed exec, with exec_failed()
ExecFailed(s) ==
  /\ Idle /\ "execstat" \in ps[s] /\ "stop_exec" \notin ps[s]
  /\ SetPs(s, {}, {"execstat", "pid", "signal", "killed", "notify", "ready_watch"} \cup StopTimer(s))
  /\ LET starting == service_state[s] = "STARTING"
     IN /\ stop_reason' = [stop_reason EXCEPT ![s] = IF starting THEN "EXECFAILED" ELSE "TERMINATED"]
        /\ service_state' = IF starting THEN [service_state EXCEPT ![s] = "STOPPING"] ELSE service_state
        /\ stack' = <<IF starting THEN CallWith("failed_to_start", s, {"immediate"})
                                  ELSE Call("unrecoverable_stop", s)>> \o ProcessQueues
  /\ ProcessOnly /\ UNCHANGED <<desired_state, flags>>

\* ready_notify_watcher::fd_event: the process reports that it is ready
Ready(s) ==
  /\ NextEvent /\ "ready_watch" \in ps[s] /\ service_state[s] = "STARTING"
  /\ SetPs(s, {}, StopTimer(s))
  /\ stack' = <<Call("started", s)>> \o ProcessQueues
  /\ ProcessOnly /\ UNCHANGED <<service_state, desired_state, flags, stop_reason>>

\* ready_notify_watcher::fd_event: the notification pipe is closed, before readiness or after
NotifyClosed(s) ==
  /\ NextEvent /\ "ready_watch" \in ps[s]
  /\ IF service_state[s] = "STARTING"
     THEN /\ SetPs(s, {}, StopTimer(s))
          /\ SetState(s, "STOPPING")
          /\ stack' = <<Call("failed_to_start", s), Call("bring_down", s)>> \o ProcessQueues
     ELSE SetPs(s, {}, {"notify", "ready_watch"}) /\ UNCHANGED <<service_state, stack>>
  /\ ProcessOnly /\ UNCHANGED <<desired_state, flags, stop_reason>>

\* timer_expired(): a stop timeout, a start timeout, or the restart delay.  The handler of
\* a start timeout leaves what it queued to the next handler that processes the queues.
TimerExpired(s) ==
  /\ NextEvent /\ "timer" \in ps[s]
  /\ LET expired == {"timer", "stopstart_timer"}
     IN \/ /\ service_state[s] = "STOPPING"
           /\ SetPs(s, When("pid" \in ps[s], "signal")
                    \cup When({"pid", "stop_pid"} \cap ps[s] # {}, "killed"), expired)
           /\ UNCHANGED <<service_state, stop_reason, stack>>
        \/ /\ service_state[s] # "STOPPING" /\ "pid" \in ps[s]
           /\ IF "restart_timer" \in ps[s]
              THEN SetPs(s, {}, expired \cup {"restart_timer"}) /\ UNCHANGED service_state
              ELSE /\ SetPs(s, {"signal"} \cup ArmTimer(s, "stop_timeout"), expired)
                   /\ SetState(s, "STOPPING")
           /\ stop_reason' = [stop_reason EXCEPT ![s] = "TIMEDOUT"]
           /\ stack' = <<Call("failed_to_start", s)>>
        \/ /\ service_state[s] # "STOPPING" /\ "pid" \notin ps[s]
           /\ SetPs(s, {}, expired)
           /\ stack' = <<Call("do_restart", s)>>
           /\ UNCHANGED <<service_state, stop_reason>>
  /\ ProcessOnly /\ UNCHANGED <<desired_state, flags>>

\* stop_child_watcher::status_change: the stop command has terminated
StopChildExit(s) ==
  /\ NextEvent /\ "stop_pid" \in ps[s]
  /\ LET finish == {"execstat", "pid"} \cap ps[s] = {}
     IN /\ SetPs(s, {}, {"stop_pid"} \cup When("pid" \notin ps[s], "killed")
                          \cup When(finish, "stop_issued"))
        /\ stack' = CallIf(finish, Call("stopped", s))
                    \o (IF "execstat" \in ps[s] THEN <<>> ELSE ProcessQueues)
  /\ ProcessOnly /\ UNCHANGED <<service_state, desired_state, flags, stop_reason>>

\* stop_status_pipe_watcher::fd_event: the exec status of the stop command
StopExecStatus(s) ==
  /\ Idle /\ "stop_exec" \in ps[s]
  /\ \/ LET finish == {"stop_pid", "pid"} \cap ps[s] = {}
        IN /\ SetPs(s, {}, {"execstat", "stop_exec"} \cup When(finish, "stop_issued"))
           /\ stack' = CallIf(finish, Call("stopped", s)) \o ProcessQueues
     \/ /\ SetPs(s, When({"stop_pid", "pid"} \subseteq ps[s], "signal"),
                 {"execstat", "stop_exec", "stop_pid"})
        /\ stack' = ProcessQueues
  /\ ProcessOnly /\ UNCHANGED <<service_state, desired_state, flags, stop_reason>>

ProcEvent(s) ==
  \/ ChildExit(s) \/ ExecSucceeded(s) \/ ExecFailed(s) \/ Ready(s) \/ NotifyClosed(s)
  \/ TimerExpired(s) \/ StopChildExit(s) \/ StopExecStatus(s)

=============================================================================

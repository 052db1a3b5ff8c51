------------------------- MODULE ServiceProperties -------------------------
(***************************************************************************)
(* What the service manager must guarantee.  "Between handlers" means that *)
(* the event loop is idle; "quiescent" that the work queues are empty too. *)
(***************************************************************************)
EXTENDS ServiceTypes

Quiescent == Idle /\ prop_queue = <<>> /\ stop_queue = <<>>

-----------------------------------------------------------------------------
(* Activation counts *)

\* Between handlers the count is exact: require(), release(), the re-attachment in do_start()
\* and the releases in failed_to_start() never count an activation twice, so the last release
\* of a service always brings required_by to zero.
ActivationExact ==
  Idle => \A s \in Services : required_by[s] = Cardinality(Held(s)) + Explicit(s)

-----------------------------------------------------------------------------
(* Dependency order *)

\* A service is brought up (all_deps_started() -> bring_up()) only when every hard dependency
\* has started, whatever happened between start_check_dependencies() and the transition.
StartOrder ==
  At("bring_up") =>
    \A l \in LinkSet(depends_on[Me]) : is_hard(l) => service_state[l.to] = "STARTED"

\* A service is brought down (execute_transition() -> bring_down()) only when each of its
\* hard dependents has stopped, or has not got beyond waiting for its dependencies.
StopOrder ==
  At("bring_down") =>
    \A l \in LinkSet(dependents[Me]) : is_hard(l) => is_fundamentally_stopped(l.from)

\* When nothing is left to process, a started service has all its hard dependencies started
\* (a dependency that was lost takes the service to STOPPING in the same handler).
StartedDepsStarted ==
  Quiescent =>
    \A s \in Services : service_state[s] = "STARTED" =>
      \A l \in LinkSet(depends_on[s]) : l.type = "REGULAR" => service_state[l.to] = "STARTED"

\* When nothing is left to process, a service that is starting or started holds an activation
\* of each of its hard dependencies, so none of them can be released under it.
UpHoldsDeps ==
  Quiescent =>
    \A s \in Services : service_state[s] \in Up =>
      \A l \in LinkSet(depends_on[s]) : l.type = "REGULAR" => l \in holding_acq

\* A link that only orders two starts ("before", "after") never holds an activation: no
\* dependency relationship is implied, neither by require() nor by the re-attachment in
\* do_start().
OrderingHoldsNothing == \A l \in holding_acq : ~is_only_ordering(l)

-----------------------------------------------------------------------------
(* Required services are up, the others are not *)

\* active_services, which decides when a shutdown is complete, counts exactly the services
\* that are not stopped.
ActiveCount ==
  Idle => active_services = Cardinality({s \in Services : service_state[s] # "STOPPED"})

-----------------------------------------------------------------------------
(* Nothing gets stuck *)

\* A process, a timer or an exec status that will call back
CallbackPending(s) == {"pid", "execstat", "restart_timer", "stop_pid"} \cap ps[s] # {}

\* A service that is starting waits for something that will happen: the console, a
\* dependency on its way, a callback of its process, or the trigger.
StartingProgresses ==
  Quiescent =>
    \A s \in Services : service_state[s] = "STARTING" =>
      \/ "waiting_for_console" \in flags[s]
      \/ \E l \in LinkSet(depends_on[s]) :
           l \in waiting_on /\ service_state[l.to] \in {"STARTING", "STOPPING"}
      \/ CallbackPending(s)
      \/ ServiceType[s] = "TRIGGERED" /\ "is_triggered" \notin flags[s]

\* A service that is stopping waits for something that will happen: a hard dependent that
\* has not stopped, or a callback of its process or of its stop command.
StoppingProgresses ==
  Quiescent =>
    \A s \in Services : service_state[s] = "STOPPING" =>
      \/ /\ "waiting_for_deps" \in flags[s]
         /\ \E l \in LinkSet(dependents[s]) : is_hard(l) /\ service_state[l.from] # "STOPPED"
      \/ CallbackPending(s)

\* When nothing is left to process, no service is stuck between two states: whatever it waits
\* for in STARTING or in STOPPING will call it back.
NothingStuck == StartingProgresses /\ StoppingProgresses

\* Every handler leaves the work queues empty: what an event asks for is done before the
\* next event is waited for.
Drained == Idle => prop_queue = <<>> /\ stop_queue = <<>>

\* A record is at most once in each work queue.
QueuedOnce ==
  \A q \in {prop_queue, stop_queue} : \A i, j \in DOMAIN q : q[i] = q[j] => i = j

-----------------------------------------------------------------------------
(* Processes and timers *)

\* A stopped service has no process, no stop command, no pending exec status and no timer.
StoppedHasNoProcess ==
  Idle => \A s \in Services : service_state[s] = "STOPPED" => ps[s] = {}

\* A process is launched only when the record has none: a service never runs twice.
OneProcess ==
  (At("bring_up") /\ ServiceType[Me] = "PROCESS") \/ At("do_restart")
    => {"pid", "execstat"} \cap ps[Me] = {}

\* A process is restarted only by a service that is starting or started.
RestartOnlyWhenUp == At("do_restart") => service_state[Me] \in Up

\* failed_to_start() is never called for a service on which a started service depends.
FailureHasNoStartedDependents ==
  At("failed_to_start") =>
    \A l \in LinkSet(dependents[Me]) : l.type = "REGULAR" => service_state[l.from] # "STARTED"

\* A process that is signalled exists: kill_pg() never uses the process ID -1.
SignalHasTarget == \A s \in Services : "signal" \in ps[s] => "pid" \in ps[s]

\* While a process is asked to stop and a stop timeout is set, either the timer is armed or
\* the process has been killed: a process that ignores its signal cannot block a shutdown.
StopIsBounded ==
  Idle => \A s \in Services :
    /\ service_state[s] = "STOPPING" /\ "stop_timeout" \in Options[s]
    /\ "stop_issued" \in ps[s] /\ {"pid", "stop_pid"} \cap ps[s] # {}
    => {"timer", "killed"} \cap ps[s] # {}

-----------------------------------------------------------------------------
(* Pins *)

\* A service that is stopped and pinned stopped stays stopped as long as it is pinned.
PinnedStaysStoppedStep ==
  \A s \in Services : service_state[s] = "STOPPED" /\ "pinned_stopped" \in flags[s]
                      => service_state'[s] = "STOPPED"
PinnedStaysStopped == [][PinnedStaysStoppedStep]_vars

\* A pin that is inherited comes from a hard dependent that is pinned (dept_pinned_started).
PinIsInherited ==
  Idle => \A s \in Services : "dept_pinned_started" \in flags[s] =>
            \E l \in LinkSet(dependents[s]) : is_hard(l) /\ is_start_pinned(l.from)

-----------------------------------------------------------------------------
(* Steps a service may never take *)

\* After a shutdown has begun a service that has stopped stays stopped: no restart, no
\* activation by a dependent and no chained service brings it up again.
NoStartAfterShutdownStep ==
  \A s \in Services : ~restart_enabled /\ service_state[s] = "STOPPED"
                      => service_state'[s] = "STOPPED"
NoStartAfterShutdown == [][NoStartAfterShutdownStep]_vars

-----------------------------------------------------------------------------
(* Progress.  The event loop runs a handler to its end and dispatches the pending events.  *)
(* A process whose exec status is awaited reports it (the pipe is closed by exec or by exit),*)
(* an armed timer expires, a process that was sent SIGKILL terminates, and the log finishes *)
(* its message.  Nothing is assumed of processes that were not killed; operators must stop  *)
(* issuing commands at some time, because weak fairness lets an endless stream of commands  *)
(* starve the other events (the loop of the program does not).                              *)

FairEvents(s) ==
  /\ WF_vars(ExecSucceeded(s) \/ ExecFailed(s))
  /\ WF_vars(StopExecStatus(s))
  /\ WF_vars(TimerExpired(s))
  /\ WF_vars("killed" \in ps[s] /\ ChildExit(s))
  /\ WF_vars("killed" \in ps[s] /\ StopChildExit(s))
FairSpec ==
  /\ Spec
  /\ WF_vars(Step) /\ WF_vars(LogReleasesConsole) /\ \A s \in Services : FairEvents(s)
  /\ <>[][~OperatorStep]_vars

\* A shutdown completes: every service stops, and the event loop learns of it.
ShutdownCompletes ==
  ~restart_enabled ~> (active_services = 0 /\ \A s \in Services : service_state[s] = "STOPPED")

=============================================================================

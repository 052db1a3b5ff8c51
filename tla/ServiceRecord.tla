--------------------------- MODULE ServiceRecord ---------------------------
(***************************************************************************)
(* service_record (service.cc, service.h): the state machine of one        *)
(* service and the calls it makes on its neighbours in the dependency      *)
(* graph.  One action per step of a method.  A loop over a dependency list *)
(* is a frame that carries the links still to visit, so the calls made in  *)
(* the body happen in the order of the list, before the next round.        *)
(***************************************************************************)
EXTENDS ServiceBase

\* Actions that touch no process field, no graph, and not the counters of the set.
NoProcess == UNCHANGED <<ps, depends_on, dependents, active_services, restart_enabled>>
Local == NoProcess /\ UNCHANGED consoleVars

-----------------------------------------------------------------------------
(* Activation counting *)

RequireWithoutStart(s) ==
  required_by' = [required_by EXCEPT ![s] = @ + 1] /\ UNCHANGED <<prop, prop_queue>>
RequireCountedOnce(s) ==
  required_by' = [required_by EXCEPT ![s] = 1] /\ UNCHANGED <<prop, prop_queue>>
\* require(): one more reason to be up; the first one asks for a start.
Require(s) ==
  /\ required_by' = [required_by EXCEPT ![s] = @ + 1]
  /\ IF required_by[s] = 0 /\ service_state[s] \notin Up
     THEN prop' = [prop EXCEPT ![s] = @ \cup {"start"}] /\ add_prop_queue(s)
     ELSE UNCHANGED <<prop, prop_queue>>

\* release(issue_stop): one reason less; the last one asks for the release of the
\* dependencies (or cancels a pending require) and stops the service unless it is pinned.
StopsOnRelease(s, issue) ==
  issue /\ required_by[s] = 1 /\ ~is_start_pinned(s) /\ service_state[s] \in Up
ReleaseKeepsDeps(s, issue) ==
  /\ required_by' = [required_by EXCEPT ![s] = @ - 1]
  /\ desired_state' = IF required_by[s] = 1 THEN [desired_state EXCEPT ![s] = "STOPPED"]
                                            ELSE desired_state
  /\ UNCHANGED <<prop, prop_queue, stop_reason>>
Release(s, issue) ==
  /\ required_by' = [required_by EXCEPT ![s] = @ - 1]
  /\ desired_state' = IF required_by[s] = 1 THEN [desired_state EXCEPT ![s] = "STOPPED"]
                                            ELSE desired_state
  /\ IF required_by[s] = 1 /\ ~is_start_pinned(s)
     THEN IF "require" \in prop[s]
          THEN prop' = [prop EXCEPT ![s] = @ \ {"require", "release"}] /\ UNCHANGED prop_queue
          ELSE prop' = [prop EXCEPT ![s] = @ \cup {"release"}] /\ add_prop_queue(s)
     ELSE UNCHANGED <<prop, prop_queue>>
  /\ stop_reason' = IF StopsOnRelease(s, issue) THEN [stop_reason EXCEPT ![s] = "NORMAL"]
                                                ELSE stop_reason
ReleaseCalls(s, issue) == CallIf(StopsOnRelease(s, issue), Call("do_stop", s))

\* "holding_acq = false; release(...)" for a link to Me
DropLink ==
  /\ AtLoop("drop_link")
  /\ LET l == Head(Top.todo) IN
       /\ holding_acq' = holding_acq \ {l}
       /\ Release(l.to, FALSE)
  /\ Return(<<>>)
  /\ Local /\ UNCHANGED <<service_state, flags, waiting_on, stop_queue>>

\* "start_explicit = false; release(...)"
DropExplicit ==
  /\ At("drop_explicit")
  /\ SetFlags(Me, {}, {"start_explicit"})
  /\ Release(Me, "issue_stop" \in Top.arg)
  /\ Return(ReleaseCalls(Me, "issue_stop" \in Top.arg))
  /\ Local /\ UNCHANGED <<service_state, linkVars, stop_queue>>

-----------------------------------------------------------------------------
(* do_propagation: the pending prop_* requests of a record, in a fixed order *)

Rank == [require |-> 1, release |-> 2, failure |-> 3, start |-> 4, stop |-> 5, pin_dpt |-> 6]
Phase(p) ==
  /\ At("do_propagation")
  /\ p \in Top.arg \cap prop[Me]
  /\ \A q \in Top.arg \cap prop[Me] : Rank[p] <= Rank[q]
Propagate(p, calls) ==
  Return(calls \o <<CallWith("do_propagation", Me, {q \in Prop : Rank[q] > Rank[p]})>>)
NotCleared(p) == UNCHANGED prop
Clear(p) == prop' = [prop EXCEPT ![Me] = @ \ {p}]

PropRequire ==
  /\ Phase("require")
  /\ Propagate("require", <<Loop("require_deps", Me, depends_on[Me], {})>>)
  /\ Local /\ UNCHANGED <<recordVars, linkVars, queueVars>>

RequireDep ==
  /\ AtLoop("require_deps")
  /\ LET l == Head(Top.todo) IN
       IF is_only_ordering(l)
       THEN UNCHANGED <<required_by, prop, prop_queue, holding_acq>>
       ELSE Require(l.to) /\ holding_acq' = holding_acq \cup {l}
  /\ NextRound(<<>>)
  /\ Local
  /\ UNCHANGED <<service_state, desired_state, flags, stop_reason, waiting_on, stop_queue>>

RequireDepsEnd ==
  /\ AtLoopEnd("require_deps")
  /\ Clear("require")
  /\ Return(<<>>)
  /\ Local
  /\ UNCHANGED <<service_state, desired_state, required_by, flags, stop_reason,
                 linkVars, queueVars>>

PropRelease ==
  /\ Phase("release")
  /\ Propagate("release", <<Loop("release_deps", Me, depends_on[Me], {})>>)
  /\ Local /\ UNCHANGED <<recordVars, linkVars, queueVars>>

ReleaseDep ==
  /\ AtLoop("release_deps")
  /\ LET l == Head(Top.todo) IN
       IF l \in holding_acq
       THEN /\ holding_acq' = holding_acq \ {l}
            /\ Release(l.to, TRUE)
            /\ NextRound(ReleaseCalls(l.to, TRUE))
       ELSE /\ NextRound(<<>>)
            /\ UNCHANGED <<holding_acq, required_by, desired_state, prop, prop_queue, stop_reason>>
  /\ Local /\ UNCHANGED <<service_state, flags, waiting_on, stop_queue>>

ReleaseDepsEnd ==
  /\ AtLoopEnd("release_deps")
  /\ Clear("release")
  /\ Return(<<>>)
  /\ Local
  /\ UNCHANGED <<service_state, desired_state, required_by, flags, stop_reason,
                 linkVars, queueVars>>

PropFailure ==
  /\ Phase("failure")
  /\ Clear("failure")
  /\ stop_reason' = [stop_reason EXCEPT ![Me] = "DEPFAILED"]
  /\ SetState(Me, "STOPPED")
  /\ Propagate("failure", <<CallWith("failed_to_start", Me, {"immediate"})>>)
  /\ Local /\ UNCHANGED <<desired_state, required_by, flags, linkVars, queueVars>>

PropStart ==
  /\ Phase("start")
  /\ Clear("start")
  /\ Propagate("start", <<Call("do_start", Me)>>)
  /\ Local
  /\ UNCHANGED <<service_state, desired_state, required_by, flags, stop_reason,
                 linkVars, queueVars>>

PropStop ==
  /\ Phase("stop")
  /\ Clear("stop")
  /\ Propagate("stop", <<CallWith("do_stop", Me,
                                  When("in_user_restart" \in flags[Me], "with_restart"))>>)
  /\ Local
  /\ UNCHANGED <<service_state, desired_state, required_by, flags, stop_reason,
                 linkVars, queueVars>>

\* Recompute the pin inherited from hard dependents; prop_pin_dpt is never cleared.
PropPinDpt ==
  /\ Phase("pin_dpt")
  /\ LET pin == \E l \in LinkSet(dependents[Me]) : is_hard(l) /\ is_start_pinned(l.from)
     IN IF pin # ("dept_pinned_started" \in flags[Me])
        THEN /\ SetFlags(Me, When(pin, "dept_pinned_started"), {"dept_pinned_started"})
             /\ Return(<<Loop("pin_deps", Me, depends_on[Me], When(pin, "pin")),
                         Call("pin_dpt_done", Me)>>)
        ELSE UNCHANGED flags /\ Return(<<>>)
  /\ Local
  /\ UNCHANGED <<service_state, desired_state, required_by, prop, stop_reason,
                 linkVars, queueVars>>

PropagationDone ==
  /\ At("do_propagation")
  /\ Top.arg \cap prop[Me] = {}
  /\ Return(<<>>)
  /\ Local /\ UNCHANGED <<recordVars, linkVars, queueVars>>

\* Tell the hard dependencies that do not yet know about the changed pin.
PinDep ==
  /\ AtLoop("pin_deps")
  /\ LET l == Head(Top.todo) IN
       IF is_hard(l) /\ ("dept_pinned_started" \in flags[l.to]) # ("pin" \in Top.arg)
       THEN prop' = [prop EXCEPT ![l.to] = @ \cup {"pin_dpt"}] /\ add_prop_queue(l.to)
       ELSE UNCHANGED <<prop, prop_queue>>
  /\ NextRound(<<>>)
  /\ Local
  /\ UNCHANGED <<service_state, desired_state, required_by, flags, stop_reason,
                 linkVars, stop_queue>>

PinDptDone ==
  /\ At("pin_dpt_done")
  /\ Return(CallIf(/\ ~is_start_pinned(Me)
                   /\ desired_state[Me] = "STOPPED" \/ "force_stop" \in flags[Me]
                   /\ service_state[Me] = "STARTED",
                   Call("do_stop", Me)))
  /\ Local /\ UNCHANGED <<recordVars, linkVars, queueVars>>

\* A loop with nothing to do after its last round.
LoopDone ==
  /\ \E op \in {"pin_deps", "notify_dependents", "break_soft", "rewake"} : AtLoopEnd(op)
  /\ Return(<<>>)
  /\ Local /\ UNCHANGED <<recordVars, linkVars, queueVars>>

-----------------------------------------------------------------------------
(* Starting *)

\* start(): explicit activation
Start ==
  /\ At("start")
  /\ IF "pinned_stopped" \in flags[Me]
     THEN Return(<<>>) /\ UNCHANGED <<required_by, flags>>
     ELSE /\ required_by' = IF "start_explicit" \in flags[Me] THEN required_by
                            ELSE [required_by EXCEPT ![Me] = @ + 1]
          /\ SetFlags(Me, {"start_explicit"}, {})
          /\ Return(<<Call("do_start", Me)>>)
  /\ Local
  /\ UNCHANGED <<service_state, desired_state, prop, stop_reason, linkVars, queueVars>>

StartDespitePin ==
  /\ At("do_start") /\ "pinned_stopped" \in flags[Me]
  /\ SetDesired(Me, "STARTED")
  /\ Return(<<Call("initiate_start", Me)>>)
  /\ Local
  /\ UNCHANGED <<service_state, required_by, flags, prop, stop_reason, linkVars, queueVars>>
DoStartPinned ==
  /\ At("do_start") /\ "pinned_stopped" \in flags[Me]
  /\ SetDesired(Me, "STARTED")
  /\ Return(CallIf(service_state[Me] = "STOPPED", Call("failed_to_start", Me)))
  /\ Local
  /\ UNCHANGED <<service_state, required_by, flags, prop, stop_reason, linkVars, queueVars>>

DesiredFollowsState ==
  /\ At("do_start") /\ service_state[Me] # "STOPPED"
  /\ SetDesired(Me, service_state[Me])
  /\ Return(<<>>)
  /\ Local
  /\ UNCHANGED <<service_state, required_by, flags, prop, stop_reason, linkVars, queueVars>>
\* Already up, or stopping: only a stop still waiting for dependents can be taken back.
DoStartActive ==
  /\ At("do_start") /\ "pinned_stopped" \notin flags[Me] /\ service_state[Me] # "STOPPED"
  /\ SetDesired(Me, "STARTED")
  /\ Return(CallIf(service_state[Me] = "STOPPING" /\ can_interrupt_stop(Me),
                   Call("initiate_start", Me)))
  /\ Local
  /\ UNCHANGED <<service_state, required_by, flags, prop, stop_reason, linkVars, queueVars>>

\* The soft dependents that are up and hold nothing are attached again.
SoftReattach(s) ==
  {l \in LinkSet(dependents[s]) : /\ ~is_hard(l) /\ l \notin holding_acq
                                  /\ service_state[l.from] \in Up}
DoStartInactive ==
  /\ At("do_start") /\ "pinned_stopped" \notin flags[Me] /\ service_state[Me] = "STOPPED"
  /\ SetDesired(Me, "STARTED")
  /\ holding_acq' = holding_acq \cup SoftReattach(Me)
  /\ required_by' = [required_by EXCEPT ![Me] = @ + Cardinality(SoftReattach(Me))]
  /\ active_services' = active_services + 1
  /\ IF "release" \in prop[Me]
     THEN prop' = [prop EXCEPT ![Me] = @ \ {"require", "release"}] /\ UNCHANGED prop_queue
     ELSE prop' = [prop EXCEPT ![Me] = @ \cup {"require"}] /\ add_prop_queue(Me)
  /\ Return(<<Call("initiate_start", Me)>>)
  /\ UNCHANGED <<service_state, flags, stop_reason, waiting_on, graphVars, stop_queue,
                 consoleVars, restart_enabled, ps>>

WaitForStarting(s) == {l \in LinkSet(depends_on[s]) : service_state[l.to] = "STARTING"}
\* initiate_start() with start_check_dependencies()
WaitedFor(s) ==
  {l \in LinkSet(depends_on[s]) : /\ is_only_ordering(l) => service_state[l.to] = "STARTING"
                                  /\ service_state[l.to] # "STARTED"}
OrderingWaiters(s) ==
  {l \in LinkSet(dependents[s]) : is_only_ordering(l) /\ service_state[l.from] = "STARTING"}
InitiateStart ==
  /\ At("initiate_start")
  /\ SetFlags(Me, {"waiting_for_deps"}, {"start_failed"})
  /\ SetState(Me, "STARTING")
  /\ waiting_on' = waiting_on \cup WaitedFor(Me) \cup OrderingWaiters(Me)
  /\ IF WaitedFor(Me) = {} THEN add_transition_queue(Me) ELSE UNCHANGED stop_queue
  /\ Return(<<>>)
  /\ Local
  /\ UNCHANGED <<desired_state, required_by, prop, stop_reason, holding_acq, prop_queue>>

\* execute_transition(): a record taken from the transition queue
ExecuteTransition ==
  /\ At("execute_transition")
  /\ LET up == service_state[Me] = "STARTING" /\ check_deps_started(Me)
         down == service_state[Me] = "STOPPING" /\ stop_check_dependents(Me)
     IN /\ SetFlags(Me, {}, IF up \/ down THEN {"waiting_for_deps"} ELSE {})
        /\ Return(CallIf(up, Call("all_deps_started", Me))
                  \o CallIf(down, Call("bring_down", Me)))
  /\ Local
  /\ UNCHANGED <<service_state, desired_state, required_by, prop, stop_reason,
                 linkVars, queueVars>>

\* all_deps_started(): get the console first if it is needed, else bring the service up
AllDepsStarted ==
  /\ At("all_deps_started")
  /\ "starts_on_console" \notin Options[Me] \/ "have_console" \in flags[Me]
  /\ SetFlags(Me, {}, {"waiting_for_deps"})
  /\ Return(<<Call("bring_up", Me)>>)
  /\ Local
  /\ UNCHANGED <<service_state, desired_state, required_by, prop, stop_reason,
                 linkVars, queueVars>>

\* bring_up() of an internal and of a triggered service
BringUpInternal ==
  /\ At("bring_up") /\ ServiceType[Me] # "PROCESS"
  /\ Return(CallIf(ServiceType[Me] = "INTERNAL" \/ "is_triggered" \in flags[Me],
                   Call("started", Me)))
  /\ Local /\ UNCHANGED <<recordVars, linkVars, queueVars>>

\* dependency_started() and dependent_stopped(), called on a neighbour
StartCanProceed(s) == service_state[s] \in Up /\ "waiting_for_deps" \in flags[s]
StopNeverProceeds(s) == FALSE
StopCanProceed(s) == service_state[s] = "STOPPING" /\ "waiting_for_deps" \in flags[s]
Wake(s, cond) == IF cond THEN add_transition_queue(s) ELSE UNCHANGED stop_queue

\* started(); the console is given back first if it is not kept
Started ==
  /\ At("started")
  /\ IF "have_console" \in flags[Me] /\ "runs_on_console" \notin Options[Me]
     THEN /\ SetFlags(Me, {}, {"have_console"})
          /\ Return(<<Call("pull_console", Me), Call("started", Me)>>)
          /\ UNCHANGED service_state
     ELSE /\ SetState(Me, "STARTED")
          /\ UNCHANGED flags
          /\ Return(IF "force_stop" \in flags[Me] \/ desired_state[Me] = "STOPPED"
                    THEN <<Call("do_stop", Me)>>
                    ELSE <<Loop("notify_dependents", Me, dependents[Me], {})>>)
  /\ Local
  /\ UNCHANGED <<desired_state, required_by, prop, stop_reason, linkVars, queueVars>>

NotifyDependent ==
  /\ AtLoop("notify_dependents")
  /\ LET l == Head(Top.todo) IN
       /\ waiting_on' = waiting_on \ {l}
       /\ Wake(l.from, l \in waiting_on /\ StartCanProceed(l.from))
  /\ NextRound(<<>>)
  /\ Local /\ UNCHANGED <<recordVars, holding_acq, prop_queue>>

-----------------------------------------------------------------------------
(* Failing *)

\* failed_to_start(): give up the activation and fail the dependents waiting for us
FailedToStart ==
  /\ At("failed_to_start")
  /\ SetDesired(Me, "STOPPED")
  /\ console_queue' = IF "waiting_for_console" \in flags[Me] THEN Unless(console_queue, Me)
                                                             ELSE console_queue
  /\ SetFlags(Me, {}, {"waiting_for_console"})
  /\ Return(CallIf("start_explicit" \in flags[Me], Call("drop_explicit", Me))
            \o <<Loop("fail_dependents", Me, dependents[Me], Top.arg)>>)
  /\ NoProcess
  /\ UNCHANGED <<service_state, required_by, prop, stop_reason, linkVars, queueVars, console_log>>

FailDependent ==
  /\ AtLoop("fail_dependents")
  /\ LET l == Head(Top.todo) IN
       /\ IF l.type \in {"REGULAR", "MILESTONE"}
          THEN /\ IF service_state[l.from] = "STARTING"
                  THEN prop' = [prop EXCEPT ![l.from] = @ \cup {"failure"}] /\ add_prop_queue(l.from)
                  ELSE UNCHANGED <<prop, prop_queue>>
               /\ UNCHANGED <<waiting_on, stop_queue>>
          ELSE /\ waiting_on' = waiting_on \ {l}
               /\ Wake(l.from, l \in waiting_on /\ StartCanProceed(l.from))
               /\ UNCHANGED <<prop, prop_queue>>
       /\ NextRound(CallIf(l \in holding_acq, Loop("drop_link", Me, <<l>>, {})))
  /\ Local
  /\ UNCHANGED <<service_state, desired_state, required_by, flags, stop_reason, holding_acq>>

FailDependentsEnd ==
  /\ AtLoopEnd("fail_dependents")
  /\ SetFlags(Me, {"start_failed"}, {"pinned_started"})
  /\ Return(CallIf("immediate" \in Top.arg, Call("stopped", Me)))
  /\ Local
  /\ UNCHANGED <<service_state, desired_state, required_by, prop, stop_reason,
                 linkVars, queueVars>>

-----------------------------------------------------------------------------
(* Stopping *)

\* stopped(); the console is given back first
Stopped ==
  /\ At("stopped")
  /\ IF "have_console" \in flags[Me]
     THEN /\ SetFlags(Me, {}, {"have_console"})
          /\ Return(<<Call("pull_console", Me), Call("stopped", Me)>>)
     ELSE LET again == desired_state[Me] = "STARTED" /\ "pinned_stopped" \notin flags[Me]
          IN /\ SetFlags(Me, {}, {"force_stop"})
             /\ Return(CallIf(~again, Loop("break_soft", Me, dependents[Me], {}))
                       \o <<Loop("stopped_deps", Me, depends_on[Me], When(again, "will_restart"))>>)
  /\ Local
  /\ UNCHANGED <<service_state, desired_state, required_by, prop, stop_reason,
                 linkVars, queueVars>>

\* Break one soft link to Me: let the dependent go on, and give up its activation.
BreakSoft(l) ==
  /\ waiting_on' = waiting_on \ {l}
  /\ Wake(l.from, l \in waiting_on /\ StartCanProceed(l.from))
  /\ NextRound(CallIf(l \in holding_acq, Loop("drop_link", Me, <<l>>, {})))
BreakSoftDependent ==
  /\ AtLoop("break_soft")
  /\ LET l == Head(Top.todo) IN
       IF is_hard(l) THEN NextRound(<<>>) /\ UNCHANGED <<waiting_on, stop_queue>>
                     ELSE BreakSoft(l)
  /\ Local /\ UNCHANGED <<recordVars, holding_acq, prop_queue>>

StoppedDep ==
  /\ AtLoop("stopped_deps")
  /\ LET l == Head(Top.todo) IN Wake(l.to, StopCanProceed(l.to))
  /\ NextRound(<<>>)
  /\ Local /\ UNCHANGED <<recordVars, linkVars, prop_queue>>

StaysActive ==
  /\ AtLoopEnd("stopped_deps") /\ SetState(Me, "STOPPED") /\ UNCHANGED active_services
  /\ Return(CallIf("start_explicit" \in flags[Me], Call("drop_explicit", Me))
            \o CallIf(ChainTo[Me] # None, CallWith("chain", Me, Top.arg)))
  /\ UNCHANGED <<desired_state, required_by, flags, prop, stop_reason, linkVars, graphVars,
                 queueVars, consoleVars, restart_enabled, ps>>
SetStopped ==
  /\ AtLoopEnd("stopped_deps")
  /\ SetState(Me, "STOPPED")
  /\ LET again == "will_restart" \in Top.arg
         explicit == "start_explicit" \in flags[Me]
     IN /\ active_services' = IF ~again /\ ~explicit /\ required_by[Me] = 0
                              THEN active_services - 1 ELSE active_services
        /\ Return(CallIf(again, Call("initiate_start", Me))
                  \o CallIf(~again /\ explicit, Call("drop_explicit", Me))
                  \o CallIf(ChainTo[Me] # None, CallWith("chain", Me, Top.arg)))
  /\ UNCHANGED <<desired_state, required_by, flags, prop, stop_reason, linkVars, graphVars,
                 queueVars, consoleVars, restart_enabled, ps>>

ChainDespiteShutdown ==
  /\ At("chain") /\ Return(<<Call("start", ChainTo[Me])>>)
  /\ Local /\ UNCHANGED <<recordVars, linkVars, queueVars>>
\* The chain-to service is started after a clean finish (or always, if so configured); the
\* exit status and whether the chained service loads are left open.
Chain ==
  /\ At("chain")
  /\ LET finished == stop_reason[Me] = "TERMINATED" /\ "will_restart" \notin Top.arg
     IN \/ /\ "start_failed" \notin flags[Me] /\ restart_enabled
           /\ "always_chain" \in Options[Me] \/ finished
           /\ Return(<<Call("start", ChainTo[Me])>>)
        \/ Return(<<>>)
  /\ Local /\ UNCHANGED <<recordVars, linkVars, queueVars>>

\* stop(bring_down): give up the explicit activation
Stop ==
  /\ At("stop")
  /\ LET explicit == "start_explicit" \in flags[Me]
         left == IF explicit THEN required_by[Me] - 1 ELSE required_by[Me]
         down == "bring_down" \in Top.arg \/ left = 0
         pinned == is_start_pinned(Me)
         drop == ~pinned /\ left = 0
         halt == ~pinned /\ down /\ service_state[Me] # "STOPPED"
     IN /\ required_by' = [required_by EXCEPT ![Me] = left]
        /\ SetFlags(Me, {}, {"start_explicit"})
        /\ desired_state' = IF down THEN [desired_state EXCEPT ![Me] = "STOPPED"] ELSE desired_state
        /\ IF drop /\ "require" \notin prop[Me]
           THEN prop' = [prop EXCEPT ![Me] = @ \cup {"release"}] /\ add_prop_queue(Me)
           ELSE prop' = (IF drop THEN [prop EXCEPT ![Me] = @ \ {"release"}] ELSE prop)
                /\ UNCHANGED prop_queue
        /\ stop_reason' = IF halt THEN [stop_reason EXCEPT ![Me] = "NORMAL"] ELSE stop_reason
        /\ Return(CallIf(halt, Call("do_stop", Me)))
  /\ Local /\ UNCHANGED <<service_state, linkVars, stop_queue>>

\* forced_stop(), and unrecoverable_stop() which also gives up the desired state
ForcedStop ==
  /\ At("forced_stop") \/ At("unrecoverable_stop")
  /\ desired_state' = IF Top.op = "unrecoverable_stop"
                      THEN [desired_state EXCEPT ![Me] = "STOPPED"] ELSE desired_state
  /\ LET live == service_state[Me] # "STOPPED"
     IN /\ SetFlags(Me, When(live, "force_stop"), {})
        /\ IF live /\ ~is_start_pinned(Me)
           THEN prop' = [prop EXCEPT ![Me] = @ \cup {"stop"}] /\ add_prop_queue(Me)
           ELSE UNCHANGED <<prop, prop_queue>>
  /\ Return(<<>>)
  /\ Local /\ UNCHANGED <<service_state, required_by, stop_reason, linkVars, stop_queue>>

\* check_restart(): only a process service can refuse, and that depends on the clock
RestartVerdicts(s) ==
  IF ServiceType[s] = "PROCESS" /\ "restart_limit" \in Options[s] THEN BOOLEAN ELSE {TRUE}

\* do_stop(with_restart), up to the loop over the dependents
DoStop ==
  /\ At("do_stop") /\ ~is_start_pinned(Me)
  /\ LET with == "with_restart" \in Top.arg
         try == ~with /\ "auto_restart" \in Options[Me] /\ desired_state[Me] = "STARTED"
     IN \E ok \in IF try THEN RestartVerdicts(Me) ELSE {FALSE} :
          LET again == with \/ ok
          IN /\ desired_state' = IF try /\ ~ok THEN [desired_state EXCEPT ![Me] = "STOPPED"]
                                 ELSE desired_state
             /\ SetFlags(Me, When(ok, "in_auto_restart"), {"in_auto_restart", "in_user_restart"})
             /\ Return(CallIf(~again /\ "start_explicit" \in flags[Me], Call("drop_explicit", Me))
                       \o <<Loop("stop_dependents", Me, dependents[Me],
                                 When(again, "for_restart") \cup When(with, "with_restart")
                                 \cup {"all_stopped"})>>)
  /\ Local
  /\ UNCHANGED <<service_state, required_by, prop, stop_reason, linkVars, queueVars>>

DoStopPinned ==
  /\ At("do_stop") /\ is_start_pinned(Me)
  /\ Return(<<>>)
  /\ Local /\ UNCHANGED <<recordVars, linkVars, queueVars>>

\* stop_dependents(), one hard dependent
StopHardDependent ==
  /\ AtLoop("stop_dependents") /\ is_hard(Head(Top.todo))
  /\ LET d == Head(Top.todo).from
         live == service_state[d] # "STOPPED"
         giveup == desired_state[Me] = "STOPPED"
         forced == "force_stop" \in flags[Me]
         fail == forced /\ giveup
         halt == live /\ giveup /\ ~forced /\ desired_state[d] # "STOPPED"
         again == live /\ ~giveup /\ "with_restart" \in Top.arg /\ service_state[d] # "STOPPING"
         explicit == halt /\ "start_explicit" \in flags[d]
         ask == again \/ (halt /\ ~explicit) \/ (forced /\ live /\ ~is_start_pinned(d))
         all == is_fundamentally_stopped(d)
         rest == Loop("stop_dependents", Me, Tail(Top.todo),
                      IF all THEN Top.arg ELSE Top.arg \ {"all_stopped"})
     IN /\ stop_reason' = [stop_reason EXCEPT ![d] = IF again THEN "DEPRESTART"
                                                     ELSE IF fail THEN "DEPFAILED" ELSE @]
        /\ desired_state' = [desired_state EXCEPT ![d] = IF fail \/ halt THEN "STOPPED" ELSE @]
        /\ SetFlags(d, When(forced /\ live, "force_stop") \cup When(again, "in_user_restart"), {})
        /\ IF ask
           THEN prop' = [prop EXCEPT ![d] = @ \cup {"stop"}] /\ add_prop_queue(d)
           ELSE UNCHANGED <<prop, prop_queue>>
        /\ Return((IF explicit THEN <<CallWith("drop_explicit", d, {"issue_stop"}),
                                      Call("queue_stop", d)>> ELSE <<>>) \o <<rest>>)
  /\ Local /\ UNCHANGED <<service_state, required_by, linkVars, stop_queue>>

\* the request queued after a dependent's explicit activation has been released
QueueStop ==
  /\ At("queue_stop")
  /\ prop' = [prop EXCEPT ![Me] = @ \cup {"stop"}]
  /\ add_prop_queue(Me)
  /\ Return(<<>>)
  /\ Local
  /\ UNCHANGED <<service_state, desired_state, required_by, flags, stop_reason,
                 linkVars, stop_queue>>

\* stop_dependents(), one soft dependent: kept for a restart, else broken
StopSoftDependent ==
  /\ AtLoop("stop_dependents") /\ ~is_hard(Head(Top.todo))
  /\ IF "for_restart" \in Top.arg
     THEN NextRound(<<>>) /\ UNCHANGED <<waiting_on, stop_queue>>
     ELSE BreakSoft(Head(Top.todo))
  /\ Local /\ UNCHANGED <<recordVars, holding_acq, prop_queue>>

\* can_interrupt_start() once the dependencies have started
can_interrupt_start(s) ==
  \/ ServiceType[s] = "TRIGGERED"
  \/ ServiceType[s] = "PROCESS" /\ ("restart_timer" \in ps[s] \/ "start_interruptible" \in Options[s])

TimerFlagCleared(s) == {"stopstart_timer"}
\* "if (waiting_stopstart_timer) stop_timer", and arming the timer if the timeout is set
StopTimer(s) == IF "stopstart_timer" \in ps[s] THEN {"stopstart_timer", "timer"} ELSE {}
TimerNotArmed(s, timeout) == {}
ArmTimer(s, timeout) == IF timeout \in Options[s] THEN {"stopstart_timer", "timer"} ELSE {}
\* The timer of a delayed restart is stopped.
StopRestartTimer(s) == IF "restart_timer" \in ps[s] THEN {"restart_timer", "timer"} ELSE {}

\* A start that waits for dependencies or for the console has not reached bring_up().
Waiting(s) == {"waiting_for_deps", "waiting_for_console"} \cap flags[s] # {}

\* the rest of do_stop(), when the service can go to STOPPING at once
BeginStopping ==
  /\ AtLoopEnd("stop_dependents")
  /\ LET starting == service_state[Me] = "STARTING"
         all == "all_stopped" \in Top.arg
     IN /\ \/ service_state[Me] = "STARTED"
           \/ starting /\ Waiting(Me)
           \/ starting /\ can_interrupt_start(Me)
              /\ (ServiceType[Me] = "PROCESS" => "restart_timer" \in ps[Me])
        /\ console_queue' = IF starting /\ "waiting_for_console" \in flags[Me]
                            THEN Unless(console_queue, Me) ELSE console_queue
        /\ SetPs(Me, {}, IF starting /\ ~Waiting(Me) THEN StopRestartTimer(Me) ELSE {})
        /\ SetState(Me, "STOPPING")
        /\ SetFlags(Me, When(~all, "waiting_for_deps"),
                    {"waiting_for_deps"} \cup When(starting, "waiting_for_console"))
        /\ Wake(Me, all)
  /\ Return(<<>>)
  /\ UNCHANGED <<desired_state, required_by, prop, stop_reason, linkVars, graphVars,
                 prop_queue, console_log, setVars>>

\* interrupt_start() of a process service: the start ends when the process does
InterruptStart ==
  /\ AtLoopEnd("stop_dependents")
  /\ service_state[Me] = "STARTING" /\ ~Waiting(Me)
  /\ ServiceType[Me] = "PROCESS" /\ can_interrupt_start(Me) /\ "restart_timer" \notin ps[Me]
  /\ SetPs(Me, {"signal"} \cup ArmTimer(Me, "stop_timeout"), StopTimer(Me))
  /\ SetState(Me, "STOPPING")
  /\ Return(<<>>)
  /\ UNCHANGED <<desired_state, required_by, flags, prop, stop_reason, linkVars, graphVars,
                 queueVars, consoleVars, setVars>>

\* nothing to do now: already stopping or stopped, or a start that must run its course
StopDeferred ==
  /\ AtLoopEnd("stop_dependents")
  /\ \/ service_state[Me] \in {"STOPPING", "STOPPED"}
     \/ service_state[Me] = "STARTING" /\ ~Waiting(Me) /\ ~can_interrupt_start(Me)
  /\ Return(<<>>)
  /\ Local /\ UNCHANGED <<recordVars, linkVars, queueVars>>

\* bring_down() of a service without a process
BringDownInternal ==
  /\ At("bring_down") /\ ServiceType[Me] # "PROCESS"
  /\ Return(<<Call("stopped", Me)>>)
  /\ Local /\ UNCHANGED <<recordVars, linkVars, queueVars>>

-----------------------------------------------------------------------------
(* Pins *)

PinStart ==
  /\ At("pin_start")
  /\ SetFlags(Me, {"pinned_started"}, {})
  /\ Return(CallIf(~is_start_pinned(Me), Loop("pin_deps", Me, depends_on[Me], {"pin"})))
  /\ Local
  /\ UNCHANGED <<service_state, desired_state, required_by, prop, stop_reason,
                 linkVars, queueVars>>

\* unpin(): the early return leaves a stop pin in place
Unpin ==
  /\ At("unpin")
  /\ LET pinned == "pinned_started" \in flags[Me]
         inherited == "dept_pinned_started" \in flags[Me]
     IN /\ SetFlags(Me, {}, {"pinned_started"} \cup When(~pinned, "pinned_stopped"))
        /\ Return(IF pinned /\ ~inherited
                  THEN <<Loop("pin_deps", Me, depends_on[Me], {}), Call("unpin_started", Me)>>
                  ELSE <<>>)
  /\ Local
  /\ UNCHANGED <<service_state, desired_state, required_by, prop, stop_reason,
                 linkVars, queueVars>>

\* the pin held the service up: make good for the release and the stop it prevented
UnpinStarted ==
  /\ At("unpin_started")
  /\ LET held == service_state[Me] = "STARTED"
     IN /\ IF held /\ required_by[Me] = 0
           THEN prop' = [prop EXCEPT ![Me] = @ \cup {"release"}] /\ add_prop_queue(Me)
           ELSE UNCHANGED <<prop, prop_queue>>
        /\ Return((IF held /\ (desired_state[Me] = "STOPPED" \/ "force_stop" \in flags[Me])
                   THEN <<Call("do_stop", Me)>> \o ProcessQueues ELSE <<>>)
                  \o <<Call("unpin_stopped", Me)>>)
  /\ Local
  /\ UNCHANGED <<service_state, desired_state, required_by, flags, stop_reason,
                 linkVars, stop_queue>>

UnpinStopped ==
  /\ At("unpin_stopped")
  /\ SetFlags(Me, {}, {"pinned_stopped"})
  /\ Return(<<>>)
  /\ Local
  /\ UNCHANGED <<service_state, desired_state, required_by, prop, stop_reason,
                 linkVars, queueVars>>

-----------------------------------------------------------------------------
(* Links activated one at a time *)

\* start_dep() for every dependent that is up (the "wake" command)
Rewake ==
  /\ AtLoop("rewake")
  /\ LET l == Head(Top.todo) IN
       IF ~is_only_ordering(l) /\ service_state[l.from] \in Up /\ l \notin holding_acq
       THEN Require(l.to) /\ holding_acq' = holding_acq \cup {l}
       ELSE UNCHANGED <<required_by, prop, prop_queue, holding_acq>>
  /\ NextRound(<<>>)
  /\ Local
  /\ UNCHANGED <<service_state, desired_state, flags, stop_reason, waiting_on, stop_queue>>

\* start_dep() for one link (the "enable" command), if its dependent is up by then
StartDep ==
  /\ AtLoop("start_dep")
  /\ LET l == Head(Top.todo)
         go == service_state[l.from] \in Up /\ restart_enabled
     IN /\ IF go /\ l \notin holding_acq
           THEN Require(l.to) /\ holding_acq' = holding_acq \cup {l}
           ELSE UNCHANGED <<required_by, prop, prop_queue, holding_acq>>
        /\ Return(IF go THEN ProcessQueues ELSE <<>>)
  /\ Local
  /\ UNCHANGED <<service_state, desired_state, flags, stop_reason, waiting_on, stop_queue>>

RecordStep ==
  \/ DropLink \/ DropExplicit
  \/ PropRequire \/ RequireDep \/ RequireDepsEnd \/ PropRelease \/ ReleaseDep \/ ReleaseDepsEnd
  \/ PropFailure \/ PropStart \/ PropStop \/ PropPinDpt \/ PropagationDone
  \/ PinDep \/ PinDptDone \/ LoopDone
  \/ Start \/ DoStartPinned \/ DoStartActive \/ DoStartInactive \/ InitiateStart
  \/ ExecuteTransition \/ AllDepsStarted \/ BringUpInternal \/ Started \/ NotifyDependent
  \/ FailedToStart \/ FailDependent \/ FailDependentsEnd
  \/ Stopped \/ BreakSoftDependent \/ StoppedDep \/ SetStopped \/ Chain
  \/ Stop \/ ForcedStop \/ DoStop \/ DoStopPinned
  \/ StopHardDependent \/ QueueStop \/ StopSoftDependent
  \/ BeginStopping \/ InterruptStart \/ StopDeferred \/ BringDownInternal
  \/ PinStart \/ Unpin \/ UnpinStarted \/ UnpinStopped \/ Rewake \/ StartDep

=============================================================================

------------------------------ MODULE MCSetups ------------------------------
(***************************************************************************)
(* Several service graphs explored in one run.  A behaviour picks one of   *)
(* the setups named in Use and keeps it; R(n) is the service set with the  *)
(* constants of setup n.                                                   *)
(***************************************************************************)
EXTENDS Integers, Sequences, FiniteSets

CONSTANTS Use,
          Ordered     \* the setups in which no event comes between the end of a process and
                      \* its exec status (see StatusRace in ProcService)

VARIABLES
  setup, service_state, desired_state, required_by, flags, prop, stop_reason, waiting_on,
  holding_acq, depends_on, dependents, prop_queue, stop_queue, console_queue, console_log,
  active_services, restart_enabled, ps, stack
vars == <<setup, service_state, desired_state, required_by, flags, prop, stop_reason, waiting_on,
          holding_acq, depends_on, dependents, prop_queue, stop_queue, console_queue,
          console_log, active_services, restart_enabled, ps, stack>>

Link(f, t, ty) == [from |-> f, to |-> t, type |-> ty]
Pair == <<Link("b", "a", "REGULAR")>>
Names(records) == {records[i] : i \in DOMAIN records}

\* Internal services without settings, linked by list (links in creation order)
Plain(records, list, cmds) ==
  LET S == Names(records)
  IN [services |-> S, records |-> records, links |-> {list[i] : i \in DOMAIN list},
      graph |-> [depends_on |-> [s \in S |-> SelectSeq(list, LAMBDA l : l.from = s)],
                 dependents |-> [s \in S |-> SelectSeq(list, LAMBDA l : l.to = s)]],
      types |-> [s \in S |-> "INTERNAL"], opts |-> [s \in S |-> {}],
      chain |-> [s \in S |-> "none"], cmds |-> cmds]
\* The same with the services of procs as processes, all with the settings opts
WithProcesses(procs, opts, p) ==
  [p EXCEPT !.types = [s \in p.services |-> IF s \in procs THEN "PROCESS" ELSE "INTERNAL"],
            !.opts = [s \in p.services |-> opts]]

AB == <<"a", "b">>
ABC == <<"a", "b", "c">>
Usual == {"start", "stop", "restart", "release", "shutdown"}
Alone(opts) == WithProcesses({"a"}, opts, Plain(<<"a">>, <<>>, Usual))

Setup ==
  [\* c depends on b depends on a
   chain |-> Plain(ABC, <<Link("b", "a", "REGULAR"), Link("c", "b", "REGULAR")>>,
                   Usual \cup {"wake"}),
   start_pins |-> Plain(AB, Pair, {"start", "start_pin", "stop", "unpin", "shutdown"}),
   pins |-> Plain(AB, Pair, {"start", "start_pin", "stop", "stop_pin", "unpin", "release",
                             "shutdown", "wake_pin", "release_pin"}),
   \* c waits for b, which depends on a; links come and go, one of them of a type that a command
   \* may not use
   dynamic |-> [Plain(ABC, <<Link("b", "a", "REGULAR"), Link("c", "b", "WAITS_FOR")>>,
                      {"start", "stop", "add_dep", "enable_dep", "rm_dep"})
                EXCEPT !.links = @ \cup {Link("c", "a", "SOFT")}],
   \* b waits for a, c depends on b
   wake |-> Plain(ABC, <<Link("b", "a", "WAITS_FOR"), Link("c", "b", "REGULAR")>>,
                  {"start", "stop", "wake", "stop_gentle", "release", "shutdown"}),
   \* c has a soft dependency on the process a and waits for the triggered service b
   soft |-> [WithProcesses({"a"}, {"stop_timeout"},
               Plain(ABC, <<Link("c", "a", "SOFT"), Link("c", "b", "WAITS_FOR")>>,
                     {"start", "stop", "shutdown", "trigger", "untrigger"}))
             EXCEPT !.types["b"] = "TRIGGERED"],
   \* c has the process b as a milestone, b starts before a
   milestone |-> WithProcesses({"b"}, {"stop_timeout"},
                   Plain(ABC, <<Link("c", "b", "MILESTONE"), Link("b", "a", "BEFORE")>>,
                         {"start", "shutdown"})),
   restart |-> Alone({"auto_restart", "start_timeout", "stop_timeout", "restart_limit",
                           "start_interruptible"}),
   notify |-> Alone({"auto_restart", "stop_timeout", "restart_limit", "notification"}),
   recovery |-> Alone({"smooth_recovery", "notification", "start_timeout", "stop_timeout",
                            "restart_limit"}),
   process_pair |-> WithProcesses({"a", "b"}, {"stop_timeout"}, Plain(AB, Pair, {"start", "shutdown"})),
   \* the processes b and c depend on a
   vee |-> WithProcesses({"b", "c"}, {"stop_timeout"},
             Plain(ABC, <<Link("b", "a", "REGULAR"), Link("c", "a", "REGULAR")>>,
                   {"start", "shutdown"})),
   \* b, a process with a stop command, between a and c
   stop_command |-> WithProcesses({"b"}, {"stop_command", "stop_timeout"},
                      Plain(ABC, <<Link("b", "a", "REGULAR"), Link("c", "b", "REGULAR")>>,
                            {"start", "shutdown"})),
   \* two processes that want the console, b also while it runs
   console |-> [WithProcesses({"a", "b"}, {"starts_on_console"},
                  Plain(AB, <<>>, {"start", "stop", "shutdown"}))
                EXCEPT !.opts["b"] = @ \cup {"runs_on_console"}],
   \* the processes b and c depend on a and start on the console
   consoles |-> WithProcesses({"b", "c"}, {"starts_on_console"},
                  Plain(ABC, <<Link("b", "a", "REGULAR"), Link("c", "a", "REGULAR")>>,
                        {"start", "shutdown"})),
   \* the end of the process a starts b
   chaining |-> [WithProcesses({"a"}, {"always_chain"}, Plain(AB, <<>>, {"start", "stop", "shutdown"}))
                 EXCEPT !.chain["a"] = "b"],
   \* The setups below show the disagreements of the README that the setups above do not.
   stopped_pair |-> WithProcesses({"a", "b"}, {"stop_timeout"}, Plain(AB, Pair, {"start", "stop"})),
   one_restarts |-> [WithProcesses({"a", "b"}, {}, Plain(AB, Pair, {"start", "shutdown"}))
                     EXCEPT !.opts["a"] = {"auto_restart"}],
   lone_stop_command |-> Alone({"stop_command", "stop_timeout"}),
   recovering_pair |-> WithProcesses({"a"}, {"smooth_recovery", "notification", "start_timeout",
                                             "stop_timeout", "restart_limit"},
                         Plain(AB, Pair, {"start", "stop", "shutdown"})),
   released_milestone |-> WithProcesses({"b"}, {"stop_timeout"},
                            Plain(ABC, <<Link("c", "b", "MILESTONE"), Link("b", "a", "BEFORE")>>,
                                  {"start", "stop", "release"})),
   console_chain |-> WithProcesses({"b"}, {"starts_on_console"},
                       Plain(ABC, <<Link("b", "a", "REGULAR"), Link("c", "b", "REGULAR")>>,
                             {"start", "stop", "release", "shutdown"}))]

R(n) == INSTANCE ServiceProperties WITH None <- "none",
  Services <- Setup[n].services, Links <- Setup[n].links, Graph <- Setup[n].graph,
  Records <- Setup[n].records, ServiceType <- Setup[n].types, Options <- Setup[n].opts,
  ChainTo <- Setup[n].chain, Commands <- Setup[n].cmds, StatusRace <- n \notin Ordered

Init == \E n \in Use : setup = n /\ R(n)!Init
Next == \E n \in Use : setup = n /\ R(n)!Next /\ UNCHANGED setup
Spec == Init /\ [][Next]_vars

\* The fairness of ServiceProperties, for whichever setup was picked
All == UNION {Setup[n].services : n \in Use}
Picked(n, s) == setup = n /\ s \in Setup[n].services /\ UNCHANGED setup
FairEvents(s) ==
  /\ WF_vars(\E n \in Use : Picked(n, s) /\ (R(n)!ExecSucceeded(s) \/ R(n)!ExecFailed(s)))
  /\ WF_vars(\E n \in Use : Picked(n, s) /\ R(n)!TimerExpired(s))
  /\ WF_vars(\E n \in Use : Picked(n, s) /\ "killed" \in ps[s] /\ R(n)!ChildExit(s))
FairSpec ==
  /\ Spec
  /\ WF_vars(\E n \in Use : setup = n /\ R(n)!Step /\ UNCHANGED setup)
  /\ WF_vars(\E n \in Use : setup = n /\ R(n)!LogReleasesConsole /\ UNCHANGED setup)
  /\ \A s \in All : FairEvents(s)
  /\ <>[][\A n \in Use : setup = n => ~R(n)!OperatorStep]_vars

-----------------------------------------------------------------------------
(* The properties of ServiceProperties, of the setup that was picked *)

\* Between handlers required_by counts each held activation once (see ServiceProperties).
ActivationExact == \A n \in Use : setup = n => R(n)!ActivationExact
\* all_deps_started() is reached only when every hard dependency has started.
StartOrder == \A n \in Use : setup = n => R(n)!StartOrder
\* bring_down() is reached only when every hard dependent has stopped.
StopOrder == \A n \in Use : setup = n => R(n)!StopOrder
\* A service that is up holds an activation of each of its hard dependencies.
UpHoldsDeps == \A n \in Use : setup = n => R(n)!UpHoldsDeps
\* A starting or stopping service waits for something that will happen.
NothingStuck == \A n \in Use : setup = n => R(n)!NothingStuck
\* A process is launched only when the record has none.
OneProcess == \A n \in Use : setup = n => R(n)!OneProcess
\* A process that is asked to stop is under its stop timeout, or has been killed.
StopIsBounded == \A n \in Use : setup = n => R(n)!StopIsBounded
\* A stopped service has no process, no pending exec status and no timer.
StoppedHasNoProcess == \A n \in Use : setup = n => R(n)!StoppedHasNoProcess
\* active_services, on which the end of a shutdown depends, counts the services not stopped.
ActiveCount == \A n \in Use : setup = n => R(n)!ActiveCount
\* A process that is signalled exists: kill_pg() never uses the process ID -1.
SignalHasTarget == \A n \in Use : setup = n => R(n)!SignalHasTarget
\* A service that is pinned stopped is not started by any command.
PinnedStaysStopped == [][\A n \in Use : setup = n => R(n)!PinnedStaysStoppedStep]_vars
\* Once stop_all_services() was called no stopped service starts again.
NoStartAfterShutdown == [][\A n \in Use : setup = n => R(n)!NoStartAfterShutdownStep]_vars
\* A shutdown completes: every service stops, and active_services says so.
ShutdownCompletes ==
  ~restart_enabled ~>
    (active_services = 0 /\ \A s \in DOMAIN service_state : service_state[s] = "STOPPED")

-----------------------------------------------------------------------------
(* What the README reports as violated *)

\* A stopping service waits for something that will happen.
StoppingProgresses == \A n \in Use : setup = n => R(n)!StoppingProgresses
\* Every handler drains the queues before it returns to the event loop.
Drained == \A n \in Use : setup = n => R(n)!Drained
\* A record is at most once in a work queue.
QueuedOnce == \A n \in Use : setup = n => R(n)!QueuedOnce
\* Only a service that is up is restarted.
RestartOnlyWhenUp == \A n \in Use : setup = n => R(n)!RestartOnlyWhenUp
\* A service that fails to start has no started dependents.
FailureHasNoStartedDependents == \A n \in Use : setup = n => R(n)!FailureHasNoStartedDependents
\* An inherited pin comes from a hard dependent that is pinned.
PinIsInherited == \A n \in Use : setup = n => R(n)!PinIsInherited
\* Links that only order two starts hold no activation.
OrderingHoldsNothing == \A n \in Use : setup = n => R(n)!OrderingHoldsNothing
=============================================================================

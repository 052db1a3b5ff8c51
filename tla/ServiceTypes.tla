---------------------------- MODULE ServiceTypes ----------------------------
(***************************************************************************)
(* The types of the variables, the activation count, and what the calls of *)
(* a handler may rely on: what is proved for every service graph           *)
(* (ActivationProofs).                                                     *)
(***************************************************************************)
EXTENDS ServiceSet

RecordTypes ==
  /\ service_state \in [Services -> State]
  /\ desired_state \in [Services -> {"STOPPED", "STARTED"}]
  /\ required_by \in [Services -> Int]
  /\ flags \in [Services -> SUBSET Flag]
  /\ prop \in [Services -> SUBSET Prop]
  /\ stop_reason \in [Services -> StopReason]
LinkTypes ==
  /\ waiting_on \subseteq Links /\ holding_acq \subseteq Links
  /\ depends_on \in LinkLists /\ dependents \in LinkLists
SetTypes ==
  /\ prop_queue \in Seq(Services) /\ stop_queue \in Seq(Services)
  /\ console_queue \in Seq(Services)
  /\ console_log \in {"active", "releasing", "released"}
  /\ active_services \in Int /\ restart_enabled \in BOOLEAN
\* Every variable has its type; the stack holds only calls the code makes.
TypeOK ==
  /\ RecordTypes /\ LinkTypes /\ SetTypes
  /\ ps \in [Services -> SUBSET PsField]
  /\ stack \in Seq(Frame)

\* The links to s that hold an activation, and the activation counted for them
Held(s) == {l \in holding_acq : l.to = s}
Explicit(s) == IF "start_explicit" \in flags[s] THEN 1 ELSE 0

\* Every held link and an explicit activation are counted in required_by, at every point of
\* every handler: release() never drops a service that something still holds, and the count
\* never falls below zero.
ActivationCounted == \A s \in Services : required_by[s] >= Cardinality(Held(s)) + Explicit(s)

\* Nobody has the console: the log has given it up and no service has it.
ConsoleFree == console_log = "released" /\ \A s \in Services : "have_console" \notin flags[s]
\* The console has one owner, the log or a service (acquired_console(), release_console(),
\* pull_console_queue()).  It is nobody's only while it is being handed on, so it cannot get
\* lost with services still waiting for it.
ConsoleOwned ==
  /\ \A s, t \in Services : "have_console" \in flags[s] /\ "have_console" \in flags[t] => s = t
  /\ \A s \in Services : "have_console" \in flags[s] => console_log = "released"
  /\ ConsoleFree => At("pull_console") \/ At("acquired_console")

\* bring_up(), which launches the process, is called only for a service that is STARTING,
\* waits for none of its dependencies, and has the console if it starts on the console,
\* whatever happened since its transition was queued.
BringUpReady ==
  At("bring_up") =>
    /\ service_state[Me] = "STARTING" /\ "waiting_for_deps" \notin flags[Me]
    /\ \A l \in LinkSet(depends_on[Me]) : l \notin waiting_on
    /\ "starts_on_console" \in Options[Me] => "have_console" \in flags[Me]

\* No step of any handler takes a service that is pinned stopped into STARTING: not a start
\* by a dependent, not a restart after the process ended, not one decided before stopped()
\* told the dependencies.
PinBlocksStartStep ==
  \A s \in Services : service_state[s] # "STARTING" /\ service_state'[s] = "STARTING"
                      => "pinned_stopped" \notin flags[s]
PinBlocksStart == [][PinBlocksStartStep]_vars

\* The dependency lists have no cycle: among any services, one depends on none of them.
NoCycle(lists) ==
  \A S \in (SUBSET Services) \ {{}} : \E s \in S : \A l \in LinkSet(lists[s]) : l.to \notin S

\* No command gives the graph a cycle: add_service_dep()'s search over the dependencies of the
\* new dependency finds every one that would, so the recursion over dependencies ends.
GraphAcyclic == NoCycle(depends_on)

=============================================================================

-------------------------- MODULE ActivationProofs --------------------------
(***************************************************************************)
(* The theorems about the service manager, for every dependency graph and  *)
(* at every point of every handler: the types of all variables, that       *)
(* required_by counts every held link and the explicit activation, that    *)
(* the console has one owner, that a service is brought up when its        *)
(* dependencies are, that a pin keeps a service from starting, and that    *)
(* the graph stays acyclic.  One inductive invariant serves them all.  It  *)
(* adds that a call which is executed at once finds what it relies on      *)
(* (StackOK), and that a link is only in the lists of its own services     *)
(* (GraphOK).                                                              *)
(***************************************************************************)
EXTENDS TypeProofs, GraphProofs

\* The leaves are for Zenon, where they do not name another prover.
USE ZenonT(60)

-----------------------------------------------------------------------------
(* Types *)

\* A start from STOPPED writes values of the right types.
LEMMA DoStartData ==
  ASSUME TypeOK, DoStartInactive
  PROVE  DataOK'
<1> USE DEF graphVars, consoleVars, DataOK, TypeOK, RecordTypes, LinkTypes, SetTypes
<1>1. Me \in Services  BY DEF DoStartInactive, At
<1>2. Cardinality(SoftReattach(Me)) \in Int /\ SoftReattach(Me) \subseteq Links
  BY SMTT(60), <1>1, ReattachCount
<1>3. desired_state' \in [Services -> {"STOPPED", "STARTED"}]
  BY <1>1 DEF DoStartInactive, SetDesired
<1>4. required_by' \in [Services -> Int]  BY SMTT(60), <1>1, <1>2 DEF DoStartInactive
<1>5. prop' \in [Services -> SUBSET Prop]
  <2>1. {"require", "release"} \in SUBSET Prop /\ {"require"} \in SUBSET Prop
      BY DEF Prop
  <2>2. /\ [prop EXCEPT ![Me] = @ \ {"require", "release"}] \in [Services -> SUBSET Prop]
        /\ [prop EXCEPT ![Me] = @ \cup {"require"}] \in [Services -> SUBSET Prop]
    BY <1>1, <2>1, PropType
  <2> QED  BY <2>2 DEF DoStartInactive
<1>6. prop_queue' \in Seq(Services)  BY SMTT(60), <1>1, InsertType
    DEF DoStartInactive, add_prop_queue
<1>7. holding_acq' \subseteq Links /\ active_services' \in Int  BY SMTT(60), <1>2 DEF DoStartInactive
<1> QED  BY <1>3, <1>4, <1>5, <1>6, <1>7 DEF DoStartInactive

\* Every step writes values of the right types.
LEMMA DataStep ==
  ASSUME TypeOK, [Next]_vars
  PROVE  DataOK'
<1>1. CASE RecordStep
  BY <1>1, PropagationData, StartData, DoStartData, StopData, PinData DEF RecordStep
<1>2. CASE ProcStep  BY <1>2, ProcessData DEF ProcStep
<1>3. CASE SetStep  BY <1>3, ConsoleData, QueueData DEF SetStep
<1>4. CASE StopAllServices
  BY <1>4 DEF StopAllServices, recordVars, linkVars, graphVars, queueVars, consoleVars,
              DataOK, TypeOK, RecordTypes, LinkTypes, SetTypes
<1>5. CASE UNCHANGED vars
  BY <1>5 DEF vars, DataOK, TypeOK, RecordTypes, LinkTypes, SetTypes
<1> QED
  BY <1>1, <1>2, <1>3, <1>4, <1>5, CommandData, GraphCommandData, LogData, ProcEventData
  DEF Next, Step, OperatorStep

-----------------------------------------------------------------------------
(* The theorems *)

IInv == DataOK /\ StackOK /\ GraphOK /\ ActivationCounted /\ ConsoleOwned

\* What the inductive invariant says of the types
LEMMA IInvTypes == IInv => TypeOK
BY StackFrames DEF IInv, DataOK, TypeOK

\* After loading, all services are stopped, nothing is held and nothing is pending.
LEMMA IInvInit == Init => IInv
<1> SUFFICES ASSUME Init PROVE IInv  OBVIOUS
<1>1. DataOK
  <2>1. RecordTypes  BY SMTT(60) DEF Init, RecordTypes, State, StopReason
  <2>2. LinkTypes  BY GraphAssumption DEF Init, LinkTypes
  <2>3. SetTypes /\ ps \in [Services -> SUBSET PsField]  BY SMTT(60), EmptySeq DEF Init, SetTypes
  <2> QED  BY <2>1, <2>2, <2>3 DEF DataOK
<1>2. GraphOK  BY GraphAssumption DEF Init, GraphOK
<1>3. ActivationCounted
  <2> SUFFICES ASSUME NEW s \in Services
               PROVE  required_by[s] >= Cardinality(Held(s)) + Explicit(s)
    BY DEF ActivationCounted
  <2>1. Held(s) = {}  BY DEF Init, Held
  <2>2. required_by[s] = 0 /\ Explicit(s) = 0  BY DEF Init, Explicit
  <2> QED  BY SMTT(60), <2>1, <2>2, FS_EmptySet
<1> QED  BY <1>1, <1>2, <1>3, StackInit, ConsoleInit DEF IInv

\* Every step of the service manager preserves the inductive invariant.
LEMMA IInvStep == IInv /\ [Next]_vars => IInv'
BY IInvTypes, DataStep, StackStep, GraphStep, CountStep, ConsoleStep DEF IInv

\* In every reachable state every variable has its type, for all sets of services, all graphs,
\* all settings and all commands: no handler writes a value outside it or makes an unknown call.
THEOREM TypeCorrect == Spec => []TypeOK
<1>1. Init => IInv  BY IInvInit
<1>2. IInv /\ [Next]_vars => IInv'  BY IInvStep
<1>3. IInv => TypeOK  BY IInvTypes
<1> QED  BY <1>1, <1>2, <1>3, PTL DEF Spec

\* In every reachable state, within handlers too, required_by of a service is at least the
\* number of links that hold it plus its explicit activation, for every dependency graph:
\* release() never takes away an activation that was not counted.
THEOREM ActivationsCounted == Spec => []ActivationCounted
<1>1. Init => IInv  BY IInvInit
<1>2. IInv /\ [Next]_vars => IInv'  BY IInvStep
<1>3. IInv => ActivationCounted  BY DEF IInv
<1> QED  BY <1>1, <1>2, <1>3, PTL DEF Spec

\* In every reachable state the console has one owner, the log or one service, or is being
\* handed on by the call that is running: acquired_console() never gives it to a second
\* service, and no path through started(), stopped() and pull_console_queue() loses it.
THEOREM ConsoleHasOwner == Spec => []ConsoleOwned
<1>1. Init => IInv  BY IInvInit
<1>2. IInv /\ [Next]_vars => IInv'  BY IInvStep
<1>3. IInv => ConsoleOwned  BY DEF IInv
<1> QED  BY <1>1, <1>2, <1>3, PTL DEF Spec

\* For every graph, bring_up() finds the service STARTING, its dependencies started or failed,
\* and the console at hand: nothing can come between all_deps_started() and the call.
THEOREM BringUpIsReady == Spec => []BringUpReady
<1>1. Init => IInv  BY IInvInit
<1>2. IInv /\ [Next]_vars => IInv'  BY IInvStep
<1>3. IInv => BringUpReady
  <2> SUFFICES ASSUME IInv, At("bring_up")
               PROVE  /\ StartReady(Me) /\ "waiting_for_deps" \notin flags[Me]
                      /\ "starts_on_console" \in Options[Me] => "have_console" \in flags[Me]
    BY DEF BringUpReady, StartReady, check_deps_started
  <2>1. Warranted(Top) /\ Top.op = "bring_up"
    BY HurriedTop DEF IInv, At, Hurried, Urgent
  <2> QED  BY <2>1 DEF Warranted, Me
<1> QED  BY <1>1, <1>2, <1>3, PTL DEF Spec

\* For every graph and every sequence of commands and events, a service that is pinned
\* stopped is never taken into STARTING: every path to initiate_start() tests the pin, and
\* nothing can set it between the test and the call.
THEOREM PinBlocksStarts == Spec => PinBlocksStart
<1>1. Init => IInv  BY IInvInit
<1>2. IInv /\ [Next]_vars => IInv'  BY IInvStep
<1>3. IInv /\ [Next]_vars => PinBlocksStartStep
  <2> SUFFICES ASSUME IInv, [Next]_vars, NEW s \in Services, service_state[s] # "STARTING",
                      service_state'[s] = "STARTING"
               PROVE  "pinned_stopped" \notin flags[s]
    BY DEF PinBlocksStartStep
  <2>1. InitiateStart  BY IInvTypes, OnlyInitiateStart
  <2>2. s = Me
    BY <2>1, IInvTypes DEF InitiateStart, SetState, TypeOK, RecordTypes
  <2>3. Warranted(Top) /\ Top.op = "initiate_start"
    BY <2>1, HurriedTop DEF IInv, InitiateStart, At, Hurried, Urgent
  <2> QED  BY <2>2, <2>3 DEF Warranted, Me
<1> QED  BY <1>1, <1>2, <1>3, PTL DEF Spec, PinBlocksStart

\* If the loader left no cycle, no sequence of commands and events makes one: whatever
\* add_service_dep() accepts keeps the graph one that every recursion over it leaves.
THEOREM GraphStaysAcyclic ==
  ASSUME NoCycle(Graph.depends_on)
  PROVE  Spec => []GraphAcyclic
<1>1. Init => GraphAcyclic  BY DEF Init, GraphAcyclic
<1>2. TypeOK /\ GraphAcyclic /\ [Next]_vars => GraphAcyclic'
  <2>1. ASSUME GraphAcyclic, UNCHANGED depends_on PROVE GraphAcyclic'
    BY <2>1 DEF GraphAcyclic
  <2> SUFFICES ASSUME TypeOK, GraphAcyclic, [Next]_vars PROVE GraphAcyclic'
    OBVIOUS
  <2>2. \/ UNCHANGED graphVars
        \/ \E l \in Links : AddDep(l) \/ RemoveDep(l)
    BY OnlyCommandsLink
  <2> QED  BY <2>1, <2>2, AddDepAcyclic, RemoveDepAcyclic DEF graphVars
<1> QED  BY <1>1, <1>2, TypeCorrect, PTL DEF Spec
=============================================================================

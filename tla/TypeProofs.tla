----------------------------- MODULE TypeProofs -----------------------------
(***************************************************************************)
(* Every step of the service manager writes values of the right types, and *)
(* keeps every link in the dependency lists of its own two services.  One  *)
(* step of a lemma per action, and under it one per variable it changes.   *)
(***************************************************************************)
EXTENDS StackProofs

\* The leaves are for Zenon, where they do not name another prover.
USE ZenonT(60)

\* Changing the flags of a record leaves flags,
LEMMA FlagsType ==
  ASSUME flags \in [Services -> SUBSET Flag], NEW s \in Services,
         NEW on \in SUBSET Flag, NEW off, SetFlags(s, on, off)
  PROVE  flags' \in [Services -> SUBSET Flag]
BY DEF SetFlags

\* and changing its process fields leaves process fields.
LEMMA PsType ==
  ASSUME ps \in [Services -> SUBSET PsField], NEW s \in Services,
         NEW on \in SUBSET PsField, NEW off, SetPs(s, on, off)
  PROVE  ps' \in [Services -> SUBSET PsField]
BY DEF SetPs

-----------------------------------------------------------------------------
(* The steps of a handler *)

\* Activation counting and propagation write values of the right types.
LEMMA PropagationData ==
  ASSUME TypeOK,
         \/ DropLink \/ DropExplicit \/ PropRequire \/ RequireDep \/ RequireDepsEnd
         \/ PropRelease \/ ReleaseDep \/ ReleaseDepsEnd \/ PropFailure \/ PropStart
         \/ PropStop \/ PropPinDpt \/ PropagationDone \/ PinDep \/ PinDptDone
         \/ LoopDone
  PROVE  DataOK'
<1> USE DEF recordVars, linkVars, graphVars, queueVars, consoleVars, setVars, Local, NoProcess,
        DataOK, RequireOK, ReleaseOK, TypeOK, RecordTypes, LinkTypes, SetTypes
<1>1. CASE DropLink
  <2>1. Me \in Services  BY <1>1 DEF DropLink, AtLoop, At
  <2>2. LET l == Head(Top.todo) IN l \in Links /\ l.from \in Services /\ l.to \in Services
    BY <1>1, HeadLink DEF DropLink, AtLoop, At
  <2>3. ReleaseOK'  BY <1>1, <2>1, <2>2, ReleaseType DEF DropLink
  <2>4. holding_acq' \subseteq Links  BY <1>1, <2>1, <2>2 DEF DropLink
  <2> QED  BY <1>1, <2>3, <2>4 DEF DropLink
<1>2. CASE DropExplicit
  <2>1. Me \in Services  BY <1>2 DEF DropExplicit, At
  <2>2. ReleaseOK'  BY <1>2, <2>1, ReleaseType DEF DropExplicit
  <2>3. flags' \in [Services -> SUBSET Flag]  BY <1>2, <2>1
      DEF DropExplicit, SetFlags, Flag
  <2> QED  BY <1>2, <2>2, <2>3 DEF DropExplicit
<1>3. CASE PropRequire  BY <1>3 DEF PropRequire
<1>4. CASE RequireDep
  <2>1. Me \in Services  BY <1>4 DEF RequireDep, AtLoop, At
  <2>2. LET l == Head(Top.todo) IN l \in Links /\ l.from \in Services /\ l.to \in Services
    BY <1>4, HeadLink DEF RequireDep, AtLoop, At
  <2>3. RequireOK'  BY <1>4, <2>1, <2>2, RequireType DEF RequireDep
  <2>4. holding_acq' \subseteq Links  BY <1>4, <2>1, <2>2 DEF RequireDep
  <2> QED  BY <1>4, <2>3, <2>4 DEF RequireDep
<1>5. CASE RequireDepsEnd
  <2>1. Me \in Services  BY <1>5 DEF RequireDepsEnd, AtLoopEnd, At
  <2>2. prop' \in [Services -> SUBSET Prop]  BY <1>5, <2>1
      DEF RequireDepsEnd, Clear, Prop
  <2> QED  BY <1>5, <2>2 DEF RequireDepsEnd
<1>6. CASE PropRelease  BY <1>6 DEF PropRelease
<1>7. CASE ReleaseDep
  <2>1. Me \in Services  BY <1>7 DEF ReleaseDep, AtLoop, At
  <2>2. LET l == Head(Top.todo) IN l \in Links /\ l.from \in Services /\ l.to \in Services
    BY <1>7, HeadLink DEF ReleaseDep, AtLoop, At
  <2>3. ReleaseOK'  BY <1>7, <2>1, <2>2, ReleaseType DEF ReleaseDep
  <2>4. holding_acq' \subseteq Links  BY <1>7, <2>1, <2>2 DEF ReleaseDep
  <2> QED  BY <1>7, <2>3, <2>4 DEF ReleaseDep
<1>8. CASE ReleaseDepsEnd
  <2>1. Me \in Services  BY <1>8 DEF ReleaseDepsEnd, AtLoopEnd, At
  <2>2. prop' \in [Services -> SUBSET Prop]  BY <1>8, <2>1
      DEF ReleaseDepsEnd, Clear, Prop
  <2> QED  BY <1>8, <2>2 DEF ReleaseDepsEnd
<1>9. CASE PropFailure
  <2>1. Me \in Services  BY <1>9 DEF PropFailure, Phase, At
  <2>2. stop_reason' \in [Services -> StopReason]  BY <1>9, <2>1
      DEF PropFailure, StopReason
  <2>3. service_state' \in [Services -> State]  BY <1>9, <2>1
      DEF PropFailure, SetState, State
  <2>4. prop' \in [Services -> SUBSET Prop]  BY <1>9, <2>1 DEF PropFailure, Clear, Prop
  <2> QED  BY <1>9, <2>2, <2>3, <2>4 DEF PropFailure
<1>10. CASE PropStart
  <2>1. Me \in Services  BY <1>10 DEF PropStart, Phase, At
  <2>2. prop' \in [Services -> SUBSET Prop]  BY <1>10, <2>1 DEF PropStart, Clear, Prop
  <2> QED  BY <1>10, <2>2 DEF PropStart
<1>11. CASE PropStop
  <2>1. Me \in Services  BY <1>11 DEF PropStop, Phase, At
  <2>2. prop' \in [Services -> SUBSET Prop]  BY <1>11, <2>1 DEF PropStop, Clear, Prop
  <2> QED  BY <1>11, <2>2 DEF PropStop
<1>12. CASE PropPinDpt
  <2>1. Me \in Services  BY <1>12 DEF PropPinDpt, Phase, At
  <2>2. flags' \in [Services -> SUBSET Flag]
    <3>1. {} \in SUBSET Flag /\ {"dept_pinned_started"} \in SUBSET Flag  BY DEF Flag
    <3> QED  BY <1>12, <2>1, <3>1, FlagsType DEF PropPinDpt, When
  <2> QED  BY <1>12, <2>2 DEF PropPinDpt
<1>13. CASE PropagationDone  BY <1>13 DEF PropagationDone
<1>14. CASE PinDep
  <2>1. Me \in Services  BY <1>14 DEF PinDep, AtLoop, At
  <2>2. LET l == Head(Top.todo) IN l \in Links /\ l.from \in Services /\ l.to \in Services
    BY <1>14, HeadLink DEF PinDep, AtLoop, At
  <2>3. prop' \in [Services -> SUBSET Prop]
    <3>1. {"pin_dpt"} \in SUBSET Prop  BY DEF Prop
    <3>2. [prop EXCEPT ![Head(Top.todo).to] = @ \cup {"pin_dpt"}] \in [Services -> SUBSET Prop]
      BY <2>2, <3>1, PropType
    <3> QED  BY <1>14, <3>2 DEF PinDep, is_hard
  <2>4. prop_queue' \in Seq(Services)
    <3>1. Insert(prop_queue, Head(Top.todo).to) \in Seq(Services)  BY <2>2, InsertType
    <3> QED  BY <1>14, <3>1 DEF PinDep, add_prop_queue
  <2> QED  BY <1>14, <2>3, <2>4 DEF PinDep
<1>15. CASE PinDptDone  BY <1>15 DEF PinDptDone
<1>16. CASE LoopDone  BY <1>16 DEF LoopDone
<1> QED
  BY <1>1, <1>2, <1>3, <1>4, <1>5, <1>6, <1>7, <1>8, <1>9, <1>10, <1>11, <1>12, <1>13,
      <1>14,
      <1>15, <1>16

\* So does starting (see ActivationProofs for a start from STOPPED),
LEMMA StartData ==
  ASSUME TypeOK,
         \/ Start \/ DoStartPinned \/ DoStartActive \/ InitiateStart
         \/ ExecuteTransition \/ AllDepsStarted \/ BringUpInternal \/ Started
         \/ NotifyDependent
  PROVE  DataOK'
<1> USE DEF recordVars, linkVars, graphVars, queueVars, consoleVars, setVars, Local, NoProcess,
        DataOK, RequireOK, ReleaseOK, TypeOK, RecordTypes, LinkTypes, SetTypes
<1>1. CASE Start
  <2>1. Me \in Services  BY <1>1 DEF Start, At
  <2>2. required_by' \in [Services -> Int]  BY SMTT(60), <1>1, <2>1 DEF Start
  <2>3. flags' \in [Services -> SUBSET Flag]
    <3>1. {"start_explicit"} \in SUBSET Flag  BY DEF Flag
    <3> QED  BY <1>1, <2>1, <3>1, FlagsType DEF Start
  <2> QED  BY <1>1, <2>2, <2>3 DEF Start
<1>2. CASE DoStartPinned
  <2>1. Me \in Services  BY <1>2 DEF DoStartPinned, At
  <2>2. desired_state' \in [Services -> {"STOPPED", "STARTED"}]
    BY <1>2, <2>1 DEF DoStartPinned, SetDesired
  <2> QED  BY <1>2, <2>2 DEF DoStartPinned
<1>3. CASE DoStartActive
  <2>1. Me \in Services  BY <1>3 DEF DoStartActive, At
  <2>2. desired_state' \in [Services -> {"STOPPED", "STARTED"}]
    BY <1>3, <2>1 DEF DoStartActive, SetDesired
  <2> QED  BY <1>3, <2>2 DEF DoStartActive
<1>4. CASE InitiateStart
  <2>1. Me \in Services  BY <1>4 DEF InitiateStart, At
  <2>2. waiting_on' \subseteq Links
    <3>1. LinkSet(depends_on[Me]) \subseteq Links /\ LinkSet(dependents[Me]) \subseteq Links
      BY <2>1, LinkSetType
    <3> QED  BY <1>4, <3>1 DEF InitiateStart, WaitedFor, OrderingWaiters
  <2>3. service_state' \in [Services -> State]  BY <1>4, <2>1
      DEF InitiateStart, SetState, State
  <2>4. flags' \in [Services -> SUBSET Flag]  BY <1>4, <2>1
      DEF InitiateStart, SetFlags, Flag
  <2>5. stop_queue' \in Seq(Services)
    BY <1>4, <2>1, InsertType DEF InitiateStart, add_transition_queue
  <2> QED  BY <1>4, <2>2, <2>3, <2>4, <2>5 DEF InitiateStart
<1>5. CASE ExecuteTransition
  <2>1. Me \in Services  BY <1>5 DEF ExecuteTransition, At
  <2>2. flags' \in [Services -> SUBSET Flag]  BY <1>5, <2>1
      DEF ExecuteTransition, SetFlags, Flag
  <2> QED  BY <1>5, <2>2 DEF ExecuteTransition
<1>6. CASE AllDepsStarted
  <2>1. Me \in Services  BY <1>6 DEF AllDepsStarted, At
  <2>2. flags' \in [Services -> SUBSET Flag]  BY <1>6, <2>1
      DEF AllDepsStarted, SetFlags, Flag
  <2> QED  BY <1>6, <2>2 DEF AllDepsStarted
<1>7. CASE BringUpInternal  BY <1>7 DEF BringUpInternal
<1>8. CASE Started
  <2>1. Me \in Services  BY <1>8 DEF Started, At
  <2>2. service_state' \in [Services -> State]  BY <1>8, <2>1
      DEF Started, SetState, State
  <2>3. flags' \in [Services -> SUBSET Flag]
    <3>1. {} \in SUBSET Flag  OBVIOUS
    <3> QED  BY <1>8, <2>1, <3>1, FlagsType DEF Started
  <2> QED  BY <1>8, <2>2, <2>3 DEF Started
<1>9. CASE NotifyDependent
  <2>1. Me \in Services  BY <1>9 DEF NotifyDependent, AtLoop, At
  <2>2. LET l == Head(Top.todo) IN l \in Links /\ l.from \in Services /\ l.to \in Services
    BY <1>9, HeadLink DEF NotifyDependent, AtLoop, At
  <2>3. waiting_on' \subseteq Links  BY <1>9, <2>1, <2>2 DEF NotifyDependent
  <2>4. stop_queue' \in Seq(Services)
    BY <1>9, <2>1, <2>2, InsertType DEF NotifyDependent, Wake, add_transition_queue
  <2> QED  BY <1>9, <2>3, <2>4 DEF NotifyDependent
<1> QED  BY <1>1, <1>2, <1>3, <1>4, <1>5, <1>6, <1>7, <1>8, <1>9

\* so do failing and stopping,
LEMMA StopData ==
  ASSUME TypeOK,
         \/ FailedToStart \/ FailDependent \/ FailDependentsEnd \/ Stopped
         \/ BreakSoftDependent \/ StoppedDep \/ SetStopped \/ Chain \/ Stop
         \/ ForcedStop \/ DoStop \/ DoStopPinned \/ StopHardDependent \/ QueueStop
         \/ StopSoftDependent \/ BeginStopping \/ InterruptStart \/ StopDeferred
         \/ BringDownInternal
  PROVE  DataOK'
<1> USE DEF recordVars, linkVars, graphVars, queueVars, consoleVars, setVars, Local, NoProcess,
        DataOK, RequireOK, ReleaseOK, TypeOK, RecordTypes, LinkTypes, SetTypes
<1>1. CASE FailedToStart
  <2>1. Me \in Services  BY <1>1 DEF FailedToStart, At
  <2>2. console_queue' \in Seq(Services)  BY <1>1, <2>1, UnlessType DEF FailedToStart
  <2>3. desired_state' \in [Services -> {"STOPPED", "STARTED"}]
    BY <1>1, <2>1 DEF FailedToStart, SetDesired
  <2>4. flags' \in [Services -> SUBSET Flag]  BY <1>1, <2>1
      DEF FailedToStart, SetFlags, Flag
  <2> QED  BY <1>1, <2>2, <2>3, <2>4 DEF FailedToStart
<1>2. CASE FailDependent
  <2>1. Me \in Services  BY <1>2 DEF FailDependent, AtLoop, At
  <2>2. LET l == Head(Top.todo) IN l \in Links /\ l.from \in Services /\ l.to \in Services
    BY <1>2, HeadLink DEF FailDependent, AtLoop, At
  <2>3. prop' \in [Services -> SUBSET Prop]
    <3>1. {"failure"} \in SUBSET Prop  BY DEF Prop
    <3>2. [prop EXCEPT ![Head(Top.todo).from] = @ \cup {"failure"}] \in [Services -> SUBSET Prop]
      BY <2>2, <3>1, PropType
    <3> QED  BY <1>2, <3>2 DEF FailDependent
  <2>4. waiting_on' \subseteq Links  BY <1>2, <2>1, <2>2 DEF FailDependent
  <2>5. prop_queue' \in Seq(Services)
    <3>1. Insert(prop_queue, Head(Top.todo).from) \in Seq(Services)  BY <2>2, InsertType
    <3> QED  BY <1>2, <3>1 DEF FailDependent, add_prop_queue
  <2>6. stop_queue' \in Seq(Services)
    BY <1>2, <2>1, <2>2, InsertType DEF FailDependent, Wake, add_transition_queue
  <2> QED  BY <1>2, <2>3, <2>4, <2>5, <2>6 DEF FailDependent
<1>3. CASE FailDependentsEnd
  <2>1. Me \in Services  BY <1>3 DEF FailDependentsEnd, AtLoopEnd, At
  <2>2. flags' \in [Services -> SUBSET Flag]  BY <1>3, <2>1
      DEF FailDependentsEnd, SetFlags, Flag
  <2> QED  BY <1>3, <2>2 DEF FailDependentsEnd
<1>4. CASE Stopped
  <2>1. Me \in Services  BY <1>4 DEF Stopped, At
  <2>2. flags' \in [Services -> SUBSET Flag]
    <3>1. {} \in SUBSET Flag  OBVIOUS
    <3> QED  BY <1>4, <2>1, <3>1, FlagsType DEF Stopped
  <2> QED  BY <1>4, <2>2 DEF Stopped
<1>5. CASE BreakSoftDependent
  <2>1. Me \in Services  BY <1>5 DEF BreakSoftDependent, AtLoop, At
  <2>2. LET l == Head(Top.todo) IN l \in Links /\ l.from \in Services /\ l.to \in Services
    BY <1>5, HeadLink DEF BreakSoftDependent, AtLoop, At
  <2>3. waiting_on' \subseteq Links  BY <1>5, <2>1, <2>2
      DEF BreakSoftDependent, BreakSoft
  <2>4. stop_queue' \in Seq(Services)
    <3>1. Insert(stop_queue, Head(Top.todo).from) \in Seq(Services)  BY <2>2, InsertType
    <3> QED  BY <1>5, <3>1 DEF BreakSoftDependent, BreakSoft, Wake, add_transition_queue
  <2> QED  BY <1>5, <2>3, <2>4 DEF BreakSoftDependent
<1>6. CASE StoppedDep
  <2>1. Me \in Services  BY <1>6 DEF StoppedDep, AtLoop, At
  <2>2. LET l == Head(Top.todo) IN l \in Links /\ l.from \in Services /\ l.to \in Services
    BY <1>6, HeadLink DEF StoppedDep, AtLoop, At
  <2>3. stop_queue' \in Seq(Services)
    BY <1>6, <2>1, <2>2, InsertType DEF StoppedDep, Wake, add_transition_queue
  <2> QED  BY <1>6, <2>3 DEF StoppedDep
<1>7. CASE SetStopped
  <2>1. Me \in Services  BY <1>7 DEF SetStopped, AtLoopEnd, At
  <2>2. active_services' \in Int  BY SMTT(60), <1>7, <2>1 DEF SetStopped
  <2>3. service_state' \in [Services -> State]  BY <1>7, <2>1
      DEF SetStopped, SetState, State
  <2> QED  BY <1>7, <2>2, <2>3 DEF SetStopped
<1>8. CASE Chain  BY <1>8 DEF Chain
<1>9. CASE Stop
  <2>1. Me \in Services  BY <1>9 DEF Stop, At
  <2>2. desired_state' \in [Services -> {"STOPPED", "STARTED"}]  BY <1>9, <2>1 DEF Stop
  <2>3. required_by' \in [Services -> Int]
    <3>1. required_by[Me] \in Int /\ required_by[Me] - 1 \in Int  BY SMTT(60), <2>1
    <3> QED  BY <1>9, <2>1, <3>1 DEF Stop
  <2>4. prop' \in [Services -> SUBSET Prop]
    <3>1. {"release"} \in SUBSET Prop /\ {"release"} \in SUBSET Prop  BY DEF Prop
    <3>2. [prop EXCEPT ![Me] = @ \cup {"release"}] \in [Services -> SUBSET Prop]
        /\ [prop EXCEPT ![Me] = @ \ {"release"}] \in [Services -> SUBSET Prop]
      BY <2>1, <3>1, PropType
    <3> QED  BY <1>9, <3>2 DEF Stop, is_start_pinned
  <2>5. stop_reason' \in [Services -> StopReason]  BY <1>9, <2>1 DEF Stop, StopReason
  <2>6. flags' \in [Services -> SUBSET Flag]  BY <1>9, <2>1 DEF Stop, SetFlags, Flag
  <2>7. prop_queue' \in Seq(Services)
    <3>1. Insert(prop_queue, Me) \in Seq(Services)  BY <2>1, InsertType
    <3> QED  BY <1>9, <3>1 DEF Stop, add_prop_queue
  <2> QED  BY <1>9, <2>2, <2>3, <2>4, <2>5, <2>6, <2>7 DEF Stop
<1>10. CASE ForcedStop
  <2>1. Me \in Services  BY <1>10 DEF ForcedStop, At
  <2>2. desired_state' \in [Services -> {"STOPPED", "STARTED"}]  BY <1>10, <2>1
      DEF ForcedStop
  <2>3. prop' \in [Services -> SUBSET Prop]
    <3>1. {"stop"} \in SUBSET Prop  BY DEF Prop
    <3>2. [prop EXCEPT ![Me] = @ \cup {"stop"}] \in [Services -> SUBSET Prop]
      BY <2>1, <3>1, PropType
    <3> QED  BY <1>10, <3>2 DEF ForcedStop, is_start_pinned
  <2>4. flags' \in [Services -> SUBSET Flag]  BY <1>10, <2>1
      DEF ForcedStop, SetFlags, Flag, When
  <2>5. prop_queue' \in Seq(Services)  BY SMTT(60), <1>10, <2>1, InsertType
      DEF ForcedStop, add_prop_queue
  <2> QED  BY <1>10, <2>2, <2>3, <2>4, <2>5 DEF ForcedStop
<1>11. CASE DoStop
  <2>1. Me \in Services  BY <1>11 DEF DoStop, At
  <2>2. desired_state' \in [Services -> {"STOPPED", "STARTED"}]  BY <1>11, <2>1
      DEF DoStop
  <2>3. flags' \in [Services -> SUBSET Flag]
    <3>1. {} \in SUBSET Flag /\ {"in_auto_restart"} \in SUBSET Flag  BY DEF Flag
    <3> QED  BY <1>11, <2>1, <3>1, FlagsType DEF DoStop, When
  <2> QED  BY <1>11, <2>2, <2>3 DEF DoStop
<1>12. CASE DoStopPinned  BY <1>12 DEF DoStopPinned
<1>13. CASE StopHardDependent
  <2>1. Me \in Services  BY <1>13 DEF StopHardDependent, AtLoop, At
  <2>2. LET l == Head(Top.todo) IN l \in Links /\ l.from \in Services /\ l.to \in Services
    BY <1>13, HeadLink DEF StopHardDependent, AtLoop, At
  <2>3. desired_state' \in [Services -> {"STOPPED", "STARTED"}]
    BY <1>13, <2>1, <2>2 DEF StopHardDependent
  <2>4. prop' \in [Services -> SUBSET Prop]
    <3>1. {"stop"} \in SUBSET Prop  BY DEF Prop
    <3>2. [prop EXCEPT ![Head(Top.todo).from] = @ \cup {"stop"}] \in [Services -> SUBSET Prop]
      BY <2>2, <3>1, PropType
    <3> QED  BY <1>13, <3>2 DEF StopHardDependent
  <2>5. stop_reason' \in [Services -> StopReason]
    BY <1>13, <2>1, <2>2 DEF StopHardDependent, StopReason
  <2>6. flags' \in [Services -> SUBSET Flag]
    BY <1>13, <2>1, <2>2 DEF StopHardDependent, SetFlags, Flag, When
  <2>7. prop_queue' \in Seq(Services)
    <3>1. Insert(prop_queue, Head(Top.todo).from) \in Seq(Services)  BY <2>2, InsertType
    <3> QED  BY <1>13, <3>1 DEF StopHardDependent, add_prop_queue
  <2> QED  BY <1>13, <2>3, <2>4, <2>5, <2>6, <2>7 DEF StopHardDependent
<1>14. CASE QueueStop
  <2>1. Me \in Services  BY <1>14 DEF QueueStop, At
  <2>2. prop' \in [Services -> SUBSET Prop]  BY <1>14, <2>1 DEF QueueStop, Prop
  <2>3. prop_queue' \in Seq(Services)  BY <1>14, <2>1, InsertType
      DEF QueueStop, add_prop_queue
  <2> QED  BY <1>14, <2>2, <2>3 DEF QueueStop
<1>15. CASE StopSoftDependent
  <2>1. Me \in Services  BY <1>15 DEF StopSoftDependent, AtLoop, At
  <2>2. LET l == Head(Top.todo) IN l \in Links /\ l.from \in Services /\ l.to \in Services
    BY <1>15, HeadLink DEF StopSoftDependent, AtLoop, At
  <2>3. waiting_on' \subseteq Links  BY <1>15, <2>1, <2>2
      DEF StopSoftDependent, BreakSoft
  <2>4. stop_queue' \in Seq(Services)
    <3>1. Insert(stop_queue, Head(Top.todo).from) \in Seq(Services)  BY <2>2, InsertType
    <3> QED  BY <1>15, <3>1 DEF StopSoftDependent, BreakSoft, Wake, add_transition_queue
  <2> QED  BY <1>15, <2>3, <2>4 DEF StopSoftDependent
<1>16. CASE BeginStopping
  <2>1. Me \in Services  BY <1>16 DEF BeginStopping, AtLoopEnd, At
  <2>2. console_queue' \in Seq(Services)  BY <1>16, <2>1, UnlessType DEF BeginStopping
  <2>3. service_state' \in [Services -> State]  BY <1>16, <2>1
      DEF BeginStopping, SetState, State
  <2>4. flags' \in [Services -> SUBSET Flag]
    BY <1>16, <2>1 DEF BeginStopping, SetFlags, Flag, When
  <2>5. ps' \in [Services -> SUBSET PsField]
    BY <1>16, <2>1 DEF BeginStopping, SetPs, PsField, When, StopRestartTimer
  <2>6. stop_queue' \in Seq(Services)
    BY <1>16, <2>1, InsertType DEF BeginStopping, Wake, add_transition_queue
  <2> QED  BY <1>16, <2>2, <2>3, <2>4, <2>5, <2>6 DEF BeginStopping
<1>17. CASE InterruptStart
  <2>1. Me \in Services  BY <1>17 DEF InterruptStart, AtLoopEnd, At
  <2>2. service_state' \in [Services -> State]  BY <1>17, <2>1
      DEF InterruptStart, SetState, State
  <2>3. ps' \in [Services -> SUBSET PsField]
    BY <1>17, <2>1 DEF InterruptStart, SetPs, PsField, StopTimer, ArmTimer
  <2> QED  BY <1>17, <2>2, <2>3 DEF InterruptStart
<1>18. CASE StopDeferred  BY <1>18 DEF StopDeferred
<1>19. CASE BringDownInternal  BY <1>19 DEF BringDownInternal
<1> QED
  BY <1>1, <1>2, <1>3, <1>4, <1>5, <1>6, <1>7, <1>8, <1>9, <1>10, <1>11, <1>12, <1>13,
      <1>14,
      <1>15, <1>16, <1>17, <1>18, <1>19

\* so do pins and links activated one at a time,
LEMMA PinData ==
  ASSUME TypeOK,
         \/ PinStart \/ Unpin \/ UnpinStarted \/ UnpinStopped \/ Rewake \/ StartDep
  PROVE  DataOK'
<1> USE DEF recordVars, linkVars, graphVars, queueVars, consoleVars, setVars, Local, NoProcess,
        DataOK, RequireOK, ReleaseOK, TypeOK, RecordTypes, LinkTypes, SetTypes
<1>1. CASE PinStart
  <2>1. Me \in Services  BY <1>1 DEF PinStart, At
  <2>2. flags' \in [Services -> SUBSET Flag]  BY <1>1, <2>1 DEF PinStart, SetFlags, Flag
  <2> QED  BY <1>1, <2>2 DEF PinStart
<1>2. CASE Unpin
  <2>1. Me \in Services  BY <1>2 DEF Unpin, At
  <2>2. flags' \in [Services -> SUBSET Flag]  BY <1>2, <2>1
      DEF Unpin, SetFlags, Flag, When
  <2> QED  BY <1>2, <2>2 DEF Unpin
<1>3. CASE UnpinStarted
  <2>1. Me \in Services  BY <1>3 DEF UnpinStarted, At
  <2>2. prop' \in [Services -> SUBSET Prop]
    <3>1. {"release"} \in SUBSET Prop  BY DEF Prop
    <3>2. [prop EXCEPT ![Me] = @ \cup {"release"}] \in [Services -> SUBSET Prop]
      BY <2>1, <3>1, PropType
    <3> QED  BY <1>3, <3>2 DEF UnpinStarted
  <2>3. prop_queue' \in Seq(Services)  BY SMTT(60), <1>3, <2>1, InsertType
      DEF UnpinStarted, add_prop_queue
  <2> QED  BY <1>3, <2>2, <2>3 DEF UnpinStarted
<1>4. CASE UnpinStopped
  <2>1. Me \in Services  BY <1>4 DEF UnpinStopped, At
  <2>2. flags' \in [Services -> SUBSET Flag]  BY <1>4, <2>1
      DEF UnpinStopped, SetFlags, Flag
  <2> QED  BY <1>4, <2>2 DEF UnpinStopped
<1>5. CASE Rewake
  <2>1. Me \in Services  BY <1>5 DEF Rewake, AtLoop, At
  <2>2. LET l == Head(Top.todo) IN l \in Links /\ l.from \in Services /\ l.to \in Services
    BY <1>5, HeadLink DEF Rewake, AtLoop, At
  <2>3. RequireOK'  BY <1>5, <2>1, <2>2, RequireType DEF Rewake
  <2>4. holding_acq' \subseteq Links  BY <1>5, <2>1, <2>2 DEF Rewake
  <2> QED  BY <1>5, <2>3, <2>4 DEF Rewake
<1>6. CASE StartDep
  <2>1. Me \in Services  BY <1>6 DEF StartDep, AtLoop, At
  <2>2. LET l == Head(Top.todo) IN l \in Links /\ l.from \in Services /\ l.to \in Services
    BY <1>6, HeadLink DEF StartDep, AtLoop, At
  <2>3. RequireOK'  BY <1>6, <2>1, <2>2, RequireType DEF StartDep
  <2>4. holding_acq' \subseteq Links  BY <1>6, <2>1, <2>2 DEF StartDep
  <2> QED  BY <1>6, <2>3, <2>4 DEF StartDep
<1> QED  BY <1>1, <1>2, <1>3, <1>4, <1>5, <1>6

\* so do processes,
LEMMA ProcessData ==
  ASSUME TypeOK,
         \/ BringUpProcess \/ BringUpRestart \/ BringUpFails \/ DoRestart
         \/ BringDownProcess \/ HandleExitStatus \/ AfterTermination
  PROVE  DataOK'
<1> USE DEF recordVars, linkVars, graphVars, queueVars, consoleVars, setVars, Local, NoProcess,
        DataOK, RequireOK, ReleaseOK, TypeOK, RecordTypes, LinkTypes, SetTypes, ProcessOnly
<1>1. CASE BringUpProcess
  <2>1. Me \in Services  BY <1>1 DEF BringUpProcess, At
  <2>2. ps' \in [Services -> SUBSET PsField]
    BY <1>1, <2>1 DEF BringUpProcess, SetPs, PsField, When, StopTimer, ArmTimer,
        Launched
  <2> QED  BY <1>1, <2>2 DEF BringUpProcess
<1>2. CASE BringUpRestart
  <2>1. Me \in Services  BY <1>2 DEF BringUpRestart, At
  <2>2. ps' \in [Services -> SUBSET PsField]
    <3>1. {"restart_timer", "timer"} \in SUBSET PsField  BY DEF PsField
    <3> QED  BY <1>2, <2>1, <3>1, PsType DEF BringUpRestart
  <2> QED  BY <1>2, <2>2 DEF BringUpRestart
<1>3. CASE BringUpFails
  <2>1. Me \in Services  BY <1>3 DEF BringUpFails, At
  <2>2. service_state' \in [Services -> State]  BY <1>3, <2>1
      DEF BringUpFails, SetState, State
  <2> QED  BY <1>3, <2>2 DEF BringUpFails
<1>4. CASE DoRestart
  <2>1. Me \in Services  BY <1>4 DEF DoRestart, At
  <2>2. ps' \in [Services -> SUBSET PsField]
    <3>1. {} \in SUBSET PsField /\ Launched(Me) \cup ArmTimer(Me,
        "start_timeout") \in SUBSET PsField
      BY DEF PsField, ArmTimer, Launched, When
    <3> QED  BY <1>4, <2>1, <3>1, PsType DEF DoRestart
  <2> QED  BY <1>4, <2>2 DEF DoRestart
<1>5. CASE BringDownProcess
  <2>1. Me \in Services  BY <1>5 DEF BringDownProcess, At
  <2>2. ps' \in [Services -> SUBSET PsField]
    <3>1. /\ {} \in SUBSET PsField
          /\ {"stop_pid", "execstat", "stop_exec", "stop_issued"} \cup ArmTimer(Me,
              "stop_timeout") \in SUBSET PsField
          /\ {"signal", "stop_issued"} \cup ArmTimer(Me, "stop_timeout") \in SUBSET PsField
      BY SMTT(60) DEF PsField, ArmTimer
    <3> QED  BY <1>5, <2>1, <3>1, PsType DEF BringDownProcess
  <2> QED  BY <1>5, <2>2 DEF BringDownProcess
<1>6. CASE HandleExitStatus
  <2>1. Me \in Services  BY <1>6 DEF HandleExitStatus, At
  <2>2. stop_reason' \in [Services -> StopReason]  BY <1>6, <2>1
      DEF HandleExitStatus, StopReason
  <2>3. desired_state' \in [Services -> {"STOPPED", "STARTED"}]
    BY <1>6, <2>1 DEF HandleExitStatus, SetDesired
  <2>4. flags' \in [Services -> SUBSET Flag]
    <3>1. {"force_stop"} \in SUBSET Flag  BY SMTT(60) DEF Flag
    <3> QED  BY <1>6, <2>1, <3>1, FlagsType DEF HandleExitStatus
  <2>5. ps' \in [Services -> SUBSET PsField]
    <3>1. {} \in SUBSET PsField /\ {"restart_timer", "timer"} \in SUBSET PsField  BY SMTT(60) DEF PsField
    <3> QED  BY <1>6, <2>1, <3>1, PsType DEF HandleExitStatus
  <2> QED  BY <1>6, <2>2, <2>3, <2>4, <2>5 DEF HandleExitStatus
<1>7. CASE AfterTermination  BY <1>7 DEF AfterTermination
<1> QED  BY <1>1, <1>2, <1>3, <1>4, <1>5, <1>6, <1>7

\* and so does the console.
LEMMA ConsoleData ==
  ASSUME TypeOK,
         \/ QueueForConsole \/ PullConsoleQueue \/ AcquiredConsole
  PROVE  DataOK'
<1> USE DEF recordVars, linkVars, graphVars, queueVars, consoleVars, setVars, Local, NoProcess,
        DataOK, RequireOK, ReleaseOK, TypeOK, RecordTypes, LinkTypes, SetTypes
<1>1. CASE QueueForConsole
  <2>1. Me \in Services  BY <1>1 DEF QueueForConsole, At
  <2>2. console_queue' \in Seq(Services)
    <3>1. Append(console_queue, Me) \in Seq(Services)  BY SMTT(60), <2>1
    <3> QED  BY <1>1, <3>1 DEF QueueForConsole
  <2>3. console_log' \in {"active", "releasing", "released"}  BY <1>1, <2>1
      DEF QueueForConsole
  <2>4. flags' \in [Services -> SUBSET Flag]  BY <1>1, <2>1
      DEF QueueForConsole, SetFlags, Flag
  <2> QED  BY <1>1, <2>2, <2>3, <2>4 DEF QueueForConsole
<1>2. CASE PullConsoleQueue
  <2>1. Me \in Services  BY <1>2 DEF PullConsoleQueue, At
  <2>2. console_queue' \in Seq(Services)  BY <1>2, <2>1, HeadTail DEF PullConsoleQueue
  <2>3. console_log' \in {"active", "releasing", "released"}  BY <1>2, <2>1
      DEF PullConsoleQueue
  <2> QED  BY <1>2, <2>2, <2>3 DEF PullConsoleQueue
<1>3. CASE AcquiredConsole
  <2>1. Me \in Services  BY <1>3 DEF AcquiredConsole, At
  <2>2. flags' \in [Services -> SUBSET Flag]
    BY <1>3, <2>1 DEF AcquiredConsole, SetFlags, Flag, When
  <2> QED  BY <1>3, <2>2 DEF AcquiredConsole
<1> QED  BY <1>1, <1>2, <1>3

-----------------------------------------------------------------------------
(* Queues and events *)

\* process_queues() takes records from the queues.
LEMMA QueueData ==
  ASSUME TypeOK, PopPropQueue \/ PopStopQueue \/ QueuesProcessed
  PROVE  DataOK'
<1> USE DEF recordVars, linkVars, queueVars, consoleVars, Local, NoProcess,
        DataOK, TypeOK, RecordTypes, LinkTypes, SetTypes
<1>1. CASE PopPropQueue
  <2>1. prop_queue' \in Seq(Services)  BY <1>1, HeadTail DEF PopPropQueue
  <2> QED  BY <1>1, <2>1 DEF PopPropQueue
<1>2. CASE PopStopQueue
  <2>1. stop_queue' \in Seq(Services)  BY <1>2, HeadTail DEF PopStopQueue
  <2> QED  BY <1>2, <2>1 DEF PopStopQueue
<1>3. CASE QueuesProcessed  BY <1>3 DEF QueuesProcessed
<1> QED  BY <1>1, <1>2, <1>3

\* The handlers of process events write process fields, states and reasons.
LEMMA ProcEventData ==
  ASSUME TypeOK, NEW s \in Services, ProcEvent(s)
  PROVE  DataOK'
<1> USE DEF recordVars, linkVars, graphVars, queueVars, consoleVars, setVars, ProcessOnly,
        DataOK, TypeOK, RecordTypes, LinkTypes, SetTypes
<1>0. /\ {} \in SUBSET PsField
      /\ \A c : When(c, "ready_watch") \in SUBSET PsField /\ When(c, "signal") \in SUBSET PsField
      /\ \A c, d : When(c, "signal") \cup When(d, "killed") \in SUBSET PsField
      /\ {"signal"} \cup ArmTimer(s, "stop_timeout") \in SUBSET PsField
  BY SMTT(60) DEF PsField, When, ArmTimer
<1>1. CASE ChildExit(s)
  <2>1. ps' \in [Services -> SUBSET PsField]  BY <1>0, <1>1, PsType DEF ChildExit
  <2> QED  BY <1>1, <2>1 DEF ChildExit
<1>2. CASE ExecSucceeded(s)
  <2>1. ps' \in [Services -> SUBSET PsField]  BY <1>0, <1>2, PsType DEF ExecSucceeded
  <2> QED  BY <1>2, <2>1 DEF ExecSucceeded
<1>3. CASE ExecFailed(s)
  <2>1. ps' \in [Services -> SUBSET PsField]  BY <1>0, <1>3, PsType DEF ExecFailed
  <2>2. stop_reason' \in [Services -> StopReason]  BY <1>3 DEF ExecFailed, StopReason
  <2>3. service_state' \in [Services -> State]  BY <1>3 DEF ExecFailed, State
  <2> QED  BY <1>3, <2>1, <2>2, <2>3 DEF ExecFailed
<1>4. CASE Ready(s)
  <2>1. ps' \in [Services -> SUBSET PsField]  BY <1>0, <1>4, PsType DEF Ready
  <2> QED  BY <1>4, <2>1 DEF Ready
<1>5. CASE NotifyClosed(s)
  <2>1. ps' \in [Services -> SUBSET PsField]  BY <1>0, <1>5, PsType DEF NotifyClosed
  <2>2. service_state' \in [Services -> State]  BY <1>5
      DEF NotifyClosed, SetState, State
  <2> QED  BY <1>5, <2>1, <2>2 DEF NotifyClosed
<1>6. CASE TimerExpired(s)
  <2>1. ps' \in [Services -> SUBSET PsField]  BY <1>0, <1>6, PsType DEF TimerExpired
  <2>2. service_state' \in [Services -> State]  BY <1>6
      DEF TimerExpired, SetState, State
  <2>3. stop_reason' \in [Services -> StopReason]  BY <1>6 DEF TimerExpired, StopReason
  <2> QED  BY <1>6, <2>1, <2>2, <2>3 DEF TimerExpired
<1>7. CASE StopChildExit(s)
  <2>1. ps' \in [Services -> SUBSET PsField]  BY <1>0, <1>7, PsType DEF StopChildExit
  <2> QED  BY <1>7, <2>1 DEF StopChildExit
<1>8. CASE StopExecStatus(s)
  <2>1. ps' \in [Services -> SUBSET PsField]  BY <1>0, <1>8, PsType DEF StopExecStatus
  <2> QED  BY <1>8, <2>1 DEF StopExecStatus
<1> QED  BY <1>1, <1>2, <1>3, <1>4, <1>5, <1>6, <1>7, <1>8 DEF ProcEvent

\* The log gives the console to the first service that waits for it.
LEMMA LogData ==
  ASSUME TypeOK, LogReleasesConsole
  PROVE  DataOK'
<1> USE DEF recordVars, linkVars, queueVars, NoProcess, DataOK, TypeOK, RecordTypes, LinkTypes,
        SetTypes
<1>1. console_queue' \in Seq(Services)  BY HeadTail DEF LogReleasesConsole
<1>2. console_log' \in {"active", "releasing", "released"}  BY DEF LogReleasesConsole
<1> QED  BY <1>1, <1>2 DEF LogReleasesConsole

\* The commands on a service write flags and, for a restart, the stop reason.
LEMMA CommandData ==
  ASSUME TypeOK, NEW s \in Services, ServiceCommand(s)
  PROVE  DataOK'
<1> USE DEF recordVars, linkVars, queueVars, consoleVars, Local, NoProcess,
        DataOK, TypeOK, RecordTypes, LinkTypes, SetTypes
<1>0. /\ {"force_stop"} \in SUBSET Flag
      /\ \A c : When(c, "pinned_stopped") \in SUBSET Flag /\ When(c, "is_triggered") \in SUBSET Flag
  BY SMTT(60) DEF Flag, When
<1>1. CASE StartService(s)  BY <1>1 DEF StartService, OnlyCalls
<1>2. CASE StopService(s)
  <2>1. flags' \in [Services -> SUBSET Flag]  BY <1>0, <1>2, FlagsType DEF StopService
  <2> QED  BY <1>2, <2>1 DEF StopService
<1>3. CASE RestartService(s)
  <2>1. flags' \in [Services -> SUBSET Flag]  BY <1>0, <1>3, FlagsType
      DEF RestartService
  <2>2. stop_reason' \in [Services -> StopReason]  BY <1>3
      DEF RestartService, StopReason
  <2> QED  BY <1>3, <2>1, <2>2 DEF RestartService
<1>4. CASE WakeService(s)  BY <1>4 DEF WakeService, OnlyCalls
<1>5. CASE ReleaseService(s)
  <2>1. flags' \in [Services -> SUBSET Flag]  BY <1>0, <1>5, FlagsType
      DEF ReleaseService
  <2> QED  BY <1>5, <2>1 DEF ReleaseService
<1>6. CASE UnpinService(s)  BY <1>6 DEF UnpinService, OnlyCalls
<1>7. CASE SetTrigger(s)
  <2>1. flags' \in [Services -> SUBSET Flag]  BY <1>0, <1>7, FlagsType DEF SetTrigger
  <2> QED  BY <1>7, <2>1 DEF SetTrigger
<1> QED  BY <1>1, <1>2, <1>3, <1>4, <1>5, <1>6, <1>7 DEF ServiceCommand

-----------------------------------------------------------------------------
(* The graph *)

\* Adding a dependency and removing one keep the dependency lists lists of links,
LEMMA GraphCommandData ==
  ASSUME TypeOK, NEW l \in Links, AddDep(l) \/ RemoveDep(l)
  PROVE  DataOK'
<1> USE DEF linkVars, consoleVars, setVars, DataOK, RequireOK, ReleaseOK, TypeOK, RecordTypes,
        LinkTypes, SetTypes
<1>1. l.from \in Services /\ l.to \in Services  BY LinksAssumption
<1>2. depends_on[l.from] \in Seq(Links) /\ dependents[l.to] \in Seq(Links)
  BY <1>1 DEF LinkLists
<1>3. CASE AddDep(l)
  <2>1. ASSUME NEW q \in Seq(Links) PROVE Append(q, l) \in Seq(Links)  BY SMTT(60)
  <2>2. depends_on' \in LinkLists /\ dependents' \in LinkLists
    BY <1>1, <1>2, <1>3, <2>1 DEF AddDep, LinkLists
  <2>3. RequireOK' /\ holding_acq' \subseteq Links  BY <1>1, <1>3, RequireType
      DEF AddDep
  <2> QED  BY <1>3, <2>2, <2>3 DEF AddDep
<1>4. CASE RemoveDep(l)
  <2>1. Unless(depends_on[l.from], l) \in Seq(Links) /\ Unless(dependents[l.to], l) \in Seq(Links)
    BY <1>2, UnlessType
  <2>2. depends_on' \in LinkLists /\ dependents' \in LinkLists
    BY <1>1, <1>4, <2>1 DEF RemoveDep, LinkLists
  <2>3. ReleaseOK'  BY <1>1, <1>4, ReleaseType DEF RemoveDep
  <2> QED  BY <1>4, <2>2, <2>3 DEF RemoveDep
<1> QED  BY <1>3, <1>4

\* and keep each link in the lists of its own services.
LEMMA GraphCommandGraph ==
  ASSUME TypeOK, GraphOK, NEW l \in Links, AddDep(l) \/ RemoveDep(l)
  PROVE  GraphOK'
<1> DEFINE Out(s) == {k \in Links : k.from = s}
           In(s) == {k \in Links : k.to = s}
<1>1. l.from \in Services /\ l.to \in Services  BY LinksAssumption
<1>2. depends_on[l.from] \in Seq(Out(l.from)) /\ dependents[l.to] \in Seq(In(l.to))
  BY <1>1 DEF GraphOK
<1>3. l \in Out(l.from) /\ l \in In(l.to)  OBVIOUS
<1> HIDE DEF Out, In
<1>4. /\ Append(depends_on[l.from], l) \in Seq(Out(l.from))
      /\ Append(dependents[l.to], l) \in Seq(In(l.to))
  BY SMTT(60), <1>2, <1>3
<1>5. /\ Unless(depends_on[l.from], l) \in Seq(Out(l.from))
      /\ Unless(dependents[l.to], l) \in Seq(In(l.to))
  BY <1>2, UnlessType
<1>6. /\ depends_on' \in {depends_on, [depends_on EXCEPT ![l.from] = Append(@, l)],
                          [depends_on EXCEPT ![l.from] = Unless(@, l)]}
      /\ dependents' \in {dependents, [dependents EXCEPT ![l.to] = Append(@, l)],
                          [dependents EXCEPT ![l.to] = Unless(@, l)]}
  BY DEF AddDep, RemoveDep
<1>7. ASSUME NEW s \in Services
      PROVE  depends_on'[s] \in Seq(Out(s)) /\ dependents'[s] \in Seq(In(s))
  <2>1. depends_on[s] \in Seq(Out(s)) /\ dependents[s] \in Seq(In(s))
    BY DEF GraphOK, Out, In
  <2>2. depends_on'[s] \in Seq(Out(s))
    BY <1>1, <1>4, <1>5, <1>6, <2>1 DEF TypeOK, LinkTypes, LinkLists
  <2>3. dependents'[s] \in Seq(In(s))
    BY <1>1, <1>4, <1>5, <1>6, <2>1 DEF TypeOK, LinkTypes, LinkLists
  <2> QED  BY <2>2, <2>3
<1> QED  BY <1>7 DEF GraphOK, Out, In

\* Nothing else changes the graph.
LEMMA OnlyCommandsLink ==
  ASSUME [Next]_vars
  PROVE  UNCHANGED graphVars \/ \E l \in Links : AddDep(l) \/ RemoveDep(l)
<1>1. CASE RecordStep
  BY <1>1 DEF RecordStep, graphVars, Local, NoProcess, DropLink, DropExplicit,
    PropRequire, RequireDep, RequireDepsEnd, PropRelease, ReleaseDep, ReleaseDepsEnd, PropFailure,
    PropStart, PropStop, PropPinDpt, PropagationDone, PinDep, PinDptDone, LoopDone, Start,
    DoStartPinned, DoStartActive, DoStartInactive, InitiateStart, ExecuteTransition,
    AllDepsStarted, BringUpInternal, Started, NotifyDependent, FailedToStart, FailDependent,
    FailDependentsEnd, Stopped, BreakSoftDependent, StoppedDep, SetStopped, Chain, Stop,
    ForcedStop, DoStop, DoStopPinned, StopHardDependent, QueueStop, StopSoftDependent,
    BeginStopping, InterruptStart, StopDeferred, BringDownInternal, PinStart, Unpin,
    UnpinStarted, UnpinStopped, Rewake, StartDep
<1>2. CASE ProcStep
  BY <1>2 DEF ProcStep, ProcessOnly, BringUpProcess, BringUpRestart, BringUpFails,
    DoRestart, BringDownProcess, HandleExitStatus, AfterTermination
<1>3. CASE SetStep
  BY <1>3 DEF SetStep, graphVars, Local, NoProcess, PopPropQueue, PopStopQueue,
    QueuesProcessed, QueueForConsole, PullConsoleQueue, AcquiredConsole
<1>4. ASSUME NEW s \in Services, ServiceCommand(s) PROVE UNCHANGED graphVars
  BY <1>4 DEF ServiceCommand, graphVars, OnlyCalls, Local, NoProcess,
    StartService, StopService, RestartService, WakeService, ReleaseService, UnpinService, SetTrigger
<1>5. CASE StopAllServices  BY <1>5 DEF StopAllServices
<1>6. CASE LogReleasesConsole  BY <1>6
    DEF LogReleasesConsole, graphVars, NoProcess
<1>7. ASSUME NEW s \in Services, ProcEvent(s) PROVE UNCHANGED graphVars
  BY <1>7 DEF ProcEvent, ProcessOnly, ChildExit, ExecSucceeded, ExecFailed, Ready,
    NotifyClosed, TimerExpired, StopChildExit, StopExecStatus
<1>8. CASE UNCHANGED vars  BY <1>8 DEF vars, graphVars
<1> QED
  BY <1>1, <1>2, <1>3, <1>4, <1>5, <1>6, <1>7, <1>8 DEF Next, Step, OperatorStep

\* Every step keeps each link in the lists of its own services.
LEMMA GraphStep ==
  ASSUME TypeOK, GraphOK, [Next]_vars
  PROVE  GraphOK'
<1>1. ASSUME UNCHANGED graphVars PROVE GraphOK'  BY <1>1 DEF GraphOK, graphVars
<1> QED  BY <1>1, OnlyCommandsLink, GraphCommandGraph

-----------------------------------------------------------------------------
(* States *)

\* Only initiate_start() takes a service into STARTING.
LEMMA OnlyInitiateStart ==
  ASSUME TypeOK, [Next]_vars, ~InitiateStart, NEW s \in Services, service_state'[s] = "STARTING"
  PROVE  service_state[s] = "STARTING"
<1>1. ASSUME NEW t \in Services, NEW v, v # "STARTING",
             service_state' = [service_state EXCEPT ![t] = v]
      PROVE  service_state[s] = "STARTING"
  BY SMTT(60), <1>1 DEF TypeOK, RecordTypes
<1>2. CASE RecordStep
  <2>1. CASE PropFailure \/ Started \/ SetStopped \/ BeginStopping \/ InterruptStart
    <3>1. Me \in Services
      BY <2>1 DEF PropFailure, Started, SetStopped, BeginStopping, InterruptStart,
        Phase, AtLoopEnd, At
    <3>2. \/ UNCHANGED service_state
          \/ \E v \in {"STOPPED", "STARTED", "STOPPING"} : SetState(Me, v)
      BY <2>1 DEF PropFailure, Started, SetStopped, BeginStopping, InterruptStart
    <3> QED  BY <1>1, <3>1, <3>2 DEF SetState
  <2>2. CASE ~(PropFailure \/ Started \/ SetStopped \/ BeginStopping \/ InterruptStart)
    <3>1. UNCHANGED service_state
      BY <1>2, <2>2 DEF RecordStep, recordVars, DropLink, DropExplicit, PropRequire,
        RequireDep, RequireDepsEnd, PropRelease, ReleaseDep, ReleaseDepsEnd, PropStart, PropStop,
        PropPinDpt, PropagationDone, PinDep, PinDptDone, LoopDone, Start, DoStartPinned,
        DoStartActive, DoStartInactive, ExecuteTransition, AllDepsStarted, BringUpInternal,
        NotifyDependent, FailedToStart, FailDependent, FailDependentsEnd, Stopped,
        BreakSoftDependent, StoppedDep, Chain, Stop, ForcedStop, DoStop, DoStopPinned,
        StopHardDependent, QueueStop, StopSoftDependent, StopDeferred, BringDownInternal,
        PinStart, Unpin, UnpinStarted, UnpinStopped, Rewake, StartDep
    <3> QED  BY <3>1
  <2> QED  BY <2>1, <2>2
<1>3. CASE ProcStep
  <2>1. CASE BringUpFails
    BY <1>1, <2>1 DEF BringUpFails, At, SetState
  <2>2. CASE ~BringUpFails
    BY <1>3, <2>2 DEF ProcStep, BringUpProcess, BringUpRestart, DoRestart,
      BringDownProcess, HandleExitStatus, AfterTermination
  <2> QED  BY <2>1, <2>2
<1>4. CASE SetStep
  BY <1>4 DEF SetStep, PopPropQueue, PopStopQueue, QueuesProcessed, QueueForConsole,
    PullConsoleQueue, AcquiredConsole, recordVars
<1>5. ASSUME NEW t \in Services, ProcEvent(t) PROVE service_state[s] = "STARTING"
  <2>1. UNCHANGED service_state \/ SetState(t, "STOPPING")
    BY <1>5 DEF ProcEvent, ChildExit, ExecSucceeded, ExecFailed, Ready, NotifyClosed,
      TimerExpired, StopChildExit, StopExecStatus, SetState
  <2> QED  BY <1>1, <2>1 DEF SetState
<1>6. CASE OperatorStep \/ LogReleasesConsole \/ UNCHANGED vars
  BY <1>6 DEF OperatorStep, ServiceCommand, StartService, StopService, RestartService,
    WakeService, ReleaseService, UnpinService, SetTrigger, OnlyCalls, AddDep, RemoveDep,
    StopAllServices, LogReleasesConsole, recordVars, vars
<1> QED  BY <1>2, <1>3, <1>4, <1>5, <1>6 DEF Next, Step
=============================================================================

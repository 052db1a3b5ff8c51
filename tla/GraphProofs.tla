---------------------------- MODULE GraphProofs ----------------------------
(***************************************************************************)
(* What the steps do to the links of the dependency graph.  Every step     *)
(* keeps every held link and every explicit activation counted; and the    *)
(* commands that add and remove links keep the graph free of cycles.  The  *)
(* induction over the search of add_service_dep() takes the least number   *)
(* of rounds for which a claim fails.                                      *)
(***************************************************************************)
EXTENDS StackProofs, FiniteSetTheorems, WellFoundedInduction

\* The leaves are for Zenon, where they do not name another prover.
USE ZenonT(60)

-----------------------------------------------------------------------------
(* Activation counts *)

\* do_start() attaches finitely many soft dependents again.
LEMMA ReattachCount ==
  ASSUME TypeOK, NEW s \in Services
  PROVE  /\ SoftReattach(s) \subseteq Links /\ IsFiniteSet(SoftReattach(s))
         /\ Cardinality(SoftReattach(s)) \in Nat
<1>1. SoftReattach(s) \subseteq Links  BY LinkSetType DEF SoftReattach
<1>2. IsFiniteSet(SoftReattach(s))  BY <1>1, LinksAssumption, FS_Subset
<1> QED  BY <1>1, <1>2, FS_CardinalityType

\* Finitely many links hold a service.
LEMMA HeldFinite ==
  ASSUME TypeOK, NEW s \in Services
  PROVE  IsFiniteSet(Held(s)) /\ Cardinality(Held(s)) \in Nat
<1>1. Held(s) \in SUBSET Links  BY DEF Held, TypeOK, LinkTypes
<1>2. IsFiniteSet(Held(s))  BY <1>1, LinksAssumption, FS_Subset
<1> QED  BY <1>2, FS_CardinalityType

\* A step that neither counts, holds nor activates explicitly keeps the counts.
LEMMA CountKept ==
  ASSUME TypeOK, ActivationCounted, UNCHANGED <<required_by, holding_acq>>,
         \A s \in Services : "start_explicit" \in flags'[s] => "start_explicit" \in flags[s]
  PROVE  ActivationCounted'
<1> SUFFICES ASSUME NEW s \in Services
             PROVE  required_by'[s] >= Cardinality(Held(s)') + Explicit(s)'
  BY DEF ActivationCounted
<1>1. Held(s)' = Held(s)  BY DEF Held
<1>2. Explicit(s) \in Int /\ Explicit(s)' \in Int /\ Explicit(s)' <= Explicit(s)  BY SMTT(60) DEF Explicit
<1>3. required_by[s] >= Cardinality(Held(s)) + Explicit(s)  BY DEF ActivationCounted
<1>4. required_by[s] \in Int /\ required_by'[s] = required_by[s]
    BY DEF TypeOK, RecordTypes
<1> QED  BY SMTT(60), <1>1, <1>2, <1>3, <1>4, HeldFinite

\* A link that takes hold of a service is counted, whether or not it held it before.
LEMMA CountHold ==
  ASSUME TypeOK, ActivationCounted, NEW l \in Links, UNCHANGED flags,
         required_by' = [required_by EXCEPT ![l.to] = @ + 1], holding_acq' = holding_acq \cup {l}
  PROVE  ActivationCounted'
<1> SUFFICES ASSUME NEW s \in Services
             PROVE  required_by'[s] >= Cardinality(Held(s)') + Explicit(s)'
  BY DEF ActivationCounted
<1>1. Explicit(s) \in Int /\ Explicit(s)' = Explicit(s)  BY SMTT(60) DEF Explicit
<1>2. required_by[s] >= Cardinality(Held(s)) + Explicit(s)  BY DEF ActivationCounted
<1>3. required_by[s] \in Int  BY DEF TypeOK, RecordTypes
<1>4. CASE s = l.to
  <2>1. Held(s)' = Held(s) \cup {l}  BY <1>4 DEF Held
  <2>2. Cardinality(Held(s) \cup {l}) \in {Cardinality(Held(s)), Cardinality(Held(s)) + 1}
    BY HeldFinite, FS_AddElement
  <2>3. required_by'[s] = required_by[s] + 1  BY <1>4 DEF TypeOK, RecordTypes
  <2> QED  BY SMTT(60), <1>1, <1>2, <1>3, <2>1, <2>2, <2>3, HeldFinite
<1>5. CASE s # l.to
  <2>1. Held(s)' = Held(s)  BY <1>5 DEF Held
  <2>2. required_by'[s] = required_by[s]  BY <1>5 DEF TypeOK, RecordTypes
  <2> QED  BY <1>1, <1>2, <2>1, <2>2
<1> QED  BY <1>4, <1>5

\* A link that held a service and lets it go was counted, and is counted no longer.
LEMMA CountDrop ==
  ASSUME TypeOK, ActivationCounted, NEW l \in holding_acq, UNCHANGED flags,
         required_by' = [required_by EXCEPT ![l.to] = @ - 1], holding_acq' = holding_acq \ {l}
  PROVE  ActivationCounted'
<1> SUFFICES ASSUME NEW s \in Services
             PROVE  required_by'[s] >= Cardinality(Held(s)') + Explicit(s)'
  BY DEF ActivationCounted
<1>1. Explicit(s) \in Int /\ Explicit(s)' = Explicit(s)  BY SMTT(60) DEF Explicit
<1>2. required_by[s] >= Cardinality(Held(s)) + Explicit(s)  BY DEF ActivationCounted
<1>3. required_by[s] \in Int  BY DEF TypeOK, RecordTypes
<1>4. CASE s = l.to
  <2>1. Held(s)' = Held(s) \ {l} /\ l \in Held(s)  BY <1>4 DEF Held
  <2>2. Cardinality(Held(s)') = Cardinality(Held(s)) - 1
    BY <2>1, HeldFinite, FS_RemoveElement
  <2>3. required_by'[s] = required_by[s] - 1  BY <1>4 DEF TypeOK, RecordTypes
  <2> QED  BY SMTT(60), <1>1, <1>2, <1>3, <2>2, <2>3, HeldFinite
<1>5. CASE s # l.to
  <2>1. Held(s)' = Held(s)  BY <1>5 DEF Held
  <2>2. required_by'[s] = required_by[s]  BY <1>5 DEF TypeOK, RecordTypes
  <2> QED  BY <1>1, <1>2, <2>1, <2>2
<1> QED  BY <1>4, <1>5

\* The explicit activation of one service changes with its count.
LEMMA CountExplicit ==
  ASSUME TypeOK, ActivationCounted, NEW s \in Services, NEW n \in Int, UNCHANGED holding_acq,
         required_by' = [required_by EXCEPT ![s] = n],
         n >= required_by[s] + Explicit(s)' - Explicit(s),
         \A t \in Services \ {s} : flags'[t] = flags[t]
  PROVE  ActivationCounted'
<1> SUFFICES ASSUME NEW t \in Services
             PROVE  required_by'[t] >= Cardinality(Held(t)') + Explicit(t)'
  BY DEF ActivationCounted
<1>1. Held(t)' = Held(t)  BY DEF Held
<1>2. required_by[t] >= Cardinality(Held(t)) + Explicit(t)  BY DEF ActivationCounted
<1>3. required_by[t] \in Int /\ Explicit(t) \in Int /\ Explicit(t)' \in Int
  BY SMTT(60) DEF TypeOK, RecordTypes, Explicit
<1>4. CASE t = s
  <2>1. required_by'[t] = n  BY <1>4 DEF TypeOK, RecordTypes
  <2> QED  BY SMTT(60), <1>1, <1>2, <1>3, <1>4, <2>1, HeldFinite
<1>5. CASE t # s
  <2>1. required_by'[t] = required_by[t]  BY <1>5 DEF TypeOK, RecordTypes
  <2>2. Explicit(t)' = Explicit(t)  BY <1>5 DEF Explicit
  <2> QED  BY <1>1, <1>2, <2>1, <2>2
<1> QED  BY <1>4, <1>5

\* do_start() counts the soft dependents it attaches again; they are links to this service.
LEMMA CountReattach ==
  ASSUME TypeOK, GraphOK, ActivationCounted, DoStartInactive
  PROVE  ActivationCounted'
<1>1. Me \in Services  BY DEF DoStartInactive, At
<1>2. PICK me \in Services : me = Me  BY <1>1
<1>3. PICK R : R = SoftReattach(me)  OBVIOUS
<1>4. IsFiniteSet(R) /\ Cardinality(R) \in Nat  BY <1>3, ReattachCount
<1>5. \A l \in R : l.to = me
  <2>1. dependents[me] \in Seq({l \in Links : l.to = me})  BY DEF GraphOK
  <2>2. LinkSet(dependents[me]) \subseteq {l \in Links : l.to = me}  BY SMTT(60), <2>1 DEF LinkSet
  <2> QED  BY <1>3, <2>2 DEF SoftReattach
<1>6. /\ holding_acq' = holding_acq \cup R
      /\ required_by' = [required_by EXCEPT ![me] = @ + Cardinality(R)]
      /\ flags' = flags
  BY <1>2, <1>3 DEF DoStartInactive
<1> SUFFICES ASSUME NEW s \in Services
             PROVE  required_by'[s] >= Cardinality(Held(s)') + Explicit(s)'
  BY DEF ActivationCounted
<1>7. Explicit(s) \in Int /\ Explicit(s)' = Explicit(s)  BY SMTT(60), <1>6 DEF Explicit
<1>8. required_by[s] >= Cardinality(Held(s)) + Explicit(s)  BY DEF ActivationCounted
<1>9. required_by[s] \in Int  BY DEF TypeOK, RecordTypes
<1>10. CASE s = me
  <2>1. Held(s)' = Held(s) \cup R  BY <1>5, <1>6, <1>10 DEF Held
  <2>2. /\ IsFiniteSet(Held(s) \cup R) /\ IsFiniteSet(Held(s) \cap R)
        /\ Cardinality(Held(s) \cup R)
             = Cardinality(Held(s)) + Cardinality(R) - Cardinality(Held(s) \cap R)
    BY <1>4, HeldFinite, FS_Union, FS_Subset
  <2>3. Cardinality(Held(s) \cap R) \in Nat  BY <2>2, FS_CardinalityType
  <2>4. required_by'[s] = required_by[s] + Cardinality(R)
    BY <1>6, <1>10 DEF TypeOK, RecordTypes
  <2> QED  BY SMTT(60), <1>4, <1>7, <1>8, <1>9, <2>1, <2>2, <2>3, <2>4, HeldFinite
<1>11. CASE s # me
  <2>1. Held(s)' = Held(s)  BY <1>5, <1>6, <1>11 DEF Held
  <2>2. required_by'[s] = required_by[s]  BY <1>6, <1>11 DEF TypeOK, RecordTypes
  <2> QED  BY <1>7, <1>8, <2>1, <2>2
<1> QED  BY <1>10, <1>11

\* require() and release() of the link a loop visits
LEMMA CountLinkSteps ==
  ASSUME TypeOK, StackOK, ActivationCounted,
         \/ RequireDep \/ ReleaseDep \/ DropLink \/ Rewake \/ StartDep
  PROVE  ActivationCounted'
<1>1. stack # <<>> /\ Top.todo # <<>>
  BY DEF RequireDep, ReleaseDep, DropLink, Rewake, StartDep, AtLoop, At
<1>2. PICK l \in Links : l = Head(Top.todo)  BY <1>1, HeadLink
<1>3. UNCHANGED flags  BY DEF RequireDep, ReleaseDep, DropLink, Rewake, StartDep
<1>4. CASE RequireDep \/ Rewake \/ StartDep
  <2>1. \/ UNCHANGED <<required_by, holding_acq>>
        \/ Require(l.to) /\ holding_acq' = holding_acq \cup {l}
    BY <1>2, <1>4 DEF RequireDep, Rewake, StartDep
  <2> QED  BY <1>3, <2>1, CountKept, CountHold DEF Require
<1>5. CASE ReleaseDep
  <2>1. \/ UNCHANGED <<required_by, holding_acq>>
        \/ l \in holding_acq /\ Release(l.to, TRUE) /\ holding_acq' = holding_acq \ {l}
    BY <1>2, <1>5 DEF ReleaseDep
  <2> QED  BY <1>3, <2>1, CountKept, CountDrop DEF Release
<1>6. CASE DropLink
  <2>1. Top.op = "drop_link"  BY <1>6 DEF DropLink, AtLoop, At
  <2>2. Warranted(Top)  BY <1>1, <2>1, HurriedTop DEF Hurried, Urgent
  <2>3. l \in holding_acq  BY <1>2, <2>1, <2>2 DEF Warranted
  <2>4. Release(l.to, FALSE) /\ holding_acq' = holding_acq \ {l}  BY <1>2, <1>6
      DEF DropLink
  <2> QED  BY <1>3, <2>3, <2>4, CountDrop DEF Release
<1> QED  BY <1>4, <1>5, <1>6

\* start(), stop() and the release of an explicit activation
LEMMA CountExplicitSteps ==
  ASSUME TypeOK, StackOK, ActivationCounted, Start \/ Stop \/ DropExplicit
  PROVE  ActivationCounted'
<1>1. stack # <<>> /\ Me \in Services  BY DEF Start, Stop, DropExplicit, At
<1>2. PICK me \in Services : me = Me  BY <1>1
<1>3. UNCHANGED holding_acq  BY DEF Start, Stop, DropExplicit, linkVars
<1>4. required_by[me] \in Int  BY SMTT(60) DEF TypeOK, RecordTypes
<1>5. \A t \in Services \ {me} : flags'[t] = flags[t]
  BY <1>2 DEF Start, Stop, DropExplicit, SetFlags, TypeOK, RecordTypes
<1>6. CASE Start
  <2>1. CASE "pinned_stopped" \in flags[Me]
    BY <1>3, <1>6, <2>1, CountKept DEF Start
  <2>2. CASE "pinned_stopped" \notin flags[Me] /\ "start_explicit" \in flags[me]
    <3>1. required_by' = required_by  BY <1>2, <1>6, <2>2 DEF Start
    <3>2. \A s \in Services : "start_explicit" \in flags'[s] => "start_explicit" \in flags[s]
      BY <1>5, <2>2
    <3> QED  BY <1>3, <3>1, <3>2, CountKept
  <2>3. CASE "pinned_stopped" \notin flags[Me] /\ "start_explicit" \notin flags[me]
    <3>1. required_by' = [required_by EXCEPT ![me] = required_by[me] + 1]
      BY <1>2, <1>6, <2>3 DEF Start
    <3>2. Explicit(me) = 0 /\ Explicit(me)' \in {0, 1}  BY <2>3 DEF Explicit
    <3>3. required_by[me] + 1 >= required_by[me] + Explicit(me)' - Explicit(me)
      BY SMTT(60), <1>4, <3>2
    <3>4. required_by[me] + 1 \in Int  BY SMTT(60), <1>4
    <3> QED  BY <1>3, <1>5, <3>1, <3>3, <3>4, CountExplicit
  <2> QED  BY <2>1, <2>2, <2>3
<1>7. CASE Stop
  <2>1. PICK left : left = IF "start_explicit" \in flags[me] THEN required_by[me] - 1
                                                            ELSE required_by[me]
    OBVIOUS
  <2>2. required_by' = [required_by EXCEPT ![me] = left]  BY <1>2, <1>7, <2>1 DEF Stop
  <2>3. "start_explicit" \notin flags'[me]
    BY <1>2, <1>7 DEF Stop, SetFlags, TypeOK, RecordTypes
  <2>4. left \in Int /\ left >= required_by[me] + Explicit(me)' - Explicit(me)
    BY SMTT(60), <1>4, <2>1, <2>3 DEF Explicit
  <2> QED  BY <1>3, <1>5, <2>2, <2>4, CountExplicit
<1>8. CASE DropExplicit
  <2>1. Top.op = "drop_explicit"  BY <1>8 DEF DropExplicit, At
  <2>2. "start_explicit" \in flags[me]
    BY <1>1, <1>2, <2>1, HurriedTop DEF Hurried, Urgent, Warranted, Me
  <2>3. "start_explicit" \notin flags'[me]
    BY <1>2, <1>8 DEF DropExplicit, SetFlags, TypeOK, RecordTypes
  <2>4. required_by' = [required_by EXCEPT ![me] = required_by[me] - 1]
    BY <1>2, <1>8 DEF DropExplicit, Release
  <2>5. /\ required_by[me] - 1 \in Int
        /\ required_by[me] - 1 >= required_by[me] + Explicit(me)' - Explicit(me)
    BY SMTT(60), <1>4, <2>2, <2>3 DEF Explicit
  <2> QED  BY <1>3, <1>5, <2>4, <2>5, CountExplicit
<1> QED  BY <1>6, <1>7, <1>8

\* The commands that change the graph
LEMMA CountGraphCommands ==
  ASSUME TypeOK, ActivationCounted, NEW l \in Links, AddDep(l) \/ RemoveDep(l)
  PROVE  ActivationCounted'
<1>1. UNCHANGED flags  BY DEF AddDep, RemoveDep
<1>2. CASE AddDep(l)
  <2>1. \/ UNCHANGED <<required_by, holding_acq>>
        \/ Require(l.to) /\ holding_acq' = holding_acq \cup {l}
    BY <1>2 DEF AddDep
  <2> QED  BY <1>1, <2>1, CountKept, CountHold DEF Require
<1>3. CASE RemoveDep(l)
  <2>1. CASE l \in holding_acq
    BY <1>1, <1>3, <2>1, CountDrop DEF RemoveDep, Release
  <2>2. CASE l \notin holding_acq
    <3>1. UNCHANGED <<required_by, holding_acq>>  BY <1>3, <2>2 DEF RemoveDep
    <3> QED  BY <1>1, <3>1, CountKept
  <2> QED  BY <2>1, <2>2
<1> QED  BY <1>2, <1>3

\* No other step counts, holds or activates explicitly.
Quiet ==
  /\ UNCHANGED <<required_by, holding_acq>>
  /\ \A s \in Services : "start_explicit" \in flags'[s] => "start_explicit" \in flags[s]

\* Setting other flags activates nothing.
LEMMA QuietFlags ==
  ASSUME TypeOK, NEW s \in Services, NEW on, NEW off, "start_explicit" \notin on,
         SetFlags(s, on, off)
  PROVE  \A t \in Services : "start_explicit" \in flags'[t] => "start_explicit" \in flags[t]
BY SMTT(60) DEF SetFlags, TypeOK, RecordTypes

\* Steps of the records that leave the flags alone
LEMMA QuietSteps ==
  ASSUME \/ PropRequire \/ RequireDepsEnd \/ PropRelease \/ ReleaseDepsEnd \/ PropFailure
         \/ PropStart \/ PropStop \/ PropagationDone \/ PinDep \/ PinDptDone \/ LoopDone
         \/ DoStartPinned \/ DoStartActive \/ BringUpInternal \/ NotifyDependent \/ FailDependent
         \/ BreakSoftDependent \/ StoppedDep \/ SetStopped \/ Chain \/ DoStopPinned \/ QueueStop
         \/ StopSoftDependent \/ InterruptStart \/ StopDeferred \/ BringDownInternal
         \/ UnpinStarted
  PROVE  Quiet
<1>1. UNCHANGED <<required_by, holding_acq, flags>>
  BY DEF recordVars, linkVars, PropRequire, RequireDepsEnd, PropRelease,
      ReleaseDepsEnd,
    PropFailure, PropStart, PropStop, PropagationDone, PinDep, PinDptDone, LoopDone,
    DoStartPinned, DoStartActive, BringUpInternal, NotifyDependent, FailDependent,
    BreakSoftDependent, StoppedDep, SetStopped, Chain, DoStopPinned, QueueStop,
    StopSoftDependent, InterruptStart, StopDeferred, BringDownInternal, UnpinStarted
<1> QED  BY <1>1 DEF Quiet

\* Steps of the records that change other flags
LEMMA QuietFlagSteps ==
  ASSUME TypeOK,
         \/ PropPinDpt \/ InitiateStart \/ ExecuteTransition \/ AllDepsStarted \/ Started
         \/ FailedToStart \/ FailDependentsEnd \/ Stopped \/ ForcedStop \/ DoStop
         \/ StopHardDependent \/ BeginStopping \/ PinStart \/ Unpin \/ UnpinStopped
  PROVE  Quiet
<1> USE DEF Quiet, linkVars, When
<1>0. Me \in Services
  BY DEF PropPinDpt, InitiateStart, ExecuteTransition, AllDepsStarted,
      Started, FailedToStart,
    FailDependentsEnd, Stopped, ForcedStop, DoStop, StopHardDependent, BeginStopping, PinStart,
    Unpin, UnpinStopped, Phase, AtLoop, AtLoopEnd, At
<1>1. CASE PropPinDpt  BY <1>0, <1>1, QuietFlags DEF PropPinDpt
<1>2. CASE InitiateStart  BY <1>0, <1>2, QuietFlags DEF InitiateStart
<1>3. CASE ExecuteTransition  BY <1>0, <1>3, QuietFlags DEF ExecuteTransition
<1>4. CASE AllDepsStarted  BY <1>0, <1>4, QuietFlags DEF AllDepsStarted
<1>5. CASE Started  BY <1>0, <1>5, QuietFlags DEF Started
<1>6. CASE FailedToStart  BY <1>0, <1>6, QuietFlags DEF FailedToStart
<1>7. CASE FailDependentsEnd  BY <1>0, <1>7, QuietFlags DEF FailDependentsEnd
<1>8. CASE Stopped  BY <1>0, <1>8, QuietFlags DEF Stopped
<1>9. CASE ForcedStop  BY <1>0, <1>9, QuietFlags DEF ForcedStop
<1>10. CASE DoStop  BY <1>0, <1>10, QuietFlags DEF DoStop
<1>11. CASE StopHardDependent
  <2>1. Head(Top.todo).from \in Services
    BY <1>11, HeadLink DEF StopHardDependent, AtLoop, At
  <2> QED  BY <1>11, <2>1, QuietFlags DEF StopHardDependent
<1>12. CASE BeginStopping  BY <1>0, <1>12, QuietFlags DEF BeginStopping
<1>13. CASE PinStart  BY <1>0, <1>13, QuietFlags DEF PinStart
<1>14. CASE Unpin  BY <1>0, <1>14, QuietFlags DEF Unpin
<1>15. CASE UnpinStopped  BY <1>0, <1>15, QuietFlags DEF UnpinStopped
<1> QED
  BY <1>1, <1>2, <1>3, <1>4, <1>5, <1>6, <1>7, <1>8, <1>9, <1>10, <1>11, <1>12, <1>13,
      <1>14, <1>15

\* Processes, queues and the console
LEMMA QuietSetSteps ==
  ASSUME TypeOK, ProcStep \/ SetStep
  PROVE  Quiet
<1> USE DEF Quiet, recordVars, linkVars, When
<1>1. CASE ProcStep
  <2>1. UNCHANGED <<required_by, holding_acq>>
    BY <1>1 DEF ProcStep, ProcessOnly, BringUpProcess, BringUpRestart, BringUpFails,
        DoRestart,
      BringDownProcess, HandleExitStatus, AfterTermination
  <2>2. CASE HandleExitStatus
    <3>1. Me \in Services  BY <2>2 DEF HandleExitStatus, At
    <3>2. flags' = flags \/ SetFlags(Me, {"force_stop"}, {})  BY <2>2
        DEF HandleExitStatus
    <3> QED  BY <2>1, <3>1, <3>2, QuietFlags
  <2>3. CASE ~HandleExitStatus
    <3>1. UNCHANGED flags
      BY <1>1, <2>3 DEF ProcStep, BringUpProcess, BringUpRestart, BringUpFails,
          DoRestart,
        BringDownProcess, AfterTermination
    <3> QED  BY <2>1, <3>1
  <2> QED  BY <2>2, <2>3
<1>2. CASE PopPropQueue \/ PopStopQueue \/ QueuesProcessed \/ PullConsoleQueue
  BY <1>2 DEF PopPropQueue, PopStopQueue, QueuesProcessed, PullConsoleQueue
<1>3. CASE QueueForConsole
  <2>1. Me \in Services  BY <1>3 DEF QueueForConsole, At
  <2> QED  BY <1>3, <2>1, QuietFlags DEF QueueForConsole
<1>4. CASE AcquiredConsole
  <2>1. Me \in Services  BY <1>4 DEF AcquiredConsole, At
  <2> QED  BY <1>4, <2>1, QuietFlags DEF AcquiredConsole
<1> QED  BY <1>1, <1>2, <1>3, <1>4 DEF SetStep

\* Events and commands
LEMMA QuietEvents ==
  ASSUME TypeOK,
         \/ \E s \in Services : ServiceCommand(s) \/ ProcEvent(s)
         \/ StopAllServices \/ LogReleasesConsole \/ UNCHANGED vars
  PROVE  Quiet
<1> USE DEF Quiet, recordVars, linkVars, When
<1>1. ASSUME NEW s \in Services, ProcEvent(s) PROVE Quiet
  BY <1>1 DEF ProcEvent, ProcessOnly, ChildExit, ExecSucceeded, ExecFailed, Ready,
      NotifyClosed,
    TimerExpired, StopChildExit, StopExecStatus
<1>2. ASSUME NEW s \in Services, StartService(s) \/ WakeService(s) \/ UnpinService(s) PROVE Quiet
  BY <1>2 DEF StartService, WakeService, UnpinService, OnlyCalls
<1>3. ASSUME NEW s \in Services, StopService(s) PROVE Quiet
  BY <1>3, QuietFlags DEF StopService
<1>4. ASSUME NEW s \in Services, RestartService(s) PROVE Quiet
  BY <1>4, QuietFlags DEF RestartService
<1>5. ASSUME NEW s \in Services, ReleaseService(s) PROVE Quiet
  BY <1>5, QuietFlags DEF ReleaseService
<1>6. ASSUME NEW s \in Services, SetTrigger(s) PROVE Quiet
  BY <1>6, QuietFlags DEF SetTrigger
<1>7. CASE StopAllServices \/ LogReleasesConsole \/ UNCHANGED vars
  BY <1>7 DEF StopAllServices, LogReleasesConsole, vars
<1> QED  BY <1>1, <1>2, <1>3, <1>4, <1>5, <1>6, <1>7 DEF ServiceCommand

\* Every step keeps every held link and every explicit activation counted.
LEMMA CountStep ==
  ASSUME TypeOK, StackOK, GraphOK, ActivationCounted, [Next]_vars
  PROVE  ActivationCounted'
<1>1. CASE Quiet  BY <1>1, CountKept DEF Quiet
<1>2. CASE RecordStep
  BY <1>1, <1>2, CountLinkSteps, CountExplicitSteps, CountReattach, QuietSteps,
      QuietFlagSteps
  DEF RecordStep
<1> QED
  BY <1>1, <1>2, QuietSetSteps, QuietEvents, CountGraphCommands
      DEF Next, Step, OperatorStep

-----------------------------------------------------------------------------
(* Cycles *)

\* Some number is the least of a set of numbers.
LEMMA LeastNumber ==
  ASSUME NEW T \in SUBSET Nat, T # {}
  PROVE  \E n \in T : \A m \in T : n <= m
<1>1. PICK n \in T : \A m \in T : ~(<<m, n>> \in OpToRel(<, Nat))
  BY WFMin, NatLessThanWellFounded
<1>2. \A m \in T : ~(m < n)  BY <1>1 DEF OpToRel
<1> QED  BY SMTT(60), <1>2

\* Every number of rounds of the search is defined.
LEMMA SearchDefined ==
  ASSUME NEW s, NEW N \in Nat
  PROVE  \E f : f = [n \in 0 .. N |-> IF n = 0 THEN {s} ELSE DependsOnSet(f[n - 1])]
<1> DEFINE Is(f, k) == f = [n \in 0 .. k |-> IF n = 0 THEN {s} ELSE DependsOnSet(f[n - 1])]
           Undefined == {k \in Nat : \A f : ~Is(f, k)}
<1>1. SUFFICES ASSUME Undefined # {} PROVE FALSE
  <2>1. ASSUME N \notin Undefined PROVE \E f : Is(f, N)  BY <2>1
  <2> QED  BY <2>1
<1>2. PICK k \in Undefined : \A m \in Undefined : k <= m
  BY <1>1, LeastNumber
<1>3. CASE k = 0
  <2>1. Is([n \in 0 .. 0 |-> {s}], 0)  BY SMTT(60)
  <2> QED  BY <1>2, <1>3, <2>1
<1>4. CASE k # 0
  <2>1. k - 1 \in Nat /\ k - 1 \notin Undefined
    <3>1. k \in Nat  OBVIOUS
    <3> HIDE DEF Undefined
    <3> QED  BY SMTT(60), <1>2, <1>4, <3>1
  <2>2. PICK g : Is(g, k - 1)  BY <2>1
  <2> DEFINE f == [n \in 0 .. k |-> IF n = k THEN DependsOnSet(g[k - 1]) ELSE g[n]]
  <2>3. Is(f, k)
    <3>1. ASSUME NEW n \in 0 .. k
          PROVE  f[n] = IF n = 0 THEN {s} ELSE DependsOnSet(f[n - 1])
      <4>1. CASE n = k  BY SMTT(60), <1>4, <2>1, <4>1
      <4>2. CASE n # k
        <5>1. n \in 0 .. k - 1 /\ f[n] = g[n]  BY SMTT(60), <1>2, <4>2
        <5>2. g[n] = IF n = 0 THEN {s} ELSE DependsOnSet(g[n - 1])  BY <2>2, <5>1
        <5>3. n # 0 => f[n - 1] = g[n - 1]  BY SMTT(60), <1>2, <5>1
        <5> QED  BY <5>1, <5>2, <5>3
      <4> QED  BY <4>1, <4>2
    <3> QED  BY <3>1
  <2> QED  BY <1>2, <2>3
<1> QED  BY <1>3, <1>4

\* One round of the search adds the dependencies of what has been found.
LEMMA SearchRound ==
  ASSUME TypeOK, NEW S \in SUBSET Services
  PROVE  S \subseteq DependsOnSet(S) /\ DependsOnSet(S) \in SUBSET Services
<1>1. \A s \in S : LinkSet(depends_on[s]) \subseteq Links  BY LinkSetType
<1>2. \A l \in Links : l.to \in Services  BY LinksAssumption
<1> QED  BY <1>1, <1>2 DEF DependsOnSet

\* After as many rounds as there are services, nothing new is found: the search has found the
\* service it began with and every dependency of what it found.
LEMMA SearchComplete ==
  ASSUME TypeOK, NEW s \in Services
  PROVE  /\ Closure(s) \in SUBSET Services /\ s \in Closure(s)
         /\ DependsOnSet(Closure(s)) = Closure(s)
<1> DEFINE N == Cardinality(Services)
           Is(f) == f = [n \in 0 .. N |-> IF n = 0 THEN {s} ELSE DependsOnSet(f[n - 1])]
           reach == CHOOSE f : Is(f)
<1>1. N \in Nat  BY ServicesAssumption, FS_CardinalityType
<1>2. Closure(s) = reach[N]  BY DEF Closure
<1>3. Is(reach)
  <2>1. \E f : Is(f)  BY <1>1, SearchDefined
  <2> QED  BY <2>1
<1> HIDE DEF N
<1>4. PICK r : Is(r) /\ Closure(s) = r[N]  BY <1>2, <1>3
<1>5. r[0] = {s} /\ \A n \in 1 .. N : r[n] = DependsOnSet(r[n - 1])
  <2>1. \A n \in 0 .. N : r[n] = IF n = 0 THEN {s} ELSE DependsOnSet(r[n - 1])
    BY <1>4
  <2> HIDE DEF Is, reach
  <2> QED  BY SMTT(60), <1>1, <2>1
<1> HIDE DEF Is, reach
<1> DEFINE Good(n) == /\ r[n] \in SUBSET Services /\ s \in r[n]
                      /\ DependsOnSet(r[n]) = r[n] \/ Cardinality(r[n]) > n
           Bad == {n \in 0 .. N : ~Good(n)}
<1>6. Bad = {}
  <2>1. SUFFICES ASSUME Bad # {} PROVE FALSE
    OBVIOUS
  <2>2. Bad \in SUBSET Nat  BY SMTT(60), <1>1
  <2>3. PICK n \in Bad : \A m \in Bad : n <= m  BY <2>1, <2>2, LeastNumber
  <2>4. CASE n = 0
    <3>1. Cardinality(r[0]) = 1  BY <1>5, FS_Singleton
    <3>2. Cardinality(r[0]) > 0  BY SMTT(60), <3>1
    <3>3. Good(0)  BY <1>5, <3>2
    <3> QED  BY <2>3, <2>4, <3>3
  <2>5. CASE n # 0
    <3>1. n \in 1 .. N /\ n - 1 \in 0 .. N /\ n - 1 \notin Bad  BY SMTT(60), <1>1, <2>3, <2>5
    <3>2. Good(n - 1)  BY <3>1
    <3>3. r[n] = DependsOnSet(r[n - 1])  BY <1>5, <3>1
    <3>4. r[n - 1] \subseteq r[n] /\ r[n] \in SUBSET Services
      <4>1. PICK S : S = r[n - 1]  OBVIOUS
      <4>2. S \in SUBSET Services  BY <3>2, <4>1
      <4> QED  BY <3>3, <4>1, <4>2, SearchRound
    <3>5. CASE DependsOnSet(r[n - 1]) = r[n - 1]
      <4>1. Good(n)  BY <3>2, <3>3, <3>5
      <4> QED  BY <2>3, <4>1
    <3>6. CASE DependsOnSet(r[n - 1]) # r[n - 1]
      <4>1. IsFiniteSet(r[n])  BY <3>4, ServicesAssumption, FS_Subset
      <4>2. /\ Cardinality(r[n - 1]) <= Cardinality(r[n])
            /\ Cardinality(r[n - 1]) # Cardinality(r[n])
        BY <3>3, <3>4, <3>6, <4>1, FS_Subset
      <4>3. Cardinality(r[n - 1]) > n - 1  BY <3>2, <3>6
      <4>4. Cardinality(r[n]) \in Nat /\ Cardinality(r[n - 1]) \in Nat
        BY <3>4, <4>1, FS_CardinalityType, FS_Subset
      <4>5. Cardinality(r[n]) > n  BY SMTT(60), <1>1, <3>1, <4>2, <4>3, <4>4
      <4>6. s \in r[n]  BY <3>2, <3>4
      <4>7. Good(n)  BY <3>4, <4>5, <4>6
      <4> QED  BY <2>3, <4>7
    <3> QED  BY <3>5, <3>6
  <2> QED  BY <2>4, <2>5
<1>7. Good(N)
  <2>1. N \in 0 .. N  BY SMTT(60), <1>1
  <2> QED  BY <1>6, <2>1
<1>8. ~(Cardinality(r[N]) > N)
  <2>1. Cardinality(r[N]) <= N  BY <1>7, ServicesAssumption, FS_Subset DEF N
  <2>2. Cardinality(r[N]) \in Nat
    BY <1>7, ServicesAssumption, FS_Subset, FS_CardinalityType
  <2> QED  BY SMTT(60), <1>1, <2>1, <2>2
<1> QED  BY <1>4, <1>7, <1>8

\* A new dependency closes no cycle: the services its search found depend on none outside them.
LEMMA AddDepAcyclic ==
  ASSUME TypeOK, GraphAcyclic, NEW l \in Links, AddDep(l)
  PROVE  GraphAcyclic'
<1>1. l.from \in Services /\ l.to \in Services  BY LinksAssumption
<1>2. l.from \notin Closure(l.to)  BY DEF AddDep, MayAddDep
<1>3. PICK C : C = Closure(l.to)  OBVIOUS
<1>4. C \in SUBSET Services /\ l.to \in C /\ DependsOnSet(C) = C
  BY <1>1, <1>3, SearchComplete
<1>5. ASSUME NEW s \in Services PROVE LinkSet(depends_on'[s]) \subseteq
          IF s = l.from THEN LinkSet(depends_on[s]) \cup {l} ELSE LinkSet(depends_on[s])
  <2>1. depends_on \in [Services -> Seq(Links)]  BY DEF TypeOK, LinkTypes, LinkLists
  <2>2. depends_on' \in {depends_on, [depends_on EXCEPT ![l.from] = Append(@, l)]}
    BY DEF AddDep
  <2>3. depends_on'[s] = depends_on[s] \/ (s = l.from /\ depends_on'[s] = Append(depends_on[s], l))
    BY <1>1, <2>1, <2>2
  <2>4. LinkSet(Append(depends_on[s], l)) \subseteq LinkSet(depends_on[s]) \cup {l}
    BY SMTT(60), <2>1 DEF LinkSet
  <2> QED  BY <2>3, <2>4
<1>6. ASSUME NEW S \in (SUBSET Services) \ {{}}
      PROVE  \E s \in S : \A k \in LinkSet(depends_on'[s]) : k.to \notin S
  <2>1. CASE S \cap C = {}
    <3>1. PICK s \in S : \A k \in LinkSet(depends_on[s]) : k.to \notin S
      BY DEF GraphAcyclic, NoCycle
    <3> QED  BY <1>4, <1>5, <2>1, <3>1
  <2>2. CASE S \cap C # {}
    <3>1. PICK s \in S \cap C : \A k \in LinkSet(depends_on[s]) : k.to \notin S \cap C
      BY <2>2 DEF GraphAcyclic, NoCycle
    <3>2. \A k \in LinkSet(depends_on[s]) : k.to \in C
      BY <1>4, <3>1 DEF DependsOnSet
    <3>3. s # l.from  BY <1>2, <1>3, <3>1
    <3> QED  BY <1>5, <3>1, <3>2, <3>3
  <2> QED  BY <2>1, <2>2
<1> QED  BY <1>6 DEF GraphAcyclic, NoCycle

\* Removing a dependency leaves fewer links.
LEMMA RemoveDepAcyclic ==
  ASSUME TypeOK, GraphAcyclic, NEW l \in Links, RemoveDep(l)
  PROVE  GraphAcyclic'
<1>1. l.from \in Services  BY LinksAssumption
<1>2. ASSUME NEW s \in Services PROVE LinkSet(depends_on'[s]) \subseteq LinkSet(depends_on[s])
  <2>1. depends_on \in [Services -> Seq(Links)]  BY DEF TypeOK, LinkTypes, LinkLists
  <2>2. depends_on'[s] \in {depends_on[s], Unless(depends_on[s], l)}
    BY <1>1, <2>1 DEF RemoveDep
  <2>3. PICK q \in Seq(Links) : q = depends_on[s]  BY <2>1
  <2>4. Unless(q, l) \in Seq(LinkSet(q))
    <3>1. q \in Seq(LinkSet(q))  BY SMTT(60), <2>3 DEF LinkSet
    <3> QED  BY <3>1, UnlessType
  <2>5. LinkSet(Unless(q, l)) \subseteq LinkSet(q)
    <3>1. PICK r : r = Unless(q, l)  OBVIOUS
    <3>2. r \in Seq(LinkSet(q))  BY <2>4, <3>1
    <3>3. \A i \in DOMAIN r : r[i] \in LinkSet(q)  BY SMTT(60), <3>2
    <3> QED  BY <3>1, <3>3 DEF LinkSet
  <2> QED  BY <2>2, <2>3, <2>5
<1> QED  BY <1>2 DEF GraphAcyclic, NoCycle
=============================================================================

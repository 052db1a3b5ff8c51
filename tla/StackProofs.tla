---------------------------- MODULE StackProofs ----------------------------
(***************************************************************************)
(* Frames and stacks.  A hurried frame is a call that is executed as soon  *)
(* as it is made: it is only ever on top of the stack, and so finds things *)
(* as its caller left them.  What it relies on is its warrant:             *)
(*   drop_link, drop_explicit       the activation to be given up is held; *)
(*   pull_console, acquired_console nobody has the console;                *)
(*   all_deps_started, bring_up     the service starts and waits for no    *)
(*                                  dependency;                            *)
(*   initiate_start, and stopped_deps of a service that will restart       *)
(*                                  the service is not pinned stopped.     *)
(* Every step of the service manager leaves a stack of calm frames, with   *)
(* at most one hurried frame, on top, whose warrant holds, and leaves the  *)
(* console with one owner: one step of a lemma per action.                 *)
(***************************************************************************)
EXTENDS ServiceTypes, TLAPS

\* The leaves are for Zenon, where they do not name another prover.
USE ZenonT(60)

Urgent == {"drop_link", "drop_explicit", "pull_console", "acquired_console", "all_deps_started",
           "bring_up", "initiate_start"}
Hurried(f) == f.op \in Urgent \/ (f.op = "stopped_deps" /\ "will_restart" \in f.arg)
Calm == {f \in Frame : ~Hurried(f)}

StartReady(s) == service_state[s] = "STARTING" /\ check_deps_started(s)
Warranted(f) ==
  \/ f.op = "drop_link" /\ f.todo # <<>> /\ Head(f.todo) \in holding_acq
  \/ f.op = "drop_explicit" /\ f.svc \in Services /\ "start_explicit" \in flags[f.svc]
  \/ f.op \in {"pull_console", "acquired_console"} /\ ConsoleFree
  \/ f.op = "all_deps_started" /\ StartReady(f.svc)
  \/ /\ f.op = "bring_up" /\ StartReady(f.svc) /\ "waiting_for_deps" \notin flags[f.svc]
     /\ "starts_on_console" \in Options[f.svc] => "have_console" \in flags[f.svc]
  \/ f.op = "initiate_start" /\ "pinned_stopped" \notin flags[f.svc]
  \/ /\ f.op = "stopped_deps" /\ "will_restart" \in f.arg
     /\ "pinned_stopped" \notin flags[f.svc]
StackOK ==
  \/ stack \in Seq(Calm)
  \/ \E f \in Frame, rest \in Seq(Calm) : stack = <<f>> \o rest /\ Warranted(f)

\* The empty sequence is a sequence over any set.
LEMMA EmptySeq == ASSUME NEW S PROVE <<>> \in Seq(S)
BY SMTT(60)

\* The head and the tail of a non-empty list are an element and a list.
LEMMA HeadTail ==
  ASSUME NEW S, NEW q \in Seq(S), q # <<>>
  PROVE  Head(q) \in S /\ Tail(q) \in Seq(S)
BY SMTT(60)

\* Two lists joined are a list: calls pushed on a stack.
LEMMA Concat ==
  ASSUME NEW S, NEW q \in Seq(S), NEW r \in Seq(S)
  PROVE  q \o r \in Seq(S)
BY SMTT(60)

\* A list over a smaller set is a list over a larger one.
LEMMA SeqSubset ==
  ASSUME NEW S, NEW T, S \subseteq T
  PROVE  Seq(S) \subseteq Seq(T)
BY SMTT(60)

\* A list is a function on its positions.
LEMMA SeqFunction ==
  ASSUME NEW S, NEW q \in Seq(S)
  PROVE  Len(q) \in Nat /\ q \in [1 .. Len(q) -> S]
BY SMTT(60)

\* The parts of a list before and after one of its elements are lists: unlinking.
LEMMA SubSeqs ==
  ASSUME NEW S, NEW q \in Seq(S), NEW i \in 1 .. Len(q)
  PROVE  SubSeq(q, 1, i - 1) \in Seq(S) /\ SubSeq(q, i + 1, Len(q)) \in Seq(S)
BY SMTT(60)

\* A call with no argument, as the methods make them, is a calm frame.
LEMMA CallCalm ==
  ASSUME NEW op \in Op \ Urgent, NEW s \in Services \cup {None}
  PROVE  Call(op, s) \in Calm
BY SMTT(60) DEF Call, Frame, Calm, Hurried

\* So is a call with arguments,
LEMMA CallWithCalm ==
  ASSUME NEW op \in Op \ Urgent, op # "stopped_deps",
         NEW s \in Services \cup {None}, NEW arg \in SUBSET Arg
  PROVE  CallWith(op, s, arg) \in Calm
BY SMTT(60) DEF CallWith, Frame, Calm, Hurried

\* and a loop over a dependency list,
LEMMA LoopCalm ==
  ASSUME NEW op \in Op \ Urgent, NEW s \in Services \cup {None}, NEW todo \in Seq(Links),
         NEW arg \in SUBSET Arg, op # "stopped_deps" \/ "will_restart" \notin arg
  PROVE  Loop(op, s, todo, arg) \in Calm
BY SMTT(60) DEF Loop, Frame, Calm, Hurried

\* and a call made under a condition,
LEMMA CallIfCalm ==
  ASSUME NEW cond, NEW frame \in Calm
  PROVE  CallIf(cond, frame) \in Seq(Calm)
BY SMTT(60) DEF CallIf

\* and process_queues().
LEMMA ProcessQueuesCalm == ProcessQueues \in Seq(Calm)
BY SMTT(60), CallCalm DEF ProcessQueues, Op, Urgent

\* A stack whose top is not hurried is calm.
LEMMA CalmStack ==
  ASSUME StackOK, stack # <<>>, ~Hurried(Top)
  PROVE  stack \in Seq(Calm) /\ Top \in Calm
<1>1. ASSUME NEW f \in Frame, NEW rest \in Seq(Calm), stack = <<f>> \o rest, Warranted(f)
      PROVE  FALSE
  <2>1. Head(stack) = f  BY SMTT(60), <1>1
  <2>2. Hurried(f)  BY ZenonT(60), <1>1 DEF Warranted, Hurried, Urgent
  <2> QED  BY ZenonT(60), <2>1, <2>2 DEF Top
<1>2. stack \in Seq(Calm)  BY ZenonT(60), <1>1 DEF StackOK
<1> QED  BY SMTT(60), <1>2, HeadTail DEF Top

\* Calm calls made from a calm stack leave it calm.
LEMMA CalmReturn ==
  ASSUME Tail(stack) \in Seq(Calm), NEW calls \in Seq(Calm), Return(calls)
  PROVE  stack' \in Seq(Calm)
BY SMTT(60), Concat DEF Return

\* Calm frames are frames.
LEMMA CalmFrame == Calm \subseteq Frame /\ Seq(Calm) \subseteq Seq(Frame)
BY SMTT(60), SeqSubset DEF Calm

\* Below the top of a stack all frames are calm.
LEMMA TailCalm ==
  ASSUME StackOK, stack # <<>>
  PROVE  Tail(stack) \in Seq(Calm)
<1>1. CASE stack \in Seq(Calm)
  BY ZenonT(60), <1>1, HeadTail
<1>2. CASE \E f \in Frame, rest \in Seq(Calm) : stack = <<f>> \o rest /\ Warranted(f)
  <2>1. PICK f \in Frame, rest \in Seq(Calm) : stack = <<f>> \o rest /\ Warranted(f)
    BY ZenonT(60), <1>2
  <2>2. rest \in Seq(Frame)  BY ZenonT(60), CalmFrame
  <2>3. Tail(stack) = rest  BY SMTT(60), <2>1, <2>2
  <2> QED  BY ZenonT(60), <2>1, <2>3
<1> QED  BY ZenonT(60), <1>1, <1>2 DEF StackOK

\* A hurried call is executed with its warrant.
LEMMA HurriedTop ==
  ASSUME StackOK, stack # <<>>, Hurried(Top)
  PROVE  Warranted(Top)
<1>1. CASE stack \in Seq(Calm)
  <2>1. Head(stack) \in Calm  BY ZenonT(60), <1>1, HeadTail
  <2> QED  BY ZenonT(60), <2>1 DEF Top, Calm
<1>2. CASE \E f \in Frame, rest \in Seq(Calm) : stack = <<f>> \o rest /\ Warranted(f)
  <2>1. PICK f \in Frame, rest \in Seq(Calm) : stack = <<f>> \o rest /\ Warranted(f)
    BY ZenonT(60), <1>2
  <2>2. rest \in Seq(Frame)  BY ZenonT(60), CalmFrame
  <2>3. Head(stack) = f  BY SMTT(60), <2>1, <2>2
  <2> QED  BY ZenonT(60), <2>1, <2>3 DEF Top
<1> QED  BY ZenonT(60), <1>1, <1>2 DEF StackOK

\* slist::insert puts a service in a list of services.
LEMMA InsertType ==
  ASSUME NEW q \in Seq(Services), NEW s \in Services
  PROVE  Insert(q, s) \in Seq(Services)
BY SMTT(60) DEF Insert

\* Unlinking leaves a list of the same elements.
LEMMA UnlessType ==
  ASSUME NEW S, NEW q \in Seq(S), NEW x
  PROVE  Unless(q, x) \in Seq(S)
<1>1. CASE \E i \in DOMAIN q : q[i] = x
  <2> DEFINE i == Position(q, x)
  <2>1. i \in 1 .. Len(q)  BY SMTT(60), <1>1 DEF Position
  <2>2. SubSeq(q, 1, i - 1) \in Seq(S) /\ SubSeq(q, i + 1, Len(q)) \in Seq(S)
    BY SMTT(60), <2>1, SubSeqs
  <2> QED  BY SMTT(60), <1>1, <2>2, Concat DEF Unless
<1> QED  BY SMTT(60), <1>1 DEF Unless

-----------------------------------------------------------------------------

\* The fields of a frame on top of the stack are typed, and so is the link a loop visits.
LEMMA TopType ==
  ASSUME TypeOK, stack # <<>>
  PROVE  /\ Top.op \in Op /\ Me \in Services \cup {None}
         /\ Top.todo \in Seq(Links) /\ Top.arg \in SUBSET Arg
         /\ Top.todo # <<>> => /\ Tail(Top.todo) \in Seq(Links)
                               /\ Head(Top.todo) \in Links
                               /\ Head(Top.todo).from \in Services
                               /\ Head(Top.todo).to \in Services
<1>1. Top \in Frame  BY SMTT(60), HeadTail DEF TypeOK, Top
<1>2. /\ Top.op \in Op /\ Me \in Services \cup {None}
      /\ Top.todo \in Seq(Links) /\ Top.arg \in SUBSET Arg
  BY SMTT(60), <1>1 DEF Frame, Me
<1> QED  BY SMTT(60), <1>2, HeadTail, LinksAssumption

\* Setting and clearing prop_* bits leaves a set of prop_* bits.
LEMMA PropType ==
  ASSUME prop \in [Services -> SUBSET Prop], NEW s \in Services, NEW P \in SUBSET Prop
  PROVE  /\ [prop EXCEPT ![s] = @ \cup P] \in [Services -> SUBSET Prop]
         /\ [prop EXCEPT ![s] = @ \ P] \in [Services -> SUBSET Prop]
BY SMTT(60)

\* The variables require() and release() write
RequireOK ==
  /\ required_by \in [Services -> Int]
  /\ prop \in [Services -> SUBSET Prop]
  /\ prop_queue \in Seq(Services)
ReleaseOK ==
  /\ RequireOK
  /\ desired_state \in [Services -> {"STOPPED", "STARTED"}]
  /\ stop_reason \in [Services -> StopReason]

\* What require() writes is well typed.
LEMMA RequireType ==
  ASSUME TypeOK, NEW s \in Services, Require(s)
  PROVE  RequireOK'
<1>1. {"start"} \in SUBSET Prop  BY SMTT(60) DEF Prop
<1>2. [prop EXCEPT ![s] = @ \cup {"start"}] \in [Services -> SUBSET Prop]
  BY SMTT(60), <1>1, PropType DEF TypeOK, RecordTypes
<1>3. Insert(prop_queue, s) \in Seq(Services)  BY SMTT(60), InsertType DEF TypeOK, SetTypes
<1>4. prop' \in [Services -> SUBSET Prop] /\ prop_queue' \in Seq(Services)
  BY ZenonT(60), <1>2, <1>3 DEF Require, add_prop_queue, TypeOK, RecordTypes, SetTypes
<1>5. required_by' \in [Services -> Int]  BY SMTT(60) DEF Require, TypeOK, RecordTypes
<1> QED  BY SMTT(60), <1>4, <1>5 DEF RequireOK

\* What release() writes is well typed.
LEMMA ReleaseType ==
  ASSUME TypeOK, NEW s \in Services, NEW issue, Release(s, issue)
  PROVE  ReleaseOK'
<1>1. {"require", "release"} \in SUBSET Prop /\ {"release"} \in SUBSET Prop  BY SMTT(60) DEF Prop
<1>2. /\ [prop EXCEPT ![s] = @ \ {"require", "release"}] \in [Services -> SUBSET Prop]
      /\ [prop EXCEPT ![s] = @ \cup {"release"}] \in [Services -> SUBSET Prop]
  BY SMTT(60), <1>1, PropType DEF TypeOK, RecordTypes
<1>3. Insert(prop_queue, s) \in Seq(Services)  BY SMTT(60), InsertType DEF TypeOK, SetTypes
<1>4. prop' \in [Services -> SUBSET Prop] /\ prop_queue' \in Seq(Services)
  BY ZenonT(60), <1>2, <1>3 DEF Release, add_prop_queue, is_start_pinned, TypeOK, RecordTypes, SetTypes
<1>5. required_by' \in [Services -> Int] /\ desired_state' \in [Services -> {"STOPPED", "STARTED"}]
  BY SMTT(60) DEF Release, TypeOK, RecordTypes
<1>6. stop_reason' \in [Services -> StopReason]
  BY SMTT(60) DEF Release, StopsOnRelease, StopReason, TypeOK, RecordTypes
<1> QED  BY SMTT(60), <1>4, <1>5, <1>6 DEF RequireOK, ReleaseOK

\* One calm call is a calm list of calls,
LEMMA OneCall == ASSUME NEW f \in Calm PROVE <<f>> \in Seq(Calm)
BY SMTT(60)

\* and the calls of two lists.
LEMMA MoreCalls == ASSUME NEW s \in Seq(Calm), NEW t \in Seq(Calm) PROVE s \o t \in Seq(Calm)
BY SMTT(60), Concat

\* and so are two calls,
LEMMA TwoCalls == ASSUME NEW f \in Calm, NEW g \in Calm PROVE <<f, g>> \in Seq(Calm)
BY SMTT(60)

\* What the frame on top of a stack provides to the call it stands for.
LEMMA Running ==
  ASSUME TypeOK, StackOK, stack # <<>>, Me \in Services
  PROVE  /\ Tail(stack) \in Seq(Calm)
         /\ Me \in Services \cup {None} /\ Top.arg \in SUBSET Arg
         /\ depends_on[Me] \in Seq(Links) /\ dependents[Me] \in Seq(Links)
BY SMTT(60), TailCalm, TopType DEF TypeOK, LinkTypes, LinkLists

\* One round of a loop leaves a calm stack.
LEMMA RoundCalm ==
  ASSUME TypeOK, StackOK, stack # <<>>, Me \in Services, ~Hurried(Top),
         Top.todo # <<>>, NEW calls \in Seq(Calm), NextRound(calls)
  PROVE  stack' \in Seq(Calm)
<1>1. Loop(Top.op, Me, Tail(Top.todo), Top.arg) \in Calm
  BY ZenonT(60), TopType, LoopCalm DEF Hurried
<1> QED  BY ZenonT(60), <1>1, Running, OneCall, MoreCalls, CalmReturn DEF NextRound

\* One phase of do_propagation() leaves a calm stack.
LEMMA PropagateCalm ==
  ASSUME TypeOK, StackOK, stack # <<>>, Me \in Services,
         NEW p \in Prop, NEW frame \in Calm, Propagate(p, <<frame>>)
  PROVE  stack' \in Seq(Calm)
<1> DEFINE later == {q \in Prop : Rank[q] > Rank[p]}
<1>1. later \in SUBSET Arg  BY SMTT(60) DEF Arg
<1>2. CallWith("do_propagation", Me, later) \in Calm
  BY SMTT(60), <1>1, CallWithCalm DEF Op, Urgent
<1> QED  BY ZenonT(60), <1>2, Running, OneCall, MoreCalls, CalmReturn DEF Propagate

-----------------------------------------------------------------------------
(* Values and links *)

DataOK == RecordTypes /\ LinkTypes /\ SetTypes /\ ps \in [Services -> SUBSET PsField]

\* Each link is in the lists of the services it joins, and in no other.
GraphOK ==
  \A s \in Services : /\ depends_on[s] \in Seq({l \in Links : l.from = s})
                      /\ dependents[s] \in Seq({l \in Links : l.to = s})

\* The link a loop visits and the services it joins
LEMMA HeadLink ==
  ASSUME TypeOK, stack # <<>>, Top.todo # <<>>
  PROVE  /\ Head(Top.todo) \in Links
         /\ Head(Top.todo).from \in Services
         /\ Head(Top.todo).to \in Services
<1>1. Top \in Frame  BY SMTT(60), HeadTail DEF TypeOK, Top
<1>2. Top.todo \in Seq(Links)  BY SMTT(60), <1>1 DEF Frame
<1> QED  BY SMTT(60), <1>2, HeadTail, LinksAssumption

\* The links of the dependency lists are links.
LEMMA LinkSetType ==
  ASSUME TypeOK, NEW s \in Services
  PROVE  LinkSet(depends_on[s]) \subseteq Links /\ LinkSet(dependents[s]) \subseteq Links
<1>1. depends_on[s] \in Seq(Links) /\ dependents[s] \in Seq(Links)
  BY SMTT(60) DEF TypeOK, LinkTypes, LinkLists
<1> QED  BY SMTT(60), <1>1 DEF LinkSet

-----------------------------------------------------------------------------
(* Calls that push only calm frames *)

\* Propagation of requests and pins.
LEMMA PropagationCalls ==
  ASSUME TypeOK, StackOK,
         \/ PropRequire \/ RequireDep \/ RequireDepsEnd \/ PropRelease \/ ReleaseDep
         \/ ReleaseDepsEnd \/ PropFailure \/ PropStart \/ PropStop \/ PropPinDpt
         \/ PropagationDone \/ PinDep \/ PinDptDone \/ LoopDone
  PROVE  stack' \in Seq(Calm)
<1>1. CASE PropRequire
  <2>1. stack # <<>> /\ Me \in Services
    BY <1>1 DEF PropRequire, Phase, At
  <2> QED
    BY <1>1, <2>1, Running, LoopCalm, PropagateCalm
    DEF PropRequire, Arg, Prop, Op, Urgent
<1>2. CASE RequireDep
  <2>1. stack # <<>> /\ Me \in Services /\ ~Hurried(Top) /\ Top.todo # <<>>
    BY <1>2 DEF RequireDep, AtLoop, At, Hurried, Urgent
  <2> QED
    BY <1>2, <2>1, Running, RoundCalm, EmptySeq
    DEF RequireDep, Op, Urgent
<1>3. CASE RequireDepsEnd
  <2>1. stack # <<>> /\ Me \in Services
    BY <1>3 DEF RequireDepsEnd, AtLoopEnd, At
  <2> QED
    BY <1>3, <2>1, Running, CalmReturn, EmptySeq
    DEF RequireDepsEnd, Op, Urgent
<1>4. CASE PropRelease
  <2>1. stack # <<>> /\ Me \in Services
    BY <1>4 DEF PropRelease, Phase, At
  <2> QED
    BY <1>4, <2>1, Running, LoopCalm, PropagateCalm
    DEF PropRelease, Arg, Prop, Op, Urgent
<1>5. CASE ReleaseDep
  <2>1. stack # <<>> /\ Me \in Services /\ ~Hurried(Top) /\ Top.todo # <<>>
    BY <1>5 DEF ReleaseDep, AtLoop, At, Hurried, Urgent
  <2> QED
    BY <1>5, <2>1, Running, CallIfCalm, CallCalm, RoundCalm, EmptySeq, TopType
    DEF ReleaseDep, ReleaseCalls, Op, Urgent
<1>6. CASE ReleaseDepsEnd
  <2>1. stack # <<>> /\ Me \in Services
    BY <1>6 DEF ReleaseDepsEnd, AtLoopEnd, At
  <2> QED
    BY <1>6, <2>1, Running, CalmReturn, EmptySeq
    DEF ReleaseDepsEnd, Op, Urgent
<1>7. CASE PropFailure
  <2>1. stack # <<>> /\ Me \in Services
    BY <1>7 DEF PropFailure, Phase, At
  <2> QED
    BY <1>7, <2>1, Running, CallWithCalm, PropagateCalm
    DEF PropFailure, Arg, Prop, Op, Urgent
<1>8. CASE PropStart
  <2>1. stack # <<>> /\ Me \in Services
    BY <1>8 DEF PropStart, Phase, At
  <2> QED
    BY <1>8, <2>1, Running, CallCalm, PropagateCalm
    DEF PropStart, Prop, Op, Urgent
<1>9. CASE PropStop
  <2>1. stack # <<>> /\ Me \in Services
    BY <1>9 DEF PropStop, Phase, At
  <2> QED
    BY <1>9, <2>1, Running, CallWithCalm, PropagateCalm
    DEF PropStop, Arg, Prop, When, Op, Urgent
<1>10. CASE PropPinDpt
  <2>1. stack # <<>> /\ Me \in Services
    BY <1>10 DEF PropPinDpt, Phase, At
  <2> QED
    BY <1>10, <2>1, Running, CallCalm, LoopCalm, OneCall, TwoCalls, CalmReturn, EmptySeq
    DEF PropPinDpt, Arg, When, Op, Urgent
<1>11. CASE PropagationDone
  <2>1. stack # <<>> /\ Me \in Services
    BY <1>11 DEF PropagationDone, At
  <2> QED
    BY <1>11, <2>1, Running, CalmReturn, EmptySeq
    DEF PropagationDone, Op, Urgent
<1>12. CASE PinDep
  <2>1. stack # <<>> /\ Me \in Services /\ ~Hurried(Top) /\ Top.todo # <<>>
    BY <1>12 DEF PinDep, AtLoop, At, Hurried, Urgent
  <2> QED
    BY <1>12, <2>1, Running, RoundCalm, EmptySeq
    DEF PinDep, Op, Urgent
<1>13. CASE PinDptDone
  <2>1. stack # <<>> /\ Me \in Services
    BY <1>13 DEF PinDptDone, At
  <2> QED
    BY <1>13, <2>1, Running, CallCalm, CallIfCalm, CalmReturn, EmptySeq
    DEF PinDptDone, Op, Urgent
<1>14. CASE LoopDone
  <2>1. stack # <<>> /\ Me \in Services
    BY <1>14 DEF LoopDone, AtLoopEnd, At
  <2> QED
    BY <1>14, <2>1, Running, CalmReturn, EmptySeq
    DEF LoopDone, Op, Urgent
<1> QED  BY <1>1, <1>2, <1>3, <1>4, <1>5, <1>6, <1>7, <1>8, <1>9, <1>10, <1>11, <1>12,
    <1>13,
       <1>14

\* Starting.
LEMMA StartCalls ==
  ASSUME TypeOK, StackOK,
         Start \/ DoStartPinned \/ InitiateStart \/ BringUpInternal \/ NotifyDependent
  PROVE  stack' \in Seq(Calm)
<1>1. CASE Start
  <2>1. stack # <<>> /\ Me \in Services
    BY <1>1 DEF Start, At
  <2> QED
    BY <1>1, <2>1, Running, CallCalm, OneCall, CalmReturn, EmptySeq
    DEF Start, Op, Urgent
<1>2. CASE DoStartPinned
  <2>1. stack # <<>> /\ Me \in Services
    BY <1>2 DEF DoStartPinned, At
  <2> QED
    BY <1>2, <2>1, Running, CallCalm, CallIfCalm, CalmReturn, EmptySeq
    DEF DoStartPinned, Op, Urgent
<1>3. CASE InitiateStart
  <2>1. stack # <<>> /\ Me \in Services
    BY <1>3 DEF InitiateStart, At
  <2> QED
    BY <1>3, <2>1, Running, CalmReturn, EmptySeq
    DEF InitiateStart, Op, Urgent
<1>4. CASE BringUpInternal
  <2>1. stack # <<>> /\ Me \in Services
    BY <1>4 DEF BringUpInternal, At
  <2> QED
    BY <1>4, <2>1, Running, CallCalm, CallIfCalm, CalmReturn, EmptySeq
    DEF BringUpInternal, Op, Urgent
<1>5. CASE NotifyDependent
  <2>1. stack # <<>> /\ Me \in Services /\ ~Hurried(Top) /\ Top.todo # <<>>
    BY <1>5 DEF NotifyDependent, AtLoop, At, Hurried, Urgent
  <2> QED
    BY <1>5, <2>1, Running, RoundCalm, EmptySeq
    DEF NotifyDependent, Op, Urgent
<1> QED  BY <1>1, <1>2, <1>3, <1>4, <1>5

\* Failing, stopping, pins, and links activated one at a time.
LEMMA StopCalls ==
  ASSUME TypeOK, StackOK,
         \/ FailDependentsEnd \/ Chain \/ Stop \/ ForcedStop
         \/ DoStopPinned \/ QueueStop \/ BeginStopping \/ InterruptStart
         \/ StopDeferred \/ BringDownInternal \/ PinStart \/ Unpin \/ UnpinStarted
         \/ UnpinStopped \/ Rewake \/ StartDep
  PROVE  stack' \in Seq(Calm)
<1>1. CASE FailDependentsEnd
  <2>1. stack # <<>> /\ Me \in Services
    BY <1>1 DEF FailDependentsEnd, AtLoopEnd, At
  <2> QED
    BY <1>1, <2>1, Running, CallCalm, CallIfCalm, CalmReturn, EmptySeq
    DEF FailDependentsEnd, Op, Urgent
<1>2. CASE Chain
  <2>1. stack # <<>> /\ Me \in Services
    BY <1>2 DEF Chain, At
  <2> QED
    BY <1>2, <2>1, Running, CallCalm, OneCall, CalmReturn, EmptySeq, SettingsAssumption
    DEF Chain, Op, Urgent
<1>3. CASE Stop
  <2>1. stack # <<>> /\ Me \in Services
    BY <1>3 DEF Stop, At
  <2> QED
    BY <1>3, <2>1, Running, CallCalm, CallIfCalm, CalmReturn, EmptySeq
    DEF Stop, Op, Urgent
<1>4. CASE ForcedStop
  <2>1. stack # <<>> /\ Me \in Services
    BY <1>4 DEF ForcedStop, At
  <2> QED
    BY <1>4, <2>1, Running, CalmReturn, EmptySeq
    DEF ForcedStop, When, Arg, Op, Urgent
<1>5. CASE DoStopPinned
  <2>1. stack # <<>> /\ Me \in Services
    BY <1>5 DEF DoStopPinned, At
  <2> QED
    BY <1>5, <2>1, Running, CalmReturn, EmptySeq
    DEF DoStopPinned, Op, Urgent
<1>6. CASE QueueStop
  <2>1. stack # <<>> /\ Me \in Services
    BY <1>6 DEF QueueStop, At
  <2> QED
    BY <1>6, <2>1, Running, CalmReturn, EmptySeq
    DEF QueueStop, Op, Urgent
<1>7. CASE BeginStopping
  <2>1. stack # <<>> /\ Me \in Services
    BY <1>7 DEF BeginStopping, AtLoopEnd, At
  <2> QED
    BY <1>7, <2>1, Running, CalmReturn, EmptySeq
    DEF BeginStopping, When, Arg, Op, Urgent
<1>8. CASE InterruptStart
  <2>1. stack # <<>> /\ Me \in Services
    BY <1>8 DEF InterruptStart, AtLoopEnd, At
  <2> QED
    BY <1>8, <2>1, Running, CalmReturn, EmptySeq
    DEF InterruptStart, Op, Urgent
<1>9. CASE StopDeferred
  <2>1. stack # <<>> /\ Me \in Services
    BY <1>9 DEF StopDeferred, AtLoopEnd, At
  <2> QED
    BY <1>9, <2>1, Running, CalmReturn, EmptySeq
    DEF StopDeferred, Op, Urgent
<1>10. CASE BringDownInternal
  <2>1. stack # <<>> /\ Me \in Services
    BY <1>10 DEF BringDownInternal, At
  <2> QED
    BY <1>10, <2>1, Running, CallCalm, OneCall, CalmReturn, EmptySeq
    DEF BringDownInternal, Op, Urgent
<1>11. CASE PinStart
  <2>1. stack # <<>> /\ Me \in Services
    BY <1>11 DEF PinStart, At
  <2> QED
    BY <1>11, <2>1, Running, LoopCalm, CallIfCalm, CalmReturn, EmptySeq
    DEF PinStart, Arg, Op, Urgent
<1>12. CASE Unpin
  <2>1. stack # <<>> /\ Me \in Services
    BY <1>12 DEF Unpin, At
  <2> QED
    BY <1>12, <2>1, Running, CallCalm, LoopCalm, OneCall, TwoCalls, CalmReturn, EmptySeq
    DEF Unpin, Arg, When, Op, Urgent
<1>13. CASE UnpinStarted
  <2>1. stack # <<>> /\ Me \in Services
    BY <1>13 DEF UnpinStarted, At
  <2> QED
    BY <1>13, <2>1, Running, CallCalm, ProcessQueuesCalm, OneCall, MoreCalls,
        CalmReturn, EmptySeq
    DEF UnpinStarted, Op, Urgent
<1>14. CASE UnpinStopped
  <2>1. stack # <<>> /\ Me \in Services
    BY <1>14 DEF UnpinStopped, At
  <2> QED
    BY <1>14, <2>1, Running, CalmReturn, EmptySeq
    DEF UnpinStopped, Op, Urgent
<1>15. CASE Rewake
  <2>1. stack # <<>> /\ Me \in Services /\ ~Hurried(Top) /\ Top.todo # <<>>
    BY <1>15 DEF Rewake, AtLoop, At, Hurried, Urgent
  <2> QED
    BY <1>15, <2>1, Running, RoundCalm, EmptySeq
    DEF Rewake, Op, Urgent
<1>16. CASE StartDep
  <2>1. stack # <<>> /\ Me \in Services /\ ~Hurried(Top) /\ Top.todo # <<>>
    BY <1>16 DEF StartDep, AtLoop, At, Hurried, Urgent
  <2> QED
    BY <1>16, <2>1, Running, ProcessQueuesCalm, CalmReturn, EmptySeq
    DEF StartDep, Op, Urgent
<1> QED  BY <1>1, <1>2, <1>3, <1>4, <1>5, <1>6, <1>7, <1>8, <1>9, <1>10, <1>11,
    <1>12, <1>13, <1>14, <1>15, <1>16

\* Processes.
LEMMA ProcessCalls ==
  ASSUME TypeOK, StackOK,
         BringUpProcess \/ BringUpRestart \/ BringUpFails \/ DoRestart \/ BringDownProcess
  PROVE  stack' \in Seq(Calm)
<1>1. CASE BringUpProcess
  <2>1. stack # <<>> /\ Me \in Services
    BY <1>1 DEF BringUpProcess, At
  <2> QED
    BY <1>1, <2>1, Running, CalmReturn, EmptySeq
    DEF BringUpProcess, Op, Urgent
<1>2. CASE BringUpRestart
  <2>1. stack # <<>> /\ Me \in Services
    BY <1>2 DEF BringUpRestart, At
  <2> QED
    BY <1>2, <2>1, Running, CallCalm, OneCall, CalmReturn, EmptySeq
    DEF BringUpRestart, Op, Urgent
<1>3. CASE BringUpFails
  <2>1. stack # <<>> /\ Me \in Services
    BY <1>3 DEF BringUpFails, At
  <2> QED
    BY <1>3, <2>1, Running, CallWithCalm, OneCall, CalmReturn, EmptySeq
    DEF BringUpFails, Arg, Op, Urgent
<1>4. CASE DoRestart
  <2>1. stack # <<>> /\ Me \in Services
    BY <1>4 DEF DoRestart, At
  <2> QED
    BY <1>4, <2>1, Running, CallCalm, CallWithCalm, ProcessQueuesCalm, OneCall,
        MoreCalls,
       CalmReturn, EmptySeq
    DEF DoRestart, Arg, Op, Urgent
<1>5. CASE BringDownProcess
  <2>1. stack # <<>> /\ Me \in Services
    BY <1>5 DEF BringDownProcess, At
  <2> QED
    BY <1>5, <2>1, Running, CallCalm, OneCall, CalmReturn, EmptySeq
    DEF BringDownProcess, Op, Urgent
<1> QED  BY <1>1, <1>2, <1>3, <1>4, <1>5

-----------------------------------------------------------------------------
(* Drops *)

\* A warranted call on top of calm frames is a stack as it should be.
LEMMA UrgentReturn ==
  ASSUME Tail(stack) \in Seq(Calm), NEW f \in Frame, NEW calls \in Seq(Calm),
         stack' = (<<f>> \o calls) \o Tail(stack), Warranted(f)'
  PROVE  StackOK'
<1> DEFINE rest == calls \o Tail(stack)
<1>1. PICK r \in Seq(Calm) : r = rest  BY Concat
<1>2. r \in Seq(Frame)  BY <1>1, CalmFrame
<1>3. stack' = <<f>> \o r  BY SMTT(60), <1>1, <1>2, CalmFrame
<1> QED  BY <1>1, <1>3 DEF StackOK

\* The same for a call without arguments, followed by calm calls,
LEMMA UrgentCalls ==
  ASSUME Tail(stack) \in Seq(Calm), NEW op \in Urgent, NEW s \in Services,
         NEW calls \in Seq(Calm), Return(<<Call(op, s)>> \o calls), Warranted(Call(op, s))'
  PROVE  StackOK'
<1>1. Call(op, s) \in Frame  BY SMTT(60) DEF Call, Frame, Op, Urgent
<1> QED  BY <1>1, UrgentReturn DEF Return

\* and by none.
LEMMA UrgentCall ==
  ASSUME Tail(stack) \in Seq(Calm), NEW op \in Urgent, NEW s \in Services,
         Return(<<Call(op, s)>>), Warranted(Call(op, s))'
  PROVE  StackOK'
<1>1. PICK f : f = Call(op, s)  OBVIOUS
<1>2. <<f>> \o <<>> = <<f>>  BY SMTT(60)
<1>3. Return(<<Call(op, s)>> \o <<>>)  BY <1>1, <1>2
<1> QED  BY <1>3, EmptySeq, UrgentCalls

\* A pushed drop_explicit of a service that is explicitly active is a proper drop.
LEMMA DropExplicitReturn ==
  ASSUME Tail(stack) \in Seq(Calm), NEW s \in Services, NEW arg \in SUBSET Arg,
         NEW calls \in Seq(Calm), "start_explicit" \in flags'[s],
         Return(<<CallWith("drop_explicit", s, arg)>> \o calls)
  PROVE  StackOK'
<1>1. PICK d : d = CallWith("drop_explicit", s, arg)  OBVIOUS
<1>2. d \in Frame /\ d.op = "drop_explicit" /\ d.svc = s  BY SMTT(60), <1>1 DEF CallWith, Frame, Op
<1>3. Warranted(d)'  BY <1>2 DEF Warranted
<1> QED  BY <1>1, <1>2, <1>3, UrgentReturn DEF Return

\* A pushed drop_link of a link that holds is a proper drop.
LEMMA DropLinkReturn ==
  ASSUME Tail(stack) \in Seq(Calm), NEW s \in Services, NEW l \in Links,
         NEW calls \in Seq(Calm), l \in holding_acq',
         Return(<<Loop("drop_link", s, <<l>>, {})>> \o calls)
  PROVE  StackOK'
<1>1. PICK d : d = Loop("drop_link", s, <<l>>, {})  OBVIOUS
<1>2. d \in Frame /\ d.op = "drop_link" /\ d.todo = <<l>>  BY SMTT(60), <1>1 DEF Loop, Frame, Op
<1>3. Warranted(d)'  BY SMTT(60), <1>2 DEF Warranted
<1> QED  BY <1>1, <1>2, <1>3, UrgentReturn DEF Return

\* A calm stack is as it should be.
LEMMA StillCalm == stack' \in Seq(Calm) => StackOK'
BY DEF StackOK

\* A loop over links to Me that gives up one of them.
LEMMA DropLinkRound ==
  ASSUME TypeOK, StackOK, stack # <<>>, Me \in Services, ~Hurried(Top),
         Top.todo # <<>>, UNCHANGED holding_acq,
         NextRound(CallIf(Head(Top.todo) \in holding_acq,
                          Loop("drop_link", Me, <<Head(Top.todo)>>, {})))
  PROVE  StackOK'
<1>1. CASE Head(Top.todo) \notin holding_acq
  <2>1. NextRound(<<>>)  BY <1>1 DEF CallIf
  <2> QED  BY <2>1, RoundCalm, StillCalm, EmptySeq
<1>2. CASE Head(Top.todo) \in holding_acq
  <2>1. PICK l \in Links : l = Head(Top.todo)  BY TopType
  <2>2. PICK calls \in Seq(Calm) : calls = <<Loop(Top.op, Me, Tail(Top.todo), Top.arg)>>
    BY TopType, LoopCalm, OneCall DEF Hurried
  <2>3. PICK me \in Services : me = Me  OBVIOUS
  <2>4. Return(<<Loop("drop_link", me, <<l>>, {})>> \o calls)
    BY <1>2, <2>1, <2>2, <2>3 DEF NextRound, CallIf
  <2> QED  BY <1>2, <2>1, <2>4, Running, DropLinkReturn
<1> QED  BY <1>1, <1>2

\* Failing and stopping push drops only of what is held at that time.
LEMMA DropSteps ==
  ASSUME TypeOK, StackOK,
         \/ FailedToStart \/ FailDependent \/ BreakSoftDependent \/ SetStopped \/ DoStop
         \/ StopHardDependent \/ StopSoftDependent
  PROVE  StackOK'
<1>0. stack # <<>> /\ Me \in Services
  BY DEF FailedToStart, FailDependent, BreakSoftDependent, SetStopped, DoStop,
         StopHardDependent, StopSoftDependent, AtLoop, AtLoopEnd, At
<1>1. PICK me \in Services : me = Me  BY <1>0
<1>2. Tail(stack) \in Seq(Calm)  BY <1>0, Running
<1>3. CASE FailedToStart
  <2>1. PICK calls \in Seq(Calm) : calls = <<Loop("fail_dependents", Me, dependents[Me], Top.arg)>>
    BY <1>0, Running, LoopCalm, OneCall DEF Op, Urgent
  <2>2. CASE "start_explicit" \in flags[Me]
    <3>1. Return(<<CallWith("drop_explicit", me, {})>> \o calls)
      BY <1>1, <1>3, <2>1, <2>2 DEF FailedToStart, CallIf, Call, CallWith
    <3>2. "start_explicit" \in flags'[me]
      BY <1>1, <1>3, <2>2 DEF FailedToStart, SetFlags, TypeOK, RecordTypes
    <3> QED  BY <1>2, <3>1, <3>2, DropExplicitReturn
  <2>3. CASE "start_explicit" \notin flags[Me]
    <3>1. Return(<<>> \o calls)  BY <1>3, <2>1, <2>3 DEF FailedToStart, CallIf
    <3> QED  BY <1>2, <3>1, EmptySeq, MoreCalls, CalmReturn, StillCalm
  <2> QED  BY <2>2, <2>3
<1>4. CASE FailDependent
  <2>1. ~Hurried(Top)  BY <1>4 DEF FailDependent, AtLoop, At, Hurried, Urgent
  <2> QED  BY <1>0, <1>4, <2>1, DropLinkRound DEF FailDependent, AtLoop
<1>5. CASE BreakSoftDependent
  <2>1. ~Hurried(Top)  BY <1>5 DEF BreakSoftDependent, AtLoop, At, Hurried, Urgent
  <2> QED
    BY <1>0, <1>5, <2>1, DropLinkRound, RoundCalm, StillCalm, EmptySeq
    DEF BreakSoftDependent, BreakSoft, AtLoop
<1>6. CASE SetStopped
  <2> DEFINE again == "will_restart" \in Top.arg
             explicit == "start_explicit" \in flags[Me]
  <2>1. PICK calls \in Seq(Calm) :
          calls = CallIf(ChainTo[Me] # None, CallWith("chain", Me, Top.arg))
    BY <1>0, Running, CallWithCalm, CallIfCalm DEF Op, Urgent
  <2>2. CASE ~again /\ explicit
    <3>1. Return(<<CallWith("drop_explicit", me, {})>> \o calls)
      BY SMTT(60), <1>1, <1>6, <2>1, <2>2 DEF SetStopped, CallIf, Call, CallWith
    <3>2. "start_explicit" \in flags'[me]  BY <1>1, <1>6, <2>2 DEF SetStopped
    <3> QED  BY <1>2, <3>1, <3>2, DropExplicitReturn
  <2>3. CASE again
    <3>1. "pinned_stopped" \notin flags[me]
      <4>1. Hurried(Top) /\ Top.op = "stopped_deps"
        BY <1>6, <2>3 DEF SetStopped, AtLoopEnd, At, Hurried
      <4> QED  BY SMTT(60), <1>0, <1>1, <4>1, HurriedTop DEF Warranted, Me
    <3>2. Return((<<Call("initiate_start", me)>> \o <<>>) \o calls)
      BY <1>1, <1>6, <2>1, <2>3 DEF SetStopped, CallIf
    <3>3. Return(<<Call("initiate_start", me)>> \o calls)
      BY SMTT(60), <3>2 DEF Return
    <3>4. Warranted(Call("initiate_start", me))'
      BY <1>6, <3>1 DEF SetStopped, Warranted, Call
    <3> QED  BY <1>2, <3>3, <3>4, UrgentCalls DEF Urgent
  <2>4. CASE ~again /\ ~explicit
    <3>1. Return((<<>> \o <<>>) \o calls)
      BY <1>6, <2>1, <2>4 DEF SetStopped, CallIf
    <3> QED  BY <1>2, <3>1, MoreCalls, EmptySeq, CalmReturn, StillCalm
  <2> QED  BY <2>2, <2>3, <2>4
<1>7. CASE DoStop
  <2>1. PICK again \in BOOLEAN, arg \in SUBSET Arg :
          /\ Return(CallIf(~again /\ "start_explicit" \in flags[Me], Call("drop_explicit", Me))
                    \o <<Loop("stop_dependents", Me, dependents[Me], arg)>>)
          /\ "start_explicit" \in flags[Me] => "start_explicit" \in flags'[Me]
    <3> USE DEF TypeOK, RecordTypes
    <3> DEFINE with == "with_restart" \in Top.arg
    <3>1. PICK ok \in BOOLEAN :
            /\ SetFlags(Me, When(ok, "in_auto_restart"), {"in_auto_restart", "in_user_restart"})
            /\ Return(CallIf(~(with \/ ok) /\ "start_explicit" \in flags[Me],
                             Call("drop_explicit", Me))
                      \o <<Loop("stop_dependents", Me, dependents[Me],
                                When(with \/ ok, "for_restart") \cup When(with, "with_restart")
                                \cup {"all_stopped"})>>)
      BY <1>7 DEF DoStop, RestartVerdicts
    <3>2. When(with \/ ok, "for_restart") \cup When(with, "with_restart")
            \cup {"all_stopped"} \in SUBSET Arg
      BY DEF When, Arg
    <3>3. "start_explicit" \in flags[Me] => "start_explicit" \in flags'[Me]
      BY <1>0, <3>1 DEF SetFlags
    <3> QED  BY <3>1, <3>2, <3>3
  <2>2. PICK calls \in Seq(Calm) : calls = <<Loop("stop_dependents", Me, dependents[Me], arg)>>
    BY <1>0, Running, LoopCalm, OneCall DEF Op, Urgent
  <2>3. CASE ~again /\ "start_explicit" \in flags[Me]
    <3>1. Return(<<CallWith("drop_explicit", me, {})>> \o calls)
      BY <1>1, <2>1, <2>2, <2>3 DEF CallIf, Call, CallWith
    <3>2. "start_explicit" \in flags'[me]
      BY <1>1, <2>1, <2>3 DEF At
    <3> QED  BY <1>2, <3>1, <3>2, DropExplicitReturn
  <2>4. CASE ~(~again /\ "start_explicit" \in flags[Me])
    <3>1. Return(<<>> \o calls)  BY <2>1, <2>2, <2>4 DEF CallIf
    <3> QED  BY <1>2, <3>1, EmptySeq, MoreCalls, CalmReturn, StillCalm
  <2> QED  BY <2>3, <2>4
<1>8. CASE StopHardDependent
  <2>1. PICK d \in Services : d = Head(Top.todo).from
    BY <1>0, <1>8, TopType DEF StopHardDependent, AtLoop
  <2>2. PICK explicit \in BOOLEAN, arg \in SUBSET Arg :
          /\ explicit => "start_explicit" \in flags[d]
          /\ Return((IF explicit THEN <<CallWith("drop_explicit", d, {"issue_stop"}),
                                        Call("queue_stop", d)>> ELSE <<>>)
                    \o <<Loop("stop_dependents", Me, Tail(Top.todo), arg)>>)
    <3>1. Top.arg \in SUBSET Arg /\ Top.arg \ {"all_stopped"} \in SUBSET Arg  BY <1>0,
        Running
    <3> DEFINE explicit == /\ service_state[d] # "STOPPED" /\ desired_state[Me] = "STOPPED"
                           /\ "force_stop" \notin flags[Me] /\ desired_state[d] # "STOPPED"
                           /\ "start_explicit" \in flags[d]
               arg == IF is_fundamentally_stopped(d) THEN Top.arg ELSE Top.arg \ {"all_stopped"}
    <3>2. explicit \in BOOLEAN /\ arg \in SUBSET Arg  BY <3>1
    <3>3. Return((IF explicit THEN <<CallWith("drop_explicit", d, {"issue_stop"}),
                                     Call("queue_stop", d)>> ELSE <<>>)
                 \o <<Loop("stop_dependents", Me, Tail(Top.todo), arg)>>)
      BY <1>8, <2>1 DEF StopHardDependent
    <3> QED  BY <3>2, <3>3
  <2>3. PICK loop \in Seq(Calm) : loop = <<Loop("stop_dependents", Me, Tail(Top.todo), arg)>>
    <3>1. Tail(Top.todo) \in Seq(Links)  BY <1>0, <1>8, TopType
        DEF StopHardDependent, AtLoop
    <3> QED  BY <1>0, <3>1, Running, LoopCalm, OneCall DEF Op, Urgent
  <2>4. flags[d] \subseteq flags'[d]
    BY <1>8, <2>1 DEF StopHardDependent, SetFlags, TypeOK, RecordTypes
  <2>5. CASE explicit
    <3>1. PICK calls \in Seq(Calm) : calls = <<Call("queue_stop", d)>> \o loop
      BY <2>3, CallCalm, OneCall, MoreCalls DEF Op, Urgent
    <3>2. PICK f : f = CallWith("drop_explicit", d, {"issue_stop"})  OBVIOUS
    <3>3. Return(<<f, Call("queue_stop", d)>> \o loop)  BY <2>2, <2>3, <2>5, <3>2
    <3>4. <<f, Call("queue_stop", d)>> \o loop = <<f>> \o calls
      BY SMTT(60), <3>1, <2>3, CalmFrame
    <3>5. Return(<<CallWith("drop_explicit", d, {"issue_stop"})>> \o calls)  BY <3>2,
        <3>3, <3>4
    <3>6. {"issue_stop"} \in SUBSET Arg  BY DEF Arg
    <3> QED  BY <1>2, <2>2, <2>4, <2>5, <3>5, <3>6, DropExplicitReturn
  <2>6. CASE ~explicit
    <3>1. Return(<<>> \o loop)  BY <2>2, <2>3, <2>6
    <3> QED  BY <1>2, <3>1, EmptySeq, MoreCalls, CalmReturn, StillCalm
  <2> QED  BY <2>5, <2>6
<1>9. CASE StopSoftDependent
  <2>1. ~Hurried(Top)  BY <1>9 DEF StopSoftDependent, AtLoop, At, Hurried, Urgent
  <2> QED
    BY <1>0, <1>9, <2>1, DropLinkRound, RoundCalm, StillCalm, EmptySeq
    DEF StopSoftDependent, BreakSoft, AtLoop
<1> QED  BY <1>3, <1>4, <1>5, <1>6, <1>7, <1>8, <1>9

-----------------------------------------------------------------------------
(* Starts and the console *)

\* A start is initiated only of a service that is not pinned stopped.
LEMMA StartSteps ==
  ASSUME TypeOK, StackOK,
         DoStartActive \/ DoStartInactive \/ HandleExitStatus \/ AfterTermination
  PROVE  StackOK'
<1>0. stack # <<>> /\ Me \in Services
  BY DEF DoStartActive, DoStartInactive, HandleExitStatus, AfterTermination, At
<1>1. PICK me \in Services : me = Me  BY <1>0
<1>2. Tail(stack) \in Seq(Calm)  BY <1>0, TailCalm
<1>3. "pinned_stopped" \notin flags[me] /\ UNCHANGED flags => Warranted(Call("initiate_start", me))'
  BY DEF Warranted, Call
<1>4. ASSUME NEW cond \in BOOLEAN, cond => "pinned_stopped" \notin flags[me] /\ UNCHANGED flags,
             NEW calls \in Seq(Calm), Return(CallIf(cond, Call("initiate_start", me)) \o calls)
      PROVE  StackOK'
  <2>1. CASE cond
    <3>1. Return(<<Call("initiate_start", me)>> \o calls)  BY <1>4, <2>1 DEF CallIf
    <3> QED  BY <1>2, <1>3, <1>4, <2>1, <3>1, UrgentCalls DEF Urgent
  <2>2. CASE ~cond
    <3>1. Return(<<>> \o calls)  BY <1>4, <2>2 DEF CallIf
    <3> QED  BY <1>2, <3>1, EmptySeq, MoreCalls, CalmReturn, StillCalm
  <2> QED  BY <2>1, <2>2
<1>5. CASE DoStartActive
  <2>1. CASE service_state[Me] = "STOPPING" /\ can_interrupt_stop(Me)
    <3>1. Return(<<Call("initiate_start", me)>>)
      BY <1>1, <1>5, <2>1 DEF DoStartActive, CallIf
    <3>2. Warranted(Call("initiate_start", me))'  BY <1>1, <1>3, <1>5 DEF DoStartActive
    <3> QED  BY <1>2, <3>1, <3>2, UrgentCall DEF Urgent
  <2>2. CASE ~(service_state[Me] = "STOPPING" /\ can_interrupt_stop(Me))
    <3>1. Return(<<>>)  BY <1>5, <2>2 DEF DoStartActive, CallIf
    <3> QED  BY <1>2, <3>1, EmptySeq, CalmReturn, StillCalm
  <2> QED  BY <2>1, <2>2
<1>6. CASE DoStartInactive
  <2>1. Warranted(Call("initiate_start", me))'  BY <1>1, <1>3, <1>6 DEF DoStartInactive
  <2>2. Return(<<Call("initiate_start", me)>>)  BY <1>1, <1>6 DEF DoStartInactive
  <2> QED  BY <1>2, <2>1, <2>2, UrgentCall DEF Urgent
<1>7. CASE HandleExitStatus
  <2> DEFINE again == desired_state[Me] = "STARTED" /\ "pinned_stopped" \notin flags[Me]
             finish == {"stop_pid", "execstat"} \cap ps[Me] = {}
  <2>1. \/ Return(<<Call("do_stop", Me)>> \o ProcessQueues
                  \o <<Call("after_termination", Me)>> \o ProcessQueues)
        \/ Return(<<CallWith("failed_to_start", Me, {"immediate"})>> \o ProcessQueues)
        \/ Return(CallIf(finish, Call("stopped", Me)) \o ProcessQueues)
        \/ UNCHANGED flags /\ Return(CallIf(again, Call("initiate_start", me)) \o ProcessQueues)
        \/ Return(<<Call("do_restart", Me)>>)
        \/ Return(<<>>)
    BY <1>1, <1>7 DEF HandleExitStatus
  <2>2. CASE UNCHANGED flags /\ Return(CallIf(again, Call("initiate_start", me)) \o ProcessQueues)
    BY <1>1, <1>4, <2>2, ProcessQueuesCalm
  <2>3. CASE Return(CallIf(finish, Call("stopped", Me)) \o ProcessQueues)
    BY <1>0, <1>2, <2>3, CallCalm, CallIfCalm, ProcessQueuesCalm, MoreCalls, CalmReturn,
       StillCalm DEF Op, Urgent
  <2>4. CASE Return(<<Call("do_stop", Me)>> \o ProcessQueues
                    \o <<Call("after_termination", Me)>> \o ProcessQueues)
    BY <1>0, <1>2, <2>4, CallCalm, ProcessQueuesCalm, OneCall, MoreCalls, CalmReturn,
       StillCalm DEF Op, Urgent
  <2>5. CASE Return(<<CallWith("failed_to_start", Me, {"immediate"})>> \o ProcessQueues)
    BY <1>0, <1>2, <2>5, CallWithCalm, ProcessQueuesCalm, OneCall, MoreCalls, CalmReturn,
       StillCalm DEF Op, Urgent, Arg
  <2>6. CASE Return(<<Call("do_restart", Me)>>) \/ Return(<<>>)
    BY <1>0, <1>2, <2>6, CallCalm, OneCall, EmptySeq, CalmReturn, StillCalm DEF Op, Urgent
  <2> QED  BY <2>1, <2>2, <2>3, <2>4, <2>5, <2>6
<1>8. CASE AfterTermination
  <2>1. \/ /\ Return(<<Call("initiate_start", me)>> \o ProcessQueues)
           /\ "pinned_stopped" \notin flags[me] /\ UNCHANGED flags
        \/ Return(<<>>)
    BY <1>1, <1>8 DEF AfterTermination
  <2> QED  BY <1>2, <1>3, <2>1, ProcessQueuesCalm, EmptySeq, UrgentCalls, CalmReturn,
              StillCalm DEF Urgent
<1> QED  BY <1>5, <1>6, <1>7, <1>8

\* all_deps_started() and bring_up() are called for a service that starts and waits for nothing.
LEMMA TransitionSteps ==
  ASSUME TypeOK, StackOK, ExecuteTransition \/ AllDepsStarted
  PROVE  StackOK'
<1>0. stack # <<>> /\ Me \in Services  BY DEF ExecuteTransition, AllDepsStarted, At
<1>1. PICK me \in Services : me = Me  BY <1>0
<1>2. Tail(stack) \in Seq(Calm)  BY <1>0, TailCalm
<1>3. CASE ExecuteTransition
  <2> DEFINE up == service_state[Me] = "STARTING" /\ check_deps_started(Me)
             down == service_state[Me] = "STOPPING" /\ stop_check_dependents(Me)
  <2>1. Return(CallIf(up, Call("all_deps_started", Me)) \o CallIf(down, Call("bring_down", Me)))
    BY <1>3 DEF ExecuteTransition
  <2>2. PICK calls \in Seq(Calm) : calls = CallIf(down, Call("bring_down", Me))
    <3>1. Call("bring_down", Me) \in Calm  BY <1>0, CallCalm DEF Op, Urgent
    <3>2. CallIf(down, Call("bring_down", Me)) \in Seq(Calm)  BY <3>1, CallIfCalm
    <3> QED  BY <3>2
  <2>3. CASE up
    <3>1. Return(<<Call("all_deps_started", me)>> \o calls)
      BY <1>1, <2>1, <2>2, <2>3 DEF CallIf
    <3>2. UNCHANGED <<service_state, depends_on, waiting_on>>
      BY <1>3 DEF ExecuteTransition, Local, NoProcess, linkVars
    <3>3. Warranted(Call("all_deps_started", me))'
      BY <1>1, <2>3, <3>2 DEF Warranted, Call, StartReady, check_deps_started
    <3> QED  BY <1>2, <3>1, <3>3, UrgentCalls DEF Urgent
  <2>4. CASE ~up
    <3>1. Return(<<>> \o calls)  BY <2>1, <2>2, <2>4 DEF CallIf
    <3> QED  BY <1>2, <3>1, EmptySeq, MoreCalls, CalmReturn, StillCalm
  <2> QED  BY <2>3, <2>4
<1>4. CASE AllDepsStarted
  <2>1. Warranted(Top) /\ Top.op = "all_deps_started"
    BY <1>0, <1>4, HurriedTop DEF AllDepsStarted, At, Hurried, Urgent
  <2>2. StartReady(me)  BY SMTT(60), <1>1, <2>1 DEF Warranted, Me
  <2>3. UNCHANGED <<service_state, depends_on, waiting_on>>
    BY <1>4 DEF AllDepsStarted, Local, NoProcess, linkVars
  <2>4. StartReady(me)'  BY <2>2, <2>3 DEF StartReady, check_deps_started
  <2>5. flags'[me] = flags[me] \ {"waiting_for_deps"}
    BY SMTT(60), <1>1, <1>4 DEF AllDepsStarted, SetFlags, TypeOK, RecordTypes
  <2>6. "starts_on_console" \in Options[me] => "have_console" \in flags'[me]
    BY <1>1, <1>4, <2>5 DEF AllDepsStarted
  <2>7. Warranted(Call("bring_up", me))'
    BY <2>4, <2>5, <2>6 DEF Warranted, Call
  <2>8. Return(<<Call("bring_up", me)>>)  BY <1>1, <1>4 DEF AllDepsStarted
  <2> QED  BY <1>2, <2>7, <2>8, UrgentCall DEF Urgent
<1> QED  BY <1>3, <1>4

\* The service that has the console and gives it up leaves it to nobody.
LEMMA ConsoleGivenUp ==
  ASSUME TypeOK, ConsoleOwned, NEW s \in Services, "have_console" \in flags[s],
         SetFlags(s, {}, {"have_console"}), UNCHANGED console_log
  PROVE  ConsoleFree'
<1>1. console_log' = "released"  BY DEF ConsoleOwned
<1>2. ASSUME NEW t \in Services PROVE "have_console" \notin flags'[t]
  <2>1. CASE t = s
    BY SMTT(60), <2>1 DEF SetFlags, TypeOK, RecordTypes
  <2>2. CASE t # s
    <3>1. flags'[t] = flags[t]  BY <2>2 DEF SetFlags, TypeOK, RecordTypes
    <3> QED  BY <2>2, <3>1 DEF ConsoleOwned
  <2> QED  BY <2>1, <2>2
<1> QED  BY <1>1, <1>2 DEF ConsoleFree

\* A free console is handed on, or taken by a service that starts and waits for nothing; a
\* service that restarts is told so only if it is not pinned stopped.
LEMMA ConsoleSteps ==
  ASSUME TypeOK, StackOK, ConsoleOwned,
         Started \/ Stopped \/ QueueForConsole \/ PullConsoleQueue \/ AcquiredConsole
  PROVE  StackOK'
<1>0. stack # <<>> /\ Me \in Services
  BY DEF Started, Stopped, QueueForConsole, PullConsoleQueue, AcquiredConsole, At
<1>1. PICK me \in Services : me = Me  BY <1>0
<1>2. Tail(stack) \in Seq(Calm)  BY <1>0, TailCalm
<1>3. ASSUME NEW op \in {"pull_console", "acquired_console"}, NEW s \in Services, ConsoleFree'
      PROVE  Warranted(Call(op, s))'
  BY <1>3 DEF Warranted, Call
<1>4. CASE Started
  <2>1. CASE "have_console" \in flags[Me] /\ "runs_on_console" \notin Options[Me]
    <3>1. SetFlags(me, {}, {"have_console"}) /\ UNCHANGED console_log
      BY <1>1, <1>4, <2>1 DEF Started, Local, consoleVars
    <3>2. PICK calls \in Seq(Calm) : calls = <<Call("started", me)>>
      BY CallCalm, OneCall DEF Op, Urgent
    <3>3. PICK f : f = Call("pull_console", me)  OBVIOUS
    <3>4. Return(<<f, Call("started", me)>>)  BY <1>1, <1>4, <2>1, <3>3 DEF Started
    <3>5. <<f, Call("started", me)>> = <<f>> \o calls  BY SMTT(60), <3>2
    <3>6. Return(<<Call("pull_console", me)>> \o calls)  BY <3>3, <3>4, <3>5
    <3>7. Warranted(Call("pull_console", me))'
      BY <1>1, <1>3, <2>1, <3>1, ConsoleGivenUp
    <3> QED  BY <1>2, <3>6, <3>7, UrgentCalls DEF Urgent
  <2>2. CASE ~("have_console" \in flags[Me] /\ "runs_on_console" \notin Options[Me])
    BY <1>0, <1>2, <1>4, <2>2, Running, CallCalm, LoopCalm, OneCall, CalmReturn, StillCalm
    DEF Started, Arg, Op, Urgent
  <2> QED  BY <2>1, <2>2
<1>5. CASE Stopped
  <2>1. CASE "have_console" \in flags[Me]
    <3>1. SetFlags(me, {}, {"have_console"}) /\ UNCHANGED console_log
      BY <1>1, <1>5, <2>1 DEF Stopped, Local, consoleVars
    <3>2. PICK calls \in Seq(Calm) : calls = <<Call("stopped", me)>>
      BY CallCalm, OneCall DEF Op, Urgent
    <3>3. PICK f : f = Call("pull_console", me)  OBVIOUS
    <3>4. Return(<<f, Call("stopped", me)>>)  BY <1>1, <1>5, <2>1, <3>3 DEF Stopped
    <3>5. <<f, Call("stopped", me)>> = <<f>> \o calls  BY SMTT(60), <3>2
    <3>6. Return(<<Call("pull_console", me)>> \o calls)  BY <3>3, <3>4, <3>5
    <3>7. Warranted(Call("pull_console", me))'
      BY <1>1, <1>3, <2>1, <3>1, ConsoleGivenUp
    <3> QED  BY <1>2, <3>6, <3>7, UrgentCalls DEF Urgent
  <2>2. CASE "have_console" \notin flags[Me]
    <3> DEFINE again == desired_state[Me] = "STARTED" /\ "pinned_stopped" \notin flags[Me]
               loop == Loop("stopped_deps", Me, depends_on[Me], When(again, "will_restart"))
    <3>1. Return(CallIf(~again, Loop("break_soft", Me, dependents[Me], {})) \o <<loop>>)
      BY <1>5, <2>2 DEF Stopped
    <3>2. flags'[me] = flags[me] \ {"force_stop"}
      BY SMTT(60), <1>1, <1>5, <2>2 DEF Stopped, SetFlags, TypeOK, RecordTypes
    <3>3. depends_on[Me] \in Seq(Links) /\ dependents[Me] \in Seq(Links)
      BY <1>0, Running
    <3>4. CASE again
      <4>1. PICK f : f = Loop("stopped_deps", me, depends_on[Me], {"will_restart"})  OBVIOUS
      <4>2. f \in Frame  BY SMTT(60), <3>3, <4>1 DEF Loop, Frame, Op, Arg
      <4>3. Warranted(f)'
        <5>1. f.op = "stopped_deps" /\ "will_restart" \in f.arg /\ f.svc = me  BY <4>1 DEF Loop
        <5>2. "pinned_stopped" \notin flags'[me]  BY <1>1, <3>2, <3>4
        <5> QED  BY <5>1, <5>2 DEF Warranted
      <4>4. Return(<<>> \o <<f>>)  BY <1>1, <3>1, <3>4, <4>1 DEF CallIf, When
      <4>5. <<>> \o <<f>> = <<f>> \o <<>>  BY SMTT(60)
      <4>6. Return(<<f>> \o <<>>)  BY <4>4, <4>5
      <4> QED  BY <1>2, <4>2, <4>3, <4>6, EmptySeq, UrgentReturn DEF Return
    <3>5. CASE ~again
      <4>1. Return(<<Loop("break_soft", Me, dependents[Me], {})>>
                   \o <<Loop("stopped_deps", Me, depends_on[Me], {})>>)
        BY <3>1, <3>5 DEF CallIf, When
      <4> QED  BY <1>0, <1>2, <3>3, <4>1, LoopCalm, OneCall, MoreCalls, CalmReturn,
                  StillCalm DEF Op, Urgent
    <3> QED  BY <3>4, <3>5
  <2> QED  BY <2>1, <2>2
<1>6. CASE QueueForConsole
  <2>1. CASE Return(<<>>)
    BY <1>2, <2>1, EmptySeq, CalmReturn, StillCalm
  <2>2. CASE console_log = "active" /\ console_log' = "released" /\ Return(<<Call("acquired_console", Me)>>)
    <3>1. ASSUME NEW s \in Services PROVE "have_console" \notin flags'[s]
      <4>1. "have_console" \notin flags[s]  BY SMTT(60), <2>2 DEF ConsoleOwned
      <4> QED  BY SMTT(60), <1>6, <4>1 DEF QueueForConsole, SetFlags, TypeOK, RecordTypes
    <3>2. ConsoleFree'  BY <2>2, <3>1 DEF ConsoleFree
    <3> QED  BY <1>1, <1>2, <1>3, <2>2, <3>2, UrgentCall DEF Urgent
  <2> QED  BY <1>6, <2>1, <2>2 DEF QueueForConsole
<1>7. CASE PullConsoleQueue
  <2>1. CASE Return(<<>>)
    BY <1>2, <2>1, EmptySeq, CalmReturn, StillCalm
  <2>2. CASE console_queue # <<>>
    <3>1. PICK h \in Services : h = Head(console_queue)
      BY <2>2, HeadTail DEF TypeOK, SetTypes
    <3>2. Warranted(Top) /\ Top.op = "pull_console"
      BY <1>0, <1>7, HurriedTop DEF PullConsoleQueue, At, Hurried, Urgent
    <3>3. ConsoleFree  BY SMTT(60), <3>2 DEF Warranted
    <3>4. UNCHANGED <<flags, console_log>>
      BY <1>7, <2>2 DEF PullConsoleQueue, recordVars
    <3>5. ConsoleFree'  BY <3>3, <3>4 DEF ConsoleFree
    <3>6. Return(<<Call("acquired_console", h)>>)  BY <1>7, <2>2, <3>1 DEF PullConsoleQueue
    <3> QED  BY <1>2, <1>3, <3>5, <3>6, UrgentCall DEF Urgent
  <2> QED  BY <1>7, <2>1, <2>2 DEF PullConsoleQueue
<1>8. CASE AcquiredConsole
  <2>1. Warranted(Top) /\ Top.op = "acquired_console"
    BY <1>0, <1>8, HurriedTop DEF AcquiredConsole, At, Hurried, Urgent
  <2>2. ConsoleFree  BY SMTT(60), <2>1 DEF Warranted
  <2>3. UNCHANGED <<service_state, depends_on, waiting_on, console_log>>
    BY <1>8 DEF AcquiredConsole, Local, NoProcess, linkVars, consoleVars
  <2>4. CASE StartReady(Me)
    <3>1. Warranted(Call("all_deps_started", me))'
      BY <1>1, <2>3, <2>4 DEF Warranted, Call, StartReady, check_deps_started
    <3>2. Return(<<Call("all_deps_started", me)>>)
      BY <1>1, <1>8, <2>4 DEF AcquiredConsole, StartReady
    <3> QED  BY <1>2, <3>1, <3>2, UrgentCall DEF Urgent
  <2>5. CASE ~StartReady(Me)
    <3>1. Return(<<Call("pull_console", me)>>) /\ SetFlags(me, {}, {"waiting_for_console"})
      BY <1>1, <1>8, <2>5 DEF AcquiredConsole, StartReady, When
    <3>2. ASSUME NEW s \in Services PROVE "have_console" \notin flags'[s]
      BY SMTT(60), <2>2, <3>1 DEF ConsoleFree, SetFlags, TypeOK, RecordTypes
    <3>3. ConsoleFree'  BY <2>2, <2>3, <3>2 DEF ConsoleFree
    <3> QED  BY <1>2, <1>3, <3>1, <3>3, UrgentCall DEF Urgent
  <2> QED  BY <2>4, <2>5
<1> QED  BY <1>4, <1>5, <1>6, <1>7, <1>8

\* A round of the loop over the dependencies of a service that has stopped.
LEMMA StoppedDepStep ==
  ASSUME TypeOK, StackOK, StoppedDep
  PROVE  StackOK'
<1>0. stack # <<>> /\ Me \in Services /\ Top.todo # <<>> /\ Top.op = "stopped_deps"
  BY DEF StoppedDep, AtLoop, At
<1>1. CASE ~Hurried(Top)
  BY <1>0, <1>1, RoundCalm, StillCalm, EmptySeq DEF StoppedDep
<1>2. CASE Hurried(Top)
  <2>1. Warranted(Top)  BY <1>0, <1>2, HurriedTop
  <2>2. PICK f : f = Loop(Top.op, Me, Tail(Top.todo), Top.arg)  OBVIOUS
  <2>3. f \in Frame /\ f.op = "stopped_deps" /\ f.svc = Me /\ f.arg = Top.arg
    BY <1>0, <2>2, TopType DEF Loop, Frame, Op
  <2>4. "will_restart" \in Top.arg  BY SMTT(60), <1>0, <1>2 DEF Hurried, Urgent
  <2>5. "pinned_stopped" \notin flags[Me]  BY SMTT(60), <1>0, <2>1 DEF Warranted, Me
  <2>6. Warranted(f)'
    BY <2>3, <2>4, <2>5 DEF Warranted, StoppedDep, recordVars
  <2>7. Return(<<>> \o <<f>>)  BY <2>2 DEF StoppedDep, NextRound
  <2>8. <<>> \o <<f>> = <<f>> \o <<>>  BY SMTT(60)
  <2>9. Return(<<f>> \o <<>>)  BY <2>7, <2>8
  <2> QED  BY <1>0, <2>3, <2>6, <2>9, EmptySeq, TailCalm, UrgentReturn DEF Return
<1> QED  BY <1>1, <1>2

-----------------------------------------------------------------------------
(* Queues and events *)

\* The drops themselves leave a calm stack.
LEMMA DropsReturn ==
  ASSUME TypeOK, StackOK, DropLink \/ DropExplicit
  PROVE  StackOK'
<1>1. stack # <<>> /\ Me \in Services
  BY DEF DropLink, DropExplicit, AtLoop, At
<1>2. Tail(stack) \in Seq(Calm)  BY <1>1, TailCalm
<1>3. CASE DropLink
  BY <1>2, <1>3, EmptySeq, CalmReturn, StillCalm DEF DropLink
<1>4. CASE DropExplicit
  BY <1>1, <1>2, <1>4, CallCalm, CallIfCalm, CalmReturn, StillCalm
  DEF DropExplicit, ReleaseCalls, Op, Urgent
<1> QED  BY <1>3, <1>4

\* process_queues() leaves its own frame on the stack until both queues are empty.
LEMMA QueueSteps ==
  ASSUME TypeOK, StackOK, PopPropQueue \/ PopStopQueue \/ QueuesProcessed
  PROVE  StackOK'
<1>1. stack # <<>> /\ ~Hurried(Top)
  BY DEF PopPropQueue, PopStopQueue, QueuesProcessed, AtProcessQueues, Hurried, Urgent
<1>2. stack \in Seq(Calm) /\ Tail(stack) \in Seq(Calm)  BY <1>1, CalmStack, TailCalm
<1>3. CASE PopPropQueue
  <2>1. Head(prop_queue) \in Services
    BY <1>3, HeadTail DEF PopPropQueue, TypeOK, SetTypes
  <2>2. CallWith("do_propagation", Head(prop_queue), Prop) \in Calm
    BY <2>1, CallWithCalm DEF Op, Urgent, Arg
  <2> QED  BY <1>2, <1>3, <2>2, OneCall, MoreCalls, StillCalm DEF PopPropQueue
<1>4. CASE PopStopQueue
  <2>1. Head(stop_queue) \in Services
    BY <1>4, HeadTail DEF PopStopQueue, TypeOK, SetTypes
  <2>2. Call("execute_transition", Head(stop_queue)) \in Calm
    BY <2>1, CallCalm DEF Op, Urgent
  <2> QED  BY <1>2, <1>4, <2>2, OneCall, MoreCalls, StillCalm DEF PopStopQueue
<1>5. CASE QueuesProcessed
  BY <1>2, <1>5, EmptySeq, CalmReturn, StillCalm DEF QueuesProcessed
<1> QED  BY <1>3, <1>4, <1>5

\* The handler of an event begins with an empty stack and pushes calm frames.
LEMMA ProcEventCalls ==
  ASSUME TypeOK, NEW s \in Services, ProcEvent(s)
  PROVE  stack' \in Seq(Calm)
<1> USE EmptySeq
<1>1. CASE ChildExit(s)
  BY <1>1, CallCalm, OneCall DEF ChildExit, NextEvent, Idle, Op, Urgent
<1>2. CASE ExecSucceeded(s)
  <2> DEFINE ready == service_state[s] = "STARTING" /\ "notification" \notin Options[s]
             down == service_state[s] = "STOPPING" /\ stop_check_dependents(s)
             exited == "pid" \notin ps[s]
  <2>1. /\ CallIf(ready, Call("started", s)) \in Seq(Calm)
        /\ CallIf(down, Call("bring_down", s)) \in Seq(Calm)
        /\ CallIf(exited, Call("handle_exit_status", s)) \in Seq(Calm)
    BY CallCalm, CallIfCalm DEF Op, Urgent
  <2>2. stack' = CallIf(ready, Call("started", s)) \o CallIf(down, Call("bring_down", s))
                 \o CallIf(exited, Call("handle_exit_status", s)) \o ProcessQueues
    BY <1>2 DEF ExecSucceeded
  <2> QED  BY <2>1, <2>2, MoreCalls, ProcessQueuesCalm
<1>3. CASE ExecFailed(s)
  BY <1>3, CallCalm, CallWithCalm, OneCall, MoreCalls, ProcessQueuesCalm
  DEF ExecFailed, Op, Urgent, Arg
<1>4. CASE Ready(s)
  BY <1>4, CallCalm, OneCall, MoreCalls, ProcessQueuesCalm DEF Ready, Op, Urgent
<1>5. CASE NotifyClosed(s)
  BY <1>5, CallCalm, TwoCalls, MoreCalls, ProcessQueuesCalm
  DEF NotifyClosed, NextEvent, Idle, Op, Urgent
<1>6. CASE TimerExpired(s)
  BY <1>6, CallCalm, OneCall DEF TimerExpired, NextEvent, Idle, Op, Urgent
<1>7. CASE StopChildExit(s)
  BY <1>7, CallCalm, CallIfCalm, MoreCalls, ProcessQueuesCalm
      DEF StopChildExit, Op, Urgent
<1>8. CASE StopExecStatus(s)
  <2> DEFINE calls == CallIf({"stop_pid", "pid"} \cap ps[s] = {}, Call("stopped", s))
  <2>1. calls \in Seq(Calm)  BY CallCalm, CallIfCalm DEF Op, Urgent
  <2>2. stack' = calls \o ProcessQueues \/ stack' = ProcessQueues
    BY <1>8 DEF StopExecStatus
  <2> QED  BY <2>1, <2>2, MoreCalls, ProcessQueuesCalm
<1> QED  BY <1>1, <1>2, <1>3, <1>4, <1>5, <1>6, <1>7, <1>8 DEF ProcEvent

\* The log hands over the console when it is nobody else's.
LEMMA LogStep ==
  ASSUME TypeOK, ConsoleOwned, LogReleasesConsole
  PROVE  StackOK'
<1>0. stack = <<>> /\ console_log = "releasing" /\ UNCHANGED flags
  BY DEF LogReleasesConsole, NextEvent, Idle, recordVars
<1>1. CASE console_queue = <<>>
  BY <1>0, <1>1, EmptySeq, StillCalm DEF LogReleasesConsole
<1>2. CASE console_queue # <<>>
  <2>1. PICK h \in Services : h = Head(console_queue)
    BY <1>2, HeadTail DEF TypeOK, SetTypes
  <2>2. ConsoleFree'
    BY SMTT(60), <1>0, <1>2 DEF LogReleasesConsole, ConsoleFree, ConsoleOwned
  <2>3. Warranted(Call("acquired_console", h))'  BY <2>2 DEF Warranted, Call
  <2>4. PICK f : f = Call("acquired_console", h)  OBVIOUS
  <2>5. f \in Frame  BY SMTT(60), <2>4 DEF Call, Frame, Op
  <2>6. stack' = <<f>> \o <<>>  BY SMTT(60), <1>2, <2>1, <2>4 DEF LogReleasesConsole
  <2> QED  BY <2>3, <2>4, <2>5, <2>6, EmptySeq DEF StackOK
<1> QED  BY <1>1, <1>2

\* The commands on a service push calm calls.
LEMMA CommandCalls ==
  ASSUME TypeOK, NEW s \in Services, ServiceCommand(s)
  PROVE  stack' \in Seq(Calm)
<1> USE EmptySeq, ProcessQueuesCalm DEF Op, Urgent
<1>1. CASE StartService(s)
  BY <1>1, CallCalm, CallIfCalm, OneCall, MoreCalls DEF StartService
<1>2. CASE StopService(s)
  <2>1. CallWith("stop", s, {"bring_down"}) \in Calm /\ Call("forced_stop", s) \in Calm
    BY CallCalm, CallWithCalm DEF Arg
  <2> QED  BY <1>2, <2>1, TwoCalls, MoreCalls DEF StopService
<1>3. CASE RestartService(s)
  BY <1>3, CallWithCalm, OneCall, MoreCalls DEF RestartService, Arg
<1>4. CASE WakeService(s)
  <2>1. Loop("rewake", s, dependents[s], {}) \in Calm
    BY LoopCalm DEF TypeOK, LinkTypes, LinkLists
  <2> QED  BY <1>4, <2>1, CallCalm, CallIfCalm, OneCall, MoreCalls DEF WakeService
<1>5. CASE ReleaseService(s)
  BY <1>5, CallCalm, OneCall, MoreCalls DEF ReleaseService
<1>6. CASE UnpinService(s)
  BY <1>6, CallCalm, OneCall, MoreCalls DEF UnpinService
<1>7. CASE SetTrigger(s)
  BY <1>7, CallCalm, CallIfCalm, MoreCalls DEF SetTrigger
<1> QED  BY <1>1, <1>2, <1>3, <1>4, <1>5, <1>6, <1>7 DEF ServiceCommand

\* The commands on a dependency push calm calls.
LEMMA GraphCommandCalls ==
  ASSUME TypeOK, NEW l \in Links, AddDep(l) \/ RemoveDep(l)
  PROVE  stack' \in Seq(Calm)
<1>1. l.from \in Services /\ l.to \in Services  BY LinksAssumption
<1>2. CASE AddDep(l)
  <2>1. <<l>> \in Seq(Links) /\ {} \in SUBSET Arg  BY SMTT(60)
  <2>2. Loop("start_dep", l.from, <<l>>, {}) \in Calm  BY <1>1, <2>1, LoopCalm
      DEF Op, Urgent
  <2>3. PICK enable \in BOOLEAN :
          stack' = (IF l \notin LinkSet(depends_on[l.from]) THEN ProcessQueues ELSE <<>>)
                   \o CallIf(enable, Loop("start_dep", l.from, <<l>>, {}))
    BY <1>2 DEF AddDep
  <2>4. CallIf(enable, Loop("start_dep", l.from, <<l>>, {})) \in Seq(Calm)  BY <2>2,
      CallIfCalm
  <2> QED  BY <2>3, <2>4, MoreCalls, EmptySeq, ProcessQueuesCalm
<1>3. CASE RemoveDep(l)
  <2>1. ReleaseCalls(l.to, TRUE) \in Seq(Calm)
    BY <1>1, CallCalm, CallIfCalm DEF ReleaseCalls, Op, Urgent
  <2> QED  BY <1>3, <2>1, MoreCalls, ProcessQueuesCalm DEF RemoveDep
<1> QED  BY <1>2, <1>3

\* stop_all_services() pushes calm calls, one pair for each record.
LEMMA ShutdownCalls ==
  ASSUME TypeOK, StopAllServices
  PROVE  stack' \in Seq(Calm)
<1> DEFINE n == 2 * Len(Records)
           call(i) == Call(IF i % 2 = 1 THEN "stop" ELSE "unpin", Records[(i + 1) \div 2])
           calls == [i \in 1 .. n |-> call(i)]
<1>1. Len(Records) \in Nat /\ Records \in [1 .. Len(Records) -> Services]
  BY RecordsAssumption, SeqFunction
<1>2. ASSUME NEW i \in 1 .. n PROVE call(i) \in Calm
  <2>1. (i + 1) \div 2 \in 1 .. Len(Records)  BY SMTT(60), <1>1
  <2>2. Records[(i + 1) \div 2] \in Services  BY <1>1, <2>1
  <2> QED  BY <2>2, CallCalm DEF Op, Urgent
<1>3. n \in Nat  BY SMTT(60), <1>1
<1> HIDE DEF n, call
<1>4. calls \in Seq(Calm)  BY SMTT(60), <1>2, <1>3
<1>5. stack' = calls \o ProcessQueues  BY DEF StopAllServices, calls, n, call
<1> QED  BY <1>4, <1>5, MoreCalls, ProcessQueuesCalm

-----------------------------------------------------------------------------
\* Every step leaves a stack in which a hurried call is on top only, and warranted.
LEMMA StackStep ==
  ASSUME TypeOK, StackOK, ConsoleOwned, [Next]_vars
  PROVE  StackOK'
<1>1. CASE RecordStep
  BY <1>1, PropagationCalls, StartCalls, StopCalls, DropSteps, DropsReturn, StartSteps,
     TransitionSteps, ConsoleSteps, StoppedDepStep, StillCalm
  DEF RecordStep
<1>2. CASE ProcStep
  BY <1>2, ProcessCalls, StartSteps, StillCalm DEF ProcStep
<1>3. CASE SetStep
  BY <1>3, ConsoleSteps, QueueSteps DEF SetStep
<1>4. CASE OperatorStep
  BY <1>4, CommandCalls, GraphCommandCalls, ShutdownCalls, StillCalm DEF OperatorStep
<1>5. CASE LogReleasesConsole
  BY <1>5, LogStep
<1>6. ASSUME NEW s \in Services, ProcEvent(s) PROVE StackOK'
  BY <1>6, ProcEventCalls, StillCalm
<1>7. CASE UNCHANGED vars
  BY <1>7
  DEF vars, StackOK, Warranted, ConsoleFree, StartReady, check_deps_started
<1> QED  BY <1>1, <1>2, <1>3, <1>4, <1>5, <1>6, <1>7 DEF Next, Step

\* The event loop begins with an empty stack.
LEMMA StackInit == Init => StackOK
BY EmptySeq DEF Init, StackOK

\* Such a stack is a stack of frames.
LEMMA StackFrames == StackOK => stack \in Seq(Frame)
<1>1. ASSUME NEW d \in Frame, NEW rest \in Seq(Calm), stack = <<d>> \o rest
      PROVE  stack \in Seq(Frame)
  <2>1. rest \in Seq(Frame) /\ <<d>> \in Seq(Frame)  BY SMTT(60), CalmFrame
  <2> QED  BY <1>1, <2>1, Concat
<1> QED  BY <1>1, CalmFrame DEF StackOK

-----------------------------------------------------------------------------
(* The console *)

\* A step that does not concern the console: nobody gets it and nobody gives it up.
ConsoleQuiet ==
  /\ ~At("pull_console") /\ ~At("acquired_console")
  /\ UNCHANGED console_log
  /\ \A s \in Services : "have_console" \in flags'[s] <=> "have_console" \in flags[s]

\* Such a step leaves the console with its owner.
LEMMA ConsoleKept ==
  ASSUME ConsoleOwned, ConsoleQuiet
  PROVE  ConsoleOwned'
<1>1. ~ConsoleFree'  BY DEF ConsoleOwned, ConsoleQuiet, ConsoleFree
<1> QED  BY <1>1 DEF ConsoleOwned, ConsoleQuiet

\* Setting other flags of a service does not concern the console.
LEMMA OtherFlags ==
  ASSUME TypeOK, NEW s \in Services, NEW on, NEW off, "have_console" \notin on,
         "have_console" \notin off, SetFlags(s, on, off)
  PROVE  \A t \in Services : "have_console" \in flags'[t] <=> "have_console" \in flags[t]
BY SMTT(60) DEF SetFlags, TypeOK, RecordTypes

\* Steps of the records that leave the flags alone
LEMMA RecordQuiet ==
  ASSUME \/ DropLink \/ RequireDep \/ ReleaseDep \/ Rewake \/ StartDep \/ DoStartInactive
         \/ PropRequire \/ RequireDepsEnd \/ PropRelease \/ ReleaseDepsEnd \/ PropFailure
         \/ PropStart \/ PropStop \/ PropagationDone \/ PinDep \/ PinDptDone \/ LoopDone
         \/ DoStartPinned \/ DoStartActive \/ BringUpInternal \/ NotifyDependent \/ FailDependent
         \/ BreakSoftDependent \/ StoppedDep \/ SetStopped \/ Chain \/ DoStopPinned \/ QueueStop
         \/ StopSoftDependent \/ InterruptStart \/ StopDeferred \/ BringDownInternal
         \/ UnpinStarted
  PROVE  ConsoleQuiet
<1>1. UNCHANGED <<console_log, flags>>
  BY DEF recordVars, consoleVars, Local, DropLink, RequireDep, ReleaseDep, Rewake,
    StartDep, DoStartInactive, PropRequire, RequireDepsEnd, PropRelease, ReleaseDepsEnd,
    PropFailure, PropStart, PropStop, PropagationDone, PinDep, PinDptDone, LoopDone,
    DoStartPinned, DoStartActive, BringUpInternal, NotifyDependent, FailDependent,
    BreakSoftDependent, StoppedDep, SetStopped, Chain, DoStopPinned, QueueStop,
    StopSoftDependent, InterruptStart, StopDeferred, BringDownInternal, UnpinStarted
<1>2. ~At("pull_console") /\ ~At("acquired_console")
  BY DEF DropLink, RequireDep, ReleaseDep, Rewake,
    StartDep, DoStartInactive, PropRequire, RequireDepsEnd, PropRelease, ReleaseDepsEnd,
    PropFailure, PropStart, PropStop, PropagationDone, PinDep, PinDptDone, LoopDone,
    DoStartPinned, DoStartActive, BringUpInternal, NotifyDependent, FailDependent,
    BreakSoftDependent, StoppedDep, SetStopped, Chain, DoStopPinned, QueueStop,
    StopSoftDependent, InterruptStart, StopDeferred, BringDownInternal, UnpinStarted,
    Phase, AtLoop, AtLoopEnd, At
<1> QED  BY <1>1, <1>2 DEF ConsoleQuiet

\* Steps of the records that change other flags
LEMMA FlagsQuiet ==
  ASSUME TypeOK,
         \/ DropExplicit \/ PropPinDpt \/ Start \/ InitiateStart \/ ExecuteTransition
         \/ AllDepsStarted \/ FailedToStart \/ FailDependentsEnd \/ Stop \/ ForcedStop \/ DoStop
         \/ StopHardDependent \/ BeginStopping \/ PinStart \/ Unpin \/ UnpinStopped
  PROVE  ConsoleQuiet
<1> USE DEF When, Local, consoleVars
<1>1. Me \in Services /\ ~At("pull_console") /\ ~At("acquired_console")
  BY DEF DropExplicit, PropPinDpt, Start, InitiateStart, ExecuteTransition,
    AllDepsStarted, FailedToStart, FailDependentsEnd, Stop, ForcedStop, DoStop,
    StopHardDependent, BeginStopping, PinStart, Unpin, UnpinStopped, Phase, AtLoop, AtLoopEnd, At
<1>2. UNCHANGED console_log
  BY DEF DropExplicit, PropPinDpt, Start, InitiateStart, ExecuteTransition,
    AllDepsStarted, FailedToStart, FailDependentsEnd, Stop, ForcedStop, DoStop,
    StopHardDependent, BeginStopping, PinStart, Unpin, UnpinStopped
<1>3. \/ UNCHANGED flags
      \/ \E s \in Services : \E on, off :
           "have_console" \notin on /\ "have_console" \notin off /\ SetFlags(s, on, off)
  <2>1. CASE DropExplicit  BY <1>1, <2>1 DEF DropExplicit
  <2>2. CASE PropPinDpt  BY <1>1, <2>2 DEF PropPinDpt
  <2>3. CASE Start  BY <1>1, <2>3 DEF Start
  <2>4. CASE InitiateStart  BY <1>1, <2>4 DEF InitiateStart
  <2>5. CASE ExecuteTransition  BY <1>1, <2>5 DEF ExecuteTransition
  <2>6. CASE AllDepsStarted  BY <1>1, <2>6 DEF AllDepsStarted
  <2>7. CASE FailedToStart  BY <1>1, <2>7 DEF FailedToStart
  <2>8. CASE FailDependentsEnd  BY <1>1, <2>8 DEF FailDependentsEnd
  <2>9. CASE Stop  BY <1>1, <2>9 DEF Stop
  <2>10. CASE ForcedStop  BY <1>1, <2>10 DEF ForcedStop
  <2>11. CASE DoStop  BY <1>1, <2>11 DEF DoStop
  <2>12. CASE StopHardDependent
    <3>1. Head(Top.todo).from \in Services
      BY <2>12, TopType DEF StopHardDependent, AtLoop, At
    <3> QED  BY <2>12, <3>1 DEF StopHardDependent
  <2>13. CASE BeginStopping  BY <1>1, <2>13 DEF BeginStopping
  <2>14. CASE PinStart  BY <1>1, <2>14 DEF PinStart
  <2>15. CASE Unpin  BY <1>1, <2>15 DEF Unpin
  <2>16. CASE UnpinStopped  BY <1>1, <2>16 DEF UnpinStopped
  <2> QED  BY <2>1, <2>2, <2>3, <2>4, <2>5, <2>6, <2>7, <2>8, <2>9, <2>10, <2>11,
              <2>12, <2>13, <2>14, <2>15, <2>16
<1> QED  BY <1>1, <1>2, <1>3, OtherFlags DEF ConsoleQuiet

\* Processes and the work queues
LEMMA ProcQuiet ==
  ASSUME TypeOK, ProcStep \/ PopPropQueue \/ PopStopQueue \/ QueuesProcessed
  PROVE  ConsoleQuiet
<1>1. ~At("pull_console") /\ ~At("acquired_console") /\ UNCHANGED console_log
  BY DEF ProcStep, BringUpProcess, BringUpRestart, BringUpFails, DoRestart,
    BringDownProcess, HandleExitStatus, AfterTermination, PopPropQueue, PopStopQueue,
    QueuesProcessed, AtProcessQueues, At, ProcessOnly, Local, consoleVars
<1>2. CASE HandleExitStatus
  <2>1. Me \in Services  BY <1>2 DEF HandleExitStatus, At
  <2>2. UNCHANGED flags \/ SetFlags(Me, {"force_stop"}, {})
    BY <1>2 DEF HandleExitStatus
  <2> QED  BY <1>1, <2>1, <2>2, OtherFlags DEF ConsoleQuiet
<1>3. CASE ~HandleExitStatus
  <2>1. UNCHANGED flags
    BY <1>3 DEF ProcStep, BringUpProcess, BringUpRestart, BringUpFails, DoRestart,
      BringDownProcess, AfterTermination, PopPropQueue, PopStopQueue, QueuesProcessed, recordVars
  <2> QED  BY <1>1, <2>1 DEF ConsoleQuiet
<1> QED  BY <1>2, <1>3

\* Events and commands other than the log's
LEMMA EventsQuiet ==
  ASSUME TypeOK,
         \/ \E s \in Services : ServiceCommand(s) \/ ProcEvent(s)
         \/ \E l \in Links : AddDep(l) \/ RemoveDep(l)
         \/ StopAllServices
  PROVE  ConsoleQuiet
<1> USE DEF recordVars, consoleVars, Local, When, ConsoleQuiet
<1>1. ASSUME Idle PROVE ~At("pull_console") /\ ~At("acquired_console")
  BY <1>1 DEF Idle, At
<1>2. ASSUME NEW s \in Services, ProcEvent(s) PROVE ConsoleQuiet
  BY <1>1, <1>2 DEF ProcEvent, ProcessOnly, ChildExit, ExecSucceeded, ExecFailed, Ready,
    NotifyClosed, TimerExpired, StopChildExit, StopExecStatus, NextEvent
<1> USE DEF Command, NextEvent
<1>3. ASSUME NEW s \in Services, StartService(s) \/ WakeService(s) \/ UnpinService(s)
      PROVE  ConsoleQuiet
  BY <1>1, <1>3 DEF StartService, WakeService, UnpinService, OnlyCalls
<1>4. ASSUME NEW s \in Services, StopService(s) PROVE ConsoleQuiet
  BY <1>1, <1>4, OtherFlags DEF StopService
<1>5. ASSUME NEW s \in Services, RestartService(s) PROVE ConsoleQuiet
  BY <1>1, <1>5, OtherFlags DEF RestartService
<1>6. ASSUME NEW s \in Services, ReleaseService(s) PROVE ConsoleQuiet
  BY <1>1, <1>6, OtherFlags DEF ReleaseService
<1>7. ASSUME NEW s \in Services, SetTrigger(s) PROVE ConsoleQuiet
  BY <1>1, <1>7, OtherFlags DEF SetTrigger
<1>8. ASSUME NEW l \in Links, AddDep(l) \/ RemoveDep(l) PROVE ConsoleQuiet
  BY <1>1, <1>8 DEF AddDep, RemoveDep
<1>9. CASE StopAllServices
  BY <1>1, <1>9 DEF StopAllServices
<1> QED  BY <1>2, <1>3, <1>4, <1>5, <1>6, <1>7, <1>8, <1>9 DEF ServiceCommand

\* The calls that take the console, give it up and hand it on
LEMMA ConsoleMoves ==
  ASSUME TypeOK, StackOK, ConsoleOwned,
         Started \/ Stopped \/ QueueForConsole \/ PullConsoleQueue \/ AcquiredConsole
  PROVE  ConsoleOwned'
<1>0. stack # <<>> /\ Me \in Services
  BY DEF Started, Stopped, QueueForConsole, PullConsoleQueue, AcquiredConsole, At
<1>1. PICK me \in Services : me = Me  BY <1>0
<1>2. ASSUME NEW s \in Services, NEW calls \in Seq(Frame), ConsoleFree',
             NEW op \in {"pull_console", "acquired_console"}, Return(<<Call(op, s)>> \o calls)
      PROVE  ConsoleOwned'
  <2>1. PICK f : f = Call(op, s)  OBVIOUS
  <2>2. f \in Frame /\ f.op = op /\ f.svc = s  BY SMTT(60), <1>2, <2>1 DEF Call, Frame, Op
  <2>3. Tail(stack) \in Seq(Frame)  BY <1>0, HeadTail DEF TypeOK
  <2>4. stack' # <<>> /\ Head(stack') = f  BY SMTT(60), <1>2, <2>1, <2>2, <2>3 DEF Return
  <2>5. At(op)'  BY <2>2, <2>4 DEF At, Top, Me
  <2> QED  BY <1>2, <2>5 DEF ConsoleOwned, ConsoleFree
<1>3. ASSUME NEW s \in Services, ConsoleFree', NEW op \in {"pull_console", "acquired_console"},
             Return(<<Call(op, s)>>)
      PROVE  ConsoleOwned'
  <2>1. PICK f : f = Call(op, s)  OBVIOUS
  <2>2. <<f>> \o <<>> = <<f>>  BY SMTT(60)
  <2> QED  BY <1>2, <1>3, <2>1, <2>2, EmptySeq
<1>4. ASSUME "have_console" \in flags[Me], SetFlags(Me, {}, {"have_console"}),
             UNCHANGED console_log, NEW g \in Frame, Return(<<Call("pull_console", Me), g>>)
      PROVE  ConsoleOwned'
  <2>1. ConsoleFree'  BY <1>1, <1>4, ConsoleGivenUp
  <2>2. PICK f : f = Call("pull_console", me)  OBVIOUS
  <2>3. <<f, g>> = <<f>> \o <<g>> /\ <<g>> \in Seq(Frame)  BY SMTT(60)
  <2> QED  BY <1>1, <1>2, <1>4, <2>1, <2>2, <2>3
<1>5. CASE Started
  <2>1. CASE "have_console" \in flags[Me] /\ "runs_on_console" \notin Options[Me]
    <3>1. Call("started", Me) \in Frame  BY SMTT(60), <1>0 DEF Call, Frame, Op
    <3> QED  BY <1>4, <1>5, <2>1, <3>1 DEF Started, Local, consoleVars
  <2>2. CASE ~("have_console" \in flags[Me] /\ "runs_on_console" \notin Options[Me])
    BY <1>5, <2>2, ConsoleKept DEF ConsoleQuiet, Started, At, Local, consoleVars
  <2> QED  BY <2>1, <2>2
<1>6. CASE Stopped
  <2>1. CASE "have_console" \in flags[Me]
    <3>1. Call("stopped", Me) \in Frame  BY SMTT(60), <1>0 DEF Call, Frame, Op
    <3> QED  BY <1>4, <1>6, <2>1, <3>1 DEF Stopped, Local, consoleVars
  <2>2. CASE "have_console" \notin flags[Me]
    <3>1. SetFlags(Me, {}, {"force_stop"})  BY <1>6, <2>2 DEF Stopped
    <3>2. \A s \in Services : "have_console" \in flags'[s] <=> "have_console" \in flags[s]
      BY <1>0, <3>1, OtherFlags
    <3> QED  BY <1>6, <3>2, ConsoleKept DEF ConsoleQuiet, Stopped, At, Local, consoleVars
  <2> QED  BY <2>1, <2>2
<1>7. CASE QueueForConsole
  <2>1. \A s \in Services : "have_console" \in flags'[s] <=> "have_console" \in flags[s]
    BY <1>0, <1>7, OtherFlags DEF QueueForConsole
  <2>2. ~ConsoleFree
    BY <1>7 DEF QueueForConsole, At, ConsoleOwned
  <2>3. CASE console_log = "active" /\ console_log' = "released" /\ Return(<<Call("acquired_console", Me)>>)
    <3>1. ConsoleFree'  BY <2>1, <2>3 DEF ConsoleOwned, ConsoleFree
    <3> QED  BY <1>1, <1>3, <2>3, <3>1
  <2>4. CASE console_log' = console_log
    BY <2>1, <2>2, <2>4 DEF ConsoleOwned, ConsoleFree
  <2>5. CASE console_log = "active" /\ console_log' = "releasing"
    BY <2>1, <2>5 DEF ConsoleOwned, ConsoleFree
  <2> QED  BY <1>7, <2>3, <2>4, <2>5 DEF QueueForConsole
<1>8. CASE PullConsoleQueue
  <2>1. Warranted(Top) /\ Top.op = "pull_console"
    BY <1>0, <1>8, HurriedTop DEF PullConsoleQueue, At, Hurried, Urgent
  <2>2. ConsoleFree  BY SMTT(60), <2>1 DEF Warranted
  <2>3. UNCHANGED flags  BY <1>8 DEF PullConsoleQueue, recordVars
  <2>4. CASE console_queue = <<>>
    BY <1>8, <2>2, <2>3, <2>4 DEF PullConsoleQueue, ConsoleOwned, ConsoleFree
  <2>5. CASE console_queue # <<>>
    <3>1. Head(console_queue) \in Services  BY <2>5, HeadTail DEF TypeOK, SetTypes
    <3>2. ConsoleFree'  BY <1>8, <2>2, <2>3, <2>5 DEF PullConsoleQueue, ConsoleFree
    <3> QED  BY <1>3, <1>8, <2>5, <3>1, <3>2 DEF PullConsoleQueue
  <2> QED  BY <2>4, <2>5
<1>9. CASE AcquiredConsole
  <2>1. Warranted(Top) /\ Top.op = "acquired_console"
    BY <1>0, <1>9, HurriedTop DEF AcquiredConsole, At, Hurried, Urgent
  <2>2. ConsoleFree  BY SMTT(60), <2>1 DEF Warranted
  <2>3. UNCHANGED console_log  BY <1>9 DEF AcquiredConsole, Local, consoleVars
  <2>4. CASE StartReady(Me)
    <3>1. SetFlags(me, {"have_console"}, {"waiting_for_console"})
      BY <1>1, <1>9, <2>4 DEF AcquiredConsole, StartReady, When
    <3>2. \A s \in Services : "have_console" \in flags'[s] <=> s = me
      BY SMTT(60), <2>2, <3>1 DEF ConsoleFree, SetFlags, TypeOK, RecordTypes
    <3> QED  BY <2>2, <2>3, <3>2 DEF ConsoleOwned, ConsoleFree
  <2>5. CASE ~StartReady(Me)
    <3>1. Return(<<Call("pull_console", Me)>>) /\ SetFlags(Me, {}, {"waiting_for_console"})
      BY <1>9, <2>5 DEF AcquiredConsole, StartReady, When
    <3>2. ConsoleFree'  BY <1>0, <2>2, <2>3, <3>1, OtherFlags DEF ConsoleFree
    <3> QED  BY <1>0, <1>3, <3>1, <3>2
  <2> QED  BY <2>4, <2>5
<1> QED  BY <1>5, <1>6, <1>7, <1>8, <1>9

\* The log gives the console to the first service that waits, or takes it back.
LEMMA LogMoves ==
  ASSUME TypeOK, ConsoleOwned, LogReleasesConsole
  PROVE  ConsoleOwned'
<1>0. console_log = "releasing" /\ UNCHANGED flags
  BY DEF LogReleasesConsole, recordVars
<1>1. \A s \in Services : "have_console" \notin flags'[s]  BY SMTT(60), <1>0 DEF ConsoleOwned
<1>2. CASE console_queue = <<>>
  BY <1>1, <1>2 DEF LogReleasesConsole, ConsoleOwned, ConsoleFree
<1>3. CASE console_queue # <<>>
  <2>1. PICK h \in Services : h = Head(console_queue)
    BY <1>3, HeadTail DEF TypeOK, SetTypes
  <2>2. stack' = <<Call("acquired_console", h)>>  BY <1>3, <2>1 DEF LogReleasesConsole
  <2>3. At("acquired_console")'  BY SMTT(60), <2>2 DEF At, Top, Me, Call
  <2> QED  BY <1>1, <2>3 DEF ConsoleOwned
<1> QED  BY <1>2, <1>3

\* Every step leaves the console with one owner.
LEMMA ConsoleStep ==
  ASSUME TypeOK, StackOK, ConsoleOwned, [Next]_vars
  PROVE  ConsoleOwned'
<1>1. CASE RecordStep
  BY <1>1, RecordQuiet, FlagsQuiet, ConsoleKept, ConsoleMoves DEF RecordStep
<1>2. CASE ProcStep \/ SetStep
  BY <1>2, ProcQuiet, ConsoleKept, ConsoleMoves DEF SetStep
<1>3. CASE OperatorStep \/ \E s \in Services : ProcEvent(s)
  BY <1>3, EventsQuiet, ConsoleKept DEF OperatorStep
<1>4. CASE UNCHANGED vars
  BY <1>4 DEF vars, ConsoleOwned, ConsoleFree, At, Top, Me
<1> QED  BY <1>1, <1>2, <1>3, <1>4, LogMoves DEF Next, Step

\* After loading the log has the console.
LEMMA ConsoleInit == Init => ConsoleOwned
BY DEF Init, ConsoleOwned, ConsoleFree

=============================================================================

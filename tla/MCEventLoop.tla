---------------------------- MODULE MCEventLoop ----------------------------
(***************************************************************************)
(* The setups of the runs about the event loop: for each watcher its kind, *)
(* priority, directions and owner's habits.                                *)
(***************************************************************************)
EXTENDS Integers, Sequences

CONSTANT Use    \* the setups of a run

VARIABLES wt, queue, slots, tq, now, ready, hup, running, left, phase, regs, gone, cancelled,
          setup
state == <<wt, queue, slots, tq, now, ready, hup, running, left, phase, regs, gone, cancelled>>
vars == <<state, setup>>

W(kind, style, ops, returns) ==
    [kind |-> kind, prio |-> 50, flags |-> {"in"}, emulated |-> FALSE, style |-> style,
     ops |-> ops, returns |-> returns]
Loop(watchers) ==
    [w |-> watchers, MaxRegs |-> 2, MaxTime |-> 0, Delays |-> {}, Intervals |-> {0}, Bursts |-> 1,
     NsPerSec |-> 4]

\* The watchers of dinit: a control connection, the status pipe of an exec(), a child
\* process with its early priority, a timer, a log file and the like.
Connection == W("bidi", "delete", {"alloc_fails", "watches", "deregister", "quit"}, {"NOOP"})
Pipe == W("fd", "delete", {"alloc_fails", "deregister", "pipe", "socket"}, {"REARM"})
Child == [W("child", "delete", {"alloc_fails", "fork", "stop_watch", "deregister"}, {"NOOP"}) EXCEPT
            !.prio = 40]
Timer == W("timer", "delete", {"set", "set_late", "deregister"}, {"NOOP"})
LogFile == [W("fd", "delete", {"disabled", "enable", "deregister"}, {"REARM", "DISARM"}) EXCEPT
              !.flags = {"out"}, !.emulated = TRUE]
Signal == W("signal", "callback", {"deregister", "quit"}, {"REARM"})
Lambda == W("fd", "callback", {"deregister", "quit", "pipe"}, {"REARM", "REMOVE"})

Setup == [
    \* In these the properties hold.
    connection |-> Loop([conn |-> Connection, pipe |-> Pipe]),
    halves |-> Loop([conn |-> W("bidi", "callback", {}, {"REARM", "DISARM", "REMOVE"})]),
    service |-> [Loop([child |-> Child, timer |-> Timer, pipe |-> Pipe]) EXCEPT
                   !.MaxRegs = 3, !.MaxTime = 2, !.Delays = {1}],
    logfile |-> Loop([log |-> LogFile, pipe |-> Pipe]),
    lambdas |-> Loop([lambda |-> Lambda, signal |-> Signal]),
    timers |-> [Loop([t1 |-> Timer, t2 |-> [Timer EXCEPT !.ops = @ \cup {"stop", "stop_late"}]]) EXCEPT
                  !.MaxTime = 4, !.Delays = {1, 2}],
    periodic |-> [Loop([timer |-> W("timer", "delete", {"set", "stop", "enable", "deregister"},
                                {"REARM", "DISARM"})]) EXCEPT
                    !.MaxTime = 7, !.Delays = {1}, !.Intervals = {1, 2}],
    \* In each of these one of the properties fails.
    three_timers |-> [Loop([x \in {"t1", "t2", "t3"} |-> Timer]) EXCEPT
                        !.MaxRegs = 3, !.MaxTime = 3, !.Delays = {1, 2, 3}],
    two_periods |-> [Loop([x \in {"t1", "t2"} |-> Timer]) EXCEPT
                       !.MaxTime = 3, !.Delays = {1}, !.Intervals = {2}],
    stopped_timer |-> [Loop([pipe |-> Pipe,
                             timer |-> [Timer EXCEPT !.ops = {"set", "stop_late"}]]) EXCEPT
                         !.MaxTime = 1, !.Delays = {1}],
    requeued_timer |-> [Loop([timer |-> W("timer", "delete", {"set", "enable_late"}, {"REARM"})])
                          EXCEPT !.MaxTime = 4, !.Delays = {1}, !.Intervals = {1}],
    disabled_pipe |-> Loop([pipe |-> W("fd", "delete", {"enable", "pipe"}, {"REARM"})]),
    hung_up |-> Loop([conn |-> [Connection EXCEPT !.ops = @ \cup {"socket"}]]),
    status_pipe |-> Loop([pipe |-> [Pipe EXCEPT !.ops = @ \cup {"quit"}]]),
    child_quits |-> Loop([child |-> [Child EXCEPT !.style = "callback", !.ops = @ \cup {"quit"}]]),
    halves_quit |-> Loop([conn |-> [Connection EXCEPT !.style = "callback"]]),
    timer_fails |-> Loop([timer |-> [Timer EXCEPT !.ops = {"alloc_fails"}]]),
    failed_fork |-> Loop([child |-> [Child EXCEPT !.ops = @ \cup {"fork_fails"}]]),
    burst |-> [Loop([signal |-> Signal]) EXCEPT !.Bursts = 2],
    own_enable |-> Loop([log |-> [LogFile EXCEPT !.ops = {"enable_own"}, !.returns = {"NOOP", "REMOVE"}]]),
    starved |-> Loop([log |-> [LogFile EXCEPT !.prio = 40, !.returns = {"REARM"}], pipe |-> Pipe])
]

R(n) ==
    INSTANCE EventLoop WITH
        Watchers <- DOMAIN Setup[n].w, Handles <- DOMAIN Setup[n].w, N <- 4,
        Kind <- [x \in DOMAIN Setup[n].w |-> Setup[n].w[x].kind],
        Prio <- [x \in DOMAIN Setup[n].w |-> Setup[n].w[x].prio],
        Flags <- [x \in DOMAIN Setup[n].w |-> Setup[n].w[x].flags],
        Emulated <- {x \in DOMAIN Setup[n].w : Setup[n].w[x].emulated},
        Style <- [x \in DOMAIN Setup[n].w |-> Setup[n].w[x].style],
        Ops <- [x \in DOMAIN Setup[n].w |-> Setup[n].w[x].ops],
        Returns <- [x \in DOMAIN Setup[n].w |-> Setup[n].w[x].returns],
        MaxRegs <- Setup[n].MaxRegs, MaxTime <- Setup[n].MaxTime, Delays <- Setup[n].Delays,
        Intervals <- Setup[n].Intervals, Bursts <- Setup[n].Bursts,
        NsPerSec <- Setup[n].NsPerSec

Picked(n) == setup = n /\ UNCHANGED setup
Init == \E n \in Use : setup = n /\ R(n)!Init
Next == \E n \in Use : Picked(n) /\ R(n)!Next
Work == \E n \in Use : Picked(n) /\ R(n)!LoopStep

Spec == Init /\ [][Next]_vars
\* As in EventLoop, for the setup at hand.
CanStep == \E n \in Use : setup = n /\ R(n)!CanStep
FairSpec == Spec /\ ([]<>~CanStep \/ []<><<Work>>_vars)

-----------------------------------------------------------------------------
(* The properties of EventLoop, in the setup at hand *)

\* A watcher that was deleted has left the loop: no queue, heap or dispatch still refers to it.
RemovedIsForgotten == \A n \in Use : setup = n => R(n)!RemovedIsForgotten
\* A half of a watcher is queued for dispatch at most once.
QueuedOnce == \A n \in Use : setup = n => R(n)!QueuedOnce
\* Every registered watcher half has the queue slot that was reserved for it, and no more exist.
SlotsExact == \A n \in Use : setup = n => R(n)!SlotsExact
\* The timer descriptor is set no later than any queued timer, and periodic timers do not drift.
TimersOnTime == \A n \in Use : setup = n => R(n)!TimersOnTime
\* The expiries counted for a periodic timer are those of its interval.
IntervalsExact == \A n \in Use : setup = n => R(n)!IntervalsExact
\* A report of the kernel names its watcher.
ReportHasWatcher == \A n \in Use : setup = n => R(n)!ReportHasWatcher
\* A timer that was stopped does not expire.
CancelledIsSilent ==
    [][\A n \in Use : setup = n => (R(n)!Dispatch => Head(queue)[1] \notin cancelled)]_vars
Waits(n, x, half) == setup = n /\ R(n)!Waiting(x, half)
\* A half that waits is dispatched, unless it stops waiting.
EventsDelivered ==
    \A n \in Use : \A x \in DOMAIN Setup[n].w, half \in {"in", "out"} :
        Waits(n, x, half) ~> (running = <<x, half>> \/ ~Waits(n, x, half))
=============================================================================

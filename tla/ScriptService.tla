--------------------------- MODULE ScriptService ---------------------------
(***************************************************************************)
(* One scripted or bgproc service without dependencies or dependents: its  *)
(* commands, its processes, its one timer, and the callbacks of the event  *)
(* loop.  A scripted service runs one command to start and one to stop; a  *)
(* bgproc service is launched by a command that leaves a daemon behind and *)
(* exits, the daemon's process id being read from a file.  A callback runs *)
(* to its end, process_queues() included, before the next.                 *)
(***************************************************************************)
EXTENDS Naturals

CONSTANTS
    Kind,                \* "scripted" or "bgproc"
    SmoothRecovery, AutoRestart, StartInterruptible, Skippable,
    StopCommand,         \* has the service a stop command
    Timeouts,            \* are start and stop timeouts set
    Trackable,           \* is the daemon a child of dinit, so that its end is reported
    EarlyEnd,            \* may the daemon end before its process id was read
    StopMayFail,         \* may the stop command fail
    ExecMayFail,         \* may exec() fail in a child
    ExitFirst,           \* may the end of a child be seen before its exec status
    Stubborn,            \* may a process run on until it is killed
    MaxCommands,         \* start and restart commands
    MaxRestarts          \* max_restart_interval_count; the interval does not lapse

VARIABLES
    s,         \* the service record
    proc,      \* what has become of each process; its exit status once it has ended
    hurt,      \* the strongest signal sent to it: "no", "term" or "kill"
    pipe,      \* its exec status pipe: "none", "open", or what can be read, "ok" or "err"
    commands,
    dirty,     \* a start command has had an effect, and no stop command has run since
    wrong      \* a command was run beside another process of the service, or again

vars == <<s, proc, hurt, pipe, commands, dirty, wrong>>

\* The start command (or launcher), the daemon it leaves behind, and the stop command.
Processes == {"start", "daemon", "stop"}
Ended == {"clean", "fail", "signal"}
Live == {"forked", "running"}
Scripted == Kind = "scripted"

\* A configuration holds all variables; a handler maps one to the next.
Config == [s |-> s, proc |-> proc, hurt |-> hurt, pipe |-> pipe, commands |-> commands,
           dirty |-> dirty, wrong |-> wrong]

\* What a handler cannot control: does fork() succeed, has the restart delay yet to
\* pass, is there a pid file with a number in it.
Choices == [fork : BOOLEAN, delay : BOOLEAN, pidfile : BOOLEAN]

-----------------------------------------------------------------------------
(* The timer, signals and processes.                                       *)

\* Mutant: the flag is cleared and the timer left to run.
StopFlagOnly(c) == [c EXCEPT !.s.stopstart = FALSE]

StopTimer(c) == IF c.s.stopstart THEN [c EXCEPT !.s.armed = FALSE, !.s.stopstart = FALSE] ELSE c
ArmTimer(c) == IF Timeouts THEN [c EXCEPT !.s.armed = TRUE, !.s.stopstart = TRUE] ELSE c

Kill(c, p, sig) ==
    IF p \in Processes /\ c.proc[p] \in Live /\ c.hurt[p] # "kill"
    THEN [c EXCEPT !.hurt[p] = sig] ELSE c

\* fork() of a child that is yet to exec() its command, with the pipe for the outcome.
Fork(c, p) ==
    LET beside == \E q \in Processes : c.proc[q] \in Live
        needless == Scripted /\ c.dirty = (p = "start")
    IN [c EXCEPT !.proc[p] = "forked", !.hurt[p] = "no", !.pipe[p] = "open", !.s.execstat = TRUE,
                 !.dirty = IF p = "stop" THEN FALSE ELSE @,
                 !.wrong = @ \/ ((Scripted \/ p = "start") /\ (beside \/ needless))]

start_ps_process(c, p) == [Fork(c, p) EXCEPT !.s.pid = p]
start_stop_process(c) == [Fork(c, "stop") EXCEPT !.s.stop_pid = TRUE]

\* Mutant: the signal that was not obeyed is sent again.
KillGently(c) == Kill(c, c.s.pid, "term")

kill_with_fire(c) ==
    LET d == Kill(c, c.s.pid, "kill") IN IF c.s.stop_pid THEN Kill(d, "stop", "kill") ELSE d

-----------------------------------------------------------------------------
(* The state machine of service_record, where nothing depends on anything: *)
(* required_by is 1 exactly while STARTED is the desired state.            *)

initiate_start(c) == [c EXCEPT !.s.state = "STARTING", !.s.queued = TRUE]

stopped(c) ==
    LET d == [c EXCEPT !.s.force_stop = FALSE, !.s.state = "STOPPED"]
    IN IF c.s.desired = "STARTED" THEN initiate_start(d) ELSE d

failed_to_start(c) == [c EXCEPT !.s.desired = "STOPPED"]

\* Mutant: which script runs is not noted.
InterruptUnnoted(c) ==
    IF c.s.restart THEN [c EXCEPT !.s.restart = FALSE, !.s.armed = FALSE]
    ELSE LET d == Kill(c, c.s.pid, "term")
         IN [(IF Timeouts THEN ArmTimer(d) ELSE StopTimer(d)) EXCEPT !.s.state = "STOPPING"]

\* The start is over at once only if just the restart timer was being waited for.
interrupt_start(c) ==
    IF c.s.restart THEN [c EXCEPT !.s.restart = FALSE, !.s.armed = FALSE, !.s.interrupting = FALSE]
    ELSE LET d == Kill(c, c.s.pid, "term")
         IN [(IF Timeouts THEN ArmTimer(d) ELSE StopTimer(d))
               EXCEPT !.s.state = "STOPPING", !.s.interrupting = Scripted]

can_interrupt_start(c) == c.s.restart \/ StartInterruptible

check_restart(c) == Scripted \/ c.s.restarts < MaxRestarts
CountRestart(c) == IF Scripted THEN c ELSE [c EXCEPT !.s.restarts = @ + 1]

do_stop(c, with_restart) ==
    LET auto == ~with_restart /\ AutoRestart /\ c.s.desired = "STARTED" /\ check_restart(c)
        d == [(IF auto THEN CountRestart(c) ELSE c)
                EXCEPT !.s.auto = auto,
                       !.s.desired = IF with_restart \/ auto THEN @ ELSE "STOPPED"]
        Stopping(e) == [e EXCEPT !.s.state = "STOPPING", !.s.queued = TRUE]
    IN CASE d.s.state = "STARTED" -> Stopping(d)
         [] d.s.state = "STARTING" /\ d.s.restart -> Stopping(interrupt_start(d))
         [] d.s.state = "STARTING" /\ ~d.s.restart /\ can_interrupt_start(d) -> interrupt_start(d)
         [] OTHER -> d

started(c) ==
    LET d == [c EXCEPT !.s.state = "STARTED"]
    IN IF d.s.force_stop \/ d.s.desired = "STOPPED" THEN do_stop(d, FALSE) ELSE d

unrecoverable_stop(c) ==
    LET d == [c EXCEPT !.s.desired = "STOPPED"]
    IN IF d.s.state = "STOPPED" THEN d ELSE do_stop([d EXCEPT !.s.force_stop = TRUE], FALSE)

-----------------------------------------------------------------------------
(* Bringing the service up and down.                                       *)

do_restart(c, ch) ==
    LET d == [c EXCEPT !.s.restart = FALSE]
    IN CASE ch.fork -> ArmTimer(start_ps_process(d, "start"))
         [] ~ch.fork /\ d.s.state = "STARTING" -> stopped(failed_to_start(d))
         [] OTHER -> unrecoverable_stop(d)

restart_ps_process(c, ch) ==
    IF ch.delay THEN [c EXCEPT !.s.armed = TRUE, !.s.restart = TRUE] ELSE do_restart(c, ch)

bring_up(c, ch) ==
    LET d == [c EXCEPT !.s.restarts = 0]
    IN CASE c.s.auto -> restart_ps_process(c, ch)
         [] ~c.s.auto /\ ch.fork ->
                LET e == start_ps_process(d, "start") IN IF Timeouts THEN ArmTimer(e) ELSE StopTimer(e)
         [] OTHER -> stopped(failed_to_start([d EXCEPT !.s.state = "STOPPING"]))

ScriptedBringDown(c, ch) ==
    CASE c.s.pid # "none" -> c
      [] c.s.pid = "none" /\ StopCommand /\ ch.fork -> ArmTimer(start_ps_process(c, "stop"))
      [] OTHER -> stopped([c EXCEPT !.dirty = FALSE])

BgprocBringDown(c, ch) ==
    LET told == IF StopCommand /\ ch.fork THEN start_stop_process(c) ELSE Kill(c, c.s.pid, "term")
        over == [c EXCEPT !.s.recovering = FALSE, !.s.restart = FALSE,
                          !.s.armed = @ /\ ~c.s.restart]
    IN CASE c.s.stop_pid \/ c.s.stop_issued \/ c.s.execstat -> c
         [] ~(c.s.stop_pid \/ c.s.stop_issued \/ c.s.execstat) /\ c.s.pid # "none" ->
                IF told.s.stop_pid \/ told.s.tracking
                THEN ArmTimer([told EXCEPT !.s.stop_issued = TRUE]) ELSE stopped(told)
         [] OTHER -> stopped(over)

bring_down(c, ch) == IF Scripted THEN ScriptedBringDown(c, ch) ELSE BgprocBringDown(c, ch)

execute_transition(c, ch) ==
    LET d == [c EXCEPT !.s.queued = FALSE]
    IN CASE c.s.queued /\ c.s.state = "STARTING" -> bring_up(d, ch)
         [] c.s.queued /\ c.s.state = "STOPPING" -> bring_down(d, ch)
         [] OTHER -> d

\* No chain of transitions is longer: down, up, failed.
process_queues(c, ch) == execute_transition(execute_transition(execute_transition(c, ch), ch), ch)

-----------------------------------------------------------------------------
(* What the end of a process means.                                        *)

\* Mutant: the end of the interrupted start is not noted.
InterruptedForGood(c, ch, e) ==
    CASE c.s.state = "STOPPING" /\ c.s.interrupting ->
            IF e = "fail" THEN stopped(StopTimer(c)) ELSE bring_down(StopTimer(c), ch)
      [] c.s.state = "STOPPING" /\ ~c.s.interrupting -> stopped(c)
      [] OTHER -> IF e = "clean" \/ (e = "signal" /\ Skippable) THEN started(c)
                  ELSE stopped(failed_to_start(c))

ScriptedExit(c, ch, e) ==
    CASE c.s.state = "STOPPING" /\ c.s.interrupting ->
            LET d == StopTimer(c)
            IN [(IF e = "fail" THEN stopped(d) ELSE bring_down(d, ch)) EXCEPT !.s.interrupting = FALSE]
      [] c.s.state = "STOPPING" /\ ~c.s.interrupting -> stopped(c)
      [] OTHER -> IF e = "clean" \/ (e = "signal" /\ Skippable) THEN started(c)
                  ELSE stopped(failed_to_start(c))

\* The pid file: an invalid one, or the number of a process that runs as a child of
\* dinit, runs as another's child, has ended as a child of dinit, or is no more.
read_pid_file(c, ch) ==
    LET daemon == c.proc["daemon"] IN
    CASE ~ch.pidfile \/ daemon = "none" -> [result |-> "FAILED", c |-> c]
      [] ch.pidfile /\ daemon \in Live ->
            [result |-> "OK", c |-> [c EXCEPT !.s.pid = "daemon", !.s.tracking = Trackable]]
      [] OTHER -> [result |-> "TERMINATED", c |-> [c EXCEPT !.proc["daemon"] = "none"]]

handle_unexpected_termination(c, ch) ==
    LET d == process_queues(do_stop([c EXCEPT !.s.force_stop = TRUE], FALSE), ch)
    IN IF d.s.state = "STOPPING" /\ d.s.desired = "STARTED" THEN initiate_start(d) ELSE d

\* The daemon has ended, or the launcher of one that was to be stopped.
Terminated(c, ch) ==
    LET again == SmoothRecovery /\ c.s.desired = "STARTED"
        d == process_queues(restart_ps_process([CountRestart(c) EXCEPT !.s.recovering = TRUE], ch), ch)
    IN CASE c.s.state = "STOPPING" -> IF ~c.s.stop_pid /\ ~c.s.execstat THEN stopped(c) ELSE c
         [] c.s.state # "STOPPING" /\ again /\ check_restart(c) ->
                [d EXCEPT !.s.recovering = @ /\ d.s.state = "STARTED"]
         [] OTHER -> handle_unexpected_termination(
                        [c EXCEPT !.s.desired = IF again THEN "STOPPED" ELSE @], ch)

\* The launcher that was to replace a daemon has ended.
Recovered(c, ch, e) ==
    LET d == [c EXCEPT !.s.recovering = FALSE]
        f == read_pid_file(d, ch)
        failed == e # "clean" \/ f.result = "FAILED"
        g == IF e = "clean" THEN f.c ELSE d
    IN CASE c.s.state = "STOPPING" ->
                IF failed \/ f.result = "TERMINATED" THEN stopped(g) ELSE bring_down(g, ch)
         [] c.s.state # "STOPPING" /\ failed -> unrecoverable_stop(g)
         [] OTHER -> IF f.result = "TERMINATED" THEN Terminated(g, ch) ELSE g

\* The launcher has ended while the service was to start.
Launched(c, ch, e) ==
    LET f == read_pid_file(c, ch)
        failed == e # "clean" \/ f.result = "FAILED"
        up == started(f.c)
    IN CASE failed -> stopped(failed_to_start(c))
         [] ~failed /\ f.result = "OK" -> up
         [] OTHER -> Terminated(up, ch)

BgprocExit(c, ch, e) ==
    LET d == StopTimer(c)
    IN CASE d.s.recovering -> Recovered(d, ch, e)
         [] ~d.s.recovering /\ d.s.state = "STARTING" -> Launched(d, ch, e)
         [] OTHER -> Terminated(d, ch)

handle_exit_status(c, ch, e) ==
    process_queues(IF Scripted THEN ScriptedExit(c, ch, e) ELSE BgprocExit(c, ch, e), ch)

handle_stop_exit(c) ==
    IF c.s.pid = "none" \/ ~c.s.tracking THEN stopped([c EXCEPT !.s.stop_issued = FALSE]) ELSE c

exec_failed(c) ==
    IF Scripted
    THEN CASE c.s.state = "STARTING" -> stopped(failed_to_start(c))
           [] c.s.state = "STOPPING" -> stopped(c)
           [] OTHER -> c
    ELSE LET d == StopTimer(c)
         IN IF d.s.recovering THEN unrecoverable_stop([d EXCEPT !.s.recovering = FALSE])
            ELSE stopped(failed_to_start([d EXCEPT !.s.state = "STOPPING"]))

-----------------------------------------------------------------------------
(* Commands and callbacks.                                                 *)

\* The variables become those of a configuration.
Become(c) ==
    \E d \in {c} :
        /\ s' = d.s /\ proc' = d.proc /\ hurt' = d.hurt /\ pipe' = d.pipe
        /\ commands' = d.commands /\ dirty' = d.dirty /\ wrong' = d.wrong

Counted == [Config EXCEPT !.commands = @ + 1]

\* start() is a change of the desired state only, unless the service is STOPPED.
Start ==
    /\ commands < MaxCommands /\ s.desired = "STOPPED"
    /\ \E ch \in Choices :
         LET c == [Counted EXCEPT !.s.desired = "STARTED"] IN
         Become(process_queues(IF s.state = "STOPPED" THEN initiate_start(c) ELSE c, ch))

Restart ==
    /\ commands < MaxCommands /\ s.state = "STARTED"
    /\ \E ch \in Choices :
         Become(process_queues(do_stop([Counted EXCEPT !.s.force_stop = TRUE], TRUE), ch))

\* stop() and forced_stop(); of a service that is STOPPED only the first counts.
Stop ==
    /\ s.desired = "STARTED"
    /\ \E ch \in Choices :
         LET c == do_stop([Config EXCEPT !.s.desired = "STOPPED"], FALSE)
         IN Become(process_queues([c EXCEPT !.s.force_stop = TRUE], ch))

\* The exec status of the process that pid is for.
ExecStatus(p) ==
    /\ pipe[p] \in {"ok", "err"} /\ (p = "stop" => Scripted)
    /\ \E ch \in Choices :
         LET read == [Config EXCEPT !.pipe[p] = "none", !.s.execstat = FALSE]
             gone == IF s.pid = "none" THEN read
                     ELSE [StopTimer(read) EXCEPT !.s.pid = "none", !.proc[p] = "none"]
         IN CASE pipe[p] = "err" -> Become(process_queues(exec_failed(gone), ch))
              [] pipe[p] = "ok" /\ s.pid = "none" -> Become(handle_exit_status(read, ch, s.exit))
              [] OTHER -> Become(read)

\* The exec status of the stop command of a bgproc service.
StopStatus ==
    /\ ~Scripted /\ pipe["stop"] \in {"ok", "err"}
    /\ \E ch \in Choices :
         LET read == [Config EXCEPT !.pipe["stop"] = "none", !.s.execstat = FALSE]
             gone == Kill([read EXCEPT !.s.stop_pid = FALSE, !.proc["stop"] = "none"], s.pid, "term")
         IN CASE pipe["stop"] = "err" /\ s.stop_pid ->
                    IF s.pid # "none" /\ ~s.tracking
                    THEN Become(process_queues(stopped([gone EXCEPT !.s.stop_issued = FALSE]), ch))
                    ELSE Become(gone)
              [] pipe["stop"] = "ok" /\ ~s.stop_pid -> Become(process_queues(handle_stop_exit(read), ch))
              [] OTHER -> Become(read)

\* The end of the process pid is for: its exec status is waited for, if need be.
ChildStatus(p) ==
    /\ s.pid = p /\ proc[p] \in Ended /\ (ExitFirst \/ pipe[p] = "none")
    /\ \E ch \in Choices :
         LET c == [Config EXCEPT !.s.pid = "none", !.s.exit = proc[p], !.proc[p] = "none"]
         IN Become(IF s.execstat THEN c ELSE handle_exit_status(StopTimer(c), ch, proc[p]))

StopChildStatus ==
    /\ s.stop_pid /\ proc["stop"] \in Ended /\ (ExitFirst \/ pipe["stop"] = "none")
    /\ \E ch \in Choices :
         LET c == [Config EXCEPT !.s.stop_pid = FALSE, !.proc["stop"] = "none"]
         IN Become(IF s.execstat THEN c ELSE process_queues(handle_stop_exit(c), ch))

TimerExpired ==
    /\ s.armed
    /\ \E ch \in Choices :
         LET c == [Config EXCEPT !.s.armed = FALSE, !.s.stopstart = FALSE]
         IN CASE s.state = "STOPPING" -> Become(kill_with_fire(c))
              [] s.state # "STOPPING" /\ s.pid # "none" -> Become(failed_to_start(interrupt_start(c)))
              [] OTHER -> Become(process_queues(do_restart(c, ch), ch))

-----------------------------------------------------------------------------
(* The processes.                                                          *)

\* exec() in the child closes the pipe; if it fails, the child reports that and exits.
Exec(p) ==
    /\ proc[p] = "forked"
    /\ \/ /\ proc' = [proc EXCEPT ![p] = "running"]
          /\ pipe' = [pipe EXCEPT ![p] = "ok"]
       \/ /\ ExecMayFail
          /\ proc' = [proc EXCEPT ![p] = "fail"]
          /\ pipe' = [pipe EXCEPT ![p] = "err"]
    /\ UNCHANGED <<s, hurt, commands, dirty, wrong>>

\* A process ends.  A launcher that ends well leaves a daemon behind; one that is not
\* a child of dinit is gone when it ends.  A stop command that ends well has told the
\* daemon to end.
Ends(p, e) ==
    /\ \/ proc[p] = "running" /\ (e = "signal" => hurt[p] # "no" \/ (p = "start" /\ Skippable))
       \/ proc[p] = "forked" /\ hurt[p] # "no" /\ e = "signal"
    /\ p = "daemon" => EarlyEnd \/ s.pid = "daemon"
    /\ p = "stop" /\ e = "fail" => StopMayFail
    /\ proc' = [proc EXCEPT
                  !["daemon"] = IF ~Scripted /\ p = "start" /\ e = "clean" THEN "running" ELSE @,
                  ![p] = IF p = "daemon" /\ ~Trackable THEN "none" ELSE e]
    /\ pipe' = [pipe EXCEPT ![p] = IF @ = "open" THEN "ok" ELSE @]
    /\ hurt' = [hurt EXCEPT ![p] = "no",
                            !["daemon"] = IF p = "stop" /\ e = "clean" /\ proc["daemon"] = "running"
                                             /\ @ = "no" THEN "term" ELSE @]
    /\ dirty' = (dirty \/ (Scripted /\ p = "start" /\ e # "fail"))
    /\ UNCHANGED <<s, commands, wrong>>

Init ==
    /\ s = [state |-> "STOPPED", desired |-> "STOPPED", force_stop |-> FALSE, auto |-> FALSE,
            queued |-> FALSE, pid |-> "none", stop_pid |-> FALSE, execstat |-> FALSE,
            exit |-> "clean", tracking |-> FALSE, stop_issued |-> FALSE, recovering |-> FALSE,
            interrupting |-> FALSE, armed |-> FALSE, stopstart |-> FALSE, restart |-> FALSE,
            restarts |-> 0]
    /\ proc = [p \in Processes |-> "none"]
    /\ hurt = [p \in Processes |-> "no"]
    /\ pipe = [p \in Processes |-> "none"]
    /\ commands = 0 /\ dirty = FALSE /\ wrong = FALSE

Commands == Start \/ Restart \/ Stop
Callbacks ==
    \/ \E p \in Processes : ExecStatus(p) \/ ChildStatus(p)
    \/ StopStatus \/ StopChildStatus \/ TimerExpired
Next == Commands \/ Callbacks \/ \E p \in Processes : Exec(p) \/ \E e \in Ended : Ends(p, e)

Spec == Init /\ [][Next]_vars

\* A process ends when it is killed and, unless it is stubborn, when it is told to or
\* has run its course.
MustEnd(p) ==
    proc[p] \in Live /\ (hurt[p] = "kill" \/ (~Stubborn /\ (p # "daemon" \/ hurt[p] = "term")))
Work ==
    \/ Callbacks
    \/ \E p \in Processes : Exec(p) \/ (MustEnd(p) /\ \E e \in Ended : Ends(p, e))

\* ENABLED <<Work>>_vars: something is to be dispatched, or a process is to go on.
Ready ==
    \/ s.armed
    \/ \E p \in Processes :
         \/ pipe[p] \in {"ok", "err"}
         \/ proc[p] \in Ended /\ (s.pid = p \/ (p = "stop" /\ s.stop_pid)) /\ (ExitFirst \/ pipe[p] = "none")
         \/ proc[p] = "forked"
         \/ MustEnd(p) /\ (p = "daemon" => EarlyEnd \/ s.pid = "daemon")

\* The event loop dispatches what is ready, and the kernel runs the processes: WF_vars(Work).
FairSpec == Spec /\ ([]<>~Ready \/ []<><<Work>>_vars)

-----------------------------------------------------------------------------
(* Properties.                                                             *)

\* One process at a time, and a clean slate for each: the start command is run only
\* when no process of the service is left, for a scripted service only when its stop
\* command has followed the last start, and the stop command only once after a start
\* that may have had an effect (proc-service.h: "Service which is started and stopped
\* via separate commands").
CommandsAlternate == ~wrong

\* The one timer of a service runs only for a process that may take too long, or for a
\* restart that is due, and never in STOPPED: process_timer is stopped when what it
\* bounds has ended (timer_expired: "must be restarting").
TimerHasPurpose ==
    s.armed => s.state # "STOPPED" /\ (s.pid # "none" \/ s.stop_pid \/ s.restart \/ s.execstat)

\* A service that is STOPPED has cleaned up: it tracks no process, no command of it is
\* left, and a start that had an effect was undone by the stop command.
StoppedIsClean ==
    s.state = "STOPPED" =>
        /\ ~s.stop_pid /\ (s.tracking => s.pid = "none")
        /\ \A p \in {"start", "stop"} : proc[p] \notin Live
        /\ ~dirty

\* A service told to stop becomes STOPPED, unless it is told to start again.
StopCompletes == s.desired = "STOPPED" ~> (s.state = "STOPPED" \/ s.desired = "STARTED")
=============================================================================

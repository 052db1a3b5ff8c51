-------------------------- MODULE MCScriptService --------------------------
(***************************************************************************)
(* The setups of the runs about scripted and bgproc services.              *)
(***************************************************************************)
EXTENDS Naturals

CONSTANT Use    \* the setups of a run

VARIABLES s, proc, hurt, pipe, commands, dirty, wrong, setup
state == <<s, proc, hurt, pipe, commands, dirty, wrong>>
vars == <<state, setup>>

Base == [Kind |-> "scripted", SmoothRecovery |-> FALSE, AutoRestart |-> FALSE,
         StartInterruptible |-> FALSE, Skippable |-> FALSE, StopCommand |-> TRUE,
         Timeouts |-> FALSE, Trackable |-> TRUE, EarlyEnd |-> FALSE, StopMayFail |-> TRUE,
         ExecMayFail |-> FALSE, ExitFirst |-> FALSE, Stubborn |-> FALSE,
         MaxCommands |-> 4, MaxRestarts |-> 3]
Interruptible == [Base EXCEPT !.StartInterruptible = TRUE, !.AutoRestart = TRUE]
Bgproc == [Base EXCEPT !.Kind = "bgproc", !.AutoRestart = TRUE, !.StopMayFail = FALSE,
                       !.MaxCommands = 1]
Smooth == [Bgproc EXCEPT !.SmoothRecovery = TRUE, !.StopCommand = FALSE]

Setup == [
    \* In these the properties hold.
    script |-> [Base EXCEPT !.ExecMayFail = TRUE, !.ExitFirst = TRUE],
    interrupted |-> [Interruptible EXCEPT !.ExitFirst = TRUE],
    skipped |-> [Interruptible EXCEPT !.Skippable = TRUE, !.StopCommand = FALSE],
    timed |-> [Interruptible EXCEPT !.Timeouts = TRUE, !.Stubborn = TRUE],
    daemon |-> [Bgproc EXCEPT !.EarlyEnd = TRUE, !.ExitFirst = TRUE],
    signalled |-> [Bgproc EXCEPT !.StopCommand = FALSE, !.EarlyEnd = TRUE],
    untracked |-> [Bgproc EXCEPT !.Trackable = FALSE],
    recovering |-> Smooth,

    \* In these one of them does not: an exec() that fails when the start was interrupted,
    \* a short script whose start has a timeout, a stop while a restart is delayed;
    unfit |-> [Base EXCEPT !.Timeouts = TRUE, !.ExecMayFail = TRUE],
    short |-> [Base EXCEPT !.Timeouts = TRUE, !.ExitFirst = TRUE],
    delayed |-> [Base EXCEPT !.AutoRestart = TRUE],
    \* a second stop, a stop in smooth recovery (with an exec() that fails, or of a daemon
    \* that ended early), a stop command that outlives the daemon, or fails to exec().
    again |-> [Bgproc EXCEPT !.StopCommand = FALSE, !.MaxCommands = 2],
    recovery_unfit |-> [Smooth EXCEPT !.ExecMayFail = TRUE],
    recovery_early |-> [Smooth EXCEPT !.EarlyEnd = TRUE],
    outlived |-> [Bgproc EXCEPT !.Timeouts = TRUE],
    stop_unfit |-> [Bgproc EXCEPT !.ExecMayFail = TRUE],
    untracked_timed |-> [Bgproc EXCEPT !.Trackable = FALSE, !.Timeouts = TRUE]
]

R(n) ==
    INSTANCE ScriptService WITH
        Kind <- Setup[n].Kind, SmoothRecovery <- Setup[n].SmoothRecovery,
        AutoRestart <- Setup[n].AutoRestart, StartInterruptible <- Setup[n].StartInterruptible,
        Skippable <- Setup[n].Skippable, StopCommand <- Setup[n].StopCommand,
        Timeouts <- Setup[n].Timeouts, Trackable <- Setup[n].Trackable,
        EarlyEnd <- Setup[n].EarlyEnd, StopMayFail <- Setup[n].StopMayFail,
        ExecMayFail <- Setup[n].ExecMayFail, ExitFirst <- Setup[n].ExitFirst,
        Stubborn <- Setup[n].Stubborn, MaxCommands <- Setup[n].MaxCommands,
        MaxRestarts <- Setup[n].MaxRestarts

Picked(n) == setup = n /\ UNCHANGED setup
Init == \E n \in Use : setup = n /\ R(n)!Init
Next == \E n \in Use : Picked(n) /\ R(n)!Next
Ready == \E n \in Use : setup = n /\ R(n)!Ready
Work == \E n \in Use : Picked(n) /\ R(n)!Work
FairSpec == Init /\ [][Next]_vars /\ ([]<>~Ready \/ []<><<Work>>_vars)

-----------------------------------------------------------------------------
\* The commands of a service alternate, and run alone (see ScriptService).
CommandsAlternate == ~wrong

\* The timer of a service runs for something (see ScriptService).
TimerHasPurpose == \A n \in Use : setup = n => R(n)!TimerHasPurpose

\* A STOPPED service has cleaned up (see ScriptService).
StoppedIsClean == \A n \in Use : setup = n => R(n)!StoppedIsClean

StopEnds(n) == (setup = n /\ s.desired = "STOPPED") ~> (s.state = "STOPPED" \/ s.desired = "STARTED")

\* A service that is not set for smooth recovery, told to stop, becomes STOPPED: every
\* way through do_stop(), bring_down() and the end of the processes leads there.
StopCompletes == \A n \in {m \in Use : ~Setup[m].SmoothRecovery} : StopEnds(n)

\* The same of a service that is set for smooth recovery, whose launcher may be running
\* to replace a daemon that has ended (proc-service.cc, bgproc handle_exit_status).
RecoveryStopCompletes == \A n \in Use : StopEnds(n)
=============================================================================

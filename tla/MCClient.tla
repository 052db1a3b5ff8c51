------------------------------ MODULE MCClient ------------------------------
(***************************************************************************)
(* Small instances of the control programs.  A run names the setups it     *)
(* covers; the initial state picks one, and R(n) is the specification with *)
(* the constants of setup n.  The properties are those of Client, which    *)
(* use no constant: the values the cfg gives to its constants only make    *)
(* the module complete.                                                    *)
(***************************************************************************)
EXTENDS Client

CONSTANT Use
VARIABLE setup
setupVars == <<setup, vars>>

\* Commands: op, wait for the service, ignore a service that is not there, two services, online.
Cmd(op) == [op |-> op, wait |-> TRUE, ignore |-> FALSE, two |-> FALSE, online |-> TRUE]
Two(op) == [Cmd(op) EXCEPT !.two = TRUE]
Simple == {Cmd(op) : op \in {"unpin", "unload", "reload", "status", "is_started", "list", "trigger",
                             "signal", "catlog", "shutdown", "monitor"}}
          \cup {Two(op) : op \in {"add_dep", "rm_dep", "setenv"}}
Runs == {Cmd(op) : op \in {"start", "stop", "restart", "wake", "release"}}
Enabling == {Two("enable"), Two("disable"), [Two("enable") EXCEPT !.online = FALSE],
             [Two("disable") EXCEPT !.online = FALSE]}
Hasty == {[Cmd("start") EXCEPT !.wait = FALSE], [Cmd("restart") EXCEPT !.ignore = TRUE],
          [Cmd("stop") EXCEPT !.ignore = TRUE]}

S(cs, sync, fail, dep, oth, m) ==
    [commands |-> cs, sync |-> sync, fail |-> fail, dep |-> dep, others |-> oth, moves |-> m]
Setup ==
    [requests |-> S(Simple, FALSE, TRUE, FALSE, {}, 0),
     dropped |-> S({Cmd("unpin"), Cmd("start"), Cmd("shutdown")}, FALSE, FALSE, FALSE, {"drop"}, 0),
     running |-> S(Runs \cup Hasty, FALSE, TRUE, FALSE, {}, 0),
     dying |-> S({Cmd("start"), Cmd("restart")}, FALSE, FALSE, FALSE, {"die"}, 1),
     depended |-> S(Runs \ {Cmd("release")}, FALSE, TRUE, TRUE, {"drop"}, 0),
     prompt |-> S({Cmd("start"), Cmd("stop"), Cmd("list")}, TRUE, FALSE, FALSE, {}, 0),
     enabling |-> S(Enabling, FALSE, FALSE, TRUE, {}, 0),
     watching |-> S({Cmd("monitor")}, FALSE, TRUE, FALSE, {"start", "stop", "die"}, 2),
     cut_record |-> S({Cmd("unpin")}, FALSE, FALSE, FALSE, {}, 0),
     \* The setups below show the disagreements listed in the README.
     late_status |-> S({Two("enable")}, FALSE, TRUE, TRUE, {}, 0),
     idle_dependent |-> S({Two("enable")}, FALSE, FALSE, FALSE, {}, 0),
     early_failure |-> S({Cmd("start")}, TRUE, TRUE, FALSE, {}, 0),
     early_restart |-> S({Cmd("restart")}, TRUE, FALSE, FALSE, {}, 0),
     held |-> S({Cmd("release")}, FALSE, FALSE, TRUE, {}, 0),
     stopped_elsewhere |-> S({Cmd("start")}, FALSE, FALSE, FALSE, {"stop"}, 1),
     two_watched |-> S({Two("monitor")}, FALSE, FALSE, FALSE, {"start"}, 1),
     short_record |-> S({Cmd("start")}, FALSE, FALSE, FALSE, {}, 0)]

R(n) == INSTANCE Client WITH
    Commands <- Setup[n].commands, Sync <- Setup[n].sync, CanFail <- Setup[n].fail,
    Depended <- Setup[n].dep, Others <- Setup[n].others, MaxMoves <- Setup[n].moves,
    ShortRecords <- n \in {"cut_record", "short_record"}

SetupInit == \E n \in Use : setup = n /\ R(n)!Init
SetupNext == \E n \in Use : setup = n /\ R(n)!Next /\ UNCHANGED setup
SetupSpec == SetupInit /\ [][SetupNext]_setupVars
FairSetups ==
    SetupSpec /\ WF_setupVars(\E n \in Use : setup = n /\ R(n)!Work /\ UNCHANGED setup)
=============================================================================

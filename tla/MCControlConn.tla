--------------------------- MODULE MCControlConn ---------------------------
(***************************************************************************)
(* Control connections under several kinds of clients in one run.  A setup *)
(* gives the requests the clients send, the number of connections and what *)
(* else may happen (see ControlConn); R(n) is the specification with the   *)
(* constants of setup n.  The values the cfg gives to the constants of     *)
(* ControlConn only make the module complete: no property uses them.       *)
(***************************************************************************)
EXTENDS ControlConn

CONSTANT Use
VARIABLE setup
setupVars == <<setup, vars>>

Req(cmd, s, h, ok) == [cmd |-> cmd, svc |-> s, h |-> h, ok |-> ok]
OnHandle0(cmds) == {Req(cmd, "s1", 0, TRUE) : cmd \in cmds}
Find == {Req("FINDSERVICE", "s1", 0, TRUE)}
\* One connection with one service and one handle
One(requests, pending, out, environment) ==
  [requests |-> requests, conns |-> {"c1"}, services |-> {"s1"}, handle |-> 0, loads |-> 1,
   pending |-> pending, out |-> out, env |-> environment]

Setup ==
  [\* requests with short replies, one of them for a handle that was never given out
   short |-> One(OnHandle0({"QUERYVERSION", "SETENV", "CLOSEHANDLE"}), 3, 7, {"hangup", "partial"}),
   refusals |-> One(OnHandle0({"SIGNAL", "SETTRIGGER", "SHUTDOWN"}), 3, 7, {"hangup", "oom", "partial"}),
   \* finding, loading and closing, with two handles to lose
   handles |-> [One(Find \cup {Req("LOADSERVICE", "s2", 0, TRUE)} \cup OnHandle0({"gentle stop"})
                      \cup {Req("CLOSEHANDLE", "s1", h, TRUE) : h \in 0 .. 1}, 1, 2, {})
                EXCEPT !.conns = {"c1", "c2"}, !.services = {"s1", "s2"}, !.handle = 1, !.loads = 2],
   \* unloading and reloading, with one handle per connection
   unload |-> [One(Find \cup OnHandle0({"LOADSERVICE", "UNLOADSERVICE", "RELOADSERVICE", "CLOSEHANDLE"}),
                   1, 2, {"event"})
               EXCEPT !.conns = {"c1", "c2"}, !.loads = 2],
   \* everything else, on one handle
   other |-> One(Find \cup OnHandle0({"ADD_DEP", "REM_DEP", "STARTSERVICE", "UNPINSERVICE",
                   "LISTSERVICES", "SERVICESTATUS", "CATLOG", "QUERYSERVICENAME",
                   "QUERYSERVICEDSCDIR", "QUERY_LOAD_MECH"}), 1, 2,
                 {"event", "oom", "hangup", "partial"}),
   invalid |-> One({Req(cmd, "s1", 0, FALSE) : cmd \in {"FINDSERVICE", "SETENV", "SHUTDOWN", "ADD_DEP"}}
                     \cup Find \cup OnHandle0({"unrecognised"}), 2, 3, {"partial"}),
   \* The setups below show the disagreements listed in the README.
   unrecognised |-> One(OnHandle0({"unrecognised"}), 1, 3, {}),
   listing |-> One(OnHandle0({"LISTSERVICES"}), 1, 4, {"oom", "partial"}),
   two_handles |-> [One(Find \cup OnHandle0({"LOADSERVICE", "UNLOADSERVICE", "RELOADSERVICE"}), 1, 4, {})
                    EXCEPT !.handle = 1, !.loads = 2]]

R(n) == INSTANCE ControlConn WITH
  Conns <- Setup[n].conns, Services <- Setup[n].services, Requests <- Setup[n].requests,
  Environment <- Setup[n].env, MaxHandle <- Setup[n].handle, MaxLoads <- Setup[n].loads,
  MaxPending <- Setup[n].pending, MaxOut <- Setup[n].out,
  RbufSize <- 3, OutbufLimit <- 2, SizeMod <- 16

SetupInit == \E n \in Use : setup = n /\ R(n)!Init
SetupNext == \E n \in Use : setup = n /\ R(n)!Next /\ UNCHANGED setup
SetupSpec == SetupInit /\ [][SetupNext]_setupVars
Picked(n, c) == setup = n /\ c \in Setup[n].conns /\ UNCHANGED setup
FairSetups ==
  /\ SetupSpec
  /\ WF_setupVars(\E n \in Use : setup = n /\ R(n)!Callback /\ UNCHANGED setup)
  /\ \A c \in {"c1", "c2"} :
       /\ WF_setupVars(\E n \in Use : Picked(n, c) /\ (R(n)!DataReady(c) \/ R(n)!EndOfFile(c)))
       /\ WF_setupVars(\E n \in Use : Picked(n, c) /\ R(n)!SendReady(c))

-----------------------------------------------------------------------------
(* Properties of some of the setups *)

\* A connection that has sent all its output accepts commands: control_conn_cb stops reading only
\* above the high-water mark.  (Replies built in a vector break this, as the README reports;
\* the setups with them are left out here.)
AcceptsCommands ==
  setup \notin {"other", "handles", "unload", "invalid"} => \A c \in DOMAIN conn : Accepts(c)
\* A connection with a request outstanding for ever keeps being answered by process_packet (for
\* requests with short replies, which do not stall the connection).
RequestsServed ==
  <>[](setup = "short" /\ conn["c1"].open /\ conn["c1"].reqs # <<>>)
    => []<><<\E n \in Use : setup = n /\ R(n)!Reply /\ cb.conn = "c1">>_setupVars
\* A connection marked bad is closed by send_data (violated, as the README reports).
BadIsClosed == conn["c1"].bad ~> ~conn["c1"].open
=============================================================================

------------------------------- MODULE Client -------------------------------
(***************************************************************************)
(* The control programs, dinitctl and dinit-monitor, at their end of one   *)
(* control connection: what they ask, how much of each reply they wait     *)
(* for, how much they take off the buffer, and what they make of it.  The  *)
(* bytes the daemon has queued and the program has not yet consumed are    *)
(* the sequence wire, one element per field of a packet; the first `buf'   *)
(* of them are in the program's rbuffer.  The daemon is reduced to one     *)
(* service, with the events it sends its listeners.                        *)
(***************************************************************************)
EXTENDS Integers, Sequences

CONSTANTS
    Commands,   \* the commands considered: records [op, wait, ignore, online]
    Sync,       \* may the service finish a transition while its request is handled
    CanFail,    \* may the service fail to start
    Depended,   \* is the service held by a dependent
    Others,     \* what happens to the service meanwhile: subset of {"start", "stop", "die"}
    MaxMoves,   \* how often
    ShortRecords \* may a read, or the stream, end before the last field of a service record

VARIABLES
    cmd,        \* the command line
    pc,         \* where the program is
    left,       \* services to load, names to ask or variables to send, still
    result,     \* exit status, or -1
    req,        \* the request written and not yet handled
    wire, buf,  \* what was queued and not consumed; how much of it is in rbuffer
    closed,     \* the daemon has closed the connection
    sv,         \* the service: [state, target, forced]
    listening,  \* the connection has a handle for the service
    link, file, \* the dependency in the daemon's graph; the link in waits-for.d
    since,      \* states the service has been in since the command was handled
    told,       \* what dinit-monitor has last reported of the service
    moves

client == <<cmd, pc, left, result, told>>
server == <<sv, listening, link, since>>
vars == <<client, server, req, wire, buf, closed, file, moves>>

TwoServices == {"add_dep", "rm_dep", "enable", "disable"}
StartStop == {"start", "wake", "stop", "release", "restart"}
Stops == {"stop", "release"}
FindsFirst == {"unload", "reload", "status", "is_started"}
NewProtocol == {"trigger", "catlog", "signal"}
Wanted == IF cmd.op \in Stops THEN "STOPPED" ELSE "STARTED"
Switches == {"enable", "disable"}
Ops == TwoServices \cup StartStop \cup FindsFirst \cup NewProtocol
       \cup {"list", "shutdown", "setenv", "unpin", "monitor"}

\* What main() makes of a command line: only enabling and disabling are done offline, and
\* only a command that stops a service may ignore one that is not there.
CommandLines ==
    /\ Commands \subseteq [op : Ops, wait : BOOLEAN, ignore : BOOLEAN, two : BOOLEAN, online : BOOLEAN]
    /\ \A c \in Commands : /\ ~c.online => c.op \in Switches
                           /\ c.ignore => c.op \in Stops \cup {"restart"}

-----------------------------------------------------------------------------
(* Packets: a header, and as many further fields as the packet has.        *)

Long == [SERVICERECORD |-> 4, CPVERSION |-> 3, DEPENDENTS |-> 3, SERVICENAME |-> 3,
         SVCINFO |-> 3, SERVICESTATUS |-> 3, LOADER_MECH |-> 4, SVCDSCDIR |-> 3,
         SERVICE_LOG |-> 3, EVENT |-> 3]
Size(k) == IF k \in DOMAIN Long THEN Long[k] ELSE 1
Body == [kind |-> "body", about |-> "none"]
Packet(k, about) == <<[kind |-> k, about |-> about]>> \o [i \in 1..Size(k) - 1 |-> Body]
\* One packet of kind k after the other, about each of the given things
Packets(k, about) ==
    [i \in 1..Size(k) * Len(about) |->
        Packet(k, about[(i - 1) \div Size(k) + 1])[((i - 1) % Size(k)) + 1]]

-----------------------------------------------------------------------------
(* The program's buffer.                                                   *)

Header == wire[1].kind
About == wire[1].about
Arrived(n) == buf >= n
Take(n) == wire' = SubSeq(wire, n + 1, Len(wire)) /\ buf' = buf - n

\* Mutant: a field beyond the packet is waited for, as it is behind an event.
PacketAndOne == Size(Header) + 1
\* What the program reads up to before it goes on.
WholePacket == IF Header = "SERVICERECORD" /\ ShortRecords THEN 3 ELSE Size(Header)
InfoPoints == {"wait", "watch", "closing"}
NeededAt == IF pc \in InfoPoints THEN IF buf < 2 THEN 2 ELSE WholePacket
            ELSE IF buf < 1 THEN 1
            ELSE IF Header = "EVENT" THEN Size("EVENT") + 1 ELSE WholePacket
Reading == pc \notin {"start", "file", "link", "done"}

Finish(v) == pc' = "done" /\ result' = v /\ UNCHANGED <<cmd, req>>
Ask(r, p) == req' = r /\ pc' = p /\ UNCHANGED <<cmd, result>>

\* A read() on the socket returns some of what was queued.
fill_buffer_to ==
    /\ Reading /\ buf < NeededAt
    /\ \E n \in 1..Len(wire) - buf : buf' = buf + n
    /\ UNCHANGED <<client, server, req, wire, closed, file, moves>>

\* check_load_reply waits for the handle, and takes the last field of the record too.
RecordIsShort == pc \in {"load", "find"} /\ buf = 3 /\ Header = "SERVICERECORD"
\* start_stop_service reads the list of dependents.
ReadsDependents ==
    pc = "start_stop" /\ buf > 0 /\ Header = "DEPENDENTS" /\ cmd.op \in {"stop", "restart"}

\* End of file, perhaps before all that was queued was sent: an exception, which only the shutdown
\* command takes as good news.
EndOfStream ==
    /\ Reading /\ buf < NeededAt /\ closed
    /\ ~RecordIsShort /\ ~ReadsDependents
    /\ Finish(IF pc = "closing" THEN 0 ELSE 1)
    /\ UNCHANGED <<left, told, server, wire, buf, closed, file, moves>>

\* The list of dependents is read with fill_to, whose result is not looked at: the number of them is
\* what the buffer happens to hold, zero or more, and the names are asked for in vain.
DependentsCutShort ==
    /\ ReadsDependents /\ ~Arrived(Size("DEPENDENTS")) /\ closed
    /\ wire' = <<>> /\ buf' = 0
    /\ \/ Finish(1) /\ UNCHANGED left
       \/ Ask("name", "name") /\ left' = 1
    /\ UNCHANGED <<told, server, closed, file, moves>>

\* The length of the buffer wraps below zero: the program waits for nothing any more and takes
\* what the buffer happens to hold for its replies.
RecordCutShort ==
    /\ ShortRecords /\ RecordIsShort
    /\ \E v \in {0, 1} : Finish(v)
    /\ UNCHANGED <<left, told, server, wire, buf, closed, file, moves>>

\* Mutant: the byte consumed ahead of the packet's rest is forgotten.
SkipShort ==
    /\ Reading /\ pc \notin InfoPoints
    /\ Arrived(1) /\ Header = "EVENT" /\ Arrived(Size("EVENT") + 1)
    /\ Take(Size("EVENT") - 1)
    /\ UNCHANGED <<client, server, req, closed, file, moves>>

\* wait_for_reply drops an information packet, having read one byte beyond it.
SkipInfo ==
    /\ Reading /\ pc \notin InfoPoints
    /\ Arrived(1) /\ Header = "EVENT" /\ Arrived(Size("EVENT") + 1)
    /\ Take(Size("EVENT"))
    /\ UNCHANGED <<client, server, req, closed, file, moves>>

Replied(p) == pc = p /\ Arrived(1) /\ Header # "EVENT" /\ Arrived(WholePacket)
Rest == UNCHANGED <<server, closed, file, moves>>
Plain == UNCHANGED <<left, told>> /\ Rest
Keep == UNCHANGED <<wire, buf>>

-----------------------------------------------------------------------------
(* Loading, and what each command goes on to ask.                          *)

\* The service the model follows is the second of two, or the monitor's first.
LoadRequest(n) == IF n = (IF cmd.op = "monitor" THEN 1 ELSE 2) /\ cmd.two
                  THEN "load_from" ELSE "load"

Connect ==
    /\ pc = "start"
    /\ IF cmd.online THEN Ask("version", "version")
       ELSE pc' = "file" /\ UNCHANGED <<cmd, result, req>>
    /\ Plain /\ Keep

CheckVersion ==
    /\ Replied("version")
    /\ IF Header # "CPVERSION" \/ About = "v0" \/ (About = "v1" /\ cmd.op \in NewProtocol)
       THEN Finish(1)
       ELSE CASE cmd.op \in FindsFirst -> Ask("find", "find")
              [] cmd.op \in {"list", "shutdown"} -> Ask(cmd.op, cmd.op)
              [] cmd.op = "setenv" -> Ask("setenv", "setenv") \/ Finish(1)  \* too long to send
              [] OTHER -> Ask(LoadRequest(left), "load")
    /\ Take(3) /\ Plain

AfterLoad ==
    CASE cmd.op = "monitor" -> pc' = "watch" /\ UNCHANGED <<cmd, result, req>>
      [] cmd.op = "reload" -> Finish(0)
      [] cmd.op \in {"enable", "disable"} -> Ask("mech", "mech")
      [] cmd.op \in StartStop -> Ask(cmd.op, "start_stop")
      [] cmd.op \in {"add_dep", "rm_dep"} ->
            Ask(cmd.op, cmd.op) \/ Finish(1)    \* the same handle for both services
      [] OTHER -> Ask(cmd.op, cmd.op)

CheckLoadReply ==
    /\ Replied("load") /\ Arrived(Size(Header))
    /\ IF Header = "SERVICERECORD"
       THEN /\ Take(4)
            /\ told' = IF LoadRequest(left) = "load" THEN About ELSE told
            /\ IF left = 2 THEN left' = 1 /\ Ask(LoadRequest(1), "load")
               ELSE AfterLoad /\ UNCHANGED left
       ELSE Finish(IF cmd.ignore THEN 0 ELSE 1) /\ Keep /\ UNCHANGED <<left, told>>
    /\ Rest

FindReply ==
    /\ Replied("find") /\ Arrived(Size(Header))
    /\ CASE Header = "SERVICERECORD" ->
                Take(4) /\ Ask(cmd.op, IF cmd.op = "is_started" THEN "status" ELSE cmd.op)
         [] Header = "NOSERVICE" /\ cmd.op = "reload" -> Take(1) /\ Ask("load", "load")
         [] OTHER -> Keep /\ Finish(1)
    /\ Plain

-----------------------------------------------------------------------------
(* The replies of the single-request commands.                             *)

\* An acknowledgement is taken off the buffer, anything else ends the program.
AckReply(op) ==
    /\ cmd.op = op /\ Replied(op)
    /\ IF Header = "ACK" THEN Take(1) /\ Finish(0) ELSE Keep /\ Finish(1)
    /\ Plain

UnpinReply == AckReply("unpin")
UnloadReply == AckReply("unload")
ReloadReply == AckReply("reload")
TriggerReply == AckReply("trigger")
SignalReply == AckReply("signal")

\* A list: SVCINFO packets up to LISTDONE.
ListReply ==
    /\ Replied("list")
    /\ IF Header = "SVCINFO" THEN Take(Size("SVCINFO")) /\ UNCHANGED <<cmd, pc, result, req>>
       ELSE Keep /\ Finish(IF Header = "LISTDONE" THEN 0 ELSE 1)
    /\ Plain

StatusReply ==
    /\ Replied("status")
    /\ IF Header = "SERVICESTATUS"
       THEN /\ Take(2)
            /\ Finish(IF cmd.op = "is_started" /\ About # "STARTED" THEN 1 ELSE 0)
       ELSE Keep /\ Finish(1)
    /\ Plain

DependencyReply ==
    /\ Replied(cmd.op) /\ cmd.op \in {"add_dep", "rm_dep"}
    /\ Finish(IF Header = "ACK" THEN 0 ELSE 1)
    /\ Keep /\ Plain

\* One variable after the other; one that is too long is not sent.
SetenvReply ==
    /\ Replied("setenv")
    /\ IF Header = "ACK"
       THEN /\ Take(1)
            /\ \/ left = 2 /\ left' = 1 /\ Ask("setenv", "setenv")
               \/ left = 2 /\ Finish(1) /\ UNCHANGED left
               \/ left = 1 /\ Finish(0) /\ UNCHANGED left
       ELSE Keep /\ Finish(1) /\ UNCHANGED left
    /\ UNCHANGED told /\ Rest

CatLogReply ==
    /\ Replied("catlog")
    /\ IF Header = "SERVICE_LOG" THEN Take(Size("SERVICE_LOG")) /\ Finish(0)
       ELSE Keep /\ Finish(1)
    /\ Plain

\* The acknowledgement stays in the buffer; the program then waits for the end.
ShutdownReply ==
    /\ Replied("shutdown")
    /\ IF Header = "ACK" THEN pc' = "closing" /\ UNCHANGED <<cmd, result, req>> ELSE Finish(1)
    /\ Keep /\ Plain

Closing ==
    /\ pc = "closing" /\ Arrived(2) /\ Arrived(WholePacket)
    /\ IF Header = "EVENT" THEN Take(Size("EVENT")) /\ UNCHANGED <<cmd, pc, result, req>>
       ELSE Keep /\ Finish(0)
    /\ Plain

-----------------------------------------------------------------------------
(* Starting and stopping a service, and waiting for it.                    *)

StartStopReply ==
    /\ Replied("start_stop")
    /\ CASE Header = "ALREADYSS" -> Take(1) /\ Finish(0) /\ UNCHANGED left
         [] Header = "DEPENDENTS" /\ cmd.op \in {"stop", "restart"} ->
                Take(Size("DEPENDENTS")) /\ left' = 1 /\ Ask("name", "name")
         [] Header = "NAK" /\ cmd.op = "restart" ->
                Take(1) /\ Finish(IF cmd.ignore THEN 0 ELSE 1) /\ UNCHANGED left
         [] Header = "ACK" ->
                /\ Take(1) /\ UNCHANGED left
                /\ IF cmd.wait THEN pc' = "wait" /\ UNCHANGED <<cmd, result, req>> ELSE Finish(0)
         [] OTHER -> Take(1) /\ Finish(1) /\ UNCHANGED left
    /\ UNCHANGED told /\ Rest

\* The name of each dependent that is in the way is asked for and shown.
NameReply ==
    /\ Replied("name")
    /\ IF Header # "SERVICENAME" THEN Keep /\ Finish(1) /\ UNCHANGED left
       ELSE /\ Take(Size("SERVICENAME")) /\ left' = left - 1
            /\ IF left > 1 THEN Ask("name", "name") ELSE Finish(1)
    /\ UNCHANGED told /\ Rest

Cancelled == IF cmd.op \in Stops THEN {"STOPCANCELLED"} ELSE {"STARTCANCELLED", "FAILEDSTART"}

\* Mutant: the event of the service's stop ends any wait.
WaitAnyEvent ==
    /\ pc = "wait" /\ Arrived(2) /\ Arrived(WholePacket)
    /\ Keep /\ Finish(IF About \in {"STOPPED", Wanted} THEN 0 ELSE 1) /\ Plain

\* wait_service_state: until the wanted event, or one that rules it out.
WaitEvent ==
    /\ pc = "wait" /\ Arrived(2) /\ Arrived(WholePacket)
    /\ CASE Header # "EVENT" -> Keep /\ Finish(1)
         [] Header = "EVENT" /\ About = Wanted -> Keep /\ Finish(0)
         [] Header = "EVENT" /\ About \in Cancelled -> Keep /\ Finish(IF cmd.op = "enable" THEN 0 ELSE 1)
         [] OTHER -> Take(Size("EVENT")) /\ UNCHANGED <<cmd, pc, result, req>>
    /\ Plain

-----------------------------------------------------------------------------
(* Enabling and disabling: the daemon's graph and the file system.         *)

LoadMechReply ==
    /\ Replied("mech")
    /\ IF Header = "LOADER_MECH" THEN Take(Size("LOADER_MECH")) /\ Ask("dscdir", "dscdir_from")
       ELSE Keep /\ Finish(1)
    /\ Plain

DscDirReply ==
    /\ \/ Replied("dscdir_from") \/ Replied("dscdir_to")
    /\ IF Header # "SVCDSCDIR" THEN Keep /\ Finish(1)
       ELSE /\ Take(Size("SVCDSCDIR"))
            /\ IF pc = "dscdir_from" THEN Ask("dscdir", "dscdir_to")
               ELSE pc' = "file" /\ UNCHANGED <<cmd, result, req>>
    /\ Plain

\* The description of `from', which may not do, and the entry in waits-for.d.
ReadDescription ==
    /\ pc = "file"
    /\ \/ Finish(1)
       \/ ~(cmd.op = "enable" /\ file) /\ cmd.online
          /\ Ask(IF cmd.op = "enable" THEN "enable" ELSE "rm_dep", "enable")
       \/ ~(cmd.op = "enable" /\ file) /\ ~cmd.online
          /\ pc' = "link" /\ UNCHANGED <<cmd, result, req>>
    /\ Keep /\ Plain

EnableReply ==
    /\ Replied("enable")
    /\ IF Header = "ACK" THEN Take(1) /\ pc' = "link" /\ UNCHANGED <<cmd, result, req>>
       ELSE Keep /\ Finish(1)
    /\ Plain

\* symlink() or unlink(), either of which may fail.
MakeLink ==
    /\ pc = "link"
    /\ \/ Finish(1) /\ UNCHANGED file
       \/ /\ file = (cmd.op = "disable") /\ file' = ~file
          /\ IF cmd.online THEN Ask("status", "estatus") ELSE Finish(0)
    /\ Keep /\ UNCHANGED <<left, told, server, closed, moves>>

EnableStatus ==
    /\ Replied("estatus")
    /\ CASE Header # "SERVICESTATUS" -> Keep /\ Finish(1)
         [] Header = "SERVICESTATUS" /\ cmd.op = "enable" /\ About # "STARTED" ->
                Take(3) /\ pc' = "wait" /\ UNCHANGED <<cmd, result, req>>
         [] OTHER -> Take(3) /\ Finish(0)
    /\ Plain

-----------------------------------------------------------------------------
(* dinit-monitor: every event is reported by a command.                    *)

\* Mutant: a stop is not reported.
IssueStarts(e) == IF e = "STARTED" THEN e ELSE told

\* The command run for an event: only three of them have a text.
IssueCommand(e) == CASE e = "FAILEDSTART" -> "STOPPED"
                     [] e \in {"STARTED", "STOPPED"} -> e
                     [] OTHER -> told

Watch ==
    /\ pc = "watch" /\ Arrived(2) /\ Arrived(WholePacket)
    /\ IF Header = "EVENT"
       THEN /\ Take(Size("EVENT"))
            /\ told' = IssueCommand(About)
            /\ UNCHANGED <<cmd, pc, result, req>>
       ELSE Keep /\ Finish(1) /\ UNCHANGED told
    /\ UNCHANGED left /\ Rest

-----------------------------------------------------------------------------
(* The daemon: what a request does to the service, and the events that     *)
(* are queued to the connection before its reply.                          *)

Told(evs) == {evs[i] : i \in DOMAIN evs}
\* force_stop lasts until the service has stopped.
Out(st, tg, evs) == [state |-> st, target |-> tg, events |-> evs,
                     forced |-> sv.forced /\ "STOPPED" \notin Told(evs)]
\* forced_stop(): a stop that a start does not cancel
Forced(outs) == {[o EXCEPT !.forced = o.state # "STOPPED"] : o \in outs}
IfSync(outs) == IF Sync THEN outs ELSE {}
Failures == IF CanFail THEN {Out("STOPPED", "STOPPED", <<"FAILEDSTART", "STOPPED">>),
                             Out("STOPPING", "STOPPED", <<"FAILEDSTART">>)} ELSE {}

StartResults ==
    CASE sv.state = "STOPPED" ->
            {Out("STARTING", "STARTED", <<>>)} \cup
            IfSync({Out("STARTED", "STARTED", <<"STARTED">>)} \cup Failures)
      [] sv.state = "STOPPING" ->
            {Out("STOPPING", "STARTED", <<>>)} \cup
            (IF sv.forced THEN {} ELSE {Out("STARTING", "STARTED", <<"STOPCANCELLED">>)})
      [] OTHER -> {Out(sv.state, "STARTED", <<>>)}

StopResults ==
    CASE sv.state = "STARTED" ->
            {Out("STOPPING", "STOPPED", <<>>)} \cup
            IfSync({Out("STOPPED", "STOPPED", <<"STOPPED">>)})
      [] sv.state = "STARTING" ->
            {Out("STARTING", "STOPPED", <<>>), Out("STARTING", "STOPPED", <<"STARTCANCELLED">>),
             Out("STOPPING", "STOPPED", <<"STARTCANCELLED">>)}
      [] OTHER -> {Out(sv.state, "STOPPED", <<>>)}

RestartResults ==
    Forced({Out("STOPPING", "STARTED", <<>>)}) \cup
    IfSync({Out("STARTED", "STARTED", <<"STOPPED", "STARTED">>)})

Unchanged == Out(sv.state, sv.target, <<>>)
Passed(o) == {o.state} \cup (Told(o.events) \cap {"STARTED", "STOPPED"})
Queued(o) == IF listening THEN Packets("EVENT", o.events) ELSE <<>>
Becoming(o) == sv' = [state |-> o.state, target |-> o.target, forced |-> o.forced]

\* The service goes to o; the events are queued, then the reply.
Answer(o, reply) ==
    /\ Becoming(o) /\ since' = Passed(o)
    /\ wire' = wire \o Queued(o) \o reply /\ req' = "none"
    /\ UNCHANGED <<client, buf, closed, file, moves>>
Acked(o, st) == Packet(IF o.state = st THEN "ALREADYSS" ELSE "ACK", "none")
Say(k) == Answer(Unchanged, Packet(k, "none"))

Handling(r) == req = r /\ ~closed
Same == UNCHANGED <<listening, link>>

ServeVersion == Handling("version") /\ Same /\ \E v \in {"v0", "v1", "v2"} : Answer(Unchanged, Packet("CPVERSION", v))

ServeLoad ==
    /\ \/ Handling("load") \/ Handling("load_from") \/ Handling("find")
    /\ \/ /\ listening' = (listening \/ req # "load_from") /\ UNCHANGED link
          /\ Answer(Unchanged, Packet("SERVICERECORD", sv.state))
       \/ Same /\ Say("NOSERVICE")
       \/ req # "find" /\ Same /\ Say("SERVICE_DESC_ERR")

ServeStart ==
    /\ Handling("start") /\ Same
    /\ \/ \E o \in StartResults : Answer(o, Acked(o, "STARTED"))
       \/ sv.state \in {"STOPPED", "STOPPING"} /\ Say("PINNEDSTOPPED")
       \/ Say("SHUTTINGDOWN")

ServeWake ==
    /\ Handling("wake") /\ Same
    /\ \/ Depended /\ \E o \in StartResults : Answer(o, Acked(o, "STARTED"))
       \/ ~Depended /\ Say(IF sv.state = "STARTED" THEN "ALREADYSS" ELSE "NAK")
       \/ sv.state \in {"STOPPED", "STOPPING"} /\ Say("PINNEDSTOPPED")
       \/ Say("SHUTTINGDOWN")

ServeStop ==
    /\ Handling("stop") /\ Same
    /\ \/ ~Depended /\ \E o \in Forced(StopResults) : Answer(o, Acked(o, "STOPPED"))
       \/ Depended /\ Say("DEPENDENTS")
       \/ sv.state \in {"STARTED", "STARTING"} /\ Say("PINNEDSTARTED")

ServeRestart ==
    /\ Handling("restart") /\ Same
    /\ \/ Depended /\ Say("DEPENDENTS")
       \/ ~Depended /\ sv.state # "STARTED" /\ Say("NAK")
       \/ ~Depended /\ sv.state = "STARTED"
          /\ \E o \in RestartResults : Answer(o, Packet("ACK", "none"))
       \/ sv.state \in {"STARTED", "STARTING"} /\ Say("PINNEDSTARTED")
       \/ Say("SHUTTINGDOWN")

ServeRelease ==
    /\ Handling("release") /\ Same
    /\ \E o \in IF Depended THEN {Unchanged} ELSE StopResults : Answer(o, Acked(o, "STOPPED"))

\* The new dependency starts the service if the dependent is up.
ServeEnable ==
    /\ Handling("enable") /\ UNCHANGED listening
    /\ \/ link' = TRUE /\ \E o \in IF Depended THEN StartResults ELSE {Unchanged} :
                              Answer(o, Packet("ACK", "none"))
       \/ UNCHANGED link /\ Say("NAK")

ServeAddDep ==
    /\ Handling("add_dep") /\ UNCHANGED listening
    /\ \/ link' = TRUE /\ Say("ACK")
       \/ UNCHANGED link /\ Say("NAK")

ServeRmDep ==
    /\ Handling("rm_dep") /\ UNCHANGED listening /\ link' = FALSE
    /\ \/ link /\ \E o \in StopResults \cup {Unchanged} : Answer(o, Packet("ACK", "none"))
       \/ ~link /\ Say("NAK")

ServeStatus == Handling("status") /\ Same /\ Answer(Unchanged, Packet("SERVICESTATUS", sv.state))
ServeStarted == Handling("is_started") /\ Same /\ Answer(Unchanged, Packet("SERVICESTATUS", sv.state))
ServeList == Handling("list") /\ Same /\ \E n \in 0..2 :
    Answer(Unchanged, Packets("SVCINFO", [i \in 1..n |-> "none"]) \o Packet("LISTDONE", "none"))

\* Requests that leave the service as it is.
Answers == [unpin |-> {"ACK"}, unload |-> {"ACK", "NAK"}, reload |-> {"ACK", "NAK"},
            trigger |-> {"ACK", "NAK"}, signal |-> {"ACK", "NAK", "SIGNAL_NOPID"},
            setenv |-> {"ACK", "BADREQ"}, catlog |-> {"SERVICE_LOG", "NAK"},
            mech |-> {"LOADER_MECH"}, dscdir |-> {"SVCDSCDIR"}, name |-> {"SERVICENAME"}]
ServeOther ==
    /\ ~closed /\ req \in DOMAIN Answers
    /\ \E k \in Answers[req] : Say(k) /\ listening' = (listening /\ ~(req = "unload" /\ k = "ACK"))
    /\ UNCHANGED link

ServeShutdown == Handling("shutdown") /\ Same /\ \E o \in StopResults : Answer(o, Packet("ACK", "none"))

Serve == \/ ServeVersion \/ ServeLoad \/ ServeStart \/ ServeWake \/ ServeStop \/ ServeRestart
         \/ ServeRelease \/ ServeEnable \/ ServeAddDep \/ ServeRmDep \/ ServeStatus
         \/ ServeStarted \/ ServeList \/ ServeOther \/ ServeShutdown

-----------------------------------------------------------------------------
(* The service on its own.                                                 *)

Becomes(o) ==
    /\ Becoming(o) /\ since' = since \cup Passed(o)
    /\ wire' = IF closed THEN wire ELSE wire \o Queued(o)
    /\ UNCHANGED <<client, listening, link, req, buf, closed, file>>

SettleResults ==
    CASE sv.state = "STARTING" ->
            {Out(IF sv.target = "STOPPED" \/ sv.forced THEN "STOPPING" ELSE "STARTED", sv.target,
                 <<"STARTED">>)}
            \cup Failures
      [] sv.state = "STOPPING" ->
            {Out(IF sv.target = "STARTED" THEN "STARTING" ELSE "STOPPED", sv.target, <<"STOPPED">>)}
      [] OTHER -> {}

\* A transition completes: the process is up, has failed or has gone.
Settle == \E o \in SettleResults : Becomes(o) /\ UNCHANGED moves

\* Another connection's command, or the service's own process, intervenes.
Meanwhile ==
    /\ moves < MaxMoves /\ moves' = moves + 1
    /\ \/ "start" \in Others /\ \E o \in StartResults : Becomes(o)
       \/ "stop" \in Others /\ \E o \in StopResults \cup Forced(StopResults) : Becomes(o)
       \/ "die" \in Others /\ sv.state = "STARTED"
          /\ \E t \in {"STARTED", "STOPPED"} : \E o \in Forced({Out("STOPPING", t, <<>>)}) : Becomes(o)

\* The daemon exits when all services have stopped after a shutdown.
Exit ==
    /\ pc = "closing" /\ ~closed /\ sv.state = "STOPPED"
    /\ closed' = TRUE
    /\ UNCHANGED <<client, server, req, wire, buf, file, moves>>

\* The connection is lost.
Drop ==
    /\ "drop" \in Others /\ ~closed
    /\ closed' = TRUE
    /\ UNCHANGED <<client, server, req, wire, buf, file, moves>>

Init ==
    /\ cmd \in Commands
    /\ pc = "start" /\ result = -1 /\ told = "none"
    /\ left = IF cmd.two THEN 2 ELSE 1
    /\ req = "none" /\ wire = <<>> /\ buf = 0 /\ closed = FALSE
    /\ sv \in [state : {"STOPPED"}, target : {"STOPPED"}, forced : {FALSE}] \cup
              [state : {"STARTED"}, target : {"STARTED"}, forced : {FALSE}] \cup
              [state : {"STARTING", "STOPPING"}, target : {"STOPPED", "STARTED"}, forced : BOOLEAN]
    /\ listening = FALSE /\ since = {} /\ moves = 0
    /\ link \in BOOLEAN /\ file \in BOOLEAN /\ ((link \/ file) => cmd.op \in TwoServices)

Program ==
    \/ Connect \/ fill_buffer_to \/ EndOfStream \/ DependentsCutShort \/ RecordCutShort
    \/ SkipInfo \/ CheckVersion
    \/ CheckLoadReply \/ FindReply \/ UnpinReply \/ UnloadReply \/ ReloadReply
    \/ TriggerReply \/ SignalReply \/ ListReply \/ StatusReply \/ DependencyReply
    \/ SetenvReply \/ CatLogReply \/ ShutdownReply \/ Closing \/ StartStopReply
    \/ NameReply \/ WaitEvent \/ LoadMechReply \/ DscDirReply \/ ReadDescription
    \/ EnableReply \/ MakeLink \/ EnableStatus \/ Watch

Next == Program \/ Serve \/ Settle \/ Meanwhile \/ Exit \/ Drop

Spec == Init /\ [][Next]_vars

\* As long as the program, the daemon or the service has something to do, one of
\* them does it.  None can go on for ever while another one waits.
Work == Program \/ Serve \/ Settle \/ Exit
FairSpec == Spec /\ WF_vars(Work)

-----------------------------------------------------------------------------
(* A header is only read at the start of a packet: each command takes off  *)
(* the buffer exactly the fields of each packet it is sent, in whatever    *)
(* pieces they arrive and whatever events come between them                *)
(* (dinitctl.cc, dinit-client.h wait_for_reply).                           *)
InStep == (Reading /\ Len(wire) > 0) => Header # "body"

\* What the exit status 0 of a command promises.
Promised ==
    CASE cmd.op \in {"start", "wake"} -> cmd.wait => "STARTED" \in since
      [] cmd.op \in Stops -> (cmd.wait /\ ~cmd.ignore) => "STOPPED" \in since
      [] cmd.op = "restart" -> (cmd.wait /\ ~cmd.ignore) => {"STOPPED", "STARTED"} \subseteq since
      [] cmd.op = "is_started" -> "STARTED" \in since
      [] cmd.op = "enable" -> file /\ (cmd.online => link)
      [] cmd.op = "disable" -> ~file /\ (cmd.online => ~link)
      [] cmd.op = "shutdown" -> closed
      [] OTHER -> TRUE

\* A program that exits with status 0 tells the truth: the service was in the
\* wanted state after its command was handled (and was down in between, for a
\* restart), graph and file system both have the dependency, the connection was
\* closed (start_stop_service, enable_disable_service, shutdown_dinit).
SuccessIsTrue == result = 0 => Promised

\* The program does not wait for an event that was sent before it listened for
\* it: while it waits, the service is on its way or a decisive event is in
\* flight (wait_service_state).
WaitHasEnd ==
    (pc = "wait" /\ ~closed) =>
        \/ sv.state \in {"STARTING", "STOPPING"}
        \/ \E i \in 1..Len(wire) : wire[i].kind = "EVENT" /\ wire[i].about \in {Wanted} \cup Cancelled

\* Once all that was sent is read, what dinit-monitor last reported of the
\* service is the state the service settled in (dinit_monitor_main).
ReportIsCurrent ==
    (pc = "watch" /\ wire = <<>> /\ ~closed /\ sv.state \in {"STARTED", "STOPPED"})
        => told = sv.state

\* Every command comes to an end (dinitctl_main).
Returns == cmd.op # "monitor" => <>(pc = "done")
=============================================================================

---------------------------- MODULE ControlConn ----------------------------
(***************************************************************************)
(* The control protocol server: the control_conn_t objects, one for every  *)
(* client of the control socket.  A connection collects bytes in a fixed   *)
(* receive buffer, processes complete requests in the loop of data_ready,  *)
(* queues replies and service events, and writes them as the socket allows.*)
(*                                                                         *)
(* Sizes are in units: a request is 1 to 3 units long (type, fixed part,   *)
(* name), a short reply 1 and a long one (built in a vector) 2.  Reply     *)
(* codes are left out; how a reply is queued, whether the request is       *)
(* consumed before or after, and whether the connection turns bad are not. *)
(* What a request does to the services is abstracted to the service events *)
(* that it raises; module ServiceSet has the rest.                         *)
(***************************************************************************)
EXTENDS Integers, Sequences, FiniteSets, FiniteSetsExt

CONSTANTS
  Conns,       \* connection slots
  Services,    \* names of the services that exist
  Requests,    \* the requests the clients may send
  Environment, \* what else may happen: subset of
               \* {"event", "hangup", "oom", "partial"} (partial reads and writes)
  MaxHandle,   \* handles are 0..MaxHandle
  MaxLoads,    \* times a service can be loaded
  MaxPending,  \* requests a client sends ahead of the replies
  MaxOut,      \* packets that fit in memory
  RbufSize,    \* capacity of rbuf
  OutbufLimit, \* OUTBUF_LIMIT
  SizeMod      \* outbuf_size counts modulo this

ShortCmds == {"QUERYVERSION", "LISTSERVICES", "QUERY_LOAD_MECH", "unrecognised"}
NamedCmds == {"FINDSERVICE", "LOADSERVICE", "SETENV"}
\* "ok" is FALSE for a request whose length, shutdown type, dependency type or text is invalid.

VARIABLES
  conn,       \* the state of each connection
  cb,         \* the callback of the event loop that is running
  notify,     \* service_event calls still to be made: connection and handle
  loaded,     \* services with a service_record
  generation, \* how often each service was loaded: tells records apart
  listeners   \* service_record::listeners

vars == <<conn, cb, notify, loaded, generation, listeners>>

Idle == [conn |-> "none", out |-> FALSE, at |-> "idle", replies |-> <<>>, late |-> FALSE]
\* control_conn_t's fields; the last three are facts about the peer: whether it is still there,
\* the bytes it sent that were not read, and whether it was left with part of a packet.
NewConn == [open |-> TRUE, bad |-> FALSE, oom |-> FALSE, chklen |-> 0, avail |-> 0,
            keys |-> {}, outbuf |-> <<>>, outbuf_size |-> 0, outpkt_index |-> 0,
            watch |-> {"IN"}, reqs |-> <<>>, peer |-> TRUE, wire |-> 0, torn |-> FALSE]
Closed == [NewConn EXCEPT !.open = FALSE, !.watch = {}]

Init ==
  /\ conn = [c \in Conns |-> Closed]
  /\ cb = Idle
  /\ notify = {}
  /\ loaded \in SUBSET Services
  /\ generation = [s \in Services |-> 1]
  /\ listeners = [s \in Services |-> {}]

-----------------------------------------------------------------------------
\* A service_record; key_service_map and service_key_map are kept as one set of entries
\* [h, ptr, listed] in which "listed" says that service_key_map has the entry too.
Pointer(s) == [svc |-> s, gen |-> generation[s]]
Live(p) == p.svc \in loaded /\ p.gen = generation[p.svc]
find_service_for_key(k, h) == {e.ptr : e \in {x \in k.keys : x.h = h}}
HandlesFor(k, p) == {e.h : e \in {x \in k.keys : x.ptr = p /\ x.listed}}

\* allocate_service_handle: the lowest handle that is not in use.
FreeHandle(k) == Min((0 .. MaxHandle + 1) \ {e.h : e \in k.keys})
Allocated(k, p) == [k EXCEPT !.keys = @ \cup {[h |-> FreeHandle(k), ptr |-> p, listed |-> TRUE]}]

(***************************************************************************)
(* queue_packet: write at once if nothing is queued, and queue what the    *)
(* socket did not take.  The version for short packets queues the rest of  *)
(* the packet; the one for vectors moves the whole packet into the queue   *)
(* and then adds the size of the vector it moved from, which is zero.      *)
(***************************************************************************)
Queued(k, p, wr) ==
  [k EXCEPT !.outbuf = Append(@, IF p.moved THEN p.n ELSE p.n - wr),
            !.outpkt_index = IF p.moved /\ k.outbuf = <<>> THEN wr ELSE @,
            !.outbuf_size = (@ + (IF p.moved THEN 0 ELSE p.n - wr)) % SizeMod]
NoMemory(k, wr) == [k EXCEPT !.bad = TRUE, !.oom = TRUE, !.torn = @ \/ wr > 0]
\* The possible results of queue_packet: the connection and the return value.
queue_packet(k, p) ==
  LET empty == k.outbuf = <<>>
      taken == IF ~empty THEN {0} ELSE IF "partial" \in Environment THEN 0 .. p.n - 1 ELSE {}
  IN IF empty /\ ~k.peer THEN {[k |-> k, ok |-> FALSE]}
     ELSE {[k |-> k, ok |-> TRUE] : x \in {0} \cap (IF empty THEN {0} ELSE {})}
          \cup {[k |-> Queued(k, p, wr), ok |-> TRUE] : wr \in {x \in taken : Len(k.outbuf) < MaxOut}}
          \cup {[k |-> NoMemory(k, wr), ok |-> ~empty] :
                  wr \in {x \in taken : "oom" \in Environment \/ Len(k.outbuf) >= MaxOut}}

Short == [n |-> 1, moved |-> FALSE, bad |-> FALSE]
Long == [n |-> 2, moved |-> TRUE, bad |-> FALSE]
BadReq == [n |-> 1, moved |-> FALSE, bad |-> TRUE]

Size(r) == IF r.cmd \in ShortCmds THEN 1 ELSE IF r.cmd \in NamedCmds THEN 3 ELSE 2
OneMoreNeeded(k, r) == Size(r) + 1
\* The length up to which a handler wants the packet before it goes on.
Needed(k, r) == IF r.cmd \in NamedCmds /\ (k.avail < 2 \/ ~r.ok) THEN 2 ELSE Size(r)
Consumed(k) ==
  [k EXCEPT !.avail = @ - Size(Head(k.reqs)), !.reqs = Tail(@), !.chklen = 0]

Quiet == notify = {} /\ cb = Idle
Me == conn[cb.conn]
Request == Head(Me.reqs)
InLoop == notify = {} /\ cb.at = "loop" /\ Me.avail >= Me.chklen
Handling(cmds) == InLoop /\ Request.cmd \in cmds /\ Me.avail >= Needed(Me, Request)
\* The rest of the handler: queue the replies in order, and consume the request after them
\* unless that was done before.
Answer(k, replies, late) ==
  /\ conn' = [conn EXCEPT ![cb.conn] = k]
  /\ cb' = [cb EXCEPT !.at = "reply", !.replies = replies, !.late = late]
Refuse == Answer(Me, <<BadReq>>, FALSE)
SetUnchanged == UNCHANGED <<loaded, generation, listeners>>
\* The service events an operation on the services raises
Events(changed) ==
  notify' = UNION {{<<x[2], h>> : h \in HandlesFor(conn[x[2]], Pointer(x[1]))} :
                     x \in {y \in changed \X Conns : y[2] \in listeners[y[1]]}}

-----------------------------------------------------------------------------
\* The packet is not complete yet; the loop ends when fewer than chklen units are there.
Incomplete ==
  /\ InLoop
  /\ Me.avail < Needed(Me, Request)
  /\ conn' = [conn EXCEPT ![cb.conn].chklen = Needed(Me, Request)]
  /\ UNCHANGED <<cb, notify, loaded, generation, listeners>>

ProcessQueryVersion ==
  /\ Handling({"QUERYVERSION"})
  /\ Answer(Me, <<Short>>, TRUE)
  /\ UNCHANGED notify /\ SetUnchanged

ProcessFindLoad ==
  /\ Handling({"FINDSERVICE", "LOADSERVICE"})
  /\ UNCHANGED notify
  /\ \/ ~Request.ok /\ Refuse /\ SetUnchanged
     \/ \* not found, or the description has an error
        /\ Request.ok /\ Request.svc \notin loaded
        /\ Answer(Consumed(Me), <<Long>>, FALSE)
        /\ SetUnchanged
     \/ \* found: the new handle's listener is added with the first handle for the record
        /\ Request.ok /\ Request.svc \in loaded
        /\ FreeHandle(Me) <= MaxHandle
        /\ Answer(Allocated(Consumed(Me), Pointer(Request.svc)), <<Long>>, FALSE)
        /\ listeners' = [listeners EXCEPT ![Request.svc] = @ \cup {cb.conn}]
        /\ UNCHANGED <<loaded, generation>>
     \/ \* loaded now
        /\ Request.ok /\ Request.cmd = "LOADSERVICE" /\ Request.svc \in Services \ loaded
        /\ FreeHandle(Me) <= MaxHandle /\ generation[Request.svc] < MaxLoads
        /\ loaded' = loaded \cup {Request.svc}
        /\ generation' = [generation EXCEPT ![Request.svc] = @ + 1]
        /\ listeners' = [listeners EXCEPT ![Request.svc] = {cb.conn}]
        /\ Answer([Consumed(Me) EXCEPT !.keys = @ \cup
                     {[h |-> FreeHandle(Me), listed |-> TRUE,
                       ptr |-> [svc |-> Request.svc, gen |-> generation[Request.svc] + 1]]}],
                  <<Long>>, FALSE)
     \/ \* allocation of the map entries fails: undone, and the handle is sent all the same
        /\ Request.ok /\ Request.svc \in loaded
        /\ "oom" \in Environment \/ FreeHandle(Me) > MaxHandle
        /\ Answer(Consumed(Me), <<Long>>, FALSE)
        /\ SetUnchanged

-----------------------------------------------------------------------------
LastHandle(k, p) == Cardinality(HandlesFor(k, p)) = 1
ProcessCloseHandle ==
  /\ Handling({"CLOSEHANDLE"})
  /\ UNCHANGED <<notify, loaded, generation>>
  /\ \/ /\ find_service_for_key(Me, Request.h) = {}
        /\ Answer(Consumed(Me), <<BadReq>>, FALSE)
        /\ UNCHANGED listeners
     \/ \E p \in find_service_for_key(Me, Request.h) :
          /\ Answer([Consumed(Me) EXCEPT !.keys = {e \in @ : e.h # Request.h}], <<Short>>, FALSE)
          /\ listeners' = IF LastHandle(Me, p) /\ Live(p)
                          THEN [listeners EXCEPT ![p.svc] = @ \ {cb.conn}] ELSE listeners

\* A request with a handle that is not valid: the request stays in the buffer.
BadHandle(cmds) ==
  /\ Handling(cmds)
  /\ find_service_for_key(Me, Request.h) = {}
  /\ Refuse
  /\ UNCHANGED notify /\ SetUnchanged

ProcessStartStop ==
  \/ BadHandle({"STARTSERVICE", "STOPSERVICE", "WAKESERVICE", "RELEASESERVICE", "gentle stop"})
  \/ \* refused (shutting down, pinned) or carried out
     /\ Handling({"STARTSERVICE", "STOPSERVICE", "WAKESERVICE", "RELEASESERVICE", "gentle stop"})
     /\ find_service_for_key(Me, Request.h) # {}
     /\ Answer(Me, <<Short>>, TRUE)
     /\ \E changed \in SUBSET loaded : Events(changed)
     /\ SetUnchanged

\* check_dependents: a new handle for every dependent a gentle stop would affect, allocated in
\* the order of the service's list of dependents, whatever that is
NewHandles(k, depts) ==
  LET used == {e.h : e \in k.keys}
  IN {f \in Injection(depts, (0 .. MaxHandle) \ used) :
        \A s \in depts : \A h \in 0 .. f[s] - 1 : h \in used \/ \E t \in depts : f[t] = h}
CheckDependents ==
  /\ Handling({"gentle stop"})
  /\ \E p \in find_service_for_key(Me, Request.h) :
       \E depts \in SUBSET (loaded \ {p.svc}) \ {{}} : \E f \in NewHandles(Me, depts) :
         /\ Answer([Me EXCEPT !.keys = @ \cup {[h |-> f[s], ptr |-> Pointer(s), listed |-> TRUE] : s \in depts}],
                   <<Long>>, TRUE)
         /\ listeners' = [s \in Services |-> IF s \in depts THEN listeners[s] \cup {cb.conn}
                                             ELSE listeners[s]]
  /\ UNCHANGED <<notify, loaded, generation>>

ProcessUnpin ==
  \/ BadHandle({"UNPINSERVICE"})
  \/ /\ Handling({"UNPINSERVICE"})
     /\ find_service_for_key(Me, Request.h) # {}
     /\ Answer(Me, <<Short>>, TRUE)
     /\ \E changed \in SUBSET loaded : Events(changed)
     /\ SetUnchanged

LoneIgnored(p) == TRUE
\* has_lone_ref as far as the connections are concerned
has_lone_ref(p) == Cardinality(listeners[p.svc]) = 1
\* Of the entries for the record, key_service_map loses the one of the request and
\* service_key_map all of them.
DropHandle(k, p, h) ==
  [k EXCEPT !.keys = {IF e.ptr = p THEN [e EXCEPT !.listed = FALSE] ELSE e :
                        e \in {x \in @ : x.h # h}}]

ProcessUnload ==
  \/ BadHandle({"UNLOADSERVICE"})
  \/ /\ Handling({"UNLOADSERVICE"})
     /\ UNCHANGED <<notify, generation>>
     /\ \E p \in find_service_for_key(Me, Request.h) :
          \/ \* other references, not stopped
             /\ Answer(Me, <<Short>>, TRUE)
             /\ UNCHANGED <<loaded, listeners>>
          \/ /\ has_lone_ref(p) /\ Live(p)
             /\ loaded' = loaded \ {p.svc}
             /\ listeners' = [listeners EXCEPT ![p.svc] = {}]
             /\ Answer(DropHandle(Me, p, Request.h), <<Short>>, TRUE)

\* The record is altered in place, or replaced by a new one.
ProcessReload ==
  \/ BadHandle({"RELOADSERVICE"})
  \/ /\ Handling({"RELOADSERVICE"})
     /\ UNCHANGED loaded
     /\ \E p \in find_service_for_key(Me, Request.h) :
          \/ /\ ~has_lone_ref(p)
             /\ Answer(Me, <<Short>>, TRUE)
             /\ UNCHANGED <<notify, generation, listeners>>
          \/ /\ has_lone_ref(p) /\ Live(p)
             /\ Answer(DropHandle(Me, p, Request.h), <<Short>>, TRUE)
             /\ listeners' = [listeners EXCEPT ![p.svc] = @ \ {cb.conn}]
             /\ \/ UNCHANGED generation
                \/ /\ generation[p.svc] < MaxLoads
                   /\ generation' = [generation EXCEPT ![p.svc] = @ + 1]
             /\ \E changed \in SUBSET (loaded \ {p.svc}) : Events(changed)

-----------------------------------------------------------------------------
ProcessShutdown ==
  /\ Handling({"SHUTDOWN"})
  /\ IF Request.ok THEN /\ Answer(Me, <<Short>>, TRUE)
                        /\ \E changed \in SUBSET loaded : Events(changed)
                   ELSE Refuse /\ UNCHANGED notify
  /\ SetUnchanged

ProcessUnrecognised ==
  /\ Handling({"unrecognised"})
  /\ Refuse
  /\ UNCHANGED notify /\ SetUnchanged

\* One packet for every service that is not a placeholder, then LISTDONE
ListServices ==
  /\ Handling({"LISTSERVICES"})
  /\ Answer(Consumed(Me), [i \in 1 .. Cardinality(loaded) |-> Long] \o <<Short>>, FALSE)
  /\ UNCHANGED notify /\ SetUnchanged

\* SERVICESTATUS, QUERYSERVICENAME, CATLOG, QUERYSERVICEDSCDIR: a long reply or a short refusal
Query(cmd, p) ==
  /\ Handling({cmd})
  /\ Answer(Consumed(Me), <<p>>, FALSE)
  /\ p.moved => find_service_for_key(Me, Request.h) # {}
  /\ UNCHANGED notify /\ SetUnchanged
ProcessServiceStatus == \E p \in {Short, Long} : Query("SERVICESTATUS", p)
ProcessQueryName == \E p \in {Short, Long} : Query("QUERYSERVICENAME", p)
ProcessCatlog == \E p \in {Short, Long} : Query("CATLOG", p)
ProcessSignal == Query("SIGNAL", Short)
ProcessQueryDscDir == \E p \in {Short, Long} : Query("QUERYSERVICEDSCDIR", p)
QueryLoadMech == \E p \in {Short, Long} :
  /\ Handling({"QUERY_LOAD_MECH"})
  /\ Answer(Consumed(Me), <<p>>, FALSE)
  /\ UNCHANGED notify /\ SetUnchanged

ProcessSetTrigger ==
  /\ Handling({"SETTRIGGER"})
  /\ Answer(Consumed(Me), <<Short>>, FALSE)
  /\ \E changed \in SUBSET (IF find_service_for_key(Me, Request.h) = {} THEN {} ELSE loaded) :
       Events(changed)
  /\ SetUnchanged

ProcessSetEnv ==
  /\ Handling({"SETENV"})
  /\ IF Request.ok THEN Answer(Me, <<Short>>, TRUE) ELSE Refuse
  /\ UNCHANGED notify /\ SetUnchanged

\* ADD_DEP, ENABLESERVICE and REM_DEP.  A dependency type that is not valid gets a BADREQ reply
\* and the request is then carried out all the same.
DepRequest(cmds) ==
  \/ BadHandle(cmds)
  \/ /\ Handling(cmds)
     /\ find_service_for_key(Me, Request.h) # {}
     /\ Answer(Me, IF Request.ok THEN <<Short>> ELSE <<BadReq, Short>>, TRUE)
     /\ \E changed \in SUBSET loaded : Events(changed)
     /\ SetUnchanged
AddServiceDep == DepRequest({"ADD_DEP", "ENABLESERVICE"})
RmServiceDep == DepRequest({"REM_DEP"})

-----------------------------------------------------------------------------
\* service_event, called for one handle; the result of queue_packet is not looked at.
ServiceEvent ==
  \E n \in notify :
    /\ notify' = notify \ {n}
    /\ \E q \in queue_packet(conn[n[1]], Long) : conn' = [conn EXCEPT ![n[1]] = q.k]
    /\ UNCHANGED cb /\ SetUnchanged

\* Queue the next reply.  A handler that cannot queue one returns false at once, which leaves
\* its request in the buffer if it was to be consumed afterwards, and ends the loop.
Reply ==
  /\ notify = {} /\ cb.at = "reply"
  /\ \E q \in queue_packet(Me, Head(cb.replies)) :
       LET k == [q.k EXCEPT !.bad = @ \/ (q.ok /\ Head(cb.replies).bad)]
           last == Len(cb.replies) = 1
           done == IF q.ok /\ last /\ cb.late THEN Consumed(k) ELSE k
       IN /\ conn' = [conn EXCEPT ![cb.conn] =
                        [done EXCEPT !.chklen = IF q.ok /\ last THEN Max({@, 1}) ELSE @]]
          /\ cb' = [cb EXCEPT !.replies = IF q.ok THEN Tail(@) ELSE <<>>,
                              !.at = IF ~q.ok THEN "send" ELSE IF last THEN "loop" ELSE @]
  /\ UNCHANGED notify /\ SetUnchanged

\* std::bad_alloc leaves process_packet: do_oom_close
ProcessThrows ==
  /\ InLoop /\ "oom" \in Environment /\ Me.avail >= Needed(Me, Request)
  /\ conn' = [conn EXCEPT ![cb.conn].bad = TRUE, ![cb.conn].oom = TRUE]
  /\ cb' = [cb EXCEPT !.at = "send"]
  /\ UNCHANGED notify /\ SetUnchanged

\* control_conn_cb calls data_ready, which reads what is there (at least one unit), ...
DataReady(c) ==
  /\ Quiet /\ conn[c].open /\ "IN" \in conn[c].watch
  /\ \E n \in 1 .. Min({conn[c].wire, RbufSize - conn[c].avail}) :
       /\ "partial" \in Environment \/ n = Min({conn[c].wire, RbufSize - conn[c].avail})
       /\ conn' = [conn EXCEPT ![c].avail = @ + n, ![c].wire = @ - n]
  /\ cb' \in {[Idle EXCEPT !.conn = c, !.at = "loop", !.out = o] :
                o \in {FALSE, "OUT" \in conn[c].watch}}
  /\ UNCHANGED notify /\ SetUnchanged
\* ... and ends its loop when the next packet is not complete
LoopEnd ==
  /\ notify = {} /\ cb.at = "loop" /\ Me.avail < Me.chklen
  /\ conn' = [conn EXCEPT ![cb.conn].bad = @ \/ Me.avail = RbufSize]
  /\ cb' = [cb EXCEPT !.at = "send"]
  /\ UNCHANGED notify /\ SetUnchanged

\* The destructor
Delete(c) ==
  /\ conn' = [conn EXCEPT ![c] = Closed]
  /\ listeners' = [s \in Services |-> IF \E h \in HandlesFor(conn[c], Pointer(s)) : TRUE
                                      THEN listeners[s] \ {c} ELSE listeners[s]]
  /\ cb' = Idle
  /\ UNCHANGED <<notify, loaded, generation>>

\* read returns 0: the peer has closed the connection, or there is no room to read into
EndOfFile(c) ==
  /\ Quiet /\ conn[c].open /\ "IN" \in conn[c].watch
  /\ IF conn[c].wire = 0 THEN ~conn[c].peer ELSE conn[c].avail = RbufSize
  /\ Delete(c)

\* The socket became writable, and not readable
SendReady(c) ==
  /\ Quiet /\ conn[c].open /\ "OUT" \in conn[c].watch
  /\ cb' = [Idle EXCEPT !.conn = c, !.at = "send", !.out = TRUE]
  /\ UNCHANGED <<conn, notify>> /\ SetUnchanged
SendSkipped ==
  /\ notify = {} /\ cb.at = "send" /\ ~cb.out
  /\ cb' = [cb EXCEPT !.at = "watch"]
  /\ UNCHANGED <<conn, notify>> /\ SetUnchanged
SentNotCounted(k, n) ==
  IF k.outpkt_index + n = Head(k.outbuf) THEN [k EXCEPT !.outbuf = Tail(@), !.outpkt_index = 0]
  ELSE [k EXCEPT !.outpkt_index = @ + n]
Sent(k, n) ==
  LET whole == k.outpkt_index + n = Head(k.outbuf)
  IN IF whole THEN [k EXCEPT !.outbuf = Tail(@), !.outpkt_index = 0,
                             !.outbuf_size = (@ - Head(k.outbuf) + SizeMod) % SizeMod]
     ELSE [k EXCEPT !.outpkt_index = @ + n]
\* send_data with something to send; the connection is closed after the last packet of a bad one
SendData ==
  /\ notify = {} /\ cb.at = "send" /\ cb.out
  /\ Me.outbuf # <<>>
  /\ \E n \in 1 .. Head(Me.outbuf) - Me.outpkt_index :
       LET k == Sent(Me, n)
           finished == k.outpkt_index = 0
       IN \/ (~Me.peer \/ (finished /\ ~k.oom /\ k.outbuf = <<>> /\ k.bad)) /\ Delete(cb.conn)
          \/ /\ Me.peer /\ ~(finished /\ ~k.oom /\ k.outbuf = <<>> /\ k.bad)
             /\ conn' = [conn EXCEPT ![cb.conn] = k]
             /\ cb' = [cb EXCEPT !.at = "watch"]
             /\ UNCHANGED notify /\ SetUnchanged
\* send_data with nothing to send, on a bad connection: the out-of-memory reply, and close
SendClose ==
  /\ notify = {} /\ cb.at = "send" /\ cb.out
  /\ Me.outbuf = <<>> /\ Me.bad
  /\ Delete(cb.conn)

WatchFlags(k) ==
  {w \in {"IN", "OUT"} : \/ w = "IN" /\ ~k.bad /\ k.outbuf_size < OutbufLimit
                         \/ w = "OUT" /\ (k.outbuf # <<>> \/ k.bad)}
SetWatches ==
  /\ notify = {} /\ cb.at = "watch"
  /\ conn' = [conn EXCEPT ![cb.conn].watch = WatchFlags(Me)]
  /\ cb' = Idle
  /\ UNCHANGED notify /\ SetUnchanged

-----------------------------------------------------------------------------
\* control_socket_cb accepts a connection
Accept(c) ==
  /\ Quiet /\ ~conn[c].open
  /\ conn' = [conn EXCEPT ![c] = NewConn]
  /\ UNCHANGED <<cb, notify>> /\ SetUnchanged

\* The clients, and whatever else makes services change state
ClientSend(c) ==
  /\ Quiet /\ conn[c].open /\ conn[c].peer /\ Len(conn[c].reqs) < MaxPending
  /\ \E r \in Requests :
       conn' = [conn EXCEPT ![c].reqs = Append(@, r), ![c].wire = @ + Size(r)]
  /\ UNCHANGED <<cb, notify>> /\ SetUnchanged
ClientHangup(c) ==
  /\ Quiet /\ conn[c].open /\ conn[c].peer /\ "hangup" \in Environment
  /\ conn' = [conn EXCEPT ![c].peer = FALSE]
  /\ UNCHANGED <<cb, notify>> /\ SetUnchanged
StateChange ==
  /\ Quiet /\ "event" \in Environment
  /\ \E s \in loaded : Events({s})
  /\ UNCHANGED <<conn, cb>> /\ SetUnchanged

ProcessPacket ==
  \/ Incomplete \/ ProcessQueryVersion \/ ProcessFindLoad \/ ProcessCloseHandle
  \/ ProcessStartStop \/ CheckDependents \/ ProcessUnpin \/ ProcessUnload \/ ProcessReload
  \/ ProcessShutdown \/ ProcessUnrecognised \/ ListServices \/ ProcessServiceStatus
  \/ ProcessQueryName \/ ProcessCatlog \/ ProcessSignal \/ ProcessQueryDscDir
  \/ QueryLoadMech \/ ProcessSetTrigger \/ ProcessSetEnv \/ AddServiceDep \/ RmServiceDep
Callback == ProcessPacket \/ Reply \/ ServiceEvent \/ ProcessThrows \/ LoopEnd
            \/ SendSkipped \/ SendData \/ SendClose \/ SetWatches
Ready(c) == DataReady(c) \/ EndOfFile(c) \/ SendReady(c)
Peer(c) == Accept(c) \/ ClientSend(c) \/ ClientHangup(c)
Next == Callback \/ StateChange \/ \E c \in Conns : Ready(c) \/ Peer(c)
Spec == Init /\ [][Next]_vars
\* The event loop runs the callbacks it has begun, and serves every ready descriptor; a peer that
\* is there reads, so its socket becomes writable again.
FairSpec == /\ Spec
            /\ WF_vars(Callback)
            /\ \A c \in Conns : /\ WF_vars(DataReady(c) \/ EndOfFile(c))
                                /\ WF_vars(SendReady(c))

-----------------------------------------------------------------------------
(* Properties *)

TypeOK ==
  /\ \A c \in Conns :
       /\ conn[c].chklen \in 0 .. 3 /\ conn[c].avail \in 0 .. RbufSize /\ conn[c].wire \in Nat
       /\ conn[c].outbuf_size \in 0 .. SizeMod - 1 /\ conn[c].watch \subseteq {"IN", "OUT"}
       /\ conn[c].outbuf # <<>> => conn[c].outpkt_index < Head(conn[c].outbuf)
       /\ conn[c].keys \subseteq [h : 0 .. MaxHandle, listed : BOOLEAN,
                                  ptr : [svc : Services, gen : 1 .. MaxLoads]]
  /\ cb.at \in {"idle", "loop", "reply", "send", "watch"} /\ (cb.at = "reply") = (cb.replies # <<>>)
  /\ loaded \subseteq Services /\ listeners \in [Services -> SUBSET Conns]

\* No handle of a connection refers to a service record that was deleted by unload_service or
\* replaced by reload_service.
NoDanglingHandle == \A c \in DOMAIN conn : \A e \in conn[c].keys : Live(e.ptr)

\* Between callbacks, a connection that is not being closed and has sent all its output accepts
\* commands: control_conn_cb stops reading only above the high-water mark.
Accepts(c) == Quiet /\ conn[c].open /\ conn[c].outbuf = <<>> /\ ~conn[c].bad => "IN" \in conn[c].watch

\* Between callbacks, a connection with queued output waits for the socket to become writable
\* (service_event and queue_packet).
OutputWatched ==
  \A c \in DOMAIN conn : Quiet /\ conn[c].open /\ conn[c].outbuf # <<>> => "OUT" \in conn[c].watch

\* The out-of-memory reply of send_data is never sent behind a packet of which the peer got only
\* a part.
OOMReplyIsWhole == ~(cb.at = "send" /\ cb.out /\ Me.outbuf = <<>> /\ Me.oom /\ Me.torn)
=============================================================================

---------------------------- MODULE ClientProofs ----------------------------
(***************************************************************************)
(* What dinitctl and dinit-monitor read is in step with what was sent, and *)
(* exit status 0 is the truth, for every set of command lines, however the *)
(* daemon's service behaves and whatever others do to it.  The invariant   *)
(* follows the conversation: while a request is out the wire holds events  *)
(* only; then it holds one reply among events, the reply says what was so  *)
(* when it was sent, and the events behind it are about what came later.   *)
(* A monitor of one service has reported the state the service settled in  *)
(* when it has read everything: the last that tells a state tells that.    *)
(***************************************************************************)
EXTENDS Client, TLAPS

\* The leaves are for Zenon, where they do not name another prover.
USE ZenonT(60)

Kinds == {"body", "EVENT", "SERVICERECORD", "CPVERSION", "DEPENDENTS", "SERVICENAME", "SVCINFO",
          "SERVICESTATUS", "LOADER_MECH", "SVCDSCDIR", "SERVICE_LOG", "ACK", "NAK", "ALREADYSS",
          "PINNEDSTOPPED", "PINNEDSTARTED", "SHUTTINGDOWN", "NOSERVICE", "SERVICE_DESC_ERR",
          "LISTDONE", "BADREQ", "SIGNAL_NOPID"}
States == {"STOPPED", "STARTING", "STARTED", "STOPPING"}
EventKinds == {"STARTED", "STOPPED", "FAILEDSTART", "STARTCANCELLED", "STOPCANCELLED"}
Abouts == States \cup EventKinds \cup {"none", "v0", "v1", "v2"}
Field == [kind : Kinds, about : Abouts]
NotReply == {"EVENT", "body"}
Framed(w) ==
  /\ w \in Seq(Field)
  /\ Len(w) > 0 => w[1].kind # "body"
  /\ \A i \in 1..Len(w) : w[i].kind # "body" =>
       /\ i + Size(w[i].kind) - 1 <= Len(w)
       /\ \A j \in i + 1 .. i + Size(w[i].kind) - 1 : w[j].kind = "body"
       /\ i + Size(w[i].kind) <= Len(w) => w[i + Size(w[i].kind)].kind # "body"
OnlyEvents(w) == \A i \in 1..Len(w) : w[i].kind \in NotReply
NoEvents(w) == \A i \in 1..Len(w) : w[i].kind # "EVENT"

\* An event about something that has happened since the command was handled
Current(f) == f.kind = "EVENT" /\ f.about \in {"STARTED", "STOPPED"} => f.about \in since
\* A restart was accepted: the service has stopped, or is bound to before it starts.
Restarting ==
  "STOPPED" \in since \/ (sv.state = "STOPPING" /\ sv.forced /\ "STARTED" \notin since)
\* What the program may conclude from a reply
Meant(f) ==
  /\ pc = "start_stop" =>
       /\ f.kind = "ALREADYSS" => Wanted \in since /\ cmd.op # "restart"
       /\ f.kind = "ACK" /\ cmd.op = "restart" => Restarting
  /\ pc = "status" /\ f.kind = "SERVICESTATUS" /\ f.about = "STARTED" => "STARTED" \in since
  /\ pc = "enable" /\ f.kind = "ACK" => link = (cmd.op = "enable")
ReplyAt(w, i) ==
  /\ w[i].kind \notin NotReply /\ Meant(w[i])
  /\ \A j \in 1..Len(w) : j # i => w[j].kind \in NotReply
  /\ \A j \in i + 1 .. Len(w) : Current(w[j])

\* The points of the program, with the commands that come there and what they have asked
Acks == {"unpin", "unload", "reload", "trigger", "signal", "add_dep", "rm_dep"}
Asking == {"version", "load", "find", "start_stop", "status", "enable", "estatus", "mech",
           "dscdir_from", "dscdir_to", "name", "shutdown", "setenv", "catlog"} \cup Acks
Resting == {"start", "file", "link", "wait", "watch"}
Loading == Ops \ {"list", "shutdown", "setenv", "unload", "status", "is_started"}
PointOK ==
  /\ pc \in Asking \cup Resting \cup {"list", "closing", "done"}
  /\ pc \in {"list", "shutdown", "setenv", "catlog"} => cmd.op = pc
  /\ pc = "find" => cmd.op \in FindsFirst
  /\ pc = "load" => cmd.op \in Loading
  /\ pc = "start_stop" => cmd.op \in StartStop /\ req \in {"none", cmd.op}
  /\ pc = "status" => cmd.op \in {"status", "is_started"} /\ req \in {"none", "status", "is_started"}
  /\ pc \in {"mech", "dscdir_from", "dscdir_to", "file", "enable", "link", "estatus"}
       => cmd.op \in Switches
  /\ pc = "enable" => req \in {"none", IF cmd.op = "enable" THEN "enable" ELSE "rm_dep"}
  /\ pc = "estatus" => req \in {"none", "status"}
  /\ pc = "wait" => cmd.op \in StartStop \cup {"enable"}
  /\ pc = "watch" => cmd.op = "monitor"
  /\ pc = "closing" => cmd.op = "shutdown"
  /\ req = "list" => cmd.op = "list" /\ pc \in {"list", "done"}
  /\ cmd.op = "shutdown" => ~listening /\ pc \in {"start", "version", "shutdown", "closing", "done"}
                            /\ req \in {"none", "version", "shutdown"}

Conversation ==
  /\ pc \in Asking => \/ req # "none" /\ OnlyEvents(wire)
                      \/ req = "none" /\ \E i \in 1..Len(wire) : ReplyAt(wire, i)
  /\ pc \in Resting => req = "none" /\ OnlyEvents(wire)
  /\ pc = "wait" => /\ \A i \in 1..Len(wire) : Current(wire[i])
                    /\ cmd.op = "restart" => Restarting
  /\ pc \in {"link", "estatus", "wait"} /\ cmd.op \in Switches /\ cmd.online
       => link = (cmd.op = "enable")
  /\ pc \in {"estatus", "wait"} /\ cmd.op \in Switches => file = (cmd.op = "enable")
  /\ pc = "closing" => req = "none" /\ Len(wire) = 1
  /\ pc # "done" /\ cmd.op = "shutdown" => NoEvents(wire)

Ended ==
  /\ result \in {-1, 0, 1} /\ (pc # "done" => result = -1)
  /\ result = 0 => Promised /\ (req = "none" \/ cmd.op = "list")

WireOK == wire \in Seq(Field) /\ buf \in Int /\ buf <= Len(wire)
CTypes ==
  /\ cmd \in Commands /\ WireOK
  /\ sv \in [state : States, target : States, forced : BOOLEAN]
  /\ link \in BOOLEAN /\ file \in BOOLEAN /\ listening \in BOOLEAN /\ closed \in BOOLEAN
  /\ since \subseteq States

IInv == CTypes /\ (pc # "done" => Framed(wire)) /\ PointOK /\ Conversation /\ Ended

-----------------------------------------------------------------------------
(* Packets *)

\* The sizes of the packets
LEMMA SizeOf ==
  /\ \A k \in Kinds : Size(k) \in 1..4
  /\ Size("EVENT") = 3 /\ Size("SVCINFO") = 3 /\ Size("SERVICERECORD") = 4 /\ Size("CPVERSION") = 3
  /\ Size("DEPENDENTS") = 3 /\ Size("SERVICENAME") = 3 /\ Size("SERVICESTATUS") = 3
  /\ Size("LOADER_MECH") = 4 /\ Size("SVCDSCDIR") = 3 /\ Size("SERVICE_LOG") = 3
  /\ Size("ACK") = 1 /\ Size("NAK") = 1 /\ Size("ALREADYSS") = 1 /\ Size("NOSERVICE") = 1
  /\ Size("LISTDONE") = 1
BY SMTT(60) DEF Size, Long, Kinds

\* What is sent are fields.
LEMMA FieldOf ==
  ASSUME NEW w \in Seq(Field) PROVE Len(w) \in Nat /\ \A i \in 1..Len(w) : w[i] \in Field
BY SMTT(60)

\* Fields behind fields
LEMMA Fields ==
  ASSUME NEW v \in Seq(Field), NEW w \in Seq(Field)
  PROVE  /\ v \o w \in Seq(Field) /\ Len(v \o w) = Len(v) + Len(w)
         /\ Len(v) \in Nat /\ Len(w) \in Nat
         /\ \A i \in 1..Len(v) : (v \o w)[i] = v[i]
         /\ \A i \in Len(v) + 1 .. Len(v) + Len(w) : (v \o w)[i] = w[i - Len(v)]
BY SMTT(60)

\* A packet is its header and the rest of it.
LEMMA PacketFields ==
  ASSUME NEW k \in Kinds, k # "body", NEW a \in Abouts
  PROVE  /\ Packet(k, a) \in Seq(Field) /\ Len(Packet(k, a)) = Size(k)
         /\ Packet(k, a)[1] = [kind |-> k, about |-> a]
         /\ \A i \in 2..Size(k) : Packet(k, a)[i] = Body
<1> DEFINE h == <<[kind |-> k, about |-> a]>>
           b == [i \in 1..Size(k) - 1 |-> Body]
<1>1. Size(k) \in 1..4  BY SizeOf
<1>2. h \in Seq(Field) /\ Len(h) = 1 /\ h[1] = [kind |-> k, about |-> a]  BY SMTT(60) DEF Field
<1>3. b \in Seq(Field) /\ Len(b) = Size(k) - 1 /\ \A i \in 1..Size(k) - 1 : b[i] = Body
  <2>1. Body \in Field
    <3>1. "body" \in Kinds /\ "none" \in Abouts  BY DEF Kinds, Abouts
    <3> QED  BY <3>1 DEF Field, Body
  <2>2. PICK n \in Nat : n = Size(k) - 1  BY SMTT(60), <1>1
  <2>3. PICK c : c = [i \in 1..n |-> Body]  OBVIOUS
  <2>4. c \in Seq(Field) /\ Len(c) = n /\ \A i \in 1..n : c[i] = Body  BY SMTT(60), <2>1, <2>3
  <2>5. c = b  BY <2>2, <2>3
  <2> QED  BY <2>2, <2>4, <2>5
<1>4. Packet(k, a) = h \o b  BY DEF Packet
<1>5. PICK u, v, n : u = h /\ v = b /\ n = Size(k)  OBVIOUS
<1> HIDE DEF h, b
<1>7. n \in 1..4  BY <1>1, <1>5
<1>6. /\ u \o v \in Seq(Field) /\ Len(u \o v) = n /\ (u \o v)[1] = [kind |-> k, about |-> a]
      /\ \A i \in 2..n : (u \o v)[i] = v[i - 1] /\ i - 1 \in 1 .. n - 1
  <2>1. u \in Seq(Field) /\ Len(u) = 1 /\ u[1] = [kind |-> k, about |-> a]  BY <1>2, <1>5
  <2>2. v \in Seq(Field) /\ Len(v) = n - 1  BY <1>3, <1>5
  <2>3. /\ u \o v \in Seq(Field) /\ Len(u \o v) = n /\ (u \o v)[1] = u[1]
        /\ \A i \in 2..n : (u \o v)[i] = v[i - 1] /\ i - 1 \in 1 .. n - 1
    <3>1. /\ u \o v \in Seq(Field) /\ Len(u \o v) = 1 + (n - 1)
          /\ \A i \in 1..1 : (u \o v)[i] = u[i]
          /\ \A i \in 1 + 1 .. 1 + (n - 1) : (u \o v)[i] = v[i - 1]
      <4>1. /\ u \o v \in Seq(Field) /\ Len(u \o v) = Len(u) + Len(v)
            /\ \A i \in 1..Len(u) : (u \o v)[i] = u[i]
            /\ \A i \in Len(u) + 1 .. Len(u) + Len(v) : (u \o v)[i] = v[i - Len(u)]
        BY <2>1, <2>2, Fields
      <4> QED  BY <2>1, <2>2, <4>1
    <3>2. /\ 1 + (n - 1) = n /\ 1 + 1 = 2 /\ 1 \in 1..1
          /\ \A i \in 2..n : i - 1 \in 1 .. n - 1
      BY SMTT(60), <1>7
    <3> QED  BY <3>1, <3>2
  <2> QED  BY <2>1, <2>3
<1> QED  BY <1>3, <1>4, <1>5, <1>6

\* A packet is framed,
LEMMA PacketFramed ==
  ASSUME NEW k \in Kinds, k # "body", NEW a \in Abouts
  PROVE  Framed(Packet(k, a))
<1>1. PICK w : w = Packet(k, a)  OBVIOUS
<1>2. PICK n \in 1..4 : n = Size(k)  BY SizeOf
<1>3. /\ w \in Seq(Field) /\ Len(w) = n /\ w[1].kind = k
      /\ \A i \in 2..n : w[i].kind = "body"
  <2>1. Body.kind = "body"  BY DEF Body
  <2>2. /\ w \in Seq(Field) /\ Len(w) = n /\ w[1] = [kind |-> k, about |-> a]
        /\ \A i \in 2..n : w[i] = Body
    BY <1>1, <1>2, PacketFields
  <2> QED  BY SMTT(60), <2>1, <2>2
<1>4. ASSUME NEW i \in 1..Len(w), w[i].kind # "body" PROVE i = 1  BY SMTT(60), <1>3, <1>4
<1>5. Framed(w)  BY SMTT(60), <1>2, <1>3, <1>4 DEF Framed
<1> QED  BY <1>1, <1>5

\* and so is what is framed behind what is framed.
LEMMA JoinFramed ==
  ASSUME NEW v, NEW w, Framed(v), Framed(w)
  PROVE  /\ Framed(v \o w) /\ Len(v \o w) = Len(v) + Len(w)
         /\ \A i \in 1..Len(v) : (v \o w)[i] = v[i]
         /\ \A i \in 1..Len(w) : (v \o w)[Len(v) + i] = w[i]
<1> DEFINE u == v \o w
<1>1. v \in Seq(Field) /\ w \in Seq(Field)  BY DEF Framed
<1>2. /\ u \in Seq(Field) /\ Len(u) = Len(v) + Len(w) /\ Len(v) \in Nat /\ Len(w) \in Nat
      /\ \A i \in 1..Len(v) : u[i] = v[i]
      /\ \A i \in Len(v) + 1 .. Len(v) + Len(w) : u[i] = w[i - Len(v)]
  BY <1>1, Fields
<1>3. \A i \in 1..Len(w) : u[Len(v) + i] = w[i]  BY SMTT(60), <1>2
<1>4. \A i \in 1..Len(u) : u[i] \in Field /\ Size(u[i].kind) \in 1..4
  <2>1. \A i \in 1..Len(u) : u[i] \in Field  BY SMTT(60), <1>2
  <2> QED  BY <2>1, SizeOf DEF Field
<1> HIDE DEF u
<1>5. Len(u) > 0 => u[1].kind # "body"
  <2>1. CASE Len(v) > 0  BY SMTT(60), <1>2, <2>1 DEF Framed
  <2>2. CASE Len(v) = 0  BY SMTT(60), <1>2, <1>3, <2>2 DEF Framed
  <2> QED  BY SMTT(60), <1>2, <2>1, <2>2
<1>6. ASSUME NEW i \in 1..Len(u), u[i].kind # "body"
      PROVE  /\ i + Size(u[i].kind) - 1 <= Len(u)
             /\ \A j \in i + 1 .. i + Size(u[i].kind) - 1 : u[j].kind = "body"
             /\ i + Size(u[i].kind) <= Len(u) => u[i + Size(u[i].kind)].kind # "body"
  <2>1. PICK n \in 1..4 : n = Size(u[i].kind)  BY <1>4
  <2>2. CASE i <= Len(v)
    <3>1. u[i] = v[i] /\ i \in 1..Len(v)  BY SMTT(60), <1>2, <2>2
    <3>2. /\ i + n - 1 <= Len(v)
          /\ \A j \in i + 1 .. i + n - 1 : v[j].kind = "body"
          /\ i + n <= Len(v) => v[i + n].kind # "body"
      BY <1>6, <2>1, <3>1 DEF Framed
    <3>3. i + n <= Len(u) => u[i + n].kind # "body"
      <4>1. CASE i + n <= Len(v)  BY SMTT(60), <1>2, <3>2, <4>1
      <4>2. CASE i + n = Len(v) + 1 /\ Len(w) > 0
        <5>1. u[i + n] = w[1]  BY SMTT(60), <1>2, <1>3, <4>2
        <5> QED  BY <4>2, <5>1 DEF Framed
      <4> QED  BY SMTT(60), <1>2, <3>2, <4>1, <4>2
    <3>4. \A j \in i + 1 .. i + n - 1 : u[j].kind = "body"
      <4>1. \A j \in i + 1 .. i + n - 1 : j \in 1..Len(v)  BY SMTT(60), <1>2, <3>2
      <4> QED  BY <1>2, <3>2, <4>1
    <3>5. i + n - 1 <= Len(u)  BY SMTT(60), <1>2, <3>2
    <3> QED  BY <2>1, <3>3, <3>4, <3>5
  <2>3. CASE i > Len(v)
    <3>1. PICK m \in 1..Len(w) : i = Len(v) + m  BY SMTT(60), <1>2, <2>3
    <3>2. u[i] = w[m]  BY <1>3, <3>1
    <3>3. /\ m + n - 1 <= Len(w)
          /\ \A j \in m + 1 .. m + n - 1 : w[j].kind = "body"
          /\ m + n <= Len(w) => w[m + n].kind # "body"
      BY <1>6, <2>1, <3>2 DEF Framed
    <3>4. ASSUME NEW j \in i + 1 .. i + n - 1 PROVE u[j].kind = "body"
      <4>1. j - Len(v) \in m + 1 .. m + n - 1 /\ j \in Len(v) + 1 .. Len(v) + Len(w)
        BY SMTT(60), <1>2, <3>1, <3>3
      <4> QED  BY <1>2, <3>3, <4>1
    <3>5. i + n <= Len(u) => u[i + n].kind # "body"
      <4>1. SUFFICES ASSUME i + n <= Len(u) PROVE u[i + n].kind # "body"  OBVIOUS
      <4>2. m + n \in 1..Len(w) /\ m + n <= Len(w) /\ i + n = Len(v) + (m + n)  BY SMTT(60), <1>2, <3>1, <4>1
      <4> QED  BY <1>3, <3>3, <4>2
    <3>6. i + n - 1 <= Len(u)  BY SMTT(60), <1>2, <3>1, <3>3
    <3> QED  BY <2>1, <3>4, <3>5, <3>6
  <2> QED  BY SMTT(60), <1>2, <2>2, <2>3
<1>7. Framed(u)  BY <1>2, <1>5, <1>6 DEF Framed
<1> QED  BY <1>2, <1>3, <1>7 DEF u

\* Taking off the first packet leaves framed what is behind it.
LEMMA TakeFramed ==
  ASSUME NEW w, Framed(w), Len(w) > 0, NEW n, n = Size(w[1].kind)
  PROVE  /\ n \in 1..4 /\ n <= Len(w) /\ Framed(SubSeq(w, n + 1, Len(w)))
         /\ Len(SubSeq(w, n + 1, Len(w))) = Len(w) - n
         /\ \A i \in 1 .. Len(w) - n : SubSeq(w, n + 1, Len(w))[i] = w[i + n]
         /\ \A i \in 2..n : w[i].kind = "body"
<1>1. w \in Seq(Field) /\ Len(w) \in Nat  BY SMTT(60) DEF Framed
<1>2. \A i \in 1..Len(w) : w[i] \in Field /\ Size(w[i].kind) \in 1..4
  <2>1. \A i \in 1..Len(w) : w[i] \in Field  BY SMTT(60), <1>1
  <2> QED  BY <2>1, SizeOf DEF Field
<1>3. n \in 1..4 /\ w[1].kind # "body"  BY SMTT(60), <1>1, <1>2 DEF Framed
<1>4. n <= Len(w) /\ (n + 1 <= Len(w) => w[n + 1].kind # "body") /\ \A i \in 2..n : w[i].kind = "body"
  <2>1. 1 \in 1..Len(w)  BY SMTT(60), <1>1
  <2>2. /\ 1 + n - 1 <= Len(w)
        /\ \A j \in 1 + 1 .. 1 + n - 1 : w[j].kind = "body"
        /\ 1 + n <= Len(w) => w[1 + n].kind # "body"
    BY <1>3, <2>1 DEF Framed
  <2> QED  BY SMTT(60), <1>1, <1>3, <2>2
<1>5. PICK v : v = SubSeq(w, n + 1, Len(w))  OBVIOUS
<1>6. /\ v \in Seq(Field) /\ Len(v) = Len(w) - n
      /\ \A i \in 1 .. Len(w) - n : v[i] = w[i + n]
  BY SMTT(60), <1>1, <1>3, <1>4, <1>5
<1>7. Len(v) > 0 => v[1].kind # "body"  BY SMTT(60), <1>1, <1>3, <1>4, <1>6
<1>8. ASSUME NEW i \in 1..Len(v), v[i].kind # "body"
      PROVE  /\ i + Size(v[i].kind) - 1 <= Len(v)
             /\ \A j \in i + 1 .. i + Size(v[i].kind) - 1 : v[j].kind = "body"
             /\ i + Size(v[i].kind) <= Len(v) => v[i + Size(v[i].kind)].kind # "body"
  <2>1. i + n \in 1..Len(w) /\ v[i] = w[i + n]  BY SMTT(60), <1>1, <1>3, <1>4, <1>6
  <2>2. PICK m \in 1..4 : m = Size(v[i].kind)  BY <1>2, <2>1
  <2>3. /\ i + n + m - 1 <= Len(w)
        /\ \A j \in i + n + 1 .. i + n + m - 1 : w[j].kind = "body"
        /\ i + n + m <= Len(w) => w[i + n + m].kind # "body"
    BY <1>8, <2>1, <2>2 DEF Framed
  <2>4. ASSUME NEW j \in i + 1 .. i + m - 1 PROVE v[j].kind = "body"
    <3>0. i \in Nat /\ i + m - 1 <= Len(w) - n  BY SMTT(60), <1>1, <1>3, <2>1, <2>3
    <3>1. j + n \in i + n + 1 .. i + n + m - 1 /\ j \in 1 .. Len(w) - n  BY SMTT(60), <1>1, <1>3, <3>0
    <3> QED  BY <1>6, <2>3, <3>1
  <2>5. ASSUME i + m <= Len(v) PROVE v[i + m].kind # "body"
    <3>1. i + n + m <= Len(w) /\ i + m \in 1 .. Len(w) - n /\ (i + m) + n = i + n + m
      BY SMTT(60), <1>1, <1>3, <1>6, <2>5
    <3> QED  BY <1>6, <2>3, <3>1
  <2>6. i + m - 1 <= Len(v)  BY SMTT(60), <1>1, <1>3, <1>6, <2>3
  <2> QED  BY <2>2, <2>4, <2>5, <2>6
<1>9. Framed(v)  BY <1>6, <1>7, <1>8 DEF Framed
<1> QED  BY <1>3, <1>4, <1>5, <1>6, <1>9

\* Packets of three fields one behind the other
LEMMA ManyPackets ==
  ASSUME NEW k \in {"EVENT", "SVCINFO"}, NEW evs \in Seq(Abouts)
  PROVE  /\ Framed(Packets(k, evs))
         /\ \A i \in 1..Len(Packets(k, evs)) :
              /\ Packets(k, evs)[i].kind \in {k, "body"}
              /\ Packets(k, evs)[i].kind = k => Packets(k, evs)[i].about \in Told(evs)
<1>1. k \in Kinds /\ k # "body" /\ Size(k) = 3 /\ Len(evs) \in Nat
  <2>1. k \in Kinds /\ k # "body" /\ Size(k) = 3  BY SizeOf DEF Kinds
  <2> QED  BY SMTT(60), <2>1
<1>2. PICK w : w = Packets(k, evs)  OBVIOUS
<1>3. w = [i \in 1 .. 3 * Len(evs) |-> Packet(k, evs[((i - 1) \div 3) + 1])[((i - 1) % 3) + 1]]
  BY <1>1, <1>2 DEF Packets
<1>4. ASSUME NEW i \in 1 .. 3 * Len(evs)
      PROVE  /\ w[i] \in Field
             /\ i % 3 = 1 => w[i].kind = k /\ w[i].about \in Told(evs)
             /\ i % 3 # 1 => w[i].kind = "body"
  <2>1. PICK q \in 1..Len(evs), r \in 1..3 : q = ((i - 1) \div 3) + 1 /\ r = ((i - 1) % 3) + 1
    BY SMTT(60), <1>1
  <2>2. i % 3 = 1 <=> r = 1  BY SMTT(60), <1>1, <2>1
  <2>3. PICK a : a = evs[q]  OBVIOUS
  <2>4. a \in Abouts /\ a \in Told(evs)  BY SMTT(60), <2>3 DEF Told
  <2>5. w[i] = Packet(k, a)[r]  BY <1>3, <2>1, <2>3
  <2>6. /\ Packet(k, a) \in Seq(Field) /\ Len(Packet(k, a)) = 3
        /\ Packet(k, a)[1] = [kind |-> k, about |-> a]
        /\ \A j \in 2..3 : Packet(k, a)[j] = Body
    <3>1. /\ Packet(k, a) \in Seq(Field) /\ Len(Packet(k, a)) = Size(k)
          /\ Packet(k, a)[1] = [kind |-> k, about |-> a]
          /\ \A j \in 2..Size(k) : Packet(k, a)[j] = Body
      BY <1>1, <2>4, PacketFields
    <3> QED  BY <1>1, <3>1
  <2>7. w[i] \in Field
    <3>1. PICK p : p = Packet(k, a)  OBVIOUS
    <3>2. p \in Seq(Field) /\ Len(p) = 3  BY <2>6, <3>1
    <3>3. \A j \in 1..3 : p[j] \in Field  BY <3>2, FieldOf
    <3> QED  BY <2>1, <2>5, <3>1, <3>3
  <2>8. Body.kind = "body"  BY DEF Body
  <2>9. CASE r = 1
    <3>1. w[i] = [kind |-> k, about |-> a]  BY <2>5, <2>6, <2>9
    <3> QED  BY SMTT(60), <2>2, <2>4, <2>7, <2>9, <3>1
  <2>10. CASE r # 1
    <3>1. r \in 2..3  BY SMTT(60), <2>10
    <3>2. w[i] = Body  BY <2>5, <2>6, <3>1
    <3> QED  BY <2>2, <2>7, <2>8, <2>10, <3>2
  <2> QED  BY <2>9, <2>10
<1>5. w \in Seq(Field) /\ Len(w) = 3 * Len(evs)
  <2>1. PICK N \in Nat : N = 3 * Len(evs)  BY SMTT(60), <1>1
  <2>2. w = [i \in 1..N |-> w[i]]  BY <1>3, <2>1
  <2>3. w \in [1..N -> Field]  BY <1>4, <2>1, <2>2
  <2> QED  BY SMTT(60), <2>1, <2>3
<1>6. Len(w) > 0 => w[1].kind # "body"  BY SMTT(60), <1>1, <1>4, <1>5
<1>7. ASSUME NEW i \in 1..Len(w), w[i].kind # "body"
      PROVE  /\ Size(w[i].kind) = 3 /\ i + 3 - 1 <= Len(w)
             /\ \A j \in i + 1 .. i + 3 - 1 : w[j].kind = "body"
             /\ i + 3 <= Len(w) => w[i + 3].kind # "body"
  <2>1. i \in 1 .. 3 * Len(evs) /\ i % 3 = 1 /\ w[i].kind = k  BY <1>4, <1>5, <1>7
  <2>2. i + 2 <= 3 * Len(evs)  BY SMTT(60), <1>1, <2>1
  <2>3. ASSUME NEW j \in i + 1 .. i + 3 - 1 PROVE w[j].kind = "body"
    <3>1. j \in 1 .. 3 * Len(evs) /\ j % 3 # 1  BY SMTT(60), <1>1, <2>1, <2>2
    <3> QED  BY <1>4, <3>1
  <2>4. ASSUME i + 3 <= Len(w) PROVE w[i + 3].kind # "body"
    <3>1. i + 3 \in 1 .. 3 * Len(evs) /\ (i + 3) % 3 = 1  BY SMTT(60), <1>1, <1>5, <2>1, <2>4
    <3> QED  BY <1>1, <1>4, <3>1
  <2>5. i + 3 - 1 <= Len(w)  BY SMTT(60), <1>1, <1>5, <2>1, <2>2
  <2> QED  BY <1>1, <2>1, <2>3, <2>4, <2>5
<1>8. Framed(w)  BY <1>5, <1>6, <1>7 DEF Framed
<1>9. \A i \in 1..Len(w) : w[i].kind \in {k, "body"} /\ (w[i].kind = k => w[i].about \in Told(evs))
  BY <1>1, <1>4, <1>5
<1> QED  BY <1>2, <1>8, <1>9

-----------------------------------------------------------------------------
(* Reading *)

\* Whatever is taken off, the buffer holds no more than was sent.
LEMMA TakeTypes ==
  ASSUME WireOK, NEW n \in 1..4, Take(n)
  PROVE  WireOK'
<1>1. Len(wire) \in Nat  BY FieldOf DEF WireOK
<1>2. wire' \in Seq(Field) /\ Len(wire') = IF n <= Len(wire) THEN Len(wire) - n ELSE 0
  BY SMTT(60), <1>1 DEF WireOK, Take
<1> QED  BY SMTT(60), <1>1, <1>2 DEF WireOK, Take

\* The program that reads a header reads one.
LEMMA AtHeader ==
  ASSUME IInv, pc # "done", Arrived(1)
  PROVE  /\ Len(wire) > 0 /\ Framed(wire) /\ Header \in Kinds \ {"body"}
         /\ wire \in Seq(Field) /\ Len(wire) \in Nat
<1>1. Framed(wire) /\ WireOK  BY DEF IInv, CTypes
<1>2. Len(wire) > 0 /\ Len(wire) \in Nat /\ wire[1] \in Field
  <2>1. Len(wire) \in Nat /\ Len(wire) > 0  BY SMTT(60), <1>1, FieldOf DEF WireOK, Arrived
  <2>2. 1 \in 1..Len(wire)  BY SMTT(60), <2>1
  <2> QED  BY <1>1, <2>1, <2>2, FieldOf DEF WireOK
<1>3. Header # "body"  BY <1>1, <1>2 DEF Framed, Header
<1> QED  BY <1>1, <1>2, <1>3 DEF Field, Header, WireOK

\* The program that has a reply has the reply to its last request, with events behind it.
LEMMA AtReply ==
  ASSUME IInv, NEW p \in Asking, Replied(p)
  PROVE  /\ pc = p /\ req = "none" /\ Meant(wire[1])
         /\ Len(wire) > 0 /\ Framed(wire) /\ Header \in Kinds \ {"body"}
         /\ \A j \in 2..Len(wire) : wire[j].kind \in NotReply /\ Current(wire[j])
<1>1. pc = p /\ p # "done" /\ Arrived(1) /\ Header # "EVENT"
  BY DEF Replied, Asking, Acks
<1>2. /\ Len(wire) > 0 /\ Framed(wire) /\ Header \in Kinds \ {"body"} /\ Len(wire) \in Nat
  BY <1>1, AtHeader
<1>3. 1 \in 1..Len(wire)  BY SMTT(60), <1>2
<1>4. Header \notin NotReply  BY <1>1, <1>2 DEF NotReply
<1>5. ~OnlyEvents(wire)  BY <1>3, <1>4 DEF OnlyEvents, Header
<1>6. req = "none" /\ \E i \in 1..Len(wire) : ReplyAt(wire, i)
  BY <1>1, <1>5 DEF IInv, Conversation
<1>7. PICK i \in 1..Len(wire) : ReplyAt(wire, i)  BY <1>6
<1>8. i = 1  BY <1>3, <1>4, <1>7 DEF ReplyAt, Header
<1>9. ReplyAt(wire, 1)  BY <1>7, <1>8
<1>10. \A j \in 2..Len(wire) : j \in 1..Len(wire) /\ j # 1 /\ j \in 1 + 1 .. Len(wire)  BY SMTT(60), <1>2
<1> QED  BY <1>1, <1>2, <1>6, <1>9, <1>10 DEF ReplyAt

\* Taking a whole reply leaves the events behind it.
LEMMA ReplyTaken ==
  ASSUME IInv, NEW p \in Asking, Replied(p), NEW n, n = Size(Header), Take(n)
  PROVE  /\ WireOK' /\ Framed(wire') /\ OnlyEvents(wire') /\ (NoEvents(wire) => NoEvents(wire'))
         /\ \A i \in 1..Len(wire') : Current(wire'[i])
<1>1. /\ Len(wire) > 0 /\ Framed(wire) /\ n = Size(wire[1].kind)
      /\ \A j \in 2..Len(wire) : wire[j].kind \in NotReply /\ Current(wire[j])
  BY AtReply DEF Header
<1>2. /\ n \in 1..4 /\ n <= Len(wire) /\ Framed(wire') /\ Len(wire') = Len(wire) - n
      /\ \A i \in 1 .. Len(wire) - n : wire'[i] = wire[i + n]
  BY SMTT(60), <1>1, TakeFramed DEF Take
<1>3. Len(wire) \in Nat  BY <1>1, FieldOf DEF Framed
<1>4. \A i \in 1..Len(wire') : /\ i + n \in 2..Len(wire) /\ i + n \in 1..Len(wire)
                               /\ wire'[i] = wire[i + n]
  BY SMTT(60), <1>2, <1>3
<1>5. WireOK'  BY <1>2, TakeTypes DEF IInv, CTypes
<1> QED  BY <1>1, <1>2, <1>4, <1>5 DEF OnlyEvents, NoEvents

\* Skipping an event leaves the reply, if there is one, where it was among the events.
LEMMA EventTaken ==
  ASSUME IInv, pc # "done", Arrived(1), Header = "EVENT", Take(3)
  PROVE  /\ WireOK' /\ Framed(wire')
         /\ OnlyEvents(wire) => OnlyEvents(wire')
         /\ NoEvents(wire) => NoEvents(wire')
         /\ (\A i \in 1..Len(wire) : Current(wire[i])) => \A i \in 1..Len(wire') : Current(wire'[i])
         /\ (\E i \in 1..Len(wire) : ReplyAt(wire, i)) => \E i \in 1..Len(wire') : ReplyAt(wire', i)
<1>1. Len(wire) > 0 /\ Framed(wire) /\ Len(wire) \in Nat  BY AtHeader
<1>2. 3 = Size(wire[1].kind)  BY SizeOf DEF Header
<1>3. /\ Framed(wire') /\ Len(wire') = Len(wire) - 3 /\ 3 <= Len(wire)
      /\ \A i \in 1 .. Len(wire) - 3 : wire'[i] = wire[i + 3]
      /\ \A i \in 2..3 : wire[i].kind = "body"
  <2>1. PICK n : n = 3  OBVIOUS
  <2>2. wire' = SubSeq(wire, n + 1, Len(wire))  BY <2>1 DEF Take
  <2>3. /\ Framed(wire') /\ Len(wire') = Len(wire) - n /\ n <= Len(wire)
        /\ \A i \in 1 .. Len(wire) - n : wire'[i] = wire[i + n]
        /\ \A i \in 2..n : wire[i].kind = "body"
    <3>1. n = Size(wire[1].kind)  BY <1>2, <2>1
    <3> QED  BY SMTT(60), <1>1, <2>2, <3>1, TakeFramed
  <2> QED  BY <2>1, <2>3
<1>4. \A i \in 1..Len(wire') : i + 3 \in 1..Len(wire) /\ wire'[i] = wire[i + 3]
  BY SMTT(60), <1>1, <1>3
<1>5. WireOK'
  <2>1. 3 \in 1..4  BY SMTT(60)
  <2> QED  BY <2>1, TakeTypes DEF IInv, CTypes
<1>6. ASSUME NEW i \in 1..Len(wire), ReplyAt(wire, i) PROVE \E k \in 1..Len(wire') : ReplyAt(wire', k)
  <2>1. i # 1 /\ i # 2 /\ i # 3
    <3>1. wire[i].kind \notin {"EVENT", "body"}  BY <1>6 DEF ReplyAt, NotReply
    <3>2. 2 \in 2..3 /\ 3 \in 2..3  BY SMTT(60)
    <3> QED  BY <1>3, <3>1, <3>2 DEF Header
  <2>2. PICK k \in 1..Len(wire') : i = k + 3  BY SMTT(60), <1>1, <1>3, <2>1
  <2>3. wire'[k] = wire[i]  BY <1>4, <2>2
  <2>4. ASSUME NEW j \in 1..Len(wire'), j # k PROVE wire'[j].kind \in NotReply
    <3>1. j + 3 \in 1..Len(wire) /\ j + 3 # i  BY SMTT(60), <1>1, <1>3, <2>2, <2>4
    <3> QED  BY <1>4, <1>6, <3>1 DEF ReplyAt
  <2>5. ASSUME NEW j \in k + 1 .. Len(wire') PROVE Current(wire'[j])
    <3>1. j \in 1..Len(wire') /\ j + 3 \in i + 1 .. Len(wire)  BY SMTT(60), <1>1, <1>3, <2>2
    <3> QED  BY <1>4, <1>6, <3>1 DEF ReplyAt
  <2>6. ReplyAt(wire', k)  BY <1>6, <2>3, <2>4, <2>5 DEF ReplyAt
  <2> QED  BY <2>6
<1> QED  BY <1>3, <1>4, <1>5, <1>6 DEF OnlyEvents, NoEvents

-----------------------------------------------------------------------------
(* The program *)

\* The program changes nothing of the daemon.
OwnStep == cmd' = cmd /\ WireOK' /\ file' \in BOOLEAN /\ UNCHANGED <<server, closed>>

\* It ends,
LEMMA Ends ==
  ASSUME IInv, OwnStep, NEW v \in {0, 1}, Finish(v),
         v = 0 => Promised' /\ (req = "none" \/ cmd.op = "list")
  PROVE  IInv'
<1>1. CTypes'  BY DEF IInv, OwnStep, CTypes, server
<1>2. pc' = "done" /\ req' = req /\ result' = v  BY DEF Finish
<1>3. PointOK'  BY <1>2 DEF IInv, OwnStep, PointOK, server
<1>4. Conversation'  BY <1>2 DEF Conversation, Asking, Acks, Resting
<1>5. Ended'
  <2>1. result' \in {-1, 0, 1} /\ (result' = 0 => v = 0)  BY <1>2
  <2> QED  BY <1>2, <2>1 DEF Ended, OwnStep
<1> QED  BY <1>1, <1>2, <1>3, <1>4, <1>5 DEF IInv

\* asks on, with nothing but events on the wire,
LEMMA Asks ==
  ASSUME IInv, OwnStep, pc # "done", NEW r, NEW p \in (Asking \ {"estatus"}) \cup {"list"},
         Ask(r, p), r # "none", Framed(wire'), OnlyEvents(wire'), PointOK',
         cmd.op = "shutdown" => NoEvents(wire')
  PROVE  IInv'
<1>1. CTypes'  BY DEF IInv, OwnStep, CTypes, server
<1>2. pc' = p /\ req' = r /\ result' = result /\ p # "done"  BY DEF Ask, Asking, Acks
<1>3. Conversation'  BY <1>2 DEF Conversation, OwnStep, Asking, Acks, Resting
<1>4. Ended'
  <2>1. result = -1  BY DEF IInv, Ended
  <2>2. result' \in {-1, 0, 1} /\ result' # 0 /\ result' = -1  BY SMTT(60), <1>2, <2>1
  <2> QED  BY <1>2, <2>2 DEF Ended
<1> QED  BY <1>1, <1>2, <1>3, <1>4 DEF IInv

\* or goes on.
LEMMA GoesOn ==
  ASSUME IInv, OwnStep, pc # "done", pc' # "done", result' = result, Framed(wire'), PointOK',
         Conversation'
  PROVE  IInv'
<1>1. CTypes'  BY DEF IInv, OwnStep, CTypes, server
<1>2. Ended'
  <2>1. result = -1  BY DEF IInv, Ended
  <2>2. result' \in {-1, 0, 1} /\ result' # 0 /\ result' = -1  BY SMTT(60), <2>1
  <2> QED  BY <2>2 DEF Ended
<1> QED  BY <1>1, <1>2 DEF IInv

\* A step that takes nothing or some fields is a step of its own.
LEMMA Own ==
  ASSUME IInv, cmd' = cmd, UNCHANGED <<server, closed, file>>,
         Keep \/ \E n \in 1..4 : Take(n)
  PROVE  OwnStep
<1>1. WireOK /\ file \in BOOLEAN  BY DEF IInv, CTypes
<1>2. WireOK'
  <2>1. CASE Keep  BY <1>1, <2>1 DEF Keep, WireOK
  <2> QED  BY <1>1, <2>1, TakeTypes
<1> QED  BY <1>1, <1>2 DEF OwnStep, server

\* The command is one that main() accepts.
LEMMA CommandOK ==
  ASSUME IInv, CommandLines
  PROVE  /\ cmd.op \in Ops
         /\ ~cmd.online => cmd.op \in Switches
         /\ cmd.ignore => cmd.op \in Stops \cup {"restart"}
<1>1. cmd \in Commands  BY DEF IInv, CTypes
<1>2. cmd \in [op : Ops, wait : BOOLEAN, ignore : BOOLEAN, two : BOOLEAN, online : BOOLEAN]
  BY <1>1 DEF CommandLines
<1> QED  BY <1>1, <1>2 DEF CommandLines

\* connect_to_daemon, or no daemon
LEMMA ConnectStep == ASSUME IInv, CommandLines, Connect PROVE IInv'
<1>1. /\ pc = "start" /\ cmd' = cmd /\ UNCHANGED <<server, closed, file>> /\ Keep
      /\ result' = result /\ pc' \in {"version", "file"}
  BY DEF Connect, Plain, Rest, Ask
<1>2. OwnStep  BY <1>1, Own
<1>3. req = "none" /\ OnlyEvents(wire) /\ Framed(wire) /\ (cmd.op = "shutdown" => NoEvents(wire))
  BY <1>1 DEF IInv, Conversation, Resting
<1>4. OnlyEvents(wire') /\ Framed(wire') /\ (cmd.op = "shutdown" => NoEvents(wire'))
  BY <1>1, <1>3 DEF Keep
<1>5. CASE Ask("version", "version")
  <2>1. PointOK'
    BY <1>1, <1>5 DEF IInv, PointOK, Ask, server, Asking, Acks
  <2>2. "version" \in Asking \ {"estatus"}  BY DEF Asking
  <2> QED  BY <1>1, <1>2, <1>4, <1>5, <2>1, <2>2, Asks
<1>6. CASE ~cmd.online /\ pc' = "file" /\ req' = req
  <2>1. cmd.op \in Switches  BY <1>6, CommandOK
  <2>2. PointOK'
    BY <1>1, <1>6, <2>1 DEF IInv, PointOK, server, Resting, Switches
  <2>3. Conversation'
    BY <1>1, <1>3, <1>4, <1>6 DEF Conversation, Asking, Acks, Resting
  <2> QED  BY <1>1, <1>2, <1>4, <1>6, <2>2, <2>3, GoesOn
<1> QED  BY <1>5, <1>6 DEF Connect

\* check_protocol_version, and the first request
LEMMA CheckVersionStep == ASSUME IInv, CommandLines, CheckVersion PROVE IInv'
<1>0. "version" \in Asking  BY DEF Asking
<1>1. "version" \in Asking /\ pc = "version" /\ pc # "done" /\ req = "none"
  BY <1>0, AtReply DEF CheckVersion
<1>2. 3 \in 1..4  BY SMTT(60)
<1>3. OwnStep
  BY <1>2, Own DEF CheckVersion, Plain, Rest, Finish, Ask
<1>4. CASE Finish(1)
  <2>1. 1 \in {0, 1} /\ 1 # 0  BY SMTT(60)
  <2> QED  BY <1>3, <1>4, <2>1, Ends
<1>5. CASE Header = "CPVERSION"
  <2>1. 3 = Size(Header)  BY <1>5, SizeOf
  <2>2. Framed(wire') /\ OnlyEvents(wire') /\ (cmd.op = "shutdown" => NoEvents(wire'))
    BY <1>1, <2>1, ReplyTaken DEF CheckVersion, IInv, Conversation
  <2>3. cmd.op \in Ops  BY CommandOK
  <2>4. CASE cmd.op \in FindsFirst /\ Ask("find", "find")
    <3>1. PointOK'
      BY <1>3, <2>4 DEF IInv, PointOK, OwnStep, Ask, server, Asking, Acks, FindsFirst
    <3>2. "find" \in Asking \ {"estatus"} /\ "find" # "none"  BY DEF Asking
    <3> QED  BY <1>1, <1>3, <2>2, <2>4, <3>1, <3>2, Asks
  <2>5. CASE cmd.op \in {"list", "shutdown", "setenv"} /\ Ask(cmd.op, cmd.op)
    <3>1. PointOK'
      BY <1>3, <2>5 DEF IInv, PointOK, OwnStep, Ask, server, Asking, Acks
    <3>2. cmd.op \in (Asking \ {"estatus"}) \cup {"list"} /\ cmd.op # "none"
      BY <2>5 DEF Asking
    <3> QED  BY <1>1, <1>3, <2>2, <2>5, <3>1, <3>2, Asks
  <2>6. CASE /\ cmd.op \notin FindsFirst \cup {"list", "shutdown", "setenv"}
             /\ Ask(LoadRequest(left), "load")
    <3>1. LoadRequest(left) \in {"load", "load_from"}  BY DEF LoadRequest
    <3>2. cmd.op \in Loading  BY <2>3, <2>6 DEF Loading, FindsFirst
    <3>3. PointOK'
      BY <1>3, <2>6, <3>1, <3>2 DEF IInv, PointOK, OwnStep, Ask, server, Asking, Acks
    <3>4. "load" \in Asking \ {"estatus"} /\ LoadRequest(left) # "none"  BY <3>1 DEF Asking
    <3> QED  BY <1>1, <1>3, <2>2, <2>6, <3>3, <3>4, Asks
  <2>7. \/ Finish(1)
        \/ cmd.op \in FindsFirst /\ Ask("find", "find")
        \/ cmd.op \in {"list", "shutdown", "setenv"} /\ Ask(cmd.op, cmd.op)
        \/ /\ cmd.op \notin FindsFirst \cup {"list", "shutdown", "setenv"}
           /\ Ask(LoadRequest(left), "load")
    BY SMTT(60) DEF CheckVersion, FindsFirst
  <2> QED  BY <1>4, <2>4, <2>5, <2>6, <2>7
<1> QED  BY <1>4, <1>5 DEF CheckVersion

\* A reply may end the program, whether it is taken or not,
LEMMA ReplyEnds ==
  ASSUME IInv, NEW p \in Asking, Replied(p), Rest, Keep \/ \E n \in 1..4 : Take(n),
         NEW v \in {0, 1}, Finish(v), v = 0 => Promised'
  PROVE  IInv'
<1>1. OwnStep  BY Own DEF Finish, Rest
<1>2. req = "none"  BY AtReply
<1> QED  BY <1>1, <1>2, Ends

\* or lead to the next question.
LEMMA ReplyAsks ==
  ASSUME IInv, NEW p \in Asking, Replied(p), Rest, NEW n, n = Size(Header), Take(n),
         NEW r, NEW q \in Asking \ {"estatus"}, Ask(r, q), r # "none", PointOK',
         cmd.op # "shutdown"
  PROVE  IInv'
<1>1. n \in 1..4  BY AtReply, SizeOf
<1>2. OwnStep  BY <1>1, Own DEF Ask, Rest
<1>3. Framed(wire') /\ OnlyEvents(wire')  BY ReplyTaken
<1>4. pc # "done"  BY AtReply DEF Asking, Acks
<1> QED  BY <1>2, <1>3, <1>4, Asks

\* or to waiting or work on files.
LEMMA ReplyRests ==
  ASSUME IInv, NEW p \in Asking, Replied(p), Rest, NEW n, n = Size(Header), Take(n),
         NEW q \in Resting, pc' = q, UNCHANGED <<cmd, result, req>>, PointOK', cmd.op # "shutdown",
         q = "wait" /\ cmd.op = "restart" => Restarting,
         q \in {"link", "wait"} /\ cmd.op \in Switches /\ cmd.online => link = (cmd.op = "enable"),
         q = "wait" /\ cmd.op \in Switches => file = (cmd.op = "enable")
  PROVE  IInv'
<1>1. n \in 1..4  BY AtReply, SizeOf
<1>2. OwnStep  BY <1>1, Own DEF Rest
<1>3. /\ Framed(wire') /\ OnlyEvents(wire') /\ \A i \in 1..Len(wire') : Current(wire'[i])
  BY ReplyTaken
<1>4. pc # "done" /\ req = "none"  BY AtReply DEF Asking, Acks
<1>5. pc' # "done" /\ pc' \notin Asking /\ pc' # "closing" /\ pc' # "estatus"
  BY DEF Resting, Asking, Acks
<1>6. Restarting => Restarting'  BY DEF Restarting, Rest, server
<1>7. \A i \in 1..Len(wire') : Current(wire[i])'  BY <1>3 DEF Current, Rest, server
<1>8. Conversation'
  BY <1>3, <1>4, <1>5, <1>6, <1>7 DEF Conversation, Rest, server
<1> QED  BY <1>2, <1>3, <1>4, <1>5, <1>8, GoesOn

\* Most commands promise nothing of the service.
LEMMA NothingPromised ==
  ASSUME cmd' = cmd, cmd.op \notin {"start", "wake", "stop", "release", "restart", "is_started",
                                    "enable", "disable", "shutdown"}
  PROVE  Promised'
BY DEF Promised, Stops

\* check_load_reply, and what follows loading
LEMMA CheckLoadStep == ASSUME IInv, CommandLines, CheckLoadReply PROVE IInv'
<1>1. "load" \in Asking /\ Replied("load") /\ Rest  BY DEF CheckLoadReply, Asking
<1>2. pc = "load" /\ req = "none"  BY <1>1, AtReply
<1>3. cmd.op \in Loading  BY <1>2 DEF IInv, PointOK
<1>4. cmd.op # "shutdown"  BY <1>3 DEF Loading
<1>5. CASE Header # "SERVICERECORD"
  <2>1. PICK v \in {0, 1} : v = IF cmd.ignore THEN 0 ELSE 1  OBVIOUS
  <2>2. Finish(v) /\ Keep  BY <1>5, <2>1 DEF CheckLoadReply
  <2>3. v = 0 => cmd.ignore  BY SMTT(60), <2>1
  <2>4. cmd.ignore => Promised'
    <3>1. SUFFICES ASSUME cmd.ignore PROVE Promised'  OBVIOUS
    <3>2. cmd.op \in {"stop", "release", "restart"}  BY <3>1, CommandOK DEF Stops
    <3>3. cmd' = cmd  BY <2>2 DEF Finish
    <3> QED  BY <3>1, <3>2, <3>3 DEF Promised, Stops
  <2> QED  BY <1>1, <2>2, <2>3, <2>4, ReplyEnds
<1>6. CASE Header = "SERVICERECORD"
  <2>1. 4 = Size(Header) /\ 4 \in 1..4
    <3>1. 4 \in 1..4  BY SMTT(60)
    <3> QED  BY <1>6, <3>1, SizeOf
  <2>2. Take(4)  BY <1>6 DEF CheckLoadReply
  <2>3. ASSUME NEW r \in {"load", "load_from"}, Ask(r, "load") PROVE IInv'
    <3>1. PointOK'
      BY <1>3, <1>4, <2>3 DEF PointOK, Ask, Asking
    <3>2. "load" \in Asking \ {"estatus"} /\ r # "none"  BY <1>1
    <3> QED  BY <1>1, <1>4, <2>1, <2>2, <2>3, <3>1, <3>2, ReplyAsks
  <2>4. CASE pc' = "watch" /\ cmd.op = "monitor" /\ UNCHANGED <<cmd, result, req>>
    <3>1. PointOK'
      BY <1>1, <1>2, <2>4 DEF IInv, PointOK, Rest, server, Resting
    <3>2. "watch" \in Resting /\ "watch" \notin {"link", "wait"}  BY DEF Resting
    <3> QED  BY <1>1, <1>4, <2>1, <2>2, <2>4, <3>1, <3>2, ReplyRests
  <2>5. CASE cmd.op = "reload" /\ Finish(0)
    <3>1. Promised'  BY <2>5, NothingPromised DEF Finish
    <3>2. 0 \in {0, 1}  OBVIOUS
    <3> QED  BY <1>1, <2>1, <2>2, <2>5, <3>1, <3>2, ReplyEnds
  <2>6. CASE cmd.op \in Switches /\ Ask("mech", "mech")
    <3>1. PointOK'
      BY <1>1, <2>6 DEF IInv, PointOK, Rest, Ask, server, Asking, Switches
    <3>2. "mech" \in Asking \ {"estatus"} /\ "mech" # "none"  BY DEF Asking
    <3> QED  BY <1>1, <1>4, <2>1, <2>2, <2>6, <3>1, <3>2, ReplyAsks
  <2>7. CASE cmd.op \in StartStop /\ Ask(cmd.op, "start_stop")
    <3>1. PointOK'
      BY <1>1, <2>7 DEF IInv, PointOK, Rest, Ask, server, Asking, StartStop
    <3>2. "start_stop" \in Asking \ {"estatus"} /\ cmd.op # "none"
      BY <2>7 DEF Asking, StartStop
    <3> QED  BY <1>1, <1>4, <2>1, <2>2, <2>7, <3>1, <3>2, ReplyAsks
  <2>8. CASE /\ cmd.op \notin {"monitor", "reload"} \cup Switches \cup StartStop
             /\ Ask(cmd.op, cmd.op)
    <3>1. cmd.op \in {"add_dep", "rm_dep", "unpin", "trigger", "catlog", "signal"}
      BY <1>3, <2>8 DEF Loading, Ops, TwoServices, StartStop, FindsFirst, NewProtocol, Switches
    <3>2. PointOK'
      BY <1>1, <2>8, <3>1 DEF IInv, PointOK, Rest, Ask, server, Asking, Acks
    <3>3. cmd.op \in Asking \ {"estatus"} /\ cmd.op # "none"
      BY <3>1 DEF Asking, Acks
    <3> QED  BY <1>1, <1>4, <2>1, <2>2, <2>8, <3>2, <3>3, ReplyAsks
  <2>9. CASE AfterLoad
    <3>1. \/ pc' = "watch" /\ cmd.op = "monitor" /\ UNCHANGED <<cmd, result, req>>
          \/ cmd.op = "reload" /\ Finish(0)
          \/ cmd.op \in Switches /\ Ask("mech", "mech")
          \/ cmd.op \in StartStop /\ Ask(cmd.op, "start_stop")
          \/ cmd.op \in {"add_dep", "rm_dep"} /\ Finish(1)
          \/ /\ cmd.op \notin {"monitor", "reload"} \cup Switches \cup StartStop
             /\ Ask(cmd.op, cmd.op)
      BY SMTT(60), <2>9 DEF AfterLoad, Switches, StartStop
    <3>2. CASE Finish(1)
      <4>1. 1 \in {0, 1} /\ 1 # 0  BY SMTT(60)
      <4> QED  BY <1>1, <2>1, <2>2, <3>2, <4>1, ReplyEnds
    <3> QED  BY <2>4, <2>5, <2>6, <2>7, <2>8, <3>1, <3>2
  <2> QED
    <3>1. LoadRequest(1) \in {"load", "load_from"}  BY DEF LoadRequest
    <3> QED  BY <1>6, <2>3, <2>9, <3>1 DEF CheckLoadReply
<1> QED  BY <1>5, <1>6

\* issue a find request for the service first
LEMMA FindReplyStep == ASSUME IInv, CommandLines, FindReply PROVE IInv'
<1>1. "find" \in Asking /\ Replied("find") /\ Rest  BY DEF FindReply, Asking, Plain
<1>2. pc = "find" /\ req = "none"  BY <1>1, AtReply
<1>3. cmd.op \in FindsFirst /\ cmd.op # "shutdown"  BY <1>2 DEF IInv, PointOK, FindsFirst
<1>4. CASE Header = "SERVICERECORD"
  <2>1. 4 = Size(Header)  BY <1>4, SizeOf
  <2>2. PICK q : q = IF cmd.op = "is_started" THEN "status" ELSE cmd.op  OBVIOUS
  <2>3. Take(4) /\ Ask(cmd.op, q)  BY <1>4, <2>2 DEF FindReply
  <2>4. q \in {"status", "unload", "reload"} /\ (q = "status" => cmd.op \in {"status", "is_started"})
    BY <1>3, <2>2 DEF FindsFirst
  <2>5. q \in Asking \ {"estatus"} /\ cmd.op # "none"
    BY <1>3, <2>4 DEF Asking, Acks, FindsFirst
  <2>6. PointOK'
    BY <1>3, <2>3, <2>4, <2>5 DEF PointOK, Ask, FindsFirst
  <2> QED  BY <1>1, <1>3, <2>1, <2>3, <2>5, <2>6, ReplyAsks
<1>5. CASE Header = "NOSERVICE" /\ cmd.op = "reload"
  <2>1. 1 = Size(Header)  BY <1>5, SizeOf
  <2>2. Take(1) /\ Ask("load", "load")  BY <1>5 DEF FindReply
  <2>3. "load" \in Asking \ {"estatus"} /\ "load" # "none"  BY DEF Asking
  <2>4. PointOK'
    BY <1>5, <2>2, <2>3 DEF PointOK, Ask, Loading, Ops, FindsFirst
  <2> QED  BY <1>1, <1>3, <2>1, <2>2, <2>3, <2>4, ReplyAsks
<1>6. CASE Keep /\ Finish(1)
  <2>1. 1 \in {0, 1} /\ 1 # 0  BY SMTT(60)
  <2> QED  BY <1>1, <1>6, <2>1, ReplyEnds
<1> QED  BY <1>4, <1>5, <1>6 DEF FindReply

\* A reply of one of the commands that promise nothing ends the program, one way or the other.
LEMMA PlainEnd ==
  ASSUME IInv, NEW p \in Asking, Replied(p), Rest, Keep \/ \E n \in 1..4 : Take(n),
         NEW v, v \in {0, 1}, Finish(v),
         cmd.op \notin {"start", "wake", "stop", "release", "restart", "is_started",
                        "enable", "disable", "shutdown"}
  PROVE  IInv'
<1>1. Promised'  BY NothingPromised DEF Finish
<1> QED  BY <1>1, ReplyEnds

\* The commands that want an acknowledgement
LEMMA AckReplyStep ==
  ASSUME IInv, NEW op \in {"unpin", "unload", "reload", "trigger", "signal"}, AckReply(op)
  PROVE  IInv'
<1>1. op \in Asking /\ Replied(op) /\ Rest /\ cmd.op = op
  BY DEF AckReply, Asking, Acks, Plain
<1>2. PICK v \in {0, 1} : Finish(v) /\ (Keep \/ Take(1))
  <2>1. 0 \in {0, 1} /\ 1 \in {0, 1}  OBVIOUS
  <2> QED  BY <2>1 DEF AckReply
<1>3. 1 \in 1..4  BY SMTT(60)
<1>4. Keep \/ \E n \in 1..4 : Take(n)  BY <1>2, <1>3
<1>5. op \notin {"start", "wake", "stop", "release", "restart", "is_started",
                 "enable", "disable", "shutdown"}  OBVIOUS
<1> QED  BY <1>1, <1>2, <1>4, <1>5, PlainEnd

\* add_remove_dependency
LEMMA DependencyReplyStep == ASSUME IInv, DependencyReply PROVE IInv'
<1>1. cmd.op \in Asking /\ Replied(cmd.op) /\ Rest /\ cmd.op \in {"add_dep", "rm_dep"} /\ Keep
  BY DEF DependencyReply, Asking, Acks, Plain
<1>2. PICK v \in {0, 1} : Finish(v)
  <2>1. 0 \in {0, 1} /\ 1 \in {0, 1}  OBVIOUS
  <2> QED  BY <2>1 DEF DependencyReply
<1>3. cmd.op \notin {"start", "wake", "stop", "release", "restart", "is_started",
                     "enable", "disable", "shutdown"}  BY <1>1
<1> QED  BY <1>1, <1>2, <1>3, PlainEnd

\* add_environment_variables
LEMMA SetenvReplyStep == ASSUME IInv, SetenvReply PROVE IInv'
<1>1. "setenv" \in Asking /\ Replied("setenv") /\ Rest  BY DEF SetenvReply, Asking
<1>2. pc = "setenv" /\ req = "none"  BY <1>1, AtReply
<1>3. cmd.op = "setenv"  BY <1>2 DEF IInv, PointOK
<1>4. 1 \in 1..4 /\ 0 \in {0, 1} /\ 1 \in {0, 1}  BY SMTT(60)
<1>5. CASE \E v \in {0, 1} : Finish(v) /\ (Keep \/ Take(1))
  <2>1. Keep \/ \E n \in 1..4 : Take(n)  BY <1>4, <1>5
  <2> QED  BY <1>1, <1>3, <1>5, <2>1, PlainEnd
<1>6. CASE Header = "ACK" /\ Take(1) /\ Ask("setenv", "setenv")
  <2>1. 1 = Size(Header)  BY <1>6, SizeOf
  <2>2. "setenv" \in Asking \ {"estatus"} /\ "setenv" # "none"  BY DEF Asking
  <2>3. PointOK'  BY <1>3, <1>6, <2>2 DEF PointOK, Ask
  <2> QED  BY <1>1, <1>3, <1>6, <2>1, <2>2, <2>3, ReplyAsks
<1> QED  BY <1>4, <1>5, <1>6 DEF SetenvReply

\* cat_service_log
LEMMA CatLogReplyStep == ASSUME IInv, CatLogReply PROVE IInv'
<1>1. "catlog" \in Asking /\ Replied("catlog") /\ Rest  BY DEF CatLogReply, Asking, Plain
<1>2. pc = "catlog"  BY <1>1, AtReply
<1>3. cmd.op = "catlog"  BY <1>2 DEF IInv, PointOK
<1>4. 3 \in 1..4 /\ 0 \in {0, 1} /\ 1 \in {0, 1}  BY SMTT(60)
<1>5. \E v \in {0, 1} : Finish(v) /\ (Keep \/ Take(3))
  BY <1>4, SizeOf DEF CatLogReply
<1>6. Keep \/ \E n \in 1..4 : Take(n)  BY <1>4, <1>5
<1> QED  BY <1>1, <1>3, <1>5, <1>6, PlainEnd

\* service_status: "is-started" succeeds for a service that was started when it was asked.
LEMMA StatusReplyStep == ASSUME IInv, StatusReply PROVE IInv'
<1>1. "status" \in Asking /\ Replied("status") /\ Rest  BY DEF StatusReply, Asking, Plain
<1>2. pc = "status" /\ req = "none" /\ Meant(wire[1])  BY <1>1, AtReply
<1>3. cmd.op \in {"status", "is_started"}  BY <1>2 DEF IInv, PointOK
<1>4. 2 \in 1..4 /\ 0 \in {0, 1} /\ 1 \in {0, 1} /\ 0 # 1  BY SMTT(60)
<1>5. PICK v \in {0, 1} : /\ Finish(v) /\ (Keep \/ Take(2))
                          /\ v = 0 => /\ Header = "SERVICESTATUS"
                                      /\ cmd.op = "is_started" => About = "STARTED"
  BY <1>4 DEF StatusReply
<1>6. Keep \/ \E n \in 1..4 : Take(n)  BY <1>4, <1>5
<1>7. v = 0 => Promised'
  <2>1. SUFFICES ASSUME v = 0 PROVE Promised'  OBVIOUS
  <2>2. cmd.op = "is_started" => "STARTED" \in since
    BY <1>2, <1>5, <2>1 DEF Meant, Header, About
  <2>3. cmd' = cmd /\ since' = since  BY <1>1, <1>5 DEF Finish, Rest, server
  <2> QED  BY <1>3, <2>2, <2>3 DEF Promised, Stops
<1> QED  BY <1>1, <1>5, <1>6, <1>7, ReplyEnds

\* start_stop_service: what was done at once was done, what is waited for is under way.
LEMMA StartStopReplyStep == ASSUME IInv, StartStopReply PROVE IInv'
<1>1. "start_stop" \in Asking /\ Replied("start_stop") /\ Rest
  BY DEF StartStopReply, Asking
<1>2. pc = "start_stop" /\ req = "none" /\ Meant(wire[1])  BY <1>1, AtReply
<1>3. cmd.op \in StartStop /\ cmd.op # "shutdown" /\ cmd.op \notin Switches
  BY <1>2 DEF IInv, PointOK, StartStop, Switches
<1>4. /\ 1 \in 1..4 /\ 3 \in 1..4 /\ 0 \in {0, 1} /\ 1 \in {0, 1} /\ 0 # 1
  BY SMTT(60)
<1>5. since' = since  BY <1>1 DEF Rest, server
<1>6. CASE Header = "ALREADYSS" /\ Take(1) /\ Finish(0)
  <2>1. Wanted \in since /\ cmd.op # "restart"  BY <1>2, <1>6 DEF Meant, Header
  <2>2. cmd' = cmd  BY <1>6 DEF Finish
  <2>3. Promised'  BY <1>3, <1>5, <2>1, <2>2 DEF Promised, Wanted, Stops, StartStop
  <2> QED  BY <1>1, <1>4, <1>6, <2>3, ReplyEnds
<1>7. CASE Header = "DEPENDENTS" /\ Take(Size("DEPENDENTS")) /\ Ask("name", "name")
  <2>1. 3 = Size(Header) /\ Take(3)  BY <1>7, SizeOf
  <2>2. "name" \in Asking \ {"estatus"} /\ "name" # "none"  BY DEF Asking
  <2>3. PointOK'  BY <1>3, <1>7, <2>2 DEF PointOK, Ask
  <2> QED  BY <1>1, <1>3, <1>7, <2>1, <2>2, <2>3, ReplyAsks
<1>8. CASE cmd.op = "restart" /\ Take(1) /\ Finish(IF cmd.ignore THEN 0 ELSE 1)
  <2>1. PICK v \in {0, 1} : v = IF cmd.ignore THEN 0 ELSE 1  OBVIOUS
  <2>2. Finish(v) /\ (v = 0 => cmd.ignore) /\ cmd' = cmd  BY <1>4, <1>8, <2>1 DEF Finish
  <2>3. v = 0 => Promised'  BY <1>8, <2>2 DEF Promised, Stops
  <2> QED  BY <1>1, <1>4, <1>8, <2>2, <2>3, ReplyEnds
<1>9. CASE Header = "ACK" /\ Take(1) /\ cmd.wait /\ pc' = "wait" /\ UNCHANGED <<cmd, result, req>>
  <2>1. 1 = Size(Header)  BY <1>9, SizeOf
  <2>2. "wait" \in Resting  BY DEF Resting
  <2>3. PointOK'
    BY <1>1, <1>2, <1>3, <1>9, <2>2 DEF IInv, PointOK, Rest, server
  <2>4. cmd.op = "restart" => Restarting  BY <1>2, <1>9 DEF Meant, Header
  <2> QED  BY <1>1, <1>3, <1>9, <2>1, <2>2, <2>3, <2>4, ReplyRests
<1>10. CASE Take(1) /\ ~cmd.wait /\ Finish(0)
  <2>1. cmd' = cmd  BY <1>10 DEF Finish
  <2>2. Promised'  BY <1>3, <1>10, <2>1 DEF Promised, Stops, StartStop
  <2> QED  BY <1>1, <1>4, <1>10, <2>2, ReplyEnds
<1>11. CASE Take(1) /\ Finish(1)  BY <1>1, <1>4, <1>11, ReplyEnds
<1> QED  BY <1>6, <1>7, <1>8, <1>9, <1>10, <1>11 DEF StartStopReply

\* The names of dependents
LEMMA NameReplyStep == ASSUME IInv, NameReply PROVE IInv'
<1>1. "name" \in Asking /\ Replied("name") /\ Rest  BY DEF NameReply, Asking
<1>2. pc = "name"  BY <1>1, AtReply
<1>3. cmd.op # "shutdown"  BY <1>2 DEF IInv, PointOK
<1>4. 3 \in 1..4 /\ 1 \in {0, 1} /\ 1 # 0  BY SMTT(60)
<1>5. CASE Finish(1) /\ (Keep \/ Take(3))  BY <1>1, <1>4, <1>5, ReplyEnds
<1>6. CASE Header = "SERVICENAME" /\ Take(3) /\ Ask("name", "name")
  <2>1. 3 = Size(Header)  BY <1>6, SizeOf
  <2>2. "name" \in Asking \ {"estatus"} /\ "name" # "none"  BY DEF Asking
  <2>3. PointOK'  BY <1>3, <1>6, <2>2 DEF PointOK, Ask
  <2> QED  BY <1>1, <1>3, <1>6, <2>1, <2>2, <2>3, ReplyAsks
<1> QED  BY <1>5, <1>6, SizeOf DEF NameReply

\* enable_disable_service: the loader mechanism,
LEMMA LoadMechReplyStep == ASSUME IInv, LoadMechReply PROVE IInv'
<1>1. "mech" \in Asking /\ Replied("mech") /\ Rest  BY DEF LoadMechReply, Asking, Plain
<1>2. pc = "mech"  BY <1>1, AtReply
<1>3. cmd.op \in Switches /\ cmd.op # "shutdown"  BY <1>2 DEF IInv, PointOK, Switches
<1>4. 1 \in {0, 1} /\ 1 # 0  BY SMTT(60)
<1>5. CASE Finish(1) /\ Keep  BY <1>1, <1>4, <1>5, ReplyEnds
<1>6. CASE Header = "LOADER_MECH" /\ Take(4) /\ Ask("dscdir", "dscdir_from")
  <2>1. 4 = Size(Header)  BY <1>6, SizeOf
  <2>2. "dscdir_from" \in Asking \ {"estatus"} /\ "dscdir" # "none"  BY DEF Asking
  <2>3. PointOK'  BY <1>3, <1>6, <2>2 DEF PointOK, Ask
  <2> QED  BY <1>1, <1>3, <1>6, <2>1, <2>2, <2>3, ReplyAsks
<1> QED  BY <1>5, <1>6, SizeOf DEF LoadMechReply

\* the directories of the two descriptions,
LEMMA DscDirReplyStep == ASSUME IInv, DscDirReply PROVE IInv'
<1>1. PICK p \in {"dscdir_from", "dscdir_to"} : Replied(p)  BY DEF DscDirReply
<1>2. p \in Asking /\ Rest  BY DEF DscDirReply, Asking, Plain
<1>3. pc = p /\ req = "none"  BY <1>1, <1>2, AtReply
<1>4. cmd.op \in Switches /\ cmd.op # "shutdown"  BY <1>3 DEF IInv, PointOK, Switches
<1>5. 1 \in {0, 1} /\ 1 # 0  BY SMTT(60)
<1>6. CASE Finish(1) /\ Keep  BY <1>1, <1>2, <1>5, <1>6, ReplyEnds
<1>7. CASE Header = "SVCDSCDIR" /\ Take(3) /\ Ask("dscdir", "dscdir_to")
  <2>1. 3 = Size(Header)  BY <1>7, SizeOf
  <2>2. "dscdir_to" \in Asking \ {"estatus"} /\ "dscdir" # "none"  BY DEF Asking
  <2>3. PointOK'  BY <1>4, <1>7, <2>2 DEF PointOK, Ask
  <2> QED  BY <1>1, <1>2, <1>4, <1>7, <2>1, <2>2, <2>3, ReplyAsks
<1>8. CASE Header = "SVCDSCDIR" /\ Take(3) /\ pc' = "file" /\ UNCHANGED <<cmd, result, req>>
  <2>1. 3 = Size(Header)  BY <1>8, SizeOf
  <2>2. "file" \in Resting /\ "file" \notin {"link", "wait"}  BY DEF Resting
  <2>3. PointOK'
    BY <1>2, <1>3, <1>4, <1>8, <2>2 DEF IInv, PointOK, Rest, server
  <2> QED  BY <1>1, <1>2, <1>4, <1>8, <2>1, <2>2, <2>3, ReplyRests
<1> QED  BY <1>6, <1>7, <1>8, SizeOf DEF DscDirReply

\* the dependency in the daemon's graph,
LEMMA EnableReplyStep == ASSUME IInv, EnableReply PROVE IInv'
<1>1. "enable" \in Asking /\ Replied("enable") /\ Rest  BY DEF EnableReply, Asking, Plain
<1>2. pc = "enable" /\ req = "none" /\ Meant(wire[1])  BY <1>1, AtReply
<1>3. cmd.op \in Switches /\ cmd.op # "shutdown"  BY <1>2 DEF IInv, PointOK, Switches
<1>4. 1 \in {0, 1} /\ 1 # 0  BY SMTT(60)
<1>5. CASE Finish(1) /\ Keep  BY <1>1, <1>4, <1>5, ReplyEnds
<1>6. CASE Header = "ACK" /\ Take(1) /\ pc' = "link" /\ UNCHANGED <<cmd, result, req>>
  <2>1. 1 = Size(Header)  BY <1>6, SizeOf
  <2>2. "link" \in Resting /\ "link" # "wait"  BY DEF Resting
  <2>3. PointOK'
    BY <1>1, <1>2, <1>3, <1>6, <2>2 DEF IInv, PointOK, Rest, server
  <2>4. link = (cmd.op = "enable")  BY <1>2, <1>6 DEF Meant, Header
  <2> QED  BY <1>1, <1>3, <1>6, <2>1, <2>2, <2>3, <2>4, ReplyRests
<1> QED  BY <1>5, <1>6 DEF EnableReply

\* and whether the service is to be waited for.
LEMMA EnableStatusStep == ASSUME IInv, EnableStatus PROVE IInv'
<1>1. "estatus" \in Asking /\ Replied("estatus") /\ Rest  BY DEF EnableStatus, Asking, Plain
<1>2. pc = "estatus" /\ req = "none"  BY <1>1, AtReply
<1>3. cmd.op \in Switches /\ cmd.op # "shutdown"  BY <1>2 DEF IInv, PointOK, Switches
<1>4. file = (cmd.op = "enable") /\ (cmd.online => link = (cmd.op = "enable"))
  BY <1>2, <1>3 DEF IInv, Conversation
<1>5. 3 \in 1..4 /\ 0 \in {0, 1} /\ 1 \in {0, 1} /\ 1 # 0  BY SMTT(60)
<1>6. CASE Finish(1) /\ Keep  BY <1>1, <1>5, <1>6, ReplyEnds
<1>7. CASE Take(3) /\ Finish(0)
  <2>1. cmd' = cmd /\ file' = file /\ link' = link  BY <1>1, <1>7 DEF Finish, Rest, server
  <2>2. Promised'  BY <1>3, <1>4, <2>1 DEF Promised, Stops, Switches
  <2> QED  BY <1>1, <1>5, <1>7, <2>2, ReplyEnds
<1>8. CASE /\ Header = "SERVICESTATUS" /\ cmd.op = "enable" /\ Take(3)
           /\ pc' = "wait" /\ UNCHANGED <<cmd, result, req>>
  <2>1. 3 = Size(Header)  BY <1>8, SizeOf
  <2>2. "wait" \in Resting  BY DEF Resting
  <2>3. PointOK'
    BY <1>1, <1>2, <1>3, <1>8, <2>2 DEF IInv, PointOK, Rest, server
  <2> QED  BY <1>1, <1>3, <1>4, <1>8, <2>1, <2>2, <2>3, ReplyRests
<1> QED  BY <1>6, <1>7, <1>8 DEF EnableStatus

\* The service description is read and
LEMMA ReadDescriptionStep == ASSUME IInv, ReadDescription PROVE IInv'
<1>1. pc = "file" /\ Keep /\ UNCHANGED <<server, closed, file>> /\ cmd' = cmd
  BY DEF ReadDescription, Plain, Rest, Finish, Ask
<1>2. OwnStep  BY <1>1, Own
<1>3. /\ req = "none" /\ OnlyEvents(wire') /\ Framed(wire') /\ pc # "done"
      /\ cmd.op \in Switches /\ cmd.op # "shutdown"
  BY <1>1 DEF IInv, Conversation, Resting, PointOK, Keep, Switches
<1>4. CASE Finish(1)
  <2>1. 1 \in {0, 1} /\ 1 # 0  BY SMTT(60)
  <2> QED  BY <1>2, <1>4, <2>1, Ends
<1>5. CASE Ask(IF cmd.op = "enable" THEN "enable" ELSE "rm_dep", "enable")
  <2>1. PICK r : r = IF cmd.op = "enable" THEN "enable" ELSE "rm_dep"  OBVIOUS
  <2>2. Ask(r, "enable") /\ r \in {"enable", "rm_dep"} /\ r # "none"  BY <1>5, <2>1
  <2>3. "enable" \in Asking \ {"estatus"}  BY DEF Asking
  <2>4. r \in {"none", IF cmd.op = "enable" THEN "enable" ELSE "rm_dep"}  BY <2>1
  <2>5. PointOK'  BY <1>3, <2>2, <2>3, <2>4 DEF PointOK, Ask
  <2> QED  BY <1>2, <1>3, <2>2, <2>3, <2>5, Asks
<1>6. CASE ~cmd.online /\ pc' = "link" /\ UNCHANGED <<cmd, result, req>>
  <2>1. PointOK'
    BY <1>1, <1>3, <1>6 DEF IInv, PointOK, server, Resting
  <2>2. Conversation'
    BY <1>3, <1>6 DEF Conversation, Asking, Acks, Resting
  <2> QED  BY <1>2, <1>3, <1>6, <2>1, <2>2, GoesOn
<1> QED  BY <1>4, <1>5, <1>6 DEF ReadDescription

\* the link made or removed.
LEMMA MakeLinkStep == ASSUME IInv, CommandLines, MakeLink PROVE IInv'
<1>1. pc = "link" /\ Keep /\ UNCHANGED <<server, closed>> /\ cmd' = cmd
  BY DEF MakeLink, Finish, Ask
<1>2. file \in BOOLEAN /\ WireOK  BY DEF IInv, CTypes
<1>3. file' \in BOOLEAN  BY <1>2 DEF MakeLink
<1>4. OwnStep  BY <1>1, <1>2, <1>3 DEF OwnStep, WireOK, Keep
<1>5. /\ req = "none" /\ OnlyEvents(wire') /\ Framed(wire') /\ pc # "done"
      /\ cmd.op \in Switches /\ cmd.op # "shutdown"
      /\ cmd.online => link = (cmd.op = "enable")
  BY <1>1 DEF IInv, Conversation, Resting, PointOK, Keep, Switches
<1>6. CASE Finish(1)
  <2>1. 1 \in {0, 1} /\ 1 # 0  BY SMTT(60)
  <2> QED  BY <1>4, <1>6, <2>1, Ends
<1>7. CASE file = (cmd.op = "disable") /\ file' = ~file
  <2>1. file' = (cmd'.op = "enable")  BY <1>1, <1>2, <1>5, <1>7 DEF Switches
  <2>2. link' = link  BY <1>1 DEF server
  <2>3. CASE cmd.online /\ Ask("status", "estatus")
    <3>1. PointOK'
      BY <1>5, <2>3 DEF PointOK, Ask, Asking
    <3>2. Conversation'
      BY <1>1, <1>5, <2>1, <2>2, <2>3 DEF Conversation, Asking, Acks, Resting, Ask
    <3>3. pc' # "done" /\ result' = result  BY <2>3 DEF Ask
    <3> QED  BY <1>4, <1>5, <3>1, <3>2, <3>3, GoesOn
  <2>4. CASE ~cmd.online /\ Finish(0)
    <3>1. Promised'  BY <1>1, <1>5, <2>1, <2>4 DEF Promised, Stops, Switches
    <3>2. 0 \in {0, 1}  OBVIOUS
    <3> QED  BY <1>4, <1>5, <2>4, <3>1, <3>2, Ends
  <2> QED  BY <1>7, <2>3, <2>4, <1>6 DEF MakeLink
<1> QED  BY <1>6, <1>7 DEF MakeLink

\* A reply that is still to be read means what it meant as long as nothing else changes.
LEMMA ReplyKept ==
  ASSUME UNCHANGED <<pc, cmd, since, sv, link>>, NEW i, ReplyAt(wire', i)
  PROVE  ReplyAt(wire, i)'
BY DEF ReplyAt, Meant, Current, Restarting, Wanted

\* What the conversation says is not about what has arrived.
LEMMA ConversationKept ==
  ASSUME Conversation, UNCHANGED <<pc, cmd, req, wire, since, sv, link, file>>
  PROVE  Conversation'
<1>1. \A i : Current(wire[i]) => Current(wire[i])'  BY DEF Current
<1>2. \A i : ReplyAt(wire, i) => ReplyAt(wire, i)'
  BY DEF ReplyAt, Meant, Current, Restarting, Wanted
<1>3. Restarting => Restarting'  BY DEF Restarting
<1> QED  BY <1>1, <1>2, <1>3 DEF Conversation, OnlyEvents, NoEvents

\* A read()
LEMMA FillStep == ASSUME IInv, fill_buffer_to PROVE IInv'
<1>1. /\ UNCHANGED <<pc, cmd, result, req, wire, since, sv, link, file, closed, listening>>
      /\ pc # "done"
  BY DEF fill_buffer_to, client, server, Reading
<1>2. WireOK'
  <2>1. WireOK /\ \E n \in 1..Len(wire) - buf : buf' = buf + n
    BY DEF IInv, CTypes, fill_buffer_to
  <2>2. Len(wire) \in Nat  BY <2>1, FieldOf DEF WireOK
  <2> QED  BY SMTT(60), <1>1, <2>1, <2>2 DEF WireOK
<1>3. OwnStep  BY <1>1, <1>2 DEF OwnStep, server, IInv, CTypes
<1>4. Framed(wire')  BY <1>1 DEF IInv
<1>5. PointOK'  BY <1>1 DEF IInv, PointOK
<1>6. Conversation'  BY <1>1, ConversationKept DEF IInv
<1> QED  BY <1>1, <1>3, <1>4, <1>5, <1>6, GoesOn

\* The end of the stream
LEMMA EndOfStreamStep == ASSUME IInv, EndOfStream PROVE IInv'
<1>1. cmd' = cmd /\ UNCHANGED <<server, closed, file>> /\ Keep /\ closed
  BY DEF EndOfStream, Finish, Keep
<1>2. OwnStep  BY <1>1, Own
<1>3. PICK v \in {0, 1} : v = IF pc = "closing" THEN 0 ELSE 1  OBVIOUS
<1>4. Finish(v)  BY <1>3 DEF EndOfStream
<1>5. v = 0 => pc = "closing"  BY SMTT(60), <1>3
<1>6. pc = "closing" => cmd.op = "shutdown" /\ req = "none"  BY DEF IInv, PointOK, Conversation
<1>7. pc = "closing" => Promised'
  <2>1. SUFFICES ASSUME pc = "closing" PROVE Promised'  OBVIOUS
  <2>2. cmd'.op = "shutdown" /\ closed'  BY <1>1, <1>6, <2>1
  <2> QED  BY <2>2 DEF Promised, Stops
<1> QED  BY <1>2, <1>4, <1>5, <1>6, <1>7, Ends

\* The end of the stream within the list of dependents
LEMMA DependentsCutStep == ASSUME IInv, DependentsCutShort PROVE IInv'
<1>1. /\ cmd' = cmd /\ UNCHANGED <<server, closed, file>> /\ wire' = <<>> /\ buf' = 0
      /\ pc = "start_stop" /\ cmd.op \in {"stop", "restart"}
  BY DEF DependentsCutShort, ReadsDependents, Finish, Ask
<1>2. wire' \in Seq(Field) /\ Len(wire') = 0  BY SMTT(60), <1>1
<1>3. WireOK' /\ Framed(wire') /\ OnlyEvents(wire')
  BY SMTT(60), <1>1, <1>2 DEF WireOK, Framed, OnlyEvents
<1>4. OwnStep  BY <1>1, <1>3 DEF OwnStep, IInv, CTypes
<1>5. CASE Finish(1)
  <2>1. 1 \in {0, 1} /\ 1 # 0  BY SMTT(60)
  <2> QED  BY <1>4, <1>5, <2>1, Ends
<1>6. CASE Ask("name", "name")
  <2>1. PointOK'
    BY <1>1, <1>6 DEF IInv, PointOK, Ask, server, Asking
  <2>2. "name" \in Asking \ {"estatus"} /\ "name" # "none" /\ pc # "done" /\ cmd.op # "shutdown"
    BY <1>1 DEF Asking
  <2> QED  BY <1>3, <1>4, <1>6, <2>1, <2>2, Asks
<1> QED  BY <1>5, <1>6 DEF DependentsCutShort

\* wait_for_reply: an event is dropped and the reply is found behind it.
LEMMA SkipInfoStep == ASSUME IInv, SkipInfo PROVE IInv'
<1>1. /\ UNCHANGED <<pc, cmd, result, req, since, sv, link, file, closed, listening>>
      /\ pc # "done" /\ pc \notin Resting /\ pc # "closing" /\ Arrived(1) /\ Header = "EVENT" /\ Take(3)
  BY SizeOf DEF SkipInfo, client, server, Reading, InfoPoints, Resting
<1>2. /\ WireOK' /\ Framed(wire')
      /\ OnlyEvents(wire) => OnlyEvents(wire')
      /\ NoEvents(wire) => NoEvents(wire')
      /\ (\E i \in 1..Len(wire) : ReplyAt(wire, i)) => \E i \in 1..Len(wire') : ReplyAt(wire', i)
  BY <1>1, EventTaken
<1>3. OwnStep  BY <1>1, <1>2 DEF OwnStep, server, IInv, CTypes
<1>4. PointOK'  BY <1>1 DEF IInv, PointOK
<1>5. \A i : ReplyAt(wire', i) => ReplyAt(wire, i)'  BY <1>1, ReplyKept
<1>6. Conversation'
  BY <1>1, <1>2, <1>5 DEF IInv, Conversation, Resting
<1> QED  BY <1>1, <1>2, <1>3, <1>4, <1>6, GoesOn

\* list_services
LEMMA ListReplyStep == ASSUME IInv, ListReply PROVE IInv'
<1>1. pc = "list" /\ Arrived(1) /\ Rest /\ pc # "done"  BY DEF ListReply, Replied, Plain
<1>2. cmd.op = "list"  BY <1>1 DEF IInv, PointOK
<1>3. CASE Keep /\ \E v \in {0, 1} : Finish(v)
  <2>1. PICK v \in {0, 1} : Finish(v)  BY <1>3
  <2>2. cmd' = cmd  BY <2>1 DEF Finish
  <2>3. OwnStep  BY <1>1, <1>3, <2>2, Own DEF Rest
  <2>4. Promised'  BY <1>2, <2>2, NothingPromised
  <2> QED  BY <1>2, <2>1, <2>3, <2>4, Ends
<1>4. CASE Header = "SVCINFO" /\ Take(3) /\ UNCHANGED <<cmd, pc, result, req>>
  <2>1. 3 \in 1..4  BY SMTT(60)
  <2>2. OwnStep  BY <1>1, <1>4, <2>1, Own DEF Rest
  <2>3. Framed(wire')
    <3>1. PICK n : n = 3  OBVIOUS
    <3>2. n = Size(wire[1].kind)  BY <1>4, <3>1, SizeOf DEF Header
    <3>3. Len(wire) > 0 /\ Framed(wire)  BY <1>1, AtHeader
    <3>4. wire' = SubSeq(wire, n + 1, Len(wire))  BY <1>4, <3>1 DEF Take
    <3> QED  BY <3>2, <3>3, <3>4, TakeFramed
  <2>4. PointOK'  BY <1>1, <1>4 DEF IInv, PointOK, Rest, server
  <2>5. Conversation'
    BY <1>1, <1>2, <1>4 DEF Conversation, Asking, Acks, Resting
  <2> QED  BY <1>1, <1>4, <2>2, <2>3, <2>4, <2>5, GoesOn
<1> QED
  <2>1. 0 \in {0, 1} /\ 1 \in {0, 1}  OBVIOUS
  <2> QED  BY <1>3, <1>4, <2>1, SizeOf DEF ListReply

\* shutdown_dinit: the acknowledgement is all there is on the wire,
LEMMA ShutdownReplyStep == ASSUME IInv, ShutdownReply PROVE IInv'
<1>1. "shutdown" \in Asking /\ Replied("shutdown") /\ Rest /\ Keep
  BY DEF ShutdownReply, Asking, Plain
<1>2. /\ pc = "shutdown" /\ req = "none" /\ Framed(wire) /\ Len(wire) > 0
      /\ \A j \in 2..Len(wire) : wire[j].kind \in NotReply
  BY <1>1, AtReply
<1>3. cmd.op = "shutdown" /\ NoEvents(wire) /\ pc # "done"
  BY <1>2 DEF IInv, PointOK, Conversation
<1>4. CASE Finish(1)
  <2>1. 1 \in {0, 1} /\ 1 # 0  BY SMTT(60)
  <2> QED  BY <1>1, <1>4, <2>1, ReplyEnds
<1>5. CASE Header = "ACK" /\ pc' = "closing" /\ UNCHANGED <<cmd, result, req>>
  <2>1. OwnStep  BY <1>1, <1>5, Own DEF Rest
  <2>2. Len(wire) \in Nat  BY <1>2, FieldOf DEF Framed
  <2>3. Len(wire) = 1
    <3>1. SUFFICES ASSUME 1 + 1 <= Len(wire) PROVE FALSE  BY SMTT(60), <1>2, <2>2
    <3>2. 2 \in 2..Len(wire) /\ 2 \in 1..Len(wire) /\ 1 \in 1..Len(wire) /\ 1 + 1 = 2
      BY SMTT(60), <2>2, <3>1
    <3>3. wire[2].kind = "body"  BY <1>2, <1>3, <3>2 DEF NoEvents, NotReply
    <3>4. wire[1].kind = "ACK" /\ Size(wire[1].kind) = 1  BY <1>5, SizeOf DEF Header
    <3>5. wire[1].kind # "body"  BY <3>4
    <3>6. 1 + Size(wire[1].kind) <= Len(wire) => wire[1 + Size(wire[1].kind)].kind # "body"
      BY <1>2, <3>2, <3>5 DEF Framed
    <3> QED  BY <3>1, <3>2, <3>3, <3>4, <3>6
  <2>4. PointOK'
    BY <1>1, <1>2, <1>3, <1>5 DEF IInv, PointOK, Rest, server
  <2>5. Conversation'
    BY <1>1, <1>2, <1>3, <1>5, <2>3 DEF Conversation, Asking, Acks, Resting, Keep, NoEvents
  <2>6. Framed(wire') /\ pc' # "done"  BY <1>1, <1>2, <1>5 DEF Keep
  <2> QED  BY <1>3, <1>5, <2>1, <2>4, <2>5, <2>6, GoesOn
<1> QED  BY <1>4, <1>5 DEF ShutdownReply

\* so that only the end of the stream can follow.
LEMMA NothingFollows == ASSUME IInv PROVE ~Closing
<1>1. pc = "closing" => Len(wire) = 1 /\ WireOK  BY DEF IInv, Conversation, CTypes
<1>2. ~(pc = "closing" /\ Arrived(2))
  <2>1. SUFFICES ASSUME pc = "closing", Arrived(2) PROVE FALSE  OBVIOUS
  <2>2. Len(wire) = 1 /\ buf \in Int /\ buf <= Len(wire) /\ buf >= 2
    BY <1>1, <2>1 DEF Arrived, WireOK
  <2> QED  BY SMTT(60), <2>2
<1> QED  BY <1>2 DEF Closing

\* An event that is read and passed over
LEMMA EventPassed ==
  ASSUME IInv, pc \in {"wait", "watch"}, Arrived(2), Header = "EVENT", Take(Size("EVENT")), Rest,
         UNCHANGED <<cmd, pc, result, req>>
  PROVE  IInv'
<1>1. Take(3) /\ pc # "done" /\ pc \in Resting  BY SizeOf DEF Resting
<1>2. Arrived(1)  BY SMTT(60) DEF Arrived, IInv, CTypes, WireOK
<1>3. /\ WireOK' /\ Framed(wire')
      /\ OnlyEvents(wire) => OnlyEvents(wire')
      /\ NoEvents(wire) => NoEvents(wire')
      /\ (\A i \in 1..Len(wire) : Current(wire[i])) => \A i \in 1..Len(wire') : Current(wire'[i])
  BY <1>1, <1>2, EventTaken
<1>4. OwnStep  BY <1>3 DEF OwnStep, IInv, CTypes, Rest
<1>5. PointOK'  BY DEF IInv, PointOK, Rest, server
<1>6. \A i : Current(wire'[i]) => Current(wire[i])'  BY DEF Current, Rest, server
<1>7. Restarting => Restarting'  BY DEF Restarting, Rest, server
<1>8. Conversation'
  BY <1>1, <1>3, <1>6, <1>7 DEF IInv, Conversation, Rest, server, Asking, Acks
<1> QED  BY <1>1, <1>3, <1>4, <1>5, <1>8, GoesOn

\* dinit-monitor reports an event.
LEMMA WatchStep == ASSUME IInv, Watch PROVE IInv'
<1>1. pc = "watch" /\ Arrived(2) /\ Rest  BY DEF Watch
<1>2. CASE Keep /\ Finish(1)
  <2>1. OwnStep  BY <1>1, <1>2, Own DEF Finish, Rest
  <2>2. 1 \in {0, 1} /\ 1 # 0  BY SMTT(60)
  <2> QED  BY <1>2, <2>1, <2>2, Ends
<1>3. CASE Header = "EVENT" /\ Take(Size("EVENT")) /\ UNCHANGED <<cmd, pc, result, req>>
  BY <1>1, <1>3, EventPassed
<1> QED  BY <1>2, <1>3 DEF Watch

\* wait_service_state: the event it ends with is one of what happened since the command.
LEMMA WaitEventStep == ASSUME IInv, WaitEvent PROVE IInv'
<1>1. pc = "wait" /\ Arrived(2) /\ Rest  BY DEF WaitEvent, Plain
<1>2. /\ cmd.op \in StartStop \cup {"enable"} /\ req = "none"
      /\ \A i \in 1..Len(wire) : Current(wire[i])
      /\ cmd.op = "restart" => Restarting
      /\ cmd.op = "enable" => file = TRUE /\ (cmd.online => link = TRUE)
  <2>1. cmd.op = "enable" => cmd.op \in Switches  BY DEF Switches
  <2> QED  BY <1>1, <2>1 DEF IInv, PointOK, Conversation, Resting
<1>3. Arrived(1)  BY SMTT(60), <1>1 DEF Arrived, IInv, CTypes, WireOK
<1>4. Len(wire) > 0 /\ Len(wire) \in Nat  BY <1>1, <1>3, AtHeader
<1>5. 1 \in 1..Len(wire)  BY SMTT(60), <1>4
<1>6. 0 \in {0, 1} /\ 1 \in {0, 1} /\ 0 # 1  BY SMTT(60)
<1>7. CASE Keep /\ Finish(1)
  <2>1. OwnStep  BY <1>1, <1>7, Own DEF Finish, Rest
  <2> QED  BY <1>6, <1>7, <2>1, Ends
<1>8. CASE /\ Keep /\ Finish(0)
           /\ (Header = "EVENT" /\ About = Wanted) \/ cmd.op = "enable"
  <2>1. OwnStep  BY <1>1, <1>8, Own DEF Finish, Rest
  <2>2. cmd' = cmd /\ since' = since /\ file' = file /\ link' = link
    BY <1>1, <1>8 DEF Finish, Rest, server
  <2>3. CASE cmd.op = "enable"
    <3>1. Promised'  BY <1>2, <2>2, <2>3 DEF Promised, Stops
    <3> QED  BY <1>2, <1>6, <1>8, <2>1, <3>1, Ends
  <2>4. CASE cmd.op # "enable"
    <3>1. Wanted \in {"STARTED", "STOPPED"}  BY DEF Wanted
    <3>2. Wanted \in since  BY <1>2, <1>5, <1>8, <2>4, <3>1 DEF Current, Header, About
    <3>3. cmd.op = "restart" => {"STOPPED", "STARTED"} \subseteq since
      BY <1>2, <3>2 DEF Restarting, Wanted, Stops
    <3>4. Promised'
      BY <1>2, <2>2, <2>4, <3>2, <3>3 DEF Promised, Wanted, Stops, StartStop
    <3> QED  BY <1>2, <1>6, <1>8, <2>1, <3>4, Ends
  <2> QED  BY <2>3, <2>4
<1>9. CASE Header = "EVENT" /\ Take(Size("EVENT")) /\ UNCHANGED <<cmd, pc, result, req>>
  BY <1>1, <1>9, EventPassed
<1>10. \/ Keep /\ Finish(1)
       \/ Keep /\ Finish(0) /\ ((Header = "EVENT" /\ About = Wanted) \/ cmd.op = "enable")
       \/ Header = "EVENT" /\ Take(Size("EVENT")) /\ UNCHANGED <<cmd, pc, result, req>>
  <2>1. \/ Header # "EVENT" /\ Keep /\ Finish(1)
        \/ Header = "EVENT" /\ About = Wanted /\ Keep /\ Finish(0)
        \/ Keep /\ Finish(IF cmd.op = "enable" THEN 0 ELSE 1)
        \/ Header = "EVENT" /\ Take(Size("EVENT")) /\ UNCHANGED <<cmd, pc, result, req>>
    BY SMTT(60) DEF WaitEvent, Cancelled, Wanted
  <2>2. Finish(IF cmd.op = "enable" THEN 0 ELSE 1) => Finish(1) \/ (Finish(0) /\ cmd.op = "enable")
    OBVIOUS
  <2> QED  BY <2>1, <2>2
<1> QED  BY <1>7, <1>8, <1>9, <1>10

\* Every step of the program
LEMMA ProgramStep == ASSUME IInv, CommandLines, ~ShortRecords, Program PROVE IInv'
<1>1. \A op \in {"unpin", "unload", "reload", "trigger", "signal"} : AckReply(op) => IInv'
  BY AckReplyStep
<1>2. UnpinReply \/ UnloadReply \/ ReloadReply \/ TriggerReply \/ SignalReply => IInv'
  BY <1>1 DEF UnpinReply, UnloadReply, ReloadReply, TriggerReply, SignalReply
<1>3. ~Closing /\ ~RecordCutShort  BY NothingFollows DEF RecordCutShort
<1> QED
  BY <1>2, <1>3, ConnectStep, FillStep, EndOfStreamStep, DependentsCutStep, SkipInfoStep, CheckVersionStep,
     CheckLoadStep, FindReplyStep, ListReplyStep, StatusReplyStep, DependencyReplyStep,
     SetenvReplyStep, CatLogReplyStep, ShutdownReplyStep, StartStopReplyStep, NameReplyStep,
     WaitEventStep, LoadMechReplyStep, DscDirReplyStep, ReadDescriptionStep, EnableReplyStep,
     MakeLinkStep, EnableStatusStep, WatchStep
  DEF Program

-----------------------------------------------------------------------------
(* The service *)

Outcomes == [state : States, target : States, events : Seq(EventKinds), forced : BOOLEAN]
\* A service that was bound to stop has stopped or still is.
Follows(o) ==
  sv.state = "STOPPING" /\ sv.forced
    => "STOPPED" \in Passed(o) \/ (o.state = "STOPPING" /\ o.forced /\ "STARTED" \notin Passed(o))

\* The lists of events that are sent at once
Lists == {<<>>, <<"STARTED">>, <<"STOPPED">>, <<"FAILEDSTART">>, <<"STOPCANCELLED">>,
          <<"STARTCANCELLED">>, <<"FAILEDSTART", "STOPPED">>, <<"STOPPED", "STARTED">>}

\* They are lists of events.
LEMMA EventLists ==
  /\ Lists \subseteq Seq(EventKinds)
  /\ Told(<<>>) = {} /\ Told(<<"STOPPED">>) = {"STOPPED"}
  /\ Told(<<"STOPPED", "STARTED">>) = {"STOPPED", "STARTED"}
<1>1. /\ \A e \in EventKinds : <<e>> \in Seq(EventKinds) /\ Told(<<e>>) = {e}
      /\ \A e, f \in EventKinds : <<e, f>> \in Seq(EventKinds) /\ Told(<<e, f>>) = {e, f}
      /\ <<>> \in Seq(EventKinds) /\ Told(<<>>) = {}
  BY SMTT(60) DEF Told
<1>2. /\ "STARTED" \in EventKinds /\ "STOPPED" \in EventKinds /\ "FAILEDSTART" \in EventKinds
      /\ "STOPCANCELLED" \in EventKinds /\ "STARTCANCELLED" \in EventKinds
  BY DEF EventKinds
<1> QED  BY SMTT(60), <1>1, <1>2 DEF Lists

\* An outcome is an outcome.
LEMMA OutIs ==
  ASSUME CTypes, NEW st \in States, NEW tg \in States, NEW evs \in Lists,
         NEW o, o = Out(st, tg, evs)
  PROVE  /\ o \in Outcomes /\ o.state = st /\ o.events = evs
         /\ o.forced = (sv.forced /\ "STOPPED" \notin Told(evs))
<1>1. (sv.forced /\ "STOPPED" \notin Told(evs)) \in BOOLEAN  OBVIOUS
<1>2. evs \in Seq(EventKinds)  BY EventLists
<1> QED  BY <1>1, <1>2 DEF Out, Outcomes

\* An outcome without an event
LEMMA QuietOut ==
  ASSUME CTypes, NEW st \in States, NEW tg \in States, NEW o, o = Out(st, tg, <<>>)
  PROVE  o \in Outcomes /\ o.state = st /\ o.forced = sv.forced /\ Passed(o) = {st}
<1>1. PICK e \in Lists : e = <<>>  BY DEF Lists
<1>2. Told(e) = {}  BY <1>1, EventLists
<1>3. o = Out(st, tg, e)  BY <1>1
<1>4. o \in Outcomes /\ o.state = st /\ o.events = e /\ o.forced = (sv.forced /\ "STOPPED" \notin Told(e))
  BY SMTT(60), <1>3, OutIs
<1>5. sv.forced \in BOOLEAN  BY DEF CTypes
<1>6. o.forced = sv.forced  BY <1>2, <1>4, <1>5
<1>7. Passed(o) = {st}
  <2>1. Told(o.events) \cap {"STARTED", "STOPPED"} = {}  BY <1>2, <1>4
  <2> QED  BY <1>4, <2>1 DEF Passed
<1> QED  BY <1>4, <1>6, <1>7

\* The service's states
LEMMA SvOK ==
  ASSUME CTypes
  PROVE  /\ sv.state \in States /\ sv.target \in States /\ sv.forced \in BOOLEAN
         /\ "STARTED" \in States /\ "STOPPED" \in States /\ "STARTING" \in States
         /\ "STOPPING" \in States
BY DEF CTypes, States

\* The outcomes of the daemon's operations
LEMMA StartFollows == ASSUME CTypes, NEW o \in StartResults PROVE o \in Outcomes /\ Follows(o)
<1>1. PICK st \in States, tg \in States, evs \in Lists : o = Out(st, tg, evs)
  BY SvOK DEF StartResults, IfSync, Failures, Lists
<1>2. o \in Outcomes  BY <1>1, OutIs
<1>3. CASE sv.state = "STOPPING" /\ sv.forced
  <2>1. o = Out("STOPPING", "STARTED", <<>>)  BY <1>3 DEF StartResults
  <2>2. o.state = "STOPPING" /\ o.forced = sv.forced /\ Passed(o) = {"STOPPING"}
    BY SMTT(60), <2>1, SvOK, QuietOut
  <2>3. "STARTED" \notin Passed(o)  BY <2>2
  <2> QED  BY <1>2, <1>3, <2>2, <2>3 DEF Follows
<1> QED  BY <1>2, <1>3 DEF Follows

\* A stop, forced or not
LEMMA StopFollows ==
  ASSUME CTypes, NEW o \in StopResults \cup Forced(StopResults) PROVE o \in Outcomes /\ Follows(o)
<1>1. PICK q \in StopResults : o = q \/ o = [q EXCEPT !.forced = q.state # "STOPPED"]
  BY DEF Forced
<1>2. PICK st \in States, tg \in States, evs \in Lists : q = Out(st, tg, evs)
  BY SvOK DEF StopResults, IfSync, Lists
<1>3. q \in Outcomes  BY <1>2, OutIs
<1>4. \/ o = q
      \/ /\ o \in Outcomes /\ o.state = q.state /\ o.events = q.events
         /\ o.forced = (q.state # "STOPPED")
  <2>1. CASE o = [q EXCEPT !.forced = q.state # "STOPPED"]  BY <1>3, <2>1 DEF Outcomes
  <2> QED  BY <1>1, <2>1
<1>5. o \in Outcomes /\ Passed(o) = Passed(q)  BY <1>3, <1>4 DEF Passed
<1>6. CASE sv.state = "STOPPING" /\ sv.forced
  <2>1. q = Out("STOPPING", "STOPPED", <<>>)  BY <1>6 DEF StopResults
  <2>2. q.state = "STOPPING" /\ q.forced = sv.forced /\ Passed(q) = {"STOPPING"}
    BY SMTT(60), <2>1, SvOK, QuietOut
  <2>3. "STARTED" \notin Passed(q)  BY <2>2
  <2>4. o.state = "STOPPING" /\ o.forced  BY <1>4, <1>6, <2>2
  <2> QED  BY <1>5, <2>3, <2>4 DEF Follows
<1> QED  BY <1>5, <1>6 DEF Follows

\* The end of a transition
LEMMA SettleFollows == ASSUME CTypes, NEW o \in SettleResults PROVE o \in Outcomes /\ Follows(o)
<1>1. PICK st \in States, tg \in States, evs \in Lists : o = Out(st, tg, evs)
  BY SvOK DEF SettleResults, Failures, Lists
<1>2. o \in Outcomes /\ o.events = evs  BY SMTT(60), <1>1, OutIs
<1>3. CASE sv.state = "STOPPING"
  <2>1. o.events = <<"STOPPED">>  BY SMTT(60), <1>3 DEF SettleResults, Out
  <2>2. "STOPPED" \in Passed(o)  BY <2>1, EventLists DEF Passed
  <2> QED  BY <1>2, <2>2 DEF Follows
<1> QED  BY <1>2, <1>3 DEF Follows

\* A restart that was accepted
LEMMA RestartFollows ==
  ASSUME CTypes, NEW o \in RestartResults
  PROVE  /\ o \in Outcomes
         /\ "STOPPED" \in Passed(o) \/ (o.state = "STOPPING" /\ o.forced /\ "STARTED" \notin Passed(o))
<1>1. CASE o \in Forced({Out("STOPPING", "STARTED", <<>>)})
  <2>1. PICK q : q = Out("STOPPING", "STARTED", <<>>)  OBVIOUS
  <2>2. q \in Outcomes /\ q.state = "STOPPING" /\ Passed(q) = {"STOPPING"}
    BY SMTT(60), <2>1, SvOK, QuietOut
  <2>3. o = [q EXCEPT !.forced = q.state # "STOPPED"]  BY <1>1, <2>1 DEF Forced
  <2>4. o \in Outcomes /\ o.state = q.state /\ o.events = q.events /\ o.forced = (q.state # "STOPPED")
    BY <2>2, <2>3 DEF Outcomes
  <2>5. Passed(o) = Passed(q)  BY <2>4 DEF Passed
  <2>6. "STARTED" \notin Passed(o)  BY SMTT(60), <2>2, <2>5
  <2> QED  BY <2>2, <2>4, <2>6
<1>2. CASE o = Out("STARTED", "STARTED", <<"STOPPED", "STARTED">>)
  <2>1. PICK e \in Lists : e = <<"STOPPED", "STARTED">>  BY DEF Lists
  <2>2. o = Out("STARTED", "STARTED", e)  BY <1>2, <2>1
  <2>3. o \in Outcomes /\ o.events = e  BY SMTT(60), <2>2, SvOK, OutIs
  <2>4. "STOPPED" \in Told(o.events)  BY <2>1, <2>3, EventLists
  <2>5. "STOPPED" \in Passed(o)  BY <2>4 DEF Passed
  <2> QED  BY <2>3, <2>5
<1> QED  BY <1>1, <1>2 DEF RestartResults, IfSync

\* An event in q is one of o's.
EventsOf(q, o) ==
  /\ Framed(q)
  /\ \A i \in 1..Len(q) : /\ q[i].kind \in NotReply
                          /\ q[i].kind = "EVENT" => q[i].about \in Told(o.events)

\* The events of an outcome
LEMMA QueuedEvents ==
  ASSUME NEW o \in Outcomes
  PROVE  EventsOf(Queued(o), o) /\ EventsOf(<<>>, o) /\ (~listening => Queued(o) = <<>>)
<1>1. EventsOf(<<>>, o)  BY SMTT(60) DEF EventsOf, Framed
<1>2. o.events \in Seq(Abouts)
  <2>1. o.events \in Seq(EventKinds)  BY DEF Outcomes
  <2>2. EventKinds \subseteq Abouts  BY DEF Abouts
  <2> QED  BY SMTT(60), <2>1, <2>2
<1>3. PICK k \in {"EVENT", "SVCINFO"} : k = "EVENT"  OBVIOUS
<1>4. PICK evs \in Seq(Abouts) : evs = o.events  BY <1>2
<1>5. EventsOf(Packets("EVENT", o.events), o)
  <2>1. /\ Framed(Packets(k, evs))
        /\ \A i \in 1..Len(Packets(k, evs)) :
             /\ Packets(k, evs)[i].kind \in {k, "body"}
             /\ Packets(k, evs)[i].kind = k => Packets(k, evs)[i].about \in Told(evs)
    BY ManyPackets
  <2>2. PICK w : /\ w = Packets(k, evs) /\ Framed(w)
                 /\ \A i \in 1..Len(w) : /\ w[i].kind \in {k, "body"}
                                         /\ w[i].kind = k => w[i].about \in Told(evs)
    BY <2>1
  <2>3. EventsOf(w, o)  BY <1>3, <1>4, <2>2 DEF EventsOf, NotReply
  <2> QED  BY <1>3, <1>4, <2>2, <2>3
<1> QED  BY <1>1, <1>5 DEF Queued

\* Events that are appended are events, and what was on the wire still is.
LEMMA EventsAppended ==
  ASSUME WireOK, NEW o, NEW q, EventsOf(q, o), wire' = wire \o q
  PROVE  /\ wire' \in Seq(Field) /\ Len(wire') = Len(wire) + Len(q)
         /\ Len(wire) \in Nat /\ Len(q) \in Nat
         /\ Framed(wire) => Framed(wire')
         /\ \A i \in 1..Len(wire) : i \in 1..Len(wire') /\ wire'[i] = wire[i]
         /\ \A i \in 1..Len(wire') :
              \/ i \in 1..Len(wire)
              \/ /\ wire'[i].kind \in NotReply
                 /\ wire'[i].kind = "EVENT" => wire'[i].about \in Told(o.events)
<1>1. wire \in Seq(Field) /\ q \in Seq(Field)  BY DEF WireOK, EventsOf, Framed
<1>2. /\ wire' \in Seq(Field) /\ Len(wire') = Len(wire) + Len(q)
      /\ Len(wire) \in Nat /\ Len(q) \in Nat
      /\ \A i \in 1..Len(wire) : wire'[i] = wire[i]
      /\ \A i \in Len(wire) + 1 .. Len(wire) + Len(q) : wire'[i] = q[i - Len(wire)]
  BY <1>1, Fields
<1>3. Framed(wire) => Framed(wire')  BY JoinFramed DEF EventsOf
<1>4. \A i \in 1..Len(wire) : i \in 1..Len(wire')  BY SMTT(60), <1>2
<1>5. ASSUME NEW i \in 1..Len(wire'), i \notin 1..Len(wire)
      PROVE  /\ wire'[i].kind \in NotReply
             /\ wire'[i].kind = "EVENT" => wire'[i].about \in Told(o.events)
  <2>1. i \in Len(wire) + 1 .. Len(wire) + Len(q) /\ i - Len(wire) \in 1..Len(q)
    BY SMTT(60), <1>2, <1>5
  <2> QED  BY <1>2, <2>1 DEF EventsOf
<1> QED  BY <1>2, <1>3, <1>4, <1>5

\* What happened to the service, on its own or by others' doing
LEMMA BecomesStep == ASSUME IInv, NEW o \in Outcomes, Follows(o), Becomes(o) PROVE IInv'
<1>1. /\ UNCHANGED <<pc, cmd, result, req, link, file, listening, closed, buf>>
      /\ since' = since \cup Passed(o)
      /\ sv' = [state |-> o.state, target |-> o.target, forced |-> o.forced]
  BY DEF Becomes, Becoming, client
<1>2. CTypes /\ WireOK  BY DEF IInv, CTypes
<1>3. PICK q : q = IF closed THEN <<>> ELSE Queued(o)  OBVIOUS
<1>4. EventsOf(q, o) /\ (~listening => q = <<>>)  BY <1>3, QueuedEvents
<1>5. wire' = wire \o q
  <2>1. wire \in Seq(Field)  BY <1>2 DEF WireOK
  <2>2. wire \o <<>> = wire  BY SMTT(60), <2>1
  <2> QED  BY <1>3, <2>2 DEF Becomes
<1>6. /\ wire' \in Seq(Field) /\ Len(wire') = Len(wire) + Len(q)
      /\ Len(wire) \in Nat /\ Len(q) \in Nat
      /\ Framed(wire) => Framed(wire')
      /\ \A i \in 1..Len(wire) : i \in 1..Len(wire') /\ wire'[i] = wire[i]
      /\ \A i \in 1..Len(wire') :
           \/ i \in 1..Len(wire)
           \/ /\ wire'[i].kind \in NotReply
              /\ wire'[i].kind = "EVENT" => wire'[i].about \in Told(o.events)
  BY <1>2, <1>4, <1>5, EventsAppended
<1>7. CTypes'
  <2>1. WireOK'
    <3>1. buf \in Int /\ buf <= Len(wire)  BY <1>2 DEF WireOK
    <3>2. buf <= Len(wire')  BY SMTT(60), <1>6, <3>1
    <3> QED  BY <1>1, <1>6, <3>1, <3>2 DEF WireOK
  <2>2. sv' \in [state : States, target : States, forced : BOOLEAN] /\ o.state \in States
    BY <1>1 DEF Outcomes
  <2>3. since' \subseteq States
    <3>1. since \subseteq States  BY <1>2 DEF CTypes
    <3> QED  BY <1>1, <2>2, <3>1 DEF Passed, States
  <2> QED  BY <1>1, <1>2, <2>1, <2>2, <2>3 DEF CTypes
<1>8. PointOK'  BY <1>1 DEF IInv, PointOK
<1>9. \A x : x \in since => x \in since'  BY <1>1
<1>10. Restarting => Restarting'
  <2>1. SUFFICES ASSUME Restarting, "STOPPED" \notin since PROVE Restarting'
    BY <1>9 DEF Restarting
  <2>2. sv.state = "STOPPING" /\ sv.forced /\ "STARTED" \notin since  BY <2>1 DEF Restarting
  <2>3. CASE "STOPPED" \in Passed(o)
    <3>1. "STOPPED" \in since'  BY <1>1, <2>3
    <3> QED  BY <3>1 DEF Restarting
  <2>4. CASE o.state = "STOPPING" /\ o.forced /\ "STARTED" \notin Passed(o)
    <3>1. "STARTED" \notin since'  BY <1>1, <2>2, <2>4
    <3>2. sv'.state = o.state /\ sv'.forced = o.forced  BY <1>1
    <3> QED  BY <2>4, <3>1, <3>2 DEF Restarting
  <2> QED  BY <2>2, <2>3, <2>4 DEF Follows
<1>11. Conversation'
  <2>1. \A i \in 1..Len(wire) : Current(wire[i]) => Current(wire[i])'
    BY <1>6, <1>9 DEF Current
  <2>2. \A i \in 1..Len(wire') : i \in 1..Len(wire) \/ Current(wire[i])'
    <3>1. SUFFICES ASSUME NEW i \in 1..Len(wire'), i \notin 1..Len(wire) PROVE Current(wire[i])'
      OBVIOUS
    <3>2. wire'[i].kind = "EVENT" => wire'[i].about \in Told(o.events)  BY <1>6, <3>1
    <3>3. \A x \in {"STARTED", "STOPPED"} : x \in Told(o.events) => x \in since'
      BY <1>1 DEF Passed
    <3> QED  BY <3>2, <3>3 DEF Current
  <2>3. OnlyEvents(wire) => OnlyEvents(wire)'  BY <1>6 DEF OnlyEvents
  <2>4. \A f : Meant(f) => Meant(f)'
    BY <1>1, <1>9, <1>10 DEF Meant, Wanted
  <2>5. ASSUME NEW i \in 1..Len(wire), ReplyAt(wire, i)
        PROVE  i \in 1..Len(wire') /\ ReplyAt(wire, i)'
    <3>1. i \in 1..Len(wire') /\ wire'[i] = wire[i]  BY <1>6
    <3>2. wire'[i].kind \notin NotReply /\ Meant(wire[i])'
      BY <2>4, <2>5, <3>1 DEF ReplyAt
    <3>3. \A j \in 1..Len(wire') : j # i => wire'[j].kind \in NotReply
      BY <1>6, <2>5 DEF ReplyAt
    <3>4. ASSUME NEW j \in i + 1 .. Len(wire') PROVE Current(wire[j])'
      <4>1. j \in 1..Len(wire') /\ (j \in 1..Len(wire) => j \in i + 1 .. Len(wire))  BY SMTT(60), <1>6
      <4> QED  BY <2>1, <2>2, <2>5, <4>1 DEF ReplyAt
    <3> QED  BY <3>1, <3>2, <3>3, <3>4 DEF ReplyAt
  <2>6. cmd.op = "shutdown" => wire' = wire
    <3>1. cmd.op = "shutdown" => q = <<>>  BY <1>4 DEF IInv, PointOK
    <3>2. q = <<>> => wire' = wire  BY SMTT(60), <1>2, <1>5 DEF WireOK
    <3> QED  BY <3>1, <3>2
  <2>7. pc = "closing" => cmd.op = "shutdown"  BY DEF IInv, PointOK
  <2>8. Conversation  BY DEF IInv
  <2>9. pc \in Asking => \/ req' # "none" /\ OnlyEvents(wire)'
                         \/ req' = "none" /\ \E i \in 1..Len(wire') : ReplyAt(wire, i)'
    BY <1>1, <2>3, <2>5, <2>8 DEF Conversation
  <2>10. pc = "wait" => \A i \in 1..Len(wire') : Current(wire[i])'
    BY <2>1, <2>2, <2>8 DEF Conversation
  <2> QED  BY <1>1, <1>10, <2>3, <2>6, <2>7, <2>8, <2>9, <2>10 DEF Conversation, NoEvents
<1>12. Ended'
  <2>1. Promised => Promised'  BY SMTT(60), <1>1, <1>9 DEF Promised
  <2> QED  BY <1>1, <2>1 DEF IInv, Ended
<1> QED  BY <1>1, <1>6, <1>7, <1>8, <1>11, <1>12 DEF IInv

-----------------------------------------------------------------------------
(* The daemon's answers *)

\* A request that nobody waits for any more
LEMMA AnsweredLate ==
  ASSUME IInv, pc = "done", req # "none", NEW o \in Outcomes, NEW r \in Seq(Field), Answer(o, r),
         listening' \in BOOLEAN, link' \in BOOLEAN, cmd.op = "shutdown" => ~listening'
  PROVE  IInv'
<1>1. /\ UNCHANGED <<pc, cmd, result, file, closed, buf>> /\ req' = "none"
      /\ since' = Passed(o) /\ wire' = (wire \o Queued(o)) \o r
      /\ sv' = [state |-> o.state, target |-> o.target, forced |-> o.forced]
  BY DEF Answer, Becoming, client
<1>2. WireOK'
  <2>1. wire \in Seq(Field) /\ buf \in Int /\ buf <= Len(wire)  BY DEF IInv, CTypes, WireOK
  <2>2. Queued(o) \in Seq(Field)  BY QueuedEvents DEF EventsOf, Framed
  <2>3. PICK v : v = wire \o Queued(o)  OBVIOUS
  <2>4. v \in Seq(Field) /\ Len(v) = Len(wire) + Len(Queued(o)) /\ Len(Queued(o)) \in Nat /\ Len(wire) \in Nat
    BY <2>1, <2>2, <2>3, Fields
  <2>5. wire' \in Seq(Field) /\ Len(wire') = Len(v) + Len(r) /\ Len(r) \in Nat
    BY <1>1, <2>3, <2>4, Fields
  <2>6. buf <= Len(wire')  BY SMTT(60), <2>1, <2>4, <2>5
  <2> QED  BY <1>1, <2>1, <2>5, <2>6 DEF WireOK
<1>3. CTypes'
  <2>1. sv' \in [state : States, target : States, forced : BOOLEAN] /\ o.state \in States
    BY <1>1 DEF Outcomes
  <2>2. since' \subseteq States  BY <1>1, <2>1 DEF Passed, States
  <2> QED  BY <1>1, <1>2, <2>1, <2>2 DEF IInv, CTypes
<1>4. PointOK'  BY <1>1 DEF IInv, PointOK
<1>5. Conversation'  BY <1>1 DEF Conversation, Asking, Acks, Resting
<1>6. Ended'
  <2>1. result = 0 => cmd.op = "list"  BY DEF IInv, Ended
  <2>2. cmd.op = "list" => Promised'  BY <1>1, NothingPromised
  <2> QED  BY <1>1, <2>1, <2>2 DEF IInv, Ended
<1> QED  BY <1>1, <1>3, <1>4, <1>5, <1>6 DEF IInv

\* What was sent for a request: whole packets behind whole packets
LEMMA AnswerFramed ==
  ASSUME IInv, pc # "done", NEW o \in Outcomes, NEW r, Framed(r), Answer(o, r),
         listening' \in BOOLEAN, link' \in BOOLEAN
  PROVE  /\ Framed(wire') /\ CTypes' /\ Len(wire) + Len(Queued(o)) \in Nat
         /\ Len(wire') = (Len(wire) + Len(Queued(o))) + Len(r)
         /\ OnlyEvents(wire) => \A i \in 1 .. Len(wire) + Len(Queued(o)) : wire'[i].kind \in NotReply
         /\ ~listening /\ NoEvents(wire)
              => \A i \in 1 .. Len(wire) + Len(Queued(o)) : wire'[i].kind # "EVENT"
         /\ \A i \in 1..Len(r) : wire'[(Len(wire) + Len(Queued(o))) + i] = r[i]
<1>1. /\ UNCHANGED <<pc, cmd, result, file, closed, buf>>
      /\ since' = Passed(o) /\ wire' = (wire \o Queued(o)) \o r
      /\ sv' = [state |-> o.state, target |-> o.target, forced |-> o.forced]
  BY DEF Answer, Becoming, client
<1>2. Framed(wire) /\ EventsOf(Queued(o), o) /\ Framed(Queued(o))
  BY QueuedEvents DEF IInv, EventsOf
<1>3. /\ Framed(wire \o Queued(o)) /\ Len(wire \o Queued(o)) = Len(wire) + Len(Queued(o))
      /\ \A i \in 1..Len(wire) : (wire \o Queued(o))[i] = wire[i]
      /\ \A i \in 1..Len(Queued(o)) : (wire \o Queued(o))[Len(wire) + i] = Queued(o)[i]
  BY SMTT(60), <1>2, JoinFramed
<1>4. PICK v :
      /\ v = wire \o Queued(o)
      /\ Framed(v) /\ Len(v) = Len(wire) + Len(Queued(o))
      /\ \A i \in 1..Len(wire) : v[i] = wire[i]
      /\ \A i \in 1..Len(Queued(o)) : v[Len(wire) + i] = Queued(o)[i]
  BY <1>3
<1>5. /\ Framed(wire') /\ Len(wire') = Len(v) + Len(r)
      /\ \A i \in 1..Len(v) : wire'[i] = v[i]
      /\ \A i \in 1..Len(r) : wire'[Len(v) + i] = r[i]
  <2>1. /\ Framed(v \o r) /\ Len(v \o r) = Len(v) + Len(r)
        /\ \A i \in 1..Len(v) : (v \o r)[i] = v[i]
        /\ \A i \in 1..Len(r) : (v \o r)[Len(v) + i] = r[i]
    BY SMTT(60), <1>4, JoinFramed
  <2>2. wire' = v \o r  BY <1>1, <1>4
  <2> QED  BY <2>1, <2>2
<1>6. Len(wire) \in Nat /\ Len(Queued(o)) \in Nat /\ Len(r) \in Nat
  BY <1>2, FieldOf DEF Framed
<1>7. ASSUME OnlyEvents(wire), NEW i \in 1..Len(v) PROVE wire'[i].kind \in NotReply
  <2>1. CASE i \in 1..Len(wire)  BY <1>4, <1>5, <1>7, <2>1 DEF OnlyEvents
  <2>2. CASE i \notin 1..Len(wire)
    <3>1. PICK j \in 1..Len(Queued(o)) : i = Len(wire) + j
      <4>1. i - Len(wire) \in 1..Len(Queued(o)) /\ i = Len(wire) + (i - Len(wire))
        BY SMTT(60), <1>4, <1>6, <2>2
      <4> QED  BY <4>1
    <3> QED  BY SMTT(60), <1>2, <1>4, <1>5, <3>1 DEF EventsOf
  <2> QED  BY <2>1, <2>2
<1>8. CTypes'
  <2>1. sv' \in [state : States, target : States, forced : BOOLEAN] /\ o.state \in States
    BY <1>1 DEF Outcomes
  <2>2. since' \subseteq States  BY <1>1, <2>1 DEF Passed, States
  <2>3. buf \in Int /\ buf <= Len(wire)  BY DEF IInv, CTypes, WireOK
  <2>4. buf <= Len(wire')  BY SMTT(60), <1>4, <1>5, <1>6, <2>3
  <2>5. WireOK'  BY <1>1, <1>5, <2>3, <2>4 DEF WireOK, Framed
  <2> QED  BY <1>1, <2>1, <2>2, <2>5 DEF IInv, CTypes
<1>9. Len(v) \in Nat  BY SMTT(60), <1>4, <1>6
<1>10. ASSUME ~listening, NoEvents(wire), NEW i \in 1..Len(v) PROVE wire'[i].kind # "EVENT"
  <2>1. Queued(o) = <<>>  BY <1>10, QueuedEvents
  <2>2. Len(v) = Len(wire)  BY SMTT(60), <1>4, <1>6, <2>1
  <2> QED  BY <1>4, <1>5, <1>10, <2>2 DEF NoEvents
<1> QED  BY <1>4, <1>5, <1>7, <1>8, <1>9, <1>10

\* A request is answered by the events of what it did and one reply, which means what it says.
LEMMA Answered ==
  ASSUME IInv, req # "none", NEW o \in Outcomes, NEW k \in Kinds \ NotReply, NEW a \in Abouts,
         Answer(o, Packet(k, a)), listening' \in BOOLEAN, link' \in BOOLEAN,
         cmd.op = "shutdown" => ~listening', pc = "estatus" => link' = link,
         Meant([kind |-> k, about |-> a])'
  PROVE  IInv'
<1>1. k \in Kinds /\ k # "body" /\ k # "EVENT"  BY DEF NotReply
<1>2. CASE pc = "done"
  <2>1. Packet(k, a) \in Seq(Field)  BY <1>1, PacketFields
  <2> QED  BY <1>2, <2>1, AnsweredLate
<1>3. CASE pc # "done"
  <2>1. UNCHANGED <<pc, cmd, result, file, closed>> /\ req' = "none"
    BY DEF Answer, client
  <2>2. PICK r : /\ r = Packet(k, a) /\ Framed(r) /\ Len(r) = Size(k)
                 /\ r[1] = [kind |-> k, about |-> a] /\ \A i \in 2..Size(k) : r[i] = Body
    <3>1. PICK r : r = Packet(k, a)  OBVIOUS
    <3>2. Framed(r)  BY <1>1, <3>1, PacketFramed
    <3>3. Len(r) = Size(k) /\ r[1] = [kind |-> k, about |-> a] /\ \A i \in 2..Size(k) : r[i] = Body
      BY SMTT(60), <1>1, <3>1, PacketFields
    <3> QED  BY <3>1, <3>2, <3>3
  <2>3. PICK n \in Nat : n = Len(wire) + Len(Queued(o))
    <3>1. Len(wire) + Len(Queued(o)) \in Nat  BY <1>3, <2>2, AnswerFramed
    <3> QED  BY <3>1
  <2>4. /\ Framed(wire') /\ CTypes' /\ Len(wire') = n + Len(r)
        /\ OnlyEvents(wire) => \A i \in 1..n : wire'[i].kind \in NotReply
        /\ ~listening /\ NoEvents(wire) => \A i \in 1..n : wire'[i].kind # "EVENT"
        /\ \A i \in 1..Len(r) : wire'[n + i] = r[i]
    <3>0. Answer(o, r) /\ Framed(r)  BY <2>2
    <3>1. /\ Framed(wire') /\ CTypes' /\ Len(wire') = (Len(wire) + Len(Queued(o))) + Len(r)
          /\ OnlyEvents(wire) => \A i \in 1 .. Len(wire) + Len(Queued(o)) : wire'[i].kind \in NotReply
          /\ ~listening /\ NoEvents(wire)
               => \A i \in 1 .. Len(wire) + Len(Queued(o)) : wire'[i].kind # "EVENT"
          /\ \A i \in 1..Len(r) : wire'[(Len(wire) + Len(Queued(o))) + i] = r[i]
      BY <1>3, <3>0, AnswerFramed
    <3> QED  BY <2>3, <3>1
  <2>5. Size(k) \in 1..4  BY <1>1, SizeOf
  <2>6. n + 1 \in 1..Len(wire') /\ wire'[n + 1] = [kind |-> k, about |-> a]
    <3>0. Len(wire') = n + Size(k)  BY <2>2, <2>4
    <3>1. 1 \in 1..Size(k) /\ n + 1 \in 1..Len(wire')  BY SMTT(60), <2>5, <3>0
    <3> QED  BY <2>2, <2>4, <3>1
  <2>7. ASSUME NEW j \in n + 2 .. Len(wire') PROVE wire'[j].kind = "body"
    <3>1. PICK i \in 2..Size(k) : j = n + i
      <4>0. Len(wire') = n + Size(k)  BY <2>2, <2>4
      <4>1. j - n \in 2..Size(k) /\ j = n + (j - n)  BY SMTT(60), <2>5, <2>7, <4>0
      <4> QED  BY <4>1
    <3>2. i \in 1..Len(r)  BY SMTT(60), <2>2, <2>5
    <3>3. wire'[j] = Body  BY <2>2, <2>4, <3>1, <3>2
    <3> QED  BY SMTT(60), <3>3 DEF Body
  <2>8. \A j \in 1..Len(wire') : j \in 1..n \/ j = n + 1 \/ j \in n + 2 .. Len(wire')  BY SMTT(60), <2>4, <2>5
  <2>9. ASSUME OnlyEvents(wire) PROVE \E i \in 1..Len(wire') : ReplyAt(wire, i)'
    <3>1. wire'[n + 1].kind = k /\ wire'[n + 1].kind \notin NotReply  BY SMTT(60), <2>6
    <3>2. Meant(wire[n + 1])'  BY <2>6
    <3>3. \A j \in 1..Len(wire') : j # n + 1 => wire'[j].kind \in NotReply
      BY <2>4, <2>7, <2>8, <2>9 DEF NotReply
    <3>4. \A j \in (n + 1) + 1 .. Len(wire') : j \in n + 2 .. Len(wire')  BY SMTT(60)
    <3>5. \A j \in (n + 1) + 1 .. Len(wire') : Current(wire[j])'
      BY <2>7, <3>4 DEF Current
    <3>6. ReplyAt(wire, n + 1)'  BY <3>1, <3>2, <3>3, <3>5 DEF ReplyAt
    <3> QED  BY <2>6, <3>6
  <2>10. pc \in Asking \cup {"list"} /\ (pc \in Asking => OnlyEvents(wire))
    BY <1>3 DEF IInv, PointOK, Conversation
  <2>11. cmd.op = "shutdown" => NoEvents(wire)'
    <3>1. cmd.op = "shutdown" => ~listening /\ NoEvents(wire)
      BY <1>3 DEF IInv, PointOK, Conversation
    <3>2. wire'[n + 1].kind # "EVENT"  BY SMTT(60), <1>1, <2>6
    <3> QED  BY <2>4, <2>7, <2>8, <3>1, <3>2 DEF NoEvents
  <2>12. PointOK'  BY <2>1 DEF IInv, PointOK
  <2>13. pc \notin Resting /\ pc # "closing" /\ pc # "wait" /\ pc # "link"
    BY <2>10 DEF Asking, Acks, Resting
  <2>14. Conversation'
    BY <1>3, <2>1, <2>9, <2>10, <2>11, <2>13 DEF IInv, Conversation
  <2>15. Ended'
    <3>1. result = -1  BY <1>3 DEF IInv, Ended
    <3>2. result' \in {-1, 0, 1} /\ result' # 0 /\ result' = -1  BY SMTT(60), <2>1, <3>1
    <3> QED  BY <3>2 DEF Ended
  <2> QED  BY <2>1, <2>4, <2>12, <2>14, <2>15 DEF IInv
<1> QED  BY <1>2, <1>3

\* Nothing is concluded from most replies.
LEMMA MeansNothing ==
  ASSUME NEW k, NEW a, pc' = pc,
         pc \notin {"start_stop", "status", "enable"} \/ k \notin {"ACK", "ALREADYSS", "SERVICESTATUS"}
  PROVE  Meant([kind |-> k, about |-> a])'
<1>1. [kind |-> k, about |-> a].kind = k  OBVIOUS
<1> QED  BY <1>1 DEF Meant

\* What a reply leaves as it is
Tidy == /\ listening' \in BOOLEAN /\ link' \in BOOLEAN
        /\ cmd.op = "shutdown" => ~listening'
        /\ pc = "estatus" => link' = link
Replies == Kinds \ NotReply

\* Most requests change neither handles nor links.
LEMMA SameTidy == ASSUME IInv, Same PROVE Tidy
BY DEF Same, Tidy, IInv, CTypes, PointOK

\* A service that nothing happens to
LEMMA UnchangedOut ==
  ASSUME IInv
  PROVE  Unchanged \in Outcomes /\ Unchanged.state = sv.state /\ sv.state \in Passed(Unchanged)
<1>1. CTypes  BY DEF IInv
<1>2. Unchanged = Out(sv.state, sv.target, <<>>)  BY DEF Unchanged
<1>3. Unchanged \in Outcomes /\ Unchanged.state = sv.state /\ Passed(Unchanged) = {sv.state}
  BY SMTT(60), <1>1, <1>2, SvOK, QuietOut
<1> QED  BY <1>3

\* A reply that the program concludes nothing from
LEMMA Replying ==
  ASSUME IInv, req # "none", Tidy, NEW o \in Outcomes, NEW k \in Replies, NEW a \in Abouts,
         Answer(o, Packet(k, a)),
         pc \notin {"start_stop", "status", "enable"} \/ k \notin {"ACK", "ALREADYSS", "SERVICESTATUS"}
  PROVE  IInv'
<1>1. pc' = pc  BY DEF Answer, client
<1>2. Meant([kind |-> k, about |-> a])'  BY <1>1, MeansNothing
<1> QED  BY <1>2, Answered DEF Tidy, Replies

\* The same without a change
LEMMA Saying ==
  ASSUME IInv, req # "none", Tidy, NEW k \in Replies, Say(k),
         pc \notin {"start_stop", "status", "enable"} \/ k \notin {"ACK", "ALREADYSS", "SERVICESTATUS"}
  PROVE  IInv'
<1>1. Unchanged \in Outcomes  BY UnchangedOut
<1>2. "none" \in Abouts  BY DEF Abouts
<1> QED  BY <1>1, <1>2, Replying DEF Say

\* A refusal
LEMMA Refusing ==
  ASSUME IInv, req # "none", Tidy,
         NEW k \in {"NAK", "PINNEDSTOPPED", "PINNEDSTARTED", "SHUTTINGDOWN", "DEPENDENTS",
                    "NOSERVICE", "SERVICE_DESC_ERR"}, Say(k)
  PROVE  IInv'
<1>1. k \in Replies /\ k \notin {"ACK", "ALREADYSS", "SERVICESTATUS"}
  BY DEF Replies, Kinds, NotReply
<1> QED  BY <1>1, Saying

\* The reply to a start or a stop: ALREADYSS if the service is where it is wanted.
LEMMA Acknowledging ==
  ASSUME IInv, Same, req # "none", NEW o \in Outcomes,
         NEW st, pc = "start_stop" => st = Wanted, cmd.op # "restart" \/ pc # "start_stop",
         pc \notin {"status", "enable"}, Answer(o, Acked(o, st))
  PROVE  IInv'
<1>1. PICK k : k = IF o.state = st THEN "ALREADYSS" ELSE "ACK"  OBVIOUS
<1>2. k \in {"ALREADYSS", "ACK"} /\ (k = "ALREADYSS" => o.state = st)  BY <1>1
<1>3. k \in Kinds \ NotReply /\ "none" \in Abouts  BY <1>2 DEF Kinds, NotReply, Abouts
<1>4. Answer(o, Packet(k, "none"))  BY <1>1 DEF Acked
<1>5. Tidy  BY SameTidy
<1>6. UNCHANGED <<pc, cmd>> /\ since' = Passed(o)  BY DEF Answer, client
<1>7. o.state \in since'  BY <1>6 DEF Passed
<1>8. Meant([kind |-> k, about |-> "none"])'
  <2>1. [kind |-> k, about |-> "none"].kind = k  OBVIOUS
  <2>2. Wanted' = Wanted  BY <1>6 DEF Wanted
  <2> QED  BY <1>2, <1>6, <1>7, <2>1, <2>2 DEF Meant
<1> QED  BY <1>3, <1>4, <1>5, <1>8, Answered DEF Tidy

\* Where the program is when it has asked for what
LEMMA RequestOf ==
  ASSUME IInv
  PROVE  /\ req \in StartStop => pc \notin {"status", "enable", "estatus"}
                                 /\ (pc = "start_stop" => req = cmd.op)
         /\ req \notin StartStop \cup {"none"} => pc # "start_stop"
         /\ req \notin {"none", "status", "is_started"} => pc # "status" /\ pc # "estatus"
         /\ req \notin {"none", "enable", "rm_dep"} => pc # "enable"
         /\ pc = "enable" /\ req = "enable" => cmd.op = "enable"
         /\ pc = "enable" /\ req = "rm_dep" => cmd.op # "enable"
         /\ cmd.op = "shutdown" => req \in {"none", "version", "shutdown"} /\ ~listening
<1>1. pc = "start_stop" => cmd.op \in StartStop /\ req \in {"none", cmd.op}
  BY DEF IInv, PointOK
<1>2. pc = "status" => req \in {"none", "status", "is_started"}  BY DEF IInv, PointOK
<1>3. pc = "estatus" => req \in {"none", "status"}  BY DEF IInv, PointOK
<1>4. pc = "enable" => req \in {"none", IF cmd.op = "enable" THEN "enable" ELSE "rm_dep"}
  BY DEF IInv, PointOK
<1>5. cmd.op = "shutdown" => req \in {"none", "version", "shutdown"} /\ ~listening
  BY DEF IInv, PointOK
<1> QED  BY <1>1, <1>2, <1>3, <1>4, <1>5 DEF StartStop

\* The protocol version
LEMMA ServeVersionStep == ASSUME IInv, ServeVersion PROVE IInv'
<1>1. PICK v \in {"v0", "v1", "v2"} : Answer(Unchanged, Packet("CPVERSION", v))
  BY DEF ServeVersion
<1>2. req = "version" /\ req # "none" /\ Same  BY DEF ServeVersion, Handling
<1>3. "CPVERSION" \in Replies /\ v \in Abouts /\ "CPVERSION" \notin {"ACK", "ALREADYSS", "SERVICESTATUS"}
  BY DEF Replies, Kinds, NotReply, Abouts
<1>4. Tidy /\ Unchanged \in Outcomes  BY <1>2, SameTidy, UnchangedOut
<1> QED  BY <1>1, <1>2, <1>3, <1>4, Replying

\* A service is loaded or found.
LEMMA ServeLoadStep == ASSUME IInv, ServeLoad PROVE IInv'
<1>1. req \in {"load", "load_from", "find"} /\ req # "none"  BY DEF ServeLoad, Handling
<1>2. CASE Same
  <2>1. Tidy  BY <1>2, SameTidy
  <2>2. CASE Say("NOSERVICE")  BY <1>1, <2>1, <2>2, Refusing
  <2>3. CASE Say("SERVICE_DESC_ERR")  BY <1>1, <2>1, <2>3, Refusing
  <2>4. CASE Answer(Unchanged, Packet("SERVICERECORD", sv.state))
    <3>1. "SERVICERECORD" \in Replies /\ "SERVICERECORD" \notin {"ACK", "ALREADYSS", "SERVICESTATUS"}
      BY DEF Replies, Kinds, NotReply
    <3>2. sv.state \in Abouts  BY SvOK DEF IInv, Abouts
    <3>3. Unchanged \in Outcomes  BY UnchangedOut
    <3> QED  BY <1>1, <2>1, <2>4, <3>1, <3>2, <3>3, Replying
  <2> QED  BY <2>2, <2>3, <2>4 DEF ServeLoad
<1>3. CASE /\ listening' = (listening \/ req # "load_from") /\ UNCHANGED link
           /\ Answer(Unchanged, Packet("SERVICERECORD", sv.state))
  <2>1. cmd.op # "shutdown"  BY <1>1, RequestOf
  <2>2. listening' \in BOOLEAN  BY <1>3
  <2>3. Tidy  BY <1>3, <2>1, <2>2 DEF Tidy, IInv, CTypes
  <2>4. "SERVICERECORD" \in Replies /\ "SERVICERECORD" \notin {"ACK", "ALREADYSS", "SERVICESTATUS"}
    BY DEF Replies, Kinds, NotReply
  <2>5. sv.state \in Abouts  BY SvOK DEF IInv, Abouts
  <2>6. Unchanged \in Outcomes  BY UnchangedOut
  <2> QED  BY <1>1, <1>3, <2>3, <2>4, <2>5, <2>6, Replying
<1> QED  BY <1>2, <1>3 DEF ServeLoad

\* STARTSERVICE
LEMMA ServeStartStep == ASSUME IInv, ServeStart PROVE IInv'
<1>1. req = "start" /\ req # "none" /\ Same  BY DEF ServeStart, Handling
<1>2. Tidy  BY <1>1, SameTidy
<1>3. CASE Say("PINNEDSTOPPED")  BY <1>1, <1>2, <1>3, Refusing
<1>4. CASE Say("SHUTTINGDOWN")  BY <1>1, <1>2, <1>4, Refusing
<1>5. CASE \E o \in StartResults : Answer(o, Acked(o, "STARTED"))
  <2>1. PICK o \in StartResults : Answer(o, Acked(o, "STARTED"))  BY <1>5
  <2>2. o \in Outcomes  BY StartFollows DEF IInv
  <2>3. pc \notin {"status", "enable"} /\ (pc = "start_stop" => cmd.op = "start")
    BY <1>1, RequestOf DEF StartStop
  <2>4. pc = "start_stop" => "STARTED" = Wanted /\ cmd.op # "restart"
    BY <2>3 DEF Wanted, Stops
  <2> QED  BY <1>1, <2>1, <2>2, <2>3, <2>4, Acknowledging
<1> QED  BY <1>3, <1>4, <1>5 DEF ServeStart

\* WAKESERVICE
LEMMA ServeWakeStep == ASSUME IInv, ServeWake PROVE IInv'
<1>1. req = "wake" /\ req # "none" /\ Same  BY DEF ServeWake, Handling
<1>2. Tidy  BY <1>1, SameTidy
<1>3. pc \notin {"status", "enable"} /\ (pc = "start_stop" => cmd.op = "wake")
  BY <1>1, RequestOf DEF StartStop
<1>4. pc = "start_stop" => "STARTED" = Wanted /\ cmd.op # "restart"
  BY <1>3 DEF Wanted, Stops
<1>5. CASE Say("PINNEDSTOPPED")  BY <1>1, <1>2, <1>5, Refusing
<1>6. CASE Say("SHUTTINGDOWN")  BY <1>1, <1>2, <1>6, Refusing
<1>7. CASE Say("NAK")  BY <1>1, <1>2, <1>7, Refusing
<1>8. CASE \E o \in StartResults : Answer(o, Acked(o, "STARTED"))
  <2>1. PICK o \in StartResults : Answer(o, Acked(o, "STARTED"))  BY <1>8
  <2>2. o \in Outcomes  BY StartFollows DEF IInv
  <2> QED  BY <1>1, <1>3, <1>4, <2>1, <2>2, Acknowledging
<1>9. CASE sv.state = "STARTED" /\ Say("ALREADYSS")
  <2>1. Unchanged \in Outcomes /\ Unchanged.state = "STARTED"  BY <1>9, UnchangedOut
  <2>2. Answer(Unchanged, Acked(Unchanged, "STARTED"))
    BY <1>9, <2>1 DEF Say, Acked
  <2> QED  BY <1>1, <1>3, <1>4, <2>1, <2>2, Acknowledging
<1> QED  BY <1>5, <1>6, <1>7, <1>8, <1>9 DEF ServeWake

\* STOPSERVICE
LEMMA ServeStopStep == ASSUME IInv, ServeStop PROVE IInv'
<1>1. req = "stop" /\ req # "none" /\ Same  BY DEF ServeStop, Handling
<1>2. Tidy  BY <1>1, SameTidy
<1>3. CASE Say("DEPENDENTS")  BY <1>1, <1>2, <1>3, Refusing
<1>4. CASE Say("PINNEDSTARTED")  BY <1>1, <1>2, <1>4, Refusing
<1>5. CASE \E o \in Forced(StopResults) : Answer(o, Acked(o, "STOPPED"))
  <2>1. PICK o \in Forced(StopResults) : Answer(o, Acked(o, "STOPPED"))  BY <1>5
  <2>2. o \in Outcomes  BY StopFollows DEF IInv
  <2>3. pc \notin {"status", "enable"} /\ (pc = "start_stop" => cmd.op = "stop")
    BY <1>1, RequestOf DEF StartStop
  <2>4. pc = "start_stop" => "STOPPED" = Wanted /\ cmd.op # "restart"
    BY <2>3 DEF Wanted, Stops
  <2> QED  BY <1>1, <2>1, <2>2, <2>3, <2>4, Acknowledging
<1> QED  BY <1>3, <1>4, <1>5 DEF ServeStop

\* RELEASESERVICE
LEMMA ServeReleaseStep == ASSUME IInv, ServeRelease PROVE IInv'
<1>1. req = "release" /\ req # "none" /\ Same  BY DEF ServeRelease, Handling
<1>2. PICK o \in StopResults \cup {Unchanged} : Answer(o, Acked(o, "STOPPED"))
  BY DEF ServeRelease
<1>3. o \in Outcomes  BY StopFollows, UnchangedOut DEF IInv
<1>4. pc \notin {"status", "enable"} /\ (pc = "start_stop" => cmd.op = "release")
  BY <1>1, RequestOf DEF StartStop
<1>5. pc = "start_stop" => "STOPPED" = Wanted /\ cmd.op # "restart"
  BY <1>4 DEF Wanted, Stops
<1> QED  BY <1>1, <1>2, <1>3, <1>4, <1>5, Acknowledging

\* A restart: the service stops before it starts again.
LEMMA ServeRestartStep == ASSUME IInv, ServeRestart PROVE IInv'
<1>1. req = "restart" /\ req # "none" /\ Same  BY DEF ServeRestart, Handling
<1>2. Tidy  BY <1>1, SameTidy
<1>3. CASE Say("DEPENDENTS")  BY <1>1, <1>2, <1>3, Refusing
<1>4. CASE Say("NAK")  BY <1>1, <1>2, <1>4, Refusing
<1>5. CASE Say("PINNEDSTARTED")  BY <1>1, <1>2, <1>5, Refusing
<1>6. CASE Say("SHUTTINGDOWN")  BY <1>1, <1>2, <1>6, Refusing
<1>7. CASE \E o \in RestartResults : Answer(o, Packet("ACK", "none"))
  <2>1. PICK o \in RestartResults : Answer(o, Packet("ACK", "none"))  BY <1>7
  <2>2. /\ o \in Outcomes
        /\ "STOPPED" \in Passed(o) \/ (o.state = "STOPPING" /\ o.forced /\ "STARTED" \notin Passed(o))
    BY RestartFollows DEF IInv
  <2>3. /\ UNCHANGED <<pc, cmd>> /\ since' = Passed(o)
        /\ sv' = [state |-> o.state, target |-> o.target, forced |-> o.forced]
    BY <2>1 DEF Answer, client, Becoming
  <2>4. sv'.state = o.state /\ sv'.forced = o.forced  BY <2>3
  <2>5. Restarting'  BY <2>2, <2>3, <2>4 DEF Restarting
  <2>6. pc \notin {"status", "enable"}  BY <1>1, RequestOf DEF StartStop
  <2>7. [kind |-> "ACK", about |-> "none"].kind = "ACK"  OBVIOUS
  <2>8. Meant([kind |-> "ACK", about |-> "none"])'
    BY <2>3, <2>5, <2>6, <2>7 DEF Meant
  <2>9. "ACK" \in Kinds \ NotReply /\ "none" \in Abouts  BY DEF Kinds, NotReply, Abouts
  <2> QED  BY <1>1, <1>2, <2>1, <2>2, <2>8, <2>9, Answered DEF Tidy
<1> QED  BY <1>3, <1>4, <1>5, <1>6, <1>7 DEF ServeRestart

\* ENABLESERVICE: an acknowledgement to the one who enables says that the link is there,
LEMMA ServeEnableStep == ASSUME IInv, ServeEnable PROVE IInv'
<1>1. req = "enable" /\ req # "none" /\ listening' = listening
  BY DEF ServeEnable, Handling
<1>2. /\ pc \notin {"status", "start_stop", "estatus"} /\ (pc = "enable" => cmd.op = "enable")
      /\ cmd.op # "shutdown"
  BY <1>1, RequestOf DEF StartStop
<1>3. listening' \in BOOLEAN /\ link \in BOOLEAN  BY <1>1 DEF IInv, CTypes
<1>4. CASE UNCHANGED link /\ Say("NAK")
  <2>1. Tidy  BY <1>2, <1>3, <1>4 DEF Tidy
  <2> QED  BY <1>1, <1>4, <2>1, Refusing
<1>5. CASE /\ link' = TRUE
           /\ \E o \in IF Depended THEN StartResults ELSE {Unchanged} : Answer(o, Packet("ACK", "none"))
  <2>1. PICK o \in StartResults \cup {Unchanged} : Answer(o, Packet("ACK", "none"))  BY <1>5
  <2>2. o \in Outcomes  BY StartFollows, UnchangedOut DEF IInv
  <2>3. Tidy  BY <1>2, <1>3, <1>5 DEF Tidy
  <2>4. UNCHANGED <<pc, cmd>>  BY <2>1 DEF Answer, client
  <2>5. Meant([kind |-> "ACK", about |-> "none"])'  BY <1>2, <1>5, <2>4 DEF Meant
  <2>6. "ACK" \in Kinds \ NotReply /\ "none" \in Abouts  BY DEF Kinds, NotReply, Abouts
  <2> QED  BY <1>1, <2>1, <2>2, <2>3, <2>5, <2>6, Answered DEF Tidy
<1> QED  BY <1>4, <1>5 DEF ServeEnable

\* and RM_DEP to the one who disables that it is not.
LEMMA ServeRmDepStep == ASSUME IInv, ServeRmDep PROVE IInv'
<1>1. req = "rm_dep" /\ req # "none" /\ listening' = listening /\ link' = FALSE
  BY DEF ServeRmDep, Handling
<1>2. /\ pc \notin {"status", "start_stop", "estatus"} /\ (pc = "enable" => cmd.op # "enable")
      /\ cmd.op # "shutdown"
  BY <1>1, RequestOf DEF StartStop
<1>3. listening' \in BOOLEAN  BY <1>1 DEF IInv, CTypes
<1>4. Tidy  BY <1>1, <1>2, <1>3 DEF Tidy
<1>5. CASE Say("NAK")  BY <1>1, <1>4, <1>5, Refusing
<1>6. CASE \E o \in StopResults \cup {Unchanged} : Answer(o, Packet("ACK", "none"))
  <2>1. PICK o \in StopResults \cup {Unchanged} : Answer(o, Packet("ACK", "none"))  BY <1>6
  <2>2. o \in Outcomes  BY StopFollows, UnchangedOut DEF IInv
  <2>3. UNCHANGED <<pc, cmd>>  BY <2>1 DEF Answer, client
  <2>4. Meant([kind |-> "ACK", about |-> "none"])'  BY <1>1, <1>2, <2>3 DEF Meant
  <2>5. "ACK" \in Kinds \ NotReply /\ "none" \in Abouts  BY DEF Kinds, NotReply, Abouts
  <2> QED  BY <1>1, <1>4, <2>1, <2>2, <2>4, <2>5, Answered DEF Tidy
<1> QED  BY <1>5, <1>6 DEF ServeRmDep

\* ADD_DEP
LEMMA ServeAddDepStep == ASSUME IInv, ServeAddDep PROVE IInv'
<1>1. /\ req = "add_dep" /\ req # "none" /\ listening' = listening
      /\ link' \in {link, TRUE} /\ (Say("ACK") \/ Say("NAK"))
  BY DEF ServeAddDep, Handling
<1>2. pc \notin {"start_stop", "status", "enable", "estatus"} /\ cmd.op # "shutdown"
  BY <1>1, RequestOf DEF StartStop
<1>3. Tidy  BY <1>1, <1>2 DEF Tidy, IInv, CTypes
<1>4. "ACK" \in Replies  BY DEF Replies, Kinds, NotReply
<1> QED  BY <1>1, <1>2, <1>3, <1>4, Saying, Refusing

\* SERVICESTATUS tells the state the service is in.
LEMMA StatusAnswered ==
  ASSUME IInv, req \in {"status", "is_started"}, Same,
         Answer(Unchanged, Packet("SERVICESTATUS", sv.state))
  PROVE  IInv'
<1>1. req # "none" /\ Tidy  BY SameTidy
<1>2. Unchanged \in Outcomes /\ sv.state \in Passed(Unchanged)  BY UnchangedOut
<1>3. UNCHANGED <<pc, cmd>> /\ since' = Passed(Unchanged)  BY DEF Answer, client
<1>4. pc # "start_stop" /\ pc # "enable"  BY RequestOf DEF StartStop
<1>5. PICK st \in Abouts : st = sv.state  BY SvOK DEF IInv, Abouts
<1>6. [kind |-> "SERVICESTATUS", about |-> st].about = st  OBVIOUS
<1>7. Meant([kind |-> "SERVICESTATUS", about |-> st])'
  BY <1>2, <1>3, <1>4, <1>5, <1>6 DEF Meant
<1>8. "SERVICESTATUS" \in Kinds \ NotReply  BY DEF Kinds, NotReply
<1>9. Answer(Unchanged, Packet("SERVICESTATUS", st))  BY <1>5
<1> QED  BY <1>1, <1>2, <1>7, <1>8, <1>9, Answered DEF Tidy

\* The list
LEMMA ServeListStep == ASSUME IInv, ServeList PROVE IInv'
<1>1. PICK n \in 0..2 :
        Answer(Unchanged, Packets("SVCINFO", [i \in 1..n |-> "none"]) \o Packet("LISTDONE", "none"))
  BY DEF ServeList
<1>2. req = "list" /\ req # "none" /\ Same  BY DEF ServeList, Handling
<1>3. Tidy /\ Unchanged \in Outcomes  BY <1>2, SameTidy, UnchangedOut
<1>4. cmd.op = "list" /\ pc \in {"list", "done"}  BY <1>2 DEF IInv, PointOK
<1>5. PICK r : /\ r = Packets("SVCINFO", [i \in 1..n |-> "none"]) \o Packet("LISTDONE", "none")
               /\ Framed(r)
  <2>1. "none" \in Abouts /\ "LISTDONE" \in Kinds /\ "LISTDONE" # "body"  BY DEF Abouts, Kinds
  <2>2. PICK evs : evs = [i \in 1..n |-> "none"]  OBVIOUS
  <2>3. evs \in Seq(Abouts)  BY SMTT(60), <2>1, <2>2
  <2>4. PICK k \in {"EVENT", "SVCINFO"} : k = "SVCINFO"  OBVIOUS
  <2>5. Framed(Packets(k, evs)) /\ Framed(Packet("LISTDONE", "none"))
    BY <2>1, <2>3, ManyPackets, PacketFramed
  <2>6. Framed(Packets(k, evs) \o Packet("LISTDONE", "none"))  BY <2>5, JoinFramed
  <2> QED  BY <2>2, <2>4, <2>6
<1>6. Answer(Unchanged, r)  BY <1>1, <1>5
<1>7. CASE pc = "done"
  <2>1. r \in Seq(Field)  BY <1>5 DEF Framed
  <2> QED  BY <1>2, <1>3, <1>6, <1>7, <2>1, AnsweredLate DEF Tidy
<1>8. CASE pc = "list"
  <2>1. Framed(wire') /\ CTypes'  BY SMTT(60), <1>3, <1>5, <1>6, <1>8, AnswerFramed DEF Tidy
  <2>2. UNCHANGED <<pc, cmd, result>> /\ req' = "none"  BY <1>6 DEF Answer, client
  <2>3. PointOK'  BY <1>4, <2>2 DEF IInv, PointOK
  <2>4. Conversation'  BY <1>4, <1>8, <2>2 DEF Conversation, Asking, Acks, Resting
  <2>5. Ended'
    <3>1. result = -1  BY <1>8 DEF IInv, Ended
    <3>2. result' \in {-1, 0, 1} /\ result' # 0 /\ result' = -1  BY SMTT(60), <2>2, <3>1
    <3> QED  BY <3>2 DEF Ended
  <2> QED  BY <2>1, <2>3, <2>4, <2>5 DEF IInv
<1> QED  BY <1>4, <1>7, <1>8

\* The requests that leave the service alone
LEMMA ServeOtherStep == ASSUME IInv, ServeOther PROVE IInv'
<1>1. PICK k \in Answers[req] : Say(k) /\ listening' = (listening /\ ~(req = "unload" /\ k = "ACK"))
  BY DEF ServeOther
<1>2. req \in {"unpin", "unload", "reload", "trigger", "signal", "setenv", "catlog", "mech",
               "dscdir", "name"} /\ k \in Replies
  <2>1. req \in {"unpin", "unload", "reload", "trigger", "signal", "setenv", "catlog", "mech",
                 "dscdir", "name"}
    BY SMTT(60) DEF ServeOther, Answers
  <2>2. Answers[req] \subseteq {"ACK", "NAK", "SIGNAL_NOPID", "BADREQ", "SERVICE_LOG",
                               "LOADER_MECH", "SVCDSCDIR", "SERVICENAME"}
    BY SMTT(60), <2>1 DEF Answers
  <2> QED  BY <1>1, <2>1, <2>2 DEF Replies, Kinds, NotReply
<1>3. /\ pc \notin {"start_stop", "status", "enable", "estatus"} /\ cmd.op # "shutdown"
      /\ req # "none"
  BY <1>2, RequestOf DEF StartStop
<1>4. listening' \in BOOLEAN /\ link' \in BOOLEAN  BY <1>1 DEF ServeOther, IInv, CTypes
<1>5. Tidy  BY <1>3, <1>4 DEF Tidy
<1> QED  BY <1>1, <1>2, <1>3, <1>5, Saying

\* SHUTDOWN
LEMMA ServeShutdownStep == ASSUME IInv, ServeShutdown PROVE IInv'
<1>1. req = "shutdown" /\ req # "none" /\ Same  BY DEF ServeShutdown, Handling
<1>2. PICK o \in StopResults : Answer(o, Packet("ACK", "none"))  BY DEF ServeShutdown
<1>3. o \in Outcomes  BY StopFollows DEF IInv
<1>4. pc \notin {"start_stop", "status", "enable"}  BY <1>1, RequestOf DEF StartStop
<1>5. "ACK" \in Replies /\ "none" \in Abouts  BY DEF Replies, Kinds, NotReply, Abouts
<1>6. Tidy  BY <1>1, SameTidy
<1> QED  BY <1>1, <1>2, <1>3, <1>4, <1>5, <1>6, Replying

\* Every answer of the daemon
LEMMA ServeStep == ASSUME IInv, Serve PROVE IInv'
<1>1. ServeStatus \/ ServeStarted => IInv'
  <2>1. ServeStatus \/ ServeStarted =>
          /\ req \in {"status", "is_started"} /\ Same
          /\ Answer(Unchanged, Packet("SERVICESTATUS", sv.state))
    BY DEF ServeStatus, ServeStarted, Handling
  <2> QED  BY <2>1, StatusAnswered
<1> QED
  BY <1>1, ServeVersionStep, ServeLoadStep, ServeStartStep, ServeWakeStep, ServeStopStep,
     ServeRestartStep, ServeReleaseStep, ServeEnableStep, ServeAddDepStep, ServeRmDepStep,
     ServeListStep, ServeOtherStep, ServeShutdownStep
  DEF Serve

-----------------------------------------------------------------------------
(* The service, other clients and the connection *)

\* A transition ends.
LEMMA SettleStep == ASSUME IInv, Settle PROVE IInv'
<1>1. PICK o \in SettleResults : Becomes(o)  BY DEF Settle
<1>2. o \in Outcomes /\ Follows(o)  BY SettleFollows DEF IInv
<1> QED  BY <1>1, <1>2, BecomesStep

\* Somebody else starts or stops the service, or its process dies.
LEMMA MeanwhileStep == ASSUME IInv, Meanwhile PROVE IInv'
<1>1. CASE \E o \in StartResults : Becomes(o)
  <2>1. PICK o \in StartResults : Becomes(o)  BY <1>1
  <2>2. o \in Outcomes /\ Follows(o)  BY StartFollows DEF IInv
  <2> QED  BY <2>1, <2>2, BecomesStep
<1>2. CASE \E o \in StopResults \cup Forced(StopResults) : Becomes(o)
  <2>1. PICK o \in StopResults \cup Forced(StopResults) : Becomes(o)  BY <1>2
  <2>2. o \in Outcomes /\ Follows(o)  BY StopFollows DEF IInv
  <2> QED  BY <2>1, <2>2, BecomesStep
<1>3. ASSUME sv.state = "STARTED", NEW t \in {"STARTED", "STOPPED"},
             NEW o \in Forced({Out("STOPPING", t, <<>>)}), Becomes(o)
      PROVE  IInv'
  <2>1. PICK q : q = Out("STOPPING", t, <<>>)  OBVIOUS
  <2>2. CTypes /\ t \in States  BY DEF IInv, States
  <2>3. q \in Outcomes  BY SMTT(60), <2>1, <2>2, SvOK, QuietOut
  <2>4. o = [q EXCEPT !.forced = q.state # "STOPPED"]  BY <1>3, <2>1 DEF Forced
  <2>5. o \in Outcomes  BY <2>3, <2>4 DEF Outcomes
  <2>6. Follows(o)  BY <1>3 DEF Follows
  <2> QED  BY <1>3, <2>5, <2>6, BecomesStep
<1> QED  BY <1>1, <1>2, <1>3 DEF Meanwhile

\* The connection ends.
LEMMA CloseStep ==
  ASSUME IInv, closed' = TRUE, UNCHANGED <<client, server, req, wire, buf, file, moves>>
  PROVE  IInv'
<1>1. UNCHANGED <<pc, cmd, result, req, wire, buf, since, sv, link, file, listening>>
  BY DEF client, server
<1>2. CTypes'  BY <1>1 DEF IInv, CTypes, WireOK
<1>3. PointOK'  BY <1>1 DEF IInv, PointOK
<1>4. Conversation'  BY <1>1, ConversationKept DEF IInv
<1>5. Ended'
  <2>1. Promised => Promised'  BY SMTT(60), <1>1 DEF Promised
  <2> QED  BY <1>1, <2>1 DEF IInv, Ended
<1> QED  BY <1>1, <1>2, <1>3, <1>4, <1>5 DEF IInv

-----------------------------------------------------------------------------
(* dinit-monitor *)

\* One service is watched.
OneWatched == \A c \in Commands : c.op = "monitor" => ~c.two

\* What tells dinit-monitor the state of the service, and which it tells
Telling(f) == \/ f.kind = "SERVICERECORD"
              \/ f.kind = "EVENT" /\ f.about \in {"STARTED", "STOPPED", "FAILEDSTART"}
Tells(f) == IF f.kind = "EVENT" /\ f.about = "FAILEDSTART" THEN "STOPPED" ELSE f.about
Silent(w) == \A i \in 1..Len(w) : ~Telling(w[i])
TellsLast(w, st) ==
  \E i \in 1..Len(w) : /\ Telling(w[i]) /\ Tells(w[i]) = st
                       /\ \A j \in i + 1 .. Len(w) : ~Telling(w[j])
Unsaid(w) == \A i \in 1..Len(w) : w[i].kind \notin {"EVENT", "SERVICERECORD"}
Settled == {"STARTED", "STOPPED"}
\* The monitor is told nothing before the daemon listens for it, and then of every state the
\* service settles in: the last it is told, or will be, is the state.
Watching ==
  cmd.op = "monitor" /\ pc # "done" =>
    /\ ~cmd.two /\ left = 1 /\ pc \in {"start", "version", "load", "watch"} /\ req \in {"none", pc}
    /\ pc \in {"start", "version"} \/ req = "load" => ~listening
    /\ pc = "watch" => listening
    /\ ~listening => Unsaid(wire)
    /\ pc = "load" /\ listening => Len(wire) > 0 /\ Header = "SERVICERECORD"
    /\ listening /\ ~closed /\ sv.state \in Settled
         => TellsLast(wire, sv.state) \/ (Silent(wire) /\ told = sv.state)

\* The events of an outcome end with the state it settles in.
Settles(o) ==
  o.state \in Settled => \/ o.events = <<>> /\ o.state = sv.state
                         \/ Len(o.events) \in Nat \ {0} /\ o.events[Len(o.events)] = o.state

\* The last of several events is the last to tell.
LEMMA LastEvent ==
  ASSUME NEW evs \in Seq(Abouts), NEW st \in Settled, Len(evs) \in Nat \ {0}, evs[Len(evs)] = st
  PROVE  TellsLast(Packets("EVENT", evs), st)
<1>1. PICK n \in Nat \ {0} : n = Len(evs)  OBVIOUS
<1>2. PICK w : w = Packets("EVENT", evs)  OBVIOUS
<1>3. w = [i \in 1 .. 3 * n |-> Packet("EVENT", evs[((i - 1) \div 3) + 1])[((i - 1) % 3) + 1]]
  BY <1>1, <1>2, SizeOf DEF Packets
<1>4. PICK m \in Nat : m = 3 * n /\ m >= 3  BY SMTT(60), <1>1
<1>5. Len(w) = m
  <2>1. w = [i \in 1..m |-> w[i]]  BY <1>3, <1>4
  <2> QED  BY SMTT(60), <1>4, <2>1
<1>6. st \in Abouts /\ "EVENT" \in Kinds /\ "EVENT" # "body"  BY DEF Settled, Abouts, States, Kinds
<1>7. /\ Packet("EVENT", st)[1] = [kind |-> "EVENT", about |-> st]
      /\ \A i \in 2..3 : Packet("EVENT", st)[i] = Body
  BY <1>6, PacketFields, SizeOf
<1>8. ASSUME NEW r \in 1..3 PROVE m - 3 + r \in 1..m /\ w[m - 3 + r] = Packet("EVENT", st)[r]
  <2>1. PICK i \in 1..m : i = m - 3 + r  BY SMTT(60), <1>4
  <2>2. ((i - 1) \div 3) + 1 = n /\ ((i - 1) % 3) + 1 = r  BY SMTT(60), <1>1, <1>4, <2>1
  <2>3. w[i] = Packet("EVENT", evs[n])[r]  BY <1>3, <1>4, <2>2
  <2> QED  BY <1>1, <2>1, <2>3
<1>9. PICK k \in 1..m : k = m - 2  BY SMTT(60), <1>4
<1>10. w[k] = [kind |-> "EVENT", about |-> st]
  <2>1. 1 \in 1..3 /\ m - 3 + 1 = k  BY SMTT(60), <1>4, <1>9
  <2> QED  BY <1>7, <1>8, <2>1
<1>11. Telling(w[k]) /\ Tells(w[k]) = st
  <2>1. w[k].kind = "EVENT" /\ w[k].about = st  BY SMTT(60), <1>10
  <2> QED  BY <2>1 DEF Telling, Tells, Settled
<1>12. ASSUME NEW j \in k + 1 .. m PROVE ~Telling(w[j])
  <2>1. PICK r \in 2..3 : j = m - 3 + r  BY SMTT(60), <1>4, <1>9
  <2>2. r \in 1..3  BY SMTT(60)
  <2>3. w[j] = Body  BY <1>7, <1>8, <2>1, <2>2
  <2>4. Body.kind = "body"  BY DEF Body
  <2> QED  BY <2>3, <2>4 DEF Telling
<1> QED  BY <1>2, <1>5, <1>9, <1>11, <1>12 DEF TellsLast

\* What tells last on its own also tells last behind what was sent before.
LEMMA LastBehind ==
  ASSUME NEW v \in Seq(Field), NEW w \in Seq(Field), NEW st, TellsLast(w, st)
  PROVE  TellsLast(v \o w, st)
<1>1. PICK u : u = v \o w  OBVIOUS
<1>2. /\ Len(u) = Len(v) + Len(w) /\ Len(v) \in Nat /\ Len(w) \in Nat
      /\ \A i \in Len(v) + 1 .. Len(v) + Len(w) : u[i] = w[i - Len(v)]
  BY <1>1, Fields
<1>3. PICK i \in 1..Len(w) : /\ Telling(w[i]) /\ Tells(w[i]) = st
                             /\ \A j \in i + 1 .. Len(w) : ~Telling(w[j])
  BY DEF TellsLast
<1>4. PICK k \in 1..Len(u) : k = Len(v) + i /\ u[k] = w[i]
  <2>1. Len(v) + i \in Len(v) + 1 .. Len(v) + Len(w) /\ Len(v) + i \in 1..Len(u) /\ (Len(v) + i) - Len(v) = i
    BY SMTT(60), <1>2
  <2> QED  BY <1>2, <2>1
<1>5. ASSUME NEW j \in k + 1 .. Len(u) PROVE ~Telling(u[j])
  <2>1. j \in Len(v) + 1 .. Len(v) + Len(w) /\ j - Len(v) \in i + 1 .. Len(w)
    BY SMTT(60), <1>2, <1>4
  <2> QED  BY <1>2, <1>3, <2>1
<1> QED  BY <1>1, <1>3, <1>4, <1>5 DEF TellsLast

\* The places of a list of l fields after its first n are gone.
LEMMA Places ==
  ASSUME NEW l \in Nat, NEW n \in 1..4, n <= l, NEW m, m = l - n
  PROVE  /\ \A j \in 1..m : j \in 1 .. l - n /\ j + n \in 1..l /\ j + n \in 1 + 1 .. l
         /\ \A i \in 1..l : \/ i = 1 \/ i \in 2..n
                            \/ \E k \in 1..m : /\ i = k + n
                                             /\ \A j \in k + 1 .. m : j \in 1..m /\ j + n \in i + 1 .. l
<1>1. \A j \in 1..m : j \in 1 .. l - n /\ j + n \in 1..l /\ j + n \in 1 + 1 .. l  BY SMTT(60)
<1>2. ASSUME NEW i \in 1..l, i # 1, i \notin 2..n
      PROVE  \E k \in 1..m : i = k + n /\ \A j \in k + 1 .. m : j \in 1..m /\ j + n \in i + 1 .. l
  <2>1. PICK k : k = i - n  OBVIOUS
  <2>2. k \in 1..m /\ i = k + n  BY SMTT(60), <1>2, <2>1
  <2>3. \A j \in k + 1 .. m : j \in 1..m /\ j + n \in i + 1 .. l  BY SMTT(60), <2>2
  <2> QED  BY <2>2, <2>3
<1> QED  BY <1>1, <1>2

\* Taking off the first packet takes at most what that packet tells.
LEMMA LastTaken ==
  ASSUME NEW w, Framed(w), Len(w) > 0, NEW n, n = Size(w[1].kind), NEW v, v = SubSeq(w, n + 1, Len(w))
  PROVE  /\ Silent(w) => Silent(v)
         /\ \A st \in Settled :
              TellsLast(w, st) => \/ TellsLast(v, st)
                                  \/ Silent(v) /\ Telling(w[1]) /\ Tells(w[1]) = st
<1>1. /\ n \in 1..4 /\ n <= Len(w) /\ Len(v) = Len(w) - n
      /\ \A i \in 1 .. Len(w) - n : v[i] = w[i + n]
      /\ \A i \in 2..n : w[i].kind = "body"
  BY SMTT(60), TakeFramed
<1>2. Len(w) \in Nat  BY FieldOf DEF Framed
<1>3. /\ \A j \in 1..Len(v) : j \in 1 .. Len(w) - n /\ j + n \in 1..Len(w) /\ j + n \in 1 + 1 .. Len(w)
      /\ \A i \in 1..Len(w) :
           \/ i = 1 \/ i \in 2..n
           \/ \E k \in 1..Len(v) : /\ i = k + n
                                 /\ \A j \in k + 1 .. Len(v) : j \in 1..Len(v) /\ j + n \in i + 1 .. Len(w)
  BY <1>1, <1>2, Places
<1>4. \A i \in 1..Len(v) : v[i] = w[i + n]  BY <1>1, <1>3
<1>5. Silent(w) => Silent(v)  BY <1>3, <1>4 DEF Silent
<1>6. ASSUME NEW st \in Settled, TellsLast(w, st)
      PROVE  TellsLast(v, st) \/ (Silent(v) /\ Telling(w[1]) /\ Tells(w[1]) = st)
  <2>1. PICK i \in 1..Len(w) : /\ Telling(w[i]) /\ Tells(w[i]) = st
                               /\ \A j \in i + 1 .. Len(w) : ~Telling(w[j])
    BY <1>6 DEF TellsLast
  <2>2. CASE i = 1
    <3>1. ASSUME NEW j \in 1..Len(v) PROVE ~Telling(v[j])
      <4>1. j + n \in i + 1 .. Len(w)  BY <1>3, <2>2
      <4> QED  BY <1>4, <2>1, <4>1
    <3> QED  BY <2>1, <2>2, <3>1 DEF Silent
  <2>3. CASE i \in 2..n
    <3>1. w[i].kind = "body"  BY <1>1, <2>3
    <3> QED  BY <2>1, <3>1 DEF Telling
  <2>4. ASSUME NEW k \in 1..Len(v), i = k + n,
               \A j \in k + 1 .. Len(v) : j \in 1..Len(v) /\ j + n \in i + 1 .. Len(w)
        PROVE  TellsLast(v, st)
    <3>1. ASSUME NEW j \in k + 1 .. Len(v) PROVE ~Telling(v[j])
      <4>1. j \in 1..Len(v) /\ j + n \in i + 1 .. Len(w)  BY <2>4
      <4> QED  BY <1>4, <2>1, <4>1
    <3> QED  BY <1>4, <2>1, <2>4, <3>1 DEF TellsLast
  <2> QED  BY <1>3, <2>2, <2>3, <2>4
<1> QED  BY <1>5, <1>6

\* The same of what is left, whatever it is called.
LEMMA LastRest ==
  ASSUME NEW w, Framed(w) /\ Len(w) > 0, NEW v, v = SubSeq(w, Size(w[1].kind) + 1, Len(w))
  PROVE  /\ Silent(w) => Silent(v)
         /\ \A st \in Settled :
              TellsLast(w, st) => \/ TellsLast(v, st)
                                  \/ Silent(v) /\ Telling(w[1]) /\ Tells(w[1]) = st
<1>1. PICK n : n = Size(w[1].kind)  OBVIOUS
<1>2. v = SubSeq(w, n + 1, Len(w))  BY <1>1
<1> QED  BY <1>1, <1>2, LastTaken

\* The events that go with a state
Heard(st, evs) ==
  \/ st \notin Settled
  \/ evs = <<>> /\ st = sv.state
  \/ evs = <<st>>
  \/ evs = <<"FAILEDSTART", "STOPPED">> /\ st = "STOPPED"

\* An outcome with them
LEMMA HeardSettles ==
  ASSUME CTypes, NEW st \in States, NEW tg \in States, NEW evs \in Lists, Heard(st, evs),
         NEW o, o = Out(st, tg, evs)
  PROVE  o \in Outcomes /\ Settles(o)
<1>1. o \in Outcomes /\ o.state = st /\ o.events = evs  BY SMTT(60), OutIs
<1>2. Len(<<st>>) = 1 /\ <<st>>[1] = st /\ 1 \in Nat \ {0}  BY SMTT(60)
<1>3. /\ Len(<<"FAILEDSTART", "STOPPED">>) = 2 /\ <<"FAILEDSTART", "STOPPED">>[2] = "STOPPED"
      /\ 2 \in Nat \ {0}
  BY SMTT(60)
<1>4. CASE evs = <<st>>  BY <1>1, <1>2, <1>4 DEF Settles
<1>5. CASE evs = <<"FAILEDSTART", "STOPPED">> /\ st = "STOPPED"  BY <1>1, <1>3, <1>5 DEF Settles
<1> QED  BY <1>1, <1>4, <1>5 DEF Heard, Settles

\* What a start, the end of a transition and a stop come to
LEMMA StartSettles == ASSUME CTypes, NEW o \in StartResults PROVE o \in Outcomes /\ Settles(o)
<1>1. ASSUME NEW f \in Failures
      PROVE  \E st \in States, tg \in States, evs \in Lists : f = Out(st, tg, evs) /\ Heard(st, evs)
  BY <1>1, SvOK DEF Failures, Lists, Heard, Settled
<1>2. CASE sv.state = "STOPPED"
  <2>1. \/ o = Out("STARTING", "STARTED", <<>>) \/ o = Out("STARTED", "STARTED", <<"STARTED">>)
        \/ o \in Failures
    BY <1>2 DEF StartResults, IfSync
  <2>2. \E st \in States, tg \in States, evs \in Lists : o = Out(st, tg, evs) /\ Heard(st, evs)
    BY <1>1, <2>1, SvOK DEF Lists, Heard, Settled
  <2> QED  BY <2>2, HeardSettles
<1>3. CASE sv.state = "STOPPING"
  <2>1. o = Out("STOPPING", "STARTED", <<>>) \/ o = Out("STARTING", "STARTED", <<"STOPCANCELLED">>)
    BY <1>3 DEF StartResults
  <2>2. \E st \in States, tg \in States, evs \in Lists : o = Out(st, tg, evs) /\ Heard(st, evs)
    BY <2>1, SvOK DEF Lists, Heard, Settled
  <2> QED  BY <2>2, HeardSettles
<1>4. CASE sv.state \notin {"STOPPED", "STOPPING"}
  <2>1. o = Out(sv.state, "STARTED", <<>>)  BY <1>4 DEF StartResults
  <2>2. <<>> \in Lists /\ Heard(sv.state, <<>>)  BY DEF Lists, Heard
  <2> QED  BY <2>1, <2>2, SvOK, HeardSettles
<1> QED  BY <1>2, <1>3, <1>4

LEMMA SettleSettles == ASSUME CTypes, NEW o \in SettleResults PROVE o \in Outcomes /\ Settles(o)
<1>1. CASE sv.state = "STARTING"
  <2>1. \/ o = Out("STOPPING", sv.target, <<"STARTED">>) \/ o = Out("STARTED", sv.target, <<"STARTED">>)
        \/ o = Out("STOPPED", "STOPPED", <<"FAILEDSTART", "STOPPED">>)
        \/ o = Out("STOPPING", "STOPPED", <<"FAILEDSTART">>)
    BY <1>1 DEF SettleResults, Failures
  <2>2. \E st \in States, tg \in States, evs \in Lists : o = Out(st, tg, evs) /\ Heard(st, evs)
    BY <2>1, SvOK DEF Lists, Heard, Settled
  <2> QED  BY <2>2, HeardSettles
<1>2. CASE sv.state = "STOPPING"
  <2>1. \/ o = Out("STARTING", sv.target, <<"STOPPED">>) \/ o = Out("STOPPED", sv.target, <<"STOPPED">>)
    BY <1>2 DEF SettleResults
  <2>2. \E st \in States, tg \in States, evs \in Lists : o = Out(st, tg, evs) /\ Heard(st, evs)
    BY <2>1, SvOK DEF Lists, Heard, Settled
  <2> QED  BY <2>2, HeardSettles
<1> QED  BY <1>1, <1>2 DEF SettleResults

LEMMA StopSettles ==
  ASSUME CTypes, NEW o \in StopResults \cup Forced(StopResults) PROVE o \in Outcomes /\ Settles(o)
<1>1. PICK q \in StopResults : o = q \/ o = [q EXCEPT !.forced = q.state # "STOPPED"]
  BY DEF Forced
<1>2. q \in Outcomes /\ Settles(q)
  <2>1. CASE sv.state \in {"STARTED", "STARTING"}
    <3>1. \/ q = Out("STOPPING", "STOPPED", <<>>) \/ q = Out("STOPPED", "STOPPED", <<"STOPPED">>)
          \/ q = Out("STARTING", "STOPPED", <<>>) \/ q = Out("STARTING", "STOPPED", <<"STARTCANCELLED">>)
          \/ q = Out("STOPPING", "STOPPED", <<"STARTCANCELLED">>)
      BY <2>1 DEF StopResults, IfSync
    <3>2. \E st \in States, tg \in States, evs \in Lists : q = Out(st, tg, evs) /\ Heard(st, evs)
      BY <3>1, SvOK DEF Lists, Heard, Settled
    <3> QED  BY <3>2, HeardSettles
  <2>2. CASE sv.state \notin {"STARTED", "STARTING"}
    <3>1. q = Out(sv.state, "STOPPED", <<>>)  BY <2>2 DEF StopResults
    <3>2. <<>> \in Lists /\ Heard(sv.state, <<>>)  BY DEF Lists, Heard
    <3> QED  BY <3>1, <3>2, SvOK, HeardSettles
  <2> QED  BY <2>1, <2>2
<1>3. CASE o = [q EXCEPT !.forced = q.state # "STOPPED"]
  <2>1. o \in Outcomes /\ o.state = q.state /\ o.events = q.events  BY <1>2, <1>3 DEF Outcomes
  <2> QED  BY <1>2, <2>1 DEF Settles
<1> QED  BY <1>1, <1>2, <1>3

\* Reading, and the end of the connection, leave what is told as it is.
LEMMA WatchingKept ==
  ASSUME Watching, UNCHANGED <<cmd, pc, left, told, req, sv, listening, wire>>,
         closed' = closed \/ closed' = TRUE
  PROVE  Watching'
BY DEF Watching, TellsLast, Silent, Unsaid, Header

\* The events of the service tell the state it settles in.
LEMMA BecomesWatched ==
  ASSUME IInv, Watching, NEW o \in Outcomes, Settles(o), Becomes(o)
  PROVE  Watching'
<1>1. /\ UNCHANGED <<cmd, pc, left, told, req, listening, closed>>
      /\ sv'.state = o.state
  BY DEF Becomes, Becoming, client
<1>2. WireOK /\ wire \in Seq(Field)  BY DEF IInv, CTypes, WireOK
<1>3. SUFFICES ASSUME cmd.op = "monitor", pc # "done" PROVE Watching'
  BY <1>1 DEF Watching
<1>4. CASE closed
  <2>1. wire' = wire  BY <1>4 DEF Becomes
  <2>2. ~listening \/ closed  BY <1>4
  <2> QED  BY <1>1, <1>3, <2>1, <2>2 DEF Watching, Header
<1>5. CASE ~listening
  <2>1. Queued(o) = <<>>  BY <1>5 DEF Queued
  <2>2. wire \o <<>> = wire  BY SMTT(60), <1>2
  <2>3. wire' = wire  BY <2>1, <2>2 DEF Becomes
  <2> QED  BY <1>1, <1>3, <1>5, <2>3 DEF Watching, Header
<1>6. CASE listening /\ ~closed
  <2>1. PICK q : q = Queued(o)  OBVIOUS
  <2>2. wire' = wire \o q  BY <1>6, <2>1 DEF Becomes
  <2>3. EventsOf(q, o)  BY <2>1, QueuedEvents
  <2>4. /\ Len(wire') = Len(wire) + Len(q) /\ Len(wire) \in Nat /\ Len(q) \in Nat
        /\ \A i \in 1..Len(wire) : wire'[i] = wire[i]
    BY <1>2, <2>2, <2>3, EventsAppended
  <2>5. pc = "load" => Len(wire') > 0 /\ Header' = "SERVICERECORD"
    <3>1. pc = "load" => Len(wire) > 0 /\ Header = "SERVICERECORD"  BY <1>3, <1>6 DEF Watching
    <3>2. Len(wire) > 0 => Len(wire') > 0 /\ wire'[1] = wire[1]
      <4>1. Len(wire) > 0 => 1 \in 1..Len(wire) /\ Len(wire') > 0  BY SMTT(60), <2>4
      <4> QED  BY <2>4, <4>1
    <3> QED  BY <3>1, <3>2 DEF Header
  <2>6. ASSUME o.state \in Settled
        PROVE  TellsLast(wire', o.state) \/ (Silent(wire') /\ told = o.state)
    <3>1. CASE o.events = <<>> /\ o.state = sv.state
      <4>0. PICK e : e = <<>> /\ Len(e) = 0  BY SMTT(60)
      <4>1. PICK p : p = Packets("EVENT", e)  OBVIOUS
      <4>2. DOMAIN p = 1 .. Size("EVENT") * Len(e)  BY <4>1 DEF Packets
      <4>3. Size("EVENT") = 3  BY SizeOf
      <4>4. DOMAIN p = {}  BY SMTT(60), <4>0, <4>2, <4>3
      <4>5. Len(p) = 0
        <5>1. p \in Seq(Field)  BY <1>6, <2>1, <2>3, <3>1, <4>0, <4>1 DEF EventsOf, Framed, Queued
        <5> QED  BY SMTT(60), <4>4, <5>1
      <4>6. wire' = wire
        <5>1. q = p /\ q \in Seq(Field)  BY <1>6, <2>1, <2>3, <3>1, <4>0, <4>1 DEF EventsOf, Framed, Queued
        <5> QED  BY SMTT(60), <1>2, <2>2, <4>5, <5>1
      <4> QED  BY <1>3, <1>6, <2>6, <3>1, <4>6 DEF Watching
    <3>2. CASE Len(o.events) \in Nat \ {0} /\ o.events[Len(o.events)] = o.state
      <4>1. o.events \in Seq(Abouts)
        <5>1. o.events \in Seq(EventKinds)  BY DEF Outcomes
        <5>2. EventKinds \subseteq Abouts  BY DEF Abouts
        <5> QED  BY SMTT(60), <5>1, <5>2
      <4>2. TellsLast(Packets("EVENT", o.events), o.state)  BY <2>6, <3>2, <4>1, LastEvent
      <4>3. TellsLast(q, o.state) /\ q \in Seq(Field)
        BY <1>6, <2>1, <2>3, <4>2 DEF Queued, EventsOf, Framed
      <4> QED  BY <1>2, <2>2, <4>3, LastBehind
    <3> QED  BY <2>6, <3>1, <3>2 DEF Settles
  <2> QED  BY <1>1, <1>3, <1>6, <2>5, <2>6 DEF Watching
<1> QED  BY <1>4, <1>5, <1>6

\* The service settles, others act, the connection ends.
LEMMA ServiceWatched == ASSUME IInv, Watching, Settle \/ Meanwhile \/ Exit \/ Drop PROVE Watching'
<1>1. CTypes  BY DEF IInv
<1>2. ASSUME NEW o \in SettleResults \cup StartResults \cup StopResults \cup Forced(StopResults),
             Becomes(o)
      PROVE  Watching'
  <2>1. o \in Outcomes /\ Settles(o)  BY <1>1, SettleSettles, StartSettles, StopSettles
  <2> QED  BY <1>2, <2>1, BecomesWatched
<1>3. ASSUME NEW t \in {"STARTED", "STOPPED"}, NEW o \in Forced({Out("STOPPING", t, <<>>)}), Becomes(o)
      PROVE  Watching'
  <2>1. PICK q : q = Out("STOPPING", t, <<>>)  OBVIOUS
  <2>2. q \in Outcomes /\ q.state = "STOPPING"
    <3>1. t \in States  BY DEF States
    <3> QED  BY SMTT(60), <1>1, <2>1, <3>1, SvOK, QuietOut
  <2>3. o = [q EXCEPT !.forced = q.state # "STOPPED"]  BY <1>3, <2>1 DEF Forced
  <2>4. o \in Outcomes /\ o.state = "STOPPING"  BY <2>2, <2>3 DEF Outcomes
  <2>5. Settles(o)  BY <2>4 DEF Settles, Settled
  <2> QED  BY <1>3, <2>4, <2>5, BecomesWatched
<1>4. CASE Exit \/ Drop  BY <1>4, WatchingKept DEF Exit, Drop, client, server
<1> QED  BY <1>2, <1>3, <1>4 DEF Settle, Meanwhile

\* A monitor that waits for a reply and is not listened for has nothing on the wire.
LEMMA NothingSent ==
  ASSUME IInv, Watching, cmd.op = "monitor", pc # "done", ~listening, req # "none"
  PROVE  wire = <<>>
<1>1. wire \in Seq(Field) /\ Framed(wire)  BY DEF IInv, CTypes, WireOK
<1>2. Len(wire) \in Nat  BY <1>1, FieldOf
<1>3. pc \in Asking
  <2>1. req = pc  BY DEF Watching
  <2>2. pc \in {"start", "version", "load", "watch"}  BY DEF Watching
  <2>3. pc \notin Resting  BY <2>1 DEF IInv, Conversation
  <2> QED  BY <2>2, <2>3 DEF Asking, Resting
<1>4. OnlyEvents(wire) /\ Unsaid(wire)  BY <1>3 DEF IInv, Conversation, Watching
<1>5. ~(1 \in 1..Len(wire))
  <2>1. SUFFICES ASSUME 1 \in 1..Len(wire) PROVE FALSE  OBVIOUS
  <2>2. wire[1].kind = "body"  BY <1>4, <2>1 DEF OnlyEvents, Unsaid, NotReply
  <2>3. Len(wire) > 0  BY SMTT(60), <1>2, <2>1
  <2> QED  BY <1>1, <2>2, <2>3 DEF Framed
<1>6. Len(wire) = 0  BY SMTT(60), <1>2, <1>5
<1> QED  BY SMTT(60), <1>1, <1>6

\* It is sent the reply, then.
LEMMA FirstSent ==
  ASSUME IInv, Watching, cmd.op = "monitor", pc # "done", ~listening, req # "none",
         NEW k \in Kinds \ {"body"}, NEW a \in Abouts, Answer(Unchanged, Packet(k, a))
  PROVE  /\ wire' = Packet(k, a) /\ Len(wire') = Size(k) /\ Size(k) \in 1..4
         /\ wire'[1] = [kind |-> k, about |-> a]
         /\ \A i \in 2..Size(k) : wire'[i] = Body
         /\ UNCHANGED <<cmd, pc, left, told, closed>> /\ req' = "none" /\ sv'.state = sv.state
<1>1. wire = <<>>  BY NothingSent
<1>2. Queued(Unchanged) = <<>>  BY DEF Queued
<1>3. PICK r : r = Packet(k, a)  OBVIOUS
<1>4. /\ r \in Seq(Field) /\ Len(r) = Size(k) /\ r[1] = [kind |-> k, about |-> a]
      /\ \A i \in 2..Size(k) : r[i] = Body
  BY <1>3, PacketFields
<1>5. wire' = (<<>> \o <<>>) \o r  BY <1>1, <1>2, <1>3 DEF Answer
<1>6. wire' = r  BY SMTT(60), <1>4, <1>5
<1>7. UNCHANGED <<cmd, pc, left, told, closed>> /\ req' = "none" /\ sv'.state = Unchanged.state
  BY DEF Answer, client, Becoming
<1>8. Unchanged.state = sv.state  BY UnchangedOut
<1> QED  BY <1>3, <1>4, <1>6, <1>7, <1>8, SizeOf

\* The replies to the monitor's two requests
LEMMA ServeWatched == ASSUME IInv, Watching, Serve PROVE Watching'
<1>1. UNCHANGED <<cmd, pc>>
  BY DEF Serve, ServeVersion, ServeLoad, ServeStart, ServeWake, ServeStop, ServeRestart,
    ServeRelease, ServeEnable, ServeAddDep, ServeRmDep, ServeStatus, ServeStarted, ServeList,
    ServeOther, ServeShutdown, Say, Answer, client
<1>2. SUFFICES ASSUME cmd.op = "monitor", pc # "done" PROVE Watching'
  BY <1>1 DEF Watching
<1>3. /\ pc \in {"start", "version", "load", "watch"} /\ req \in {"none", pc} /\ ~cmd.two /\ left = 1
      /\ pc = "version" \/ req = "load" => ~listening
      /\ pc \in {"start", "watch"} => req = "none"
  BY <1>2 DEF Watching, IInv, Conversation, Resting
<1>4. ServeVersion \/ ServeLoad
  <2>1. req \in {"none", "version", "load"}  BY <1>3
  <2>2. ~ServeOther
    <3>1. req \notin DOMAIN Answers  BY SMTT(60), <2>1 DEF Answers
    <3> QED  BY <3>1 DEF ServeOther
  <2> QED  BY <2>1, <2>2 DEF Serve, ServeVersion, ServeLoad, ServeStart, ServeWake, ServeStop, ServeRestart,
    ServeRelease, ServeEnable, ServeAddDep, ServeRmDep, ServeStatus, ServeStarted, ServeList,
    ServeShutdown, Handling
<1>5. ASSUME NEW k \in Kinds \ {"body", "EVENT", "SERVICERECORD"}, NEW a \in Abouts,
             req # "none", ~listening, Answer(Unchanged, Packet(k, a)), listening' = listening
      PROVE  Watching'
  <2>1. /\ Len(wire') = Size(k) /\ Size(k) \in 1..4 /\ wire'[1] = [kind |-> k, about |-> a]
        /\ \A i \in 2..Size(k) : wire'[i] = Body
        /\ UNCHANGED <<cmd, pc, left, told, closed>> /\ req' = "none"
    BY <1>2, <1>5, FirstSent
  <2>2. Unsaid(wire')
    <3>1. \A i \in 1..Len(wire') : i = 1 \/ i \in 2..Size(k)  BY SMTT(60), <2>1
    <3>2. wire'[1].kind = k  BY SMTT(60), <2>1
    <3>3. Body.kind = "body"  BY DEF Body
    <3> QED  BY <2>1, <3>1, <3>2, <3>3 DEF Unsaid
  <2>3. pc # "watch"  BY <1>3, <1>5
  <2> QED  BY <1>3, <1>5, <2>1, <2>2, <2>3 DEF Watching
<1>6. CASE ServeVersion
  <2>1. PICK v \in {"v0", "v1", "v2"} : Answer(Unchanged, Packet("CPVERSION", v))
    BY <1>6 DEF ServeVersion
  <2>2. req = "version" /\ listening' = listening  BY <1>6 DEF ServeVersion, Handling, Same
  <2>3. req # "none" /\ ~listening  BY <1>3, <2>2
  <2>4. "CPVERSION" \in Kinds \ {"body", "EVENT", "SERVICERECORD"} /\ v \in Abouts
    BY DEF Kinds, Abouts
  <2> QED  BY <1>5, <2>1, <2>2, <2>3, <2>4
<1>7. CASE ServeLoad
  <2>1. req = "load" /\ req # "none" /\ ~listening /\ pc = "load"
    BY <1>3, <1>7 DEF ServeLoad, Handling
  <2>2. ASSUME NEW k \in {"NOSERVICE", "SERVICE_DESC_ERR"}, Same, Say(k) PROVE Watching'
    <3>1. k \in Kinds \ {"body", "EVENT", "SERVICERECORD"} /\ "none" \in Abouts
      BY DEF Kinds, Abouts
    <3> QED  BY <1>5, <2>1, <2>2, <3>1 DEF Say, Same
  <2>3. CASE /\ listening' = (listening \/ req # "load_from")
             /\ Answer(Unchanged, Packet("SERVICERECORD", sv.state))
    <3>1. "SERVICERECORD" \in Kinds \ {"body"} /\ sv.state \in Abouts
      BY SvOK DEF Kinds, Abouts, IInv
    <3>2. /\ Len(wire') = 4 /\ wire'[1] = [kind |-> "SERVICERECORD", about |-> sv.state]
          /\ \A i \in 2..4 : wire'[i] = Body
          /\ UNCHANGED <<cmd, pc, left, told, closed>> /\ req' = "none" /\ sv'.state = sv.state
      BY <1>2, <2>1, <2>3, <3>1, FirstSent, SizeOf
    <3>3. listening'  BY <2>1, <2>3
    <3>4. wire'[1].kind = "SERVICERECORD" /\ wire'[1].about = sv.state  BY SMTT(60), <3>2
    <3>5. Telling(wire'[1]) /\ Tells(wire'[1]) = sv.state  BY <3>4 DEF Telling, Tells
    <3>6. 1 \in 1..Len(wire') /\ Len(wire') > 0 /\ 1 + 1 .. Len(wire') = 2..4  BY SMTT(60), <3>2
    <3>7. Body.kind = "body"  BY DEF Body
    <3>8. \A j \in 1 + 1 .. Len(wire') : ~Telling(wire'[j])
      BY <3>2, <3>6, <3>7 DEF Telling
    <3>9. TellsLast(wire', sv.state)  BY <3>5, <3>6, <3>8 DEF TellsLast
    <3> QED  BY <1>3, <2>1, <3>2, <3>3, <3>4, <3>6, <3>9 DEF Watching, Header
  <2> QED  BY <1>7, <2>2, <2>3 DEF ServeLoad
<1> QED  BY <1>4, <1>6, <1>7

\* The monitor's own steps
LEMMA MonitorSteps ==
  ASSUME IInv, CommandLines, Watching, cmd.op = "monitor", Program, pc' # "done"
  PROVE  /\ pc \in {"start", "version", "load", "watch"}
         /\ Connect \/ fill_buffer_to \/ CheckVersion \/ CheckLoadReply \/ Watch
<1>1. pc # "done"
  <2>1. \A op \in {"unpin", "unload", "reload", "trigger", "signal"} : AckReply(op) => pc # "done"
    BY DEF AckReply, Replied
  <2>2. UnpinReply \/ UnloadReply \/ ReloadReply \/ TriggerReply \/ SignalReply => pc # "done"
    BY <2>1 DEF UnpinReply, UnloadReply, ReloadReply, TriggerReply, SignalReply
  <2> QED
    BY <2>2 DEF Program, Connect, fill_buffer_to, EndOfStream, DependentsCutShort, ReadsDependents,
      RecordCutShort, RecordIsShort, SkipInfo, Reading, CheckVersion, CheckLoadReply,
      FindReply, ListReply, StatusReply, DependencyReply, SetenvReply, CatLogReply, ShutdownReply,
      Closing, StartStopReply, NameReply, WaitEvent, LoadMechReply, DscDirReply, ReadDescription,
      EnableReply, MakeLink, EnableStatus, Watch, Replied
<1>2. pc \in {"start", "version", "load", "watch"}  BY <1>1 DEF Watching
<1>3. ~(UnpinReply \/ UnloadReply \/ ReloadReply \/ TriggerReply \/ SignalReply)
  BY DEF UnpinReply, UnloadReply, ReloadReply, TriggerReply, SignalReply, AckReply
<1>4. ~SkipInfo
  <2>1. SUFFICES ASSUME SkipInfo PROVE FALSE  OBVIOUS
  <2>2. Arrived(1) /\ Header = "EVENT" /\ pc \in {"version", "load"}
    BY <1>2, <2>1 DEF SkipInfo, Reading, InfoPoints
  <2>3. Len(wire) > 0 /\ Len(wire) \in Nat  BY <1>1, <2>2, AtHeader
  <2>4. 1 \in 1..Len(wire)  BY SMTT(60), <2>3
  <2>5. listening  BY <1>1, <2>2, <2>4 DEF Watching, Unsaid, Header
  <2> QED  BY <1>1, <2>2, <2>5 DEF Watching
<1>5. ~EndOfStream /\ ~RecordCutShort  BY DEF EndOfStream, RecordCutShort, Finish
<1> QED
  BY <1>2, <1>3, <1>4, <1>5 DEF Program, DependentsCutShort, ReadsDependents, FindReply, ListReply, StatusReply, DependencyReply,
    SetenvReply, CatLogReply, ShutdownReply, Closing, StartStopReply, NameReply, WaitEvent,
    LoadMechReply, DscDirReply, ReadDescription, EnableReply, MakeLink, EnableStatus, Replied

\* The version is read before the service is asked for,
LEMMA VersionWatched ==
  ASSUME IInv, Watching, cmd.op = "monitor", CheckVersion, pc' # "done"
  PROVE  Watching'
<1>1. Replied("version") /\ Rest /\ "version" \in Asking /\ Take(3) /\ UNCHANGED <<left, told>>
  BY DEF CheckVersion, Plain, Asking
<1>2. pc = "version" /\ pc # "done"  BY <1>1 DEF Replied
<1>3. ~listening /\ Unsaid(wire) /\ left = 1 /\ ~cmd.two  BY <1>2 DEF Watching
<1>4. LoadRequest(left) = "load"
  BY <1>3 DEF LoadRequest
<1>5. Header = "CPVERSION" /\ Ask("load", "load")
  BY <1>4 DEF CheckVersion, Finish, FindsFirst
<1>6. PICK n : n = 3  OBVIOUS
<1>7. n = Size(Header) /\ Take(n)  BY <1>1, <1>5, <1>6, SizeOf
<1>8. NoEvents(wire)  BY <1>3 DEF Unsaid, NoEvents
<1>9. OnlyEvents(wire') /\ NoEvents(wire')  BY <1>1, <1>7, <1>8, ReplyTaken
<1>10. Unsaid(wire')  BY <1>9 DEF OnlyEvents, NoEvents, Unsaid, NotReply
<1>11. /\ pc' = "load" /\ req' = "load" /\ cmd' = cmd /\ ~listening' /\ left' = 1
  BY <1>1, <1>3, <1>5 DEF Ask, Rest, server
<1> QED  BY <1>3, <1>10, <1>11 DEF Watching

\* the record tells the state as it was when the daemon began to listen,
LEMMA LoadWatched ==
  ASSUME IInv, Watching, cmd.op = "monitor", CheckLoadReply, pc' # "done"
  PROVE  Watching'
<1>1. Replied("load") /\ Rest /\ "load" \in Asking  BY DEF CheckLoadReply, Asking
<1>2. pc = "load" /\ pc # "done"  BY <1>1 DEF Replied
<1>3. Header = "SERVICERECORD"  BY DEF CheckLoadReply, Finish
<1>4. Len(wire) > 0 /\ Framed(wire) /\ req = "none"  BY <1>1, AtReply
<1>5. listening
  <2>1. Len(wire) \in Nat  BY <1>4, FieldOf DEF Framed
  <2>2. 1 \in 1..Len(wire)  BY SMTT(60), <1>4, <2>1
  <2> QED  BY <1>2, <1>3, <2>2 DEF Watching, Unsaid, Header
<1>6. left = 1 /\ ~cmd.two  BY <1>2 DEF Watching
<1>7. LoadRequest(left) = "load" /\ left # 2
  <2>1. left # 2  BY SMTT(60), <1>6
  <2> QED  BY <1>6, <2>1 DEF LoadRequest
<1>8. Take(4) /\ told' = About /\ AfterLoad /\ left' = left
  BY <1>3, <1>7 DEF CheckLoadReply
<1>9. pc' = "watch" /\ UNCHANGED <<cmd, result, req>>  BY <1>8 DEF AfterLoad, StartStop
<1>10. UNCHANGED <<sv, listening, closed>>  BY <1>1 DEF Rest, server
<1>11. PICK n : n = 4  OBVIOUS
<1>12. n = Size(wire[1].kind) /\ wire' = SubSeq(wire, n + 1, Len(wire))
  BY <1>3, <1>8, <1>11, SizeOf DEF Take, Header
<1>13. ASSUME sv.state \in Settled, ~closed
       PROVE  TellsLast(wire', sv.state) \/ (Silent(wire') /\ told' = sv.state)
  <2>1. Telling(wire[1]) /\ Tells(wire[1]) = About  BY <1>3 DEF Telling, Tells, Header, About
  <2>2. ~Silent(wire)
    <3>1. Len(wire) \in Nat  BY <1>4, FieldOf DEF Framed
    <3>2. 1 \in 1..Len(wire)  BY SMTT(60), <1>4, <3>1
    <3> QED  BY <2>1, <3>2 DEF Silent
  <2>3. TellsLast(wire, sv.state)  BY <1>2, <1>5, <1>13, <2>2 DEF Watching
  <2>4. PICK v : v = SubSeq(wire, n + 1, Len(wire))  OBVIOUS
  <2>5. TellsLast(v, sv.state) \/ (Silent(v) /\ Tells(wire[1]) = sv.state)
    <3>1. n = Size(wire[1].kind)  BY <1>12
    <3>2. v = SubSeq(wire, Size(wire[1].kind) + 1, Len(wire))  BY <2>4, <3>1
    <3>3. \A st \in Settled :
            TellsLast(wire, st) => \/ TellsLast(v, st)
                                   \/ Silent(v) /\ Telling(wire[1]) /\ Tells(wire[1]) = st
      BY <1>4, <3>2, LastRest
    <3> QED  BY <1>13, <2>3, <3>3
  <2> QED  BY <1>8, <1>12, <2>1, <2>4, <2>5
<1> QED  BY <1>4, <1>5, <1>6, <1>8, <1>9, <1>10, <1>13 DEF Watching

\* and each event what became of it.
LEMMA EventWatched ==
  ASSUME IInv, Watching, cmd.op = "monitor", Watch, pc' # "done"
  PROVE  Watching'
<1>1. pc = "watch" /\ pc # "done" /\ Arrived(2) /\ Rest /\ left' = left  BY DEF Watch
<1>2. /\ Header = "EVENT" /\ Take(Size("EVENT")) /\ told' = IssueCommand(About)
      /\ UNCHANGED <<cmd, pc, result, req>>
  BY DEF Watch, Finish
<1>3. Arrived(1)  BY SMTT(60), <1>1 DEF Arrived, IInv, CTypes, WireOK
<1>4. Len(wire) > 0 /\ Framed(wire) /\ Len(wire) \in Nat  BY <1>1, <1>3, AtHeader
<1>5. listening /\ left = 1 /\ ~cmd.two /\ req \in {"none", pc}  BY <1>1 DEF Watching
<1>6. UNCHANGED <<sv, listening, closed>>  BY <1>1 DEF Rest, server
<1>7. PICK n : n = Size("EVENT")  OBVIOUS
<1>8. n = Size(wire[1].kind) /\ wire' = SubSeq(wire, n + 1, Len(wire))
  BY <1>2, <1>7 DEF Take, Header
<1>9. ASSUME sv.state \in Settled, ~closed
      PROVE  TellsLast(wire', sv.state) \/ (Silent(wire') /\ told' = sv.state)
  <2>1. Telling(wire[1]) => told' = Tells(wire[1])
    BY <1>2 DEF Telling, Tells, IssueCommand, Header, About
  <2>2. ~Telling(wire[1]) => told' = told
    BY <1>2 DEF Telling, IssueCommand, Header, About
  <2>3. TellsLast(wire, sv.state) \/ (Silent(wire) /\ told = sv.state)
    BY <1>1, <1>5, <1>9 DEF Watching
  <2>4. PICK v : v = wire'  OBVIOUS
  <2>5. v = SubSeq(wire, Size(wire[1].kind) + 1, Len(wire))  BY <1>8, <2>4
  <2>6. /\ Silent(wire) => Silent(v)
        /\ \A st \in Settled :
             TellsLast(wire, st) => \/ TellsLast(v, st)
                                    \/ Silent(v) /\ Telling(wire[1]) /\ Tells(wire[1]) = st
    BY <1>4, <2>5, LastRest
  <2>7. CASE TellsLast(wire, sv.state)
    <3>1. TellsLast(v, sv.state) \/ (Silent(v) /\ Telling(wire[1]) /\ Tells(wire[1]) = sv.state)
      BY <1>9, <2>7, <2>6
    <3> QED  BY <2>1, <2>4, <3>1
  <2>8. CASE Silent(wire) /\ told = sv.state
    <3>1. Silent(v)  BY <2>8, <2>6
    <3>2. 1 \in 1..Len(wire)  BY SMTT(60), <1>4
    <3>3. ~Telling(wire[1])  BY <2>8, <3>2 DEF Silent
    <3> QED  BY <2>2, <2>4, <2>8, <3>1, <3>3
  <2> QED  BY <2>3, <2>7, <2>8
<1> QED  BY <1>1, <1>2, <1>5, <1>6, <1>9 DEF Watching

\* Every step keeps the monitor told.
LEMMA WatchingHolds ==
  ASSUME IInv, CommandLines, OneWatched, Watching, [Next]_vars
  PROVE  Watching'
<1>1. CASE Program
  <2>1. cmd' = cmd
    BY <1>1 DEF Program, Connect, fill_buffer_to, EndOfStream, DependentsCutShort, RecordCutShort,
      SkipInfo, CheckVersion, CheckLoadReply,
      FindReply, ListReply, StatusReply, DependencyReply, SetenvReply, CatLogReply, ShutdownReply,
      Closing, StartStopReply, NameReply, WaitEvent, LoadMechReply, DscDirReply, ReadDescription,
      EnableReply, MakeLink, EnableStatus, Watch, Ask, Finish, client, AfterLoad,
      UnpinReply, UnloadReply, ReloadReply, TriggerReply, SignalReply, AckReply
  <2>2. SUFFICES ASSUME cmd.op = "monitor", pc' # "done" PROVE Watching'
    BY <2>1 DEF Watching
  <2>3. /\ pc \in {"start", "version", "load", "watch"}
        /\ Connect \/ fill_buffer_to \/ CheckVersion \/ CheckLoadReply \/ Watch
    BY <1>1, <2>2, MonitorSteps
  <2>4. CASE Connect
    <3>1. cmd.online  BY <2>2, CommandOK DEF Switches
    <3>2. /\ pc = "start" /\ pc' = "version" /\ req' = "version"
          /\ UNCHANGED <<cmd, left, told, sv, listening, closed, wire>>
      BY <2>4, <3>1 DEF Connect, Ask, Plain, Rest, Keep, server
    <3> QED  BY <2>2, <3>2 DEF Watching
  <2>5. CASE fill_buffer_to  BY <2>5, WatchingKept DEF fill_buffer_to, client, server
  <2> QED  BY <2>2, <2>3, <2>4, <2>5, VersionWatched, LoadWatched, EventWatched
<1>2. CASE Serve  BY <1>2, ServeWatched
<1>3. CASE Settle \/ Meanwhile \/ Exit \/ Drop  BY <1>3, ServiceWatched
<1>4. CASE UNCHANGED vars  BY <1>4, WatchingKept DEF vars, client, server
<1> QED  BY <1>1, <1>2, <1>3, <1>4 DEF Next

-----------------------------------------------------------------------------
(* The theorems *)

\* Before it connects, nothing has been said.
LEMMA InvariantHoldsFirst == ASSUME Init PROVE IInv
<1>1. cmd \in Commands /\ pc = "start" /\ result = -1 /\ req = "none" /\ wire = <<>> /\ buf = 0
  BY DEF Init
<1>2. closed = FALSE /\ listening = FALSE /\ since = {} /\ link \in BOOLEAN /\ file \in BOOLEAN
  BY DEF Init
<1>3. sv \in [state : States, target : States, forced : BOOLEAN]
  <2>1. {"STOPPED", "STARTED", "STARTING", "STOPPING"} = States  BY DEF States
  <2> QED  BY <2>1 DEF Init
<1>4. wire \in Seq(Field) /\ Len(wire) = 0  BY SMTT(60), <1>1
<1>5. WireOK /\ Framed(wire) /\ OnlyEvents(wire) /\ NoEvents(wire)
  BY SMTT(60), <1>1, <1>4 DEF WireOK, Framed, OnlyEvents, NoEvents
<1>6. CTypes
  <2>1. since \subseteq States  BY <1>2
  <2> QED  BY <1>1, <1>2, <1>3, <1>5, <2>1 DEF CTypes
<1>7. PointOK  BY <1>1, <1>2 DEF PointOK, Resting
<1>8. Conversation  BY <1>1, <1>5 DEF Conversation, Asking, Acks
<1>9. Ended
  <2>1. result \in {-1, 0, 1} /\ result # 0  BY SMTT(60), <1>1
  <2> QED  BY <1>1, <2>1 DEF Ended
<1> QED  BY <1>5, <1>6, <1>7, <1>8, <1>9 DEF IInv

\* Every step keeps up the conversation.
LEMMA InvariantKept == ASSUME CommandLines, ~ShortRecords, IInv, [Next]_vars PROVE IInv'
<1>1. CASE Next
  <2>1. CASE Program  BY <2>1, ProgramStep
  <2>2. CASE Serve  BY <2>2, ServeStep
  <2>3. CASE Settle  BY <2>3, SettleStep
  <2>4. CASE Meanwhile  BY <2>4, MeanwhileStep
  <2>5. CASE Exit \/ Drop  BY <2>5, CloseStep DEF Exit, Drop
  <2> QED  BY <1>1, <2>1, <2>2, <2>3, <2>4, <2>5 DEF Next
<1>2. CASE UNCHANGED vars
  <2>1. UNCHANGED <<pc, cmd, result, req, wire, buf, since, sv, link, file, listening, closed>>
    BY <1>2 DEF vars, client, server
  <2>2. CTypes'  BY <2>1 DEF IInv, CTypes, WireOK
  <2>3. PointOK'  BY <2>1 DEF IInv, PointOK
  <2>4. Conversation'  BY <2>1, ConversationKept DEF IInv
  <2>5. Ended'
    <3>1. Promised => Promised'  BY <2>1 DEF Promised
    <3> QED  BY <2>1, <3>1 DEF IInv, Ended
  <2> QED  BY <2>1, <2>2, <2>3, <2>4, <2>5 DEF IInv
<1> QED  BY <1>1, <1>2

\* Whatever commands are given, however replies are split into reads (but for the last field of a
\* service record, which check_load_reply does not wait for) and whatever events come between them, dinitctl and dinit-monitor never take the middle of a packet for its
\* first byte (wait_for_reply, wait_for_info and the handlers of dinitctl.cc).
THEOREM ClientInStep == ASSUME CommandLines, ~ShortRecords PROVE Spec => []InStep
<1>1. Init => IInv  BY InvariantHoldsFirst
<1>2. IInv /\ [Next]_vars => IInv'  BY InvariantKept
<1>3. IInv => InStep  BY DEF IInv, Framed, InStep, Header, Reading
<1> QED  BY <1>1, <1>2, <1>3, PTL DEF Spec

\* Whatever commands are given and whatever others do to the service meanwhile, exit status 0
\* of dinitctl is the truth: what was waited for did happen after the command was handled, a
\* restarted service was down in between, an enabled one is linked in the daemon and on disk,
\* and a shutdown has closed the connection (start_stop_service, wait_service_state,
\* enable_disable_service, shutdown_dinit), provided that service records arrive whole.
THEOREM SuccessCorrect == ASSUME CommandLines, ~ShortRecords PROVE Spec => []SuccessIsTrue
<1>1. Init => IInv  BY InvariantHoldsFirst
<1>2. IInv /\ [Next]_vars => IInv'  BY InvariantKept
<1>3. IInv => SuccessIsTrue  BY DEF IInv, Ended, SuccessIsTrue
<1> QED  BY <1>1, <1>2, <1>3, PTL DEF Spec

\* Whatever happens to the service, and however its events are split into reads, what
\* dinit-monitor has reported of the one service it watches is the state the service settled
\* in, once all that was sent is read: no event is lost between the reply that tells the state
\* and the first event, and none is reported out of turn (dinit_monitor_main).
THEOREM MonitorCurrent ==
  ASSUME CommandLines, ~ShortRecords, OneWatched PROVE Spec => []ReportIsCurrent
<1>1. Init => IInv /\ Watching
  <2>1. SUFFICES ASSUME Init PROVE IInv /\ Watching  OBVIOUS
  <2>2. IInv  BY <2>1, InvariantHoldsFirst
  <2>3. /\ cmd \in Commands /\ pc = "start" /\ req = "none" /\ ~listening /\ Len(wire) = 0
        /\ left = IF cmd.two THEN 2 ELSE 1
    BY <2>1 DEF Init
  <2>4. Unsaid(wire)
    <3>1. \A i : i \notin 1..Len(wire)  BY SMTT(60), <2>3
    <3> QED  BY <3>1 DEF Unsaid
  <2>5. cmd.op = "monitor" => ~cmd.two  BY <2>3 DEF OneWatched
  <2> QED  BY <2>2, <2>3, <2>4, <2>5 DEF Watching
<1>2. IInv /\ Watching /\ [Next]_vars => IInv' /\ Watching'  BY InvariantKept, WatchingHolds
<1>3. IInv /\ Watching => ReportIsCurrent
  <2>1. SUFFICES ASSUME IInv, Watching, pc = "watch", wire = <<>>, ~closed, sv.state \in Settled
                 PROVE  told = sv.state
    BY DEF ReportIsCurrent, Settled
  <2>2. cmd.op = "monitor"  BY <2>1 DEF IInv, PointOK
  <2>3. \A i : i \notin 1..Len(wire)
    <3>1. Len(wire) = 0  BY <2>1
    <3> QED  BY SMTT(60), <3>1
  <2> QED  BY <2>1, <2>2, <2>3 DEF Watching, TellsLast
<1> QED  BY <1>1, <1>2, <1>3, PTL DEF Spec

=============================================================================

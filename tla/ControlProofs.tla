--------------------------- MODULE ControlProofs ---------------------------
(***************************************************************************)
(* Handles of control connections stay valid, for any number of services   *)
(* and connections and any sequence of requests in which no connection     *)
(* gets a second handle for a record it has one for.  unload_service and   *)
(* reload_service look only at how many listeners a record has; the        *)
(* invariant ties the listeners to the handles.                            *)
(***************************************************************************)
EXTENDS ControlConn, FiniteSetTheorems, WellFoundedInduction, TLAPS

\* The leaves are for Zenon, where they do not name another prover.
USE ZenonT(60)

\* No connection has two handles for one record.
OneHandleEach == \A c \in Conns : \A e, f \in conn[c].keys : e.ptr = f.ptr => e = f

HasKeys(k) == "keys" \in DOMAIN k
IsPointer(p) == p = [svc |-> p.svc, gen |-> p.gen]
CallbackOK == /\ "conn" \in DOMAIN cb /\ "at" \in DOMAIN cb
              /\ cb.at # "idle" => cb.conn \in Conns
SetOK == /\ DOMAIN listeners = Services /\ DOMAIN generation = Services /\ loaded \subseteq Services
         /\ \A s \in Services : IsFiniteSet(listeners[s])
\* The entries of a connection: both maps have them, the record is there, the connection is one
\* of its listeners, and no handle is given out twice.
KeysOK(c) ==
  \A e \in conn[c].keys :
    /\ e.h \in 0 .. MaxHandle /\ e.listed /\ IsPointer(e.ptr)
    /\ Live(e.ptr) /\ c \in listeners[e.ptr.svc]
    /\ \A f \in conn[c].keys : f.h = e.h => f = e
HInv == /\ DOMAIN conn = Conns /\ CallbackOK /\ SetOK
        /\ \A c \in Conns : HasKeys(conn[c]) /\ KeysOK(c)

-----------------------------------------------------------------------------
(* The operators leave the handles alone *)

\* rbuf.consume() takes a request out of the buffer and leaves the handles of the connection.
LEMMA ConsumedKeys ==
  ASSUME NEW k, HasKeys(k)
  PROVE  HasKeys(Consumed(k)) /\ Consumed(k).keys = k.keys
  BY SMTT(60) DEF Consumed, HasKeys

\* queue_packet leaves the handles of the connection, written or queued or out of memory.
LEMMA QueueKeys ==
  ASSUME NEW k, HasKeys(k), NEW p, NEW q \in queue_packet(k, p)
  PROVE  HasKeys(q.k) /\ q.k.keys = k.keys
<1>1. \A wr : HasKeys(Queued(k, p, wr)) /\ Queued(k, p, wr).keys = k.keys  BY SMTT(60) DEF Queued, HasKeys
<1>2. \A wr : HasKeys(NoMemory(k, wr)) /\ NoMemory(k, wr).keys = k.keys  BY SMTT(60) DEF NoMemory, HasKeys
<1>3. q.k = k \/ (\E wr : q.k = Queued(k, p, wr)) \/ (\E wr : q.k = NoMemory(k, wr))
  BY SMTT(60) DEF queue_packet
<1> QED  BY <1>1, <1>2, <1>3

\* send_data moves the output queue and leaves the handles of the connection.
LEMMA SentKeys ==
  ASSUME NEW k, HasKeys(k), NEW n
  PROVE  HasKeys(Sent(k, n)) /\ Sent(k, n).keys = k.keys
  BY SMTT(60) DEF Sent, HasKeys

\* Steps that leave the handles of all connections, and the records, as they are
LEMMA SameKeys ==
  ASSUME HInv, CallbackOK', UNCHANGED <<loaded, generation, listeners>>, DOMAIN conn' = Conns,
         \A c \in Conns : HasKeys(conn'[c]) /\ conn'[c].keys = conn[c].keys
  PROVE  HInv'
<1>1. \A p : Live(p)' = Live(p)  BY DEF Live
<1>2. SetOK'  BY DEF HInv, SetOK
<1>3. ASSUME NEW c \in Conns PROVE KeysOK(c)'
  <2>1. KeysOK(c)  BY DEF HInv
  <2> QED  BY <1>1, <2>1 DEF KeysOK
<1> QED  BY <1>2, <1>3 DEF HInv

\* A step that changes other fields of one connection than its handles keeps the invariant.
LEMMA Kept ==
  ASSUME HInv, CallbackOK', UNCHANGED <<loaded, generation, listeners>>,
         NEW a, NEW k, a \in Conns => HasKeys(k) /\ k.keys = conn[a].keys,
         conn' = [conn EXCEPT ![a] = k]
  PROVE  HInv'
<1>1. DOMAIN conn' = Conns /\ \A c \in Conns : HasKeys(conn'[c]) /\ conn'[c].keys = conn[c].keys
  BY DEF HInv
<1> QED  BY <1>1, SameKeys

\* A step that changes the handles of one connection
LEMMA Changed ==
  ASSUME HInv, CallbackOK', SetOK', NEW a \in Conns, NEW k, HasKeys(k), conn' = [conn EXCEPT ![a] = k],
         \A c \in Conns \ {a} : \A e \in conn[c].keys : Live(e.ptr)' /\ c \in listeners'[e.ptr.svc],
         \A e \in k.keys : /\ e.h \in 0 .. MaxHandle /\ e.listed /\ IsPointer(e.ptr)
                           /\ Live(e.ptr)' /\ a \in listeners'[e.ptr.svc]
                           /\ \A f \in k.keys : f.h = e.h => f = e
  PROVE  HInv'
<1>1. DOMAIN conn' = Conns /\ conn'[a] = k /\ \A c \in Conns \ {a} : conn'[c] = conn[c]  BY DEF HInv
<1>2. KeysOK(a)'  BY <1>1 DEF KeysOK
<1>3. ASSUME NEW c \in Conns \ {a} PROVE HasKeys(conn'[c]) /\ KeysOK(c)'
  <2>1. HasKeys(conn[c]) /\ KeysOK(c)  BY DEF HInv
  <2> QED  BY <1>1, <2>1 DEF KeysOK
<1> QED  BY <1>1, <1>2, <1>3 DEF HInv

-----------------------------------------------------------------------------
(* The requests that leave the handles as they are *)

\* A handler runs for a connection that is there.
LEMMA Running ==
  ASSUME HInv, cb.at # "idle"
  PROVE  /\ cb.conn \in Conns /\ HasKeys(Me) /\ KeysOK(cb.conn)
         /\ \A at, rs, l : cb' = [cb EXCEPT !.at = at, !.replies = rs, !.late = l] => CallbackOK'
         /\ \A at : cb' = [cb EXCEPT !.at = at] => CallbackOK'
<1>1. cb.conn \in Conns /\ HasKeys(Me) /\ KeysOK(cb.conn)  BY DEF HInv, CallbackOK, Me
<1>2. "conn" \in DOMAIN cb /\ "at" \in DOMAIN cb  BY DEF HInv, CallbackOK
<1>3. ASSUME NEW at, NEW rs, NEW l, cb' = [cb EXCEPT !.at = at, !.replies = rs, !.late = l] PROVE CallbackOK'
  BY SMTT(60), <1>1, <1>2, <1>3 DEF CallbackOK
<1>4. ASSUME NEW at, cb' = [cb EXCEPT !.at = at] PROVE CallbackOK'
  BY SMTT(60), <1>1, <1>2, <1>4 DEF CallbackOK
<1> QED  BY <1>1, <1>3, <1>4

\* A handler that answers with the handles as they were keeps the invariant.
LEMMA AnswerKept ==
  ASSUME HInv, InLoop, NEW k, k = Me \/ k = Consumed(Me), NEW rs, NEW l, Answer(k, rs, l), SetUnchanged
  PROVE  HInv'
<1>1. cb.at # "idle"  BY DEF InLoop
<1>2. cb.conn \in Conns /\ HasKeys(Me) /\ CallbackOK'  BY <1>1, Running DEF Answer
<1>3. HasKeys(k) /\ k.keys = Me.keys  BY <1>2, ConsumedKeys
<1>4. k.keys = conn[cb.conn].keys  BY <1>3 DEF Me
<1> QED  BY <1>2, <1>3, <1>4, Kept DEF Answer, SetUnchanged

\* The requests that neither give out nor drop a handle, and neither load nor delete a record,
\* keep the invariant.
LEMMA OtherRequests ==
  ASSUME HInv, \/ ProcessQueryVersion \/ ProcessStartStop \/ ProcessUnpin \/ ProcessShutdown
               \/ ProcessUnrecognised \/ ListServices \/ ProcessServiceStatus \/ ProcessQueryName
               \/ ProcessCatlog \/ ProcessSignal \/ ProcessQueryDscDir \/ QueryLoadMech
               \/ ProcessSetTrigger \/ ProcessSetEnv \/ AddServiceDep \/ RmServiceDep
  PROVE  HInv'
<1>1. InLoop /\ SetUnchanged
  BY DEF ProcessQueryVersion, ProcessStartStop, ProcessUnpin, ProcessShutdown, ProcessUnrecognised,
     ListServices, ProcessServiceStatus, ProcessQueryName, ProcessCatlog, ProcessSignal, Query,
     ProcessQueryDscDir, QueryLoadMech, ProcessSetTrigger, ProcessSetEnv, AddServiceDep,
     RmServiceDep, DepRequest, BadHandle, Handling
<1>2. \E k, rs, l : (k = Me \/ k = Consumed(Me)) /\ Answer(k, rs, l)
  BY DEF ProcessQueryVersion, ProcessStartStop, ProcessUnpin, ProcessShutdown, ProcessUnrecognised,
     ListServices, ProcessServiceStatus, ProcessQueryName, ProcessCatlog, ProcessSignal, Query,
     ProcessQueryDscDir, QueryLoadMech, ProcessSetTrigger, ProcessSetEnv, AddServiceDep,
     RmServiceDep, DepRequest, BadHandle, Refuse
<1> QED  BY <1>1, <1>2, AnswerKept

-----------------------------------------------------------------------------
(* The requests that give out handles *)

\* allocate_service_handle finds a handle that no entry of the connection has.
LEMMA FreeIsNew ==
  ASSUME MaxHandle \in Nat, NEW k, \A e \in k.keys : e.h \in 0 .. MaxHandle
  PROVE  FreeHandle(k) \in 0 .. MaxHandle + 1 /\ \A e \in k.keys : e.h # FreeHandle(k)
<1> DEFINE T == (0 .. MaxHandle + 1) \ {e.h : e \in k.keys}
<1>1. T \subseteq Nat /\ T # {}
  <2>1. MaxHandle + 1 \in 0 .. MaxHandle + 1 /\ MaxHandle + 1 \notin 0 .. MaxHandle  BY SMTT(60)
  <2>2. MaxHandle + 1 \in T  BY <2>1
  <2>3. T \subseteq Nat  BY SMTT(60)
  <2> QED  BY <2>2, <2>3
<1> HIDE DEF T
<1>2. PICK x \in T : \A y \in T : ~(<<y, x>> \in OpToRel(<, Nat))
  BY <1>1, NatLessThanWellFounded, WFMin
<1>3. ASSUME NEW y \in T PROVE x <= y
  <2>1. x \in Nat /\ y \in Nat  BY <1>1
  <2>2. y < x => <<y, x>> \in OpToRel(<, Nat)
    <3>1. <<y, x>> \in Nat \X Nat /\ <<y, x>>[1] = y /\ <<y, x>>[2] = x  BY <2>1
    <3> QED  BY <3>1 DEF OpToRel
  <2>3. ~(y < x)  BY <1>2, <2>2
  <2> QED  BY SMTT(60), <2>1, <2>3
<1>4. FreeHandle(k) \in T  BY <1>2, <1>3 DEF FreeHandle, Min, T
<1> QED  BY <1>4 DEF T

\* The record of a new handle is loaded, and the connection listens to it.
LEMMA Given ==
  ASSUME HInv, InLoop, MaxHandle \in Nat, NEW s \in Services, NEW p, p.svc = s, IsPointer(p),
         NEW k, HasKeys(k), k.keys = Me.keys \cup {[h |-> FreeHandle(Me), ptr |-> p, listed |-> TRUE]},
         FreeHandle(Me) <= MaxHandle, NEW rs, NEW l, Answer(k, rs, l),
         Live(p)', SetOK', cb.conn \in listeners'[s],
         \A c \in Conns : \A e \in conn[c].keys : Live(e.ptr)' /\ c \in listeners'[e.ptr.svc]
  PROVE  HInv'
<1>1. cb.at # "idle"  BY DEF InLoop
<1>2. cb.conn \in Conns /\ KeysOK(cb.conn) /\ CallbackOK'  BY <1>1, Running DEF Answer
<1>3. \A e \in Me.keys : /\ e.h \in 0 .. MaxHandle /\ e.listed /\ IsPointer(e.ptr)
                         /\ \A f \in Me.keys : f.h = e.h => f = e
  BY <1>2 DEF KeysOK, Me
<1>4. FreeHandle(Me) \in 0 .. MaxHandle + 1 /\ \A e \in Me.keys : e.h # FreeHandle(Me)  BY <1>3, FreeIsNew
<1>5. PICK e0 : e0 = [h |-> FreeHandle(Me), ptr |-> p, listed |-> TRUE]  OBVIOUS
<1>6. e0.h = FreeHandle(Me) /\ e0.ptr = p /\ e0.listed  BY <1>5
<1>7. e0.h \in 0 .. MaxHandle  BY SMTT(60), <1>4, <1>6
<1>8. k.keys = Me.keys \cup {e0}  BY <1>5
<1>9. \A e \in Me.keys : Live(e.ptr)' /\ cb.conn \in listeners'[e.ptr.svc]  BY <1>2 DEF Me
<1>10. Live(e0.ptr)' /\ cb.conn \in listeners'[e0.ptr.svc]
  <2>1. \A q : q = p => Live(q)'  BY DEF Live
  <2> QED  BY <1>6, <2>1
<1>11. ASSUME NEW e \in k.keys
       PROVE  /\ e.h \in 0 .. MaxHandle /\ e.listed /\ IsPointer(e.ptr)
              /\ Live(e.ptr)' /\ cb.conn \in listeners'[e.ptr.svc]
              /\ \A f \in k.keys : f.h = e.h => f = e
  <2>1. CASE e \in Me.keys
    <3>1. \A f \in k.keys : f.h = e.h => f = e  BY <1>3, <1>4, <1>6, <1>8, <2>1
    <3> QED  BY <1>3, <1>9, <2>1, <3>1
  <2>2. CASE e = e0
    <3>1. \A f \in k.keys : f.h = e.h => f = e  BY <1>4, <1>6, <1>8, <2>2
    <3> QED  BY <1>6, <1>7, <1>10, <2>2, <3>1
  <2> QED  BY <1>8, <2>1, <2>2
<1> QED  BY <1>2, <1>11, Changed DEF Answer

\* process_find_load gives out a new handle for a record that is there, and listens to it.
LEMMA FindLoadStep ==
  ASSUME HInv, MaxHandle \in Nat, ProcessFindLoad
  PROVE  HInv'
<1>1. InLoop /\ cb.at # "idle"  BY DEF ProcessFindLoad, Handling, InLoop
<1>2. cb.conn \in Conns /\ HasKeys(Me) /\ KeysOK(cb.conn)  BY <1>1, Running
<1>3. PICK s : s = Request.svc  OBVIOUS
<1>4. PICK k0 : k0 = Consumed(Me)  OBVIOUS
<1>5. HasKeys(k0) /\ k0.keys = Me.keys  BY <1>2, <1>4, ConsumedKeys
<1>6. FreeHandle(k0) = FreeHandle(Me)  BY <1>5 DEF FreeHandle
<1>7. SetOK  BY DEF HInv
<1>8. CASE SetUnchanged /\ \E rs, l : Answer(Me, rs, l) \/ Answer(Consumed(Me), rs, l)
  BY <1>1, <1>8, AnswerKept
<1>9. CASE /\ s \in loaded /\ FreeHandle(Me) <= MaxHandle
           /\ Answer(Allocated(Consumed(Me), Pointer(s)), <<Long>>, FALSE)
           /\ listeners' = [listeners EXCEPT ![s] = @ \cup {cb.conn}]
           /\ UNCHANGED <<loaded, generation>>
  <2>1. s \in Services  BY <1>7, <1>9 DEF SetOK
  <2>2. PICK p : p = Pointer(s)  OBVIOUS
  <2>3. p.svc = s /\ p.gen = generation[s] /\ IsPointer(p)  BY <2>2 DEF Pointer, IsPointer
  <2>4. PICK k : k = Allocated(k0, p)  OBVIOUS
  <2>5. /\ HasKeys(k)
        /\ k.keys = Me.keys \cup {[h |-> FreeHandle(Me), ptr |-> p, listed |-> TRUE]}
    BY <1>5, <1>6, <2>4 DEF Allocated, HasKeys
  <2>6. Answer(k, <<Long>>, FALSE)  BY <1>4, <1>9, <2>2, <2>4
  <2>7. Live(p)'  BY <1>9, <2>3 DEF Live
  <2>8. /\ DOMAIN listeners' = Services /\ listeners'[s] = listeners[s] \cup {cb.conn}
        /\ \A t \in Services \ {s} : listeners'[t] = listeners[t]
    BY <1>7, <1>9, <2>1 DEF SetOK
  <2>9. SetOK'
    <3>1. IsFiniteSet(listeners[s] \cup {cb.conn})  BY <1>7, <2>1, FS_AddElement DEF SetOK
    <3> QED  BY <1>7, <1>9, <2>8, <3>1 DEF SetOK
  <2>10. ASSUME NEW c \in Conns, NEW e \in conn[c].keys PROVE Live(e.ptr)' /\ c \in listeners'[e.ptr.svc]
    <3>1. Live(e.ptr) /\ c \in listeners[e.ptr.svc]  BY DEF HInv, KeysOK
    <3>2. Live(e.ptr)' /\ e.ptr.svc \in Services  BY <1>7, <1>9, <3>1 DEF Live, SetOK
    <3> QED  BY <2>8, <3>1, <3>2
  <2>11. cb.conn \in listeners'[s]  BY <2>8
  <2> QED  BY <1>1, <1>9, <2>1, <2>3, <2>5, <2>6, <2>7, <2>9, <2>10, <2>11, Given
<1>10. CASE /\ s \notin loaded /\ s \in Services /\ FreeHandle(Me) <= MaxHandle
            /\ loaded' = loaded \cup {s}
            /\ generation' = [generation EXCEPT ![s] = @ + 1]
            /\ listeners' = [listeners EXCEPT ![s] = {cb.conn}]
            /\ Answer([Consumed(Me) EXCEPT !.keys = @ \cup
                         {[h |-> FreeHandle(Me), listed |-> TRUE,
                           ptr |-> [svc |-> s, gen |-> generation[s] + 1]]}],
                      <<Long>>, FALSE)
  <2>2. PICK p : p = [svc |-> s, gen |-> generation[s] + 1]  OBVIOUS
  <2>3. p.svc = s /\ p.gen = generation[s] + 1 /\ IsPointer(p)  BY <2>2 DEF IsPointer
  <2>4. PICK k : k = [k0 EXCEPT !.keys = @ \cup {[h |-> FreeHandle(Me), listed |-> TRUE, ptr |-> p]}]
    OBVIOUS
  <2>5. /\ HasKeys(k)
        /\ k.keys = Me.keys \cup {[h |-> FreeHandle(Me), ptr |-> p, listed |-> TRUE]}
    <3>1. [h |-> FreeHandle(Me), listed |-> TRUE, ptr |-> p] = [h |-> FreeHandle(Me), ptr |-> p, listed |-> TRUE]
      BY SMTT(60)
    <3> QED  BY <1>5, <2>4, <3>1 DEF HasKeys
  <2>6. Answer(k, <<Long>>, FALSE)  BY <1>4, <1>10, <2>2, <2>4
  <2>8. /\ DOMAIN listeners' = Services /\ listeners'[s] = {cb.conn}
        /\ DOMAIN generation' = Services /\ generation'[s] = generation[s] + 1
        /\ \A t \in Services \ {s} : listeners'[t] = listeners[t] /\ generation'[t] = generation[t]
    BY <1>7, <1>10 DEF SetOK
  <2>7. Live(p)'  BY <1>10, <2>3, <2>8 DEF Live
  <2>9. SetOK'
    <3>1. IsFiniteSet({cb.conn})  BY FS_Singleton
    <3> QED  BY <1>7, <1>10, <2>8, <3>1 DEF SetOK
  <2>10. ASSUME NEW c \in Conns, NEW e \in conn[c].keys PROVE Live(e.ptr)' /\ c \in listeners'[e.ptr.svc]
    <3>1. Live(e.ptr) /\ c \in listeners[e.ptr.svc]  BY DEF HInv, KeysOK
    <3>2. e.ptr.svc \in Services \ {s}  BY <1>7, <1>10, <3>1 DEF Live, SetOK
    <3>3. Live(e.ptr)'  BY <1>10, <2>8, <3>1, <3>2 DEF Live
    <3> QED  BY <2>8, <3>1, <3>2, <3>3
  <2>11. cb.conn \in listeners'[s]  BY <2>8
  <2> QED  BY <1>1, <1>10, <2>3, <2>5, <2>6, <2>7, <2>9, <2>10, <2>11, Given
<1> QED  BY <1>3, <1>8, <1>9, <1>10 DEF ProcessFindLoad, Refuse

\* check_dependents gives out different new handles for the dependents, and listens to each.
LEMMA CheckDependentsStep ==
  ASSUME HInv, CheckDependents
  PROVE  HInv'
<1>1. InLoop /\ cb.at # "idle" /\ UNCHANGED <<loaded, generation>>
  BY DEF CheckDependents, Handling, InLoop
<1>2. cb.conn \in Conns /\ HasKeys(Me) /\ KeysOK(cb.conn)  BY <1>1, Running
<1>3. PICK depts, f :
        /\ depts \in SUBSET loaded /\ f \in NewHandles(Me, depts)
        /\ Answer([Me EXCEPT !.keys = @ \cup {[h |-> f[s], ptr |-> Pointer(s), listed |-> TRUE] : s \in depts}],
                  <<Long>>, TRUE)
        /\ listeners' = [s \in Services |-> IF s \in depts THEN listeners[s] \cup {cb.conn}
                                            ELSE listeners[s]]
  BY DEF CheckDependents
<1>4. SetOK /\ depts \subseteq Services /\ depts \subseteq loaded  BY <1>3 DEF HInv, SetOK
<1>5. /\ f \in [depts -> (0 .. MaxHandle) \ {e.h : e \in Me.keys}]
      /\ \A s, t \in depts : f[s] = f[t] => s = t
  BY <1>3 DEF NewHandles, Injection, IsInjective
<1>6. PICK new : new = {[h |-> f[s], ptr |-> Pointer(s), listed |-> TRUE] : s \in depts}  OBVIOUS
<1>7. PICK k : k = [Me EXCEPT !.keys = @ \cup new]  OBVIOUS
<1>8. HasKeys(k) /\ k.keys = Me.keys \cup new  BY <1>2, <1>7 DEF HasKeys
<1>9. Answer(k, <<Long>>, TRUE)  BY <1>3, <1>6, <1>7
<1>10. CallbackOK'  BY <1>1, <1>9, Running DEF Answer
<1>11. /\ DOMAIN listeners' = Services
       /\ \A s \in Services : \/ listeners'[s] = listeners[s] \cup {cb.conn}
                              \/ s \notin depts /\ listeners'[s] = listeners[s]
  BY <1>3
<1>12. SetOK'
  <2>1. ASSUME NEW s \in Services PROVE IsFiniteSet(listeners'[s])
    <3>1. IsFiniteSet(listeners[s])  BY <1>4 DEF SetOK
    <3>2. IsFiniteSet(listeners[s] \cup {cb.conn})  BY <3>1, FS_AddElement
    <3> QED  BY <1>11, <3>1, <3>2
  <2> QED  BY <1>1, <1>4, <1>11, <2>1 DEF SetOK
<1>13. ASSUME NEW c \in Conns, NEW e \in conn[c].keys PROVE Live(e.ptr)' /\ c \in listeners'[e.ptr.svc]
  <2>1. Live(e.ptr) /\ c \in listeners[e.ptr.svc]  BY DEF HInv, KeysOK
  <2>2. Live(e.ptr)' /\ e.ptr.svc \in Services  BY <1>1, <1>4, <2>1 DEF Live, SetOK
  <2> QED  BY <1>11, <2>1, <2>2
<1>14. ASSUME NEW e \in new
       PROVE  /\ e.h \in 0 .. MaxHandle /\ e.listed /\ IsPointer(e.ptr)
              /\ Live(e.ptr)' /\ cb.conn \in listeners'[e.ptr.svc]
              /\ \A g \in Me.keys \cup new : g.h = e.h => g = e
  <2>1. PICK s \in depts : e = [h |-> f[s], ptr |-> Pointer(s), listed |-> TRUE]  BY <1>6
  <2>2. e.h = f[s] /\ e.ptr = Pointer(s) /\ e.listed  BY <2>1
  <2>3. e.ptr.svc = s /\ e.ptr.gen = generation[s] /\ IsPointer(e.ptr)
    <3>1. PICK p : p = Pointer(s)  OBVIOUS
    <3>2. p.svc = s /\ p.gen = generation[s] /\ IsPointer(p)  BY <3>1 DEF Pointer, IsPointer
    <3> QED  BY <2>2, <3>1, <3>2
  <2>4. Live(e.ptr)'  BY <1>1, <1>4, <2>3 DEF Live
  <2>5. cb.conn \in listeners'[e.ptr.svc]  BY <1>4, <1>11, <2>3
  <2>6. e.h \in 0 .. MaxHandle /\ \A g \in Me.keys : g.h # e.h  BY <1>5, <2>2
  <2>7. ASSUME NEW g \in new, g.h = e.h PROVE g = e
    <3>1. PICK t \in depts : g = [h |-> f[t], ptr |-> Pointer(t), listed |-> TRUE]  BY <1>6
    <3>2. g.h = f[t]  BY <3>1
    <3> QED  BY <1>5, <2>1, <2>2, <2>7, <3>1, <3>2
  <2> QED  BY <2>2, <2>3, <2>4, <2>5, <2>6, <2>7
<1>15. ASSUME NEW e \in Me.keys
       PROVE  /\ e.h \in 0 .. MaxHandle /\ e.listed /\ IsPointer(e.ptr)
              /\ Live(e.ptr)' /\ cb.conn \in listeners'[e.ptr.svc]
              /\ \A g \in Me.keys \cup new : g.h = e.h => g = e
  <2>1. /\ e.h \in 0 .. MaxHandle /\ e.listed /\ IsPointer(e.ptr)
        /\ \A g \in Me.keys : g.h = e.h => g = e
    BY <1>2 DEF KeysOK, Me
  <2>2. Live(e.ptr)' /\ cb.conn \in listeners'[e.ptr.svc]  BY <1>2, <1>13 DEF Me
  <2> QED  BY <1>14, <2>1, <2>2
<1>16. \A e \in k.keys : /\ e.h \in 0 .. MaxHandle /\ e.listed /\ IsPointer(e.ptr)
                         /\ Live(e.ptr)' /\ cb.conn \in listeners'[e.ptr.svc]
                         /\ \A g \in k.keys : g.h = e.h => g = e
  BY <1>8, <1>14, <1>15
<1> QED  BY <1>2, <1>8, <1>9, <1>10, <1>12, <1>13, <1>16, Changed DEF Answer

-----------------------------------------------------------------------------
(* Closing handles, unloading and reloading *)

\* The handle that is closed may be one of several; the listener goes with the last of them.
LEMMA CloseHandleStep ==
  ASSUME HInv, MaxHandle \in Nat, ProcessCloseHandle
  PROVE  HInv'
<1>1. InLoop /\ cb.at # "idle" /\ UNCHANGED <<loaded, generation>>
  BY DEF ProcessCloseHandle, Handling, InLoop
<1>2. cb.conn \in Conns /\ HasKeys(Me) /\ KeysOK(cb.conn) /\ SetOK  BY <1>1, Running DEF HInv
<1>3. CASE Answer(Consumed(Me), <<BadReq>>, FALSE) /\ UNCHANGED listeners
  BY <1>1, <1>3, AnswerKept DEF SetUnchanged
<1>4. ASSUME NEW p \in find_service_for_key(Me, Request.h),
             Answer([Consumed(Me) EXCEPT !.keys = {e \in @ : e.h # Request.h}], <<Short>>, FALSE),
             listeners' = IF LastHandle(Me, p) /\ Live(p)
                          THEN [listeners EXCEPT ![p.svc] = @ \ {cb.conn}] ELSE listeners
      PROVE  HInv'
  <2>1. PICK h : h = Request.h  OBVIOUS
  <2>2. PICK k0 : k0 = Consumed(Me)  OBVIOUS
  <2>3. HasKeys(k0) /\ k0.keys = Me.keys  BY <1>2, <2>2, ConsumedKeys
  <2>4. PICK k : k = [k0 EXCEPT !.keys = {e \in @ : e.h # h}]  OBVIOUS
  <2>5. HasKeys(k) /\ k.keys = {e \in Me.keys : e.h # h}  BY <2>3, <2>4 DEF HasKeys
  <2>6. Answer(k, <<Short>>, FALSE)  BY <1>4, <2>1, <2>2, <2>4
  <2>7. CallbackOK'  BY <1>1, <2>6, Running DEF Answer
  <2>8. PICK e0 \in Me.keys : e0.h = h /\ e0.ptr = p
    <3>1. p \in find_service_for_key(Me, h)  BY <1>4, <2>1
    <3> QED  BY <3>1 DEF find_service_for_key
  <2>9. /\ p.svc \in Services /\ IsPointer(p) /\ Live(p)
    BY <1>2, <2>8 DEF KeysOK, Me, Live, SetOK
  <2>10. /\ DOMAIN listeners' = Services
         /\ \A s \in Services : \/ listeners'[s] = listeners[s]
                                \/ LastHandle(Me, p) /\ s = p.svc /\ listeners'[s] = listeners[s] \ {cb.conn}
    BY <1>2, <1>4, <2>9 DEF SetOK
  <2>11. SetOK'
    <3>1. ASSUME NEW s \in Services PROVE IsFiniteSet(listeners'[s])
      <4>1. IsFiniteSet(listeners[s])  BY <1>2 DEF SetOK
      <4>2. IsFiniteSet(listeners[s] \ {cb.conn})  BY <4>1, FS_RemoveElement
      <4> QED  BY <2>10, <4>1, <4>2
    <3> QED  BY <1>1, <1>2, <2>10, <3>1 DEF SetOK
  <2>12. ASSUME NEW c \in Conns, NEW e \in conn[c].keys
         PROVE  /\ Live(e.ptr)' /\ Live(e.ptr) /\ e.ptr.svc \in Services
                /\ c # cb.conn => c \in listeners'[e.ptr.svc]
    <3>1. Live(e.ptr) /\ c \in listeners[e.ptr.svc]  BY DEF HInv, KeysOK
    <3>2. Live(e.ptr)' /\ e.ptr.svc \in Services  BY <1>1, <1>2, <3>1 DEF Live, SetOK
    <3> QED  BY <2>10, <3>1, <3>2
  <2>13. LastHandle(Me, p) => \A e \in Me.keys : e.ptr = p => e.h = h
    <3>1. SUFFICES ASSUME LastHandle(Me, p), NEW e \in Me.keys, e.ptr = p PROVE e.h = h  OBVIOUS
    <3>2. PICK H : H = HandlesFor(Me, p)  OBVIOUS
    <3>3. e.h \in H /\ h \in H
      <4>1. e.listed /\ e0.listed  BY <1>2, <2>8 DEF KeysOK, Me
      <4> QED  BY <2>8, <3>1, <3>2, <4>1 DEF HandlesFor
    <3>4. H \subseteq 0 .. MaxHandle  BY <1>2, <3>2 DEF HandlesFor, KeysOK, Me
    <3>5. IsFiniteSet(H)
      <4>1. 0 \in Int /\ MaxHandle \in Int  BY SMTT(60)
      <4>2. IsFiniteSet(0 .. MaxHandle)  BY <4>1, FS_Interval
      <4> QED  BY <3>4, <4>2, FS_Subset
    <3>6. PICK x : H = {x}  BY <3>1, <3>2, <3>5, FS_Singleton DEF LastHandle
    <3> QED  BY <3>3, <3>6
  <2>14. ASSUME NEW e \in k.keys
         PROVE  /\ e.h \in 0 .. MaxHandle /\ e.listed /\ IsPointer(e.ptr)
                /\ Live(e.ptr)' /\ cb.conn \in listeners'[e.ptr.svc]
                /\ \A g \in k.keys : g.h = e.h => g = e
    <3>1. e \in Me.keys /\ e.h # h  BY <2>5
    <3>2. /\ e.h \in 0 .. MaxHandle /\ e.listed /\ IsPointer(e.ptr) /\ cb.conn \in listeners[e.ptr.svc]
          /\ \A g \in Me.keys : g.h = e.h => g = e
      BY <1>2, <3>1 DEF KeysOK, Me
    <3>3. Live(e.ptr)' /\ Live(e.ptr) /\ e.ptr.svc \in Services  BY <1>2, <2>12, <3>1 DEF Me
    <3>4. cb.conn \in listeners'[e.ptr.svc]
      <4>1. CASE LastHandle(Me, p) /\ e.ptr.svc = p.svc
        <5>1. e.ptr = p  BY <2>9, <3>2, <3>3, <4>1 DEF IsPointer, Live
        <5> QED  BY <2>13, <3>1, <4>1, <5>1
      <4> QED  BY <2>10, <3>2, <3>3, <4>1
    <3> QED  BY <2>5, <3>2, <3>3, <3>4
  <2> QED  BY <1>2, <2>5, <2>6, <2>7, <2>11, <2>12, <2>14, Changed DEF Answer
<1> QED  BY <1>3, <1>4 DEF ProcessCloseHandle

\* A record with one listener is unloaded or replaced, and its one handle goes with it.
LEMMA Gone ==
  ASSUME HInv, OneHandleEach, InLoop, NEW h, NEW p \in find_service_for_key(Me, h), has_lone_ref(p),
         NEW rs, NEW l, Answer(DropHandle(Me, p, h), rs, l), SetOK',
         \A s \in Services \ {p.svc} : /\ listeners'[s] = listeners[s] /\ generation'[s] = generation[s]
                                       /\ s \in loaded => s \in loaded'
  PROVE  HInv'
<1>1. cb.at # "idle"  BY DEF InLoop
<1>2. cb.conn \in Conns /\ HasKeys(Me) /\ KeysOK(cb.conn) /\ SetOK  BY <1>1, Running DEF HInv
<1>3. PICK e0 \in Me.keys : e0.h = h /\ e0.ptr = p  BY DEF find_service_for_key
<1>4. p.svc \in Services /\ IsPointer(p) /\ Live(p) /\ cb.conn \in listeners[p.svc]
  BY <1>2, <1>3 DEF KeysOK, Me, Live, SetOK
<1>5. listeners[p.svc] = {cb.conn}
  <2>1. IsFiniteSet(listeners[p.svc])  BY <1>2, <1>4 DEF SetOK
  <2>2. PICK x : listeners[p.svc] = {x}  BY <2>1, FS_Singleton DEF has_lone_ref
  <2> QED  BY <1>4, <2>2
<1>6. ASSUME NEW c \in Conns, NEW e \in conn[c].keys
      PROVE  /\ Live(e.ptr) /\ c \in listeners[e.ptr.svc] /\ e.ptr.svc \in Services
             /\ e.ptr.svc = p.svc => c = cb.conn /\ e.h = h /\ e.ptr = p
  <2>1. Live(e.ptr) /\ IsPointer(e.ptr) /\ c \in listeners[e.ptr.svc]  BY DEF HInv, KeysOK
  <2>2. e.ptr.svc \in Services  BY <1>2, <2>1 DEF Live, SetOK
  <2>3. ASSUME e.ptr.svc = p.svc PROVE c = cb.conn /\ e.h = h /\ e.ptr = p
    <3>1. c = cb.conn  BY <1>5, <2>1, <2>3
    <3>2. e.ptr = p  BY <1>4, <2>1, <2>3 DEF IsPointer, Live
    <3>3. e = e0  BY <1>2, <1>3, <3>1, <3>2 DEF OneHandleEach, Me
    <3> QED  BY <1>3, <3>1, <3>2, <3>3
  <2> QED  BY <2>1, <2>2, <2>3
<1>7. ASSUME NEW c \in Conns, NEW e \in conn[c].keys, e.ptr.svc # p.svc
      PROVE  Live(e.ptr)' /\ c \in listeners'[e.ptr.svc]
  BY <1>6, <1>7 DEF Live
<1>8. PICK k : k = DropHandle(Me, p, h)  OBVIOUS
<1>9. HasKeys(k) /\ k.keys = {e \in Me.keys : e.h # h}
  <2>1. /\ HasKeys(k)
        /\ k.keys = {IF e.ptr = p THEN [e EXCEPT !.listed = FALSE] ELSE e : e \in {x \in Me.keys : x.h # h}}
    BY <1>2, <1>8 DEF DropHandle, HasKeys
  <2>2. \A e \in {x \in Me.keys : x.h # h} : e.ptr # p  BY <1>2, <1>6 DEF Me
  <2> QED  BY <2>1, <2>2
<1>10. Answer(k, rs, l)  BY <1>8
<1>11. CallbackOK'
  <2>1. cb' = [cb EXCEPT !.at = "reply", !.replies = rs, !.late = l]  BY <1>10 DEF Answer
  <2> QED  BY <1>1, <2>1, Running
<1>12. ASSUME NEW e \in k.keys
       PROVE  /\ e.h \in 0 .. MaxHandle /\ e.listed /\ IsPointer(e.ptr)
              /\ Live(e.ptr)' /\ cb.conn \in listeners'[e.ptr.svc]
              /\ \A g \in k.keys : g.h = e.h => g = e
  <2>1. e \in Me.keys /\ e.h # h  BY <1>9
  <2>2. e.ptr.svc # p.svc  BY <1>2, <1>6, <2>1 DEF Me
  <2>3. Live(e.ptr)' /\ cb.conn \in listeners'[e.ptr.svc]  BY <1>2, <1>7, <2>1, <2>2 DEF Me
  <2>4. /\ e.h \in 0 .. MaxHandle /\ e.listed /\ IsPointer(e.ptr)
        /\ \A g \in Me.keys : g.h = e.h => g = e
    BY <1>2, <2>1 DEF KeysOK, Me
  <2> QED  BY <1>9, <2>3, <2>4
<1>13. \A c \in Conns \ {cb.conn} : \A e \in conn[c].keys : Live(e.ptr)' /\ c \in listeners'[e.ptr.svc]
  BY <1>6, <1>7
<1> QED  BY <1>2, <1>9, <1>10, <1>11, <1>12, <1>13, Changed DEF Answer

\* process_unload_service deletes a record only when no other connection listens to it.
LEMMA UnloadStep ==
  ASSUME HInv, OneHandleEach, ProcessUnload
  PROVE  HInv'
<1>1. InLoop  BY DEF ProcessUnload, BadHandle, Handling
<1>2. SetOK  BY DEF HInv
<1>3. CASE SetUnchanged /\ \E rs, l : Answer(Me, rs, l)  BY <1>1, <1>3, AnswerKept
<1>4. ASSUME NEW p \in find_service_for_key(Me, Request.h), has_lone_ref(p), Live(p),
             loaded' = loaded \ {p.svc}, listeners' = [listeners EXCEPT ![p.svc] = {}],
             Answer(DropHandle(Me, p, Request.h), <<Short>>, TRUE), UNCHANGED generation
      PROVE  HInv'
  <2>1. /\ DOMAIN listeners' = Services
        /\ \A s \in Services : listeners'[s] = {} \/ listeners'[s] = listeners[s]
        /\ \A s \in Services \ {p.svc} : listeners'[s] = listeners[s]
    BY <1>2, <1>4 DEF SetOK
  <2>2. SetOK'  BY <1>2, <1>4, <2>1, FS_EmptySet DEF SetOK
  <2>3. PICK h : h = Request.h  OBVIOUS
  <2>4. p \in find_service_for_key(Me, h) /\ Answer(DropHandle(Me, p, h), <<Short>>, TRUE)  BY <1>4, <2>3
  <2>5. \A s \in Services \ {p.svc} : /\ listeners'[s] = listeners[s] /\ generation'[s] = generation[s]
                                      /\ s \in loaded => s \in loaded'
    BY <1>4, <2>1
  <2> QED  BY <1>1, <1>4, <2>2, <2>4, <2>5, Gone
<1> QED  BY <1>3, <1>4 DEF ProcessUnload, BadHandle, Refuse, SetUnchanged

\* process_reload_service replaces a record only when no other connection listens to it.
LEMMA ReloadStep ==
  ASSUME HInv, OneHandleEach, ProcessReload
  PROVE  HInv'
<1>1. InLoop  BY DEF ProcessReload, BadHandle, Handling
<1>2. SetOK  BY DEF HInv
<1>3. CASE SetUnchanged /\ \E rs, l : Answer(Me, rs, l)  BY <1>1, <1>3, AnswerKept
<1>4. ASSUME NEW p \in find_service_for_key(Me, Request.h), has_lone_ref(p), UNCHANGED loaded,
             Answer(DropHandle(Me, p, Request.h), <<Short>>, TRUE),
             listeners' = [listeners EXCEPT ![p.svc] = @ \ {cb.conn}],
             generation' = generation \/ generation' = [generation EXCEPT ![p.svc] = @ + 1]
      PROVE  HInv'
  <2>1. /\ DOMAIN listeners' = Services /\ DOMAIN generation' = Services
        /\ \A s \in Services : listeners'[s] = listeners[s] \ {cb.conn} \/ listeners'[s] = listeners[s]
        /\ \A s \in Services \ {p.svc} : listeners'[s] = listeners[s] /\ generation'[s] = generation[s]
    BY <1>2, <1>4 DEF SetOK
  <2>2. SetOK'
    <3>1. ASSUME NEW s \in Services PROVE IsFiniteSet(listeners'[s])
      <4>1. IsFiniteSet(listeners[s])  BY <1>2 DEF SetOK
      <4>2. IsFiniteSet(listeners[s] \ {cb.conn})  BY <4>1, FS_RemoveElement
      <4> QED  BY <2>1, <4>1, <4>2
    <3> QED  BY <1>2, <1>4, <2>1, <3>1 DEF SetOK
  <2>3. PICK h : h = Request.h  OBVIOUS
  <2>4. p \in find_service_for_key(Me, h) /\ Answer(DropHandle(Me, p, h), <<Short>>, TRUE)  BY <1>4, <2>3
  <2>5. \A s \in Services \ {p.svc} : /\ listeners'[s] = listeners[s] /\ generation'[s] = generation[s]
                                      /\ s \in loaded => s \in loaded'
    BY <1>4, <2>1
  <2> QED  BY <1>1, <1>4, <2>2, <2>4, <2>5, Gone
<1> QED  BY <1>3, <1>4 DEF ProcessReload, BadHandle, Refuse, SetUnchanged

-----------------------------------------------------------------------------
(* The rest of the callbacks *)

\* The destructor leaves the other listeners.
LEMMA DeleteStep ==
  ASSUME HInv, NEW a \in Conns, Delete(a)
  PROVE  HInv'
<1>1. /\ conn' = [conn EXCEPT ![a] = Closed] /\ cb' = Idle /\ UNCHANGED <<loaded, generation>>
      /\ listeners' = [s \in Services |-> IF \E h \in HandlesFor(conn[a], Pointer(s)) : TRUE
                                          THEN listeners[s] \ {a} ELSE listeners[s]]
  BY DEF Delete
<1>2. CallbackOK'  BY <1>1 DEF CallbackOK, Idle
<1>3. HasKeys(Closed) /\ Closed.keys = {}  BY SMTT(60) DEF Closed, NewConn, HasKeys
<1>4. /\ DOMAIN listeners' = Services
      /\ \A s \in Services : listeners'[s] = listeners[s] \ {a} \/ listeners'[s] = listeners[s]
  BY <1>1
<1>5. SetOK /\ SetOK'
  <2>1. SetOK  BY DEF HInv
  <2>2. ASSUME NEW s \in Services PROVE IsFiniteSet(listeners'[s])
    <3>1. IsFiniteSet(listeners[s])  BY <2>1 DEF SetOK
    <3>2. IsFiniteSet(listeners[s] \ {a})  BY <3>1, FS_RemoveElement
    <3> QED  BY <1>4, <3>1, <3>2
  <2> QED  BY <1>1, <1>4, <2>1, <2>2 DEF SetOK
<1>6. ASSUME NEW c \in Conns \ {a}, NEW e \in conn[c].keys PROVE Live(e.ptr)' /\ c \in listeners'[e.ptr.svc]
  <2>1. Live(e.ptr) /\ c \in listeners[e.ptr.svc]  BY DEF HInv, KeysOK
  <2>2. Live(e.ptr)' /\ e.ptr.svc \in Services  BY <1>1, <1>5, <2>1 DEF Live, SetOK
  <2> QED  BY <1>4, <2>1, <2>2
<1> QED  BY <1>1, <1>2, <1>3, <1>5, <1>6, Changed

\* A connection that was just accepted has no handles.
LEMMA AcceptStep ==
  ASSUME HInv, NEW a \in Conns, Accept(a)
  PROVE  HInv'
<1>1. conn' = [conn EXCEPT ![a] = NewConn] /\ UNCHANGED <<cb, loaded, generation, listeners>>
  BY DEF Accept, SetUnchanged
<1>2. HasKeys(NewConn) /\ NewConn.keys = {}  BY SMTT(60) DEF NewConn, HasKeys
<1>3. CallbackOK' /\ SetOK'  BY <1>1 DEF HInv, CallbackOK, SetOK
<1>4. ASSUME NEW c \in Conns \ {a}, NEW e \in conn[c].keys PROVE Live(e.ptr)' /\ c \in listeners'[e.ptr.svc]
  BY <1>1 DEF HInv, KeysOK, Live
<1> QED  BY <1>1, <1>2, <1>3, <1>4, Changed

\* Steps that change other fields of one connection
LEMMA Elsewhere ==
  ASSUME HInv, \/ Incomplete \/ Reply \/ ServiceEvent \/ ProcessThrows \/ LoopEnd \/ SetWatches
               \/ \E c \in Conns : DataReady(c) \/ ClientSend(c) \/ ClientHangup(c)
  PROVE  HInv'
<1>1. SetUnchanged /\ UNCHANGED <<loaded, generation, listeners>>
  BY DEF Incomplete, Reply, ServiceEvent, ProcessThrows, LoopEnd, SetWatches, DataReady, ClientSend,
     ClientHangup, SetUnchanged
<1>2. \A a \in Conns : HasKeys(conn[a])  BY DEF HInv
<1>3. CallbackOK  BY DEF HInv
<1>4. CASE Incomplete
  <2>1. cb' = cb /\ \E k : /\ conn' = [conn EXCEPT ![cb.conn] = k]
                           /\ k = [conn[cb.conn] EXCEPT !.chklen = Needed(Me, Request)]
    BY <1>4 DEF Incomplete
  <2>2. PICK k : /\ conn' = [conn EXCEPT ![cb.conn] = k]
                 /\ k = [conn[cb.conn] EXCEPT !.chklen = Needed(Me, Request)]
    BY <2>1
  <2>3. cb.conn \in Conns => HasKeys(k) /\ k.keys = conn[cb.conn].keys
    BY SMTT(60), <1>2, <2>2 DEF HasKeys
  <2>4. CallbackOK'  BY <1>3, <2>1 DEF CallbackOK
  <2> QED  BY <1>1, <2>2, <2>3, <2>4, Kept
<1>5. CASE Reply
  <2>1. PICK q \in queue_packet(Me, Head(cb.replies)) :
          LET k == [q.k EXCEPT !.bad = @ \/ (q.ok /\ Head(cb.replies).bad)]
              last == Len(cb.replies) = 1
              done == IF q.ok /\ last /\ cb.late THEN Consumed(k) ELSE k
          IN conn' = [conn EXCEPT ![cb.conn] =
                        [done EXCEPT !.chklen = IF q.ok /\ last THEN Max({@, 1}) ELSE @]]
    BY <1>5 DEF Reply
  <2>2. cb.at # "idle"  BY <1>5 DEF Reply
  <2>3. cb.conn \in Conns /\ HasKeys(Me)  BY <2>2, Running
  <2>4. HasKeys(q.k) /\ q.k.keys = Me.keys  BY <2>3, QueueKeys
  <2>5. PICK k : k = [q.k EXCEPT !.bad = @ \/ (q.ok /\ Head(cb.replies).bad)]  OBVIOUS
  <2>6. HasKeys(k) /\ k.keys = Me.keys  BY SMTT(60), <2>4, <2>5 DEF HasKeys
  <2>7. PICK d : d = IF q.ok /\ Len(cb.replies) = 1 /\ cb.late THEN Consumed(k) ELSE k  OBVIOUS
  <2>8. HasKeys(d) /\ d.keys = Me.keys  BY <2>6, <2>7, ConsumedKeys
  <2>9. PICK j : j = [d EXCEPT !.chklen = IF q.ok /\ Len(cb.replies) = 1 THEN Max({@, 1}) ELSE @]  OBVIOUS
  <2>10. HasKeys(j) /\ j.keys = Me.keys  BY SMTT(60), <2>8, <2>9 DEF HasKeys
  <2>11. conn' = [conn EXCEPT ![cb.conn] = j]  BY <2>1, <2>5, <2>7, <2>9
  <2>12. CallbackOK'
    <3>1. \E rs, at : cb' = [cb EXCEPT !.replies = rs, !.at = at]  BY <1>5 DEF Reply
    <3>2. PICK rs, at : cb' = [cb EXCEPT !.replies = rs, !.at = at]  BY <3>1
    <3> QED  BY SMTT(60), <1>3, <2>3, <3>2 DEF CallbackOK
  <2>13. j.keys = conn[cb.conn].keys  BY <2>10 DEF Me
  <2> QED  BY <1>1, <2>10, <2>11, <2>12, <2>13, Kept
<1>6. CASE ServiceEvent
  <2>1. PICK n, q : /\ q \in queue_packet(conn[n[1]], Long)
                    /\ conn' = [conn EXCEPT ![n[1]] = q.k] /\ cb' = cb
    BY <1>6 DEF ServiceEvent
  <2>2. PICK a : a = n[1]  OBVIOUS
  <2>3. a \in Conns => HasKeys(q.k) /\ q.k.keys = conn[a].keys  BY <1>2, <2>1, <2>2, QueueKeys
  <2>4. CallbackOK'  BY <1>3, <2>1 DEF CallbackOK
  <2> QED  BY <1>1, <2>1, <2>2, <2>3, <2>4, Kept
<1>7. CASE ProcessThrows \/ LoopEnd
  <2>1. cb.at # "idle" /\ cb' = [cb EXCEPT !.at = "send"]  BY <1>7 DEF ProcessThrows, LoopEnd, InLoop
  <2>2. CallbackOK'  BY <2>1, Running
  <2>3. DOMAIN conn = Conns  BY DEF HInv
  <2>4. CASE ProcessThrows
    <3>1. conn' = [conn EXCEPT ![cb.conn].bad = TRUE, ![cb.conn].oom = TRUE]  BY <2>4 DEF ProcessThrows
    <3>2. DOMAIN conn' = Conns /\ \A a \in Conns : HasKeys(conn'[a]) /\ conn'[a].keys = conn[a].keys
      BY SMTT(60), <1>2, <2>3, <3>1 DEF HasKeys
    <3> QED  BY <1>1, <2>2, <3>2, SameKeys
  <2>5. CASE LoopEnd
    <3>1. conn' = [conn EXCEPT ![cb.conn].bad = @ \/ Me.avail = RbufSize]  BY <2>5 DEF LoopEnd
    <3>2. DOMAIN conn' = Conns /\ \A a \in Conns : HasKeys(conn'[a]) /\ conn'[a].keys = conn[a].keys
      BY SMTT(60), <1>2, <2>3, <3>1 DEF HasKeys
    <3> QED  BY <1>1, <2>2, <3>2, SameKeys
  <2> QED  BY <1>7, <2>4, <2>5
<1>8. CASE SetWatches
  <2>1. conn' = [conn EXCEPT ![cb.conn].watch = WatchFlags(Me)] /\ cb' = Idle  BY <1>8 DEF SetWatches
  <2>2. CallbackOK'  BY <2>1 DEF CallbackOK, Idle
  <2>3. DOMAIN conn = Conns  BY DEF HInv
  <2>4. DOMAIN conn' = Conns /\ \A a \in Conns : HasKeys(conn'[a]) /\ conn'[a].keys = conn[a].keys
    BY SMTT(60), <1>2, <2>1, <2>3 DEF HasKeys
  <2> QED  BY <1>1, <2>2, <2>4, SameKeys
<1>9. ASSUME NEW c \in Conns, DataReady(c) PROVE HInv'
  <2>1. PICK n : conn' = [conn EXCEPT ![c].avail = @ + n, ![c].wire = @ - n]  BY <1>9 DEF DataReady
  <2>2. PICK o : cb' = [Idle EXCEPT !.conn = c, !.at = "loop", !.out = o]  BY <1>9 DEF DataReady
  <2>3. CallbackOK'  BY SMTT(60), <2>2 DEF CallbackOK, Idle
  <2>4. DOMAIN conn = Conns  BY DEF HInv
  <2>5. DOMAIN conn' = Conns /\ \A a \in Conns : HasKeys(conn'[a]) /\ conn'[a].keys = conn[a].keys
    BY SMTT(60), <1>2, <2>1, <2>4 DEF HasKeys
  <2> QED  BY <1>1, <2>3, <2>5, SameKeys
<1>10. ASSUME NEW c \in Conns, ClientSend(c) \/ ClientHangup(c) PROVE HInv'
  <2>1. cb' = cb  BY <1>10 DEF ClientSend, ClientHangup
  <2>2. CallbackOK'  BY <1>3, <2>1 DEF CallbackOK
  <2>3. DOMAIN conn = Conns  BY DEF HInv
  <2>4. CASE ClientSend(c)
    <3>1. PICK r : conn' = [conn EXCEPT ![c].reqs = Append(@, r), ![c].wire = @ + Size(r)]
      BY <2>4 DEF ClientSend
    <3>2. DOMAIN conn' = Conns /\ \A a \in Conns : HasKeys(conn'[a]) /\ conn'[a].keys = conn[a].keys
      BY SMTT(60), <1>2, <2>3, <3>1 DEF HasKeys
    <3> QED  BY <1>1, <2>2, <3>2, SameKeys
  <2>5. CASE ClientHangup(c)
    <3>1. conn' = [conn EXCEPT ![c].peer = FALSE]  BY <2>5 DEF ClientHangup
    <3>2. DOMAIN conn' = Conns /\ \A a \in Conns : HasKeys(conn'[a]) /\ conn'[a].keys = conn[a].keys
      BY SMTT(60), <1>2, <2>3, <3>1 DEF HasKeys
    <3> QED  BY <1>1, <2>2, <3>2, SameKeys
  <2> QED  BY <1>10, <2>4, <2>5
<1> QED  BY <1>4, <1>5, <1>6, <1>7, <1>8, <1>9, <1>10

\* Steps of the event loop that change no connection
LEMMA NoConnection ==
  ASSUME HInv, SendSkipped \/ StateChange \/ (\E c \in Conns : SendReady(c)) \/ UNCHANGED vars
  PROVE  HInv'
<1>1. UNCHANGED <<conn, loaded, generation, listeners>>
  BY DEF SendSkipped, StateChange, SendReady, SetUnchanged, vars
<1>2. DOMAIN conn = Conns /\ CallbackOK /\ \A c \in Conns : HasKeys(conn[c])  BY DEF HInv
<1>3. CASE SendSkipped
  <2>1. cb.at # "idle" /\ cb' = [cb EXCEPT !.at = "watch"]  BY <1>3 DEF SendSkipped
  <2>2. CallbackOK'  BY <2>1, Running
  <2> QED  BY <1>1, <1>2, <2>2, SameKeys
<1>4. CASE StateChange \/ UNCHANGED vars
  <2>1. cb' = cb  BY <1>4 DEF StateChange, vars
  <2>2. CallbackOK'  BY <1>2, <2>1 DEF CallbackOK
  <2> QED  BY <1>1, <1>2, <2>2, SameKeys
<1>5. ASSUME NEW c \in Conns, SendReady(c) PROVE HInv'
  <2>1. cb' = [Idle EXCEPT !.conn = c, !.at = "send", !.out = TRUE]  BY <1>5 DEF SendReady
  <2>2. CallbackOK'  BY SMTT(60), <2>1 DEF CallbackOK, Idle
  <2> QED  BY <1>1, <1>2, <2>2, SameKeys
<1> QED  BY <1>3, <1>4, <1>5

\* Sending, and closing after it
LEMMA SendStep ==
  ASSUME HInv, SendData \/ SendClose
  PROVE  HInv'
<1>1. cb.at # "idle"  BY DEF SendData, SendClose
<1>2. cb.conn \in Conns /\ HasKeys(Me)  BY <1>1, Running
<1>3. CASE Delete(cb.conn)  BY <1>2, <1>3, DeleteStep
<1>4. ASSUME NEW n, conn' = [conn EXCEPT ![cb.conn] = Sent(Me, n)], cb' = [cb EXCEPT !.at = "watch"],
             SetUnchanged
      PROVE  HInv'
  <2>1. CallbackOK'  BY <1>1, <1>4, Running
  <2>2. PICK k : k = Sent(Me, n)  OBVIOUS
  <2>3. HasKeys(k) /\ k.keys = Me.keys  BY <1>2, <2>2, SentKeys
  <2>4. k.keys = conn[cb.conn].keys  BY <2>3 DEF Me
  <2> QED  BY <1>4, <2>1, <2>2, <2>3, <2>4, Kept DEF SetUnchanged
<1> QED  BY <1>3, <1>4 DEF SendData, SendClose

-----------------------------------------------------------------------------
(* The theorem *)

\* Every callback keeps handles, records and listeners together.
LEMMA HandlesKept ==
  ASSUME HInv, OneHandleEach, MaxHandle \in Nat, [Next]_vars
  PROVE  HInv'
<1>1. CASE ProcessPacket
  <2>1. CASE Incomplete  BY <2>1, Elsewhere
  <2>2. CASE ProcessFindLoad  BY <2>2, FindLoadStep
  <2>3. CASE ProcessCloseHandle  BY <2>3, CloseHandleStep
  <2>4. CASE CheckDependents  BY <2>4, CheckDependentsStep
  <2>5. CASE ProcessUnload  BY <2>5, UnloadStep
  <2>6. CASE ProcessReload  BY <2>6, ReloadStep
  <2>7. CASE \/ ProcessQueryVersion \/ ProcessStartStop \/ ProcessUnpin \/ ProcessShutdown
             \/ ProcessUnrecognised \/ ListServices \/ ProcessServiceStatus \/ ProcessQueryName
             \/ ProcessCatlog \/ ProcessSignal \/ ProcessQueryDscDir \/ QueryLoadMech
             \/ ProcessSetTrigger \/ ProcessSetEnv \/ AddServiceDep \/ RmServiceDep
    BY <2>7, OtherRequests
  <2> QED  BY <1>1, <2>1, <2>2, <2>3, <2>4, <2>5, <2>6, <2>7 DEF ProcessPacket
<1>2. CASE Reply \/ ServiceEvent \/ ProcessThrows \/ LoopEnd \/ SetWatches  BY <1>2, Elsewhere
<1>3. CASE SendSkipped \/ StateChange \/ UNCHANGED vars  BY <1>3, NoConnection
<1>4. CASE SendData \/ SendClose  BY <1>4, SendStep
<1>5. ASSUME NEW c \in Conns, Ready(c) \/ Peer(c) PROVE HInv'
  <2>1. CASE DataReady(c) \/ ClientSend(c) \/ ClientHangup(c)  BY <2>1, Elsewhere
  <2>2. CASE SendReady(c)  BY <2>2, NoConnection
  <2>3. CASE EndOfFile(c)  BY <2>3, DeleteStep DEF EndOfFile
  <2>4. CASE Accept(c)  BY <2>4, AcceptStep
  <2> QED  BY <1>5, <2>1, <2>2, <2>3, <2>4 DEF Ready, Peer
<1> QED  BY <1>1, <1>2, <1>3, <1>4, <1>5 DEF Next, Callback

\* As long as no connection gets a second handle for a record, no handle ever refers to a record
\* that unload_service or reload_service deleted: the one listener those count is the connection
\* that asks, and the one handle it has goes with the record.
THEOREM HandlesStayValid ==
  ASSUME MaxHandle \in Nat
  PROVE  Spec /\ []OneHandleEach => []NoDanglingHandle
<1>1. Init => HInv
  <2>1. SUFFICES ASSUME Init PROVE HInv  OBVIOUS
  <2>2. CallbackOK  BY <2>1 DEF Init, CallbackOK, Idle
  <2>3. SetOK
    <3>1. \A s \in Services : listeners[s] = {}  BY <2>1 DEF Init
    <3> QED  BY <2>1, <3>1, FS_EmptySet DEF Init, SetOK
  <2>4. HasKeys(Closed) /\ Closed.keys = {}  BY SMTT(60) DEF Closed, NewConn, HasKeys
  <2>5. DOMAIN conn = Conns /\ \A c \in Conns : conn[c] = Closed  BY <2>1 DEF Init
  <2> QED  BY <2>2, <2>3, <2>4, <2>5 DEF HInv, KeysOK
<1>2. HInv /\ OneHandleEach /\ [Next]_vars => HInv'  BY HandlesKept
<1>3. HInv => NoDanglingHandle  BY DEF HInv, KeysOK, NoDanglingHandle
<1> QED  BY <1>1, <1>2, <1>3, PTL DEF Spec
=============================================================================

----------------------------- MODULE EventLoop -----------------------------
(***************************************************************************)
(* dasynq's event loop as dinit runs it: one thread, epoll, timerfd and    *)
(* signalfd (dasynq/dasynq.h, epoll.h, childproc.h).  The loop pulls what  *)
(* the kernel reports into a queue ordered by priority, then dispatches    *)
(* the watchers of the queue, one handler at a time.  A handler is code of *)
(* dinit: it performs any of the operations Ops allows on any watcher, and *)
(* returns how its own watcher is to be rearmed.                           *)
(*                                                                         *)
(* A bidirectional watcher has two halves that are queued by themselves,   *)
(* "in" and "out"; every other watcher has the half "in" only.  In a       *)
(* watcher's record:                                                       *)
(*   life              "none", "live" once registered, "leaving" when it   *)
(*                     was deregistered while its handler runs             *)
(*   active, deleteme  halves with a handler running, with the removal due *)
(*   watch, multi      watch_flags: the directions wanted, and that the    *)
(*                     halves are reported by themselves                   *)
(*   removed           read_removed and write_removed                      *)
(*   emulated, on      a descriptor epoll refuses, and whether it is       *)
(*                     enabled (emulate_enabled)                           *)
(*   member, want, quiet, ptr                                              *)
(*                     the kernel's item: in the epoll set, interest,      *)
(*                     spent by its one report, carrying the watcher; want *)
(*                     is {"in"} for a watched child or an enabled signal  *)
(*   held              reservations in the pid map or the timer queue      *)
(*   told              calls of watch_removed since registration           *)
(* ready holds the directions that can be read or written, the children    *)
(* that ended and the signals sent; hup the descriptors hung up; gone that *)
(* the running handler has deregistered its own watcher and will return    *)
(* REMOVED; cancelled the timers stopped since they were last set          *)
(* (history).                                                              *)
(***************************************************************************)
EXTENDS TimerQueue, SequencesExt

CONSTANTS Watchers, Kind, Prio, Flags, Emulated, Style, Ops, Returns,
          MaxRegs, MaxTime, Delays, Intervals, Bursts

VARIABLES wt, queue, slots, tq, now, ready, hup, running, left, phase, regs, gone, cancelled

vars == <<wt, queue, slots, tq, now, ready, hup, running, left, phase, regs, gone, cancelled>>

Halves == {"in", "out"}
Idle == <<"none", "in">>

Blank == [life |-> "none", active |-> {}, deleteme |-> {}, watch |-> {}, multi |-> FALSE,
          removed |-> {}, emulated |-> FALSE, on |-> FALSE, member |-> FALSE,
          want |-> {}, quiet |-> FALSE, ptr |-> TRUE, held |-> 0, told |-> 0]

Init ==
  /\ wt = [x \in Watchers |-> Blank]
  /\ queue = << >> /\ slots = 0
  /\ tq = NoTimers /\ now = 0
  /\ ready = {} /\ hup = {}
  /\ running = Idle /\ left = 0 /\ phase = "idle"
  /\ regs = 0 /\ gone = FALSE /\ cancelled = {}

(* What an operation changes: watchers, event queue, its slots, timers. *)
Config == [w |-> wt, q |-> queue, n |-> slots, t |-> tq]
Become(c) == \E d \in {c} : wt' = d.w /\ queue' = d.q /\ slots' = d.n /\ tq' = d.t

-----------------------------------------------------------------------------
(* The queue of events: stable within a priority. *)
IsIn(c, e) == e \in Range(c.q)
queue_watcher(c, e) ==
  LET before == Len(SelectSeq(c.q, LAMBDA f : Prio[f[1]] <= Prio[e[1]]))
  IN  [c EXCEPT !.q = InsertAt(@, before + 1, e)]
\* Mutated form: a watcher with a report in the queue is taken to be the loop's to drop.
DequeueLeaves(c, e) == c
dequeue_watcher(c, e) == IF IsIn(c, e) THEN [c EXCEPT !.q = Remove(@, e)] ELSE c
prepare_watcher(c) == [c EXCEPT !.n = @ + 1]
release_watcher(c) == [c EXCEPT !.n = @ - 1]
watch_removed(c, x) == [c EXCEPT !.w[x].told = @ + 1, !.w[x].life = "none"]

(* The kernel's epoll set.  disable_fd_watch modifies the item without the *)
(* one-shot flag and without the watcher.                                  *)
enable_fd_watch(c, x, f) ==
  [c EXCEPT !.w[x].want = f, !.w[x].quiet = FALSE, !.w[x].ptr = TRUE]
disable_fd_watch(c, x) ==
  [c EXCEPT !.w[x].want = {}, !.w[x].quiet = FALSE, !.w[x].ptr = FALSE]
remove_fd_watch(c, x) == [c EXCEPT !.w[x].member = FALSE, !.w[x].want = {}]
set_fd_enabled(c, x, f, enabled) ==
  IF enabled THEN enable_fd_watch(c, x, f) ELSE disable_fd_watch(c, x)

-----------------------------------------------------------------------------
(* Registration. *)
Live(c, x, f) ==
  [c EXCEPT !.w[x] = [Blank EXCEPT !.life = "live", !.watch = f, !.multi = Kind[x] = "bidi"]]

add_fd_watch(c, x, f) ==
  [c EXCEPT !.w[x].member = TRUE, !.w[x].want = f, !.w[x].quiet = FALSE, !.w[x].ptr = TRUE]

RegisterFd(x, enabled) ==
  LET c == Live(prepare_watcher(Config), x, Flags[x])
      e == [c EXCEPT !.w[x].emulated = TRUE, !.w[x].on = enabled]
  IN  IF x \notin Emulated THEN add_fd_watch(c, x, IF enabled THEN Flags[x] ELSE {})
      ELSE IF enabled /\ Flags[x] # {} THEN queue_watcher(e, <<x, "in">>) ELSE e

RegisterBidi(x) ==
  LET c  == Live(prepare_watcher(prepare_watcher(Config)), x, Flags[x])
      e  == [c EXCEPT !.w[x].emulated = TRUE, !.w[x].watch = {}]
      e1 == IF "in" \in Flags[x] THEN queue_watcher(e, <<x, "in">>) ELSE e
  IN  IF x \notin Emulated THEN add_fd_watch(c, x, Flags[x])
      ELSE IF "out" \in Flags[x] THEN queue_watcher(e1, <<x, "out">>) ELSE e1

RegisterSignal(x) ==
  [Live(prepare_watcher(Config), x, {}) EXCEPT !.w[x].want = {"in"}, !.w[x].member = TRUE]
RegisterTimer(x) ==
  [Live(prepare_watcher(Config), x, {}) EXCEPT !.w[x].held = 1, !.t.data[x] = NewTimer]
ReserveChild(x) == [Live(prepare_watcher(Config), x, {}) EXCEPT !.w[x].held = 1]

Registered(x, enabled) ==
  CASE Kind[x] = "fd" -> RegisterFd(x, enabled)
    [] Kind[x] = "bidi" -> RegisterBidi(x)
    [] Kind[x] = "signal" -> RegisterSignal(x)
    [] Kind[x] = "timer" -> RegisterTimer(x)
    [] Kind[x] = "child" -> ReserveChild(x)

(* Memory runs out in a registration: what it took is given back and the   *)
(* exception goes to the caller, which has no watcher then; register_timer *)
(* may keep the exception to itself, and the caller has a timer that the   *)
(* loop does not know.                                                     *)
NotRegistered(x) == {Config} \cup IF Kind[x] = "timer" THEN {Live(Config, x, {})} ELSE {}

(* Removal: at once, or when the running handler ends.  The removal of a   *)
(* bidirectional watcher releases both of its slots in either case.        *)
DeleteAtOnce(c, x) == watch_removed(release_watcher(dequeue_watcher(c, <<x, "in">>)), x)
\* Mutated form: the slot is given up by post_dispatch only.
DeleteKeepsSlot(c, x) ==
  IF "in" \in c.w[x].active THEN [c EXCEPT !.w[x].deleteme = {"in"}]
  ELSE watch_removed(dequeue_watcher(c, <<x, "in">>), x)
IssueDelete(c, x) ==
  IF "in" \in c.w[x].active THEN [c EXCEPT !.w[x].deleteme = {"in"}] ELSE DeleteAtOnce(c, x)

IssueDeleteBidi(c, x) ==
  LET act   == c.w[x].active
      quit  == Halves \ act
      drop1 == IF "in" \in act THEN c ELSE dequeue_watcher(c, <<x, "in">>)
      drop2 == IF "out" \in act THEN drop1 ELSE dequeue_watcher(drop1, <<x, "out">>)
      done  == release_watcher(release_watcher(
                 [drop2 EXCEPT !.w[x].deleteme = @ \cup act, !.w[x].removed = @ \cup quit]))
  IN  IF done.w[x].removed = Halves THEN watch_removed(done, x) ELSE done

Deregistered(x) ==
  LET c == Config
  IN  CASE Kind[x] = "fd" -> IssueDelete(IF wt[x].emulated THEN c ELSE remove_fd_watch(c, x), x)
        [] Kind[x] = "bidi" -> IssueDeleteBidi(remove_fd_watch(c, x), x)
        [] Kind[x] = "signal" -> IssueDelete([c EXCEPT !.w[x].want = {}], x)
        [] Kind[x] = "timer" ->
             IssueDelete([c EXCEPT !.t = remove_timer(@, x), !.w[x].held = @ - 1], x)
        [] Kind[x] = "child" ->
             IssueDelete([c EXCEPT !.w[x].want = {}, !.w[x].held = @ - 1], x)

-----------------------------------------------------------------------------
(* Enabling and disabling. *)
\* Mutated form: emulate_enabled is not looked at.
EnableAgain(x, enable) ==
  LET c == Config
      e == IF ~wt[x].emulated THEN set_fd_enabled(c, x, wt[x].watch, enable)
           ELSE [IF enable THEN queue_watcher(c, <<x, "in">>) ELSE c EXCEPT !.w[x].on = enable]
  IN  IF enable THEN e ELSE dequeue_watcher(e, <<x, "in">>)
SetFdEnabled(x, enable) ==
  LET c == Config
      e == IF ~wt[x].emulated THEN set_fd_enabled(c, x, wt[x].watch, enable)
           ELSE [IF enable /\ ~wt[x].on THEN queue_watcher(c, <<x, "in">>) ELSE c
                   EXCEPT !.w[x].on = enable]
  IN  IF enable THEN e ELSE dequeue_watcher(e, <<x, "in">>)

set_watch_enabled(c, x, half, b) ==
  LET flags == IF b THEN c.w[x].watch \cup {half} ELSE c.w[x].watch \ {half}
      set   == [c EXCEPT !.w[x].watch = flags]
      e     == IF ~c.w[x].emulated THEN set_fd_enabled(set, x, flags, flags # {})
               ELSE IF b /\ flags # c.w[x].watch THEN queue_watcher(c, <<x, half>>)
               ELSE set
  IN  IF b THEN e ELSE dequeue_watcher(e, <<x, half>>)

set_watches(x, flags) ==
  IF wt[x].emulated
  THEN set_watch_enabled(set_watch_enabled(Config, x, "in", "in" \in flags),
                         x, "out", "out" \in flags)
  ELSE enable_fd_watch([Config EXCEPT !.w[x].watch = flags], x, flags)

(* Timers.  A queued expiry is withdrawn when the timer is disabled, not   *)
(* when it is stopped or set again.                                        *)
EnableTimer(c, x, enable) ==
  LET e == enable_timer(c.t, x, enable)
      d == [c EXCEPT !.t = e[1]]
  IN  IF e[2] THEN queue_watcher(d, <<x, "in">>) ELSE d

(* A child process is forked from a reservation, which a failed fork gives *)
(* up.  The watcher is initialised again, even from its own handler.       *)
Forked(x) == [Config EXCEPT !.w[x].active = {}, !.w[x].deleteme = {}, !.w[x].want = {"in"}]
ForkFailed(x) ==
  release_watcher([Config EXCEPT !.w[x].active = {}, !.w[x].deleteme = {}, !.w[x].held = @ - 1])

-----------------------------------------------------------------------------
(* What the kernel reports. *)
Directions(x) == {h \in wt[x].want : <<x, h>> \in ready}
Reports(x) ==
  \/ Kind[x] \in {"fd", "bidi"} /\ wt[x].member /\ ~wt[x].quiet
       /\ (Directions(x) # {} \/ x \in hup)
  \/ Kind[x] = "signal" /\ Directions(x) # {}
  \/ Kind[x] = "child" /\ <<x, "in">> \in ready
TimerReports == tq.fd # Off /\ tq.fd <= now

\* Mutated form: the direction that was not reported stays spent.
ReceiveSpendsBoth(c, x, f) ==
  LET seen  == [c EXCEPT !.w[x].watch = @ \ f, !.w[x].multi = x \notin hup]
      first == IF f = Halves THEN queue_watcher(seen, <<x, "out">>) ELSE seen
  IN  IF ~c.w[x].multi THEN queue_watcher(c, <<x, "in">>)
      ELSE queue_watcher(first, <<x, IF f = {"out"} THEN "out" ELSE "in">>)
(* Both directions are spent by one report, and the other is enabled again *)
(* if it is wanted.  ERR_EVENTS is the bit multi_watch: a watcher that     *)
(* hangs up is from then on reported as one that has no halves.            *)
receive_fd_event(c, x, f) ==
  LET seen  == [c EXCEPT !.w[x].watch = @ \ f, !.w[x].multi = x \notin hup]
      first == IF f = Halves THEN queue_watcher(seen, <<x, "out">>) ELSE seen
      all   == queue_watcher(first, <<x, IF f = {"out"} THEN "out" ELSE "in">>)
  IN  IF ~c.w[x].multi THEN queue_watcher(c, <<x, "in">>)
      ELSE IF all.w[x].watch = {} THEN all
      ELSE enable_fd_watch(all, x, all.w[x].watch)

ReceiveFd(x) == receive_fd_event([Config EXCEPT !.w[x].quiet = TRUE], x, Directions(x))

(* The signal is taken out of the mask after the last read: where Bursts,  *)
(* the same signal may be read twice.                                      *)
ReceiveSignal(x, times) ==
  LET c == [Config EXCEPT !.w[x].want = {}]
  IN  IF times = 1 THEN queue_watcher(c, <<x, "in">>)
      ELSE queue_watcher(queue_watcher(c, <<x, "in">>), <<x, "in">>)

ReceiveChild(x) ==
  IF wt[x].want = {} THEN Config
  ELSE queue_watcher([Config EXCEPT !.w[x].want = {}], <<x, "in">>)

ReceiveTimers ==
  LET p == process_timer(tq, now)
  IN  FoldLeft(LAMBDA c, h : queue_watcher(c, <<h, "in">>), [Config EXCEPT !.t = p[1]], p[2])

-----------------------------------------------------------------------------
(* Rearming: what the loop does with a handler's answer, as the new        *)
(* configuration and what is left for post_dispatch.                       *)
FdRearm(c, x, r) ==
  LET w == c.w[x]
  IN  CASE w.emulated /\ r = "REARM" -> <<[c EXCEPT !.w[x].on = TRUE], "REQUEUE">>
        [] w.emulated /\ r = "DISARM" -> <<[c EXCEPT !.w[x].on = FALSE], r>>
        [] w.emulated /\ r = "NOOP" /\ w.on -> <<c, "REQUEUE">>
        [] ~w.emulated /\ r = "REARM" -> <<enable_fd_watch(c, x, w.watch), r>>
        [] ~w.emulated /\ r = "DISARM" -> <<disable_fd_watch(c, x), r>>
        [] ~w.emulated /\ r = "REMOVE" -> <<remove_fd_watch(c, x), r>>
        [] OTHER -> <<c, r>>

(* One half of a bidirectional watcher.  The watcher is removed with the   *)
(* second of its halves.  Disarming the "in" half disables an item that    *)
(* watches nothing any more; otherwise it is left enabled for nothing.  So *)
(* is it when the "in" half is removed, as long as multi_watch is set: the *)
(* flags are then not 0.                                                   *)
BidiRearm(c, x, half, r) ==
  LET w     == c.w[x]
      other == w.watch \ {half}
      off   == [c EXCEPT !.w[x].watch = other]
      quit  == [c EXCEPT !.w[x].removed = @ \cup {half}]
      kept  == [quit EXCEPT !.w[x].watch = other]
      item(d, b) == IF w.emulated THEN d ELSE set_fd_enabled(d, x, other, b)
  IN  CASE r = "REMOVE" /\ quit.w[x].removed # Halves ->
             <<IF half \in w.watch THEN item(kept, half = "out" \/ other # {} \/ w.multi) ELSE quit,
               "NOOP">>
        [] r = "REMOVE" /\ quit.w[x].removed = Halves ->
             <<IF w.emulated THEN quit ELSE remove_fd_watch(quit, x), r>>
        [] r = "DISARM" -> <<item(off, half = "out" \/ other # {}), r>>
        [] r = "REARM" /\ ~w.emulated ->
             LET f == w.watch \cup {half} IN <<enable_fd_watch([c EXCEPT !.w[x].watch = f], x, f), r>>
        [] r = "REARM" /\ w.emulated -> <<off, "REQUEUE">>
        [] r = "NOOP" /\ w.emulated /\ half \in w.watch -> <<off, "REQUEUE">>
        [] OTHER -> <<c, r>>

ChildRearm(c, x, r) ==
  <<IF r \in {"REMOVE", "DISARM"} THEN [c EXCEPT !.w[x].held = @ - 1] ELSE c, r>>

TimerRearm(c, x, r) ==
  << CASE r = "REARM" -> EnableTimer(c, x, TRUE)
       [] r = "DISARM" -> EnableTimer(c, x, FALSE)
       [] r = "REMOVE" -> [c EXCEPT !.t = remove_timer(@, x), !.w[x].held = @ - 1]
       [] OTHER -> c, r >>

SignalRearm(c, x, r) ==
  << CASE r = "REARM" -> [c EXCEPT !.w[x].want = {"in"}]
       [] r = "REMOVE" -> [c EXCEPT !.w[x].want = {}]
       [] OTHER -> c, r >>

post_dispatch(c, x, half, r) ==
  LET size == IF Kind[x] = "bidi" THEN release_watcher(release_watcher(c)) ELSE release_watcher(c)
  IN  CASE r = "REMOVE" -> watch_removed(size, x)
        [] r = "REQUEUE" -> queue_watcher(c, <<x, half>>)
        [] OTHER -> c

(* The end of dispatch, after a handler that did not return REMOVED. *)
Dispatched(x, half, answer) ==
  LET c == [Config EXCEPT !.w[x].active = @ \ {half}]
      r == IF half \in wt[x].deleteme THEN "REMOVE" ELSE answer
      a == CASE Kind[x] = "fd" -> FdRearm(c, x, r)
             [] Kind[x] = "bidi" -> BidiRearm(c, x, half, r)
             [] Kind[x] = "signal" -> SignalRearm(c, x, r)
             [] Kind[x] = "timer" -> TimerRearm(c, x, r)
             [] Kind[x] = "child" -> ChildRearm(c, x, r)
  IN  post_dispatch(a[1], x, half, a[2])

-----------------------------------------------------------------------------
(* Operations on a watcher: by a handler, or between two runs of the loop. *)
Acting == running # Idle \/ phase = "idle"
Op(x, op) == Acting /\ op \in Ops[x] /\ wt[x].life = "live"
Own(x, other, own) == IF running[1] = x THEN own ELSE other
Late(x, early, late) == IF IsIn(Config, <<x, "in">>) THEN late ELSE early
Loop == <<running, left, phase>>
World == <<now, ready, hup>>

Register(x, enabled) ==
  /\ Acting /\ wt[x].life = "none" /\ regs < MaxRegs
  /\ enabled \/ "disabled" \in Ops[x]
  /\ Become(Registered(x, enabled))
  /\ regs' = regs + 1
  /\ cancelled' = cancelled \ {x}
  /\ UNCHANGED <<gone, Loop, World>>

RegisterFails(x) ==
  /\ Acting /\ wt[x].life = "none" /\ regs < MaxRegs
  /\ "alloc_fails" \in Ops[x]
  /\ \E c \in NotRegistered(x) : Become(c)
  /\ regs' = regs + 1
  /\ UNCHANGED <<gone, cancelled, Loop, World>>

(* The owner either deletes the watcher at once, and has its handler       *)
(* return REMOVED, or waits for watch_removed.                             *)
Deregister(x) ==
  /\ Op(x, Own(x, "deregister", "quit"))
  /\ LET c == Deregistered(x)
         life == IF Style[x] = "delete" \/ c.w[x].told > 0 THEN "none" ELSE "leaving"
     IN  Become([c EXCEPT !.w[x].life = life])
  /\ gone' = (gone \/ (running[1] = x /\ Style[x] = "delete"))
  /\ ready' = {e \in ready : e[1] # x \/ Kind[x] \notin {"fd", "bidi"}}
  /\ hup' = hup \ {x}
  /\ UNCHANGED <<now, regs, cancelled, Loop>>

Enable(x, enable) ==
  /\ Op(x, Own(x, IF Kind[x] = "timer" THEN Late(x, "enable", "enable_late") ELSE "enable",
                 "enable_own"))
  /\ CASE Kind[x] = "fd" -> Become(SetFdEnabled(x, enable))
       [] Kind[x] = "timer" ->
            Become(IF enable THEN EnableTimer(Config, x, TRUE)
                   ELSE dequeue_watcher(EnableTimer(Config, x, FALSE), <<x, "in">>))
  /\ UNCHANGED <<regs, gone, cancelled, Loop, World>>

SetWatches(x, flags) ==
  /\ Op(x, "watches") /\ Kind[x] = "bidi"
  /\ Become(set_watches(x, flags))
  /\ UNCHANGED <<regs, gone, cancelled, Loop, World>>

SetTimer(x, delay, interval) ==
  /\ Op(x, Late(x, "set", "set_late")) /\ Kind[x] = "timer" /\ now + delay <= MaxTime
  /\ Become([Config EXCEPT !.t = set_timer(@, x, now + delay, interval)])
  /\ cancelled' = cancelled \ {x}
  /\ UNCHANGED <<regs, gone, Loop, World>>

StopTimer(x) ==
  /\ Op(x, Late(x, "stop", "stop_late")) /\ Kind[x] = "timer"
  /\ Become([Config EXCEPT !.t = stop_timer(@, x)])
  /\ cancelled' = cancelled \cup {x}
  /\ UNCHANGED <<regs, gone, Loop, World>>

(* dinit forks from the reservation it has kept, if any.  It goes on       *)
(* believing in it when the fork fails.                                    *)
Fork(x, fails) ==
  /\ Op(x, "fork") /\ Kind[x] = "child" /\ wt[x].want = {}
  /\ <<x, "in">> \notin ready /\ ~IsIn(Config, <<x, "in">>)
  /\ fails => "fork_fails" \in Ops[x]
  /\ Become(IF fails THEN ForkFailed(x) ELSE Forked(x))
  /\ UNCHANGED <<regs, gone, cancelled, Loop, World>>

StopWatch(x) ==
  /\ Op(x, "stop_watch") /\ Kind[x] = "child"
  /\ Become([Config EXCEPT !.w[x].want = {}])
  /\ UNCHANGED <<regs, gone, cancelled, Loop, World>>

-----------------------------------------------------------------------------
(* The loop itself. *)
Run ==
  /\ phase = "idle" /\ phase' = "pull"
  /\ UNCHANGED <<wt, queue, slots, tq, World, running, left, regs, gone, cancelled>>

Receive(x) ==
  /\ phase = "pull" /\ Reports(x)
  /\ Kind[x] \in {"fd", "bidi"} => wt[x].ptr
  /\ CASE Kind[x] \in {"fd", "bidi"} -> Become(ReceiveFd(x))
       [] Kind[x] = "signal" -> \E n \in 1..Bursts : Become(ReceiveSignal(x, n))
       [] Kind[x] = "child" -> Become(ReceiveChild(x))
  /\ ready' = IF Kind[x] \in {"signal", "child"} THEN ready \ {<<x, "in">>} ELSE ready
  /\ UNCHANGED <<now, hup, regs, gone, cancelled, Loop>>

ReceiveExpiry ==
  /\ phase = "pull" /\ TimerReports
  /\ Become(ReceiveTimers)
  /\ UNCHANGED <<regs, gone, cancelled, Loop, World>>

(* Everything reported has been pulled; no more events are processed than  *)
(* were queued at this point.                                              *)
ProcessEvents ==
  /\ phase = "pull" /\ queue # << >>
  /\ ~TimerReports /\ \A x \in Watchers : ~Reports(x)
  /\ phase' = "dispatch" /\ left' = Len(queue)
  /\ UNCHANGED <<wt, queue, slots, tq, World, running, regs, gone, cancelled>>

Dispatch ==
  /\ phase = "dispatch" /\ running = Idle
  /\ LET x == Head(queue)[1]
         half == Head(queue)[2]
     IN  wt' = [wt EXCEPT ![x].active = @ \cup {half},
                          ![x].on = @ /\ half = "out"]
  /\ running' = Head(queue) /\ queue' = Tail(queue)
  /\ UNCHANGED <<slots, tq, World, left, phase, regs, gone, cancelled>>

Return(answer) ==
  /\ running # Idle
  /\ LET x == running[1]
     IN  IF gone THEN answer = "REMOVED" /\ UNCHANGED <<wt, queue, slots, tq>>
         ELSE answer \in Returns[x] /\ Become(Dispatched(x, running[2], answer))
  /\ running' = Idle /\ gone' = FALSE /\ left' = left - 1
  /\ phase' = IF left = 1 \/ queue' = << >> THEN "idle" ELSE "dispatch"
  /\ UNCHANGED <<World, regs, cancelled>>

-----------------------------------------------------------------------------
(* The world: data, hang-ups, ends of children, signals and time. *)
Arrives(x, half) ==
  /\ Kind[x] \in {"fd", "bidi"} /\ x \notin Emulated /\ wt[x].life = "live"
  /\ half \in Flags[x] \cup IF Kind[x] = "bidi" THEN Halves ELSE {}
  /\ <<x, half>> \notin ready
  /\ ready' = ready \cup {<<x, half>>} /\ UNCHANGED <<now, hup>>

(* A handler reads or writes all there is; not past a hang-up. *)
Consumed ==
  /\ running \in ready /\ running[1] \notin hup
  /\ ready' = ready \ {running} /\ UNCHANGED <<now, hup>>

(* A socket that is hung up is readable and writable, a pipe is neither. *)
Hangup(x) ==
  /\ wt[x].life = "live" /\ x \notin hup
  /\ \/ "socket" \in Ops[x] /\ ready' = ready \cup ({x} \X Halves)
     \/ "pipe" \in Ops[x] /\ UNCHANGED ready
  /\ hup' = hup \cup {x} /\ UNCHANGED now

Ends(x) ==
  /\ Kind[x] = "child" /\ wt[x].want = {"in"} /\ <<x, "in">> \notin ready
  /\ ready' = ready \cup {<<x, "in">>} /\ UNCHANGED <<now, hup>>
Signalled(x) ==
  /\ Kind[x] = "signal" /\ <<x, "in">> \notin ready
  /\ ready' = ready \cup {<<x, "in">>} /\ UNCHANGED <<now, hup>>
Tick == now < MaxTime /\ now' = now + 1 /\ UNCHANGED <<ready, hup>>

Environment ==
  /\ \/ \E x \in Watchers : Hangup(x) \/ Ends(x) \/ Signalled(x)
                              \/ \E half \in Halves : Arrives(x, half)
     \/ Consumed \/ Tick
  /\ UNCHANGED <<wt, queue, slots, tq, running, left, phase, regs, gone, cancelled>>

(* The loop blocks in the kernel when nothing is reported or queued. *)
CanStep ==
  \/ phase # "pull" \/ TimerReports
  \/ \E x \in Watchers : Reports(x) /\ (Kind[x] \in {"fd", "bidi"} => wt[x].ptr)
  \/ queue # << >> /\ \A x \in Watchers : ~Reports(x)
LoopStep ==
  \/ Run \/ ReceiveExpiry \/ ProcessEvents \/ Dispatch
  \/ \E x \in Watchers : Receive(x)
  \/ \E r \in {"REARM", "DISARM", "REMOVE", "REMOVED", "NOOP", "REQUEUE"} : Return(r)

Operation ==
  \E x \in Watchers :
    \/ \E b \in BOOLEAN : Register(x, b) \/ Enable(x, b) \/ Fork(x, b)
    \/ RegisterFails(x) \/ Deregister(x) \/ StopTimer(x) \/ StopWatch(x)
    \/ \E f \in SUBSET Halves : SetWatches(x, f)
    \/ \E d \in Delays, i \in Intervals : SetTimer(x, d, i)

Next == LoopStep \/ Operation \/ Environment

Spec == Init /\ [][Next]_vars

(* dinit's main loop runs the event loop again and again, and its handlers *)
(* return.  This is WF_vars(LoopStep), with its ENABLED written out.       *)
FairSpec == Spec /\ ([]<>~CanStep \/ []<><<LoopStep>>_vars)

-----------------------------------------------------------------------------
(* A watcher that was removed is known to nobody: it is neither queued nor *)
(* registered with the kernel, the pid map or the timer queue, so that its *)
(* handler cannot be called, and watch_removed is called once.             *)
RemovedIsForgotten ==
  \A x \in Watchers :
    /\ wt[x].told <= 1
    /\ wt[x].life = "none" =>
         /\ \A half \in Halves : <<x, half>> \notin Range(queue)
         /\ ~wt[x].member \/ Kind[x] = "signal"
         /\ wt[x].want = {}
         /\ Kind[x] = "timer" => ~IsQueued(tq.heap, x)

(* A watcher is in the queue of events once at most: it is queued when the *)
(* kernel has spent its report, and spent until its handler has returned.  *)
(* A second node would leave the first without a position.                 *)
QueuedOnce == IsInjective(queue)

(* Between handlers, the queue of events has as many slots as there are    *)
(* registered halves, and a registered child or timer has its one          *)
(* reservation: what registration takes, removal gives back once.          *)
SlotsExact ==
  running = Idle =>
    /\ slots = FoldSet(LAMBDA x, n : n + IF Kind[x] = "bidi" THEN 2 ELSE 1, 0,
                       {x \in Watchers : wt[x].life = "live"})
    /\ \A x \in Watchers : Kind[x] \in {"child", "timer"} =>
         wt[x].held = IF wt[x].life = "live" THEN 1 ELSE 0

(* A periodic timer is queued for the instant that follows the expiries it *)
(* has counted: none is counted twice or forgotten, however late it is     *)
(* (process_timer_queue, divide_timespec).                                 *)
IntervalsExact ==
  \A x \in Queued(tq.heap) :
    LET d == tq.data[x]
    IN  d.interval # 0 => At(tq.heap, tq.heap.idx[x]).prio = d.first + d.total * d.interval

(* No timeout of a service is overslept: the timer descriptor is set no    *)
(* later than any timer of the queue, and periodic timers do not drift.    *)
TimersOnTime ==
  /\ \A i \in DOMAIN tq.heap.vec : tq.fd # Off /\ tq.fd <= tq.heap.vec[i].prio
  /\ IntervalsExact

(* A report of the kernel names its watcher, also of a descriptor that is  *)
(* disabled (receive_fd_event takes the pointer for granted).              *)
ReportHasWatcher == \A x \in Watchers : Reports(x) => wt[x].ptr

(* A timer that was stopped does not expire (stop_timer).                  *)
CancelledIsSilent ==
  [][Dispatch => Head(queue)[1] \notin cancelled]_vars

(* The half of a watcher whose direction is wanted and ready, or which is  *)
(* queued, has its handler called, unless that stops being so.             *)
Waiting(x, half) ==
  /\ wt[x].life = "live"
  /\ \/ <<x, half>> \in Range(queue)
     \/ Kind[x] = "bidi" /\ ~wt[x].emulated /\ half \in wt[x].watch /\ <<x, half>> \in ready
     \/ Kind[x] = "fd" /\ ~wt[x].quiet /\ half \in Directions(x)
EventsDelivered ==
  \A x \in Watchers, half \in Halves :
    Waiting(x, half) ~> (running = <<x, half>> \/ ~Waiting(x, half))
=============================================================================

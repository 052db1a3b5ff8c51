----------------------------- MODULE TimerQueue -----------------------------
(***************************************************************************)
(* The timers of the event loop (dasynq/timerbase.h, dasynq/timerfd.h): a  *)
(* heap of timeouts, the data of each timer, and the one timer descriptor  *)
(* that wakes the loop for the first of them.  A timer queue is the record *)
(* [heap, data, fd]; fd is the instant the descriptor is set to, Off when  *)
(* it is not set.  Time is a number of ticks, NsPerSec to the second: the  *)
(* (seconds, nanoseconds) pairs of the source are normalised, so that      *)
(* their +, -, < and <= are those of the numbers they stand for.           *)
(*                                                                         *)
(* data[h].first and data[h].total are history: the first timeout of the   *)
(* latest set_timer, and the expiries counted since.                       *)
(***************************************************************************)
EXTENDS DaryHeap

CONSTANTS NsPerSec

Off == -1
NewTimer == [interval |-> 0, enabled |-> TRUE, count |-> 0, first |-> 0, total |-> 0]
NoTimers == [heap |-> EmptyHeap, data |-> [h \in Handles |-> NewTimer], fd |-> Off]

Seconds(t) == t \div NsPerSec

(* Double the divisor until it has as many seconds as what is left. *)
RECURSIVE Scaled(_, _, _)
Scaled(d, r, n) == IF Seconds(d) < Seconds(r) THEN Scaled(2 * d, r, 2 * n) ELSE <<d, n>>

(* Subtract the scaled divisor, halving it each time: <<quotient, rest>>. *)
RECURSIVE Reduced(_, _, _, _)
Reduced(d, r, n, q) ==
  IF n = 0 THEN <<q, r>>
  ELSE IF d <= r THEN Reduced(d \div 2, r - d, n \div 2, q + n)
  ELSE Reduced(d \div 2, r, n \div 2, q)

divide_timespec(num, den) ==
  CASE num < den -> <<0, num>>
    [] num >= den /\ Seconds(num) = Seconds(den) /\ Seconds(num) = 0 -> <<num \div den, num % den>>
    [] num >= den /\ Seconds(num) = Seconds(den) /\ Seconds(num) # 0 -> <<1, num - den>>
    [] OTHER -> IF num - den < den THEN <<1, num - den>>
                ELSE LET s == Scaled(den, num - den, 1)
                     IN  Reduced(s[1], num - den, s[2], 1)

\* Mutated form: a descriptor that is set already is left alone.
SetOnlyOnce(tq) ==
  [tq EXCEPT !.fd = IF tq.heap.vec = << >> THEN Off ELSE IF @ = Off THEN Root(tq.heap).prio ELSE @]
set_timer_from_queue(tq) ==
  [tq EXCEPT !.fd = IF tq.heap.vec = << >> THEN Off ELSE Root(tq.heap).prio]

(* Start or change a timer.  A timer that is already queued has its        *)
(* priority changed in place; the descriptor is set only for a new root.   *)
set_timer(tq, h, timeout, interval) ==
  LET known == [tq EXCEPT !.data[h] = [interval |-> interval, enabled |-> TRUE,
                                       count |-> 0, first |-> timeout, total |-> 0]]
      moved == [known EXCEPT !.heap = set_priority(@, h, timeout)]
      added == [known EXCEPT !.heap = insert(@, h, timeout)]
  IN  IF IsQueued(tq.heap, h)
      THEN IF RootReported(tq.heap, h, timeout) THEN set_timer_from_queue(moved) ELSE moved
      ELSE IF BecameRoot(added.heap, h) THEN set_timer_from_queue(added) ELSE added

stop_timer(tq, h) ==
  LET gone == [tq EXCEPT !.heap = remove(@, h)]
  IN  IF ~IsQueued(tq.heap, h) THEN tq
      ELSE IF Root(tq.heap).hnd = h THEN set_timer_from_queue(gone) ELSE gone

remove_timer(tq, h) ==
  IF IsQueued(tq.heap, h) THEN [tq EXCEPT !.heap = remove(@, h)] ELSE tq

(* One timer expires: <<queue, reported count>>, 0 when it is not enabled. *)
(* The overrun is taken from the slot the root was pulled from, which by   *)
(* then holds the next timer of the queue, if there is one.                *)
Expired(tq, now) ==
  LET root   == Root(tq.heap)
      h      == root.hnd
      d      == tq.data[h]
      pulled == pull_root(tq.heap)
      slot   == IF pulled.vec = << >> THEN root.prio ELSE Root(pulled).prio
      over   == IF d.interval = 0 THEN <<0, 0>> ELSE divide_timespec(now - slot, d.interval)
      count  == d.count + 1 + over[1]
  IN  << [tq EXCEPT !.heap = IF d.interval = 0 THEN pulled
                             ELSE insert(pulled, h, now + d.interval - over[2]),
                    !.data[h] = [d EXCEPT !.enabled = FALSE,
                                          !.count = IF d.enabled THEN 0 ELSE count,
                                          !.total = @ + 1 + over[1]]],
         IF d.enabled THEN count ELSE 0 >>

(* Expire every timer up to now: the queue, and the timers to report. *)
RECURSIVE process_timer_queue(_, _, _)
process_timer_queue(tq, now, reported) ==
  IF tq.heap.vec = << >> THEN <<tq, reported>>
  ELSE IF Root(tq.heap).prio > now THEN <<tq, reported>>
  ELSE LET h == Root(tq.heap).hnd
           e == Expired(tq, now)
       IN  process_timer_queue(e[1], now, IF e[2] = 0 THEN reported ELSE Append(reported, h))

process_timer(tq, now) ==
  LET p == process_timer_queue(tq, now, << >>) IN <<set_timer_from_queue(p[1]), p[2]>>

(* Turn reports on or off: <<queue, whether to report now>>.  An expiry    *)
(* counted while reports were off is reported when they are turned on.     *)
enable_timer(tq, h, enable) ==
  IF tq.data[h].count # 0 /\ enable
  THEN <<[tq EXCEPT !.data[h].count = 0], TRUE>>
  ELSE <<[tq EXCEPT !.data[h].enabled = enable], FALSE>>
=============================================================================

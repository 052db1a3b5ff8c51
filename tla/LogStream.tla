----------------------------- MODULE LogStream -----------------------------
(***************************************************************************)
(* buffered_log_stream on the console (dinit-log.cc): messages wait in a   *)
(* circular buffer until the console is writable, and the console is lent  *)
(* to services that ask for it, always between two lines.                  *)
(*                                                                         *)
(* The buffer holds whole lines, so it is modelled by the places of its    *)
(* newlines, which is what fd_event looks for (CPBuffer is about the       *)
(* bytes).  The notice about discarded messages, which is not kept in the  *)
(* buffer, takes two writes at most.                                       *)
(***************************************************************************)
EXTENDS Integers, Sequences

CONSTANTS
  SIZE,         \* capacity of the buffer
  MaxMsg,       \* length of the longest message
  MaxWaiters,   \* services queued for the console at one time
  Outcomes,     \* results of a write besides a complete one: "again", "split" (part of the
                \* notice), "partial" (part of a line), "error"
  QuickRelease, \* may a service give the console back before acquired_console() returns?
  Withdraw      \* may a service leave the queue before it gets the console?

VARIABLES
  lines,     \* log_buffer: for each line the number of bytes up to its end
  current_index, partway, discarded, release, special, msg_index,
  enabled,   \* the output watch is enabled
  open,      \* the watch is registered (fd # -1)
  queue,     \* number of services in the console queue
  holder,    \* who writes to the console: "log" or "service"
  midline,   \* the last byte the log wrote did not end a line
  stale      \* the log wrote bytes that are not part of its contents, or made them contents
vars == <<lines, current_index, partway, discarded, release, special, msg_index,
          enabled, open, queue, holder, midline, stale>>
noticeVars == <<discarded, special, msg_index>>
consoleVars == <<release, queue, holder>>

Init ==
  /\ lines = <<>> /\ current_index = 0 /\ msg_index = 0
  /\ partway = FALSE /\ discarded = FALSE /\ special = FALSE
  /\ release = FALSE /\ enabled = TRUE /\ open = TRUE
  /\ queue = 0 /\ holder = "log" /\ midline = FALSE /\ stale = FALSE

get_length(ls) == IF ls = <<>> THEN 0 ELSE ls[Len(ls)]
get_free == SIZE - get_length(lines)
append(n) == Append(lines, get_length(lines) + n)
\* consume, with the length of the first line.
Consumed == [i \in 1 .. Len(lines) - 1 |-> lines[i + 1] - lines[1]]

-----------------------------------------------------------------------------
(* Incoming: log(), log_msg_begin() ... log_msg_end() *)

\* commit_msg: the watch is enabled for the first message.
commit_msg(ls) ==
  /\ current_index' = get_length(ls)
  /\ enabled' = (enabled \/ (current_index = 0 /\ ~release))

\* push_to_log: the message fits or is discarded.
LogMessage ==
  \E n \in 1 .. MaxMsg :
    /\ \/ /\ get_free >= n
          /\ lines' = append(n)
          /\ commit_msg(lines')
          /\ UNCHANGED discarded
       \/ /\ get_free < n
          /\ discarded' = TRUE
          /\ UNCHANGED <<lines, current_index, enabled>>
    /\ UNCHANGED <<partway, special, msg_index, open, midline, stale>> /\ UNCHANGED consoleVars

\* do_log_part, for two parts or more: when one does not fit, what was appended before it is rolled
\* back.  trim_to makes current_index the length, which it exceeds after a line was written in part.
rollback_msg ==
  /\ lines' = lines
  /\ stale' = (stale \/ current_index # get_length(lines))
LogParts ==
  \E n \in 2 .. MaxMsg :
    /\ \/ /\ get_free >= n
          /\ lines' = append(n)
          /\ commit_msg(lines')
          /\ UNCHANGED <<discarded, stale>>
       \/ /\ get_free < n
          /\ rollback_msg
          /\ discarded' = TRUE
          /\ UNCHANGED <<current_index, enabled>>
    /\ UNCHANGED <<partway, special, msg_index, open, midline>> /\ UNCHANGED consoleVars

-----------------------------------------------------------------------------
(* The console queue *)

\* pull_console_queue with q services waiting, when the log or a service has given the console
\* up: the first gets it (or, if those before it release it at once, a later one); if there is
\* none the log resumes, without the messages of a blockage that lasted for a second or more.
Pull(q, ls, index) ==
  \/ \E rest \in 0 .. q - 1 :
       /\ rest = q - 1 \/ QuickRelease
       /\ queue' = rest /\ holder' = "service" /\ release' = TRUE
       /\ lines' = ls /\ current_index' = index
  \/ /\ q = 0 \/ QuickRelease
     /\ queue' = 0 /\ holder' = "log" /\ release' = FALSE
     /\ \/ lines' = ls /\ current_index' = index
        \/ lines' = <<>> /\ current_index' = 0     \* discard_console_log_buffer

\* A service releases the console; if the log gets it, enable_console_log enables the watch.
ServiceReleases ==
  /\ holder = "service"
  /\ Pull(queue, lines, current_index)
  /\ enabled' = (holder' = "log")
  /\ UNCHANGED <<partway, open, midline, stale>> /\ UNCHANGED noticeVars

\* A queued service is stopped before it gets the console.
Unqueue ==
  /\ Withdraw /\ queue > 0
  /\ queue' = queue - 1
  /\ UNCHANGED <<lines, current_index, partway, release, enabled, open, holder, midline, stale>>
  /\ UNCHANGED noticeVars

-----------------------------------------------------------------------------
(* Outgoing: fd_event, called for an event or by flush_for_release.  The parameter c holds    *)
(* release and the length of the queue at that point and whether it is an event.              *)

Disarm == enabled' = FALSE /\ UNCHANGED open
Rearm(c) == enabled' = (c.event \/ enabled) /\ UNCHANGED open
KeepConsole(c) == release' = c.release /\ queue' = c.queue /\ UNCHANGED holder

\* release_console does nothing unless the log was asked to release.
release_console(c, ls, index) ==
  IF c.release THEN Pull(c.queue, ls, index)
  ELSE lines' = ls /\ current_index' = index /\ KeepConsole(c)

\* Beginning the notice clears the mark; so does finishing it.
NoticeDue == ~partway /\ (special \/ discarded)
BeginNotice == special' = TRUE /\ discarded' = (special /\ discarded)
SplitAndRelease(c) ==
  /\ "split" \in Outcomes /\ msg_index = 0
  /\ BeginNotice /\ msg_index' = 1 /\ midline' = TRUE
  /\ release_console(c, lines, current_index) /\ Disarm
SplitNotice(c) ==
  /\ "split" \in Outcomes /\ msg_index = 0
  /\ BeginNotice /\ msg_index' = 1 /\ midline' = TRUE
  /\ Rearm(c) /\ KeepConsole(c) /\ UNCHANGED <<lines, current_index>>
FinishNotice(c) ==
  /\ special' = FALSE /\ msg_index' = 0 /\ discarded' = FALSE /\ midline' = FALSE
  /\ release_console(c, lines, current_index)
  /\ IF c.release THEN Disarm ELSE Rearm(c)
WriteNotice(c) ==
  /\ NoticeDue
  /\ SplitNotice(c) \/ FinishNotice(c)
  /\ UNCHANGED <<partway, stale>>

NothingToWrite(c) ==
  /\ ~NoticeDue /\ current_index = 0
  /\ release_console(c, lines, current_index) /\ Disarm
  /\ UNCHANGED <<partway, midline, stale>> /\ UNCHANGED noticeVars

\* The watch is disarmed when the buffer is empty or the console is to be released.
StopWhenEmpty(c, index) == index = 0
StopsWriting(c, index) == index = 0 \/ c.release
IndexAfterLine == current_index - lines[1]
\* Whatever part of the line was written, all of it is consumed.
WriteLine(c) ==
  /\ ~NoticeDue /\ current_index # 0 /\ lines # <<>>
  /\ \/ LET index == IndexAfterLine
        IN /\ partway' = FALSE /\ midline' = FALSE
           /\ IF StopsWriting(c, index)
              THEN release_console(c, Consumed, index) /\ Disarm
              ELSE /\ lines' = Consumed /\ current_index' = index
                   /\ Rearm(c) /\ KeepConsole(c)
     \/ /\ "partial" \in Outcomes
        /\ partway' = TRUE /\ midline' = TRUE
        /\ lines' = Consumed
        /\ Rearm(c) /\ KeepConsole(c) /\ UNCHANGED current_index
  /\ UNCHANGED stale /\ UNCHANGED noticeVars

\* get_contiguous_length of an empty buffer is the rest of the array: bytes of earlier lines are
\* written, up to a newline among them, and consumed, which takes the length below zero.  Without a
\* newline there the second span has a negative length.
WriteBeyond(c) ==
  /\ ~NoticeDue /\ current_index # 0 /\ lines = <<>>
  /\ stale' = TRUE
  /\ \/ \E n \in 1 .. SIZE :
          LET index == current_index - n
          IN /\ partway' = FALSE /\ midline' = FALSE
             /\ IF StopsWriting(c, index)
                THEN release_console(c, lines, index) /\ Disarm
                ELSE current_index' = index /\ Rearm(c) /\ KeepConsole(c) /\ UNCHANGED lines
     \/ /\ "partial" \in Outcomes
        /\ partway' = TRUE /\ midline' = TRUE
        /\ Rearm(c) /\ KeepConsole(c) /\ UNCHANGED <<lines, current_index>>
     \/ /\ KeepConsole(c)
        /\ UNCHANGED <<lines, current_index, partway, enabled, open, midline>>
  /\ UNCHANGED noticeVars

\* EAGAIN; the notice is begun all the same.
WouldBlock(c) ==
  /\ "again" \in Outcomes /\ (NoticeDue \/ current_index # 0)
  /\ IF NoticeDue THEN BeginNotice ELSE UNCHANGED <<special, discarded>>
  /\ Rearm(c) /\ KeepConsole(c)
  /\ UNCHANGED <<lines, current_index, partway, msg_index, midline, stale>>

\* Any other error removes the watch (watch_removed).
WriteError(c) ==
  /\ "error" \in Outcomes /\ (NoticeDue \/ current_index # 0)
  /\ IF NoticeDue THEN BeginNotice ELSE UNCHANGED <<special, discarded>>
  /\ enabled' = FALSE /\ open' = FALSE /\ release' = TRUE /\ queue' = c.queue
  /\ UNCHANGED <<lines, current_index, partway, msg_index, holder, midline, stale>>

Written(c) == WriteNotice(c) \/ NothingToWrite(c) \/ WriteLine(c) \/ WriteBeyond(c)
fd_event(c) == Written(c) \/ WouldBlock(c) \/ WriteError(c)

\* The event loop reports that the console is writable.
OutEvent == [release |-> release, queue |-> queue, event |-> TRUE]
FdEvent == enabled /\ open /\ fd_event(OutEvent)

\* append_console_queue: when the queue was empty the log is asked to release the console
\* (enable_console_log(false), flush_for_release).
QueueForConsole ==
  /\ queue < MaxWaiters /\ open
  /\ IF queue = 0 /\ ~release
     THEN fd_event([release |-> TRUE, queue |-> 1, event |-> FALSE])
     ELSE /\ queue' = queue + 1
          /\ UNCHANGED <<lines, current_index, partway, release, enabled, open, holder, midline,
                         stale>>
          /\ UNCHANGED noticeVars

\* The length of the buffer is no longer what is in it: it is negative, as an unsigned number, and
\* the next append may write outside the array, or it counts bytes of the array that were not
\* appended.  Behaviours are modelled up to here.
Undefined == stale /\ UNCHANGED vars

Next ==
  \/ ~stale /\ (LogMessage \/ LogParts \/ ServiceReleases \/ Unqueue \/ FdEvent \/ QueueForConsole)
  \/ Undefined
Spec == Init /\ [][Next]_vars
\* The console is writable again and again.
FairSpec == Spec /\ WF_vars(enabled /\ open /\ ~stale /\ Written(OutEvent))

-----------------------------------------------------------------------------
Ascending(ls) == \A i, j \in 1 .. Len(ls) : i < j => ls[i] < ls[j]
TypeOK ==
  /\ lines \in Seq(1 .. SIZE) /\ Ascending(lines)
  /\ current_index \in Int /\ (~stale => current_index \in 0 .. SIZE) /\ msg_index \in 0 .. 1
  /\ partway \in BOOLEAN /\ discarded \in BOOLEAN /\ release \in BOOLEAN /\ special \in BOOLEAN
  /\ enabled \in BOOLEAN /\ open \in BOOLEAN /\ midline \in BOOLEAN /\ stale \in BOOLEAN
  /\ queue \in 0 .. MaxWaiters /\ holder \in {"log", "service"}

\* fd_event never writes bytes that are not contents of the buffer, such as a line it wrote before,
\* and no such bytes become contents.
WritesOnlyContents == ~stale

\* A service gets the console only after the log has ended the line it was writing.  (Up to the first
\* write of bytes that are not contents, that write included.)
HandoverAtLineEnd == holder = "service" => ~midline

\* While the log has the console and something to say its watch is enabled; no later message would
\* enable it, since only the first one of an empty buffer does (commit_msg).
LogWatched == ~release /\ (current_index > 0 \/ special) => enabled
=============================================================================

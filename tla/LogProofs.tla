----------------------------- MODULE LogProofs -----------------------------
(***************************************************************************)
(* Proofs about LogStream, for every size of the buffer and of the         *)
(* messages, every length of the console queue and every set of write      *)
(* results.                                                                *)
(***************************************************************************)
EXTENDS LogStream, SequenceTheorems, TLAPS

\* The leaves are for the SMT solver, where they do not name another prover.
USE SMTT(60)

Sizes == SIZE \in Nat /\ MaxMsg \in Nat /\ MaxWaiters \in Nat

\* Types, in three parts; the index never falls behind the buffer.
BufferOK(ls, i) ==
  /\ ls \in Seq(1 .. SIZE) /\ Ascending(ls)
  /\ i \in 0 .. SIZE /\ get_length(ls) <= i
ConsoleOK == queue \in 0 .. MaxWaiters /\ holder \in {"log", "service"} /\ release \in BOOLEAN
FlagsOK ==
  /\ partway \in BOOLEAN /\ discarded \in BOOLEAN /\ special \in BOOLEAN /\ msg_index \in 0 .. 1
  /\ enabled \in BOOLEAN /\ open \in BOOLEAN /\ midline \in BOOLEAN /\ stale \in BOOLEAN

\* A line that has not been ended is the rest of a buffered line, and then there is an index left,
\* or the rest of the notice.
LineOK ==
  /\ midline => partway \/ msg_index = 1
  /\ partway => midline /\ current_index # 0
  /\ msg_index = 1 => special /\ ~partway
\* While a service has the console the log has no line open and no watch that could continue one.
LentOK == holder = "service" => release /\ ~enabled /\ ~midline
Sound == BufferOK(lines, current_index) /\ ConsoleOK /\ FlagsOK /\ LineOK /\ LentOK

\* Once the log wrote what the buffer does not hold, the index may be anything.
LooseOK(ls, i) == ls \in Seq(1 .. SIZE) /\ Ascending(ls) /\ i \in Int
Beyond == stale /\ LooseOK(lines, current_index) /\ ConsoleOK /\ FlagsOK /\ LineOK /\ LentOK
IInv == Sound \/ Beyond

\* Without lines written in part the index is the length of the buffer.
IndexOK == current_index = get_length(lines) /\ ~partway /\ ~stale

-----------------------------------------------------------------------------
(* The buffer *)

\* append: a message that fits leaves the newlines in order, and is as long as it is.
LEMMA AppendLines ==
  ASSUME Sizes, TypeOK, NEW n \in Nat \ {0}, get_free >= n
  PROVE  /\ append(n) \in Seq(1 .. SIZE) /\ Ascending(append(n))
         /\ get_length(append(n)) = get_length(lines) + n
         /\ get_length(lines) \in 0 .. SIZE /\ get_length(append(n)) \in 1 .. SIZE
<1>1. get_length(lines) \in 0 .. SIZE
  BY DEF Sizes, TypeOK, get_length
<1>2. get_length(lines) + n \in 1 .. SIZE
  BY <1>1 DEF Sizes, get_free
<1>3. append(n) \in Seq(1 .. SIZE)
  BY <1>2 DEF append, TypeOK
<1>7. /\ Len(append(n)) = Len(lines) + 1
      /\ append(n)[Len(lines) + 1] = get_length(lines) + n
      /\ \A i \in 1 .. Len(lines) : append(n)[i] = lines[i]
  <2> DEFINE k == get_length(lines) + n
  <2> HIDE DEF k
  <2>1. lines \in Seq(1 .. SIZE) /\ k \in 1 .. SIZE
    BY <1>2 DEF TypeOK, k
  <2>2. /\ Len(Append(lines, k)) = Len(lines) + 1
        /\ Append(lines, k)[Len(lines) + 1] = k
        /\ \A i \in 1 .. Len(lines) : Append(lines, k)[i] = lines[i]
    BY <2>1
  <2> QED  BY <2>2 DEF append, k
<1>4. get_length(append(n)) = get_length(lines) + n
  <2>1. append(n) # <<>>
    BY <1>7 DEF TypeOK
  <2> QED  BY <2>1, <1>7 DEF get_length
<1>5. \A i \in 1 .. Len(lines) : lines[i] <= get_length(lines)
  BY DEF TypeOK, Ascending, get_length, Sizes
<1>6. Ascending(append(n))
  <2> SUFFICES ASSUME NEW i \in 1 .. Len(append(n)), NEW j \in 1 .. Len(append(n)), i < j
               PROVE  append(n)[i] < append(n)[j]
    BY DEF Ascending
  <2>1. Len(lines) \in Nat /\ \A k \in 1 .. Len(lines) : lines[k] \in 1 .. SIZE
    BY ZenonT(60), LenProperties, ElementOfSeq DEF TypeOK
  <2>2. CASE j \in 1 .. Len(lines)
    BY <1>7, <2>1, <2>2 DEF TypeOK, Ascending
  <2>3. CASE j = Len(lines) + 1
    BY <1>7, <1>1, <1>5, <2>1, <2>3 DEF Sizes
  <2> QED  BY <1>7, <2>1, <2>2, <2>3
<1> QED  BY <1>1, <1>2, <1>3, <1>4, <1>6

\* consume: what is left after the first line are the other lines, and the buffer is shorter by
\* that line.
LEMMA ConsumedLines ==
  ASSUME Sizes, TypeOK, lines # <<>>
  PROVE  /\ Consumed \in Seq(1 .. SIZE) /\ Ascending(Consumed)
         /\ lines[1] \in 1 .. SIZE
         /\ get_length(Consumed) = get_length(lines) - lines[1]
         /\ get_length(lines) \in 1 .. SIZE /\ lines[1] <= get_length(lines)
<1>1. Len(lines) \in Nat \ {0} /\ \A k \in 1 .. Len(lines) : lines[k] \in 1 .. SIZE
  BY ZenonT(60), EmptySeq, ElementOfSeq DEF TypeOK
<1>2. \A i \in 1 .. Len(lines) - 1 : lines[i + 1] - lines[1] \in 1 .. SIZE
  BY <1>1 DEF TypeOK, Ascending, Sizes
<1>3. Consumed \in Seq(1 .. SIZE) /\ Len(Consumed) = Len(lines) - 1
  BY <1>1, <1>2 DEF Consumed
<1>4. Ascending(Consumed)
  <2> SUFFICES ASSUME NEW i \in 1 .. Len(Consumed), NEW j \in 1 .. Len(Consumed), i < j
               PROVE  Consumed[i] < Consumed[j]
    BY DEF Ascending
  <2>1. Consumed[i] = lines[i + 1] - lines[1] /\ Consumed[j] = lines[j + 1] - lines[1]
    BY <1>3 DEF Consumed
  <2>2. i + 1 \in 1 .. Len(lines) /\ j + 1 \in 1 .. Len(lines)
    BY <1>1, <1>3
  <2>3. lines[i + 1] < lines[j + 1]
    BY <2>2 DEF TypeOK, Ascending
  <2> QED  BY <1>1, <2>1, <2>2, <2>3 DEF Sizes
<1>5. lines[1] \in 1 .. SIZE /\ get_length(lines) \in 1 .. SIZE
  BY <1>1 DEF get_length, TypeOK
<1>6. lines[1] <= get_length(lines)
  BY <1>1, <1>5 DEF get_length, TypeOK, Ascending, Sizes
<1>7. get_length(Consumed) = get_length(lines) - lines[1]
  <2>1. CASE Len(lines) = 1
    BY <2>1, <1>1, <1>3, <1>5 DEF get_length, Sizes
  <2>2. CASE Len(lines) # 1
    <3>1. Len(Consumed) \in 1 .. Len(lines) - 1 /\ Len(Consumed) + 1 = Len(lines)
      BY <2>2, <1>1, <1>3
    <3>2. Consumed[Len(Consumed)] = lines[Len(lines)] - lines[1]
      BY <3>1 DEF Consumed
    <3>3. Consumed # <<>>
      BY <3>1, EmptySeq
    <3> QED  BY <3>2, <3>3 DEF get_length
  <2> QED  BY <2>1, <2>2
<1> QED  BY <1>3, <1>4, <1>5, <1>6, <1>7

-----------------------------------------------------------------------------
(* The steps *)

\* What fd_event is called with.
EventOK(c) == c.release \in BOOLEAN /\ c.queue \in 0 .. MaxWaiters /\ c.event \in BOOLEAN

\* The invariant includes the types.
LEMMA SoundTypes == Sound => TypeOK
BY DEF Sound, BufferOK, ConsoleOK, FlagsOK, TypeOK, Sizes

\* An empty buffer, as discard_console_log_buffer leaves it.
LEMMA EmptyBuffer ==
  ASSUME Sizes PROVE BufferOK(<<>>, 0)
BY EmptySeq DEF BufferOK, Ascending, get_length, Sizes

\* pull_console_queue: a service that gets the console finds the log with release set.
LEMMA PullKeeps ==
  ASSUME Sizes, NEW q \in 0 .. MaxWaiters, NEW ls, NEW i, BufferOK(ls, i), Pull(q, ls, i)
  PROVE  /\ BufferOK(lines', current_index') /\ ConsoleOK'
         /\ holder' = "service" => release'
<1>1. queue' \in 0 .. MaxWaiters
  BY DEF Sizes, Pull
<1>2. holder' \in {"log", "service"} /\ release' \in BOOLEAN /\ (holder' = "service" => release')
  BY ZenonT(60) DEF Pull
<1>3. BufferOK(lines', current_index')
  BY ZenonT(60), EmptyBuffer DEF Pull
<1> QED  BY <1>1, <1>2, <1>3 DEF ConsoleOK

\* release_console, during an event.
LEMMA ReleaseKeeps ==
  ASSUME Sizes, ConsoleOK, holder = "log", NEW c, EventOK(c), NEW ls, NEW i, BufferOK(ls, i),
         release_console(c, ls, i)
  PROVE  /\ BufferOK(lines', current_index') /\ ConsoleOK'
         /\ holder' = "service" => release'
<1>1. CASE c.release
  BY <1>1, PullKeeps DEF EventOK, release_console
<1>2. CASE ~c.release
  BY <1>2 DEF EventOK, release_console, KeepConsole, ConsoleOK
<1> QED  BY <1>1, <1>2

\* log(), log_msg_end(): a message is appended as a whole or not at all, and never opens the watch
\* while the console is lent.
LEMMA LogKeeps ==
  ASSUME Sizes, Sound, LogMessage \/ LogParts PROVE Sound'
<1>1. /\ UNCHANGED <<partway, special, msg_index, open, midline>> /\ UNCHANGED consoleVars
      /\ discarded' \in BOOLEAN /\ stale' \in BOOLEAN
  BY ZenonT(60) DEF LogMessage, LogParts, rollback_msg, Sound, FlagsOK, consoleVars
<1>2. \/ UNCHANGED <<lines, current_index, enabled>>
      \/ \E n \in Nat \ {0} : get_free >= n /\ lines' = append(n) /\ commit_msg(lines')
  <2>1. CASE LogMessage
    BY <2>1 DEF LogMessage, Sizes
  <2>2. CASE LogParts
    <3>1. get_free \in Int
      BY EmptySeq, ElementOfSeq, LenProperties DEF get_free, get_length, Sizes, Sound, BufferOK
    <3> QED  BY <2>2, <3>1 DEF LogParts, rollback_msg, Sizes
  <2> QED  BY <2>1, <2>2
<1>3. CASE UNCHANGED <<lines, current_index, enabled>>
  <2>1. BufferOK(lines, current_index)'
    BY ZenonT(60), <1>3 DEF Sound, BufferOK, Ascending, get_length
  <2> QED  BY <1>1, <1>3, <2>1 DEF Sound, ConsoleOK, FlagsOK, LineOK, LentOK, consoleVars
<1>4. ASSUME NEW n \in Nat \ {0}, get_free >= n, lines' = append(n), commit_msg(lines')
      PROVE  Sound'
  <2>1. BufferOK(lines', current_index') /\ current_index' # 0
    BY <1>4, AppendLines, SoundTypes DEF BufferOK, commit_msg, Sizes
  <2>2. enabled' \in BOOLEAN /\ (release => enabled' = enabled)
    BY ZenonT(60), <1>4 DEF commit_msg, Sound, FlagsOK
  <2> QED  BY <1>1, <2>1, <2>2 DEF Sound, ConsoleOK, FlagsOK, LineOK, LentOK, consoleVars
<1> QED  BY <1>2, <1>3, <1>4

\* A service gives the console back: it was lent with every line ended, and stays so.
LEMMA ConsoleKeeps ==
  ASSUME Sizes, Sound, ServiceReleases \/ Unqueue PROVE Sound'
<1>1. CASE ServiceReleases
  <2>1. /\ BufferOK(lines', current_index') /\ ConsoleOK'
        /\ holder' = "service" => release'
    BY <1>1, PullKeeps DEF ServiceReleases, Sound, ConsoleOK
  <2>2. ~midline /\ ~partway /\ UNCHANGED <<partway, open, midline, stale>> /\ UNCHANGED noticeVars
    BY <1>1 DEF ServiceReleases, Sound, LineOK, LentOK
  <2>3. enabled' = (holder' = "log")
    BY <1>1 DEF ServiceReleases
  <2>4. enabled' \in BOOLEAN /\ (holder' = "service" => ~enabled')
    BY ZenonT(60), <2>3
  <2>5. FlagsOK' /\ LentOK'
    BY <2>1, <2>2, <2>4 DEF Sound, FlagsOK, LentOK, noticeVars
  <2>6. LineOK'
    BY <2>2 DEF Sound, LineOK, noticeVars
  <2> QED  BY <2>1, <2>5, <2>6 DEF Sound
<1>2. CASE Unqueue
  <2>1. /\ UNCHANGED <<lines, current_index, partway, release, enabled, open, holder, midline, stale>>
        /\ UNCHANGED noticeVars /\ queue' \in 0 .. MaxWaiters
    BY <1>2 DEF Unqueue, Sound, ConsoleOK, Sizes
  <2>2. BufferOK(lines', current_index')
    BY <2>1 DEF Sound
  <2>3. ConsoleOK' /\ FlagsOK' /\ LineOK' /\ LentOK'
    BY <2>1 DEF Sound, ConsoleOK, FlagsOK, LineOK, LentOK, noticeVars
  <2> QED  BY <2>2, <2>3 DEF Sound
<1> QED  BY <1>1, <1>2

\* fd_event with something to write in the buffer keeps the invariant: the console is released only where a line has just been ended,
\* or no line is open and nothing is left to write.
LEMMA EventKeeps ==
  ASSUME Sizes, Sound, holder = "log", NEW c, EventOK(c), fd_event(c), ~WriteBeyond(c) PROVE Sound'
<1> USE DEF Sound
<1>1. CASE WriteNotice(c)
  <2>1. ~partway /\ UNCHANGED <<partway, stale>>
    BY <1>1 DEF WriteNotice, NoticeDue
  <2>2. CASE SplitNotice(c)
    <3>1. /\ UNCHANGED <<lines, current_index, open>> /\ KeepConsole(c)
          /\ special' = TRUE /\ discarded' \in BOOLEAN /\ msg_index' = 1 /\ midline' = TRUE
      BY <2>2 DEF SplitNotice, BeginNotice, Rearm, FlagsOK
    <3>2. special' \in BOOLEAN /\ enabled' \in BOOLEAN /\ midline' \in BOOLEAN
      BY <2>2 DEF SplitNotice, BeginNotice, Rearm, FlagsOK, EventOK
    <3>3. BufferOK(lines', current_index') /\ ConsoleOK' /\ holder' = "log"
      BY <3>1 DEF KeepConsole, ConsoleOK, EventOK
    <3>4. FlagsOK'
      BY <2>1, <3>1, <3>2 DEF FlagsOK
    <3>5. LineOK' /\ LentOK'
      BY ZenonT(60), <2>1, <3>1, <3>3 DEF LineOK, LentOK
    <3> QED  BY <3>3, <3>4, <3>5
  <2>3. CASE FinishNotice(c)
    <3>1. /\ BufferOK(lines', current_index') /\ ConsoleOK'
          /\ holder' = "service" => release'
      BY <2>3, ReleaseKeeps DEF FinishNotice
    <3>2. special' = FALSE /\ msg_index' = 0 /\ discarded' = FALSE /\ midline' = FALSE
      BY <2>3 DEF FinishNotice
    <3>3. UNCHANGED open /\ enabled' \in BOOLEAN /\ (holder' = "service" => ~enabled')
      BY ZenonT(60), <2>3 DEF FinishNotice, release_console, KeepConsole, Disarm, Rearm, FlagsOK, EventOK
    <3>4. msg_index' \in 0 .. 1 /\ msg_index' # 1
      BY <3>2
    <3>5. FlagsOK' /\ LineOK' /\ LentOK'
      BY ZenonT(60), <2>1, <3>1, <3>2, <3>3, <3>4 DEF FlagsOK, LineOK, LentOK
    <3> QED  BY <3>1, <3>5
  <2> QED  BY <1>1, <2>2, <2>3 DEF WriteNotice
<1>2. CASE NothingToWrite(c)
  <2>1. /\ BufferOK(lines', current_index') /\ ConsoleOK'
        /\ holder' = "service" => release'
    BY <1>2, ReleaseKeeps DEF NothingToWrite
  <2>2. /\ ~partway /\ ~midline /\ enabled' = FALSE /\ UNCHANGED open
        /\ UNCHANGED <<partway, midline, stale>> /\ UNCHANGED noticeVars
    BY <1>2 DEF NothingToWrite, NoticeDue, Disarm, LineOK
  <2> QED  BY ZenonT(60), <2>1, <2>2 DEF FlagsOK, LineOK, LentOK, noticeVars
<1>3. CASE WriteLine(c)
  <2>1. /\ partway \/ ~special
        /\ current_index # 0 /\ lines # <<>> /\ UNCHANGED stale /\ UNCHANGED noticeVars
    BY <1>3 DEF WriteLine, NoticeDue
  <2>2. msg_index = 0
    BY <2>1 DEF LineOK, FlagsOK
  <2>3. BufferOK(Consumed, IndexAfterLine) /\ BufferOK(Consumed, current_index)
    <3>1. /\ Consumed \in Seq(1 .. SIZE) /\ Ascending(Consumed) /\ lines[1] \in 1 .. SIZE
          /\ get_length(Consumed) = get_length(lines) - lines[1]
          /\ get_length(lines) \in 1 .. SIZE /\ lines[1] <= get_length(lines)
      BY ZenonT(60), <2>1, SoundTypes, ConsumedLines
    <3>2. current_index \in 0 .. SIZE /\ get_length(lines) <= current_index
      BY ZenonT(60) DEF Sound, BufferOK
    <3>3. PICK n, first : n = get_length(lines) /\ first = lines[1]  OBVIOUS
    <3>4. /\ IndexAfterLine \in 0 .. SIZE /\ get_length(Consumed) <= IndexAfterLine
          /\ get_length(Consumed) <= current_index
      BY <3>1, <3>2, <3>3 DEF IndexAfterLine, Sizes
    <3> QED  BY ZenonT(60), <3>1, <3>2, <3>4 DEF BufferOK
  <2>4. CASE /\ partway' = FALSE /\ midline' = FALSE
             /\ release_console(c, Consumed, IndexAfterLine) /\ Disarm
    <3>1. /\ BufferOK(lines', current_index') /\ ConsoleOK'
          /\ holder' = "service" => release'
      BY <2>3, <2>4, ReleaseKeeps
    <3> QED  BY ZenonT(60), <2>1, <2>2, <2>4, <3>1 DEF Disarm, FlagsOK, LineOK, LentOK, noticeVars
  <2>5. CASE /\ partway' = FALSE /\ midline' = FALSE
             /\ lines' = Consumed /\ current_index' = IndexAfterLine
             /\ Rearm(c) /\ KeepConsole(c)
    <3>1. BufferOK(lines', current_index') /\ ConsoleOK' /\ holder' = "log"
      BY <2>3, <2>5 DEF KeepConsole, ConsoleOK, EventOK
    <3>2. enabled' \in BOOLEAN /\ UNCHANGED open
      BY <2>5 DEF Rearm, FlagsOK, EventOK
    <3> QED  BY ZenonT(60), <2>1, <2>2, <2>5, <3>1, <3>2 DEF FlagsOK, LineOK, LentOK, noticeVars
  <2>6. CASE /\ partway' = TRUE /\ midline' = TRUE
             /\ lines' = Consumed
             /\ Rearm(c) /\ KeepConsole(c) /\ UNCHANGED current_index
    <3>1. BufferOK(lines', current_index') /\ ConsoleOK' /\ holder' = "log"
      BY <2>3, <2>6 DEF KeepConsole, ConsoleOK, EventOK
    <3>2. enabled' \in BOOLEAN /\ UNCHANGED open
      BY <2>6 DEF Rearm, FlagsOK, EventOK
    <3> QED  BY <2>1, <2>2, <2>6, <3>1, <3>2 DEF FlagsOK, LineOK, LentOK, noticeVars
  <2> QED  BY ZenonT(60), <1>3, <2>4, <2>5, <2>6 DEF WriteLine
<1>5. CASE WouldBlock(c) \/ WriteError(c)
  <2>1. /\ UNCHANGED <<lines, current_index, partway, msg_index, holder, midline, stale>>
        /\ queue' = c.queue /\ release' \in BOOLEAN
    BY ZenonT(60), <1>5 DEF WouldBlock, WriteError, KeepConsole, EventOK
  <2>2. /\ special' \in BOOLEAN /\ discarded' \in BOOLEAN /\ (special => special')
        /\ enabled' \in BOOLEAN /\ open' \in BOOLEAN
    BY ZenonT(60), <1>5 DEF WouldBlock, WriteError, BeginNotice, Rearm, FlagsOK, EventOK
  <2>3. BufferOK(lines', current_index') /\ ConsoleOK' /\ holder' = "log"
    BY <2>1 DEF ConsoleOK, EventOK
  <2> QED  BY <2>1, <2>2, <2>3 DEF FlagsOK, LineOK, LentOK
<1> QED  BY <1>1, <1>2, <1>3, <1>5 DEF fd_event, Written

\* release_console after the wrong write.
LEMMA ReleaseBeyond ==
  ASSUME Sizes, ConsoleOK, holder = "log", NEW c, EventOK(c), NEW ls, NEW i, LooseOK(ls, i),
         release_console(c, ls, i)
  PROVE  /\ LooseOK(lines', current_index') /\ ConsoleOK'
         /\ holder' = "service" => release'
<1>1. LooseOK(<<>>, 0)
  BY EmptyBuffer DEF BufferOK, LooseOK, Sizes
<1>2. CASE c.release
  <2>1. Pull(c.queue, ls, i) /\ c.queue \in 0 .. MaxWaiters
    BY <1>2 DEF EventOK, release_console
  <2>2. queue' \in 0 .. MaxWaiters
    BY <2>1 DEF Sizes, Pull
  <2>3. holder' \in {"log", "service"} /\ release' \in BOOLEAN /\ (holder' = "service" => release')
    BY ZenonT(60), <2>1 DEF Pull
  <2>4. LooseOK(lines', current_index')
    BY ZenonT(60), <1>1, <2>1 DEF Pull
  <2> QED  BY <2>2, <2>3, <2>4 DEF ConsoleOK
<1>3. CASE ~c.release
  BY <1>3 DEF EventOK, release_console, KeepConsole, ConsoleOK
<1> QED  BY <1>2, <1>3

\* fd_event with an empty buffer and an index left: the write is wrong, but it too ends at a newline
\* before it hands the console over.
LEMMA BeyondKeeps ==
  ASSUME Sizes, Sound, holder = "log", NEW c, EventOK(c), WriteBeyond(c) PROVE Beyond'
<1> USE DEF Sound, Beyond
<1>1. /\ partway \/ ~special
      /\ current_index # 0 /\ stale' = TRUE /\ UNCHANGED noticeVars
  BY DEF WriteBeyond, NoticeDue
<1>2. msg_index = 0
  BY <1>1 DEF LineOK, FlagsOK
<1>3. LooseOK(lines, current_index) /\ \A n \in 1 .. SIZE : LooseOK(lines, current_index - n)
  BY DEF BufferOK, LooseOK, Sizes
<1>4. ASSUME NEW n \in 1 .. SIZE, partway' = FALSE, midline' = FALSE,
             release_console(c, lines, current_index - n), Disarm
      PROVE  Beyond'
  <2>1. /\ LooseOK(lines', current_index') /\ ConsoleOK'
        /\ holder' = "service" => release'
    BY <1>3, <1>4, ReleaseBeyond
  <2> QED  BY ZenonT(60), <1>1, <1>2, <1>4, <2>1 DEF Disarm, FlagsOK, LineOK, LentOK, noticeVars
<1>5. ASSUME NEW n \in 1 .. SIZE, partway' = FALSE, midline' = FALSE,
             current_index' = current_index - n, Rearm(c), KeepConsole(c), UNCHANGED lines
      PROVE  Beyond'
  <2>1. LooseOK(lines', current_index') /\ ConsoleOK' /\ holder' = "log"
    BY <1>3, <1>5 DEF KeepConsole, ConsoleOK, EventOK
  <2>2. enabled' \in BOOLEAN /\ UNCHANGED open
    BY <1>5 DEF Rearm, FlagsOK, EventOK
  <2> QED  BY ZenonT(60), <1>1, <1>2, <1>5, <2>1, <2>2 DEF FlagsOK, LineOK, LentOK, noticeVars
<1>6. CASE /\ partway' = TRUE /\ midline' = TRUE
           /\ Rearm(c) /\ KeepConsole(c) /\ UNCHANGED <<lines, current_index>>
  <2>1. LooseOK(lines', current_index') /\ ConsoleOK' /\ holder' = "log"
    BY <1>3, <1>6 DEF KeepConsole, ConsoleOK, EventOK
  <2>2. enabled' \in BOOLEAN /\ UNCHANGED open
    BY <1>6 DEF Rearm, FlagsOK, EventOK
  <2> QED  BY <1>1, <1>2, <1>6, <2>1, <2>2 DEF FlagsOK, LineOK, LentOK, noticeVars
<1>7. CASE KeepConsole(c) /\ UNCHANGED <<lines, current_index, partway, enabled, open, midline>>
  <2>1. LooseOK(lines', current_index') /\ ConsoleOK' /\ holder' = "log"
    BY <1>3, <1>7 DEF KeepConsole, ConsoleOK, EventOK
  <2> QED  BY <1>1, <1>7, <2>1 DEF FlagsOK, LineOK, LentOK, noticeVars
<1> QED  BY ZenonT(60), <1>4, <1>5, <1>6, <1>7 DEF WriteBeyond

\* append_console_queue, with the flush that asks the log for the console.
LEMMA QueueKeeps ==
  ASSUME Sizes, Sound, QueueForConsole PROVE IInv'
<1>1. queue < MaxWaiters /\ queue + 1 \in 0 .. MaxWaiters /\ 1 \in 0 .. MaxWaiters
  BY DEF QueueForConsole, Sound, ConsoleOK, Sizes
<1>2. CASE queue = 0 /\ ~release
  <2>1. holder = "log"
    BY <1>2 DEF Sound, ConsoleOK, LentOK
  <2>2. EventOK([release |-> TRUE, queue |-> 1, event |-> FALSE])
    BY <1>1 DEF EventOK
  <2> QED  BY <1>2, <2>1, <2>2, EventKeeps, BeyondKeeps DEF QueueForConsole, IInv
<1>3. CASE ~(queue = 0 /\ ~release)
  <2>1. /\ UNCHANGED <<lines, current_index, partway, release, enabled, open, holder, midline, stale>>
        /\ UNCHANGED noticeVars /\ queue' = queue + 1
    BY ZenonT(60), <1>3 DEF QueueForConsole
  <2>2. BufferOK(lines', current_index')
    BY <2>1 DEF Sound
  <2>3. ConsoleOK' /\ FlagsOK' /\ LineOK' /\ LentOK'
    BY <1>1, <2>1 DEF Sound, ConsoleOK, FlagsOK, LineOK, LentOK, noticeVars
  <2> QED  BY <2>2, <2>3 DEF Sound, IInv
<1> QED  BY <1>2, <1>3

\* The stream before the first message.
LEMMA IInvInit == ASSUME Sizes, Init PROVE Sound
<1>1. BufferOK(lines, current_index)
  BY EmptyBuffer DEF Init
<1>2. queue \in 0 .. MaxWaiters /\ msg_index \in 0 .. 1 /\ msg_index # 1
  BY DEF Init, Sizes
<1> QED  BY ZenonT(60), <1>1, <1>2 DEF Init, Sound, ConsoleOK, FlagsOK, LineOK, LentOK

\* Every step keeps the invariant.
LEMMA IInvStep == ASSUME Sizes, IInv, [Next]_vars PROVE IInv'
<1>1. CASE Sound /\ FdEvent
  <2>1. holder = "log"
    BY <1>1 DEF FdEvent, Sound, ConsoleOK, LentOK
  <2>2. EventOK(OutEvent)
    BY <1>1 DEF EventOK, OutEvent, Sound, ConsoleOK
  <2> QED  BY <1>1, <2>1, <2>2, EventKeeps, BeyondKeeps DEF FdEvent, IInv
<1>2. CASE UNCHANGED vars
  <2>1. CASE Sound
    <3>1. BufferOK(lines', current_index')
      BY <1>2, <2>1 DEF Sound, vars
    <3>2. ConsoleOK' /\ FlagsOK' /\ LineOK' /\ LentOK'
      BY <1>2, <2>1 DEF Sound, ConsoleOK, FlagsOK, LineOK, LentOK, vars
    <3> QED  BY <3>1, <3>2 DEF Sound, IInv
  <2>2. CASE Beyond
    <3>1. LooseOK(lines', current_index')
      BY <1>2, <2>2 DEF Beyond, vars
    <3>2. stale' /\ ConsoleOK' /\ FlagsOK' /\ LineOK' /\ LentOK'
      BY <1>2, <2>2 DEF Beyond, ConsoleOK, FlagsOK, LineOK, LentOK, vars
    <3> QED  BY <3>1, <3>2 DEF Beyond, IInv
  <2> QED  BY <2>1, <2>2 DEF IInv
<1>3. ~stale => Sound
  BY DEF IInv, Beyond
<1> QED  BY <1>1, <1>2, <1>3, LogKeeps, ConsoleKeeps, QueueKeeps DEF Next, Undefined, IInv

\* What the invariant says of types and of the console.
LEMMA IInvTypes == ASSUME Sizes, IInv PROVE TypeOK /\ HandoverAtLineEnd
<1>1. CASE Sound
  BY <1>1, SoundTypes DEF Sound, LentOK, HandoverAtLineEnd
<1>2. CASE Beyond
  BY <1>2 DEF Beyond, LooseOK, ConsoleOK, FlagsOK, LentOK, TypeOK, HandoverAtLineEnd
<1> QED  BY <1>1, <1>2 DEF IInv

\* The buffer, its index and the flags keep their types: what fits is accepted, the rest is
\* discarded, and consuming a line (fd_event) never takes more than the buffer holds, until bytes
\* other than its contents are written.
THEOREM LogTypeCorrect == ASSUME Sizes PROVE Spec => []TypeOK
<1>1. Init => IInv
  BY IInvInit DEF IInv
<1>2. IInv /\ [Next]_vars => IInv'
  BY IInvStep
<1>3. IInv => TypeOK
  BY IInvTypes
<1> QED  BY <1>1, <1>2, <1>3, PTL DEF Spec

\* A service gets the console only after the log has ended the line it was writing, however
\* messages, writes that are complete, split, partial or fail, and the requests for the console
\* follow each other: release_console is only reached at the end of a line.  (Behaviours end with the
\* first write of bytes that are not contents.)
THEOREM HandoverCorrect == ASSUME Sizes PROVE Spec => []HandoverAtLineEnd
<1>1. Init => IInv
  BY IInvInit DEF IInv
<1>2. IInv /\ [Next]_vars => IInv'
  BY IInvStep
<1>3. IInv => HandoverAtLineEnd
  BY IInvTypes
<1> QED  BY <1>1, <1>2, <1>3, PTL DEF Spec

-----------------------------------------------------------------------------
(* Without lines written in part *)

\* The index is the length of the buffer, after every step.
LEMMA IndexStep ==
  ASSUME Sizes, "partial" \notin Outcomes, Sound, IndexOK, [Next]_vars PROVE IndexOK'
<1> DEFINE KeepsIndex == current_index' = get_length(lines')
<1>1. \A ls, i, q : i = get_length(ls) /\ Pull(q, ls, i) => KeepsIndex
  BY DEF Pull, get_length
<1>2. \A c, ls, i : i = get_length(ls) /\ release_console(c, ls, i) => KeepsIndex
  BY ZenonT(60), <1>1 DEF release_console
<1>3. CASE LogMessage \/ LogParts
  <2>a. UNCHANGED partway /\ (UNCHANGED stale \/ rollback_msg)
    BY <1>3 DEF LogMessage, LogParts
  <2>b. rollback_msg => ~stale'
    BY ZenonT(60) DEF rollback_msg, IndexOK
  <2>1. ~partway' /\ ~stale'
    BY <2>a, <2>b DEF IndexOK
  <2>2. current_index' = get_length(lines') \/ UNCHANGED <<lines, current_index>>
    BY <1>3 DEF LogMessage, LogParts, rollback_msg, commit_msg
  <2> QED  BY <2>1, <2>2 DEF IndexOK
<1>4. CASE ServiceReleases \/ Unqueue
  BY <1>1, <1>4 DEF ServiceReleases, Unqueue, IndexOK
<1>5. ASSUME NEW c, fd_event(c) PROVE IndexOK'
  <2>1. CASE WriteNotice(c)
    BY <1>2, <2>1 DEF WriteNotice, SplitNotice, FinishNotice, IndexOK
  <2>2. CASE NothingToWrite(c)
    BY ZenonT(60), <1>2, <2>2 DEF NothingToWrite, IndexOK
  <2>3. CASE WriteLine(c)
    <3>1. IndexAfterLine = get_length(Consumed)
      BY <2>3, SoundTypes, ConsumedLines DEF WriteLine, IndexAfterLine, IndexOK
    <3> QED  BY <1>2, <2>3, <3>1 DEF WriteLine, IndexOK
  <2>4. ~WriteBeyond(c)
    BY DEF WriteBeyond, IndexOK, get_length
  <2>5. CASE WouldBlock(c) \/ WriteError(c)
    BY <2>5 DEF WouldBlock, WriteError, IndexOK
  <2> QED  BY <1>5, <2>1, <2>2, <2>3, <2>4, <2>5 DEF fd_event, Written
<1>6. CASE FdEvent
  BY <1>5, <1>6 DEF FdEvent
<1>7. CASE QueueForConsole
  BY ZenonT(60), <1>5, <1>7 DEF QueueForConsole, IndexOK
<1>8. CASE UNCHANGED vars
  BY <1>8 DEF vars, IndexOK
<1> QED  BY <1>3, <1>4, <1>6, <1>7, <1>8 DEF Next, Undefined

\* Where no line is written in part, fd_event writes only what the buffer holds.  (A partial write
\* leaves current_index behind the buffer, and then it does not.)
THEOREM ContentsCorrect ==
  ASSUME Sizes, "partial" \notin Outcomes PROVE Spec => []WritesOnlyContents
<1>1. Init => IInv /\ IndexOK
  BY ZenonT(60), IInvInit DEF Init, IInv, IndexOK, get_length
<1>2. (IInv /\ IndexOK) /\ [Next]_vars => (IInv /\ IndexOK)'
  <2>1. IInv /\ IndexOK => Sound
    BY DEF IInv, IndexOK, Beyond
  <2> QED  BY <2>1, IInvStep, IndexStep
<1>3. IInv /\ IndexOK => WritesOnlyContents
  BY DEF IndexOK, WritesOnlyContents
<1> QED  BY <1>1, <1>2, <1>3, PTL DEF Spec
=============================================================================

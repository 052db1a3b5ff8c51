---------------------------- MODULE MCLogStream ----------------------------
(***************************************************************************)
(* The console stream of the log in several setups, in one run: what a     *)
(* write can come to, and what the services that want the console may do.  *)
(* R(n) is the specification with the constants of setup n; the invariants *)
(* are those of LogStream, which use no constant.                          *)
(***************************************************************************)
EXTENDS LogStream

CONSTANT Use
VARIABLE setup
setupVars == <<setup, vars>>

With(size, msg, outcomes, quick, withdraw) ==
  [size |-> size, msg |-> msg, outcomes |-> outcomes, quick |-> quick, withdraw |-> withdraw]
Setup ==
  [\* services that wait for the console until they get it
   patient |-> With(4, 2, {"again", "split"}, FALSE, FALSE),
   \* services that leave the queue, or give the console back at once
   handover |-> With(4, 2, {"again", "split"}, TRUE, TRUE),
   \* lines that are written in part, and errors
   faults |-> With(3, 2, {"again", "split", "partial", "error"}, TRUE, TRUE),
   \* The setups below show the disagreements listed in the README.
   partial |-> With(3, 2, {"partial"}, FALSE, TRUE),
   error |-> With(3, 2, {"error"}, FALSE, TRUE),
   oversize |-> With(2, 3, {"again", "split"}, FALSE, TRUE)]

R(n) == INSTANCE LogStream WITH
  SIZE <- Setup[n].size, MaxMsg <- Setup[n].msg, MaxWaiters <- 2, Outcomes <- Setup[n].outcomes,
  QuickRelease <- Setup[n].quick, Withdraw <- Setup[n].withdraw

SetupInit == \E n \in Use : setup = n /\ R(n)!Init
SetupNext == \E n \in Use : setup = n /\ R(n)!Next /\ UNCHANGED setup
SetupSpec == SetupInit /\ [][SetupNext]_setupVars
\* The console is writable again and again.
FairSetups ==
  /\ SetupSpec
  /\ WF_setupVars(\E n \in Use : setup = n /\ enabled /\ open /\ ~stale
                                 /\ R(n)!Written(R(n)!OutEvent) /\ UNCHANGED setup)

\* "Console logging will be disabled on the completion of output of the current message, at which
\* point the first service record queued will acquire the console" (enable_console_log): a service
\* that waits for the console gets it, unless a write failed or services left the queue.
ConsoleHandedOver ==
  setup \notin {"handover", "faults"} /\ holder = "log" /\ queue > 0
    ~> holder = "service" \/ queue = 0
=============================================================================

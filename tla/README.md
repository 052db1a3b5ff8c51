# A formal model of dinit

dinit is a service manager and init system: it loads service descriptions, keeps a graph of
service records, starts and stops them in dependency order, supervises their processes, and
takes commands from control connections. It is a single-threaded program around an event loop
(dasynq). What makes it hard to get right is not parallel code: it is the number of handlers
that touch the same few counters and flags, the two work queues through which they talk to each
other, and the orders in which the outside world (processes, timers, sockets, operators, memory
that runs out) calls them.

This directory holds TLA+ modules translated from the source, TLC configurations that check
them on small instances, and TLAPS proofs of some properties for instances of every size.
`PROJECT.json` lists components, runs, mutants, the map from definitions to source lines,
findings, hazards and theorems.

## How to run it

    tlc -workers 2 -config services.cfg MCSetups      (each run: name.cfg and its module)
    tlapm ActivationProofs.tla                        (each proof module by itself)

The proof modules are `StackProofs`, `TypeProofs`, `GraphProofs` and `ActivationProofs` (the
service set), `ControlProofs`, `CPBufferProofs`, `LogProofs` and `ClientProofs`. tlapm
checks the proofs of the one module it is given, so each of them has to be run; none takes more
than seven minutes, and all of them less than half an hour.

A run covers several *setups*: the record `Setup` of its module gives each one's constants, the
constant `Use` in the cfg names those of the run, and the initial state picks one of them. A
run therefore is the union of the state spaces of its setups.

A run whose name starts with `v_` is expected to end in a counterexample: it states what a
comment or the documentation says, and TLC shows a behaviour of the code that does otherwise
(see Findings). All others pass. More such disagreements are shown by setups that no listed run
uses; they are collected below, with what to check to see each of them.

Definitions that read like a slip (`InterruptedForGood`, `StopFlagOnly`, `DequeueLeaves`, ...)
stand just before the definition they vary. No specification uses them. They are the mutants: put
in place of the definition, each makes the property it is listed with fail.

## How the parts fit together

The event loop (`EventLoop`) calls one handler at a time, so that in the other models a callback
is never interleaved with another. The handlers of processes and timers (`ProcService`,
`ScriptService`) and of control connections (`ControlConn`) call the service records
(`ServiceRecord`), which queue work for each other and do it before the handler returns
(`ServiceSet`). The records are made by the loader (`Loader`), and hand the console to each other
through the log (`LogStream`). `ControlConn` and `Client` are the two ends of a connection.
`ServiceSet` composes records, processes, queues, console and commands; the other models meet
it through what they assume of each other: `LogReleasesConsole` is assumed fair in `FairSpec` and
is what `ConsoleHandedOver` shows of the log; the events of `Client` are those of `ControlConn`;
whether the termination of a process may be seen before its exec status, which depends on what
the event loop finds in one round, is a constant (`StatusRace`, `ExitFirst`).

## The parts of the system

| part | source | modules | status |
|---|---|---|---|
| service records and dependency graph | service.cc, service.h, service-constants.h, service-listener.h, dinit-ll.h | ServiceBase, ServiceRecord, ServiceSet, ServiceProperties, ServiceTypes, MCServiceSet, MCSetups, StackProofs, TypeProofs, GraphProofs, ActivationProofs | modelled |
| process services | proc-service.cc, baseproc-service.cc, proc-service.h | ProcService | partly |
| control connections | control.cc, control.h, control-cmds.h, control-datatypes.h | ControlConn, MCControlConn, ControlProofs | partly |
| circular buffer | cpbuffer.h | CPBuffer, BoundedFifo, CPBufferProofs | modelled |
| log streams | dinit-log.cc, dinit-log.h | LogStream, MCLogStream, LogProofs | partly |
| service loader | load-service.cc, load-service.h | Loader, MCLoader | partly |
| scripted and bgproc services | proc-service.cc, baseproc-service.cc, proc-service.h | ScriptService, MCScriptService | partly |
| control programs | dinitctl.cc, dinit-monitor.cc, dinit-client.h | Client, MCClient, ClientProofs | partly |
| event loop (dasynq) | dasynq.h, epoll.h, childproc.h, basewatchers.h, stableheap.h | EventLoop, MCEventLoop | partly |
| timer queue and heap (dasynq) | timerbase.h, timerfd.h, daryheap.h | TimerQueue, DaryHeap | partly |
| other dasynq backends | kqueue.h, select.h, pselect.h, signal.h, itimer.h, posixtimer.h, kqueue-macos.h | - | not modelled |
| containers and support of dasynq | btree_set.h, svec.h, mutex.h, interrupt.h, flags.h, util.h, config.h | - | not modelled |
| process launch in the child | run-child-proc.cc | - | not modelled |
| start-up and main loop | dinit.cc, dinit-main.cc, dinit.h, dinit-socket.h | ProcService, ControlConn, Client | partly |
| description parser and checker | dinitcheck.cc, load-service.h, service-dir.h, options-processing.cc, options-processing.h | - | not modelled |
| shutdown program | shutdown.cc | - | not modelled |
| environment and other helpers | dinit-env.cc, dinit-env.h, dinit-utmp.h, dinit-util.h, static-string.h, baseproc-sys.h | - | not modelled |
| tests | tests.cc, proctests.cc, loadtests.cc, envtests.cc, igr-runner.cc | - | not modelled |

## Service records, the dependency graph and processes

`ServiceBase` (state, call stack, predicates), `ServiceRecord` (service.cc), `ProcService`
(proc-service.cc, baseproc-service.cc), `ServiceSet` (service_set in service.h, the commands of
control.cc that reach records, shutdown), `ServiceProperties`, `ServiceTypes`, and the instances
in `MCSetups` and `MCServiceSet`.

**State.** `service_state`, `desired_state`, `required_by`, `flags` (the boolean members),
`prop` (prop_require, prop_release, prop_start, prop_stop, prop_failure, ...), the links
`depends_on`/`dependents` with `holding_acq` and `waiting_on`, the propagation and transition
queues, the console queue, `active_services`, and `ps[s]`, the set of things the process side of
a record has (a pid, an awaited exec status, an armed timer and what it stands for, a stop
command, a notification pipe).

**Steps.** The code is deeply mutually recursive (`do_stop` -> `stop_dependents` ->
`prop_queue` -> `do_propagation` -> `do_stop` ...), and its loops over links change state that
the next round reads. So a handler is not one step. `stack` is the C++ call stack: each frame
names a function (or a loop over links with what is left to do), a step runs the function on top
up to its next call, and an event is taken only when the stack is empty. The handlers of one
event are therefore never interleaved with another event, as in the program, but every
intermediate state is checked.

**Environment.** Operators give any command of `Commands` at any time; a process execs, fails to
exec, reports readiness, or exits at any time; an armed timer expires at any time; launching a
process may fail. The work lists are the intrusive lists of dinit-ll.h, with their membership
test (`is_queued`) as it is written.

**Exec status and termination** are two events. The pipe is readable before the process can be
reaped, so both are found in the same round of the event loop, but a command or a timer found in
that round may be handled between them (`StatusRace`). The runs allow that in every setup but
those of `Ordered`, `restart` and `recovery`: there a start timeout that comes between is taken for
a delayed restart, which is listed below.

### What the runs show

| run | setup | instance |
|---|---|---|
| services, types | chain | three services in a chain, with wake and restart |
| services | start_pins, pins | a pair, with start and stop pins, wake, release |
| services, types | dynamic | three services, links added, enabled and removed as they run; one of them of a type for which the reply says "bad request" and which is added all the same |
| services, types | wake | waits-for below a hard link: a new require overtakes a release |
| services; types (milestone) | soft, milestone | soft, waits-for, milestone and ordering links, above a process |
| processes | restart, notify, recovery | one process: restart limit and timeouts, readiness, smooth recovery |
| processes | process_pair | a process that depends on a process |
| processes | vee | two processes on one dependency |
| types | stop_command | a process with a stop command in the middle of a chain |
| processes | console, chaining | two services that want the console; a chained service |
| types | consoles | two processes that start on the console, on one dependency |

`services` checks the counts, the orders, that no service is left in STARTING or STOPPING with
nothing to end that, pins and (under `FairSpec`) that a shutdown completes. `processes` checks
what processes add: one at a time, bounded stops, clean stopped services, the count on which the
main loop ends, and that nothing starts after a shutdown began. `types` checks, step by step
within handlers, the three invariants that are proved for every graph. None of them deadlocks.
Some properties do not hold in every setup: `UpHoldsDeps`, `StopOrder` and `StoppingProgresses`
(the half of `NothingStuck` about services that stop) fail in setups with processes (`process_pair`, `vee`, `restart`), and `OneProcess` where a stop
is taken back (`stopped_pair`). Each is claimed for the setups of its run, and the others are
listed under the findings and disagreements.

**Bounds.** There are no counters to cap except the number of services and links: `required_by`
is bounded by the links, the restart limit is left open (whether the limit is reached is a
choice), so each run is the complete state space of its instance. Pairs and triples are
enough for every path of the code that looks at a link, at a link of a link (propagation through
a middle service) and at two links of one service (the first of two dependents).

**Fairness** (`FairSpec`). A handler runs to its end (single thread), an awaited exec status
arrives (exec or exit closes the pipe), an armed timer expires, a killed process ends, the log
finishes its message. Nothing is assumed of processes that were not killed. Liveness is claimed
for behaviours in which operators stop giving commands, which is the `<>[][~OperatorStep]_vars`
premise.

### What is proved

The theorems of `ActivationProofs` hold for every finite set of services, every graph, every
assignment of types and options, and in every state, those in the middle of a handler included.

- `TypeCorrect`: the types, and that the stack holds only calls the code makes.
- `ActivationsCounted`: `required_by` of a service is at least the number of links that hold it
  plus one for an explicit start. Inside handlers the count may be ahead of the links
  (`do_propagation` calls `require()` and then sets `holding_acq`); between events the two are
  equal in the instances checked (`ActivationExact`, with TLC).
- `ConsoleHasOwner`: the console belongs to the log or to one service, or is being handed on by
  the call that runs.
- `BringUpIsReady`: `bring_up()` finds its service STARTING, waiting for nothing, with the console
  if it needs it.
- `PinBlocksStarts` (an action property): no step takes a service that is pinned stopped into
  STARTING.
- `GraphStaysAcyclic`: if the loaded graph has no cycle, no sequence of commands makes one. The
  hypothesis is what the loader checks, except for ordering links (see the disagreements).

The run `types` checks the first three. `BringUpReady`, `PinBlocksStart` and `GraphAcyclic` hold on
its setups too (put them in `types.cfg`; a minute more), but are in no listed run.

**The inductive invariant** of the first five is
`IInv == DataOK /\ StackOK /\ GraphOK /\ ActivationCounted /\ ConsoleOwned`.
`ActivationCounted` is not inductive: `release()` in the middle of a loop takes away an
activation, and is right to only because its caller has just seen that it is held. That is a fact
about the stack. `StackOK` says that some calls are *hurried*: they are executed as soon as they
are made, so that they are only ever on top of the stack, and what the caller tested (the
*warrant*) still holds: the link is held, nobody has the console, the dependencies are started,
the pin is not set. All frames below are *calm*: they rely on nothing, and test again. `GraphOK`
(a link is in the lists of the services it joins and in no others) is what lets a loop over the
links of a service be counted as links of that service. `DataOK` are the types of what is not on
the stack, kept apart because the two are proved by different arguments.

- `StackProofs`: frames, warrants, and the facts about lists, pushes and pops that all steps use;
  every step leaves the stack in order, with the warrant of the call it made; the console.
- `TypeProofs`: every step keeps the types; which steps touch the graph or start a service.
- `GraphProofs`: what each step does to held links and counts, as cardinalities of finite sets;
  and that the search of `add_service_dep()` finds every cycle. A cycle is a set of services each
  of which has a link into the set, so no induction over paths is needed; that the search is
  complete takes the least of a set of numbers, from the well-foundedness of `<`.
- `ActivationProofs`: the invariant put together, one step per action of `Next`.

**What is assumed**: `Services` is finite, links join services, and the tables of types, options
and the loaded graph range over them (the named ASSUMEs of `ServiceBase`, which TLC evaluates
on every run of the service set).

**What is only model-checked**: liveness (`ShutdownCompletes`), which is out of the prover's reach;
`StopOrder`, `UpHoldsDeps`, `OneProcess`, `StoppedHasNoProcess`, `ActiveCount` and half of
`NothingStuck`, for which the disagreements below have instances where they fail, so that they are
claims about the instances of their runs; and the properties of the state between two events
(`ActivationExact`, `StartOrder`, `PinnedStaysStopped`, `StopIsBounded`, `NoStartAfterShutdown`).
These would need an invariant that says, of every calm frame, what it is still going to do, and
they are claimed for the instances of their runs only.

## Control connections: `ControlConn`, `ControlProofs`, `MCControlConn`

One record per connection with the members of control_conn_t that its callbacks use: the length
of the received data, `chklen`, the queue of output packets with `outbuf_size` and
`outpkt_index`, `bad_conn_close`, `oom_close`, the watch flags, the handles. A callback is a
sequence of steps (`cb`): read, the loop over packets, one action per command, the reply, the
output, the watches. Service events come between callbacks. Packets are abstracted to a command,
a handle and whether the request is well formed, replies to a length in units. `SizeMod` is the
modulus of `outbuf_size`, small so that a wrap shows. `MaxPending`, `MaxOut`, `MaxHandle`,
`MaxLoads` bound the environment (requests in flight, output that the peer has not read, handles,
generations of a record).

The setups of `control` split the commands by the shape of their replies: `short` and `refusals`
have replies of fixed length, for which `AcceptsCommands` is claimed, `handles`, `unload`,
`other` and `invalid` the rest. Replies queued through the vector path stall a connection, and a second handle
for the same service on one connection can outlive its record; both are disagreements listed
below. `RequestsServed` is claimed for `short`, under the fairness that callbacks run to their
end and that a connection that is ready is served. A connection may be closed, and a stalled one
does nothing more, so the run has CHECK_DEADLOCK FALSE.

**Proved** (`ControlProofs`): `HandlesStayValid`, that no handle ever refers to a record that was
unloaded or replaced, for any number of connections, services and handles (`MaxHandle` is a natural
number; nothing else is assumed of the constants) and any sequence of requests, provided that no
connection ever has two handles for one record (`OneHandleEach`). The proviso is about behaviours,
`[]OneHandleEach`, because the code does not enforce it: every find, every load and every gentle
stop that reports dependents allocates a new handle, and with two of them the property is false
(setup `two_handles`). The setup `unload` of the run has one handle per connection, so that its
behaviours are among those the theorem is about. `NoDanglingHandle` is not inductive:
process_unload_service() and process_reload_service() look at has_lone_ref(), which counts listeners
and knows nothing of handles. The invariant `HInv` adds what ties the two: a connection with a
handle is a listener of the record, the handle is in both maps, no handle is given out
twice, and the listeners of a record are finitely many, so that "one listener" means that it is the
connection that asks. The proof has a lemma for each request that gives out or drops handles, and
one for each group of steps that leave them alone. The handle that allocate_service_handle() finds is
new because the least of a set of numbers is in the set, from the well-foundedness of `<`.

`AcceptsCommands` holds only for the setups with short replies, and `RequestsServed` is liveness;
both stay with TLC.

## The circular buffer: `CPBuffer`, `BoundedFifo`, `CPBufferProofs`

`CPBuffer` has one action per operation of cpbuffer.h; `BoundedFifo` says what a buffer of
capacity SIZE promises. The refinement mapping reads the contents off from the current index
around the array. `SpanCorrect` and `BufferIsFifo` are proved for every SIZE and every alphabet;
the argument is arithmetic on indices that are at most one SIZE too large.

## Log streams: `LogStream`, `LogProofs`

The console stream of dinit-log.cc: `lines` is what the buffer holds, as the places of its
newlines, `current_index` the member. `midline` and `stale` are history: part of a line is out;
bytes that were not part of the contents were written. Writes may be refused, split at the wrap,
partial, or fail (`Outcomes`). `QuickRelease`, `Withdraw` say whether a service that gets the
console gives it back at once and whether a waiting service may give up. Setups: `patient`
(services wait until served, no failures), `handover` (they may leave the queue or give the
console back at once), `faults` (partial writes and errors). `HandoverAtLineEnd` is checked in
all three, `ConsoleHandedOver` in `patient`, under the fairness that a watched console becomes
writable. `SIZE`, `MaxMsg` and `MaxWaiters` bound the buffer (3 or 4 units), a message (2) and the
services in the queue (2): enough for a full buffer, a discarded message (at its first part or at a
later one) and a second waiter.

After a partial write the next one takes bytes that are not contents, which is listed below. That write is
modelled with all it does (`WriteBeyond`: it may end a line, hand over the console, be partial
again, or search a range whose end is before its start). There the model ends (`Undefined`): more was consumed than the
buffer held, its length has wrapped, and the next message may be stored outside of the array. `FairSetups` and
the properties speak of behaviours up to and including that write.

**Proved** (`LogProofs`), for every buffer size, message length and length of the queue (`Sizes`:
these are natural numbers): `LogTypeCorrect`; `HandoverCorrect`, that a service
gets the console only at the end of a line whatever happens to the writes; and `ContentsCorrect`,
that only contents are written, as long as no line is written in part (after a partial write
`current_index` no longer fits the buffer, which is listed below). The invariant ties the
flags together: no line is half out unless `partway` or the notice says so, the console is
lent only with the watch off and nothing half out, and the places of newlines increase up to the
length of the contents (`Sound`); after a write of other bytes only the flags can be relied on
(`Beyond`), and they are enough for the hand-over. `ConsoleHandedOver` is liveness and stays with TLC.

## The service loader: `Loader`, `MCLoader`

A load is one uninterrupted call that recurses into loads of dependencies. It is modelled by
recursive operators from graph to graph, so that a failure deep in the recursion runs the
clean-ups of every level, as exceptions do; the actions are load, reload, unload, the edit of a
service description and the start of services. `dangling` collects what the code leaves pointing
to a deleted record. `MCLoader` gives, per setup, the descriptions that each of three services may have: `graph` (hard
and soft dependencies), `order` ("before" and "after", with placeholders), `running` (reloads of
started services), `consumer` (log consumers). Three services are enough for a cycle through a
service that is being loaded, for a placeholder with two referrers and for a failure below a
failure. `Acyclic` is not claimed for `order`.
The module has no theorems, since its operators are recursive.

## Scripted and bgproc services: `ScriptService`, `MCScriptService`

One service without dependencies: `s` has the members of the record that the callbacks of
scripted_service and bgproc_service read, `proc`, `hurt` and `pipe` the processes it has (start
command or launcher, daemon, stop command), the signals they got and their exec status pipes.
`dirty` and `wrong` are history: whether a start command has had an effect that no stop command
has undone, and whether a command was run beside another or again. A callback is a function from
configuration to configuration that includes the whole handler, `process_queues()` at its end
included; what it cannot control (`Choices`) is picked outside.

Setups: `script`, `interrupted`, `skipped`, `timed` (scripted services), `daemon`, `signalled`,
`untracked`, `recovering` (bgproc). `MaxCommands` bounds the start and restart commands, and
`MaxRestarts` is the restart limit, whose interval does not lapse. Since commands run out and a
stopped service then stays stopped, the run has CHECK_DEADLOCK FALSE.

**Fairness.** As long as the event loop has something to dispatch (an exec status, the end of a
child, an armed timer) or a process has to go on (to `exec()`, or to end: a command by itself, a daemon after a signal), one of
these happens. A process that is `Stubborn` need
not end before it is killed. Under this, `StopCompletes` says that a stop leads to STOPPED for
services without smooth recovery; with it, the code does not guarantee that (see below).

## Control programs: `Client`, `ClientProofs`, `MCClient`

dinitctl and dinit-monitor at their end of a connection. `wire` holds the fields of the packets
sent and not yet consumed, `buf` how many of them are in the program's buffer, so that a packet
arrives in pieces and events come anywhere between replies. `pc` is the point of the program,
with one action for each: the request, how far the reply is read, what is taken off the buffer
and what is concluded. The daemon is reduced to a request handler and one service (`Serve`,
`Settle`, `Meanwhile`); `Sync` says whether a transition may finish while its request is handled.
`sv.forced` is force_stop: a forced stop is not cancelled by a start, which is why a restart has
the service down in between. `since` and `told` are history for `SuccessIsTrue` and
`ReportIsCurrent`.

The stream may end wherever the daemon may close the connection, in the middle of a packet too:
the program then exits with status 1, but for the two places where the code goes on. A list of
dependents that is cut is taken for what the buffer happens to hold (`DependentsCutShort`). A
service record that lacks its last byte is used all the same, and the length of the buffer
wraps (`RecordCutShort`): from then on the program reads what it has not received, and the model
ends there with either exit status. The constant `ShortRecords` says whether that can happen.
The daemon writes a record with one call, so it is FALSE in all setups but two: `cut_record`,
with a command whose exit status promises nothing, and `short_record`, which is listed below.

Setups: `requests` (all commands that do not wait), `dropped` (the connection ends at any point),
`running`, `dying`, `depended`, `prompt` (commands that wait, with a service that fails, dies, is
held, or is done at once), `enabling`, `watching` (dinit-monitor with a service that others start
and stop), `cut_record` (see above). `MaxMoves` bounds what others do. A program exits, so CHECK_DEADLOCK is FALSE.
**Fairness**: the program, the daemon and the service go on as long as one of them can. `Returns`
is not claimed of the monitor, which has no end.

**Proved** (`ClientProofs`): `ClientInStep` and `SuccessCorrect`, for every set of command lines
that main() can make (`CommandLines`: only enabling and disabling are done offline, only what
stops a service may ignore one that is not there), any service and any number of moves of others,
provided that service records arrive whole (`~ShortRecords`; without it `SuccessIsTrue` is false,
and what the program reads next is beyond the model).
That exit status 0 tells the truth depends on everything that was sent before it, so the
invariant is about the conversation: the wire is a sequence of whole packets; while a request
is out it holds only events; after that one reply (or a list of them) among events; the
reply says what was so when it was sent, and each event behind it is about something that
happened since; a program at a given point has asked what leads there; and a program that has
ended with status 0 was entitled to. The proof has one lemma for each action of the program and of the
daemon.

`MonitorCurrent` proves `ReportIsCurrent` for every dinit-monitor that watches one service
(`OneWatched`; with two services the property is false, as the observations say, so the theorem
needs that hypothesis). `ReportIsCurrent` speaks of the moment when nothing is left to read and is
far from inductive. The invariant `Watching` says what makes it true: before the daemon listens
nothing on the wire tells a state; from then on, whenever the service has settled, the last field on
the wire that tells a state tells this one, and if none tells any, the program already
reported it. It rests on two facts about the service, proved for all its transitions
(`StartSettles`, `SettleSettles`, `StopSettles`): the events of a transition that settles the
service end with the state it settles in, and a transition without events leaves a settled service
where it was. It also rests on the in-step invariant: what is taken off the wire is one whole
packet, so nothing that tells a later state goes with it (`LastTaken`).

`Returns` is liveness and stays with TLC.

## The event loop: `EventLoop`, `TimerQueue`, `DaryHeap`, `MCEventLoop`

`EventLoop` is dasynq with epoll, signalfd and timerfd, in one thread. A watcher's record has the
fields of base_watcher and what the kernel knows of it; `queue` is the queue of events, ordered
by priority, and `slots` its capacity. A round pulls the reports of the kernel, then dispatches up
to as many events as are queued. Between dispatch and return a handler may do any operation on
any watcher that `Ops` allows: register, enable, change directions, set and stop timers, fork,
deregister itself or another. Memory may run out in a registration where `Ops` has
"alloc_fails" (`RegisterFails`): in the runs for connections, pipes and child processes, whose
owners get the exception; a timer that fails to register is listed below. `Style` and `Returns` say how the owner is written: as a class of
its own that may be deleted, or with a callback that returns REARM, DISARM, REMOVE and so on.
`TimerQueue` has the timer queue with the descriptor set for its root and the division that
counts missed intervals; `DaryHeap` is the heap, node for node.

The setups take the watchers dinit has: `connection`, `halves` (a bidirectional descriptor),
`service` (child, timer and pipe), `logfile` (a regular file, which epoll refuses and the loop
emulates), `lambdas`, `timers`, `periodic`. `MaxRegs` bounds registrations, `MaxTime` the clock,
`Delays` and `Intervals` what timers are set to. When these are used up and nothing is ready the
loop blocks, so CHECK_DEADLOCK is FALSE. Timers are ticks; `NsPerSec` makes a second of them so
that both parts of the division are reached. The queue of events is modelled as an ordered
sequence; the heap behind it is exact below ten nodes, where a removed node's replacement cannot
belong nearer to the root.

**Fairness** is that of the loop only: as long as it does not block, it takes a step; this covers
the handlers, which return. Nothing is assumed of the environment. `EventsDelivered` says that a
half that is ready and wanted is dispatched, unless it stops being so.

The modules with recursive operators (`DaryHeap`, `TimerQueue`, and through them `EventLoop`)
have no theorems.

## All runs

- `services` (MCSetups): Seven small graphs, mostly of services without a process (a chain, two with pins, links added and removed while running, wake, soft and milestone links above one process), each under its operator commands in any order: exact activation counts, start and stop order, no state without a way out, no service pinned stopped starts, and every shutdown completes. Checks `ActivationExact`, `StartOrder`, `StopOrder`, `UpHoldsDeps`, `NothingStuck`, `PinnedStaysStopped`, `ShutdownCompletes`.
- `processes` (MCSetups): Process services alone (restart, readiness, smooth recovery), in a pair, two above one dependency, with the console, and chained: one process at a time, bounded stops, nothing left of a stopped service, an exact count of active services, nothing started after a shutdown began. Checks `OneProcess`, `StopIsBounded`, `StoppedHasNoProcess`, `ActiveCount`, `NoStartAfterShutdown`.
- `types` (MCServiceSet): The type invariant, the accounting of activations within handlers, and that the console has one owner and is never lost, on graphs of both other runs: what the theorems prove for every graph. Its module extends the modules with assumptions. Checks `TypeOK`, `ActivationCounted`, `ConsoleOwned`.
- `v_two_processes` (MCSetups, counterexample expected): A service that waits in STOPPING for its dependents is started again and launches a second process while it still has the first. Checks `OneProcess`.
- `buffer` (CPBuffer): The circular buffer of a control connection, every fill, consume and append at every position of a small buffer: the contents are contiguous in the order a reader sees, and every step is a step of a bounded FIFO. Checks `SpanIsContents`, `ImplementsFifo`.
- `control` (MCControlConn): Control connections with every request, partial writes, hang-ups, exhausted memory, two connections on one service: no handle outlives its record while a connection has one handle per service; requests with short replies go on being accepted and served. Checks `AcceptsCommands`, `NoDanglingHandle`, `RequestsServed`.
- `log` (MCLogStream): The console log with services waiting for the console, messages up to MaxMsg, split, partial and failing writes: the console is handed over only at the end of a line, and handed over in the end where no write fails and no waiting service gives up. Checks `HandoverAtLineEnd`, `ConsoleHandedOver`.
- `loader` (MCLoader): Loads, reloads and unloads with hard, soft and ordering links, of running services and with log consumers: the links are what the descriptions ask for, dependencies form no cycle, and a failed load changes no loaded service. Checks `Acyclic`, `GraphIsInstalled`, `StartedDepsStarted`, `ConsumersPaired`, `FailureIsAtomic`.
- `client` (MCClient): dinitctl and dinit-monitor with all their commands, against a service that starts, fails, dies or is stopped by others, and a connection that is dropped: every packet is read in step, success is only reported when true, a monitor reports the current state, and every command but the monitor returns. Checks `InStep`, `SuccessIsTrue`, `ReportIsCurrent`, `Returns`.
- `scripts` (MCScriptService): Scripted and bgproc services with interrupted and skipped starts, timeouts, stop commands, daemons that end early or are not children, and smooth recovery: start and stop commands alternate, the timer has a purpose, a stopped service is clean, and stops complete where smooth recovery is not set. Checks `CommandsAlternate`, `TimerHasPurpose`, `StoppedIsClean`, `StopCompletes`.
- `loop` (MCEventLoop): The event loop with the watchers dinit has: a bidirectional connection, pipes, a child, timers, a regular file, signals, added, changed and removed by any handler: nothing removed is called, nothing is queued twice, slots and reservations balance, no timer is late, every event is delivered. Checks `RemovedIsForgotten`, `QueuedOnce`, `SlotsExact`, `TimersOnTime`, `EventsDelivered`.
- `v_late_timer` (MCEventLoop, counterexample expected): With three timers, one that is queued is set to a later time, and an earlier one no longer heads the queue: the timer descriptor is set too late for it. Checks `TimersOnTime`.

## Findings

Each is the result of a run that ends in a counterexample.

- **v_two_processes** (`OneProcess`, src/src/service.cc:361). A process service that waits in STOPPING for its dependents still has its process; start() takes the stop back through initiate_start(), and bring_up() launches a second process. src/src/includes/service.h:44 says of STOPPING/STARTED "as above, but the service will be re-started again once it stops."
- **v_late_timer** (`TimersOnTime`, src/dasynq/include/dasynq/daryheap.h:162). bubble_up() looks at the children before the last node only, because remove_h() is about to drop the last one. set_priority() uses it too: when a queued timer is set to a later time and the timer that is due first is in the last node, the heap gets the wrong root, the timer descriptor is set for it, and the first timer expires late. src/dasynq/include/dasynq/timerbase.h:322 says "For the specified timer queue, issue expirations for all timers set to expire on or before the given" time.

## Disagreements shown by other setups

Each of these is a behaviour of the code that differs from what a comment, a document or the rest
of the code says. To see one, give `Use` in the cfg of a run of the module the one setup named, and
check the one property (with the fair specification for a temporal one); TLC ends in a counterexample. For
`MCSetups`, `Ordered` holds the setup unless it says otherwise. The source line is where it happens.

- `MCSetups`, setup `vee`, `StopOrder` (src/src/service.cc:725). stop() queues the release of the dependencies at once even when do_stop() must let an uninterruptible start continue. stop_check_dependents() looks only at links that hold an activation, so the link of that dependent no longer counts: when another dependent stops, the dependency is brought down while the first dependent is STARTING with a process. src/src/service.cc:803 says of bring_down "All dependents have stopped; we can stop now, too. Only called when STOPPING."
- `MCSetups`, setup `process_pair`, `UpHoldsDeps` (src/src/service.cc:610). stop() releases the dependencies of a service whose start cannot be interrupted and which therefore stays STARTING: the dependency has required_by 0 although its dependent is neither STOPPED nor STOPPING. src/src/includes/service.h:62 says of required_by "and adds 1 for each dependent service" and line 63 goes on "which is not STOPPED/STOPPING".
- `MCSetups`, setup `restart`, `StoppingProgresses` (src/src/proc-service.cc:411). A start timeout sets STOPPING and sends a signal; when the exec then reports failure, exec_failed() takes the branch for any state but STARTING, and unrecoverable_stop() does nothing for a service that is STOPPING: no process, timer or dependent is left to end the stop. src/src/proc-service.cc:412 says of that branch "Process service in smooth recovery:", and src/src/includes/service.h:43 "STOPPING/STOPPED : stopping and will stop."
- `MCSetups`, setup `restart`, `Drained` (src/src/proc-service.cc:870). timer_expiry() runs timer_expired(), which calls failed_to_start() for a start timeout, and does not process the queues afterwards: the release of the dependencies waits for an unrelated event. src/src/includes/service.h:941 says "Any operation that potentially manipulates the queues must be followed" and line 942 goes on "by a "process queues" order (processQueues() method)."
- `MCSetups`, setup `one_restarts`, `StoppedHasNoProcess` (src/src/service.cc:270). do_propagation() sets STOPPED for a dependency failure although the start of the service could not be interrupted and its process still runs. src/src/includes/service.h:120 says of the propagation phase "be set to STARTING or STOPPING to reflect the desired state, but will never be set to STARTED" and line 121 goes on "or STOPPED (that happens in the execution phase)."
- `MCSetups`, setup `lone_stop_command`, `RestartOnlyWhenUp` (src/src/proc-service.cc:165). When the exec status of the stop command is the last thing to arrive, the service goes to STOPPED with the stop timer still armed; its expiry calls do_restart() for a STOPPED service. src/src/baseproc-service.cc:461 says at that call "STARTING / STARTED, and we have no pid: must be restarting (smooth recovery if STARTED)".
- `MCSetups`, setup `recovering_pair`, `FailureHasNoStartedDependents` (src/src/baseproc-service.cc:452). A start timeout during smooth recovery runs failed_to_start() while dependents are STARTED. src/src/service.cc:522 says in failed_to_start() "If REGULAR and STARTED, we can't have failed to start i.e. we must be started, so" and line 523 goes on "we don't worry about that case."
- `MCSetups`, setup `released_milestone`, `OrderingHoldsNothing` (src/src/service.cc:349). do_start() re-attaches every dependent link that is not hard, ordering links included, so a "before" or "after" link holds an activation and keeps the service up. src/doc/manpages/dinit-service.5.m4:283 says of an ordering link "dependency except no dependency relationship is implied", and src/src/includes/service.h:173 "Check if the dependency represents only an ordering constraint (not really a dependency)".
- `MCSetups`, setup restart, with Ordered = {}, `SignalHasTarget` (src/src/baseproc-service.cc:235). The termination is recorded first, but its handling waits for the exec status; a timer or a command handled in between signals the process group of a process that is gone. src/src/baseproc-service.cc:233 says "handled early. This means we have always recorded that the process is terminated by the" and line 235 ends "avoid sending a signal to an invalid (and possibly recycled) process ID."
- `MCSetups`, setup `console_chain`, `ActiveCount` (src/src/service.cc:124). stopped() leaves the inactive mark to release() when the service was started explicitly and does it itself only when nothing requires the service. A service stopped while a dependent still holds it is released later by the dependent, in state STOPPED, where release() marks nothing inactive: it stays counted, and the event loop never sees zero active services. src/src/service.cc:124 says "If we were explicitly started, our required_by count must be at least 1. Use" and line 125 goes on "release() to correctly release, mark inactive and release dependencies."
- `MCSetups`, setup `process_pair`, `QueuedOnce` (src/src/includes/dinit-ll.h:126). is_queued() answers false for the last element of a list of two or more, so add_prop_queue() can insert the tail a second time and lose or repeat elements. src/src/includes/service.h:1112 takes it for exact: "if (! prop_queue.is_queued(service)) {".
- `MCControlConn`, setup `unrecognised`, `BadIsClosed` (src/src/control.cc:1399). On a malformed request process_packet() queues the bad-request reply and returns true without consuming anything; the loop in data_ready() calls it again for the same bytes, for ever. src/src/includes/control-cmds.h:81 says "Request was bad (connection will be closed)".
- `MCControlConn`, setup `listing`, `AcceptsCommands` (src/src/control.cc:1359). queue_packet(vector) adds pkt.size() after the packet was moved away, that is 0, and send_data() subtracts the real size: outbuf_size wraps and the connection reads no more commands. src/src/includes/control.h:261 says "Accept more commands unless the output buffer high water mark is exceeded".
- `MCControlConn`, setup `other`, `OutputWatched` (src/src/control.cc:1306). A packet queued by an event while the connection only watches for input leaves the output watch disabled, so it waits for the next command. src/src/includes/control.h:124 says of queue_packet() "The in/out watch enabled state will also be set appropriately."
- `MCControlConn`, setup `listing`, `OOMReplyIsWhole` (src/src/control.cc:1425). When the output queue is exhausted in the middle of a packet, send_data() sends the out-of-memory reply although the packet before it was sent in part. src/src/control.cc:1318 says "could above. Neither can we later send the response since we have currently" and line 1319 goes on "sent an incomplete packet. All we can do is close the connection."
- `MCControlConn`, setup `two_handles`, `NoDanglingHandle` (src/src/control.cc:528). unload and reload erase one handle of the connection; has_lone_ref() counts the connection once however many handles it has, so another handle of the same connection names a deleted record. src/src/includes/service.h:670 says "Assuming there is one reference (from a control link), return true if this is the only reference,".
- `MCLogStream`, setup `partial`, `WritesOnlyContents` (src/src/dinit-log.cc:247). After writev() wrote part of the message the whole length is consumed and the index is left, so what is written next is not what the buffer holds. src/src/dinit-log.cc:234 says "It should not ever be the case that we do not now have a complete message".
- `MCLogStream`, setup `handover`, `LogWatched` (src/src/dinit-log.cc:253). A service queues for the console and gives up before the current message ends. At its end release_console() finds nobody waiting and enables the log again, but fd_event() then returns DISARM: messages stay buffered with the watcher disabled. src/src/dinit-log.cc:333 says "Activate watcher:".
- `MCLogStream`, setup `error`, `ConsoleHandedOver` (src/src/dinit-log.cc:259). A write error removes the watcher of the console stream; a service that waits for the console is never told. src/src/dinit-log.cc:323 says "If disabled, console logging will be disabled on the" and line 324 goes on "completion of output of the current message (if any), at which point the first service record".
- `MCLogStream`, setup `oversize`, `ConsoleHandedOver` (src/src/dinit-log.cc:148). A message too large for the buffer leaves only the notice of a discarded message. flush_for_release() writes a part of that notice and ignores that fd_event() wants to be called again, while the watcher is disabled: the rest is never written and the console never handed over. src/src/dinit-log.cc:156 says "fd_event didn't want to disarm, so must be partway through a message; will" and line 157 goes on "release when it's finished."
- `MCLoader`, setup `after`, `Acyclic` (src/src/load-service.cc:640). The "after" loop checks only whether the named service is being loaded. A service whose placeholder already has a dependent is loaded with an "after" link back to it, and no walk of the graph finds the cycle. src/src/load-service.cc:321 says "dependencies may change (including addition of new dependencies which aren't yet loaded). We need" and line 322 goes on "to prevent cyclic dependencies forming."
- `MCLoader`, setup `before`, `Acyclic` (src/src/load-service.cc:674). The check of a "before" link starts from the dependencies in the service description. It does not see the "before" links that other services have given to the placeholder of this service, which the new record takes over. src/src/load-service.cc:345 says "a dependency in the specified service on this service. Hence they always require explicit cycle checks".
- `MCLoader`, setup `retype`, `Acyclic` (src/src/load-service.cc:703). A reload that needs a new record clears settings.depends just before check_cycle(settings.depends, ...), so the check walks nothing. src/src/load-service.cc:340 says "new record). If doing a reload, check for cycles at this point (there is no dummy record in this".
- `MCLoader`, setup `two_before`, `GraphIsInstalled` (src/src/load-service.cc:908). The loop over the dependents advances its iterator twice after a transfer, so every other "before" link stays with the old record. src/src/load-service.cc:904 says "Transfer all "before" dependencies (which are actually created by other services) to the".
- `MCLoader`, setup `broken`, `LinksLive` (src/src/load-service.cc:435). A dependency loaded on the way has a "before" link for the service being loaded, which is installed in its dummy record. When the outer load fails the dummy is deleted with the link, and the dependency still lists it among its dependents. src/src/load-service.cc:349 says "This is all an intricate dance. If failure occurs at any stage, we must restore the previous state."
- `MCLoader`, setup `loop`, `DeletedOnce` (src/src/load-service.cc:464). A dependency that consumes the output of the service being loaded gets its dummy record as the consumed service. When the load of the dependency fails its clean-up deletes that record as an unreferenced placeholder, and the clean-up of the outer load deletes it again. src/src/load-service.cc:349 says "This is all an intricate dance. If failure occurs at any stage, we must restore the previous state."
- `MCLoader`, setup `mutual`, `LoadReturns` (src/src/load-service.cc:473). A placeholder is loaded as a reload of it, and a reload adds no dummy record: two placeholders that depend on each other are loaded in turns without end. src/src/load-service.cc:475 says "Add a placeholder record now to prevent infinite recursion in case of cyclic dependency."
- `MCLoader`, setup `pipe`, `OneConsumer` (src/src/load-service.cc:920). When a loaded service replaces its placeholder the consumer is told of the new record, but the new record is not given its consumer, so a second consumer passes the check. src/src/load-service.cc:623 refuses it: "the 'consumer-of' setting specifies a service that " and line 624 "already has a consumer".
- `MCLoader`, setup `pipe`, `ConsumersLive` (src/src/includes/service.h:1050). unload_service() of a service whose output is consumed leaves its consumer with a pointer to the deleted record. src/src/includes/service.h:1048 says "Unload a service, possibly replacing it with a placeholder service." and line 1049 "svc is no longer valid on return."
- `MCLoader`, setup `moved`, `ConsumersPaired` (src/src/load-service.cc:928). The link from the service that was consumed is removed only when the reload makes a new record. After an in-place reload that names another service, the old one still has this service as its consumer, which no longer names it. src/src/load-service.cc:928 says "Remove consumer-for link from consumed service, if it's changing:".
- `MCSetups`, setup restart, with Ordered = {}, `OneProcess` (src/src/baseproc-service.cc:462). A process ends before its exec status is read, and the start timer, found in the same round of the event loop, is handled between the two: pid is -1 and the expiry is taken for a delayed restart, which launches a process while the exec status of the other is pending. src/src/baseproc-service.cc:445 says "Timer expires if:" and lines 446 to 448 allow only stopping, starting and a delayed restart.
- `MCSetups`, setup `pins`, `PinIsInherited` (src/src/service.cc:551). failed_to_start() clears pinned_started and does not tell the dependencies: a service that is started with a pin, and fails because its dependency is pinned stopped, leaves that dependency with dept_pinned_started. src/src/includes/service.h:268 says of it "pinned started due to dependent".
- `MCClient`, setup `short_record`, `SuccessIsTrue` (src/src/dinitctl.cc:1066). check_load_reply() waits for all of a service record but its last byte, and takes all of it off the buffer. When a read ends there, the length of the buffer wraps, later waits for input return at once, and the program goes on with bytes it has not received. src/src/includes/dinit-client.h:168 says "Note the reply packet may be partially read. Caller is responsible for reading full packet."
- `MCClient`, setup `early_failure`, `WaitHasEnd` (src/src/dinitctl.cc:789). The service fails while its start request is handled, so that its events come before the acknowledgement: they are skipped while the reply is awaited, and dinitctl waits for one that will not come. src/src/dinitctl.cc:790 says of wait_service_state() "Returns 0 if the service started/stopped, 1 if start/stop was cancelled or failed."
- `MCClient`, setup `early_restart`, `WaitHasEnd` (src/src/dinitctl.cc:789). The same for a restart whose stop and start both finish while the request is handled. src/src/dinitctl.cc:790 says of wait_service_state() "Returns 0 if the service started/stopped, 1 if start/stop was cancelled or failed."
- `MCClient`, setup `late_status`, `WaitHasEnd` (src/src/dinitctl.cc:789). "enable" starts the service, and its start fails before dinitctl asks for its status: the events are skipped while the status is read, the status says STOPPED, and dinitctl waits. src/src/dinitctl.cc:790 says of wait_service_state() "Returns 0 if the service started/stopped, 1 if start/stop was cancelled or failed."
- `MCClient`, setup `idle_dependent`, `WaitHasEnd` (src/src/dinitctl.cc:789). "enable" from a service that is not started starts nothing; dinitctl still waits for the service to start. src/src/dinitctl.cc:790 says of wait_service_state() "Returns 0 if the service started/stopped, 1 if start/stop was cancelled or failed."
- `MCClient`, setup `held`, `WaitHasEnd` (src/src/dinitctl.cc:789). A release of a service that a dependent holds is acknowledged, the service stays STARTED, and dinitctl waits for it to stop. src/src/dinitctl.cc:790 says of wait_service_state() "Returns 0 if the service started/stopped, 1 if start/stop was cancelled or failed."
- `MCClient`, setup `stopped_elsewhere`, `WaitHasEnd` (src/src/dinitctl.cc:789). A service that is STOPPING, to be started again, is started; while dinitctl waits, another client stops it. It becomes STOPPED with no event but that, and dinitctl goes on waiting for it to start. src/src/dinitctl.cc:790 says of wait_service_state() "Returns 0 if the service started/stopped, 1 if start/stop was cancelled or failed."
- `MCClient`, setup `two_watched`, `ReportIsCurrent` (src/src/dinit-monitor.cc:197). dinit-monitor loads its services in turn, and an event of the first that comes while the second is loaded is skipped with the wait for the reply: the state it knows of the first is stale until its next event.
- `MCScriptService`, setup `recovering`, `RecoveryStopCompletes` (src/src/proc-service.cc:482). A bgproc service is stopped in smooth recovery. bring_down() has set stop_issued when the stop arrived; when the launcher then leaves a new daemon, bring_down() returns at once and nothing will stop the daemon. src/src/proc-service.cc:481 says "We now need to bring down the daemon process".
- `MCScriptService`, setup `again`, `StopCompletes` (src/src/proc-service.cc:550). When the daemon of a bgproc service ends in STOPPING, stop_issued is not reset before stopped(). If the service is then started again and stopped, bring_down() returns at once and the daemon goes on running. For process services src/src/proc-service.cc:370 says "reset for next time".
- `MCScriptService`, setup `recovery_unfit`, `RecoveryStopCompletes` (src/src/proc-service.cc:582). A stop in smooth recovery finds the exec status pending, and bring_down() leaves the rest to it; exec() then fails, and the unrecoverable_stop() of exec_failed() brings a service that is STOPPING no further. src/src/proc-service.cc:777 says "we have to wait until we get the status, and then act appropriately."
- `MCScriptService`, setup `stop_unfit`, `StopCompletes` (src/src/proc-service.cc:150). The daemon ends while the exec status of the stop command is pending, and its end is left to that status; exec() of the stop command failed, and with no process left the callback does nothing. The service stays STOPPING.
- `MCScriptService`, setup `unfit`, `CommandsAlternate` (src/src/proc-service.cc:688). A start times out and is interrupted, and then its exec() fails: exec_failed() leaves interrupting_start set. After the next start and stop, the end of the stop script is taken for the end of an interrupted start script, and the stop script is run again. src/src/includes/proc-service.h:789 says "running start script (true) or stop script (false)".
- `MCScriptService`, setup `short`, `CommandsAlternate` (src/src/baseproc-service.cc:462). A start script ends before its exec status is read, which leaves pid at -1 and the start timer armed; its expiry takes that for a delayed restart and runs the start command again. src/src/baseproc-service.cc:445 says "Timer expires if:" and lines 446 to 448 allow only stopping, starting and a delayed restart.
- `MCScriptService`, setup `short`, `TimerHasPurpose` (src/src/baseproc-service.cc:462). When the exec status is then read, the service is STARTED with the start timer armed. src/src/baseproc-service.cc:445 says "Timer expires if:" and lines 446 to 448 allow only stopping, starting and a delayed restart.
- `MCScriptService`, setup `delayed`, `CommandsAlternate` (src/src/baseproc-service.cc:391). A stop arrives while a restart is delayed: interrupt_start() cancels the restart, and the stop command is run although the start command has not run again.
- `MCScriptService`, setup `recovery_early`, `StoppedIsClean` (src/src/proc-service.cc:801). The daemon has ended when its process id is read, so that tracking_child is not set, and smooth recovery runs the launcher. A stop signals the launcher and makes the service STOPPED while it is running, though it is a child. Line 802 says "If we have no way of tracking when the child terminates, assume stopped now".
- `MCScriptService`, setup `outlived`, `TimerHasPurpose` (src/src/includes/proc-service.h:613). The daemon ends while the exec status of the stop command is pending, so that nothing stops the stop timer; the end of the stop command makes the service STOPPED with the timer armed. src/src/baseproc-service.cc:445 says "Timer expires if:" and lines 446 to 448 allow only stopping, starting and a delayed restart.
- `MCScriptService`, setup `untracked_timed`, `TimerHasPurpose` (src/src/includes/proc-service.h:613). The end of the stop command of a daemon that is not a child of dinit makes the service STOPPED with the stop timer armed. src/src/baseproc-service.cc:445 says "Timer expires if:" and lines 446 to 448 allow only stopping, starting and a delayed restart.
- `MCEventLoop`, setup `two_periods`, `IntervalsExact` (src/dasynq/include/dasynq/timerbase.h:351). process_timer_queue() computes the overrun from *timeout after pull_root(), when that is the next timer of the queue, if there is one. Line 350 says "First calculate the overrun in time:". dinit has one-shot timers only.
- `MCEventLoop`, setup `stopped_timer`, `CancelledIsSilent` (src/dasynq/include/dasynq/timerfd.h:157). stop_timer() takes the timer from the timer queue and leaves an expiry that is already in the event queue, so that timer_expired() runs for a timer that was stopped. src/src/baseproc-service.cc:445 says "Timer expires if:" and lines 446 to 448 allow only stopping, starting and a delayed restart.
- `MCEventLoop`, setup `requeued_timer`, `QueuedOnce` (src/dasynq/include/dasynq/timerbase.h:505). A timer whose expiry was queued by enable_timer() is enabled again; the next expiry queues it a second time.
- `MCEventLoop`, setup `disabled_pipe`, `ReportHasWatcher` (src/dasynq/include/dasynq/epoll.h:289). disable_fd_watch() gives the item a null pointer and no one-shot flag; a hang-up of the disabled descriptor is reported with that pointer. Line 293 says "Suspect it is really only the case if" and line 294 "EPOLLIN is set."
- `MCEventLoop`, setup `hung_up`, `EventsDelivered` (src/dasynq/include/dasynq.h:508). ERR_EVENTS and multi_watch are the same bit: receive_fd_event() clears the flags that are reported, so that a hang-up clears multi_watch, and from then on both halves of the watcher are reported to the first. src/dasynq/include/dasynq/basewatchers.h:109 says "Use this watch flag to indicate that in and out events should be reported separately,".
- `MCEventLoop`, setup `status_pipe`, `SlotsExact` (src/dasynq/include/dasynq.h:585). A handler that deregisters its own watcher and returns REMOVED, as the exec status callbacks of dinit do, never gives back the slot of the event queue: issue_delete() leaves that to the end of the dispatch, which a REMOVED watcher does not reach. src/dasynq/include/dasynq.h:1929 says "In a single threaded environment, it is safe to delete the watcher after" that.
- `MCEventLoop`, setup `child_quits`, `SlotsExact` (src/dasynq/include/dasynq.h:1396). A child watcher that its own handler deregisters gives its reservation back there, and again when the dispatch ends.
- `MCEventLoop`, setup `halves_quit`, `SlotsExact` (src/dasynq/include/dasynq.h:606). A bidirectional watcher deregistered by the handler of one half releases its slots in issue_delete() and again in post_dispatch().
- `MCEventLoop`, setup `failed_fork`, `SlotsExact` (src/dasynq/include/dasynq.h:2139). fork() from a reservation that fails gives the reservation up, and src/src/baseproc-service.cc:236 keeps reserved_child_watch: the next start forks from a reservation that is not there. src/dasynq/include/dasynq.h:2090 allows add_reserved() only "after having reserved resources previously (using reserveWith)."
- `MCEventLoop`, setup `timer_fails`, `SlotsExact` (src/dasynq/include/dasynq.h:1019). register_timer() catches the exception of a registration that runs out of memory and does not throw it again, as the other registrations do: the caller has a timer without a slot and without a handle.
- `MCEventLoop`, setup `burst`, `QueuedOnce` (src/dasynq/include/dasynq/epoll.h:132). The mask of the signal descriptor is put in force only after the last read, so that two instances of a signal that are both pending queue its watcher twice.
- `MCEventLoop`, setup `own_enable`, `RemovedIsForgotten` (src/dasynq/include/dasynq.h:1720). An emulated watcher that its own handler enables is queued at once; when the handler then returns REMOVE, it is removed and still queued. src/dasynq/include/dasynq/basewatchers.h:161 guarantees of a removed watcher that "the dispatch method will not be called".
- `MCEventLoop`, setup `own_enable`, `QueuedOnce` (src/dasynq/include/dasynq.h:1720). The same watcher, when its handler returns NOOP, is queued a second time.
- `MCEventLoop`, setup `starved`, `EventsDelivered` (src/dasynq/include/dasynq.h:1431). An emulated watcher of higher priority queues itself again each time and takes every turn of a round. Line 1425 says "limit processing to the number of events currently queued, to avoid prolonged processing".

## Theorems

- `ActivationProofs!TypeCorrect`: Every variable of the service set keeps its type and the call stack holds only calls the code makes, for every set of services, every dependency graph, every assignment of service types and options.
- `ActivationProofs!ActivationsCounted`: At every point of every handler required_by counts at least the links that hold an activation and the explicit one, so that no release drops a service that something holds; for every graph.
- `ActivationProofs!ConsoleHasOwner`: At every point of every handler the console has at most one owner, the log or a service, and has none only while it is being handed on; for every graph, any number of services that want it, and whatever happens to a start that waits for it.
- `ActivationProofs!BringUpIsReady`: bring_up() is called only for a service that is STARTING, waits for no dependency and has the console if it starts on it, although its transition may have been queued long before; for every graph.
- `ActivationProofs!PinBlocksStarts`: No step of any handler takes a service that is pinned stopped into STARTING, whichever command, dependent, restart or chain asks for it; for every graph.
- `ActivationProofs!GraphStaysAcyclic`: A dependency graph without a cycle stays so under every sequence of commands that add, enable and remove links: the search of add_service_dep() refuses every link that would close a cycle, whatever its length.
- `ControlProofs!HandlesStayValid`: As long as no connection gets a second handle for a record, no handle of any connection refers to a record that an unload or a reload deleted: the single listener has_lone_ref() counts is the connection that asks, and its handle goes with the record; for any number of connections, services and handles and every sequence of requests, hang-ups and failures.
- `CPBufferProofs!BufferTypeCorrect`: Index, length and contents of the buffer stay in range for every size.
- `CPBufferProofs!SpanCorrect`: The contiguous span handed to the system is the contents in order, for every size and position.
- `CPBufferProofs!BufferIsFifo`: Every operation of the buffer is an operation of a bounded FIFO or leaves it unchanged, for every size.
- `LogProofs!LogTypeCorrect`: The indices of the log stream stay within its buffer until bytes other than its contents are written, for every buffer size, message size and queue of services.
- `LogProofs!HandoverCorrect`: The log gives the console to a service only at the end of a line, for every buffer size and every sequence of partial, refused and failed writes.
- `LogProofs!ContentsCorrect`: Where no line is written in part, fd_event() writes only what the buffer holds, for every buffer size; a partial write is what breaks this.
- `ClientProofs!ClientInStep`: A program that reads the connection is always at the start of a packet: every command of dinitctl and dinit-monitor takes exactly the packets it is sent, in whatever pieces they arrive and however many events come between request and reply; for every set of command lines, where service records arrive whole.
- `ClientProofs!SuccessCorrect`: A program that exits with status 0 tells the truth: the service was in the wanted state after the command was handled, and was down in between for a restart, graph and files both have the dependency, a shutdown has closed the connection; for every command line, service records that arrive whole, any number of state changes by others, and a connection that may end at any point.
- `ClientProofs!MonitorCurrent`: A dinit-monitor that watches one service and has read all that was sent has reported the state the service settled in: no event is lost or overtaken between the service record it loads first and the events that follow, in whatever pieces they arrive, for whole service records and any number of state changes by others.

## Not modelled

- process services (partly): Process services with exec status, readiness notification, restart limit, smooth recovery, timeouts, stop command and failures. Sockets, log output files and utmp are left out.
- control connections (partly): Every command, the reading loop, the reply queue with its size and watch bookkeeping, handles and listeners. The contents of replies are left out.
- log streams (partly): The console stream: buffering, discarding, writing, release to a service and return. The syslog stream runs the same code and is not a second instance; message formatting is left out.
- service loader (partly): load, reload and unload of services with dummies, placeholders, cycle checks, consumer links and clean-up after failure. Parsing of settings is abstracted to the settings that decide the graph.
- scripted and bgproc services (partly): Start, stop, interruption, skipping, timeouts, exec failure, pid file, smooth recovery and restart of one service without dependencies. Dependents are in the service set model.
- control programs (partly): Every command of dinitctl and dinit-monitor as a client of one connection: requests, replies, events, waits, the files of enable and disable. The list of signal names needs no connection; is-failed and untrigger run the code of is-started and trigger. Printing and option parsing are left out.
- event loop (dasynq) (partly): Watchers of every kind on Linux: registration, enabling, rearming, removal, queueing by priority, dispatch. The locks for several polling threads are left out, since dinit has one; so are the backends for other systems.
- timer queue and heap (dasynq) (partly): Every operation on the heap and on the timers of one clock; the other clock is a second instance of the same code. The storage of the heap and its growth are left out: its capacity is the count of slots of the event loop model.
- other dasynq backends (not modelled): Alternatives to epoll, signalfd and timerfd for other systems; the Linux build does not use them.
- containers and support of dasynq (not modelled): The B-tree of process ids and the vector are taken as the map and the sequence they implement; the rest is configuration, constants, and locks and wake-ups between threads, which are empty in the loop dinit uses.
- process launch in the child (not modelled): Straight-line system calls between fork() and exec(); its outcome, exec or an error on the pipe, is in the process models.
- start-up and main loop (partly): The main loop takes one event after another (NextEvent), accepts connections (Accept) and ends when no service is active (Exit). Option parsing, environment files, the set-up of descriptors, the answer to signals and the re-start of the boot sequence are sequential code that is left out.
- description parser and checker (not modelled): Text processing; the loader model takes the parsed settings. dinitcheck runs the same parser off line.
- shutdown program (not modelled): A program of its own. As a client it sends the one shutdown request that the control models have; run by dinit at the end it kills what is left, unmounts and reboots, copying the output of two helpers from a buffer of its own. It shares no state with the service manager.
- environment and other helpers (not modelled): Environment strings, utmp records, string and file helpers, and the names under which tests replace system calls: no state that the other parts depend on.
- tests (not modelled): The unit and integration tests: read for what they expect of the code, not part of the system.

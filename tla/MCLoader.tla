------------------------------ MODULE MCLoader ------------------------------
(***************************************************************************)
(* Loading with several families of service descriptions in one run.  A    *)
(* setup gives the descriptions that the services a, b and c can have,     *)
(* which of them run meanwhile and whether services are unloaded.          *)
(***************************************************************************)
EXTENDS Integers, Sequences, FiniteSets

CONSTANTS Use, NoName, NoFile

VARIABLES setup, file, g, state, outcome
vars == <<setup, file, g, state, outcome>>

Blank == [typ |-> "INTERNAL", depends |-> <<>>, after |-> <<>>, before |-> <<>>,
          consumer |-> NoName, fixed |-> 1, valid |-> TRUE]
Line(n, t) == [name |-> n, typ |-> t, dir |-> FALSE]
DirLine(n) == [name |-> n, typ |-> "SOFT", dir |-> TRUE]
DependsOn(s) == [Blank EXCEPT !.depends = [i \in DOMAIN s |-> Line(s[i], "REGULAR")]]
WaitsForDir(n) == [Blank EXCEPT !.depends = <<DirLine(n)>>]
After(s) == [Blank EXCEPT !.after = s]
Before(s) == [Blank EXCEPT !.before = s]
Process == [Blank EXCEPT !.typ = "PROCESS"]
\* a process that consumes the output of n and depends on it
PipedFrom(n) == [Process EXCEPT !.consumer = n, !.depends = <<Line(n, "REGULAR")>>]
Invalid(d) == [d EXCEPT !.valid = FALSE]
With(A, B, C, running) == [files |-> [a |-> A, b |-> B, c |-> C], running |-> running]

Setup ==
  [\* dependencies only, added, changed and removed by reloads
   graph |-> With({Blank, DependsOn(<<"b">>), DependsOn(<<"c", "b">>)},
                  {NoFile, DependsOn(<<"c">>), WaitsForDir("a")},
                  {Blank, DependsOn(<<"a">>), Invalid(Blank), WaitsForDir("b")}, {}),
   \* ordering, with placeholders that come and go
   order |-> With({Before(<<"c">>), [DependsOn(<<"b">>) EXCEPT !.before = <<"c">>],
                   Invalid(Before(<<"c">>))},
                  {NoFile, After(<<"c">>), [After(<<"c", "b">>) EXCEPT !.before = <<"a">>],
                   [Before(<<"c", "b">>) EXCEPT !.after = <<"a">>]},
                  {NoFile, Blank, Process, Invalid(Blank)}, {}),
   \* services that run while they are reloaded
   running |-> With({DependsOn(<<"b">>), DependsOn(<<"c">>),
                     [Process EXCEPT !.depends = <<Line("b", "REGULAR")>>]},
                    {Blank, DependsOn(<<"c">>), [Blank EXCEPT !.fixed = 2]},
                    {Blank, DependsOn(<<"b">>)}, {"a", "b"}),
   \* output consumers, each depending on what it consumes
   consumer |-> With({PipedFrom("c"), Blank}, {PipedFrom("c"), Blank},
                     {Process, Invalid(Process)}, {}),
   \* The setups below show the disagreements listed in the README.
   \* two services before a third
   two_before |-> With({Before(<<"c">>)}, {Before(<<"c">>)}, {Blank}, {}),
   \* two services after each other, and a third after both
   after |-> With({After(<<"b">>)}, {After(<<"a">>)}, {After(<<"a", "b">>)}, {}),
   \* two services before each other
   before |-> With({Blank, Before(<<"b">>)}, {Before(<<"a">>)}, {NoFile}, {}),
   \* a reload that changes the type of a service
   retype |-> With({Blank, [Process EXCEPT !.depends = <<Line("b", "REGULAR")>>]},
                   {DependsOn(<<"a">>)}, {NoFile}, {}),
   \* a service that cannot be loaded, whose dependency is before it
   broken |-> With({Invalid(DependsOn(<<"b">>))}, {Before(<<"a">>)}, {NoFile}, {}),
   \* a dependency that consumes the output of its dependent, and comes after it
   loop |-> With({DependsOn(<<"b">>)}, {[Process EXCEPT !.consumer = "a", !.after = <<"a">>]},
                 {NoFile}, {}),
   \* two services that depend on each other, and a third after both
   mutual |-> With({DependsOn(<<"b">>)}, {DependsOn(<<"a">>)}, {After(<<"a", "b">>)}, {}),
   \* consumers and what they consume, in any order
   pipe |-> With({[Process EXCEPT !.consumer = "c"]}, {[Process EXCEPT !.consumer = "c"]},
                 {Process}, {}),
   \* a consumer that is made to consume something else
   moved |-> With({PipedFrom("b"), PipedFrom("c")}, {Process}, {Process}, {})]

R(n) == INSTANCE Loader WITH Names <- {"a", "b", "c"}, Files <- Setup[n].files,
                             Running <- Setup[n].running, Unloading <- TRUE

Init == \E n \in Use : setup = n /\ R(n)!Init
Next == \E n \in Use : setup = n /\ R(n)!Next /\ UNCHANGED setup
Spec == Init /\ [][Next]_vars

-----------------------------------------------------------------------------
(* The properties of Loader, of the setup that was picked *)

\* No sequence of loads, reloads and edits of dependencies forms a cycle.  (Ordering links do
\* form cycles, see the README; the setup with them is left out here.)
Acyclic == \A n \in Use \ {"order"} : setup = n => R(n)!Acyclic
\* The links of the graph are those the installed descriptions ask for.
GraphIsInstalled == \A n \in Use : setup = n => R(n)!GraphIsInstalled
\* Reloading never leaves a started service with a dependency that is not started.
StartedDepsStarted == \A n \in Use : setup = n => R(n)!StartedDepsStarted
\* A consumer and what it consumes refer to each other.
ConsumersPaired == \A n \in Use : setup = n => R(n)!ConsumersPaired
\* A load or reload that fails changes no loaded service and leaves no unused placeholder.
FailureIsAtomic == [][\A n \in Use : setup = n => R(n)!FailureIsAtomicStep]_vars

-----------------------------------------------------------------------------
(* What the README reports as violated *)

\* No service has two consumers of its output.
OneConsumer == \A n \in Use : setup = n => R(n)!OneConsumer
\* No record is freed while a dependency link refers to it.
LinksLive == \A n \in Use : setup = n => R(n)!LinksLive
\* No record is freed while a producer or consumer refers to it.
ConsumersLive == \A n \in Use : setup = n => R(n)!ConsumersLive
\* No record is freed twice.
DeletedOnce == \A n \in Use : setup = n => R(n)!DeletedOnce
\* Loading a service returns.
LoadReturns == \A n \in Use : setup = n => R(n)!LoadReturns
=============================================================================

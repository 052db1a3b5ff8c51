------------------------------- MODULE Loader -------------------------------
(***************************************************************************)
(* Loading, reloading and unloading service descriptions                    *)
(* (dirload_service_set in load-service.cc, service_set::unload_service and *)
(* service_record::prepare_for_unload in service.h / service.cc).           *)
(*                                                                          *)
(* A load is one uninterrupted call, recursive over the dependencies a      *)
(* description names, so it is an operator from one graph of records to the *)
(* next.  A graph g is a record:                                            *)
(*   typ      type of the record of a name, "none" when there is no record  *)
(*   loading  the records that are dummies of a load in progress            *)
(*   deps     depends_on, in list order, of the record of a name            *)
(*   conf     the description installed in the record                       *)
(*   lc       log_consumer, kept in the consumed record                     *)
(*   cons     consumer_for, kept in the consuming record                    *)
(*   dangling what refers to freed memory: "link" (an entry of a dependents *)
(*            list), "consumer" (a consumer_for) or "record" (freed twice)  *)
(* Dependents lists are the inverse of deps, and not kept.  A description   *)
(* is abstracted to its type, its dependencies (from a setting or from a    *)
(* dependency directory), before, after, consumer-of, the settings that a   *)
(* running service may not change ("fixed") and whether it is valid.  A     *)
(* "PROCESS" stands for a service whose output goes to a pipe.              *)
(***************************************************************************)
EXTENDS Integers, Sequences, SequencesExt, FiniteSets, FiniteSetsExt

CONSTANTS Names, NoName, NoFile,
          Files,     \* the descriptions each name can have: [Names -> SUBSET descriptions]
          Running,   \* the services that are started and stopped meanwhile
          Unloading  \* whether services are unloaded

VARIABLES file, g, state, outcome

vars == <<file, g, state, outcome>>

RECURSIVE Reach(_, _), Install(_, _, _), LoadDeps(_, _, _, _, _)

Dep(to, t) == [to |-> to, typ |-> t]
Targets(ds) == {ds[i].to : i \in DOMAIN ds}
OfType(ds, t) == SelectSeq(ds, LAMBDA d : d.typ = t)
NotOfType(ds, t) == SelectSeq(ds, LAMBDA d : d.typ # t)

\* the names whose records can be reached over dependencies from S
Reach(h, S) ==
  LET T == S \cup UNION {Targets(h.deps[n]) : n \in S} IN
  IF T = S THEN S ELSE Reach(h, T)

\* service_record::is_unrefd
is_unrefd(h, n) ==
  h.deps[n] = <<>> /\ h.lc[n] = NoName /\ \A m \in Names : n \notin Targets(h.deps[m])

AddPlaceholder(h, n) == [h EXCEPT !.typ[n] = "PLACEHOLDER"]

\* remove_service and delete, for the placeholders of P that nothing refers to
DropUnrefd(h, P) ==
  LET D == {p \in P : h.typ[p] = "PLACEHOLDER" /\ is_unrefd(h, p)} IN
  [h EXCEPT !.typ = [n \in Names |-> IF n \in D THEN "none" ELSE @[n]],
            !.dangling = IF D \cap h.loading # {} THEN @ \cup {"record"} ELSE @]

CycleUnchecked(h, ds, orig) == orig \in Targets(ds)

\* check_cycle: the dependencies ds lead to the record of orig
check_cycle(h, ds, orig) == orig \in Reach(h, Targets(ds))

-----------------------------------------------------------------------------
(* The stages of load_reload_service.  Each returns the graph it leaves, why *)
(* it failed ("ok" if it did not), and the dependencies collected.           *)

Result(h, why, ds) == [g |-> h, why |-> why, deps |-> ds]

\* load_service: an existing record, or the description of the name installed
Load(h, n, avoid, depth) ==
  IF h.typ[n] # "none" /\ (n = avoid \/ n \in h.loading) THEN Result(h, "cyclic", <<>>)
  ELSE IF h.typ[n] \notin {"none", "PLACEHOLDER"} THEN Result(h, "ok", <<>>)
  ELSE Install(h, n, depth)

\* load_service_n and process_dep_dir, for the dependency lines in order
LoadDeps(h, lines, avoid, depth, ds) ==
  IF lines = <<>> THEN Result(h, "ok", ds)
  ELSE LET l == Head(lines)
           r == Load(h, l.name, IF l.dir THEN NoName ELSE avoid, depth)
       IN  CASE r.why = "ok" ->
                  LoadDeps(r.g, Tail(lines), avoid, depth, Append(ds, Dep(l.name, l.typ)))
             [] r.why = "notfound" /\ l.dir -> LoadDeps(r.g, Tail(lines), avoid, depth, ds)
             [] r.why = "endless" -> Result(r.g, "endless", ds)
             [] OTHER -> Result(r.g, IF l.dir THEN r.why ELSE "failed", ds)

DepsUnchecked(h, n, d, ds) ==
  state[n] # "STOPPED" => state[n] = "STARTED" /\ d.typ = h.typ[n] /\ d.fixed = h.conf[n].fixed

\* check_settings_for_reload, and that a service with an output consumer still has output
Alterable(h, n, d, ds) ==
  /\ h.lc[n] # NoName => d.typ = "PROCESS"
  /\ \/ state[n] = "STOPPED"
     \/ /\ state[n] = "STARTED" /\ d.typ = h.typ[n] /\ d.fixed = h.conf[n].fixed
        /\ \A i \in DOMAIN ds : ds[i].typ = "REGULAR" => state[ds[i].to] = "STARTED"

\* the conditions on the service whose output is consumed
ConsumersFit(h, n, d, reload) ==
  LET c == d.consumer
      found == IF c # NoName /\ h.typ[c] # "none" THEN c ELSE NoName
  IN  /\ reload /\ state[n] # "STOPPED" /\ d.typ = "PROCESS" => h.cons[n] = found
      /\ found # NoName => /\ h.typ[found] \in {"PROCESS", "PLACEHOLDER"}
                           /\ h.lc[found] = NoName \/ (reload /\ h.lc[found] = n)

\* the records that "consumer-of", "after" and "before" name, placeholders if need be
WithPlaceholders(h, S) ==
  FoldSet(LAMBDA n, acc : IF acc.typ[n] = "none" THEN AddPlaceholder(acc, n) ELSE acc, h, S)

\* the entries of a sequence before the first one that fails the test
Until(seq, Bad(_)) ==
  LET i == SelectInSeq(seq, Bad) IN IF i = 0 THEN Range(seq) ELSE {seq[k] : k \in 1..(i - 1)}

\* an "after" of a service being loaded is a cycle
AfterCyclic(h, n, a) == a = n \/ a \in h.loading

\* a "before" of a service that the dependencies lead to is a cycle
BeforeCyclic(h, n, ds, b) == b = n \/ (h.typ[b] # "none" /\ check_cycle(h, ds, b))

RecordDropped(h, n, P, dummy) ==
  [h EXCEPT !.typ[n] = "none", !.loading = @ \ {n}, !.conf[n] = NoFile, !.deps[n] = <<>>]

\* exception_cleanup: the dummy is deleted, then those of P that are unreferenced placeholders
Cleanup(h, n, P, dummy) ==
  LET refs == (IF h.deps[n] # <<>> THEN {"link"} ELSE {})
                \cup (IF h.lc[n] # NoName THEN {"consumer"} ELSE {})
      h1 == IF dummy THEN [h EXCEPT !.typ[n] = "none", !.loading = @ \ {n}, !.deps[n] = <<>>,
                                    !.lc[n] = NoName, !.dangling = @ \cup refs]
            ELSE h
  IN  DropUnrefd(h1, P)

-----------------------------------------------------------------------------
(* Putting the settings in place *)

\* The loop that moves "before" dependencies from the old record to the new.  A moved
\* entry is followed by two increments, and an increment past the end of the list is
\* at its beginning again.
RECURSIVE MoveBefore(_, _, _)
MoveBefore(prev, i, moved) ==
  IF i > Len(prev) THEN [left |-> prev, moved |-> moved]
  ELSE IF prev[i].typ # "BEFORE" THEN MoveBefore(prev, i + 1, moved)
  ELSE MoveBefore(RemoveAt(prev, i), IF i = Len(prev) THEN 1 ELSE i + 1, Append(moved, prev[i]))

\* the dependencies on n that n itself created are removed, then those of its description added
BeforeLinks(h, n, d, atEnd) ==
  [m \in Names |->
     LET kept == SelectSeq(h.deps[m], LAMBDA x : ~(x.to = n /\ x.typ = "BEFORE"))
         new == IF m \in Range(d.before) THEN <<Dep(n, "BEFORE")>> ELSE <<>>
     IN  IF atEnd THEN kept \o new ELSE new \o kept]

LinkOneWay(h, n, d, old) ==
  [h EXCEPT !.cons[n] = IF d.typ = "PROCESS" THEN d.consumer ELSE NoName]

\* the consumer-of link, the link of the old record removed when the old record goes
LinkConsumer(h, n, d, old) ==
  LET h1 == IF old = NoName THEN h ELSE [h EXCEPT !.lc[old] = NoName] IN
  IF d.typ # "PROCESS" THEN [h1 EXCEPT !.cons[n] = NoName]
  ELSE IF d.consumer = NoName THEN [h1 EXCEPT !.cons[n] = NoName]
  ELSE [h1 EXCEPT !.cons[n] = d.consumer, !.lc[d.consumer] = n]

\* A new record takes the place of the reloaded record, the placeholder or the dummy.
\* The dependencies to be checked for cycles have been cleared by then.
NewRecord(h, n, d, ds) ==
  LET mb == MoveBefore(h.deps[n], 1, <<>>)
      lost == h.lc[n] # NoName /\ d.typ # "PROCESS"
      h1 == [h EXCEPT !.typ[n] = d.typ, !.conf[n] = d, !.loading = @ \ {n}, !.lc[n] = NoName,
                      !.deps = [BeforeLinks(h, n, d, TRUE) EXCEPT ![n] = ds \o mb.moved],
                      !.dangling = IF lost THEN @ \cup {"consumer"} ELSE @]
      olds == {m \in Names : n \in Targets(OfType(h.deps[m], "BEFORE"))}
                \cup Targets(OfType(h.deps[n], "AFTER"))
  IN  LinkConsumer(DropUnrefd(h1, olds), n, d, h.cons[n])

UpdateDropsBefore(h, n, d, ds) ==
  LinkConsumer([h EXCEPT !.conf[n] = d, !.deps = [BeforeLinks(h, n, d, FALSE) EXCEPT ![n] = ds]],
               n, d, NoName)

\* update_depenencies, and the other settings, in the existing record
UpdateRecord(h, n, d, ds) ==
  LET deps1 == BeforeLinks(h, n, d, FALSE)
      h1 == [h EXCEPT !.conf[n] = d, !.deps = [deps1 EXCEPT ![n] = ds \o OfType(@, "BEFORE")]]
  IN  LinkConsumer(h1, n, d, NoName)

\* load_reload_service for a name without a record, a placeholder or a loaded service.  A
\* load nested deeper than there are names never returns.
Install(h, n, depth) ==
  LET d == file[n]
      reload == h.typ[n] # "none"
      h0 == IF reload THEN h ELSE [AddPlaceholder(h, n) EXCEPT !.loading = @ \cup {n}]
      r == LoadDeps(h0, d.depends, IF reload THEN n ELSE NoName, depth + 1, <<>>)
      ds == r.deps \o [i \in DOMAIN d.after |-> Dep(d.after[i], "AFTER")]
      create == ~reload \/ d.typ # r.g.typ[n]
      C == IF d.consumer = NoName THEN {} ELSE {d.consumer}
      hC == WithPlaceholders(r.g, C)
      NotAfter(a) == AfterCyclic(hC, n, a)
      A == Until(d.after, NotAfter)
      hA == WithPlaceholders(hC, A)
      NotBefore(b) == BeforeCyclic(hA, n, ds, b)
      B == Until(d.before, NotBefore)
      hB == WithPlaceholders(hA, B)
      Fails(k, P, why) == Result(Cleanup(k, n, P, ~reload), why, <<>>)
  IN  CASE depth > Cardinality(Names) -> Result(h, "endless", <<>>)
        [] d = NoFile -> Result(h, "notfound", <<>>)
        [] r.why = "endless" -> r
        [] r.why # "ok" -> Fails(r.g, {}, r.why)
        [] ~d.valid \/ (reload /\ ~Alterable(r.g, n, d, r.deps)) -> Fails(r.g, {}, "failed")
        [] ~ConsumersFit(r.g, n, d, reload) -> Fails(r.g, C, "failed")
        [] A # Range(d.after) -> Fails(hA, C \cup A, "cyclic")
        [] B # Range(d.before) -> Fails(hB, C \cup A \cup B, "cyclic")
        [] create -> Result(NewRecord(hB, n, d, ds), "ok", <<>>)
        [] check_cycle(hB, ds, n) -> Fails(hB, C \cup A \cup B, "cyclic")
        [] OTHER -> Result(UpdateRecord(hB, n, d, ds), "ok", <<>>)

-----------------------------------------------------------------------------
(* The operations *)

Loaded(h) == {n \in Names : h.typ[n] \notin {"none", "PLACEHOLDER"}}

Init ==
  /\ file \in [Names -> UNION {Files[n] : n \in Names}] /\ \A n \in Names : file[n] \in Files[n]
  /\ g = [typ |-> [n \in Names |-> "none"], loading |-> {}, deps |-> [n \in Names |-> <<>>],
          conf |-> [n \in Names |-> NoFile], lc |-> [n \in Names |-> NoName],
          cons |-> [n \in Names |-> NoName], dangling |-> {}]
  /\ state = [n \in Names |-> "STOPPED"]
  /\ outcome = "ok"

\* nothing is said of the program once it follows a pointer to freed memory, or never returns
Defined == g.dangling = {} /\ outcome # "endless"

\* load_service, by control command
LoadService(n) ==
  /\ Defined
  /\ LET r == Load(g, n, NoName, 0) IN g' = r.g /\ outcome' = r.why
  /\ UNCHANGED <<file, state>>

\* reload_service, by control command
ReloadService(n) ==
  /\ Defined /\ n \in Loaded(g)
  /\ LET r == Install(g, n, 0) IN g' = r.g /\ outcome' = r.why
  /\ UNCHANGED <<file, state>>

\* unload_service: a placeholder takes over the "after" dependents and the "before"
\* dependencies; prepare_for_unload removes the rest; the destructor of a consumer
\* resets the log_consumer of what it consumed
Unloaded(h, n) ==
  LET ph == \/ h.lc[n] # NoName \/ OfType(h.deps[n], "BEFORE") # <<>>
            \/ \E m \in Names : n \in Targets(OfType(h.deps[m], "AFTER"))
      consumed == \E m \in Names : h.cons[m] = n
      h1 == [h EXCEPT !.typ[n] = IF ph THEN "PLACEHOLDER" ELSE "none",
                      !.conf[n] = NoFile, !.cons[n] = NoName, !.lc[n] = NoName,
                      !.deps = [m \in Names |->
                                  IF m = n THEN OfType(@[m], "BEFORE")
                                  ELSE SelectSeq(@[m], LAMBDA x : ~(x.to = n /\ x.typ = "BEFORE"))],
                      !.dangling = IF consumed THEN @ \cup {"consumer"} ELSE @]
      olds == {m \in Names : n \in Targets(OfType(h.deps[m], "BEFORE"))}
                \cup Targets(OfType(h.deps[n], "AFTER"))
      h2 == DropUnrefd(h1, olds \ {n})
  IN  IF h.cons[n] = NoName THEN h2 ELSE [h2 EXCEPT !.lc[h.cons[n]] = NoName]

\* has_lone_ref, for the one client: no dependents but by "before" and "after"
Unloadable(h, n) ==
  /\ state[n] = "STOPPED"
  /\ \A m \in Names : n \notin Targets(OfType(h.deps[m], "REGULAR") \o OfType(h.deps[m], "SOFT"))

\* the unload command
UnloadService(n) ==
  /\ Defined /\ Unloading /\ n \in Loaded(g) /\ Unloadable(g, n)
  /\ g' = Unloaded(g, n) /\ outcome' = "ok"
  /\ UNCHANGED <<file, state>>

\* the administrator edits, adds or removes a description
EditFile(n, d) ==
  /\ Defined /\ d # file[n]
  /\ file' = [file EXCEPT ![n] = d] /\ UNCHANGED <<g, state, outcome>>

\* a loaded service changes state, as the service manager allows (see ServiceSet)
ChangeState(n, s) ==
  /\ Defined /\ n \in Loaded(g) \cap Running /\ s # state[n]
  /\ s = "STARTED" => \A i \in DOMAIN g.deps[n] :
                         g.deps[n][i].typ = "REGULAR" => state[g.deps[n][i].to] = "STARTED"
  /\ s # "STARTED" => \A m \in Names : \A i \in DOMAIN g.deps[m] :
       g.deps[m][i] = Dep(n, "REGULAR") => state[m] # "STARTED"
  /\ state' = [state EXCEPT ![n] = s] /\ UNCHANGED <<file, g, outcome>>

Next ==
  \/ \E n \in Names : LoadService(n) \/ ReloadService(n) \/ UnloadService(n)
  \/ \E n \in Names : \E d \in Files[n] : EditFile(n, d)
  \/ \E n \in Names, s \in {"STOPPED", "STARTING", "STARTED"} : ChangeState(n, s)

Spec == Init /\ [][Next]_vars

-----------------------------------------------------------------------------
(* Properties *)

DepTypes == {"REGULAR", "SOFT", "BEFORE", "AFTER"}

\* the records are of known types, no dummy outlives its load, and a link leads to a record
TypeOK ==
  /\ g.typ \in [Names -> {"none", "PLACEHOLDER", "INTERNAL", "PROCESS"}]
  /\ g.loading = {} /\ g.dangling \subseteq {"link", "consumer", "record"}
  /\ \A n \in Names : \A i \in DOMAIN g.deps[n] :
        g.deps[n][i].typ \in DepTypes /\ g.typ[g.deps[n][i].to] # "none" /\ g.typ[n] # "none"
  /\ g.lc \in [Names -> Names \cup {NoName}] /\ g.cons \in [Names -> Names \cup {NoName}]
  /\ state \in [Names -> {"STOPPED", "STARTING", "STARTED"}]
  /\ outcome \in {"ok", "cyclic", "failed", "notfound", "endless"}

\* No sequence of loads, reloads and edits forms a dependency cycle, ordering dependencies
\* included (load_reload_service must "prevent cyclic dependencies forming").
Acyclic == \A n \in Names : n \notin Reach(g, Targets(g.deps[n]))

\* The graph is what the installed descriptions say: the dependencies of a loaded service are
\* those of its description (unresolved directory entries left out), and a "before" link
\* exists exactly where an installed description asks for it.
GraphIsInstalled ==
  /\ \A n \in Loaded(g) :
        \E S \in SUBSET DOMAIN g.conf[n].depends :
          /\ \A i \in DOMAIN g.conf[n].depends \ S : g.conf[n].depends[i].dir
          /\ LET D == g.conf[n].depends IN
             {Dep(D[i].name, D[i].typ) : i \in S} \cup {Dep(a, "AFTER") : a \in Range(g.conf[n].after)}
               = Range(NotOfType(g.deps[n], "BEFORE"))
  /\ \A n, b \in Names :
        n \in Targets(OfType(g.deps[b], "BEFORE")) <=> n \in Loaded(g) /\ b \in Range(g.conf[n].before)

\* A consumer and what it consumes refer to each other.
ConsumersPaired == \A n, c \in Names : g.cons[c] = n <=> g.lc[n] = c

\* No service has two output consumers.
OneConsumer == \A c, d \in Names : g.cons[c] = g.cons[d] /\ g.cons[c] # NoName => c = d

\* Deleting a record leaves no entry for it in another record's list of dependents.
LinksLive == "link" \notin g.dangling

\* Deleting a record leaves no consumer that refers to it.
ConsumersLive == "consumer" \notin g.dangling

\* No record is deleted twice.
DeletedOnce == "record" \notin g.dangling

\* Loading returns, whatever the descriptions refer to.
LoadReturns == outcome # "endless"

\* Reloading never leaves a started service with a regular dependency that is not started.
StartedDepsStarted ==
  \A n \in Loaded(g) : state[n] = "STARTED" =>
     \A i \in DOMAIN g.deps[n] : g.deps[n][i].typ = "REGULAR" => state[g.deps[n][i].to] = "STARTED"

\* A load or reload that fails changes no loaded service: its settings and its own
\* dependencies stay as they were, and of new records only complete ones are left.
FailureIsAtomicStep ==
  outcome' \in {"cyclic", "failed", "notfound"} =>
    /\ \A n \in Loaded(g) :
          /\ g'.conf[n] = g.conf[n] /\ g'.typ[n] = g.typ[n] /\ g'.cons[n] = g.cons[n]
          /\ NotOfType(g'.deps[n], "BEFORE") = NotOfType(g.deps[n], "BEFORE")
    /\ \A n \in Names : g'.typ[n] = "PLACEHOLDER" /\ g.typ[n] = "none" => ~is_unrefd(g', n)
FailureIsAtomic == [][FailureIsAtomicStep]_vars

=============================================================================

----------------------------- MODULE Supervisor -----------------------------
(***************************************************************************)
(* The life of a mounted graph: mounting and its rollback                  *)
(* (graph/runtime/mount.go), the supervision of the nodes by Run, Close,   *)
(* shutdownResources (run.go), and the lifecycle scope of each node        *)
(* (lifecycle.go), which owns the node's workers and disposers.            *)
(*                                                                         *)
(* A step is one critical section, one turn of Run's select, one disposer  *)
(* or the end of a node or of a worker.  Nodes are closed from the last    *)
(* mounted to the first by whoever unwinds: Run, closeBeforeRun or         *)
(* abortMount.  An error is the tag of what it reports.  The boundary and  *)
(* the queues that shutdownResources closes as well are those of Router.   *)
(***************************************************************************)
EXTENDS Naturals, Sequences, FiniteSets

CONSTANTS
  NNodes,      \* nodes, mounted in order 1..NNodes
  Workers,     \* names of lifecycle workers
  NodeOf,      \* [Workers -> 1..NNodes]
  MaxEffects,  \* [1..NNodes -> Nat]: bound on the disposers a node registers
  Closers      \* callers of Close

Nodes == 1..NNodes

ASSUME SupervisorAssumption ==
  /\ NNodes \in Nat \ {0} /\ MaxEffects \in [Nodes -> Nat]
  /\ NodeOf \in [Workers -> Nodes]

VARIABLES
  phase,      \* "mounting", "mounted", "running", "unwinding", "done"
  mountedN,   \* nodes in Mounted.nodes, the failing one included
  aborted,    \* the mount failed
  started,    \* Mounted.started
  mclosed,    \* Mounted.closed
  ctxDone,    \* Run's context is cancelled
  asked,      \* somebody other than Run cancelled it
  node,       \* [Nodes -> "idle", "running", "ok" or "err"]: the Runnable
  results,    \* nodes whose result is in the results channel
  failures,   \* nodes whose failure is in lifecycleFailures
  active,     \* Run's map of nodes that have not reported
  lifeFailed, \* Run's lifecycleFailed
  deadline,   \* shutdownDeadline is set
  primary,    \* what Run's error reports
  live,       \* [Nodes -> state shown by the inspection]
  scope,      \* [Nodes -> lifecycleScope: closed, effects, taken, errs]
  worker,     \* [Workers -> "new", "live", "ok", "err" or "refused"]
  told,       \* nodes whose failOnce has fired
  unwind,     \* the scope being closed and where its close stands
  late,       \* the timeout of the unwinding has passed
  disposed,   \* disposers run, as <<node, index>>
  shutErrs,   \* what Mounted.shutdownErr reports
  runErr,     \* what Run or closeBeforeRun published
  closer      \* callers that have called Close

runVars == <<results, active, lifeFailed, deadline, primary, live>>
scopeVars == <<scope, worker, told, failures>>
unwindVars == <<unwind, late, disposed, shutErrs>>
mountVars == <<phase, mountedN, aborted, started, mclosed>>
supervisorVars == <<mountVars, ctxDone, asked, node, runVars, scopeVars, unwindVars, runErr, closer>>

SupervisorTypeOK ==
  /\ phase \in {"mounting", "mounted", "running", "unwinding", "done"}
  /\ mountedN \in 0..NNodes
  /\ {aborted, started, mclosed, ctxDone, asked, deadline, late} \subseteq BOOLEAN
  /\ node \in [Nodes -> {"idle", "running", "ok", "err"}]
  /\ results \cup failures \cup active \cup lifeFailed \cup told \subseteq Nodes
  /\ live \in [Nodes -> {"none", "mounted", "running", "failed", "stopped"}]
  /\ scope \in [Nodes -> [closed : BOOLEAN, effects : Nat, errs : SUBSET Workers,
                          late : BOOLEAN]]
  /\ worker \in [Workers -> {"new", "live", "ok", "err", "refused"}]
  /\ unwind \in [at : 0..NNodes, pc : {"none", "close", "join", "dispose"},
                 next : Nat]
  /\ disposed \in Seq(Nodes \X Nat)
  /\ closer \subseteq Closers

SupervisorInit ==
  /\ phase = "mounting" /\ mountedN = 0
  /\ aborted = FALSE /\ started = FALSE /\ mclosed = FALSE
  /\ ctxDone = FALSE /\ asked = FALSE
  /\ node = [n \in Nodes |-> "idle"]
  /\ results = {} /\ failures = {} /\ active = {} /\ lifeFailed = {}
  /\ deadline = FALSE /\ primary = {}
  /\ live = [n \in Nodes |-> "none"]
  /\ scope = [n \in Nodes |-> [closed |-> FALSE, effects |-> 0, errs |-> {}, late |-> FALSE]]
  /\ worker = [w \in Workers |-> "new"]
  /\ told = {}
  /\ unwind = [at |-> 0, pc |-> "none", next |-> 0]
  /\ late = FALSE /\ disposed = << >> /\ shutErrs = {} /\ runErr = {}
  /\ closer = {}

LiveWorkers(n) == {w \in Workers : NodeOf[w] = n /\ worker[w] = "live"}

\* The unwinding starts with the node mounted last.
BeginUnwind(n) == unwind' = [at |-> n, pc |-> "close", next |-> 0]

-----------------------------------------------------------------------------
\* The lifecycle scope.  A node's code may use it from its mount on.
InUse(n) == n <= mountedN

\* Defer: refused once the scope is closed.
Defer(n) ==
  /\ InUse(n) /\ ~scope[n].closed /\ scope[n].effects < MaxEffects[n]
  /\ scope' = [scope EXCEPT ![n].effects = @ + 1]
  /\ UNCHANGED <<mountVars, ctxDone, asked, node, runVars, worker, told, failures, unwindVars,
                 runErr, closer>>

\* Mutant of Begin: a worker may be admitted to a scope that is closing.
BeginAnytime(w) ==
  /\ worker[w] = "new" /\ InUse(NodeOf[w])
  /\ worker' = [worker EXCEPT ![w] = "live"]
  /\ UNCHANGED <<mountVars, ctxDone, asked, node, runVars, scope, told, failures, unwindVars,
                 runErr, closer>>

\* Go and Do up to the start of the work: beginWorker.
Begin(w) ==
  /\ worker[w] = "new" /\ InUse(NodeOf[w])
  /\ worker' = [worker EXCEPT ![w] = IF scope[NodeOf[w]].closed THEN "refused" ELSE "live"]
  /\ UNCHANGED <<mountVars, ctxDone, asked, node, runVars, scope, told, failures, unwindVars,
                 runErr, closer>>

\* Mutant of FinishWorker: only the supervisor is told of the failure.
FinishWorkerTold(w, res) ==
  LET n == NodeOf[w] IN
  /\ worker[w] = "live" /\ res \in {"ok", "err"}
  /\ worker' = [worker EXCEPT ![w] = res]
  /\ failures' = IF res = "err" /\ n \notin told THEN failures \cup {n} ELSE failures
  /\ told' = IF res = "err" THEN told \cup {n} ELSE told
  /\ UNCHANGED <<mountVars, ctxDone, asked, node, runVars, scope, unwindVars, runErr, closer>>

\* finishWorker: a failure is kept by the scope, and the first one of a node is
\* put in the supervisor's channel.  A panic counts as an error; an error that
\* only reports the scope's cancellation counts as none.  The channel is written
\* after the lock is released; Run may end before it reads it in either case.
FinishWorker(w, res) ==
  LET n == NodeOf[w] IN
  /\ worker[w] = "live" /\ res \in {"ok", "err"}
  /\ worker' = [worker EXCEPT ![w] = res]
  /\ scope' = IF res = "err" THEN [scope EXCEPT ![n].errs = @ \cup {w}] ELSE scope
  /\ failures' = IF res = "err" /\ n \notin told THEN failures \cup {n} ELSE failures
  /\ told' = IF res = "err" THEN told \cup {n} ELSE told
  /\ UNCHANGED <<mountVars, ctxDone, asked, node, runVars, unwindVars, runErr, closer>>

-----------------------------------------------------------------------------
\* close of the scope the unwinding has reached.
CloseScope ==
  /\ unwind.pc = "close"
  /\ scope' = [scope EXCEPT ![unwind.at].closed = TRUE]
  /\ unwind' = [unwind EXCEPT !.pc = "join", !.next = scope[unwind.at].effects]
  /\ UNCHANGED <<mountVars, ctxDone, asked, node, runVars, worker, told, failures, late,
                 disposed, shutErrs, runErr, closer>>

\* Mutant of Join: the timeout of the unwinding is not looked at.
JoinAll ==
  /\ unwind.pc = "join"
  /\ LiveWorkers(unwind.at) = {}
  /\ unwind' = [unwind EXCEPT !.pc = "dispose"]
  /\ UNCHANGED <<mountVars, ctxDone, asked, node, runVars, scopeVars, late, disposed, shutErrs,
                 runErr, closer>>

\* The workers are joined, or the time is up and the live ones are reported.
Join ==
  /\ unwind.pc = "join"
  /\ LiveWorkers(unwind.at) = {} \/ late
  /\ scope' = [scope EXCEPT ![unwind.at].late = LiveWorkers(unwind.at) # {}]
  /\ unwind' = [unwind EXCEPT !.pc = "dispose"]
  /\ UNCHANGED <<mountVars, ctxDone, asked, node, runVars, worker, told, failures, late,
                 disposed, shutErrs, runErr, closer>>

\* Mutant of Dispose: disposers run in the order they were registered.
DisposeForward ==
  /\ unwind.pc = "dispose" /\ unwind.next > 0
  /\ disposed' = Append(disposed, <<unwind.at, scope[unwind.at].effects + 1 - unwind.next>>)
  /\ unwind' = [unwind EXCEPT !.next = @ - 1]
  /\ UNCHANGED <<mountVars, ctxDone, asked, node, runVars, scopeVars, late, shutErrs, runErr, closer>>

\* One disposer, from the last registered to the first.  One that fails or
\* panics is reported and stops nothing; the report is left out.
Dispose ==
  /\ unwind.pc = "dispose" /\ unwind.next > 0
  /\ disposed' = Append(disposed, <<unwind.at, unwind.next>>)
  /\ unwind' = [unwind EXCEPT !.next = @ - 1]
  /\ UNCHANGED <<mountVars, ctxDone, asked, node, runVars, scopeVars, late, shutErrs, runErr, closer>>

\* What the scope's close reports, and on to the node mounted before.
Collect ==
  /\ unwind.pc = "dispose" /\ unwind.next = 0
  /\ shutErrs' = shutErrs \cup (IF scope[unwind.at].late THEN {"live"} ELSE {})
                          \cup (IF scope[unwind.at].errs # {} THEN {"worker"} ELSE {})
  /\ unwind' = IF unwind.at = 1 THEN [unwind EXCEPT !.at = 0, !.pc = "none"]
               ELSE [unwind EXCEPT !.at = @ - 1, !.pc = "close"]
  /\ UNCHANGED <<mountVars, ctxDone, asked, node, runVars, scopeVars, late, disposed, runErr, closer>>

\* The timeout of the context the scopes are closed with.
Timeout ==
  /\ phase = "unwinding" /\ ~late /\ late' = TRUE
  /\ UNCHANGED <<mountVars, ctxDone, asked, node, runVars, scopeVars, unwind, disposed, shutErrs,
                 runErr, closer>>

-----------------------------------------------------------------------------
\* Mount: each factory in turn; a failure unwinds the scope it failed in and
\* those before it.
MountNode ==
  /\ phase = "mounting" /\ mountedN < NNodes
  /\ mountedN' = mountedN + 1
  /\ live' = [live EXCEPT ![mountedN + 1] = "mounted"]
  /\ UNCHANGED <<phase, aborted, started, mclosed, ctxDone, asked, node, results, active,
                 lifeFailed, deadline, primary, scopeVars, unwindVars, runErr, closer>>

AbortMount ==
  /\ phase = "mounting" /\ mountedN > 0
  /\ phase' = "unwinding" /\ aborted' = TRUE
  /\ BeginUnwind(mountedN)
  /\ UNCHANGED <<mountedN, started, mclosed, ctxDone, asked, node, runVars, scopeVars, late,
                 disposed, shutErrs, runErr, closer>>

MountDone ==
  /\ phase = "mounting" /\ mountedN = NNodes
  /\ phase' = "mounted"
  /\ UNCHANGED <<mountedN, aborted, started, mclosed, ctxDone, asked, node, runVars, scopeVars,
                 unwindVars, runErr, closer>>

-----------------------------------------------------------------------------
\* Run up to its loop; a closed graph refuses.
Run ==
  /\ phase = "mounted" /\ ~started /\ ~mclosed
  /\ phase' = "running" /\ started' = TRUE
  /\ node' = [n \in Nodes |-> "running"]
  /\ active' = Nodes
  /\ live' = [n \in Nodes |-> "running"]
  /\ UNCHANGED <<mountedN, aborted, mclosed, ctxDone, asked, results, lifeFailed, deadline,
                 primary, scopeVars, unwindVars, runErr, closer>>

\* A Runnable returns, or panics, on its own or because it was cancelled.
NodeReturns(n, res) ==
  /\ node[n] = "running" /\ res \in {"ok", "err"}
  /\ node' = [node EXCEPT ![n] = res]
  /\ results' = results \cup {n}
  /\ UNCHANGED <<mountVars, ctxDone, asked, active, lifeFailed, deadline, primary, live,
                 scopeVars, unwindVars, runErr, closer>>

\* The parent context ends.
ParentCancel ==
  /\ phase = "running" /\ ~ctxDone
  /\ ctxDone' = TRUE /\ asked' = TRUE
  /\ UNCHANGED <<mountVars, node, runVars, scopeVars, unwindVars, runErr, closer>>

Supervising == phase = "running" /\ active # {}

\* Run's select: a worker of the node failed.
OnLifecycleFailure(n) ==
  /\ Supervising /\ n \in failures
  /\ failures' = failures \ {n}
  /\ primary' = primary \cup {<<"worker", n>>}
  /\ lifeFailed' = lifeFailed \cup {n}
  /\ live' = [live EXCEPT ![n] = "failed"]
  /\ deadline' = TRUE /\ ctxDone' = TRUE
  /\ UNCHANGED <<mountVars, asked, node, results, active, scope, worker, told, unwindVars, runErr, closer>>

\* Mutant of OnResult: a node that fails takes nobody with it.
OnResultAlone(n) ==
  /\ Supervising /\ n \in results
  /\ results' = results \ {n}
  /\ active' = active \ {n}
  /\ primary' = IF node[n] = "err" /\ ~ctxDone THEN {<<"node", n>>} ELSE primary
  /\ live' = IF n \in lifeFailed THEN live ELSE [live EXCEPT ![n] = "stopped"]
  /\ UNCHANGED <<mountVars, ctxDone, asked, node, lifeFailed, deadline, scopeVars, unwindVars,
                 runErr, closer>>

\* Run's select: a node reports.  Its error counts when nothing was cancelled
\* before; a node whose worker failed keeps that state.
OnResult(n) ==
  /\ Supervising /\ n \in results
  /\ results' = results \ {n}
  /\ active' = active \ {n}
  /\ IF node[n] = "err" /\ ~deadline /\ ~ctxDone
     THEN /\ primary' = {<<"node", n>>}
          /\ live' = [live EXCEPT ![n] = "failed"]
          /\ deadline' = TRUE /\ ctxDone' = TRUE
     ELSE /\ live' = IF n \in lifeFailed THEN live ELSE [live EXCEPT ![n] = "stopped"]
          /\ UNCHANGED <<primary, deadline, ctxDone>>
  /\ UNCHANGED <<mountVars, asked, node, lifeFailed, scopeVars, unwindVars, runErr, closer>>

\* Run's select: the context ended first.
OnRunDone ==
  /\ Supervising /\ ctxDone /\ ~deadline
  /\ primary' = {<<"cancelled", 0>>} /\ deadline' = TRUE
  /\ UNCHANGED <<mountVars, ctxDone, asked, node, results, active, lifeFailed, live, scopeVars,
                 unwindVars, runErr, closer>>

\* Run's select: the unresponsive nodes are reported and given up.
OnDeadline ==
  /\ Supervising /\ deadline
  /\ primary' = primary \cup {<<"unresponsive", 0>>} /\ active' = {}
  /\ UNCHANGED <<mountVars, ctxDone, asked, node, results, lifeFailed, deadline, live, scopeVars,
                 unwindVars, runErr, closer>>

\* The loop has ended: Run cancels and shuts the resources down.
RunEnds ==
  /\ phase = "running" /\ active = {}
  /\ phase' = "unwinding" /\ ctxDone' = TRUE
  /\ BeginUnwind(NNodes)
  /\ UNCHANGED <<mountedN, aborted, started, mclosed, asked, node, runVars, scopeVars, late,
                 disposed, shutErrs, runErr, closer>>

\* Run, closeBeforeRun or Mount publishes its error when all scopes are closed.
Publish ==
  /\ phase = "unwinding" /\ unwind.pc = "none"
  /\ phase' = "done" /\ mclosed' = TRUE
  /\ runErr' = CASE aborted -> {<<"mount", 0>>} \cup {<<e, 0>> : e \in shutErrs}
                 [] started -> primary \cup {<<e, 0>> : e \in shutErrs}
                 [] OTHER -> {<<"closed", 0>>}
  /\ UNCHANGED <<mountedN, aborted, started, ctxDone, asked, node, runVars, scopeVars,
                 unwindVars, closer>>

-----------------------------------------------------------------------------
\* Close: a graph that never ran is unwound by a goroutine of its own.  The wait
\* for the cleanup, which the caller's context may cut short, changes nothing.
Close(c) ==
  /\ c \notin closer /\ phase # "mounting" /\ ~aborted
  /\ closer' = closer \cup {c}
  /\ IF ~mclosed /\ ~started
     THEN /\ mclosed' = TRUE /\ phase' = "unwinding"
          /\ BeginUnwind(NNodes)
          /\ UNCHANGED <<ctxDone, asked>>
     ELSE /\ ctxDone' = (ctxDone \/ started)
          /\ asked' = (asked \/ (started /\ ~ctxDone))
          /\ UNCHANGED <<mclosed, phase, unwind>>
  /\ UNCHANGED <<mountedN, aborted, started, node, runVars, scopeVars, late, disposed, shutErrs, runErr>>

-----------------------------------------------------------------------------
\* What Run's goroutine, or the one that unwinds in its stead, does by itself.
Supervise ==
  \/ \E n \in Nodes : OnLifecycleFailure(n) \/ OnResult(n)
  \/ OnRunDone \/ OnDeadline \/ RunEnds
  \/ CloseScope \/ Join \/ Dispose \/ Collect \/ Timeout \/ Publish

SupervisorNext ==
  \/ \E n \in Nodes : Defer(n)
  \/ \E w \in Workers : Begin(w) \/ \E res \in {"ok", "err"} : FinishWorker(w, res)
  \/ MountNode \/ AbortMount \/ MountDone
  \/ Run \/ ParentCancel
  \/ \E n \in Nodes, res \in {"ok", "err"} : NodeReturns(n, res)
  \/ \E c \in Closers : Close(c)
  \/ Supervise

SupervisorSpec == SupervisorInit /\ [][SupervisorNext]_supervisorVars

\* Neither a node nor a worker need ever return; timers fire, and disposers,
\* which nothing interrupts, return.
FairSupervisorSpec == SupervisorSpec /\ WF_supervisorVars(Supervise)

-----------------------------------------------------------------------------
\* Every effect ever registered, also by a worker or a node racing the close, is
\* undone exactly once, in the reverse of the order in which nodes were mounted
\* and effects registered, in a graph that ran, never ran, or failed to mount.
UnwoundInReverse ==
  /\ \A i, j \in DOMAIN disposed : i < j =>
       \/ disposed[i][1] > disposed[j][1]
       \/ disposed[i][1] = disposed[j][1] /\ disposed[i][2] > disposed[j][2]
  /\ phase = "done" =>
       \A n \in 1..mountedN : \A k \in 1..scope[n].effects : \E i \in DOMAIN disposed : disposed[i] = <<n, k>>

\* No worker runs on what its node has disposed of, unless it outlived the
\* timeout and is reported ("close can never miss admitted work").
NothingRunsOnDisposed ==
  \A i \in DOMAIN disposed :
    LET n == disposed[i][1] IN LiveWorkers(n) # {} => scope[n].late

\* No failure is silent.  A worker's failure, also one after the last look at
\* lifecycleFailures or during the unwinding, is in what the cleanup reports;
\* and Run returns no error only if every node ended well or it was asked to
\* stop.
FailureReported ==
  phase = "done" =>
    /\ (\E w \in Workers : worker[w] = "err") => shutErrs \cap {"worker", "live"} # {}
    /\ started /\ ~asked /\ runErr = {} => \A n \in Nodes : node[n] = "ok"

\* Whatever ends a graph (Close, its parent, a failed mount, one failed node or
\* worker), it is unwound to the end although nodes and workers may never return.
AlwaysUnwinds ==
  /\ (aborted \/ mclosed \/ ctxDone) ~> phase = "done"
  /\ (phase = "running" /\ (failures # {} \/ \E n \in Nodes : node[n] = "err")) ~> phase = "done"
=============================================================================

---------------------------- MODULE GraphProofs -----------------------------
(***************************************************************************)
(* The graph runtime: the unwinding of a mounted graph, for any number of  *)
(* nodes, workers, effects and callers of Close, and the boundary of one,  *)
(* for any clients, lanes, depths and generations.                         *)
(*                                                                         *)
(* None of the supervisor's three properties is inductive: each speaks of  *)
(* what the unwinding has left behind, and holds because of how far it has *)
(* come.  Joined and Collected say how far: a node is joined once its      *)
(* scope has waited for its workers, and collected once its close has      *)
(* returned.  A closed scope admits neither work nor effects, so what was  *)
(* true of a node when the unwinding passed it stays true.                 *)
(*                                                                         *)
(* A broadcast enters once because its item is in one client's hands until *)
(* it returns, and has entered exactly if its result, returned or still    *)
(* on its way, is "delivered" (EnteredSound).                              *)
(*                                                                         *)
(* Items are conserved because there is one generation at a time: one that *)
(* is no longer current is quiescent and admits nobody, and the next is    *)
(* published only once its predecessor has become so (BoundarySound).      *)
(*                                                                         *)
(* Nobody sleeps on because a step that would make a sleeper's wait        *)
(* pointless signals it, and an element takes its channel before it looks  *)
(* at its lanes: what it has seen since is still so while it is among the  *)
(* sleepers (ElementSleepers).                                             *)
(***************************************************************************)
EXTENDS Supervisor, Router, SequenceFacts, FiniteSetTheorems

Unwinding == phase \in {"unwinding", "done"}

\* The scope's close has returned to shutdownResources.
Collected(n) == Unwinding /\ n <= mountedN /\ unwind.at < n

\* The scope's workers have been waited for.
Joined(n) ==
  Unwinding /\ n <= mountedN /\ (unwind.at < n \/ (unwind.at = n /\ unwind.pc = "dispose"))

\* Where a graph is in its life, and that it is unwound once.
LifeSound ==
  /\ phase = "mounting" => ~aborted /\ ~started /\ ~mclosed
  /\ phase = "mounted" => ~aborted /\ ~started /\ ~mclosed
  /\ phase = "running" => ~aborted /\ started
  /\ phase # "mounting" /\ ~aborted => mountedN = NNodes
  /\ Unwinding /\ ~aborted => started \/ mclosed
  /\ aborted => ~started
  /\ unwind.at <= mountedN
  /\ unwind.at = 0 <=> unwind.pc = "none"
  /\ phase # "unwinding" => unwind.at = 0

\* A scope the unwinding has reached is closed; workers and effects are those of
\* mounted nodes.
ScopesSound ==
  /\ \A n \in Nodes : Joined(n) \/ (unwind.at = n /\ unwind.pc = "join") => scope[n].closed
  /\ \A w \in Workers : worker[w] # "new" => NodeOf[w] <= mountedN
  /\ \A w \in Workers : worker[w] = "err" => w \in scope[NodeOf[w]].errs

\* A worker that outlived the wait for it is reported as live.
LateIsNoted ==
  \A w \in Workers : worker[w] = "live" /\ Joined(NodeOf[w]) => scope[NodeOf[w]].late

\* Disposers that ran are those of joined nodes, in reverse, and all of them up
\* to where the unwinding stands.
DisposedInReverse ==
  \A i, j \in DOMAIN disposed : i < j =>
    \/ disposed[i][1] > disposed[j][1]
    \/ disposed[i][1] = disposed[j][1] /\ disposed[i][2] > disposed[j][2]

DisposedSoFar ==
  /\ unwind.pc = "join" => unwind.next = scope[unwind.at].effects
  /\ unwind.pc = "dispose" => unwind.next <= scope[unwind.at].effects
  /\ \A i \in DOMAIN disposed :
       /\ Joined(disposed[i][1])
       /\ disposed[i][1] = unwind.at => disposed[i][2] > unwind.next
  /\ \A n \in Nodes : Joined(n) =>
       \A k \in 1..scope[n].effects :
         (n = unwind.at /\ k <= unwind.next) \/ \E i \in DOMAIN disposed : disposed[i] = <<n, k>>

\* What a collected scope has to report is in shutdownErr.
CollectedIsReported ==
  \A n \in Nodes : Collected(n) =>
    /\ scope[n].late => "live" \in shutErrs
    /\ \A w \in Workers : NodeOf[w] = n /\ worker[w] = "err" => shutErrs \cap {"worker", "live"} # {}

\* While Run has no error to return and nobody asked it to stop, the nodes that
\* have reported ended well.
QuietRun ==
  /\ ~started => /\ ~ctxDone /\ ~deadline /\ primary = {} /\ results = {}
                 /\ \A n \in Nodes : node[n] = "idle"
  /\ \A n \in results : node[n] \in {"ok", "err"}
  /\ started /\ phase # "running" => active = {}
  /\ started /\ ~asked /\ primary = {} =>
       /\ phase = "running" => ~ctxDone /\ ~deadline
       /\ \A n \in Nodes \ active : node[n] = "ok"
  /\ phase = "done" /\ started => primary \subseteq runErr

\* The inductive invariant of the unwinding.
UnwindSound ==
  /\ SupervisorTypeOK
  /\ LifeSound
  /\ ScopesSound
  /\ LateIsNoted
  /\ DisposedInReverse
  /\ DisposedSoFar
  /\ CollectedIsReported
  /\ QuietRun

-----------------------------------------------------------------------------
Scope == [closed : BOOLEAN, effects : Nat, errs : SUBSET Workers, late : BOOLEAN]

\* The scopes after one of them was replaced.
LEMMA ScopeReplaced ==
  ASSUME SupervisorTypeOK, NEW n \in Nodes, NEW s \in Scope,
         scope' = [scope EXCEPT ![n] = s]
  PROVE  /\ scope' \in [Nodes -> Scope]
         /\ scope'[n] = s
         /\ \A m \in Nodes : m # n => scope'[m] = scope[m]
BY DEF SupervisorTypeOK, Scope

\* What each operation does to the scope it touches, and that it touches no other.
LEMMA ScopeSteps ==
  ASSUME SupervisorTypeOK, NEW n \in Nodes
  PROVE  /\ scope[n] \in Scope
         /\ scope' = [scope EXCEPT ![n].effects = @ + 1] =>
              /\ scope' \in [Nodes -> Scope]
              /\ scope'[n].closed = scope[n].closed /\ scope'[n].effects = scope[n].effects + 1
              /\ scope'[n].errs = scope[n].errs /\ scope'[n].late = scope[n].late
              /\ \A m \in Nodes : m # n => scope'[m] = scope[m]
         /\ scope' = [scope EXCEPT ![n].closed = TRUE] =>
              /\ scope' \in [Nodes -> Scope]
              /\ scope'[n].closed = TRUE /\ scope'[n].effects = scope[n].effects
              /\ scope'[n].errs = scope[n].errs /\ scope'[n].late = scope[n].late
              /\ \A m \in Nodes : m # n => scope'[m] = scope[m]
         /\ \A b \in BOOLEAN : scope' = [scope EXCEPT ![n].late = b] =>
              /\ scope' \in [Nodes -> Scope]
              /\ scope'[n].closed = scope[n].closed /\ scope'[n].effects = scope[n].effects
              /\ scope'[n].errs = scope[n].errs /\ scope'[n].late = b
              /\ \A m \in Nodes : m # n => scope'[m] = scope[m]
         /\ \A w \in Workers : scope' = [scope EXCEPT ![n].errs = @ \cup {w}] =>
              /\ scope' \in [Nodes -> Scope]
              /\ scope'[n].closed = scope[n].closed /\ scope'[n].effects = scope[n].effects
              /\ scope'[n].errs = scope[n].errs \cup {w} /\ scope'[n].late = scope[n].late
              /\ \A m \in Nodes : m # n => scope'[m] = scope[m]
<1>1. scope \in [Nodes -> Scope] /\ scope[n] \in Scope
  BY DEF SupervisorTypeOK, Scope
<1>2. ASSUME scope' = [scope EXCEPT ![n].effects = @ + 1]
      PROVE  /\ scope' \in [Nodes -> Scope]
             /\ scope'[n].closed = scope[n].closed /\ scope'[n].effects = scope[n].effects + 1
             /\ scope'[n].errs = scope[n].errs /\ scope'[n].late = scope[n].late
             /\ \A m \in Nodes : m # n => scope'[m] = scope[m]
  <2> DEFINE s == [scope[n] EXCEPT !.effects = @ + 1]
  <2>1. s \in Scope /\ s.closed = scope[n].closed /\ s.effects = scope[n].effects + 1
        /\ s.errs = scope[n].errs /\ s.late = scope[n].late
    BY <1>1 DEF Scope
  <2>2. scope' = [scope EXCEPT ![n] = s]
    BY <1>1, <1>2
  <2> HIDE DEF s
  <2> QED BY <2>1, <2>2, ScopeReplaced
<1>3. ASSUME scope' = [scope EXCEPT ![n].closed = TRUE]
      PROVE  /\ scope' \in [Nodes -> Scope]
             /\ scope'[n].closed = TRUE /\ scope'[n].effects = scope[n].effects
             /\ scope'[n].errs = scope[n].errs /\ scope'[n].late = scope[n].late
             /\ \A m \in Nodes : m # n => scope'[m] = scope[m]
  <2> DEFINE s == [scope[n] EXCEPT !.closed = TRUE]
  <2>1. s \in Scope /\ s.closed = TRUE /\ s.effects = scope[n].effects
        /\ s.errs = scope[n].errs /\ s.late = scope[n].late
    BY <1>1 DEF Scope
  <2>2. scope' = [scope EXCEPT ![n] = s]
    BY <1>1, <1>3
  <2> HIDE DEF s
  <2> QED BY <2>1, <2>2, ScopeReplaced
<1>4. ASSUME NEW b \in BOOLEAN, scope' = [scope EXCEPT ![n].late = b]
      PROVE  /\ scope' \in [Nodes -> Scope]
             /\ scope'[n].closed = scope[n].closed /\ scope'[n].effects = scope[n].effects
             /\ scope'[n].errs = scope[n].errs /\ scope'[n].late = b
             /\ \A m \in Nodes : m # n => scope'[m] = scope[m]
  <2> DEFINE s == [scope[n] EXCEPT !.late = b]
  <2>1. s \in Scope /\ s.closed = scope[n].closed /\ s.effects = scope[n].effects
        /\ s.errs = scope[n].errs /\ s.late = b
    BY <1>1 DEF Scope
  <2>2. scope' = [scope EXCEPT ![n] = s]
    BY <1>1, <1>4
  <2> HIDE DEF s
  <2> QED BY <2>1, <2>2, ScopeReplaced
<1>5. ASSUME NEW w \in Workers, scope' = [scope EXCEPT ![n].errs = @ \cup {w}]
      PROVE  /\ scope' \in [Nodes -> Scope]
             /\ scope'[n].closed = scope[n].closed /\ scope'[n].effects = scope[n].effects
             /\ scope'[n].errs = scope[n].errs \cup {w} /\ scope'[n].late = scope[n].late
             /\ \A m \in Nodes : m # n => scope'[m] = scope[m]
  <2> DEFINE s == [scope[n] EXCEPT !.errs = @ \cup {w}]
  <2>1. s \in Scope /\ s.closed = scope[n].closed /\ s.effects = scope[n].effects
        /\ s.errs = scope[n].errs \cup {w} /\ s.late = scope[n].late
    BY <1>1 DEF Scope
  <2>2. scope' = [scope EXCEPT ![n] = s]
    BY <1>1, <1>5
  <2> HIDE DEF s
  <2> QED BY <2>1, <2>2, ScopeReplaced
<1> QED
  BY <1>1, <1>2, <1>3, <1>4, <1>5

\* Collect moves on to the node mounted before, if there is one.
LEMMA CollectMoves ==
  ASSUME SupervisorTypeOK, LifeSound, Collect
  PROVE  /\ unwind.at \in Nodes
         /\ unwind' \in [at : 0..NNodes, pc : {"none", "close", "join", "dispose"}, next : Nat]
         /\ unwind'.at = unwind.at - 1
         /\ unwind'.pc = IF unwind.at = 1 THEN "none" ELSE "close"
<1>1. /\ unwind \in [at : 0..NNodes, pc : {"none", "close", "join", "dispose"}, next : Nat]
      /\ NNodes \in Nat
  BY SupervisorAssumption DEF SupervisorTypeOK, SupervisorAssumption
<1>2. unwind.at # 0
  BY <1>1 DEF Collect, LifeSound
<1>3. unwind.at \in Nodes
  BY <1>1, <1>2 DEF Nodes
<1>4. CASE unwind.at = 1
  <2>1. unwind' = [unwind EXCEPT !.at = 0, !.pc = "none"]
    BY <1>4 DEF Collect
  <2>2. 0 \in 0..NNodes /\ unwind.at - 1 = 0
    BY <1>1, <1>4
  <2> QED BY <1>1, <1>3, <1>4, <2>1, <2>2
<1>5. CASE unwind.at # 1
  <2>1. unwind' = [unwind EXCEPT !.at = @ - 1, !.pc = "close"]
    BY <1>5 DEF Collect
  <2>2. unwind.at - 1 \in 0..NNodes
    BY <1>1, <1>2
  <2> QED BY <1>1, <1>3, <1>5, <2>1, <2>2
<1> QED BY <1>4, <1>5

\* Every operation keeps the types.
LEMMA TypeStep ==
  ASSUME SupervisorTypeOK, LifeSound, [SupervisorNext]_supervisorVars
  PROVE  SupervisorTypeOK'
<1> USE SupervisorAssumption DEF SupervisorAssumption, Nodes, SupervisorTypeOK
<1> USE DEF mountVars, runVars, scopeVars, unwindVars
<1>1. ASSUME NEW n \in Nodes, Defer(n) PROVE SupervisorTypeOK'
  BY <1>1, ScopeSteps DEF Defer, Scope
<1>2. ASSUME NEW w \in Workers, Begin(w) PROVE SupervisorTypeOK'
  BY <1>2 DEF Begin
<1>3. ASSUME NEW w \in Workers, NEW res \in {"ok", "err"}, FinishWorker(w, res)
      PROVE  SupervisorTypeOK'
  <2>1. scope' \in [Nodes -> Scope]
    BY <1>3, ScopeSteps DEF FinishWorker, Scope
  <2>2. worker' \in [Workers -> {"new", "live", "ok", "err", "refused"}]
    BY <1>3 DEF FinishWorker
  <2>3. failures' \cup told' \subseteq Nodes
    BY <1>3 DEF FinishWorker
  <2> QED
    BY <1>3, <2>1, <2>2, <2>3 DEF FinishWorker, Scope
<1>4. CASE MountNode
  BY <1>4 DEF MountNode
<1>5. CASE AbortMount
  BY <1>5 DEF AbortMount, BeginUnwind
<1>6. CASE MountDone
  BY <1>6 DEF MountDone
<1>7. CASE Run
  BY <1>7 DEF Run
<1>8. CASE ParentCancel
  BY <1>8 DEF ParentCancel
<1>9. ASSUME NEW n \in Nodes, NEW res \in {"ok", "err"}, NodeReturns(n, res)
      PROVE  SupervisorTypeOK'
  BY <1>9 DEF NodeReturns
<1>10. ASSUME NEW c \in Closers, Close(c) PROVE SupervisorTypeOK'
  <2>1. CASE ~mclosed /\ ~started
    BY <1>10, <2>1 DEF Close, BeginUnwind
  <2>2. CASE ~(~mclosed /\ ~started)
    BY <1>10, <2>2 DEF Close
  <2> QED
    BY <2>1, <2>2
<1>11. ASSUME NEW n \in Nodes, OnLifecycleFailure(n) PROVE SupervisorTypeOK'
  BY <1>11 DEF OnLifecycleFailure
<1>12. ASSUME NEW n \in Nodes, OnResult(n) PROVE SupervisorTypeOK'
  BY <1>12 DEF OnResult
<1>13. CASE OnRunDone
  BY <1>13 DEF OnRunDone
<1>14. CASE OnDeadline
  BY <1>14 DEF OnDeadline
<1>15. CASE RunEnds
  BY <1>15 DEF RunEnds, BeginUnwind
<1>16. CASE CloseScope
  <2>1. unwind.at \in Nodes /\ scope[unwind.at].effects \in Nat
    BY <1>16 DEF CloseScope, LifeSound
  <2>2. scope' \in [Nodes -> Scope]
    BY <1>16, <2>1, ScopeSteps DEF CloseScope
  <2>3. unwind' \in [at : 0..NNodes, pc : {"none", "close", "join", "dispose"}, next : Nat]
    BY <1>16, <2>1 DEF CloseScope
  <2> QED
    BY <1>16, <2>2, <2>3 DEF CloseScope, Scope
<1>17. CASE Join
  <2>1. unwind.at \in Nodes
    BY <1>17 DEF Join, LifeSound
  <2>2. scope' \in [Nodes -> Scope]
    BY <1>17, <2>1, ScopeSteps DEF Join
  <2> QED
    BY <1>17, <2>2 DEF Join, Scope
<1>18. CASE Dispose
  <2>1. unwind.at \in Nodes /\ unwind.next \in Nat /\ unwind.next - 1 \in Nat
    BY <1>18 DEF Dispose, LifeSound
  <2>2. disposed' \in Seq(Nodes \X Nat)
    BY <1>18, <2>1 DEF Dispose
  <2>3. unwind' \in [at : 0..NNodes, pc : {"none", "close", "join", "dispose"}, next : Nat]
    BY <1>18, <2>1 DEF Dispose
  <2> QED
    BY <1>18, <2>2, <2>3 DEF Dispose
<1>19. CASE Collect
  BY <1>19, CollectMoves DEF Collect
<1>20. CASE Timeout
  BY <1>20 DEF Timeout
<1>21. CASE Publish
  BY <1>21 DEF Publish
<1>22. CASE UNCHANGED supervisorVars
  BY <1>22 DEF supervisorVars
<1> HIDE DEF SupervisorTypeOK, mountVars, runVars, scopeVars, unwindVars, Nodes
<1> QED
  BY <1>1, <1>2, <1>3, <1>4, <1>5, <1>6, <1>7, <1>8, <1>9, <1>10, <1>11, <1>12, <1>13, <1>14,
     <1>15, <1>16, <1>17, <1>18, <1>19, <1>20, <1>21, <1>22
  DEF SupervisorNext, Supervise

-----------------------------------------------------------------------------
\* What the unwinding has come to, and what it has left behind.
UnwindState == LifeSound /\ ScopesSound /\ LateIsNoted /\ DisposedInReverse
               /\ DisposedSoFar /\ CollectedIsReported

\* Steps that touch neither the scopes nor the unwinding.
LEMMA ElsewhereKeeps ==
  ASSUME UnwindState, UNCHANGED <<mountVars, scope, worker, unwind, disposed, shutErrs>>
  PROVE  UnwindState'
BY DEF UnwindState, mountVars, LifeSound, ScopesSound, LateIsNoted, DisposedInReverse,
       DisposedSoFar, CollectedIsReported, Joined, Collected, Unwinding

\* Registering an effect: the scope is open, so the unwinding has not reached it.
LEMMA DeferKeeps ==
  ASSUME SupervisorTypeOK, UnwindState, NEW n \in Nodes, Defer(n)
  PROVE  UnwindState'
<1>1. /\ ~scope[n].closed
      /\ scope'[n].closed = scope[n].closed /\ scope'[n].effects = scope[n].effects + 1
      /\ scope'[n].errs = scope[n].errs /\ scope'[n].late = scope[n].late
      /\ \A m \in Nodes : m # n => scope'[m] = scope[m]
      /\ UNCHANGED <<mountVars, worker, unwind, disposed, shutErrs>>
  BY ScopeSteps DEF Defer, unwindVars
<1>2. ~Joined(n) /\ ~(unwind.at = n /\ unwind.pc = "join")
  BY <1>1 DEF UnwindState, ScopesSound
<1>3. \A m \in Nodes : (Joined(m)' <=> Joined(m)) /\ (Collected(m)' <=> Collected(m))
  BY <1>1 DEF Joined, Collected, Unwinding, mountVars
<1>4. \A m \in Nodes : /\ scope'[m].closed = scope[m].closed
                       /\ scope'[m].errs = scope[m].errs /\ scope'[m].late = scope[m].late
  BY <1>1
<1>5. NodeOf \in [Workers -> Nodes]
  BY SupervisorAssumption DEF SupervisorAssumption
<1>6. LifeSound' /\ DisposedInReverse'
  BY <1>1 DEF UnwindState, LifeSound, DisposedInReverse, Unwinding, mountVars
<1>7. ScopesSound'
  BY <1>1, <1>3, <1>4, <1>5 DEF UnwindState, ScopesSound, mountVars
<1>8. LateIsNoted' /\ CollectedIsReported'
  BY <1>1, <1>3, <1>4, <1>5 DEF UnwindState, LateIsNoted, CollectedIsReported
<1>9. DisposedSoFar'
  <2>1. unwind.pc = "join" \/ unwind.pc = "dispose" => unwind.at \in Nodes /\ unwind.at # n
    BY <1>2, SupervisorAssumption
    DEF Joined, UnwindState, LifeSound, SupervisorTypeOK, Unwinding, Nodes, SupervisorAssumption
  <2>2. /\ unwind.pc = "join" => unwind.next = scope'[unwind.at].effects
        /\ unwind.pc = "dispose" => unwind.next <= scope'[unwind.at].effects
    BY <1>1, <2>1 DEF UnwindState, DisposedSoFar
  <2>3. \A i \in DOMAIN disposed :
          /\ Joined(disposed[i][1])'
          /\ disposed[i][1] = unwind.at => disposed[i][2] > unwind.next
    BY <1>1 DEF UnwindState, DisposedSoFar, Joined, Unwinding, mountVars
  <2>4. \A m \in Nodes : Joined(m)' =>
          \A k \in 1..scope'[m].effects :
            \/ m = unwind.at /\ k <= unwind.next
            \/ \E i \in DOMAIN disposed : disposed[i] = <<m, k>>
    BY <1>1, <1>2, <1>3 DEF UnwindState, DisposedSoFar
  <2> QED
    BY <1>1, <2>2, <2>3, <2>4 DEF DisposedSoFar
<1> QED
  BY <1>6, <1>7, <1>8, <1>9 DEF UnwindState

\* A worker is admitted: its scope is open, so nobody has waited for it.
LEMMA BeginKeeps ==
  ASSUME SupervisorTypeOK, UnwindState, NEW w \in Workers, Begin(w)
  PROVE  UnwindState'
<1>1. /\ worker[w] = "new" /\ NodeOf[w] <= mountedN
      /\ worker' = [worker EXCEPT ![w] = IF scope[NodeOf[w]].closed THEN "refused" ELSE "live"]
      /\ UNCHANGED <<mountVars, scope, unwind, disposed, shutErrs>>
  BY DEF Begin, unwindVars, InUse
<1>2. /\ \A v \in Workers : v # w => worker'[v] = worker[v]
      /\ worker'[w] \in {"refused", "live"}
      /\ worker'[w] = "live" => ~scope[NodeOf[w]].closed
  BY <1>1 DEF SupervisorTypeOK
<1>3. NodeOf \in [Workers -> Nodes]
  BY SupervisorAssumption DEF SupervisorAssumption
<1>4. \A m \in Nodes : (Joined(m)' <=> Joined(m)) /\ (Collected(m)' <=> Collected(m))
  BY <1>1 DEF Joined, Collected, Unwinding, mountVars
<1>5. LifeSound' /\ DisposedInReverse' /\ DisposedSoFar'
  BY <1>1 DEF UnwindState, LifeSound, DisposedInReverse, DisposedSoFar, Joined, Unwinding, mountVars
<1>6. ScopesSound'
  BY <1>1, <1>2, <1>3, <1>4 DEF UnwindState, ScopesSound, mountVars
<1>7. LateIsNoted'
  BY <1>1, <1>2, <1>3, <1>4 DEF UnwindState, ScopesSound, LateIsNoted
<1>8. CollectedIsReported'
  BY <1>1, <1>2, <1>3, <1>4 DEF UnwindState, CollectedIsReported
<1> QED
  BY <1>5, <1>6, <1>7, <1>8 DEF UnwindState

\* A worker ends: if its scope was collected it had outlived the wait and was
\* reported as live, so its failure is covered.
LEMMA FinishWorkerKeeps ==
  ASSUME SupervisorTypeOK, UnwindState, NEW w \in Workers, NEW res \in {"ok", "err"},
         FinishWorker(w, res)
  PROVE  UnwindState'
<1>0. NodeOf \in [Workers -> Nodes]
  BY SupervisorAssumption DEF SupervisorAssumption
<1>1. /\ worker[w] = "live"
      /\ worker' = [worker EXCEPT ![w] = res]
      /\ UNCHANGED <<mountVars, unwind, disposed, shutErrs>>
  BY DEF FinishWorker, unwindVars
<1>2. /\ \A m \in Nodes : /\ scope'[m].closed = scope[m].closed
                          /\ scope'[m].effects = scope[m].effects
                          /\ scope'[m].late = scope[m].late
                          /\ scope[m].errs \subseteq scope'[m].errs
      /\ res = "err" => w \in scope'[NodeOf[w]].errs
  <2>1. CASE res = "err"
    <3>1. scope' = [scope EXCEPT ![NodeOf[w]].errs = @ \cup {w}] /\ NodeOf[w] \in Nodes
      BY <1>0, <2>1 DEF FinishWorker
    <3>2. /\ scope'[NodeOf[w]].closed = scope[NodeOf[w]].closed
          /\ scope'[NodeOf[w]].effects = scope[NodeOf[w]].effects
          /\ scope'[NodeOf[w]].errs = scope[NodeOf[w]].errs \cup {w}
          /\ scope'[NodeOf[w]].late = scope[NodeOf[w]].late
          /\ \A m \in Nodes : m # NodeOf[w] => scope'[m] = scope[m]
      BY <3>1, ScopeSteps
    <3> QED
      BY <3>2
  <2>2. CASE res # "err"
    BY <2>2 DEF FinishWorker
  <2> QED
    BY <2>1, <2>2
<1>3. /\ \A v \in Workers : v # w => worker'[v] = worker[v]
      /\ worker'[w] = res
  BY <1>1 DEF SupervisorTypeOK
<1>4. \A m \in Nodes : (Joined(m)' <=> Joined(m)) /\ (Collected(m)' <=> Collected(m))
  BY <1>1 DEF Joined, Collected, Unwinding, mountVars
<1>5. LifeSound' /\ DisposedInReverse'
  BY <1>1 DEF UnwindState, LifeSound, DisposedInReverse, Unwinding, mountVars
<1>6. DisposedSoFar'
  <2>1. unwind.pc = "join" \/ unwind.pc = "dispose" => unwind.at \in Nodes
    BY SupervisorAssumption DEF UnwindState, LifeSound, SupervisorTypeOK, Nodes, SupervisorAssumption
  <2>2. \A i \in DOMAIN disposed :
          /\ Joined(disposed[i][1])'
          /\ disposed[i][1] = unwind.at => disposed[i][2] > unwind.next
    BY <1>1 DEF UnwindState, DisposedSoFar, Joined, Unwinding, mountVars
  <2> QED
    BY <1>1, <1>2, <1>4, <2>1, <2>2 DEF UnwindState, DisposedSoFar
<1>7. ScopesSound'
  <2>1. \A v \in Workers : worker'[v] = "err" => v \in scope'[NodeOf[v]].errs
    BY <1>0, <1>2, <1>3 DEF UnwindState, ScopesSound
  <2>2. \A v \in Workers : worker'[v] # "new" => NodeOf[v] <= mountedN'
    BY <1>1, <1>3 DEF UnwindState, ScopesSound, mountVars
  <2> QED
    BY <1>1, <1>2, <1>4, <2>1, <2>2 DEF UnwindState, ScopesSound
<1>8. LateIsNoted'
  BY <1>0, <1>2, <1>3, <1>4 DEF UnwindState, LateIsNoted
<1>9. CollectedIsReported'
  <2> SUFFICES ASSUME NEW n \in Nodes, Collected(n)
               PROVE  /\ scope'[n].late => "live" \in shutErrs'
                      /\ \A v \in Workers : NodeOf[v] = n /\ worker'[v] = "err" =>
                           shutErrs' \cap {"worker", "live"} # {}
    BY <1>4 DEF CollectedIsReported
  <2>1. scope[n].late => "live" \in shutErrs
    BY DEF UnwindState, CollectedIsReported
  <2>2. NodeOf[w] = n => scope[n].late
    BY <1>1 DEF UnwindState, LateIsNoted, Joined, Collected
  <2>3. ASSUME NEW v \in Workers, NodeOf[v] = n, worker'[v] = "err"
        PROVE  shutErrs' \cap {"worker", "live"} # {}
    <3>1. CASE v = w
      BY <1>1, <2>1, <2>2, <2>3, <3>1
    <3>2. CASE v # w
      BY <1>1, <1>3, <2>3, <3>2 DEF UnwindState, CollectedIsReported
    <3> QED
      BY <3>1, <3>2
  <2> QED
    BY <1>1, <1>2, <2>1, <2>3
<1> QED
  BY <1>5, <1>6, <1>7, <1>8, <1>9 DEF UnwindState

\* The unwinding is at a mounted node while it has one to close.
LEMMA UnwindAt ==
  ASSUME SupervisorTypeOK, LifeSound, unwind.pc # "none"
  PROVE  unwind.at \in Nodes /\ unwind.at <= mountedN /\ phase = "unwinding" /\ unwind.next \in Nat
BY SupervisorAssumption DEF LifeSound, SupervisorTypeOK, Nodes, SupervisorAssumption

\* The entries of the list of disposers that ran, and their nodes.
LEMMA DisposedEntries ==
  ASSUME SupervisorTypeOK
  PROVE  /\ \A i \in DOMAIN disposed : disposed[i][1] \in Nodes /\ disposed[i][2] \in Nat
         /\ Nodes \subseteq Nat \ {0}
         /\ unwind.at \in Nat /\ unwind.next \in Nat /\ mountedN \in Nat
<1>1. \A i \in DOMAIN disposed : disposed[i] \in Nodes \X Nat
  BY ElementOfSeq, LenProperties DEF SupervisorTypeOK
<1>2. NNodes \in Nat /\ unwind \in [at : 0..NNodes, pc : {"none", "close", "join", "dispose"}, next : Nat]
      /\ mountedN \in 0..NNodes
  BY SupervisorAssumption DEF SupervisorTypeOK, SupervisorAssumption
<1> QED
  BY <1>1, <1>2 DEF Nodes

\* A scope is closed: from here on its effects are the ones that will be undone.
LEMMA CloseScopeKeeps ==
  ASSUME SupervisorTypeOK, UnwindState, CloseScope
  PROVE  UnwindState'
<1>0. NodeOf \in [Workers -> Nodes] /\ unwind.pc = "close"
  BY SupervisorAssumption DEF SupervisorAssumption, CloseScope
<1>1. unwind.at \in Nodes /\ unwind.at <= mountedN /\ phase = "unwinding"
  BY <1>0, UnwindAt DEF UnwindState
<1>2. /\ unwind'.at = unwind.at /\ unwind'.pc = "join" /\ unwind'.next = scope[unwind.at].effects
      /\ UNCHANGED <<mountVars, worker, disposed, shutErrs>>
  BY DEF CloseScope, SupervisorTypeOK
<1>3. /\ scope'[unwind.at].closed
      /\ \A m \in Nodes : /\ m # unwind.at => scope'[m].closed = scope[m].closed
                          /\ scope'[m].effects = scope[m].effects
                          /\ scope'[m].errs = scope[m].errs
                          /\ scope'[m].late = scope[m].late
  <2>1. scope' = [scope EXCEPT ![unwind.at].closed = TRUE]
    BY DEF CloseScope
  <2> QED
    BY <1>1, <2>1, ScopeSteps
<1>4. \A m \in Nodes : (Joined(m)' <=> Joined(m)) /\ (Collected(m)' <=> Collected(m))
  BY <1>0, <1>2 DEF Joined, Collected, Unwinding, mountVars
<1>5. LifeSound' /\ DisposedInReverse'
  BY <1>0, <1>1, <1>2 DEF UnwindState, LifeSound, DisposedInReverse, Unwinding, mountVars
<1>6. ScopesSound'
  <2>1. ASSUME NEW n \in Nodes, Joined(n)' \/ (unwind'.at = n /\ unwind'.pc = "join")
        PROVE  scope'[n].closed
    <3>1. CASE n = unwind.at
      BY <1>3, <3>1
    <3>2. CASE n # unwind.at
      BY <1>2, <1>3, <1>4, <2>1, <3>2 DEF UnwindState, ScopesSound
    <3> QED
      BY <3>1, <3>2
  <2>2. /\ \A w \in Workers : worker'[w] # "new" => NodeOf[w] <= mountedN'
        /\ \A w \in Workers : worker'[w] = "err" => w \in scope'[NodeOf[w]].errs
    BY <1>0, <1>2, <1>3 DEF UnwindState, ScopesSound, mountVars
  <2> QED
    BY <2>1, <2>2 DEF ScopesSound
<1>7. LateIsNoted' /\ CollectedIsReported'
  <2>1. \A w \in Workers : NodeOf[w] \in Nodes
    BY <1>0
  <2>2. LateIsNoted'
    BY <1>2, <1>3, <1>4, <2>1 DEF UnwindState, LateIsNoted
  <2>3. CollectedIsReported'
    BY <1>2, <1>3, <1>4, <2>1 DEF UnwindState, CollectedIsReported
  <2> QED
    BY <2>2, <2>3
<1>8. DisposedSoFar'
  <2>1. \A i \in DOMAIN disposed : Joined(disposed[i][1]) /\ disposed[i][1] # unwind.at
    BY <1>0, DisposedEntries DEF UnwindState, DisposedSoFar, Joined
  <2>2. \A i \in DOMAIN disposed : Joined(disposed[i][1])'
    BY <1>0, <1>2, <2>1 DEF Joined, Unwinding, mountVars
  <2>3. ~Joined(unwind.at)
    BY <1>0, <1>1, SupervisorAssumption DEF Joined, Nodes, SupervisorAssumption
  <2>4. ASSUME NEW m \in Nodes, Joined(m)', NEW k \in 1..scope'[m].effects
        PROVE  \E i \in DOMAIN disposed' : disposed'[i] = <<m, k>>
    <3>1. m # unwind.at /\ scope'[m].effects = scope[m].effects /\ Joined(m)
      BY <1>3, <1>4, <2>3, <2>4
    <3> QED
      BY <1>2, <2>4, <3>1 DEF UnwindState, DisposedSoFar
  <2>5. unwind'.pc = "join" /\ unwind'.next = scope'[unwind'.at].effects
    BY <1>1, <1>2, <1>3
  <2> QED
    BY <1>2, <2>1, <2>2, <2>4, <2>5 DEF DisposedSoFar
<1> QED
  BY <1>5, <1>6, <1>7, <1>8 DEF UnwindState

\* The workers are joined, or the ones that are live are noted as late.
LEMMA JoinKeeps ==
  ASSUME SupervisorTypeOK, UnwindState, Join
  PROVE  UnwindState'
<1>0. NodeOf \in [Workers -> Nodes] /\ unwind.pc = "join"
  BY SupervisorAssumption DEF SupervisorAssumption, Join
<1>1. unwind.at \in Nodes /\ unwind.at <= mountedN /\ phase = "unwinding" /\ unwind.next \in Nat
  BY <1>0, UnwindAt DEF UnwindState
<1>2. /\ unwind'.at = unwind.at /\ unwind'.pc = "dispose" /\ unwind'.next = unwind.next
      /\ UNCHANGED <<mountVars, worker, disposed, shutErrs>>
  BY DEF Join, SupervisorTypeOK
<1>3. /\ LiveWorkers(unwind.at) # {} => scope'[unwind.at].late
      /\ \A m \in Nodes : /\ m # unwind.at => scope'[m].late = scope[m].late
                          /\ scope'[m].effects = scope[m].effects
                          /\ scope'[m].errs = scope[m].errs
                          /\ scope'[m].closed = scope[m].closed
  <2>1. scope' = [scope EXCEPT ![unwind.at].late = (LiveWorkers(unwind.at) # {})]
    BY DEF Join
  <2>2. PICK b \in BOOLEAN : b = (LiveWorkers(unwind.at) # {})
    OBVIOUS
  <2>3. scope' = [scope EXCEPT ![unwind.at].late = b]
    BY <2>1, <2>2
  <2>4. /\ scope'[unwind.at].late = b /\ scope'[unwind.at].closed = scope[unwind.at].closed
        /\ scope'[unwind.at].effects = scope[unwind.at].effects
        /\ scope'[unwind.at].errs = scope[unwind.at].errs
        /\ \A m \in Nodes : m # unwind.at => scope'[m] = scope[m]
    BY <1>1, <2>3, ScopeSteps
  <2>5. LiveWorkers(unwind.at) # {} => scope'[unwind.at].late
    BY <2>2, <2>4
  <2> QED
    BY <2>4, <2>5
<1>4. \A m \in Nodes : /\ Collected(m)' <=> Collected(m)
                       /\ Joined(m)' <=> Joined(m) \/ m = unwind.at
                       /\ Collected(m) => m # unwind.at
  BY <1>0, <1>1, <1>2, SupervisorAssumption
  DEF Joined, Collected, Unwinding, mountVars, Nodes, SupervisorAssumption
<1>5. LifeSound' /\ DisposedInReverse'
  BY <1>0, <1>1, <1>2 DEF UnwindState, LifeSound, DisposedInReverse, Unwinding, mountVars
<1>6. ScopesSound'
  <2>1. ASSUME NEW n \in Nodes, Joined(n)' \/ (unwind'.at = n /\ unwind'.pc = "join")
        PROVE  scope'[n].closed
    BY <1>0, <1>2, <1>3, <1>4, <2>1 DEF UnwindState, ScopesSound
  <2>2. /\ \A w \in Workers : worker'[w] # "new" => NodeOf[w] <= mountedN'
        /\ \A w \in Workers : worker'[w] = "err" => w \in scope'[NodeOf[w]].errs
    BY <1>0, <1>2, <1>3 DEF UnwindState, ScopesSound, mountVars
  <2> QED
    BY <2>1, <2>2 DEF ScopesSound
<1>7. LateIsNoted'
  <2> SUFFICES ASSUME NEW w \in Workers, worker[w] = "live", Joined(NodeOf[w])'
               PROVE  scope'[NodeOf[w]].late
    BY <1>2 DEF LateIsNoted
  <2>1. CASE NodeOf[w] = unwind.at
    BY <1>3, <2>1 DEF LiveWorkers
  <2>2. CASE NodeOf[w] # unwind.at
    BY <1>0, <1>3, <1>4, <2>2 DEF UnwindState, LateIsNoted
  <2> QED
    BY <2>1, <2>2
<1>8. CollectedIsReported'
  BY <1>0, <1>2, <1>3, <1>4 DEF UnwindState, CollectedIsReported
<1>9. DisposedSoFar'
  <2>1. \A i \in DOMAIN disposed :
          Joined(disposed[i][1]) /\ (disposed[i][1] = unwind.at => disposed[i][2] > unwind.next)
    BY DEF UnwindState, DisposedSoFar
  <2>2. \A i \in DOMAIN disposed : Joined(disposed[i][1])'
    BY <1>0, <1>2, <2>1 DEF Joined, Unwinding, mountVars
  <2>3. unwind.next = scope[unwind.at].effects /\ scope'[unwind.at].effects = unwind.next
        /\ unwind.next \in Nat
    BY <1>0, <1>1, <1>3 DEF UnwindState, DisposedSoFar
  <2>4. ASSUME NEW m \in Nodes, Joined(m)', NEW k \in 1..scope'[m].effects
        PROVE  \/ m = unwind'.at /\ k <= unwind'.next
               \/ \E i \in DOMAIN disposed' : disposed'[i] = <<m, k>>
    <3>1. CASE m = unwind.at
      BY <1>2, <2>3, <2>4, <3>1
    <3>2. CASE m # unwind.at
      BY <1>2, <1>3, <1>4, <2>4, <3>2 DEF UnwindState, DisposedSoFar
    <3> QED
      BY <3>1, <3>2
  <2>5. unwind'.next <= scope'[unwind'.at].effects
    BY <1>2, <2>3
  <2> QED
    BY <1>2, <2>1, <2>2, <2>4, <2>5 DEF DisposedSoFar
<1> QED
  BY <1>5, <1>6, <1>7, <1>8, <1>9 DEF UnwindState

\* One disposer: it comes after all that have run, and is the next to undo.
LEMMA DisposeKeeps ==
  ASSUME SupervisorTypeOK, UnwindState, Dispose
  PROVE  UnwindState'
<1>0. NodeOf \in [Workers -> Nodes] /\ unwind.pc = "dispose" /\ unwind.next > 0
  BY SupervisorAssumption DEF SupervisorAssumption, Dispose
<1>1. unwind.at \in Nodes /\ unwind.at <= mountedN /\ phase = "unwinding" /\ unwind.next \in Nat
  BY <1>0, UnwindAt DEF UnwindState
<1>2. /\ unwind'.at = unwind.at /\ unwind'.pc = "dispose" /\ unwind'.next = unwind.next - 1
      /\ UNCHANGED <<mountVars, scope, worker, shutErrs>>
  BY <1>0 DEF Dispose, SupervisorTypeOK, scopeVars
<1> DEFINE L == Len(disposed)
<1>3. /\ L \in Nat /\ DOMAIN disposed = 1..L
      /\ \A i \in DOMAIN disposed : disposed[i] \in Nodes \X Nat
      /\ DOMAIN disposed' = 1..L + 1
      /\ \A i \in 1..L : disposed'[i] = disposed[i]
      /\ disposed'[L + 1] = <<unwind.at, unwind.next>>
  BY <1>1 DEF Dispose, SupervisorTypeOK
<1> HIDE DEF L
<1>4. \A i \in DOMAIN disposed :
        /\ Joined(disposed[i][1])
        /\ disposed[i][1] = unwind.at => disposed[i][2] > unwind.next
        /\ disposed[i][1] >= unwind.at
  BY DisposedEntries DEF UnwindState, DisposedSoFar, Joined
<1>5. \A m \in Nodes : (Joined(m)' <=> Joined(m)) /\ (Collected(m)' <=> Collected(m))
  BY <1>0, <1>2 DEF Joined, Collected, Unwinding, mountVars
<1>6. LifeSound' /\ ScopesSound' /\ LateIsNoted' /\ CollectedIsReported'
  BY <1>0, <1>1, <1>2, <1>5
  DEF UnwindState, LifeSound, ScopesSound, LateIsNoted, CollectedIsReported, Unwinding, mountVars
<1>7. DisposedInReverse'
  <2> SUFFICES ASSUME NEW i \in 1..L + 1, NEW j \in 1..L + 1, i < j
               PROVE  \/ disposed'[i][1] > disposed'[j][1]
                      \/ disposed'[i][1] = disposed'[j][1] /\ disposed'[i][2] > disposed'[j][2]
    BY <1>3 DEF DisposedInReverse
  <2>1. i \in 1..L /\ disposed'[i] = disposed[i]
    BY <1>3
  <2>2. CASE j = L + 1
    <3>1. disposed'[j][1] = unwind.at /\ disposed'[j][2] = unwind.next
      BY <1>3, <2>2
    <3>2. i \in DOMAIN disposed /\ disposed[i][1] \in Nat /\ disposed[i][2] \in Nat /\ unwind.at \in Nat
      BY <1>3, <2>1, DisposedEntries
    <3> QED
      BY <1>4, <2>1, <3>1, <3>2
  <2>3. CASE j # L + 1
    <3>1. j \in 1..L /\ disposed'[j] = disposed[j]
      BY <1>3, <2>3
    <3> QED
      BY <1>3, <2>1, <3>1 DEF UnwindState, DisposedInReverse
  <2> QED
    BY <2>2, <2>3
<1>8. DisposedSoFar'
  <2>1. unwind'.next <= scope'[unwind'.at].effects
    BY <1>0, <1>1, <1>2 DEF UnwindState, DisposedSoFar, SupervisorTypeOK
  <2>2. ASSUME NEW i \in DOMAIN disposed'
        PROVE  /\ Joined(disposed[i][1])'
               /\ disposed'[i][1] = unwind'.at => disposed'[i][2] > unwind'.next
    <3>1. CASE i = L + 1
      <4>1. disposed'[i][1] = unwind.at /\ disposed'[i][2] = unwind.next
        BY <1>3, <3>1
      <4> QED
        BY <1>1, <1>2, <4>1, DisposedEntries DEF Joined, Unwinding, mountVars
    <3>2. CASE i # L + 1
      <4>1. i \in DOMAIN disposed /\ disposed'[i] = disposed[i]
        BY <1>3, <2>2, <3>2
      <4>2. disposed[i][1] \in Nodes /\ disposed[i][2] \in Nat
        BY <4>1, DisposedEntries
      <4>3. Joined(disposed[i][1])'
        BY <1>2, <1>4, <4>1, <4>2 DEF Joined, Unwinding, mountVars
      <4>4. disposed[i][1] = unwind.at => disposed[i][2] > unwind.next - 1
        BY <1>1, <1>4, <4>1, <4>2
      <4> QED
        BY <1>2, <4>1, <4>3, <4>4
    <3> QED
      BY <3>1, <3>2
  <2>3. ASSUME NEW m \in Nodes, Joined(m)', NEW k \in 1..scope'[m].effects
        PROVE  \/ m = unwind'.at /\ k <= unwind'.next
               \/ \E i \in DOMAIN disposed' : disposed'[i] = <<m, k>>
    <3>1. CASE m = unwind.at /\ k = unwind.next
      BY <1>3, <3>1
    <3>2. CASE ~(m = unwind.at /\ k = unwind.next)
      <4>1. \/ m = unwind.at /\ k <= unwind.next
            \/ \E i \in DOMAIN disposed : disposed[i] = <<m, k>>
        BY <1>2, <1>5, <2>3 DEF UnwindState, DisposedSoFar
      <4>2. k \in Nat
        BY <1>2, <2>3 DEF SupervisorTypeOK
      <4> QED
        BY <1>1, <1>2, <1>3, <3>2, <4>1, <4>2, SMTT(30)
    <3> QED
      BY <3>1, <3>2
  <2>4. unwind'.pc = "dispose"
    BY <1>2
  <2> QED
    BY <2>1, <2>2, <2>3, <2>4 DEF DisposedSoFar
<1> QED
  BY <1>6, <1>7, <1>8 DEF UnwindState

\* A scope's close returns: all its effects are undone, and its report is kept.
LEMMA CollectKeeps ==
  ASSUME SupervisorTypeOK, UnwindState, Collect
  PROVE  UnwindState'
<1>0. NodeOf \in [Workers -> Nodes] /\ unwind.pc = "dispose" /\ unwind.next = 0
  BY SupervisorAssumption DEF SupervisorAssumption, Collect
<1>1. unwind.at \in Nodes /\ unwind.at <= mountedN /\ phase = "unwinding"
  BY <1>0, UnwindAt DEF UnwindState
<1>2. /\ unwind'.at = unwind.at - 1
      /\ unwind'.pc = IF unwind.at = 1 THEN "none" ELSE "close"
      /\ UNCHANGED <<mountVars, scope, worker, disposed>>
  BY CollectMoves DEF UnwindState, Collect, scopeVars
<1>3. /\ Nodes \subseteq Nat \ {0} /\ unwind.at \in Nat /\ mountedN \in Nat
      /\ \A i \in DOMAIN disposed : disposed[i][1] \in Nodes /\ disposed[i][2] \in Nat
  BY DisposedEntries
<1>4. \A m \in Nodes : /\ Joined(m)' <=> Joined(m)
                       /\ Collected(m)' <=> Joined(m)
                       /\ Joined(m) => m # unwind'.at
                       /\ Joined(m) => Collected(m) \/ m = unwind.at
  BY <1>0, <1>1, <1>2, <1>3 DEF Joined, Collected, Unwinding, mountVars
<1>5. LifeSound' /\ DisposedInReverse'
  BY <1>0, <1>1, <1>2, <1>3 DEF UnwindState, LifeSound, DisposedInReverse, Unwinding, mountVars
<1>6. ScopesSound' /\ LateIsNoted'
  BY <1>0, <1>2, <1>4 DEF UnwindState, ScopesSound, LateIsNoted, mountVars
<1>7. CollectedIsReported'
  <2>1. /\ shutErrs \subseteq shutErrs'
        /\ scope[unwind.at].late => "live" \in shutErrs'
        /\ scope[unwind.at].errs # {} => "worker" \in shutErrs'
    BY DEF Collect
  <2> SUFFICES ASSUME NEW n \in Nodes, Joined(n)
               PROVE  /\ scope[n].late => "live" \in shutErrs'
                      /\ \A w \in Workers : NodeOf[w] = n /\ worker[w] = "err" =>
                           shutErrs' \cap {"worker", "live"} # {}
    BY <1>2, <1>4 DEF CollectedIsReported
  <2>2. CASE n = unwind.at
    BY <2>1, <2>2 DEF UnwindState, ScopesSound
  <2>3. CASE n # unwind.at
    BY <1>4, <2>1, <2>3 DEF UnwindState, CollectedIsReported
  <2> QED
    BY <2>2, <2>3
<1>8. DisposedSoFar'
  <2>0. \A i \in DOMAIN disposed : Joined(disposed[i][1]) /\ disposed[i][1] # unwind'.at
    BY <1>3, <1>4 DEF UnwindState, DisposedSoFar
  <2>1. ASSUME NEW i \in DOMAIN disposed
        PROVE  Joined(disposed[i][1])' /\ disposed'[i][1] # unwind'.at
    <3>1. PICK m \in Nodes : m = disposed[i][1]
      BY <1>3
    <3>2. Joined(m)' /\ m # unwind'.at /\ disposed' = disposed
      BY <1>2, <1>4, <2>0, <3>1
    <3> QED
      BY <3>1, <3>2 DEF Joined, Unwinding
  <2>2. ASSUME NEW m \in Nodes, Joined(m), NEW k \in 1..scope[m].effects
        PROVE  \E i \in DOMAIN disposed : disposed[i] = <<m, k>>
    <3>1. k \in Nat \ {0}
      BY <2>2 DEF SupervisorTypeOK
    <3> QED
      BY <1>0, <2>2, <3>1 DEF UnwindState, DisposedSoFar
  <2>3. unwind'.pc # "join" /\ unwind'.pc # "dispose"
    BY <1>2
  <2> QED
    BY <1>2, <1>4, <2>1, <2>2, <2>3 DEF DisposedSoFar
<1> QED
  BY <1>5, <1>6, <1>7, <1>8 DEF UnwindState

\* While the graph is not being unwound nothing of it is.
LEMMA NotUnwinding ==
  ASSUME SupervisorTypeOK, UnwindState, ~Unwinding
  PROVE  /\ DOMAIN disposed = {} /\ unwind.at = 0 /\ unwind.pc = "none"
         /\ \A n : ~Joined(n) /\ ~Collected(n)
<1>1. \A n : ~Joined(n) /\ ~Collected(n)
  BY DEF Joined, Collected
<1> QED
  BY <1>1 DEF UnwindState, LifeSound, DisposedSoFar, Unwinding

\* The unwinding starts, with the node mounted last.
LEMMA BeginUnwindKeeps ==
  ASSUME SupervisorTypeOK, UnwindState, ~Unwinding, mountedN > 0, phase' = "unwinding",
         BeginUnwind(mountedN), UNCHANGED <<mountedN, started, scope, worker, disposed, shutErrs>>,
         aborted' => ~started,
         ~aborted' => mountedN = NNodes /\ (started \/ mclosed')
  PROVE  UnwindState'
<1>0. DOMAIN disposed = {}
  BY NotUnwinding
<1>1. mountedN \in Nat /\ Nodes \subseteq Nat
  BY DisposedEntries
<1>2. unwind'.at = mountedN /\ unwind'.pc = "close"
  BY DEF BeginUnwind
<1>3. \A n \in Nodes : ~Joined(n)' /\ ~Collected(n)'
  BY <1>1, <1>2 DEF Joined, Collected
<1>4. LifeSound'
  BY <1>1, <1>2 DEF LifeSound, Unwinding
<1>5. ScopesSound'
  BY <1>2, <1>3 DEF UnwindState, ScopesSound
<1>6. LateIsNoted' /\ CollectedIsReported'
  BY <1>3, SupervisorAssumption DEF LateIsNoted, CollectedIsReported, SupervisorAssumption
<1>7. DisposedInReverse' /\ DisposedSoFar'
  BY <1>0, <1>2, <1>3 DEF DisposedInReverse, DisposedSoFar
<1> QED
  BY <1>4, <1>5, <1>6, <1>7 DEF UnwindState

\* The steps of a graph's life that do not unwind it, up to Run's loop.
LEMMA LifeKeeps ==
  ASSUME SupervisorTypeOK, UnwindState, MountNode \/ MountDone \/ Run
  PROVE  UnwindState'
<1>1. ~Unwinding /\ ~Unwinding'
  BY DEF MountNode, MountDone, Run, Unwinding
<1>2. /\ UNCHANGED <<scope, worker, unwind, disposed, shutErrs>>
      /\ mountedN \in Nat /\ mountedN' \in Nat /\ mountedN' >= mountedN
  BY DisposedEntries DEF MountNode, MountDone, Run, scopeVars, unwindVars
<1>3. /\ DOMAIN disposed = {} /\ unwind.at = 0 /\ unwind.pc = "none"
  BY <1>1, NotUnwinding
<1>4. \A n \in Nodes : ~Joined(n)' /\ ~Collected(n)'
  BY <1>1 DEF Joined, Collected
<1>5. LifeSound'
  BY <1>1, <1>2, <1>3 DEF UnwindState, LifeSound, Unwinding, MountNode, MountDone, Run
<1>6. ScopesSound'
  <2>1. \A w \in Workers : NodeOf[w] \in Nat
    BY SupervisorAssumption, DisposedEntries DEF SupervisorAssumption
  <2> QED
    BY <1>2, <1>3, <1>4, <2>1 DEF UnwindState, ScopesSound
<1>7. LateIsNoted' /\ CollectedIsReported'
  BY <1>4, SupervisorAssumption DEF LateIsNoted, CollectedIsReported, SupervisorAssumption
<1>8. DisposedInReverse' /\ DisposedSoFar'
  BY <1>2, <1>3, <1>4 DEF DisposedInReverse, DisposedSoFar
<1> QED
  BY <1>5, <1>6, <1>7, <1>8 DEF UnwindState

\* The unwinding is published as done when it has passed the first node.
LEMMA PublishKeeps ==
  ASSUME SupervisorTypeOK, UnwindState, Publish
  PROVE  UnwindState'
<1>1. /\ phase = "unwinding" /\ phase' = "done" /\ unwind.pc = "none" /\ mclosed'
      /\ UNCHANGED <<mountedN, aborted, started, scope, worker, unwind, disposed, shutErrs>>
  BY DEF Publish, scopeVars, unwindVars
<1>2. LifeSound'
  BY <1>1 DEF UnwindState, LifeSound, Unwinding
<1> QED
  BY <1>1, <1>2 DEF UnwindState, ScopesSound, LateIsNoted, DisposedInReverse, DisposedSoFar,
                    CollectedIsReported, Joined, Collected, Unwinding

\* Every step keeps what the unwinding has come to: one case per action.
LEMMA UnwindStep ==
  ASSUME SupervisorTypeOK, UnwindState, [SupervisorNext]_supervisorVars
  PROVE  UnwindState'
<1>1. ASSUME NEW n \in Nodes, Defer(n) PROVE UnwindState'
  BY <1>1, DeferKeeps
<1>2. ASSUME NEW w \in Workers, Begin(w) PROVE UnwindState'
  BY <1>2, BeginKeeps
<1>3. ASSUME NEW w \in Workers, NEW res \in {"ok", "err"}, FinishWorker(w, res)
      PROVE  UnwindState'
  BY <1>3, FinishWorkerKeeps
<1>4. CASE MountNode \/ MountDone \/ Run
  BY <1>4, LifeKeeps
<1>5. CASE AbortMount
  <2>1. /\ ~Unwinding /\ mountedN > 0 /\ phase' = "unwinding" /\ aborted' /\ BeginUnwind(mountedN)
        /\ UNCHANGED <<mountedN, started, scope, worker, disposed, shutErrs>>
    BY <1>5 DEF AbortMount, Unwinding, scopeVars
  <2>2. ~started
    BY <1>5 DEF AbortMount, UnwindState, LifeSound
  <2> QED
    BY <2>1, <2>2, BeginUnwindKeeps
<1>6. CASE RunEnds
  <2>1. /\ ~Unwinding /\ phase = "running" /\ phase' = "unwinding" /\ BeginUnwind(NNodes)
        /\ UNCHANGED <<mountedN, aborted, started, scope, worker, disposed, shutErrs>>
    BY <1>6 DEF RunEnds, Unwinding, scopeVars
  <2>2. started /\ ~aborted /\ mountedN = NNodes
    BY <2>1 DEF UnwindState, LifeSound
  <2>3. mountedN > 0
    BY <2>2, SupervisorAssumption DEF SupervisorAssumption
  <2> QED
    BY <2>1, <2>2, <2>3, BeginUnwindKeeps
<1>7. ASSUME NEW c \in Closers, Close(c) PROVE UnwindState'
  <2>1. CASE ~mclosed /\ ~started
    <3>1. /\ phase # "mounting" /\ ~aborted /\ mclosed' /\ phase' = "unwinding" /\ BeginUnwind(NNodes)
          /\ UNCHANGED <<mountedN, aborted, started, scope, worker, disposed, shutErrs>>
      BY <1>7, <2>1 DEF Close, scopeVars
    <3>2. mountedN = NNodes /\ ~Unwinding
      BY <2>1, <3>1 DEF UnwindState, LifeSound
    <3>3. mountedN > 0
      BY <3>2, SupervisorAssumption DEF SupervisorAssumption
    <3> QED
      BY <2>1, <3>1, <3>2, <3>3, BeginUnwindKeeps
  <2>2. CASE ~(~mclosed /\ ~started)
    BY <1>7, <2>2, ElsewhereKeeps DEF Close, scopeVars, mountVars
  <2> QED
    BY <2>1, <2>2
<1>8. CASE CloseScope
  BY <1>8, CloseScopeKeeps
<1>9. CASE Join
  BY <1>9, JoinKeeps
<1>10. CASE Dispose
  BY <1>10, DisposeKeeps
<1>11. CASE Collect
  BY <1>11, CollectKeeps
<1>12. CASE Publish
  BY <1>12, PublishKeeps
<1>13. ASSUME NEW n \in Nodes,
              OnLifecycleFailure(n) \/ OnResult(n) \/ \E res \in {"ok", "err"} : NodeReturns(n, res)
       PROVE  UnwindState'
  <2>1. UNCHANGED <<mountVars, scope, worker, unwind, disposed, shutErrs>>
    BY <1>13 DEF OnLifecycleFailure, OnResult, NodeReturns, scopeVars, unwindVars
  <2> QED
    BY <2>1, ElsewhereKeeps
<1>14. CASE ParentCancel \/ OnRunDone \/ OnDeadline \/ Timeout \/ UNCHANGED supervisorVars
  <2>1. UNCHANGED <<mountVars, scope, worker, unwind, disposed, shutErrs>>
    BY <1>14 DEF ParentCancel, OnRunDone, OnDeadline, Timeout, scopeVars, unwindVars, supervisorVars
  <2> QED
    BY <2>1, ElsewhereKeeps
<1> QED
  BY <1>1, <1>2, <1>3, <1>4, <1>5, <1>6, <1>7, <1>8, <1>9, <1>10, <1>11, <1>12, <1>13, <1>14
  DEF SupervisorNext, Supervise

-----------------------------------------------------------------------------
\* Steps that Run's account of its nodes does not see.
LEMMA QuietElsewhere ==
  ASSUME QuietRun,
         UNCHANGED <<phase, started, ctxDone, asked, node, results, active, deadline, primary, runErr>>
  PROVE  QuietRun'
BY DEF QuietRun

\* Every step keeps Run's account: one case per action that touches it.
LEMMA QuietStep ==
  ASSUME SupervisorTypeOK, LifeSound, QuietRun, [SupervisorNext]_supervisorVars
  PROVE  QuietRun'
<1>1. CASE \/ \E n \in Nodes : Defer(n)
           \/ \E w \in Workers : Begin(w) \/ \E res \in {"ok", "err"} : FinishWorker(w, res)
           \/ MountNode \/ CloseScope \/ Join \/ Dispose \/ Collect \/ Timeout \/ UNCHANGED supervisorVars
  <2>1. UNCHANGED <<phase, started, ctxDone, asked, node, results, active, deadline, primary, runErr>>
    BY <1>1 DEF Defer, Begin, FinishWorker, MountNode, CloseScope, Join, Dispose, Collect, Timeout,
                supervisorVars, mountVars, runVars
  <2> QED
    BY <2>1, QuietElsewhere
<1>2. CASE MountDone \/ AbortMount
  <2>1. /\ phase = "mounting" /\ phase' \in {"mounted", "unwinding"}
        /\ UNCHANGED <<started, ctxDone, asked, node, results, active, deadline, primary, runErr>>
    BY <1>2 DEF MountDone, AbortMount, runVars
  <2>2. ~started
    BY <2>1 DEF LifeSound
  <2> QED
    BY <2>1, <2>2 DEF QuietRun
<1>3. CASE Run
  <2>1. /\ ~started /\ started' /\ phase' = "running" /\ active' = Nodes
        /\ node' = [n \in Nodes |-> "running"]
        /\ UNCHANGED <<ctxDone, asked, results, deadline, primary, runErr>>
    BY <1>3 DEF Run
  <2>2. results = {}
    BY <1>3 DEF Run, QuietRun, LifeSound
  <2> QED
    BY <2>1, <2>2 DEF QuietRun
<1>4. CASE ParentCancel
  BY <1>4 DEF ParentCancel, QuietRun, LifeSound, mountVars, runVars
<1>5. ASSUME NEW n \in Nodes, NEW res \in {"ok", "err"}, NodeReturns(n, res)
      PROVE  QuietRun'
  BY <1>5 DEF NodeReturns, QuietRun, SupervisorTypeOK, mountVars
<1>6. ASSUME NEW n \in Nodes, OnLifecycleFailure(n) PROVE QuietRun'
  BY <1>6 DEF OnLifecycleFailure, Supervising, QuietRun, LifeSound, mountVars
<1>7. ASSUME NEW n \in Nodes, OnResult(n) PROVE QuietRun'
  <2>1. /\ phase = "running" /\ n \in results
        /\ results' = results \ {n} /\ active' = active \ {n}
        /\ UNCHANGED <<phase, started, asked, node, runErr>>
    BY <1>7 DEF OnResult, Supervising, mountVars
  <2>2. CASE node[n] = "err" /\ ~deadline /\ ~ctxDone
    <3>1. primary' = {<<"node", n>>}
      BY <1>7, <2>2 DEF OnResult
    <3> QED
      BY <2>1, <3>1 DEF QuietRun, LifeSound
  <2>3. CASE ~(node[n] = "err" /\ ~deadline /\ ~ctxDone)
    <3>1. UNCHANGED <<primary, deadline, ctxDone>>
      BY <1>7, <2>3 DEF OnResult
    <3> QED
      BY <2>1, <2>3, <3>1 DEF QuietRun, LifeSound
  <2> QED
    BY <2>2, <2>3
<1>8. CASE OnRunDone \/ OnDeadline
  BY <1>8 DEF OnRunDone, OnDeadline, Supervising, QuietRun, LifeSound, mountVars
<1>9. CASE RunEnds
  BY <1>9 DEF RunEnds, QuietRun, LifeSound, runVars
<1>10. CASE Publish
  <2>1. /\ phase = "unwinding" /\ phase' = "done"
        /\ UNCHANGED <<started, ctxDone, asked, node, results, active, deadline, primary>>
    BY <1>10 DEF Publish, runVars
  <2>2. started => primary \subseteq runErr'
    BY <1>10 DEF Publish, LifeSound
  <2> QED
    BY <2>1, <2>2 DEF QuietRun
<1>11. ASSUME NEW c \in Closers, Close(c) PROVE QuietRun'
  <2>1. CASE ~mclosed /\ ~started
    BY <1>11, <2>1 DEF Close, QuietRun, runVars
  <2>2. CASE ~(~mclosed /\ ~started)
    BY <1>11, <2>2 DEF Close, QuietRun, runVars
  <2> QED
    BY <2>1, <2>2
<1> QED
  BY <1>1, <1>2, <1>3, <1>4, <1>5, <1>6, <1>7, <1>8, <1>9, <1>10, <1>11
  DEF SupervisorNext, Supervise

-----------------------------------------------------------------------------
\* A graph that is not mounted yet has nothing to unwind.
LEMMA InitSound == SupervisorInit => UnwindSound
<1> SUFFICES ASSUME SupervisorInit PROVE UnwindSound
  OBVIOUS
<1>1. NNodes \in Nat
  BY SupervisorAssumption DEF SupervisorAssumption
<1>2. SupervisorTypeOK
  <2>1. 0 \in 0..NNodes /\ << >> \in Seq(Nodes \X Nat)
    BY <1>1
  <2>2. unwind \in [at : 0..NNodes, pc : {"none", "close", "join", "dispose"}, next : Nat]
    BY <2>1 DEF SupervisorInit
  <2>3. scope \in [Nodes -> [closed : BOOLEAN, effects : Nat, errs : SUBSET Workers, late : BOOLEAN]]
    BY DEF SupervisorInit
  <2> QED
    BY <2>1, <2>2, <2>3 DEF SupervisorInit, SupervisorTypeOK
<1>3. LifeSound /\ QuietRun
  BY DEF SupervisorInit, LifeSound, QuietRun, Unwinding
<1>4. ScopesSound /\ LateIsNoted /\ CollectedIsReported
  BY DEF SupervisorInit, ScopesSound, LateIsNoted, CollectedIsReported, Joined, Collected, Unwinding
<1>5. DisposedInReverse /\ DisposedSoFar
  BY DEF SupervisorInit, DisposedInReverse, DisposedSoFar, Joined, Unwinding
<1> QED
  BY <1>2, <1>3, <1>4, <1>5 DEF UnwindSound

\* UnwindSound is inductive.
LEMMA AlwaysSound == SupervisorSpec => []UnwindSound
<1>1. UnwindSound <=> SupervisorTypeOK /\ UnwindState /\ QuietRun
  BY DEF UnwindSound, UnwindState
<1>2. UnwindSound /\ [SupervisorNext]_supervisorVars => UnwindSound'
  BY TypeStep, UnwindStep, QuietStep DEF UnwindSound, UnwindState
<1> QED
  BY InitSound, <1>2, PTL DEF SupervisorSpec

\* The state of a mounted graph keeps its type.
THEOREM SupervisorTypeCorrect == SupervisorSpec => []SupervisorTypeOK
<1>1. UnwindSound => SupervisorTypeOK
  BY DEF UnwindSound
<1> QED
  BY <1>1, AlwaysSound, PTL

\* Every effect is undone, once, in the reverse of the order of mounting and
\* registering, whoever unwinds the graph and whatever its workers do meanwhile.
THEOREM SupervisorUnwinds == SupervisorSpec => []UnwoundInReverse
<1>1. ASSUME UnwindSound PROVE UnwoundInReverse
  <2>1. DisposedInReverse
    BY <1>1 DEF UnwindSound
  <2>2. ASSUME phase = "done", NEW n \in 1..mountedN, NEW k \in 1..scope[n].effects
        PROVE  \E i \in DOMAIN disposed : disposed[i] = <<n, k>>
    <3>1. n \in Nodes /\ n <= mountedN /\ n > 0
      BY <1>1, <2>2, SupervisorAssumption DEF UnwindSound, SupervisorTypeOK, Nodes, SupervisorAssumption
    <3>2. unwind.at = 0 /\ Joined(n)
      BY <1>1, <2>2, <3>1 DEF UnwindSound, LifeSound, Joined, Unwinding
    <3> QED
      BY <1>1, <2>2, <3>1, <3>2 DEF UnwindSound, DisposedSoFar
  <2> QED
    BY <2>1, <2>2 DEF UnwoundInReverse, DisposedInReverse
<1> QED
  BY <1>1, AlwaysSound, PTL

\* No disposer runs under a live worker of its node, unless the worker outlived
\* the timeout and the scope reports it.
THEOREM SupervisorJoinsFirst == SupervisorSpec => []NothingRunsOnDisposed
<1>1. ASSUME UnwindSound PROVE NothingRunsOnDisposed
  BY <1>1 DEF UnwindSound, DisposedSoFar, LateIsNoted, NothingRunsOnDisposed, LiveWorkers
<1> QED
  BY <1>1, AlwaysSound, PTL

\* A worker's failure, however late, is in what the cleanup reports, and Run
\* returns no error only if every node ended well or it was asked to stop.
THEOREM SupervisorReports == SupervisorSpec => []FailureReported
<1>1. ASSUME UnwindSound PROVE FailureReported
  <2> SUFFICES ASSUME phase = "done"
               PROVE  /\ (\E w \in Workers : worker[w] = "err") => shutErrs \cap {"worker", "live"} # {}
                      /\ started /\ ~asked /\ runErr = {} => \A n \in Nodes : node[n] = "ok"
    BY DEF FailureReported
  <2>1. ASSUME NEW w \in Workers, worker[w] = "err"
        PROVE  shutErrs \cap {"worker", "live"} # {}
    <3>1. NodeOf[w] \in Nodes /\ NodeOf[w] \in Nat \ {0}
      BY SupervisorAssumption DEF SupervisorAssumption, Nodes
    <3>2. NodeOf[w] <= mountedN /\ unwind.at = 0
      BY <1>1, <2>1 DEF UnwindSound, ScopesSound, LifeSound
    <3>3. Collected(NodeOf[w])
      BY <3>1, <3>2 DEF Collected, Unwinding
    <3> QED
      BY <1>1, <2>1, <3>1, <3>3 DEF UnwindSound, CollectedIsReported
  <2>2. ASSUME started, ~asked, runErr = {}
        PROVE  \A n \in Nodes : node[n] = "ok"
    <3>1. primary = {} /\ active = {}
      BY <1>1, <2>2 DEF UnwindSound, QuietRun
    <3> QED
      BY <1>1, <2>2, <3>1 DEF UnwindSound, QuietRun
  <2> QED
    BY <2>1, <2>2
<1> QED
  BY <1>1, AlwaysSound, PTL

-----------------------------------------------------------------------------
\* The boundary.

Replacing == {"idle", "waitIn", "drain", "stopOut", "waitOut", "publish", "resume"}

Results == {"none", "delivered", "closed", "cancelled", "retry"}

\* A generation is published after another.
ControlTyped ==
  /\ current \in Gens
  /\ adm \in [Gens -> [Dirs -> [open : BOOLEAN, epoch : Nat]]]
  /\ repl \in [pc : Replacing, pred : Gens, inEpoch : Int, outEpoch : Int, calls : Nat]
  /\ repl.pc # "idle" => repl.pred < MaxGen

Ops == [pc : {"idle", "acquire", "parked", "paused", "try", "wait", "release", "finish"},
        item : 0..MaxItems, gen : Gens, epoch : Nat, res : Results]

\* Where operations stand.
ClientsTyped ==
  /\ op \in [Clients -> Ops]
  /\ sent \in 0..MaxItems /\ outcome \in [Items -> Results]
  /\ entered \in [Lanes -> Seq(Items)]

Lossless == Lanes \ LossyLanes

\* A broadcast that returned "delivered", or is about to.
Settled(i) ==
  \/ outcome[i] = "delivered"
  \/ \E p \in Senders : op[p].pc = "release" /\ op[p].res = "delivered" /\ op[p].item = i

\* An item is in one client's hands until its broadcast returns.
HandsSound ==
  /\ \A p \in Senders : /\ op[p].pc # "finish"
                        /\ op[p].pc # "idle" => op[p].item \in 1..sent /\ outcome[op[p].item] = "none"
  /\ \A p, q \in Senders : op[p].pc # "idle" /\ op[q].pc # "idle" /\ op[p].item = op[q].item => p = q
  /\ \A i \in Items : i > sent => outcome[i] = "none"

\* An item is in every lossless lane exactly if it is settled, and once.
EntriesSound ==
  \A l \in Lossless :
    /\ \A m \in Lossless : entered[m] = entered[l]
    /\ \A j, k \in DOMAIN entered[l] : entered[l][j] = entered[l][k] => j = k
    /\ \A i \in Items : (\E k \in DOMAIN entered[l] : entered[l][k] = i) <=> Settled(i)

\* The inductive invariant of the boundary.
EnteredSound == ControlTyped /\ ClientsTyped /\ HandsSound /\ EntriesSound

-----------------------------------------------------------------------------
\* The generations: a step keeps the control typed.

LEMMA Stops ==
  ASSUME ControlTyped, NEW g \in Gens, NEW d \in Dirs, Stop(g, d)
  PROVE  adm' \in [Gens -> [Dirs -> [open : BOOLEAN, epoch : Nat]]]
<1> DEFINE Side == [open : BOOLEAN, epoch : Nat]
           t == [adm[g][d] EXCEPT !.open = FALSE]
           a == [adm[g] EXCEPT ![d] = t]
<1>1. adm[g] \in [Dirs -> Side] /\ adm[g][d] \in Side
  BY DEF ControlTyped
<1>2. t \in Side
  BY <1>1
<1>3. a \in [Dirs -> Side]
  BY <1>1, <1>2
<1>4. adm' = [adm EXCEPT ![g] = a]
  BY DEF Stop
<1> QED
  BY <1>3, <1>4 DEF ControlTyped

LEMMA Resumes ==
  ASSUME ControlTyped, NEW g \in Gens, NEW epochs, Resume(g, epochs)
  PROVE  adm' \in [Gens -> [Dirs -> [open : BOOLEAN, epoch : Nat]]]
<1> DEFINE Side == [open : BOOLEAN, epoch : Nat]
           a == [d \in Dirs |->
                   IF ~adm[g][d].open /\ epochs[d] = adm[g][d].epoch
                   THEN [open |-> TRUE, epoch |-> adm[g][d].epoch + 1] ELSE adm[g][d]]
<1>1. \A d \in Dirs : adm[g][d] \in Side
  BY DEF ControlTyped
<1>2. a \in [Dirs -> Side]
  BY <1>1
<1>3. adm' = [adm EXCEPT ![g] = a]
  BY DEF Resume
<1> QED
  BY <1>2, <1>3 DEF ControlTyped

\* The records of a replacement.
LEMMA Replacements ==
  ASSUME ControlTyped
  PROVE  /\ \A s \in Replacing : [repl EXCEPT !.pc = s] \in
              [pc : Replacing, pred : Gens, inEpoch : Int, outEpoch : Int, calls : Nat]
         /\ NoReplace(repl.calls) \in
              [pc : Replacing, pred : Gens, inEpoch : Int, outEpoch : Int, calls : Nat]
         /\ NoReplace(repl.calls).pc = "idle"
         /\ \A s \in Replacing : [repl EXCEPT !.pc = s].pred = repl.pred
         /\ repl.pc \in Replacing /\ repl.pred \in Gens /\ repl.calls \in Nat
<1>1. repl.pc \in Replacing /\ repl.pred \in Gens /\ repl.calls \in Nat
  BY DEF ControlTyped
<1>2. 1 \in Gens /\ "idle" \in Replacing
  BY RouterAssumption DEF Gens, Replacing
<1>3. \A s \in Replacing :
        /\ [repl EXCEPT !.pc = s] \in
             [pc : Replacing, pred : Gens, inEpoch : Int, outEpoch : Int, calls : Nat]
        /\ [repl EXCEPT !.pc = s].pred = repl.pred
  BY DEF ControlTyped
<1> QED
  BY <1>1, <1>2, <1>3 DEF NoReplace

LEMMA ControlStep ==
  ASSUME ControlTyped, RouterNext
  PROVE  ControlTyped'
<1> USE RouterAssumption, Replacements
<1>1. CASE UNCHANGED <<current, adm, repl>>
  BY <1>1 DEF ControlTyped
<1>2. ASSUME NEW p \in Clients, Call(p) \/ Client(p) \/ GiveUp(p) PROVE ControlTyped'
  <2>1. CASE ReceiverFinish(p)
    <3>1. UNCHANGED <<current, repl>>
      BY <2>1 DEF ReceiverFinish
    <3>2. adm' = adm \/ Stop(current, "out")
      BY <2>1 DEF ReceiverFinish, FinishQueueShutdown
    <3>3. CASE Stop(current, "out")
      BY <3>1, <3>3, Stops DEF ControlTyped, Dirs
    <3> QED
      BY <1>1, <3>1, <3>2, <3>3
  <2>2. CASE ~ReceiverFinish(p)
    <3>1. UNCHANGED <<current, adm, repl>>
      BY <1>2, <2>2 DEF Call, Client, GiveUp, ReceiveAgain, Acquire, Broadcast, Receive, Retired, Release, routerVars
    <3> QED
      BY <1>1, <3>1
  <2> QED
    BY <2>1, <2>2
<1>3. ASSUME NEW g \in Gens, Element(g) PROVE ControlTyped'
  BY <1>1, <1>3 DEF Element, ElemScan, ElemSend, ElemVars, routerVars
<1>4. CASE ElemStop
  BY <1>1, <1>4 DEF ElemStop, ElemVars, routerVars
<1>5. CASE ReplaceBegin
  <2>1. current \in Gens /\ adm[current]["in"].epoch \in Int /\ current < MaxGen
    BY <1>5 DEF ReplaceBegin, ControlTyped, Dirs
  <2>2. adm' \in [Gens -> [Dirs -> [open : BOOLEAN, epoch : Nat]]]
    BY <1>5, <2>1, Stops DEF ReplaceBegin, Dirs
  <2>3. repl' = [pc |-> "waitIn", pred |-> current, inEpoch |-> adm[current]["in"].epoch,
                 outEpoch |-> -1, calls |-> repl.calls + 1]
    BY <1>5 DEF ReplaceBegin, NoReplace
  <2>4. current' = current
    BY <1>5 DEF ReplaceBegin, routerVars
  <2> QED
    BY <2>1, <2>2, <2>3, <2>4 DEF ControlTyped, Replacing
<1>6. ASSUME NEW s \in Replacing, repl' = [repl EXCEPT !.pc = s], repl.pc # "idle",
             UNCHANGED <<current, adm>>
      PROVE  ControlTyped'
  BY <1>6 DEF ControlTyped
<1>7. ASSUME NEW d \in Dirs, ReplaceDrained(d) PROVE ControlTyped'
  BY <1>6, <1>7 DEF ReplaceDrained, Replacing, routerVars
<1>8. CASE ReplaceDrain
  BY <1>6, <1>8 DEF ReplaceDrain, Replacing, routerVars
<1>9. CASE ReplaceStop
  <2>1. adm[repl.pred]["out"].epoch \in Int /\ repl.pred < MaxGen
    BY <1>9 DEF ReplaceStop, ControlTyped, Dirs
  <2>2. adm' \in [Gens -> [Dirs -> [open : BOOLEAN, epoch : Nat]]]
    BY <1>9, Stops DEF ReplaceStop, Dirs
  <2>3. repl' = [repl EXCEPT !.pc = "waitOut", !.outEpoch = adm[repl.pred]["out"].epoch]
    BY <1>9 DEF ReplaceStop
  <2>4. /\ repl' \in [pc : Replacing, pred : Gens, inEpoch : Int, outEpoch : Int, calls : Nat]
        /\ repl'.pred = repl.pred
    BY <2>1, <2>3 DEF ControlTyped, Replacing
  <2>5. current' = current
    BY <1>9 DEF ReplaceStop, routerVars
  <2> QED
    BY <2>1, <2>2, <2>4, <2>5 DEF ControlTyped
<1>10. CASE ReplaceRefused
  BY <1>6, <1>10 DEF ReplaceRefused, Replacing, routerVars
<1>11. CASE ReplacePublish
  <2>1. CASE closed
    BY <1>6, <1>11, <2>1 DEF ReplacePublish, Replacing
  <2>2. CASE ~closed
    <3>1. repl' = NoReplace(repl.calls) /\ current' = repl.pred + 1 /\ adm' = adm /\ repl.pred < MaxGen
      BY <1>11, <2>2 DEF ReplacePublish, ControlTyped
    <3>2. current' \in Gens
      BY <3>1 DEF Gens
    <3> QED
      BY <3>1, <3>2 DEF ControlTyped
  <2> QED
    BY <2>1, <2>2
<1>12. CASE ReplaceResume
  <2>1. current' = current /\ repl' = NoReplace(repl.calls)
    BY <1>12 DEF ReplaceResume
  <2>2. adm' \in [Gens -> [Dirs -> [open : BOOLEAN, epoch : Nat]]]
    BY <1>12, Resumes DEF ReplaceResume
  <2> QED
    BY <2>1, <2>2 DEF ControlTyped
<1>13. CASE CancelGraph \/ BeginQueueShutdown \/ CloseQueues
  BY <1>1, <1>13 DEF CancelGraph, BeginQueueShutdown, CloseQueues, ShutVars, routerVars
<1>14. CASE ShutdownIngress \/ ShutdownFinish
  <2>1. UNCHANGED <<current, repl>>
    BY <1>14 DEF ShutdownIngress, ShutdownFinish, ShutVars
  <2>2. adm' = adm \/ \E d \in Dirs : Stop(current, d)
    BY <1>14 DEF ShutdownIngress, ShutdownFinish, FinishQueueShutdown, Dirs
  <2>3. ASSUME NEW d \in Dirs, Stop(current, d) PROVE ControlTyped'
    BY <2>1, <2>3, Stops DEF ControlTyped
  <2> QED
    BY <1>1, <2>1, <2>2, <2>3
<1> QED
  BY <1>2, <1>3, <1>4, <1>5, <1>7, <1>8, <1>9, <1>10, <1>11, <1>12, <1>13, <1>14
     DEF RouterNext, Replace, Shutdown

-----------------------------------------------------------------------------
\* The clients: what a step makes of one operation.

OthersStand(p) == \A q \in Clients : q # p => op'[q] = op[q]

LEMMA Moves ==
  ASSUME ClientsTyped, NEW p \in Clients, NEW t \in Ops, op' = [op EXCEPT ![p] = t]
  PROVE  op' \in [Clients -> Ops] /\ op'[p] = t /\ OthersStand(p)
BY DEF ClientsTyped, OthersStand

LEMMA Goes ==
  ASSUME ClientsTyped, NEW p \in Clients,
         NEW s \in {"idle", "acquire", "parked", "paused", "try", "wait", "release", "finish"}, Goto(p, s)
  PROVE  /\ op' \in [Clients -> Ops] /\ OthersStand(p)
         /\ op'[p].pc = s /\ op'[p].item = op[p].item /\ op'[p].res = op[p].res
<1> DEFINE t == [op[p] EXCEPT !.pc = s]
<1>1. op[p] \in Ops
  BY DEF ClientsTyped
<1>2. t \in Ops /\ t.pc = s /\ t.item = op[p].item /\ t.res = op[p].res
  BY <1>1 DEF Ops
<1>3. op' = [op EXCEPT ![p] = t]
  BY DEF Goto
<1> QED
  BY <1>2, <1>3, Moves

LEMMA Finishes ==
  ASSUME ClientsTyped, NEW p \in Clients, NEW r \in Results, Finish(p, r)
  PROVE  /\ op' \in [Clients -> Ops] /\ OthersStand(p)
         /\ op'[p].pc = "release" /\ op'[p].item = op[p].item /\ op'[p].res = r
<1> DEFINE t == [op[p] EXCEPT !.pc = "release", !.res = r]
<1>1. op[p] \in Ops
  BY DEF ClientsTyped
<1>2. t \in Ops /\ t.pc = "release" /\ t.item = op[p].item /\ t.res = r
  BY <1>1 DEF Ops
<1>3. op' = [op EXCEPT ![p] = t]
  BY <1>1 DEF Finish, ClientsTyped
<1> QED
  BY <1>2, <1>3, Moves

LEMMA CallOf ==
  ASSUME NEW i \in 0..MaxItems
  PROVE  [Calling EXCEPT !.item = i] = [pc |-> "acquire", item |-> i, gen |-> 1, epoch |-> 0, res |-> "none"]
<1>1. Calling = [pc |-> "acquire", item |-> 0, gen |-> 1, epoch |-> 0, res |-> "none"]
  BY DEF Calling, Idle
<1> QED
  BY <1>1

LEMMA BeginsAgain ==
  ASSUME ClientsTyped, NEW p \in Clients, NEW i \in 0..MaxItems,
         op' = [op EXCEPT ![p] = [Calling EXCEPT !.item = i]]
  PROVE  /\ op' \in [Clients -> Ops] /\ OthersStand(p)
         /\ op'[p].pc = "acquire" /\ op'[p].item = i /\ op'[p].res = "none"
<1> DEFINE t == [Calling EXCEPT !.item = i]
<1>1. t = [pc |-> "acquire", item |-> i, gen |-> 1, epoch |-> 0, res |-> "none"]
  BY CallOf
<1>2. 1 \in Gens /\ "none" \in Results
  BY RouterAssumption DEF Gens, Results
<1>3. t \in Ops /\ t.pc = "acquire" /\ t.item = i /\ t.res = "none"
  BY <1>1, <1>2 DEF Ops
<1> QED
  BY <1>3, Moves

LEMMA ResultsOf ==
  ASSUME ClientsTyped, NEW p \in Clients
  PROVE  /\ op[p].res \in Results /\ op[p].item \in 0..MaxItems
         /\ op[p].pc \in {"idle", "acquire", "parked", "paused", "try", "wait", "release", "finish"}
BY DEF ClientsTyped, Ops

-----------------------------------------------------------------------------
\* The hands and the lanes.

Ghosts == <<sent, outcome, entered>>

\* A step in which the same items are settled and no lane is written.
LEMMA EntriesStand ==
  ASSUME EntriesSound, entered' = entered, \A i \in Items : Settled(i)' <=> Settled(i)
  PROVE  EntriesSound'
BY DEF EntriesSound

\* A step of anyone but a sender.
LEMMA SendersStand ==
  ASSUME HandsSound, EntriesSound, \A q \in Senders : op'[q] = op[q], UNCHANGED Ghosts
  PROVE  HandsSound' /\ EntriesSound'
<1>1. \A i \in Items : Settled(i)' <=> Settled(i)
  BY DEF Settled, Ghosts
<1>2. HandsSound'
  BY DEF HandsSound, Ghosts
<1> QED
  BY <1>1, <1>2, EntriesStand DEF Ghosts

\* A sender's operation goes on with its item, not delivered before or after.
LEMMA SenderGoesOn ==
  ASSUME HandsSound, EntriesSound, NEW p \in Senders, OthersStand(p), UNCHANGED Ghosts,
         op[p].pc # "idle", op'[p].pc \notin {"idle", "finish"}, op'[p].item = op[p].item,
         ~(op[p].pc = "release" /\ op[p].res = "delivered"),
         ~(op'[p].pc = "release" /\ op'[p].res = "delivered")
  PROVE  HandsSound' /\ EntriesSound'
<1>1. \A q \in Senders : q # p => op'[q] = op[q]
  BY DEF OthersStand, Clients
<1>2. \A i \in Items : Settled(i)' <=> Settled(i)
  BY <1>1 DEF Settled, Ghosts
<1>3. HandsSound'
  BY <1>1 DEF HandsSound, Ghosts
<1> QED
  BY <1>2, <1>3, EntriesStand DEF Ghosts

\* A broadcast begins with an item of its own.
LEMMA SenderCalls ==
  ASSUME ClientsTyped, HandsSound, EntriesSound, NEW p \in Senders, OthersStand(p), op[p].pc = "idle",
         sent < MaxItems, sent' = sent + 1, UNCHANGED <<outcome, entered>>,
         op'[p].pc = "acquire", op'[p].item = sent + 1
  PROVE  HandsSound' /\ EntriesSound'
<1>1. \A q \in Senders : q # p => op'[q] = op[q]
  BY DEF OthersStand, Clients
<1>2. \A i \in Items : Settled(i)' <=> Settled(i)
  BY <1>1 DEF Settled
<1>3. HandsSound'
  <2>1. sent \in Nat /\ sent + 1 \in Items
    BY RouterAssumption DEF ClientsTyped, Items
  <2>2. outcome[sent + 1] = "none" /\ \A i \in Items : i > sent + 1 => outcome[i] = "none"
    BY <2>1 DEF HandsSound, Items
  <2>3. \A q \in Senders : op[q].pc # "idle" => op[q].item \in 1..sent
    BY DEF HandsSound
  <2>4. \A q \in Senders : op'[q].pc # "finish"
    BY <1>1 DEF HandsSound
  <2>5. \A q \in Senders : op'[q].pc # "idle" =>
          op'[q].item \in 1..(sent + 1) /\ outcome[op'[q].item] = "none"
    BY <1>1, <2>1, <2>2, <2>3 DEF HandsSound
  <2>6. \A q \in Senders : q # p /\ op'[q].pc # "idle" => op'[q].item # sent + 1
    BY <1>1, <2>1, <2>3
  <2>7. \A q, r \in Senders :
          op'[q].pc # "idle" /\ op'[r].pc # "idle" /\ op'[q].item = op'[r].item => q = r
    BY <1>1, <2>6 DEF HandsSound
  <2> QED
    BY <2>2, <2>4, <2>5, <2>7 DEF HandsSound
<1> QED
  BY <1>2, <1>3, EntriesStand

\* A broadcast returns what became of its item.
LEMMA SenderReturns ==
  ASSUME ClientsTyped, HandsSound, EntriesSound, NEW p \in Senders, OthersStand(p), NEW r \in Results,
         op[p].pc # "idle", r = "delivered" <=> (op[p].pc = "release" /\ op[p].res = "delivered"),
         op'[p].pc = "idle", outcome' = [outcome EXCEPT ![op[p].item] = r],
         UNCHANGED <<sent, entered>>
  PROVE  HandsSound' /\ EntriesSound'
<1>1. \A q \in Senders : q # p => op'[q] = op[q]
  BY DEF OthersStand, Clients
<1>2. PICK i \in Items : i = op[p].item /\ i \in 1..sent /\ outcome[i] = "none"
  BY RouterAssumption DEF ClientsTyped, HandsSound, Items
<1>3. outcome'[i] = r /\ \A j \in Items : j # i => outcome'[j] = outcome[j]
  BY <1>2 DEF ClientsTyped
<1>4. \A q \in Senders : q # p /\ op[q].pc # "idle" => op[q].item # i
  BY <1>2 DEF HandsSound
<1>5. \A j \in Items : Settled(j)' <=> Settled(j)
  <2>1. Settled(i)' <=> Settled(i)
    BY <1>1, <1>2, <1>3, <1>4 DEF Settled
  <2>2. ASSUME NEW j \in Items, j # i PROVE Settled(j)' <=> Settled(j)
    BY <1>1, <1>2, <1>3, <2>2 DEF Settled
  <2> QED
    BY <2>1, <2>2
<1>6. HandsSound'
  <2>1. \A q \in Senders : op'[q].pc # "idle" => q # p /\ op'[q] = op[q] /\ op[q].item # i
    BY <1>1, <1>4
  <2>2. \A q \in Senders : op[q].pc # "idle" => op[q].item \in Items
    BY RouterAssumption DEF HandsSound, ClientsTyped, Items
  <2>3. \A j \in Items : j > sent => j # i
    BY <1>2, sent \in Int DEF Items, ClientsTyped
  <2>4. \A q \in Senders : op'[q].pc # "finish"
    BY <1>1 DEF HandsSound
  <2>5. \A q \in Senders : op'[q].pc # "idle" =>
          op'[q].item \in 1..sent /\ outcome'[op'[q].item] = "none"
    BY <1>3, <2>1, <2>2 DEF HandsSound
  <2>6. \A q, s \in Senders :
          op'[q].pc # "idle" /\ op'[s].pc # "idle" /\ op'[q].item = op'[s].item => q = s
    BY <2>1 DEF HandsSound
  <2>7. \A j \in Items : j > sent => outcome'[j] = "none"
    BY <1>3, <2>3 DEF HandsSound
  <2> QED
    BY <2>4, <2>5, <2>6, <2>7 DEF HandsSound
<1> QED
  BY <1>5, <1>6, EntriesStand

\* A broadcast writes every lossless lane, and is delivered.
LEMMA SenderDelivers ==
  ASSUME ClientsTyped, HandsSound, EntriesSound, NEW p \in Senders, OthersStand(p), NEW g,
         op[p].pc # "idle", ~(op[p].pc = "release" /\ op[p].res = "delivered"),
         LanesReady(g), WriteLanes(op[p].item, g),
         op'[p].pc = "release", op'[p].item = op[p].item, op'[p].res = "delivered",
         UNCHANGED <<sent, outcome>>
  PROVE  entered' \in [Lanes -> Seq(Items)] /\ HandsSound' /\ EntriesSound'
<1>1. \A q \in Senders : q # p => op'[q] = op[q]
  BY DEF OthersStand, Clients
<1>2. PICK i \in Items : i = op[p].item /\ outcome[i] = "none"
  BY RouterAssumption DEF ClientsTyped, HandsSound, Items
<1>3. entered' = [l \in Lanes |-> IF Full(inq[g][l]) THEN entered[l] ELSE Append(entered[l], i)]
  BY <1>2 DEF WriteLanes
<1>4. \A l \in Lanes : entered[l] \in Seq(Items) /\ Append(entered[l], i) \in Seq(Items)
  BY DEF ClientsTyped
<1>5. entered' \in [Lanes -> Seq(Items)]
  BY <1>3, <1>4
<1>6. \A l \in Lossless : entered'[l] = Append(entered[l], i)
  BY <1>3 DEF Lossless, LanesReady
<1>7. HandsSound'
  BY <1>1 DEF HandsSound
<1>8. \A j \in Items : Settled(j)' <=> Settled(j) \/ j = i
  BY <1>1, <1>2 DEF Settled
<1>9. ~Settled(i)
  BY <1>2 DEF Settled, HandsSound
<1>10. ASSUME NEW l \in Lossless
       PROVE  /\ \A m \in Lossless : entered'[m] = entered'[l]
              /\ \A j, k \in DOMAIN entered'[l] : entered'[l][j] = entered'[l][k] => j = k
              /\ \A j \in Items : (\E k \in DOMAIN entered'[l] : entered'[l][k] = j) <=> Settled(j)'
  <2>1. PICK s \in Seq(Items) : s = entered[l]
    BY <1>4 DEF Lossless
  <2>2. entered'[l] = Append(s, i) /\ \A m \in Lossless : entered[m] = s
    BY <1>6, <2>1 DEF EntriesSound
  <2>3. /\ \A j, k \in DOMAIN s : s[j] = s[k] => j = k
        /\ \A j \in Items : (\E k \in DOMAIN s : s[k] = j) <=> Settled(j)
    BY <2>1 DEF EntriesSound
  <2>4. PICK t : t = Append(s, i)
    OBVIOUS
  <2>5. /\ DOMAIN s = 1..Len(s) /\ DOMAIN t = 1..(Len(s) + 1) /\ Len(s) \in Nat
        /\ \A k \in 1..Len(s) : t[k] = s[k]
        /\ t[Len(s) + 1] = i
    BY <2>4
  <2>6. \A k \in 1..Len(s) : s[k] # i
    BY <1>9, <2>3, <2>5
  <2>7. \A j, k \in DOMAIN t : t[j] = t[k] => j = k
    BY <2>3, <2>5, <2>6
  <2>8. \A j \in Items : (\E k \in DOMAIN t : t[k] = j) <=> Settled(j) \/ j = i
    BY <2>3, <2>5
  <2>9. entered'[l] = t /\ \A m \in Lossless : entered'[m] = t
    BY <1>6, <2>2, <2>4
  <2> QED
    BY <1>8, <2>7, <2>8, <2>9
<1>11. EntriesSound'
  BY <1>10 DEF EntriesSound
<1> QED
  BY <1>5, <1>7, <1>11

LEMMA Returns ==
  ASSUME ClientsTyped, HandsSound, EntriesSound, NEW p \in Clients, NEW r \in Results, Return(p, r),
         op[p].pc # "idle",
         p \in Senders => (r = "delivered" <=> (op[p].pc = "release" /\ op[p].res = "delivered")),
         UNCHANGED <<sent, entered>>
  PROVE  ClientsTyped' /\ HandsSound' /\ EntriesSound'
<1>1. Idle \in Ops /\ Idle.pc = "idle" /\ Calling \in Ops
  <2>1. 1 \in Gens /\ "none" \in Results /\ 0 \in 0..MaxItems
    BY RouterAssumption DEF Gens, Results
  <2>2. Idle \in Ops /\ Idle.pc = "idle"
    BY <2>1 DEF Idle, Ops
  <2>3. Calling \in Ops
    BY <2>2 DEF Calling, Ops
  <2> QED
    BY <2>2, <2>3
<1>2. CASE p \in Senders
  <2>1. op' = [op EXCEPT ![p] = Idle] /\ outcome' = [outcome EXCEPT ![op[p].item] = r]
    BY <1>2 DEF Return
  <2>2. op' \in [Clients -> Ops] /\ op'[p] = Idle /\ OthersStand(p)
    BY <1>1, <2>1, Moves
  <2>3. HandsSound' /\ EntriesSound'
    BY <1>1, <1>2, <2>1, <2>2, SenderReturns
  <2> QED
    BY <2>1, <2>2, <2>3 DEF ClientsTyped
<1>3. CASE p \notin Senders
  <2>1. PICK t \in Ops : op' = [op EXCEPT ![p] = t] /\ outcome' = outcome
    <3>1. /\ op' = [op EXCEPT ![p] = IF r = "closed" THEN Idle ELSE Calling]
          /\ outcome' = outcome
      BY <1>3 DEF Return
    <3> QED
      BY <1>1, <3>1
  <2>2. op' \in [Clients -> Ops] /\ OthersStand(p)
    BY <2>1, Moves
  <2>3. \A q \in Senders : op'[q] = op[q]
    BY <1>3, <2>2 DEF OthersStand, Clients
  <2>4. HandsSound' /\ EntriesSound'
    BY <2>1, <2>3, SendersStand DEF Ghosts
  <2> QED
    BY <2>1, <2>2, <2>4 DEF ClientsTyped
<1> QED
  BY <1>2, <1>3

\* An operation goes on, of a sender with its item.
LEMMA GoesOn ==
  ASSUME ClientsTyped, HandsSound, EntriesSound, NEW p \in Clients, UNCHANGED Ghosts,
         op' \in [Clients -> Ops], OthersStand(p),
         p \in Senders =>
           /\ op[p].pc # "idle" /\ op'[p].pc \notin {"idle", "finish"} /\ op'[p].item = op[p].item
           /\ ~(op[p].pc = "release" /\ op[p].res = "delivered")
           /\ ~(op'[p].pc = "release" /\ op'[p].res = "delivered")
  PROVE  ClientsTyped' /\ HandsSound' /\ EntriesSound'
<1>1. ClientsTyped'
  BY DEF ClientsTyped, Ghosts
<1>2. CASE p \in Senders
  BY <1>1, <1>2, SenderGoesOn
<1>3. CASE p \notin Senders
  <2>1. \A q \in Senders : op'[q] = op[q]
    BY <1>3 DEF OthersStand, Clients
  <2> QED
    BY <1>1, <2>1, SendersStand
<1> QED
  BY <1>2, <1>3

LEMMA ClientStep ==
  ASSUME ControlTyped, ClientsTyped, HandsSound, EntriesSound,
         NEW p \in Clients, Call(p) \/ Client(p) \/ GiveUp(p)
  PROVE  ClientsTyped' /\ HandsSound' /\ EntriesSound'
<1> DEFINE Sound == ClientsTyped' /\ HandsSound' /\ EntriesSound'
<1>1. /\ {"delivered", "closed", "cancelled", "retry"} \subseteq Results
      /\ op[p].res \in Results /\ op[p].item \in 0..MaxItems
  BY ResultsOf DEF Results
<1>2. CASE Call(p)
  <2>1. /\ p \in Senders /\ op[p].pc = "idle" /\ sent < MaxItems /\ sent' = sent + 1
        /\ op' = [op EXCEPT ![p] = [Calling EXCEPT !.item = sent + 1]]
        /\ UNCHANGED <<outcome, entered>>
    BY <1>2 DEF Call
  <2>2. sent \in Nat /\ sent + 1 \in 0..MaxItems
    BY <2>1, RouterAssumption DEF ClientsTyped
  <2>3. /\ op' \in [Clients -> Ops] /\ OthersStand(p)
        /\ op'[p].pc = "acquire" /\ op'[p].item = sent + 1
    BY <2>1, <2>2, BeginsAgain
  <2>4. HandsSound' /\ EntriesSound'
    BY <2>1, <2>3, SenderCalls
  <2> QED
    BY <2>1, <2>2, <2>3, <2>4 DEF ClientsTyped
<1>3. CASE Acquire(p)
  <2>1. UNCHANGED <<sent, entered>> /\ op[p].pc \in {"acquire", "parked", "paused"}
    BY <1>3 DEF Acquire
  <2>2. CASE Return(p, "closed")
    BY <1>1, <2>1, <2>2, Returns
  <2>3. CASE /\ op' = [op EXCEPT ![p].pc = "try", ![p].gen = current,
                                 ![p].epoch = adm[current][DirOf(p)].epoch]
             /\ UNCHANGED outcome
    <3>1. adm[current][DirOf(p)].epoch \in Nat /\ current \in Gens /\ op[p] \in Ops
      BY DEF ControlTyped, ClientsTyped, DirOf, Dirs
    <3>2. PICK t : t = [op[p] EXCEPT !.pc = "try", !.gen = current,
                                     !.epoch = adm[current][DirOf(p)].epoch]
      OBVIOUS
    <3>3. t \in Ops /\ t.pc = "try" /\ t.item = op[p].item
      BY <3>1, <3>2 DEF Ops
    <3>4. op' = [op EXCEPT ![p] = t]
      BY <2>3, <3>1, <3>2 DEF ClientsTyped
    <3>5. op' \in [Clients -> Ops] /\ op'[p] = t /\ OthersStand(p)
      BY <3>3, <3>4, Moves
    <3> QED
      BY <2>1, <2>3, <3>3, <3>5, GoesOn DEF Ghosts
  <2>4. CASE (Goto(p, "parked") \/ Goto(p, "paused")) /\ UNCHANGED outcome
    BY <2>1, <2>4, Goes, GoesOn DEF Ghosts
  <2> QED
    BY <1>3, <2>2, <2>3, <2>4 DEF Acquire
<1>4. CASE Broadcast(p)
  <2>1. p \in Senders /\ op[p].pc \in {"try", "wait"} /\ UNCHANGED <<sent, outcome>>
    BY <1>4 DEF Broadcast, Trying
  <2>2. ASSUME NEW r \in {"closed", "retry"}, Finish(p, r), UNCHANGED entered PROVE Sound
    BY <1>1, <2>1, <2>2, Finishes, GoesOn DEF Ghosts
  <2>3. CASE Sleep(p)
    BY <2>1, <2>3, Goes, GoesOn DEF Ghosts, Sleep
  <2>4. CASE LanesReady(op[p].gen) /\ WriteLanes(op[p].item, op[p].gen) /\ Finish(p, "delivered")
    <3>1. /\ op' \in [Clients -> Ops] /\ OthersStand(p)
          /\ op'[p].pc = "release" /\ op'[p].item = op[p].item /\ op'[p].res = "delivered"
      BY <1>1, <2>4, Finishes
    <3>2. entered' \in [Lanes -> Seq(Items)] /\ HandsSound' /\ EntriesSound'
      BY <2>1, <2>4, <3>1, SenderDelivers
    <3> QED
      BY <2>1, <3>1, <3>2 DEF ClientsTyped
  <2>5. \/ Sleep(p)
        \/ Finish(p, "closed") /\ UNCHANGED entered
        \/ Finish(p, "retry") /\ UNCHANGED entered
        \/ LanesReady(op[p].gen) /\ WriteLanes(op[p].item, op[p].gen) /\ Finish(p, "delivered")
    BY <1>4 DEF Broadcast, Commit, Untouched
  <2> QED
    BY <2>2, <2>3, <2>4, <2>5
<1>5. ASSUME p \notin Senders, UNCHANGED Ghosts, op' \in [Clients -> Ops], OthersStand(p) PROVE Sound
  BY <1>5, GoesOn
<1>6. CASE Receive(p)
  <2>1. p \notin Senders /\ UNCHANGED <<sent, outcome>>
    BY <1>6, RouterAssumption DEF Receive
  <2>2. /\ UNCHANGED entered
        /\ Sleep(p) \/ Finish(p, "closed") \/ Finish(p, "retry") \/ Finish(p, "delivered")
    BY <1>6 DEF Receive, Commit, Untouched, Sleep
  <2>3. op' \in [Clients -> Ops] /\ OthersStand(p)
    BY <1>1, <2>2, Goes, Finishes DEF Sleep
  <2> QED
    BY <1>5, <2>1, <2>2, <2>3 DEF Ghosts
<1>7. CASE Retired(p)
  <2>1. Finish(p, "retry") /\ op[p].pc = "wait" /\ UNCHANGED Ghosts
    BY <1>7 DEF Retired, ghostVars, Ghosts
  <2> QED
    BY <1>1, <2>1, Finishes, GoesOn
<1>8. CASE Release(p)
  <2>1. op[p].pc = "release" /\ UNCHANGED <<sent, entered>>
    BY <1>8 DEF Release
  <2>2. CASE op[p].res = "retry"
    <3>1. op' = [op EXCEPT ![p] = [Calling EXCEPT !.item = op[p].item]] /\ UNCHANGED outcome
      BY <1>8, <2>2 DEF Release, Again
    <3> QED
      BY <1>1, <2>1, <2>2, <3>1, BeginsAgain, GoesOn DEF Ghosts
  <2>3. CASE op[p].res # "retry" /\ p \in Receivers /\ drainable
    <3>1. p \notin Senders
      BY <2>3, RouterAssumption
    <3>2. Goto(p, "finish") /\ UNCHANGED outcome
      BY <1>8, <2>3 DEF Release
    <3> QED
      BY <1>5, <2>1, <3>1, <3>2, Goes DEF Ghosts
  <2>4. CASE op[p].res # "retry" /\ ~(p \in Receivers /\ drainable)
    <3>1. Return(p, op[p].res)
      BY <1>8, <2>4 DEF Release
    <3> QED
      BY <1>1, <2>1, <3>1, Returns
  <2> QED
    BY <2>2, <2>3, <2>4
<1>9. CASE ReceiverFinish(p)
  <2>1. op[p].pc = "finish" /\ Return(p, op[p].res) /\ UNCHANGED <<sent, entered>>
    BY <1>9 DEF ReceiverFinish
  <2>2. p \notin Senders
    BY <2>1 DEF HandsSound
  <2> QED
    BY <1>1, <2>1, <2>2, Returns
<1>10. CASE GiveUp(p)
  <2>1. UNCHANGED <<sent, entered>>
    BY <1>10 DEF GiveUp
  <2>2. CASE op[p].pc \in {"parked", "paused"} /\ Return(p, "cancelled")
    BY <1>1, <2>1, <2>2, Returns
  <2>3. CASE op[p].pc = "wait" /\ Finish(p, "cancelled") /\ UNCHANGED outcome
    BY <1>1, <2>1, <2>3, Finishes, GoesOn DEF Ghosts
  <2> QED
    BY <1>10, <2>2, <2>3 DEF GiveUp
<1>11. CASE ReceiveAgain(p)
  <2>1. p \notin Senders /\ op' = [op EXCEPT ![p] = Calling] /\ UNCHANGED Ghosts
    BY <1>11, RouterAssumption DEF ReceiveAgain, ghostVars, Ghosts
  <2>2. Calling \in Ops
    <3>1. Calling = [pc |-> "acquire", item |-> 0, gen |-> 1, epoch |-> 0, res |-> "none"]
      BY DEF Calling, Idle
    <3> QED
      BY <3>1, RouterAssumption DEF Ops, Gens, Results
  <2> QED
    BY <1>5, <2>1, <2>2, Moves
<1> QED
  BY <1>2, <1>3, <1>4, <1>6, <1>7, <1>8, <1>9, <1>10, <1>11 DEF Client

LEMMA EnteredStep ==
  ASSUME EnteredSound, [RouterNext]_vars
  PROVE  EnteredSound'
<1> USE DEF EnteredSound
<1>1. ASSUME UNCHANGED <<op, sent, outcome, entered>>
      PROVE  ClientsTyped' /\ HandsSound' /\ EntriesSound'
  BY <1>1, SendersStand DEF ClientsTyped, Ghosts
<1>2. CASE RouterNext
  <2>1. ControlTyped'
    BY <1>2, ControlStep
  <2>2. ASSUME NEW p \in Clients, Call(p) \/ Client(p) \/ GiveUp(p)
        PROVE  ClientsTyped' /\ HandsSound' /\ EntriesSound'
    BY <2>2, ClientStep
  <2>3. ASSUME ~\E p \in Clients : Call(p) \/ Client(p) \/ GiveUp(p)
        PROVE  UNCHANGED <<op, sent, outcome, entered>>
    <3>1. ASSUME NEW g \in Gens, Element(g) PROVE UNCHANGED <<op, sent, outcome, entered>>
      BY <3>1 DEF Element, ElemScan, ElemSend, ElemVars
    <3>2. CASE ElemStop
      BY <3>2 DEF ElemStop, ElemVars
    <3>3. CASE ReplaceBegin \/ Replace
      BY <3>3 DEF ReplaceBegin, Replace, ReplaceDrained, ReplaceDrain, ReplaceStop, ReplaceRefused,
                  ReplacePublish, ReplaceResume, ReplVars, ghostVars
    <3>4. CASE CancelGraph \/ Shutdown
      BY <3>4 DEF CancelGraph, Shutdown, BeginQueueShutdown, ShutdownIngress, CloseQueues,
                  ShutdownFinish, ShutVars, ghostVars
    <3> QED
      BY <1>2, <2>3, <3>1, <3>2, <3>3, <3>4 DEF RouterNext
  <2> QED
    BY <1>1, <2>1, <2>2, <2>3
<1>3. CASE UNCHANGED vars
  <2>1. UNCHANGED <<current, adm, repl, op, sent, outcome, entered>>
    BY <1>3 DEF vars, routerVars, ghostVars
  <2>2. ControlTyped'
    BY <2>1 DEF ControlTyped
  <2> QED
    BY <1>1, <2>1, <2>2
<1> QED
  BY <1>2, <1>3

LEMMA EnteredInit ==
  ASSUME RouterInit
  PROVE  EnteredSound
<1>1. ControlTyped
  BY RouterAssumption DEF RouterInit, ControlTyped, NoReplace, Replacing, Gens, Dirs
<1>2. Idle \in Ops /\ Calling \in Ops /\ Idle.pc = "idle"
  <2>1. 1 \in Gens /\ "none" \in Results /\ 0 \in 0..MaxItems
    BY RouterAssumption DEF Gens, Results
  <2>2. Idle \in Ops /\ Idle.pc = "idle"
    BY <2>1 DEF Idle, Ops
  <2> QED
    BY <2>2 DEF Calling, Ops
<1>3. ClientsTyped
  BY <1>2, RouterAssumption DEF RouterInit, ClientsTyped, Results
<1>4. \A p \in Senders : op[p].pc = "idle"
  BY <1>2 DEF RouterInit, Clients
<1>5. HandsSound
  BY <1>4 DEF RouterInit, HandsSound
<1>6. \A l \in Lossless : entered[l] = << >>
  BY DEF RouterInit, Lossless
<1>7. \A i \in Items : ~Settled(i)
  BY <1>4 DEF RouterInit, Settled
<1>8. EntriesSound
  BY <1>6, <1>7 DEF EntriesSound
<1> QED
  BY <1>1, <1>3, <1>5, <1>8 DEF EnteredSound

\* An item entered once exactly if it is settled, and a result other than
\* "delivered" belongs to nothing that is settled.
LEMMA EnteredOnce ==
  ASSUME EnteredSound
  PROVE  DeliveredOnce
<1>1. ASSUME NEW l \in Lossless, NEW i \in Items
      PROVE  LET n == Cardinality({k \in DOMAIN entered[l] : entered[l][k] = i})
             IN CASE outcome[i] = "none" -> n <= 1
                  [] outcome[i] = "delivered" -> n = 1
                  [] OTHER -> n = 0
  <2>1. PICK at : at = {k \in DOMAIN entered[l] : entered[l][k] = i}
    OBVIOUS
  <2>2. CASE Settled(i)
    <3>0. PICK k \in DOMAIN entered[l] : entered[l][k] = i
      BY <2>2 DEF EnteredSound, EntriesSound
    <3>1. at = {k}
      BY <2>1, <3>0 DEF EnteredSound, EntriesSound
    <3>2. Cardinality(at) = 1
      BY <3>1, FS_Singleton
    <3>3. outcome[i] \in {"none", "delivered"}
      BY <2>2 DEF Settled, EnteredSound, HandsSound
    <3> QED
      BY <2>1, <3>2, <3>3
  <2>3. CASE ~Settled(i)
    <3>1. at = {}
      BY <2>1, <2>3 DEF EnteredSound, EntriesSound
    <3>2. Cardinality(at) = 0
      BY <3>1, FS_EmptySet
    <3>3. outcome[i] # "delivered"
      BY <2>3 DEF Settled
    <3> QED
      BY <2>1, <3>2, <3>3
  <2> QED
    BY <2>2, <2>3
<1> QED
  BY <1>1 DEF DeliveredOnce, EnteredSound, EntriesSound, Lossless

\* A broadcast that retirement interrupts and that is repeated in the next
\* generation enters every lossless lane once, or none, as its result says, for
\* any number of clients, lanes, generations and replacements.
THEOREM RouterDeliversOnce == RouterSpec => []DeliveredOnce
<1>1. RouterInit => EnteredSound
  BY EnteredInit
<1>2. EnteredSound /\ [RouterNext]_vars => EnteredSound'
  BY EnteredStep
<1>3. EnteredSound => DeliveredOnce
  BY EnteredOnce
<1> QED
  BY <1>1, <1>2, <1>3, PTL DEF RouterSpec
-----------------------------------------------------------------------------
\* What a lane is handed on.

LaneRuns(s, l) == [i \in DOMAIN s |-> IF s[i][2] = l THEN <<s[i][1]>> ELSE << >>]

Numbers == Items \cup {0}

LEMMA LaneRunsOf ==
  ASSUME NEW s \in Seq(Entries), NEW l
  PROVE  /\ LaneRuns(s, l) \in Seq(Seq(Numbers)) /\ Len(LaneRuns(s, l)) = Len(s)
         /\ \A i \in 1..Len(s) : LaneRuns(s, l)[i] = IF s[i][2] = l THEN <<s[i][1]>> ELSE << >>
         /\ OnLane(s, l) = FlattenSeq(LaneRuns(s, l)) /\ OnLane(s, l) \in Seq(Numbers)
<1>1. PICK n \in Nat : DOMAIN s = 1..n /\ Len(s) = n
  OBVIOUS
<1>2. ASSUME NEW i \in 1..n PROVE (IF s[i][2] = l THEN <<s[i][1]>> ELSE << >>) \in Seq(Numbers)
  <2>1. s[i] \in Entries
    BY <1>1
  <2>2. s[i][1] \in Numbers
    BY <2>1 DEF Entries, Numbers
  <2> QED
    BY <2>2
<1>3. LaneRuns(s, l) \in [1..n -> Seq(Numbers)]
  BY <1>1, <1>2 DEF LaneRuns
<1>4. LaneRuns(s, l) \in Seq(Seq(Numbers)) /\ Len(LaneRuns(s, l)) = n
  BY <1>3
<1>5. OnLane(s, l) = FlattenSeq(LaneRuns(s, l))
  BY DEF OnLane, LaneRuns
<1>6. FlattenSeq(LaneRuns(s, l)) \in Seq(Numbers)
  BY <1>4, FlattenValues
<1>7. \A i \in 1..n : LaneRuns(s, l)[i] = IF s[i][2] = l THEN <<s[i][1]>> ELSE << >>
  BY <1>1 DEF LaneRuns
<1> QED
  BY <1>1, <1>4, <1>5, <1>6, <1>7

LEMMA OnLaneNone ==
  ASSUME NEW l
  PROVE  OnLane(<< >>, l) = << >>
<1>1. << >> \in Seq(Entries) /\ Len(<< >>) = 0
  OBVIOUS
<1>2. LaneRuns(<< >>, l) \in Seq(Seq(Numbers)) /\ Len(LaneRuns(<< >>, l)) = 0
  BY <1>1, LaneRunsOf
<1>3. LaneRuns(<< >>, l) = << >>
  BY <1>2
<1>4. OnLane(<< >>, l) = FlattenSeq(LaneRuns(<< >>, l))
  BY DEF OnLane, LaneRuns
<1> QED
  BY <1>3, <1>4, FlattenEmpty, Zenon

\* Such sequences of numbers, as a lane carries them.
LEMMA NumberRuns ==
  ASSUME NEW d \in Seq(Seq(Numbers)), NEW e \in Seq(Seq(Numbers)), NEW r \in Seq(Seq(Numbers)),
         Len(r) = Len(d) + Len(e),
         \A i \in 1..Len(r) : r[i] = IF i <= Len(d) THEN d[i] ELSE e[i - Len(d)]
  PROVE  FlattenSeq(r) = FlattenSeq(d) \o FlattenSeq(e)
BY FlattenRuns, ZenonT(60)

LEMMA OnLaneConcat ==
  ASSUME NEW s \in Seq(Entries), NEW t \in Seq(Entries), NEW l
  PROVE  s \o t \in Seq(Entries) /\ OnLane(s \o t, l) = OnLane(s, l) \o OnLane(t, l)
<1>1. PICK u : u = s \o t
  OBVIOUS
<1>2. /\ u \in Seq(Entries) /\ Len(u) = Len(s) + Len(t) /\ Len(s) \in Nat /\ Len(t) \in Nat
      /\ \A i \in 1..(Len(s) + Len(t)) : u[i] = IF i <= Len(s) THEN s[i] ELSE t[i - Len(s)]
  BY <1>1, ConcatProperties
<1>3. PICK d, e, r : d = LaneRuns(s, l) /\ e = LaneRuns(t, l) /\ r = LaneRuns(u, l)
  OBVIOUS
<1>4. /\ d \in Seq(Seq(Numbers)) /\ Len(d) = Len(s)
      /\ \A i \in 1..Len(s) : d[i] = IF s[i][2] = l THEN <<s[i][1]>> ELSE << >>
  BY <1>3, LaneRunsOf
<1>5. /\ e \in Seq(Seq(Numbers)) /\ Len(e) = Len(t)
      /\ \A i \in 1..Len(t) : e[i] = IF t[i][2] = l THEN <<t[i][1]>> ELSE << >>
  BY <1>3, LaneRunsOf
<1>6. /\ r \in Seq(Seq(Numbers)) /\ Len(r) = Len(u)
      /\ \A i \in 1..Len(u) : r[i] = IF u[i][2] = l THEN <<u[i][1]>> ELSE << >>
  <2>1. u \in Seq(Entries)
    BY <1>2
  <2> QED
    BY <1>3, <2>1, LaneRunsOf
<1>7. ASSUME NEW i \in 1..Len(r) PROVE r[i] = IF i <= Len(d) THEN d[i] ELSE e[i - Len(d)]
  <2>1. PICK m \in Nat, n \in Nat : m = Len(s) /\ n = Len(t)
    BY <1>2
  <2>2. i \in 1..(m + n)
    BY <1>2, <1>6, <2>1
  <2>3. CASE i <= m
    <3>1. i \in 1..m
      BY <2>2, <2>3
    <3>2. u[i] = s[i]
      BY <1>2, <2>1, <2>2, <2>3
    <3>3. r[i] = d[i]
      BY <1>2, <1>4, <1>6, <2>1, <3>1, <3>2
    <3> QED
      BY <1>4, <2>1, <2>3, <3>3
  <2>4. CASE ~(i <= m)
    <3>1. i - m \in 1..n
      BY <2>2, <2>4
    <3>2. u[i] = t[i - m]
      BY <1>2, <2>1, <2>2, <2>4
    <3>3. r[i] = e[i - m]
      BY <1>2, <1>5, <1>6, <2>1, <3>1, <3>2
    <3> QED
      BY <1>4, <2>1, <2>4, <3>3
  <2> QED
    BY <2>3, <2>4
<1>8. FlattenSeq(r) = FlattenSeq(d) \o FlattenSeq(e)
  <2>1. /\ d \in Seq(Seq(Numbers)) /\ e \in Seq(Seq(Numbers)) /\ r \in Seq(Seq(Numbers))
        /\ Len(r) = Len(d) + Len(e)
    BY <1>2, <1>4, <1>5, <1>6
  <2>2. \A i \in 1..Len(r) : r[i] = IF i <= Len(d) THEN d[i] ELSE e[i - Len(d)]
    BY <1>7
  <2> QED
    BY <2>1, <2>2, NumberRuns
<1>9. OnLane(s, l) = FlattenSeq(d) /\ OnLane(t, l) = FlattenSeq(e) /\ OnLane(u, l) = FlattenSeq(r)
  BY <1>2, <1>3, LaneRunsOf
<1> QED
  BY <1>1, <1>2, <1>8, <1>9, Zenon

\* One item.
LEMMA OnLaneOne ==
  ASSUME NEW x \in Numbers, NEW m \in Lanes, NEW l
  PROVE  << <<x, m>> >> \in Seq(Entries) /\ OnLane(<< <<x, m>> >>, l) = IF m = l THEN <<x>> ELSE << >>
<1>1. PICK s : s = << <<x, m>> >>
  OBVIOUS
<1>2. <<x, m>> \in Entries
  BY DEF Entries, Numbers
<1>3. s \in Seq(Entries) /\ Len(s) = 1 /\ s[1] = <<x, m>>
  BY <1>1, <1>2
<1>4. PICK d : d = LaneRuns(s, l)
  OBVIOUS
<1>5. d \in Seq(Seq(Numbers)) /\ Len(d) = 1 /\ d[1] = IF m = l THEN <<x>> ELSE << >>
  <2>1. 1 \in 1..Len(s) /\ s[1][2] = m /\ s[1][1] = x
    BY <1>3
  <2> QED
    BY <1>3, <1>4, <2>1, LaneRunsOf
<1>6. FlattenSeq(d) = d[1]
  <2>1. 1 \in 1..Len(d) /\ \A i \in 1..Len(d) : i # 1 => d[i] = << >>
    BY <1>5
  <2> QED
    BY <1>5, <2>1, FlattenOne
<1>7. OnLane(s, l) = FlattenSeq(d)
  BY <1>3, <1>4, LaneRunsOf
<1> QED
  BY <1>1, <1>3, <1>5, <1>6, <1>7
-----------------------------------------------------------------------------
\* The queues and the elements between them.

Elements == [pc : {"scan", "wait", "send", "blocked", "stopped"}, at : Nat, sealed : BOOLEAN,
             hold : Seq(Entries)]

LaneQueues == [Lanes -> Seq(Items)]

\* No queue is longer than its depth, and an element carries one item at a time,
\* and none while it looks for the next.
QueuesSound ==
  /\ inq \in [Gens -> LaneQueues] /\ outq \in [Gens -> Seq(Entries)]
  /\ elem \in [Gens -> Elements] /\ cursor \in [Gens -> 0..(NLanes - 1)]
  /\ taken \in Seq(Entries)
  /\ \A g \in Gens, l \in Lanes : Len(inq[g][l]) <= Depth
  /\ \A g \in Gens : Len(outq[g]) <= Depth
  /\ \A g \in Gens : Len(elem[g].hold) <= 1
  /\ \A g \in Gens : elem[g].pc \in {"scan", "wait"} => elem[g].hold = << >>

\* An element that looks for the next item, and one that has stopped.
LEMMA EmptyHands ==
  /\ Scanning \in Elements /\ Scanning.hold = << >>
  /\ Stopped \in Elements /\ Stopped.hold = << >>
  /\ \A s \in {"scan", "wait", "stopped"} :
       [Scanning EXCEPT !.pc = s] \in Elements /\ [Scanning EXCEPT !.pc = s].hold = << >>
<1>1. << >> \in Seq(Entries)
  OBVIOUS
<1> QED
  BY <1>1 DEF Scanning, Stopped, Elements

LEMMA HandsHold ==
  ASSUME NEW h \in Seq(Entries), NEW t, t = [pc |-> "send", at |-> 0, sealed |-> TRUE, hold |-> h]
  PROVE  t \in Elements /\ t.hold = h /\ t.pc = "send"
BY DEF Elements

LEMMA FullHands ==
  ASSUME NEW e \in Entries, NEW t, t = [Scanning EXCEPT !.pc = "send", !.hold = <<e>>]
  PROVE  t \in Elements /\ t.hold = <<e>> /\ t.pc = "send" /\ Len(t.hold) <= 1
<1>1. PICK h : h = <<e>>
  OBVIOUS
<1>2. h \in Seq(Entries) /\ Len(h) <= 1
  BY <1>1
<1>3. Scanning = [pc |-> "scan", at |-> 0, sealed |-> TRUE, hold |-> << >>]
  BY DEF Scanning
<1>4. t = [Scanning EXCEPT !.pc = "send", !.hold = h]
  BY <1>1, Zenon
<1>5. t = [pc |-> "send", at |-> 0, sealed |-> TRUE, hold |-> h]
  BY <1>3, <1>4
<1>6. t \in Elements /\ t.hold = h /\ t.pc = "send"
  BY <1>2, <1>5, HandsHold, Zenon
<1> QED
  BY <1>1, <1>2, <1>6, Zenon

\* What the next turn of a scan looks at.
LEMMA ScannedLane ==
  ASSUME QueuesSound, NEW g \in Gens
  PROVE  ((cursor[g] + elem[g].at) % NLanes) + 1 \in Lanes
<1>1. PICK n \in Nat : n = cursor[g] + elem[g].at
  <2>1. cursor[g] \in 0..(NLanes - 1) /\ elem[g].at \in Nat
    BY DEF QueuesSound, Elements
  <2> QED
    BY <2>1, RouterAssumption
<1>2. NLanes \in Nat \ {0} /\ n % NLanes \in 0..(NLanes - 1)
  BY RouterAssumption
<1> QED
  BY <1>1, <1>2 DEF Lanes

LEMMA LaneReplaced ==
  ASSUME QueuesSound, NEW g \in Gens, NEW l \in Lanes, NEW q \in Seq(Items), inq' = [inq EXCEPT ![g][l] = q]
  PROVE  /\ inq' \in [Gens -> LaneQueues] /\ inq'[g][l] = q
         /\ \A m \in Lanes : m # l => inq'[g][m] = inq[g][m]
         /\ \A h \in Gens : h # g => inq'[h] = inq[h]
<1> DEFINE a == [inq[g] EXCEPT ![l] = q]
<1>1. inq[g] \in LaneQueues
  BY DEF QueuesSound
<1>2. a \in LaneQueues /\ a[l] = q /\ \A m \in Lanes : m # l => a[m] = inq[g][m]
  BY <1>1 DEF LaneQueues
<1>3. inq' = [inq EXCEPT ![g] = a]
  OBVIOUS
<1> HIDE DEF a
<1>4. inq' \in [Gens -> LaneQueues] /\ inq'[g] = a /\ \A h \in Gens : h # g => inq'[h] = inq[h]
  BY <1>2, <1>3 DEF QueuesSound
<1> QED
  BY <1>2, <1>4

\* One turn of a scan takes the first item of a lane into empty hands, or goes
\* on or stops with empty hands.
ScanTakes(g, l, x) ==
  /\ inq[g][l] # << >> /\ x = Head(inq[g][l]) /\ elem[g].hold = << >>
  /\ inq' \in [Gens -> LaneQueues] /\ inq'[g][l] = Tail(inq[g][l])
  /\ \A m \in Lanes : m # l => inq'[g][m] = inq[g][m]
  /\ \A h \in Gens : h # g => inq'[h] = inq[h]
  /\ elem' \in [Gens -> Elements] /\ elem'[g].hold = << <<x, l>> >> /\ elem'[g].pc = "send"
  /\ \A h \in Gens : h # g => elem'[h] = elem[h]

ScanMoves(g) ==
  /\ inq' = inq /\ elem[g].hold = << >>
  /\ elem' \in [Gens -> Elements] /\ elem'[g].hold = << >>
  /\ \A h \in Gens : h # g => elem'[h] = elem[h]

LEMMA Scans ==
  ASSUME QueuesSound, NEW g \in Gens, ElemScan(g)
  PROVE  /\ (\E l \in Lanes, x \in Items : ScanTakes(g, l, x)) \/ ScanMoves(g)
         /\ cursor' \in [Gens -> 0..(NLanes - 1)]
         /\ UNCHANGED <<outq, qclosed, entered, taken>> /\ ElemVars
<1>1. PICK lane \in Lanes : lane = ((cursor[g] + elem[g].at) % NLanes) + 1
  BY ScannedLane
<1>2. elem[g].pc \in {"scan", "wait"} /\ UNCHANGED <<outq, qclosed, entered, taken>> /\ ElemVars
  BY DEF ElemScan
<1>3. elem[g].hold = << >> /\ elem[g] \in Elements /\ inq[g][lane] \in Seq(Items)
  BY <1>2 DEF QueuesSound, LaneQueues
<1>4. CASE TakeLane(g, lane)
  <2>1. PICK q : q = inq[g][lane]
    OBVIOUS
  <2>2. q \in Seq(Items) /\ q # << >>
    BY <1>3, <1>4, <2>1 DEF TakeLane
  <2>3. Head(q) \in Items /\ Tail(q) \in Seq(Items)
    BY <2>2
  <2>4. inq' = [inq EXCEPT ![g][lane] = Tail(q)]
    BY <1>4, <2>1 DEF TakeLane, QueuesSound, LaneQueues
  <2>5. PICK t : t = [Scanning EXCEPT !.pc = "send", !.hold = << <<Head(q), lane>> >>]
    OBVIOUS
  <2>6. <<Head(q), lane>> \in Entries
    BY <2>3 DEF Entries
  <2>7. t \in Elements /\ t.hold = << <<Head(q), lane>> >> /\ t.pc = "send"
    BY <2>5, <2>6, FullHands
  <2>8. elem' = [elem EXCEPT ![g] = t]
    BY <1>4, <2>1, <2>5 DEF TakeLane
  <2>9. elem' \in [Gens -> Elements] /\ elem'[g] = t /\ \A h \in Gens : h # g => elem'[h] = elem[h]
    BY <2>7, <2>8 DEF QueuesSound
  <2>10. ScanTakes(g, lane, Head(q))
    <3>1. /\ inq' \in [Gens -> LaneQueues] /\ inq'[g][lane] = Tail(q)
          /\ \A m \in Lanes : m # lane => inq'[g][m] = inq[g][m]
          /\ \A h \in Gens : h # g => inq'[h] = inq[h]
      BY <2>3, <2>4, LaneReplaced
    <3> QED
      BY <1>3, <2>1, <2>2, <2>7, <2>9, <3>1, Zenon DEF ScanTakes
  <2>11. cursor' = [cursor EXCEPT ![g] = lane % NLanes] /\ lane % NLanes \in 0..(NLanes - 1)
    BY <1>4, RouterAssumption DEF TakeLane, Lanes
  <2>12. cursor' \in [Gens -> 0..(NLanes - 1)]
    BY <2>11 DEF QueuesSound
  <2> QED
    BY <1>2, <2>3, <2>10, <2>12
<1>5. CASE ~TakeLane(g, lane)
  <2>1. PICK sealed : sealed = (elem[g].sealed /\ <<g, lane>> \in qclosed)
    OBVIOUS
  <2>2. /\ elem' = [elem EXCEPT ![g] =
             IF elem[g].at + 1 < NLanes
             THEN [pc |-> "scan", at |-> elem[g].at + 1, sealed |-> sealed, hold |-> << >>]
             ELSE [Scanning EXCEPT !.pc = IF sealed THEN "stopped" ELSE "wait"]]
        /\ inq' = inq /\ cursor' = cursor
    BY <1>1, <1>5, <2>1 DEF ElemScan
  <2>3. sealed \in BOOLEAN
    BY <1>3, <2>1 DEF Elements
  <2>4. PICK t \in Elements : elem' = [elem EXCEPT ![g] = t] /\ t.hold = << >>
    <3>1. CASE elem[g].at + 1 < NLanes
      <4>1. PICK t : t = [pc |-> "scan", at |-> elem[g].at + 1, sealed |-> sealed, hold |-> << >>]
        OBVIOUS
      <4>2. t \in Elements /\ t.hold = << >>
        BY <1>3, <2>3, <4>1 DEF Elements
      <4>3. elem' = [elem EXCEPT ![g] = t]
        BY <2>2, <3>1, <4>1 DEF QueuesSound
      <4> QED
        BY <4>2, <4>3
    <3>2. CASE ~(elem[g].at + 1 < NLanes)
      <4>1. PICK s \in {"wait", "stopped"} : s = IF sealed THEN "stopped" ELSE "wait"
        OBVIOUS
      <4>2. elem' = [elem EXCEPT ![g] = [Scanning EXCEPT !.pc = s]]
        BY <2>2, <3>2, <4>1 DEF QueuesSound
      <4> QED
        BY <4>1, <4>2, EmptyHands
    <3> QED
      BY <3>1, <3>2
  <2>5. elem' \in [Gens -> Elements] /\ elem'[g] = t /\ \A h \in Gens : h # g => elem'[h] = elem[h]
    BY <2>4 DEF QueuesSound
  <2>6. cursor' \in [Gens -> 0..(NLanes - 1)]
    BY <2>2 DEF QueuesSound
  <2> QED
    BY <1>2, <1>3, <2>2, <2>4, <2>5, <2>6 DEF ScanMoves
<1> QED
  BY <1>4, <1>5

\* A send moves what the element holds to the output queue, or leaves both as
\* they are; only a closed queue makes it drop what it holds.
SendMoves(g) ==
  /\ elem' \in [Gens -> Elements] /\ outq' \in [Gens -> Seq(Entries)]
  /\ \A h \in Gens : h # g => elem'[h] = elem[h] /\ outq'[h] = outq[h]
  /\ Len(outq'[g]) <= Depth /\ Len(elem'[g].hold) <= 1
  /\ elem'[g].pc \in {"scan", "wait"} => elem'[g].hold = << >>
  /\ <<g, 0>> \notin qclosed => outq'[g] \o elem'[g].hold = outq[g] \o elem[g].hold
  /\ outq[g] = << >> /\ elem[g].hold = << >> => outq'[g] = << >> /\ elem'[g].hold = << >>

LEMMA Sends ==
  ASSUME QueuesSound, NEW g \in Gens, ElemSend(g)
  PROVE  SendMoves(g) /\ UNCHANGED <<inq, qclosed, cursor, entered, taken>> /\ ElemVars
<1>1. UNCHANGED <<inq, qclosed, cursor, entered, taken>> /\ ElemVars
  BY DEF ElemSend
<1>2. elem[g] \in Elements /\ outq[g] \in Seq(Entries) /\ Len(outq[g]) <= Depth /\ Len(elem[g].hold) <= 1
  BY DEF QueuesSound
<1>3. PICK h, o : h = elem[g].hold /\ o = outq[g]
  OBVIOUS
<1>4. h \in Seq(Entries) /\ o \in Seq(Entries) /\ Len(o) <= Depth /\ Len(h) <= 1
  BY <1>2, <1>3 DEF Elements
<1>5. o \o h \in Seq(Entries) /\ Len(o \o h) = Len(o) + Len(h) /\ (o \o h) \o << >> = o \o h
      /\ << >> \o << >> = << >>
  <2>1. o \o h \in Seq(Entries) /\ << >> \in Seq(Entries)
    BY <1>4, ConcatProperties
  <2> QED
    BY <1>4, <2>1, ConcatProperties, ConcatEmptySeq
<1>6. Len(<< >>) <= 1
  OBVIOUS
<1>7. CASE <<g, 0>> \in qclosed
  <2>1. outq' = outq /\ elem' = [elem EXCEPT ![g] = Stopped]
    BY <1>7 DEF ElemSend
  <2>2. elem' \in [Gens -> Elements] /\ elem'[g] = Stopped /\ \A f \in Gens : f # g => elem'[f] = elem[f]
    BY <2>1, EmptyHands DEF QueuesSound
  <2>3. outq' \in [Gens -> Seq(Entries)]
    BY <2>1 DEF QueuesSound
  <2>4. SendMoves(g)
    BY <1>2, <1>6, <1>7, <2>1, <2>2, <2>3, EmptyHands, Zenon DEF SendMoves
  <2> QED
    BY <1>1, <2>4
<1>8. CASE <<g, 0>> \notin qclosed /\ Full(outq[g])
  <2>1. outq' = outq /\ elem' = [elem EXCEPT ![g].pc = "blocked"]
    BY <1>8 DEF ElemSend
  <2>2. PICK t : t = [elem[g] EXCEPT !.pc = "blocked"]
    OBVIOUS
  <2>3. t \in Elements /\ t.hold = h /\ t.pc = "blocked"
    BY <1>2, <1>3, <2>2 DEF Elements
  <2>4. elem' = [elem EXCEPT ![g] = t]
    BY <2>1, <2>2 DEF QueuesSound
  <2>5. elem' \in [Gens -> Elements] /\ elem'[g] = t /\ \A f \in Gens : f # g => elem'[f] = elem[f]
    BY <2>3, <2>4 DEF QueuesSound
  <2>6. outq' \in [Gens -> Seq(Entries)]
    BY <2>1 DEF QueuesSound
  <2>7. "blocked" \notin {"scan", "wait"}
    OBVIOUS
  <2>8. SendMoves(g)
    BY <1>2, <1>3, <2>1, <2>3, <2>5, <2>6, <2>7, Zenon DEF SendMoves
  <2> QED
    BY <1>1, <2>8
<1>9. CASE <<g, 0>> \notin qclosed /\ ~Full(outq[g])
  <2>1. /\ outq' = [outq EXCEPT ![g] = o \o h]
        /\ elem' = [elem EXCEPT ![g] = IF h = Terminal THEN Stopped ELSE Scanning]
    BY <1>3, <1>9 DEF ElemSend, QueuesSound
  <2>2. PICK t \in Elements : elem' = [elem EXCEPT ![g] = t] /\ t.hold = << >>
    BY <2>1, EmptyHands
  <2>3. elem' \in [Gens -> Elements] /\ elem'[g] = t /\ \A f \in Gens : f # g => elem'[f] = elem[f]
    BY <2>2 DEF QueuesSound
  <2>4. outq' \in [Gens -> Seq(Entries)] /\ outq'[g] = o \o h /\ \A f \in Gens : f # g => outq'[f] = outq[f]
    BY <1>5, <2>1 DEF QueuesSound
  <2>5. Len(o \o h) <= Depth
    <3>1. Len(o) # Depth
      BY <1>3, <1>9 DEF Full
    <3>2. Len(o) \in Nat /\ Len(h) \in Nat /\ Depth \in Nat
      BY <1>4, RouterAssumption
    <3> QED
      BY <1>4, <1>5, <3>1, <3>2
  <2>6. SendMoves(g)
    BY <1>3, <1>5, <1>6, <2>2, <2>3, <2>4, <2>5, Zenon DEF SendMoves
  <2> QED
    BY <1>1, <2>6
<1> QED
  BY <1>7, <1>8, <1>9

\* A broadcast appends its item to the same lanes of the generation's queues and
\* of the history.
LanesWritten(g, x) ==
  /\ inq' \in [Gens -> LaneQueues] /\ \A h \in Gens : h # g => inq'[h] = inq[h]
  /\ \A l \in Lanes :
       /\ Len(inq'[g][l]) <= Depth
       /\ \/ inq'[g][l] = inq[g][l] /\ entered'[l] = entered[l]
          \/ inq'[g][l] = Append(inq[g][l], x) /\ entered'[l] = Append(entered[l], x)

LEMMA Writes ==
  ASSUME QueuesSound, NEW g \in Gens, NEW x \in Items, WriteLanes(x, g)
  PROVE  LanesWritten(g, x) /\ UNCHANGED <<outq, qclosed, taken>>
<1> DEFINE a == [l \in Lanes |-> IF Full(inq[g][l]) THEN inq[g][l] ELSE Append(inq[g][l], x)]
<1>1. /\ inq' = [inq EXCEPT ![g] = a]
      /\ entered' = [l \in Lanes |-> IF Full(inq[g][l]) THEN entered[l] ELSE Append(entered[l], x)]
      /\ UNCHANGED <<outq, qclosed, taken>>
  BY DEF WriteLanes, QueuesSound
<1>2. \A l \in Lanes : inq[g][l] \in Seq(Items) /\ Len(inq[g][l]) <= Depth
  BY DEF QueuesSound, LaneQueues
<1>3. a \in LaneQueues
  BY <1>2 DEF LaneQueues
<1>4. ASSUME NEW l \in Lanes
      PROVE  /\ Len(a[l]) <= Depth
             /\ \/ a[l] = inq[g][l] /\ entered'[l] = entered[l]
                \/ a[l] = Append(inq[g][l], x) /\ entered'[l] = Append(entered[l], x)
  <2>1. PICK q \in Seq(Items) : q = inq[g][l] /\ Len(q) <= Depth
    BY <1>2
  <2>2. Len(Append(q, x)) = Len(q) + 1 /\ Len(q) \in Nat /\ Depth \in Nat
    BY RouterAssumption
  <2>3. CASE Full(q)
    BY <1>1, <2>1, <2>3
  <2>4. CASE ~Full(q)
    <3>1. Len(Append(q, x)) <= Depth
      BY <2>1, <2>2, <2>4 DEF Full
    <3>2. a[l] = Append(q, x) /\ entered'[l] = Append(entered[l], x)
      BY <1>1, <2>1, <2>4
    <3> QED
      BY <2>1, <3>1, <3>2, Zenon
  <2> QED
    BY <2>3, <2>4
<1> HIDE DEF a
<1>5. inq' \in [Gens -> LaneQueues] /\ inq'[g] = a /\ \A h \in Gens : h # g => inq'[h] = inq[h]
  BY <1>1, <1>3 DEF QueuesSound
<1> QED
  BY <1>1, <1>4, <1>5 DEF LanesWritten

Receives(g) ==
  /\ outq[g] # << >> /\ UNCHANGED <<inq, entered>>
  /\ taken' = (IF cancelled THEN taken ELSE Append(taken, Head(outq[g])))
  /\ outq' = [outq EXCEPT ![g] = Tail(outq[g])]

\* What a client's step does to the queues.
LEMMA ClientMoves ==
  ASSUME EnteredSound, QueuesSound, NEW p \in Clients, Call(p) \/ Client(p) \/ GiveUp(p)
  PROVE  /\ \/ UNCHANGED <<inq, outq, entered, taken>>
            \/ /\ p \in Senders /\ Admitted(p) /\ op[p].gen \in Gens /\ op[p].item \in Items
               /\ LanesWritten(op[p].gen, op[p].item) /\ UNCHANGED <<outq, taken>>
            \/ op[p].gen \in Gens /\ Receives(op[p].gen)
         /\ UNCHANGED <<current, closed, qclosed, elem, cursor, repl, shut, cancelled>>
<1>1. op[p].gen \in Gens
  BY DEF EnteredSound, ClientsTyped, Ops
<1>2. CASE Call(p) \/ ReceiveAgain(p) \/ Acquire(p) \/ GiveUp(p) \/ Retired(p) \/ Release(p) \/ ReceiverFinish(p)
  BY <1>2 DEF Call, ReceiveAgain, Acquire, GiveUp, Retired, Release, ReceiverFinish, queueVars, routerVars, ghostVars
<1>3. CASE Broadcast(p)
  <2>1. /\ p \in Senders /\ op[p].pc \in {"try", "wait"}
        /\ UNCHANGED <<current, closed, elem, cursor, repl, shut, cancelled>>
    BY <1>3 DEF Broadcast, Trying, routerVars
  <2>2. op[p].item \in Items
    <3>1. op[p].item \in 1..sent /\ sent \in 0..MaxItems /\ MaxItems \in Nat
      BY <2>1, RouterAssumption DEF EnteredSound, ClientsTyped, HandsSound
    <3> QED
      BY <3>1 DEF Items
  <2>3. \/ UNCHANGED <<inq, outq, qclosed, entered, taken>>
        \/ Admitted(p) /\ WriteLanes(op[p].item, op[p].gen)
    BY <1>3 DEF Broadcast, Commit, Untouched, Sleep, queueVars
  <2>4. ASSUME WriteLanes(op[p].item, op[p].gen)
        PROVE  LanesWritten(op[p].gen, op[p].item) /\ UNCHANGED <<outq, qclosed, taken>>
    BY <1>1, <2>2, <2>4, Writes
  <2> QED
    BY <1>1, <2>1, <2>2, <2>3, <2>4
<1>4. CASE Receive(p)
  <2>1. UNCHANGED <<current, closed, elem, cursor, repl, shut, cancelled>>
    BY <1>4 DEF Receive, routerVars
  <2>2. \/ UNCHANGED <<inq, outq, qclosed, entered, taken>>
        \/ Receives(op[p].gen) /\ UNCHANGED qclosed
    BY <1>4 DEF Receive, Commit, Untouched, Sleep, queueVars, Receives
  <2> QED
    BY <1>1, <2>1, <2>2
<1> QED
  BY <1>2, <1>3, <1>4 DEF Client

LEMMA Received ==
  ASSUME QueuesSound, NEW g \in Gens, Receives(g)
  PROVE  /\ outq' \in [Gens -> Seq(Entries)] /\ taken' \in Seq(Entries)
         /\ \A h \in Gens : h # g => outq'[h] = outq[h]
         /\ outq'[g] = Tail(outq[g]) /\ Head(outq[g]) \in Entries /\ Len(outq'[g]) <= Depth
         /\ outq[g] = <<Head(outq[g])>> \o outq'[g]
<1>1. PICK o : o = outq[g]
  OBVIOUS
<1>2. o \in Seq(Entries) /\ o # << >> /\ Len(o) <= Depth
  BY <1>1 DEF QueuesSound, Receives
<1>3. Tail(o) \in Seq(Entries) /\ Head(o) \in Entries /\ Len(Tail(o)) = Len(o) - 1 /\ Len(o) \in Nat
  BY <1>2
<1>4. outq' = [outq EXCEPT ![g] = Tail(o)]
  BY <1>1 DEF Receives
<1>5. outq' \in [Gens -> Seq(Entries)] /\ outq'[g] = Tail(o) /\ \A h \in Gens : h # g => outq'[h] = outq[h]
  BY <1>3, <1>4 DEF QueuesSound
<1>6. taken' \in Seq(Entries)
  BY <1>1, <1>3 DEF Receives, QueuesSound
<1>7. o = <<Head(o)>> \o Tail(o)
  BY <1>2, HeadFirst
<1>8. Len(Tail(o)) <= Depth
  BY <1>2, <1>3, RouterAssumption
<1> QED
  BY <1>1, <1>3, <1>5, <1>6, <1>7, <1>8, Zenon

LEMMA QueuesStep ==
  ASSUME EnteredSound, QueuesSound, [RouterNext]_vars
  PROVE  QueuesSound'
<1>1. ASSUME UNCHANGED <<inq, outq, elem, cursor, taken>> PROVE QueuesSound'
  BY <1>1 DEF QueuesSound
<1>2. ASSUME NEW p \in Clients, Call(p) \/ Client(p) \/ GiveUp(p) PROVE QueuesSound'
  <2>1. PICK g : g = op[p].gen
    OBVIOUS
  <2>2. UNCHANGED <<elem, cursor>>
    BY <1>2, ClientMoves
  <2>3. ASSUME g \in Gens, NEW x, LanesWritten(g, x), UNCHANGED <<outq, taken>> PROVE QueuesSound'
    BY <2>2, <2>3 DEF QueuesSound, LanesWritten
  <2>4. ASSUME g \in Gens, Receives(g) PROVE QueuesSound'
    <3>1. inq' = inq
      BY <2>4 DEF Receives
    <3> QED
      BY <2>2, <2>4, <3>1, Received DEF QueuesSound
  <2> QED
    BY <1>1, <1>2, <2>1, <2>2, <2>3, <2>4, ClientMoves
<1>3. ASSUME NEW g \in Gens, ElemScan(g) PROVE QueuesSound'
  <2>1. /\ (\E l \in Lanes, x \in Items : ScanTakes(g, l, x)) \/ ScanMoves(g)
        /\ cursor' \in [Gens -> 0..(NLanes - 1)] /\ UNCHANGED <<outq, taken>>
    BY <1>3, Scans
  <2>2. ASSUME NEW l \in Lanes, NEW x \in Items, ScanTakes(g, l, x) PROVE QueuesSound'
    <3>1. inq[g][l] \in Seq(Items) /\ inq[g][l] # << >> /\ Len(inq[g][l]) <= Depth /\ inq'[g][l] = Tail(inq[g][l])
      BY <2>2 DEF QueuesSound, LaneQueues, ScanTakes
    <3>2. Len(inq'[g][l]) <= Depth
      <4>1. PICK q \in Seq(Items) : q = inq[g][l]
        BY <3>1
      <4>2. Len(Tail(q)) = Len(q) - 1 /\ Len(q) \in Nat /\ Len(q) <= Depth
        BY <3>1, <4>1, HeadTailProperties
      <4> QED
        BY <3>1, <4>1, <4>2, RouterAssumption
    <3>3. \A h \in Gens, m \in Lanes : Len(inq'[h][m]) <= Depth
      <4>1. \A h \in Gens, m \in Lanes : (h = g /\ m = l) \/ inq'[h][m] = inq[h][m]
        BY <2>2 DEF ScanTakes
      <4> QED
        BY <3>2, <4>1 DEF QueuesSound
    <3>4. \A h \in Gens : Len(elem'[h].hold) <= 1
                          /\ (elem'[h].pc \in {"scan", "wait"} => elem'[h].hold = << >>)
      <4>1. /\ elem'[g].pc \notin {"scan", "wait"} /\ Len(elem'[g].hold) <= 1
            /\ \A h \in Gens : h # g => elem'[h] = elem[h]
        BY <2>2 DEF ScanTakes
      <4>2. \A h \in Gens : /\ Len(elem[h].hold) <= 1
                            /\ elem[h].pc \in {"scan", "wait"} => elem[h].hold = << >>
        BY DEF QueuesSound
      <4> QED
        BY <4>1, <4>2, Zenon
    <3>5. inq' \in [Gens -> LaneQueues] /\ elem' \in [Gens -> Elements]
      BY <2>2 DEF ScanTakes
    <3> QED
      BY <2>1, <3>3, <3>4, <3>5 DEF QueuesSound
  <2>3. ASSUME ScanMoves(g) PROVE QueuesSound'
    <3>1. \A h \in Gens : Len(elem'[h].hold) <= 1
                          /\ (elem'[h].pc \in {"scan", "wait"} => elem'[h].hold = << >>)
      <4>1. elem'[g].hold = << >> /\ Len(<< >>) <= 1 /\ \A h \in Gens : h # g => elem'[h] = elem[h]
        BY <2>3 DEF ScanMoves
      <4> QED
        BY <4>1 DEF QueuesSound
    <3>2. inq' = inq /\ elem' \in [Gens -> Elements]
      BY <2>3 DEF ScanMoves
    <3> QED
      BY <2>1, <3>1, <3>2 DEF QueuesSound
  <2> QED
    BY <2>1, <2>2, <2>3
<1>4. ASSUME NEW g \in Gens, ElemSend(g) PROVE QueuesSound'
  <2>1. SendMoves(g) /\ UNCHANGED <<inq, cursor, taken>>
    BY <1>4, Sends
  <2> QED
    BY <2>1 DEF QueuesSound, SendMoves
<1>5. CASE ElemStop
  <2>1. PICK last \in {Stopped, [Scanning EXCEPT !.pc = "send", !.hold = Terminal]} :
          elem' = [g \in Gens |-> IF g = current /\ elem[g].pc # "stopped" THEN last ELSE Stopped]
    BY <1>5 DEF ElemStop
  <2>2. <<0, 1>> \in Entries
    BY RouterAssumption DEF Entries, Lanes
  <2>3. last \in Elements /\ Len(last.hold) <= 1 /\ (last.pc \in {"scan", "wait"} => last.hold = << >>)
    <3>1. CASE last = Stopped
      <4>1. Len(<< >>) <= 1
        OBVIOUS
      <4> QED
        BY <3>1, <4>1, EmptyHands, Zenon
    <3>2. CASE last = [Scanning EXCEPT !.pc = "send", !.hold = << <<0, 1>> >>]
      <4>1. last \in Elements /\ last.pc = "send" /\ Len(last.hold) <= 1 /\ "send" \notin {"scan", "wait"}
        BY <2>2, <3>2, FullHands
      <4> QED
        BY <4>1, Zenon
    <3> QED
      BY <2>1, <3>1, <3>2 DEF Terminal
  <2>4. Stopped \in Elements /\ Len(Stopped.hold) <= 1 /\ Stopped.hold = << >>
    BY EmptyHands
  <2> HIDE DEF Stopped
  <2>5. /\ elem' \in [Gens -> Elements]
        /\ \A g \in Gens : Len(elem'[g].hold) <= 1
                           /\ (elem'[g].pc \in {"scan", "wait"} => elem'[g].hold = << >>)
    BY <2>1, <2>3, <2>4
  <2>6. UNCHANGED <<inq, outq, cursor, taken>>
    BY <1>5 DEF ElemStop
  <2> QED
    BY <2>5, <2>6 DEF QueuesSound
<1>6. CASE ReplaceBegin \/ Replace
  BY <1>1, <1>6 DEF ReplaceBegin, Replace, ReplaceDrained, ReplaceDrain, ReplaceStop, ReplaceRefused,
                    ReplacePublish, ReplaceResume, ReplVars, ghostVars, queueVars
<1>7. CASE CancelGraph
  <2>1. taken' = << >> /\ UNCHANGED <<inq, outq, elem, cursor>> /\ << >> \in Seq(Entries)
    BY <1>7 DEF CancelGraph, queueVars
  <2> QED
    BY <2>1 DEF QueuesSound
<1>8. CASE Shutdown
  BY <1>1, <1>8 DEF Shutdown, BeginQueueShutdown, ShutdownIngress, CloseQueues, ShutdownFinish,
                    ShutVars, ghostVars, queueVars
<1>9. CASE UNCHANGED vars
  BY <1>1, <1>9 DEF vars, queueVars, ghostVars
<1> QED
  BY <1>2, <1>3, <1>4, <1>5, <1>6, <1>7, <1>8, <1>9 DEF RouterNext, Element

-----------------------------------------------------------------------------
\* One generation at a time.

\* While the graph runs its predecessors admit nobody, and neither does the
\* current generation during a replacement.
RunningSound ==
  ~cancelled =>
    /\ shut = "running" /\ ~closed /\ qclosed = {}
    /\ \A g \in Gens : g < current => ~adm[g]["in"].open
    /\ \A p \in Clients : op[p].gen <= current
    /\ repl.pc # "idle" => repl.pred = current /\ ~adm[current]["in"].open

\* A replacement reopens an admission at most once, and none more often than
\* there were replacements.
EpochsSound ==
  /\ repl.calls <= MaxReplace
  /\ \A g \in Gens, d \in Dirs : /\ adm[g][d].epoch <= repl.calls
                                 /\ repl.pc # "idle" => adm[g][d].epoch < repl.calls
  /\ \A p \in Clients : op[p].epoch <= repl.calls

\* What is on its way is in the current generation, and what entered a lane was
\* taken or is on its way.
CarriedSound ==
  ~cancelled =>
    /\ \A g \in Gens : g # current => Quiescent(g)
    /\ repl.pc \in {"stopOut", "waitOut", "publish"} => Quiescent(current)
    /\ \A l \in Lanes : entered[l] = TakenFrom(l) \o Pipe(current, l)

BoundarySound == EnteredSound /\ QueuesSound /\ RunningSound /\ EpochsSound /\ CarriedSound

\* An operation is bound to the generation and the epoch it acquired.
BoundTo(q) ==
  \/ op'[q].gen = op[q].gen /\ op'[q].epoch = op[q].epoch
  \/ op'[q].gen = 1 /\ op'[q].epoch = 0
  \/ op'[q].gen = current /\ \E d \in Dirs : op'[q].epoch = adm[current][d].epoch

LEMMA Bindings ==
  ASSUME ControlTyped, ClientsTyped, NEW p \in Clients, Call(p) \/ Client(p) \/ GiveUp(p)
  PROVE  \A q \in Clients : BoundTo(q)
<1>1. ASSUME NEW t, op' = [op EXCEPT ![p] = t],
             \/ t.gen = op[p].gen /\ t.epoch = op[p].epoch
             \/ t.gen = 1 /\ t.epoch = 0
             \/ t.gen = current /\ \E d \in Dirs : t.epoch = adm[current][d].epoch
      PROVE  \A q \in Clients : BoundTo(q)
  <2>1. op'[p] = t /\ \A q \in Clients : q # p => op'[q] = op[q]
    BY <1>1 DEF ClientsTyped
  <2> QED
    BY <1>1, <2>1 DEF BoundTo
<1>2. /\ Idle.gen = 1 /\ Idle.epoch = 0 /\ Calling.gen = 1 /\ Calling.epoch = 0
      /\ op[p] \in Ops /\ op[p].item \in 0..MaxItems
  BY ResultsOf DEF Idle, Calling, ClientsTyped
<1>3. ASSUME NEW i \in 0..MaxItems, op' = [op EXCEPT ![p] = [Calling EXCEPT !.item = i]]
      PROVE  \A q \in Clients : BoundTo(q)
  <2>1. [Calling EXCEPT !.item = i].gen = 1 /\ [Calling EXCEPT !.item = i].epoch = 0
    BY CallOf
  <2> QED
    BY <1>1, <1>3, <2>1
<1>4. ASSUME NEW r, Return(p, r) PROVE \A q \in Clients : BoundTo(q)
  <2>1. op' = [op EXCEPT ![p] = Idle] \/ op' = [op EXCEPT ![p] = Calling]
    BY <1>4 DEF Return
  <2> QED
    BY <1>1, <1>2, <2>1
<1>5. ASSUME NEW s, Goto(p, s) PROVE \A q \in Clients : BoundTo(q)
  <2>1. PICK t : t = [op[p] EXCEPT !.pc = s]
    OBVIOUS
  <2>2. t.gen = op[p].gen /\ t.epoch = op[p].epoch
    BY <1>2, <2>1 DEF Ops
  <2>3. op' = [op EXCEPT ![p] = t]
    BY <1>5, <2>1 DEF Goto
  <2> QED
    BY <1>1, <2>2, <2>3
<1>6. ASSUME NEW r, Finish(p, r) PROVE \A q \in Clients : BoundTo(q)
  <2>1. PICK t : t = [op[p] EXCEPT !.pc = "release", !.res = r]
    OBVIOUS
  <2>2. t.gen = op[p].gen /\ t.epoch = op[p].epoch
    BY <1>2, <2>1 DEF Ops
  <2>3. op' = [op EXCEPT ![p] = t]
    BY <1>6, <2>1 DEF Finish, ClientsTyped
  <2> QED
    BY <1>1, <2>2, <2>3
<1>7. CASE Call(p)
  <2>1. sent + 1 \in 0..MaxItems /\ op' = [op EXCEPT ![p] = [Calling EXCEPT !.item = sent + 1]]
    BY <1>7, RouterAssumption DEF Call, ClientsTyped
  <2> QED
    BY <1>3, <2>1
<1>8. CASE Acquire(p)
  <2>1. CASE op' = [op EXCEPT ![p].pc = "try", ![p].gen = current, ![p].epoch = adm[current][DirOf(p)].epoch]
    <3>1. PICK t : t = [op[p] EXCEPT !.pc = "try", !.gen = current, !.epoch = adm[current][DirOf(p)].epoch]
      OBVIOUS
    <3>2. t.gen = current /\ t.epoch = adm[current][DirOf(p)].epoch /\ DirOf(p) \in Dirs
      BY <1>2, <3>1 DEF Ops, DirOf, Dirs
    <3>3. op' = [op EXCEPT ![p] = t]
      BY <2>1, <3>1 DEF ClientsTyped
    <3> QED
      BY <1>1, <3>2, <3>3
  <2> QED
    BY <1>4, <1>5, <1>8, <2>1 DEF Acquire
<1>9. CASE Broadcast(p)
  BY <1>5, <1>6, <1>9 DEF Broadcast, Commit, Sleep
<1>10. CASE Receive(p)
  BY <1>5, <1>6, <1>10 DEF Receive, Commit, Sleep
<1>11. CASE Retired(p)
  BY <1>6, <1>11 DEF Retired
<1>12. CASE Release(p)
  BY <1>2, <1>3, <1>4, <1>5, <1>12 DEF Release, Again
<1>13. CASE ReceiverFinish(p)
  BY <1>4, <1>13 DEF ReceiverFinish
<1>14. CASE GiveUp(p)
  BY <1>4, <1>6, <1>14 DEF GiveUp
<1>15. CASE ReceiveAgain(p)
  BY <1>1, <1>2, <1>15 DEF ReceiveAgain
<1> QED
  BY <1>7, <1>8, <1>9, <1>10, <1>11, <1>12, <1>13, <1>14, <1>15 DEF Client

\* A stop closes one admission and leaves the epochs alone.
LEMMA StopCloses ==
  ASSUME ControlTyped, NEW g \in Gens, NEW d \in Dirs, Stop(g, d)
  PROVE  /\ ~adm'[g][d].open
         /\ \A h \in Gens, e \in Dirs : /\ adm'[h][e].open => adm[h][e].open
                                        /\ adm'[h][e].epoch = adm[h][e].epoch
<1> DEFINE t == [adm[g][d] EXCEPT !.open = FALSE]
           a == [adm[g] EXCEPT ![d] = t]
<1>1. adm[g] \in [Dirs -> [open : BOOLEAN, epoch : Nat]] /\ adm[g][d] \in [open : BOOLEAN, epoch : Nat]
  BY DEF ControlTyped
<1>2. t.open = FALSE /\ t.epoch = adm[g][d].epoch
  BY <1>1
<1>3. adm' = [adm EXCEPT ![g] = a]
  BY DEF Stop
<1> HIDE DEF t
<1>4. a[d] = t /\ \A e \in Dirs : e # d => a[e] = adm[g][e]
  BY <1>1
<1> HIDE DEF a
<1>5. adm'[g] = a /\ \A h \in Gens : h # g => adm'[h] = adm[h]
  BY <1>3 DEF ControlTyped
<1> QED
  BY <1>2, <1>4, <1>5

\* A resumption opens admissions of one generation, each with the next epoch.
LEMMA ResumeOpens ==
  ASSUME ControlTyped, NEW g \in Gens, NEW epochs, Resume(g, epochs)
  PROVE  /\ \A h \in Gens : h # g => adm'[h] = adm[h]
         /\ \A e \in Dirs : adm'[g][e].epoch \in {adm[g][e].epoch, adm[g][e].epoch + 1}
<1> DEFINE a == [d \in Dirs |->
                   IF ~adm[g][d].open /\ epochs[d] = adm[g][d].epoch
                   THEN [open |-> TRUE, epoch |-> adm[g][d].epoch + 1] ELSE adm[g][d]]
<1>1. \A e \in Dirs : a[e].epoch \in {adm[g][e].epoch, adm[g][e].epoch + 1}
  OBVIOUS
<1>2. adm' = [adm EXCEPT ![g] = a]
  BY DEF Resume
<1> HIDE DEF a
<1> QED
  BY <1>1, <1>2 DEF ControlTyped

\* Fields of a replacement after a step of it.
LEMMA ReplaceFields ==
  ASSUME ControlTyped
  PROVE  /\ \A s : /\ [repl EXCEPT !.pc = s].pc = s /\ [repl EXCEPT !.pc = s].pred = repl.pred
                   /\ [repl EXCEPT !.pc = s].calls = repl.calls
         /\ \A s, e : /\ [repl EXCEPT !.pc = s, !.outEpoch = e].pc = s
                      /\ [repl EXCEPT !.pc = s, !.outEpoch = e].pred = repl.pred
                      /\ [repl EXCEPT !.pc = s, !.outEpoch = e].calls = repl.calls
         /\ \A n : NoReplace(n).pc = "idle" /\ NoReplace(n).calls = n
<1>1. \A n : NoReplace(n).pc = "idle" /\ NoReplace(n).calls = n
  BY DEF NoReplace
<1>2. \A s : /\ [repl EXCEPT !.pc = s].pc = s /\ [repl EXCEPT !.pc = s].pred = repl.pred
             /\ [repl EXCEPT !.pc = s].calls = repl.calls
  BY DEF ControlTyped
<1>3. \A s, e : /\ [repl EXCEPT !.pc = s, !.outEpoch = e].pc = s
                /\ [repl EXCEPT !.pc = s, !.outEpoch = e].pred = repl.pred
                /\ [repl EXCEPT !.pc = s, !.outEpoch = e].calls = repl.calls
  BY DEF ControlTyped
<1> QED
  BY <1>1, <1>2, <1>3

\* What a replacement may do: begin, go on, publish or resume.
Begins ==
  /\ Stop(current, "in") /\ UNCHANGED current /\ repl.calls < MaxReplace /\ repl.pc = "idle"
  /\ repl'.pc = "waitIn" /\ repl'.pred = current /\ repl'.calls = repl.calls + 1

GoesOnReplacing ==
  /\ repl.pc # "idle" /\ repl'.pc \in Replacing \ {"idle"}
  /\ repl'.pred = repl.pred /\ repl'.calls = repl.calls
  /\ UNCHANGED current /\ (adm' = adm \/ Stop(repl.pred, "out"))
  /\ repl'.pc = "stopOut" => Quiescent(repl.pred)
  /\ repl'.pc \in {"waitOut", "publish"} => repl.pc \in {"stopOut", "waitOut"}

Publishes ==
  /\ repl.pc = "publish" /\ repl'.pc = "idle" /\ repl'.calls = repl.calls /\ ~closed
  /\ current' = repl.pred + 1 /\ adm' = adm

ResumesAdmission ==
  /\ repl.pc = "resume" /\ repl'.pc = "idle" /\ repl'.calls = repl.calls /\ UNCHANGED current
  /\ \E epochs : Resume(repl.pred, epochs)

LEMMA ReplaceMoves ==
  ASSUME ControlTyped, ReplaceBegin \/ Replace
  PROVE  /\ Begins \/ GoesOnReplacing \/ Publishes \/ ResumesAdmission
         /\ UNCHANGED <<closed, drainable, queueVars, op, elem, cursor, shut, cancelled, ghostVars>>
<1>1. CASE ReplaceBegin
  <2>1. repl' = [pc |-> "waitIn", pred |-> current, inEpoch |-> adm[current]["in"].epoch,
                 outEpoch |-> -1, calls |-> repl.calls + 1]
    BY <1>1 DEF ReplaceBegin, NoReplace
  <2>2. repl'.pc = "waitIn" /\ repl'.pred = current /\ repl'.calls = repl.calls + 1
    BY <2>1
  <2> QED
    BY <1>1, <2>2 DEF ReplaceBegin, Begins, ReplVars, routerVars
<1>2. ASSUME NEW d \in Dirs, ReplaceDrained(d)
      PROVE  GoesOnReplacing /\ UNCHANGED routerVars /\ ReplVars
  <2>1. PICK s : s = (IF d = "in" THEN "drain" ELSE "publish") /\ repl' = [repl EXCEPT !.pc = s]
    BY <1>2 DEF ReplaceDrained
  <2>2. repl'.pc = s /\ repl'.pred = repl.pred /\ repl'.calls = repl.calls
    BY <2>1, ReplaceFields
  <2>3. repl.pc = (IF d = "in" THEN "waitIn" ELSE "waitOut") /\ UNCHANGED <<routerVars, adm>> /\ ReplVars
    BY <1>2 DEF ReplaceDrained
  <2> QED
    BY <2>1, <2>2, <2>3 DEF GoesOnReplacing, Replacing, routerVars
<1>3. CASE ReplaceDrain
  <2>1. repl'.pc = "stopOut" /\ repl'.pred = repl.pred /\ repl'.calls = repl.calls
    BY <1>3, ReplaceFields DEF ReplaceDrain
  <2>2. repl.pc = "drain" /\ Quiescent(repl.pred) /\ UNCHANGED <<routerVars, adm>> /\ ReplVars
    BY <1>3 DEF ReplaceDrain
  <2>3. GoesOnReplacing
    BY <2>1, <2>2 DEF GoesOnReplacing, Replacing, routerVars
  <2> QED
    BY <2>2, <2>3 DEF ReplVars, routerVars
<1>4. CASE ReplaceStop
  <2>1. repl'.pc = "waitOut" /\ repl'.pred = repl.pred /\ repl'.calls = repl.calls
    BY <1>4, ReplaceFields DEF ReplaceStop
  <2>2. repl.pc = "stopOut" /\ Stop(repl.pred, "out") /\ UNCHANGED routerVars /\ ReplVars
    BY <1>4 DEF ReplaceStop
  <2>3. GoesOnReplacing
    BY <2>1, <2>2 DEF GoesOnReplacing, Replacing, routerVars
  <2> QED
    BY <2>2, <2>3 DEF ReplVars, routerVars
<1>5. CASE ReplaceRefused
  <2>1. repl'.pc = "resume" /\ repl'.pred = repl.pred /\ repl'.calls = repl.calls
    BY <1>5, ReplaceFields DEF ReplaceRefused
  <2>2. repl.pc \in {"waitIn", "drain", "waitOut"} /\ UNCHANGED <<routerVars, adm>> /\ ReplVars
    BY <1>5 DEF ReplaceRefused
  <2>3. GoesOnReplacing
    BY <2>1, <2>2 DEF GoesOnReplacing, Replacing, routerVars
  <2> QED
    BY <2>2, <2>3 DEF ReplVars, routerVars
<1>6. CASE ReplacePublish
  <2>1. repl.pc = "publish" /\ UNCHANGED <<closed, drainable, adm>> /\ ReplVars
    BY <1>6 DEF ReplacePublish
  <2>2. CASE closed
    <3>1. repl' = [repl EXCEPT !.pc = "resume"] /\ current' = current
      BY <1>6, <2>2 DEF ReplacePublish
    <3>2. repl'.pc = "resume" /\ repl'.pred = repl.pred /\ repl'.calls = repl.calls
      BY <3>1, ReplaceFields
    <3>3. GoesOnReplacing
      BY <2>1, <3>1, <3>2 DEF GoesOnReplacing, Replacing
    <3> QED
      BY <2>1, <3>3 DEF ReplVars
  <2>3. CASE ~closed
    <3>1. repl' = NoReplace(repl.calls) /\ current' = repl.pred + 1
      BY <1>6, <2>3 DEF ReplacePublish
    <3>2. Publishes
      BY <2>1, <2>3, <3>1, ReplaceFields DEF Publishes
    <3> QED
      BY <2>1, <3>2 DEF ReplVars
  <2> QED
    BY <2>2, <2>3
<1>7. CASE ReplaceResume
  <2>1. /\ repl.pc = "resume" /\ repl' = NoReplace(repl.calls) /\ UNCHANGED <<current, closed, drainable>>
        /\ \E epochs : Resume(repl.pred, epochs)
        /\ ReplVars
    BY <1>7 DEF ReplaceResume
  <2>2. ResumesAdmission
    BY <2>1, ReplaceFields DEF ResumesAdmission
  <2> QED
    BY <2>1, <2>2 DEF ReplVars
<1> QED
  BY <1>1, <1>2, <1>3, <1>4, <1>5, <1>6, <1>7 DEF Replace, ReplVars, routerVars

\* What a client's step does to the admissions.
LEMMA ClientAdmissions ==
  ASSUME ControlTyped, NEW p \in Clients, Call(p) \/ Client(p) \/ GiveUp(p)
  PROVE  adm' = adm \/ Stop(current, "out")
BY DEF Call, Client, GiveUp, ReceiveAgain, Acquire, Broadcast, Receive, Retired, Release, ReceiverFinish, FinishQueueShutdown

LEMMA RunningStep ==
  ASSUME EnteredSound, QueuesSound, RunningSound, [RouterNext]_vars
  PROVE  RunningSound'
<1> SUFFICES ASSUME ~cancelled' PROVE RunningSound'
  BY DEF RunningSound
<1>1. ControlTyped /\ ClientsTyped /\ "in" \in Dirs /\ "out" \in Dirs /\ current \in Gens
  BY DEF EnteredSound, ControlTyped, Dirs
<1>2. \A g \in Gens, h \in Gens : g \in Int /\ h \in Int /\ 1 <= g
  BY RouterAssumption DEF Gens
<1>3. ASSUME UNCHANGED <<current, closed, qclosed, repl, shut, cancelled>>,
             \A g \in Gens : adm'[g]["in"].open => adm[g]["in"].open,
             \A q \in Clients : op'[q].gen <= current
      PROVE  RunningSound'
  BY <1>1, <1>3 DEF RunningSound
<1>4. ASSUME NEW d \in Dirs, NEW g \in Gens, adm' = adm \/ Stop(g, d)
      PROVE  \A h \in Gens : adm'[h]["in"].open => adm[h]["in"].open
  BY <1>1, <1>4, StopCloses
<1>5. ASSUME NEW p \in Clients, Call(p) \/ Client(p) \/ GiveUp(p) PROVE RunningSound'
  <2>1. UNCHANGED <<current, closed, qclosed, repl, shut, cancelled>>
    BY <1>5, ClientMoves
  <2>2. \A q \in Clients : op'[q].gen <= current
    <3>1. \A q \in Clients : op'[q].gen \in {op[q].gen, 1, current}
      BY <1>1, <1>5, Bindings DEF BoundTo
    <3>2. \A q \in Clients : op[q].gen <= current
      BY <2>1 DEF RunningSound
    <3> QED
      BY <1>1, <1>2, <3>1, <3>2
  <2>3. adm' = adm \/ Stop(current, "out")
    BY <1>1, <1>5, ClientAdmissions
  <2> QED
    BY <1>1, <1>3, <1>4, <2>1, <2>2, <2>3
<1>6. ASSUME NEW g \in Gens, Element(g) PROVE RunningSound'
  <2>1. UNCHANGED <<current, closed, qclosed, repl, shut, cancelled, adm, op>>
    BY <1>6 DEF Element, ElemScan, ElemSend, ElemVars, routerVars
  <2> QED
    BY <2>1 DEF RunningSound
<1>7. CASE ReplaceBegin \/ Replace
  <2>1. UNCHANGED <<closed, qclosed, op, shut, cancelled>> /\ ~cancelled
    BY <1>1, <1>7, ReplaceMoves DEF queueVars
  <2>2. CASE Begins
    <3>1. current' = current /\ repl'.pc = "waitIn" /\ repl'.pred = current /\ Stop(current, "in")
      BY <2>2 DEF Begins
    <3>2. ~adm'[current]["in"].open /\ \A h \in Gens : adm'[h]["in"].open => adm[h]["in"].open
      BY <1>1, <3>1, StopCloses
    <3> QED
      BY <2>1, <3>1, <3>2 DEF RunningSound
  <2>3. CASE GoesOnReplacing
    <3>1. current' = current /\ repl'.pred = repl.pred /\ repl.pc # "idle" /\ (adm' = adm \/ Stop(repl.pred, "out"))
      BY <2>3 DEF GoesOnReplacing
    <3>2. repl.pred \in Gens
      BY <1>1, Replacements
    <3>3. \A h \in Gens : adm'[h]["in"].open => adm[h]["in"].open
      BY <1>1, <1>4, <3>1, <3>2
    <3> QED
      BY <1>1, <2>1, <3>1, <3>3 DEF RunningSound
  <2>4. CASE Publishes
    <3>1. repl.pc = "publish" /\ repl'.pc = "idle" /\ current' = repl.pred + 1 /\ adm' = adm
      BY <2>4 DEF Publishes
    <3>2. repl.pred = current /\ ~adm[current]["in"].open
      BY <2>1, <3>1 DEF RunningSound
    <3>3. \A g \in Gens : g < current' => g < current \/ g = current
      BY <1>1, <1>2, <3>1, <3>2
    <3>4. \A g \in Gens : g < current' => ~adm'[g]["in"].open
      BY <2>1, <3>1, <3>2, <3>3 DEF RunningSound
    <3>5. \A q \in Clients : op'[q].gen <= current'
      <4>1. \A q \in Clients : op[q].gen <= current /\ op[q].gen \in Int
        BY <1>1, <1>2, <2>1 DEF RunningSound, ClientsTyped, Ops
      <4> QED
        BY <1>1, <1>2, <2>1, <3>1, <3>2, <4>1
    <3> QED
      BY <2>1, <3>1, <3>4, <3>5 DEF RunningSound
  <2>5. CASE ResumesAdmission
    <3>1. repl.pc = "resume" /\ repl'.pc = "idle" /\ current' = current /\ \E epochs : Resume(repl.pred, epochs)
      BY <2>5 DEF ResumesAdmission
    <3>2. repl.pred = current
      BY <2>1, <3>1 DEF RunningSound
    <3>3. \A g \in Gens : g # current => adm'[g] = adm[g]
      BY <1>1, <3>1, <3>2, ResumeOpens
    <3>4. \A g \in Gens : g < current => g # current
      BY <1>1, <1>2
    <3> QED
      BY <2>1, <3>1, <3>3, <3>4 DEF RunningSound
  <2> QED
    BY <1>1, <1>7, <2>2, <2>3, <2>4, <2>5, ReplaceMoves
<1>8. CASE ElemStop
  BY <1>8 DEF ElemStop, ElemVars
<1>9. CASE CancelGraph
  BY <1>9 DEF CancelGraph
<1>10. CASE Shutdown
  <2>1. shut # "running" \/ cancelled
    BY <1>10 DEF Shutdown, BeginQueueShutdown, ShutdownIngress, CloseQueues, ShutdownFinish
  <2>2. cancelled' = cancelled
    BY <1>10 DEF Shutdown, BeginQueueShutdown, ShutdownIngress, CloseQueues, ShutdownFinish
  <2> QED
    BY <2>1, <2>2 DEF RunningSound
<1>11. CASE UNCHANGED vars
  <2>1. UNCHANGED <<current, closed, qclosed, repl, shut, cancelled, adm, op>>
    BY <1>11 DEF vars, routerVars, queueVars
  <2> QED
    BY <2>1 DEF RunningSound
<1> QED
  BY <1>5, <1>6, <1>7, <1>8, <1>9, <1>10, <1>11 DEF RouterNext

LEMMA EpochsStep ==
  ASSUME EnteredSound, QueuesSound, EpochsSound, [RouterNext]_vars
  PROVE  EpochsSound'
<1>1. /\ ControlTyped /\ ClientsTyped /\ "in" \in Dirs /\ "out" \in Dirs /\ current \in Gens
      /\ repl.calls \in Nat /\ repl.pred \in Gens
  BY Replacements DEF EnteredSound, ControlTyped, Dirs
<1>2. \A g \in Gens, d \in Dirs : adm[g][d].epoch \in Nat
  BY <1>1 DEF ControlTyped
<1>3. \A q \in Clients : op[q].epoch \in Nat
  BY <1>1 DEF ClientsTyped, Ops
<1>4. ASSUME repl'.calls = repl.calls, repl'.pc # "idle" => repl.pc # "idle",
             \A g \in Gens, d \in Dirs : adm'[g][d].epoch = adm[g][d].epoch, op' = op
      PROVE  EpochsSound'
  BY <1>4 DEF EpochsSound
<1>5. ASSUME NEW d \in Dirs, NEW g \in Gens, adm' = adm \/ Stop(g, d)
      PROVE  \A h \in Gens, e \in Dirs : adm'[h][e].epoch = adm[h][e].epoch
  BY <1>1, <1>5, StopCloses
<1>6. ASSUME NEW p \in Clients, Call(p) \/ Client(p) \/ GiveUp(p) PROVE EpochsSound'
  <2>1. repl' = repl
    BY <1>6, ClientMoves
  <2>2. \A h \in Gens, e \in Dirs : adm'[h][e].epoch = adm[h][e].epoch
    BY <1>1, <1>5, <1>6, ClientAdmissions
  <2>3. \A q \in Clients : op'[q].epoch = op[q].epoch \/ op'[q].epoch = 0
                           \/ \E d \in Dirs : op'[q].epoch = adm[current][d].epoch
    BY <1>1, <1>6, Bindings DEF BoundTo
  <2>4. \A q \in Clients : op'[q].epoch <= repl.calls
    BY <1>1, <2>3 DEF EpochsSound
  <2> QED
    BY <2>1, <2>2, <2>4 DEF EpochsSound
<1>7. CASE ReplaceBegin \/ Replace
  <2>1. op' = op
    BY <1>1, <1>7, ReplaceMoves
  <2>2. CASE Begins
    <3>1. Stop(current, "in") /\ repl.calls < MaxReplace /\ repl'.calls = repl.calls + 1
      BY <2>2 DEF Begins
    <3>2. \A h \in Gens, e \in Dirs : adm'[h][e].epoch = adm[h][e].epoch
      BY <1>1, <1>5, <3>1
    <3>3. repl'.calls <= MaxReplace
      BY <1>1, <3>1, RouterAssumption
    <3>4. \A h \in Gens, e \in Dirs : adm'[h][e].epoch <= repl'.calls /\ adm'[h][e].epoch < repl'.calls
      BY <1>1, <1>2, <3>1, <3>2 DEF EpochsSound
    <3>5. \A q \in Clients : op'[q].epoch <= repl'.calls
      BY <1>1, <1>3, <2>1, <3>1 DEF EpochsSound
    <3> QED
      BY <3>3, <3>4, <3>5 DEF EpochsSound
  <2>3. CASE GoesOnReplacing
    BY <1>1, <1>4, <1>5, <2>1, <2>3 DEF GoesOnReplacing
  <2>4. CASE Publishes
    BY <1>4, <2>1, <2>4 DEF Publishes
  <2>5. CASE ResumesAdmission
    <3>1. /\ repl.pc = "resume" /\ repl'.pc = "idle" /\ repl'.calls = repl.calls
          /\ \E epochs : Resume(repl.pred, epochs)
      BY <2>5 DEF ResumesAdmission
    <3>2. \A h \in Gens, e \in Dirs : adm'[h][e].epoch \in {adm[h][e].epoch, adm[h][e].epoch + 1}
      BY <1>1, <3>1, ResumeOpens
    <3>3. \A h \in Gens, e \in Dirs : adm[h][e].epoch < repl.calls
      BY <3>1 DEF EpochsSound
    <3>4. \A h \in Gens, e \in Dirs : adm'[h][e].epoch <= repl.calls
      BY <1>1, <1>2, <3>2, <3>3
    <3> QED
      BY <2>1, <3>1, <3>4 DEF EpochsSound
  <2> QED
    BY <1>1, <1>7, <2>2, <2>3, <2>4, <2>5, ReplaceMoves
<1>8. ASSUME NEW g \in Gens, Element(g) PROVE EpochsSound'
  <2>1. UNCHANGED <<repl, adm, op>>
    BY <1>8 DEF Element, ElemScan, ElemSend, ElemVars
  <2> QED
    BY <1>4, <2>1
<1>9. CASE ElemStop \/ CancelGraph
  BY <1>4, <1>9 DEF ElemStop, ElemVars, CancelGraph
<1>10. CASE Shutdown
  <2>1. UNCHANGED <<repl, op>> /\ (adm' = adm \/ Stop(current, "in") \/ Stop(current, "out"))
    BY <1>10 DEF Shutdown, BeginQueueShutdown, ShutdownIngress, CloseQueues, ShutdownFinish, ShutVars,
                 FinishQueueShutdown
  <2> QED
    BY <1>1, <1>4, <1>5, <2>1
<1>11. CASE UNCHANGED vars
  BY <1>4, <1>11 DEF vars
<1> QED
  BY <1>6, <1>7, <1>8, <1>9, <1>10, <1>11 DEF RouterNext

-----------------------------------------------------------------------------
\* Nothing is lost on the way.

LEMMA PipeOf ==
  ASSUME QueuesSound, NEW g \in Gens, NEW l \in Lanes
  PROVE  /\ outq[g] \in Seq(Entries) /\ elem[g].hold \in Seq(Entries)
         /\ OnLane(outq[g] \o elem[g].hold, l) \in Seq(Numbers)
         /\ inq[g][l] \in Seq(Items) /\ inq[g][l] \in Seq(Numbers)
         /\ Pipe(g, l) \in Seq(Numbers) /\ TakenFrom(l) \in Seq(Numbers)
<1>1. /\ outq[g] \in Seq(Entries) /\ elem[g].hold \in Seq(Entries) /\ inq[g][l] \in Seq(Items)
      /\ taken \in Seq(Entries)
  BY DEF QueuesSound, Elements, LaneQueues
<1>2. outq[g] \o elem[g].hold \in Seq(Entries)
  BY <1>1, ConcatProperties
<1>3. OnLane(outq[g] \o elem[g].hold, l) \in Seq(Numbers) /\ TakenFrom(l) \in Seq(Numbers)
  BY <1>1, <1>2, LaneRunsOf DEF TakenFrom
<1>4. inq[g][l] \in Seq(Numbers)
  BY <1>1 DEF Numbers
<1>5. Pipe(g, l) \in Seq(Numbers)
  BY <1>3, <1>4, ConcatProperties DEF Pipe
<1> QED
  BY <1>1, <1>3, <1>4, <1>5

LEMMA QuiescentPipe ==
  ASSUME NEW g \in Gens, Quiescent(g), NEW l \in Lanes
  PROVE  Pipe(g, l) = << >>
<1>1. inq[g][l] = << >> /\ elem[g].hold = << >> /\ outq[g] = << >> /\ << >> \o << >> = << >>
  BY DEF Quiescent
<1> QED
  BY <1>1, OnLaneNone, Zenon DEF Pipe

\* Only what the current generation holds counts.
LEMMA CarriedIsConserved ==
  ASSUME BoundarySound
  PROVE  ConservedAcrossCutover
<1> SUFFICES ASSUME ~cancelled, NEW l \in Lanes
             PROVE  entered[l] = TakenFrom(l) \o FlattenSeq([g \in Gens |-> Pipe(g, l)])
  BY DEF ConservedAcrossCutover
<1>1. PICK d : d = [g \in Gens |-> Pipe(g, l)]
  OBVIOUS
<1>2. current \in Gens /\ MaxGen \in Nat /\ Gens = 1..MaxGen
  BY RouterAssumption DEF BoundarySound, EnteredSound, ControlTyped, Gens
<1>3. \A g \in Gens : Pipe(g, l) \in Seq(Numbers)
  BY PipeOf DEF BoundarySound
<1>4. d \in [1..MaxGen -> Seq(Numbers)]
  BY <1>1, <1>2, <1>3
<1>5. d \in Seq(Seq(Numbers)) /\ Len(d) = MaxGen
  BY <1>2, <1>4
<1>6. \A g \in Gens : g # current => d[g] = << >>
  <2>1. \A g \in Gens : g # current => Quiescent(g)
    BY DEF BoundarySound, CarriedSound
  <2> QED
    BY <1>1, <2>1, QuiescentPipe
<1>7. FlattenSeq(d) = d[current]
  <2>1. current \in 1..Len(d) /\ \A i \in 1..Len(d) : i # current => d[i] = << >>
    BY <1>2, <1>5, <1>6
  <2> QED
    BY <1>5, <2>1, FlattenOne
<1>8. d[current] = Pipe(current, l)
  BY <1>1, <1>2
<1>9. entered[l] = TakenFrom(l) \o Pipe(current, l)
  BY DEF BoundarySound, CarriedSound
<1> QED
  BY <1>1, <1>7, <1>8, <1>9, Zenon

\* A lane accepts an item.
LEMMA AcceptedLast ==
  \A a, b, q \in Seq(Numbers), x \in Numbers : a \o (b \o Append(q, x)) = Append(a \o (b \o q), x)
<1> SUFFICES ASSUME NEW a \in Seq(Numbers), NEW b \in Seq(Numbers), NEW q \in Seq(Numbers), NEW x \in Numbers
             PROVE  a \o (b \o Append(q, x)) = Append(a \o (b \o q), x)
  OBVIOUS
<1>1. b \o Append(q, x) = Append(b \o q, x) /\ b \o q \in Seq(Numbers)
  BY ConcatAppend
<1>2. PICK c \in Seq(Numbers) : c = b \o q
  BY <1>1
<1>3. a \o Append(c, x) = Append(a \o c, x)
  BY ConcatAppend
<1> QED
  BY <1>1, <1>2, <1>3, Zenon

LEMMA PipeWritten ==
  ASSUME QueuesSound, NEW g \in Gens, NEW x \in Items, LanesWritten(g, x), UNCHANGED <<outq, elem, taken>>,
         NEW l \in Lanes, entered[l] = TakenFrom(l) \o Pipe(g, l)
  PROVE  entered'[l] = TakenFrom(l)' \o (OnLane(outq[g] \o elem[g].hold, l) \o inq'[g][l])
<1>1. TakenFrom(l)' = TakenFrom(l)
  BY DEF TakenFrom
<1>2. PICK a, b, q : a = TakenFrom(l) /\ b = OnLane(outq[g] \o elem[g].hold, l) /\ q = inq[g][l]
  OBVIOUS
<1>3. a \in Seq(Numbers) /\ b \in Seq(Numbers) /\ q \in Seq(Numbers) /\ x \in Numbers
  BY <1>2, PipeOf DEF Numbers
<1>4. entered[l] = a \o (b \o q)
  BY <1>2, Zenon DEF Pipe
<1>5. a \o (b \o Append(q, x)) = Append(a \o (b \o q), x)
  BY <1>3, AcceptedLast, Zenon
<1>6. \/ inq'[g][l] = q /\ entered'[l] = entered[l]
      \/ inq'[g][l] = Append(q, x) /\ entered'[l] = Append(entered[l], x)
  BY <1>2, Zenon DEF LanesWritten
<1> QED
  BY <1>1, <1>2, <1>4, <1>5, <1>6, Zenon

\* A receiver takes what the output queue begins with.
Regrouped(a, x, o, h, q) == a \o (((x \o o) \o h) \o q) = (a \o x) \o ((o \o h) \o q)

Grouped(s, t, u) == (s \o t) \o u = s \o (t \o u)

LEMMA TakenFirst ==
  \A a, x, o, h, q \in Seq(Numbers) : Regrouped(a, x, o, h, q)
<1>1. \A s, t, u \in Seq(Numbers) : Grouped(s, t, u)
  BY Associates DEF Grouped
<1>2. \A s, t \in Seq(Numbers) : s \o t \in Seq(Numbers)
  BY ConcatProperties
<1> SUFFICES ASSUME NEW a \in Seq(Numbers), NEW x \in Seq(Numbers), NEW o \in Seq(Numbers),
                    NEW h \in Seq(Numbers), NEW q \in Seq(Numbers)
             PROVE  Regrouped(a, x, o, h, q)
  OBVIOUS
<1>3. PICK b \in Seq(Numbers) : b = o \o h
  BY <1>2
<1>4. PICK c \in Seq(Numbers) : c = b \o q
  BY <1>2
<1>5. Grouped(x, o, h) /\ Grouped(x, b, q) /\ Grouped(a, x, c)
  BY <1>1
<1> QED
  BY <1>3, <1>4, <1>5, Zenon DEF Regrouped, Grouped

LEMMA PipeReceived ==
  ASSUME QueuesSound, NEW g \in Gens, Receives(g), ~cancelled, NEW l \in Lanes
  PROVE  TakenFrom(l) \o Pipe(g, l) =
         TakenFrom(l)' \o (OnLane(outq'[g] \o elem[g].hold, l) \o inq[g][l])
<1>1. PICK e, o, u, h, q :
        e = Head(outq[g]) /\ o = outq[g] /\ u = outq'[g] /\ h = elem[g].hold /\ q = inq[g][l]
  OBVIOUS
<1>2. /\ e \in Entries /\ u \in Seq(Entries) /\ o = <<e>> \o u
      /\ taken' = Append(taken, e) /\ taken \in Seq(Entries)
  <2>1. outq' \in [Gens -> Seq(Entries)] /\ e \in Entries /\ o = <<e>> \o u
    BY <1>1, Received
  <2>2. taken' = Append(taken, e)
    BY <1>1 DEF Receives
  <2> QED
    BY <1>1, <2>1, <2>2 DEF QueuesSound
<1>3. h \in Seq(Entries) /\ q \in Seq(Numbers)
  BY <1>1, PipeOf
<1>4. <<e>> \in Seq(Entries) /\ taken' = taken \o <<e>>
  BY <1>2, AppendIsConcat
<1>5. PICK f \in Seq(Entries) : f = <<e>>
  BY <1>4
<1>0. \A s, t \in Seq(Entries) : s \o t \in Seq(Entries) /\ OnLane(s \o t, l) = OnLane(s, l) \o OnLane(t, l)
  BY OnLaneConcat
<1>6. OnLane(taken', l) = OnLane(taken, l) \o OnLane(f, l)
  <2>1. taken' = taken \o f /\ taken \in Seq(Entries) /\ f \in Seq(Entries)
    BY <1>2, <1>4, <1>5, Zenon
  <2>2. OnLane(taken \o f, l) = OnLane(taken, l) \o OnLane(f, l)
    BY <1>0, <2>1, Zenon
  <2> QED
    BY <2>1, <2>2, Zenon
<1>7. OnLane(f \o u, l) = OnLane(f, l) \o OnLane(u, l) /\ f \o u \in Seq(Entries)
  BY <1>0, <1>2, <1>5, Zenon
<1>8. OnLane((f \o u) \o h, l) = OnLane(f \o u, l) \o OnLane(h, l)
  BY <1>0, <1>3, <1>7, Zenon
<1>9. OnLane(u \o h, l) = OnLane(u, l) \o OnLane(h, l)
  BY <1>0, <1>2, <1>3, Zenon
<1>10. PICK a, x, y, z : a = OnLane(taken, l) /\ x = OnLane(f, l) /\ y = OnLane(u, l) /\ z = OnLane(h, l)
  OBVIOUS
<1>11. a \in Seq(Numbers) /\ x \in Seq(Numbers) /\ y \in Seq(Numbers) /\ z \in Seq(Numbers)
  BY <1>2, <1>3, <1>10, LaneRunsOf
<1>12. Regrouped(a, x, y, z, q)
  BY <1>3, <1>11, TakenFirst
<1>13. Pipe(g, l) = OnLane((f \o u) \o h, l) \o q
  BY <1>1, <1>2, <1>5, Zenon DEF Pipe
<1>14. TakenFrom(l)' = OnLane(taken', l) /\ TakenFrom(l) = OnLane(taken, l)
  BY DEF TakenFrom
<1> QED
  BY <1>1, <1>6, <1>7, <1>8, <1>9, <1>10, <1>12, <1>13, <1>14, Zenon DEF Regrouped

\* The element takes the first item of a lane.
LEMMA PipeScanned ==
  ASSUME QueuesSound, NEW g \in Gens, NEW m \in Lanes, NEW x \in Items, ScanTakes(g, m, x), NEW l \in Lanes
  PROVE  Pipe(g, l) = OnLane(outq[g] \o elem'[g].hold, l) \o inq'[g][l]
<1>1. PICK o, q, h : o = outq[g] /\ q = inq[g][l] /\ h = elem'[g].hold
  OBVIOUS
<1>2. o \in Seq(Entries) /\ q \in Seq(Numbers) /\ q \in Seq(Items)
  BY <1>1, PipeOf
<1>3. h = << <<x, m>> >> /\ elem[g].hold = << >>
  BY <1>1, Zenon DEF ScanTakes
<1>4. x \in Numbers
  BY DEF Numbers
<1>5. h \in Seq(Entries) /\ OnLane(h, l) = IF m = l THEN <<x>> ELSE << >>
  <2>1. << <<x, m>> >> \in Seq(Entries) /\ OnLane(<< <<x, m>> >>, l) = IF m = l THEN <<x>> ELSE << >>
    BY <1>4, OnLaneOne
  <2> QED
    BY <1>3, <2>1, Zenon
<1>6. PICK b : b = OnLane(o, l)
  OBVIOUS
<1>7. b \in Seq(Numbers) /\ o \o << >> = o /\ b \o << >> = b
  <2>1. b \in Seq(Numbers)
    BY <1>2, <1>6, LaneRunsOf
  <2> QED
    BY <1>2, <2>1, ConcatEmptySeq
<1>8. OnLane(o \o h, l) = b \o OnLane(h, l)
  BY <1>2, <1>5, <1>6, OnLaneConcat
<1>9. Pipe(g, l) = b \o q
  BY <1>1, <1>3, <1>6, <1>7, Zenon DEF Pipe
<1>10. CASE m = l
  <2>1. q # << >> /\ x = Head(q) /\ inq'[g][l] = Tail(q)
    BY <1>1, <1>10, Zenon DEF ScanTakes
  <2>2. PICK y, t : y = <<x>> /\ t = Tail(q)
    OBVIOUS
  <2>3. q = y \o t /\ y \in Seq(Numbers) /\ t \in Seq(Numbers)
    <3>1. q = <<Head(q)>> \o Tail(q) /\ Tail(q) \in Seq(Numbers)
      BY <1>2, <2>1, HeadFirst
    <3>2. y \in Seq(Numbers)
      BY <1>4, <2>2
    <3> QED
      BY <2>1, <2>2, <3>1, <3>2, Zenon
  <2>4. (b \o y) \o t = b \o (y \o t)
    BY <1>7, <2>3, ConcatAssociative
  <2> QED
    BY <1>1, <1>5, <1>8, <1>9, <1>10, <2>1, <2>2, <2>3, <2>4, Zenon
<1>11. CASE m # l
  <2>1. inq'[g][l] = q
    BY <1>1, <1>11, Zenon DEF ScanTakes
  <2> QED
    BY <1>1, <1>5, <1>7, <1>8, <1>9, <1>11, <2>1, Zenon
<1> QED
  BY <1>10, <1>11

LEMMA CarriedStep ==
  ASSUME BoundarySound, [RouterNext]_vars
  PROVE  CarriedSound'
<1> SUFFICES ASSUME ~cancelled' PROVE CarriedSound'
  BY DEF CarriedSound
<1> USE DEF BoundarySound
<1>1. ControlTyped /\ current \in Gens /\ \A g \in Gens : g \in Int
  BY RouterAssumption DEF EnteredSound, ControlTyped, Gens
<1>2. ASSUME UNCHANGED <<inq, outq, elem, entered, taken, current, cancelled>>,
             repl'.pc \in {"stopOut", "waitOut", "publish"} => Quiescent(current)
      PROVE  CarriedSound'
  <2>1. \A g \in Gens : Quiescent(g)' <=> Quiescent(g)
    BY <1>2 DEF Quiescent
  <2>2. \A l \in Lanes : Pipe(current, l)' = Pipe(current, l) /\ TakenFrom(l)' = TakenFrom(l)
    BY <1>2 DEF Pipe, TakenFrom
  <2>3. /\ \A g \in Gens : g # current' => Quiescent(g)'
        /\ repl'.pc \in {"stopOut", "waitOut", "publish"} => Quiescent(current)'
    BY <1>1, <1>2, <2>1 DEF CarriedSound
  <2>4. \A l \in Lanes : entered'[l] = TakenFrom(l)' \o Pipe(current, l)'
    BY <1>2, <2>2 DEF CarriedSound
  <2> QED
    BY <2>3, <2>4 DEF CarriedSound
<1>3. ASSUME NEW g \in Gens, ~cancelled, ~Quiescent(g)
      PROVE  g = current /\ repl.pc \notin {"stopOut", "waitOut", "publish"}
  BY <1>3 DEF CarriedSound
<1>4. ASSUME ~cancelled, repl.pc \notin {"stopOut", "waitOut", "publish"}, UNCHANGED <<repl, current, cancelled>>,
             \A h \in Gens : h # current => inq'[h] = inq[h] /\ outq'[h] = outq[h] /\ elem'[h] = elem[h],
             \A l \in Lanes : entered'[l] = TakenFrom(l)' \o
                                (OnLane(outq'[current] \o elem'[current].hold, l) \o inq'[current][l])
      PROVE  CarriedSound'
  <2>1. \A h \in Gens : h # current => Quiescent(h)'
    BY <1>4 DEF CarriedSound, Quiescent
  <2>2. \A l \in Lanes : Pipe(current, l)' =
          OnLane(outq'[current] \o elem'[current].hold, l) \o inq'[current][l]
    BY <1>4, Zenon DEF Pipe
  <2>3. \A l \in Lanes : entered'[l] = TakenFrom(l)' \o Pipe(current, l)'
    BY <1>4, <2>2, Zenon
  <2> QED
    BY <1>4, <2>1, <2>3 DEF CarriedSound
<1>5. ASSUME NEW p \in Clients, Call(p) \/ Client(p) \/ GiveUp(p) PROVE CarriedSound'
  <2>1. UNCHANGED <<current, elem, repl, cancelled>> /\ ~cancelled
    BY <1>5, ClientMoves
  <2>2. CASE UNCHANGED <<inq, outq, entered, taken>>
    BY <1>2, <2>1, <2>2 DEF CarriedSound
  <2>3. PICK g : g = op[p].gen
    OBVIOUS
  <2>4. CASE /\ p \in Senders /\ Admitted(p) /\ g \in Gens /\ op[p].item \in Items
             /\ LanesWritten(g, op[p].item) /\ UNCHANGED <<outq, taken>>
    <3>1. adm[g]["in"].open
      BY <2>3, <2>4 DEF Admitted, DirOf
    <3>2. g = current /\ repl.pc = "idle"
      BY <1>1, <2>1, <2>3, <2>4, <3>1 DEF RunningSound
    <3>3. \A l \in Lanes : entered'[l] = TakenFrom(l)' \o (OnLane(outq[g] \o elem[g].hold, l) \o inq'[g][l])
      <4> TAKE l \in Lanes
      <4>1. entered[l] = TakenFrom(l) \o Pipe(g, l)
        BY <2>1, <3>2 DEF CarriedSound
      <4> QED
        BY <2>1, <2>4, <4>1, PipeWritten
    <3>4. \A h \in Gens : h # current => inq'[h] = inq[h] /\ outq'[h] = outq[h] /\ elem'[h] = elem[h]
      BY <2>1, <2>4, <3>2 DEF LanesWritten
    <3>5. outq'[g] = outq[g] /\ elem'[g] = elem[g] /\ repl.pc \notin {"stopOut", "waitOut", "publish"}
      BY <2>1, <2>4, <3>2
    <3>6. \A l \in Lanes : entered'[l] = TakenFrom(l)' \o
                             (OnLane(outq'[current] \o elem'[current].hold, l) \o inq'[current][l])
      BY <3>2, <3>3, <3>5, Zenon
    <3> QED
      BY <1>4, <2>1, <3>4, <3>5, <3>6
  <2>5. CASE g \in Gens /\ Receives(g)
    <3>1. ~Quiescent(g)
      BY <2>5 DEF Receives, Quiescent
    <3>2. g = current /\ repl.pc \notin {"stopOut", "waitOut", "publish"}
      BY <1>3, <2>1, <2>5, <3>1
    <3>3. UNCHANGED <<inq, entered>> /\ \A h \in Gens : h # g => outq'[h] = outq[h]
      BY <2>5, Received DEF Receives
    <3>4. \A l \in Lanes : entered'[l] = TakenFrom(l)' \o
                             (OnLane(outq'[current] \o elem'[current].hold, l) \o inq'[current][l])
      <4> TAKE l \in Lanes
      <4>1. entered[l] = TakenFrom(l) \o Pipe(g, l)
        BY <2>1, <3>2 DEF CarriedSound
      <4>2. TakenFrom(l) \o Pipe(g, l) =
            TakenFrom(l)' \o (OnLane(outq'[g] \o elem[g].hold, l) \o inq[g][l])
        BY <2>1, <2>5, PipeReceived
      <4> QED
        BY <2>1, <3>2, <3>3, <4>1, <4>2, Zenon
    <3>5. \A h \in Gens : h # current => inq'[h] = inq[h] /\ outq'[h] = outq[h] /\ elem'[h] = elem[h]
      BY <2>1, <3>2, <3>3
    <3> QED
      BY <1>4, <2>1, <3>2, <3>4, <3>5
  <2> QED
    BY <1>5, <2>2, <2>3, <2>4, <2>5, ClientMoves
<1>6. ASSUME NEW g \in Gens, ElemScan(g) PROVE CarriedSound'
  <2>1. /\ (\E m \in Lanes, x \in Items : ScanTakes(g, m, x)) \/ ScanMoves(g)
        /\ UNCHANGED <<outq, entered, taken, current, repl, cancelled>> /\ ~cancelled
    BY <1>6, Scans DEF ElemVars, routerVars
  <2>2. ASSUME NEW m \in Lanes, NEW x \in Items, ScanTakes(g, m, x) PROVE CarriedSound'
    <3>1. ~Quiescent(g)
      BY <2>2 DEF ScanTakes, Quiescent
    <3>2. g = current /\ repl.pc \notin {"stopOut", "waitOut", "publish"}
      BY <1>3, <2>1, <3>1
    <3>3. \A l \in Lanes : entered'[l] = TakenFrom(l)' \o
                             (OnLane(outq'[current] \o elem'[current].hold, l) \o inq'[current][l])
      <4> TAKE l \in Lanes
      <4>1. entered[l] = TakenFrom(l) \o Pipe(g, l)
        BY <2>1, <3>2 DEF CarriedSound
      <4>2. Pipe(g, l) = OnLane(outq[g] \o elem'[g].hold, l) \o inq'[g][l]
        BY <2>2, PipeScanned
      <4>3. TakenFrom(l)' = TakenFrom(l)
        BY <2>1 DEF TakenFrom
      <4> QED
        BY <2>1, <3>2, <4>1, <4>2, <4>3, Zenon
    <3>4. \A h \in Gens : h # current => inq'[h] = inq[h] /\ outq'[h] = outq[h] /\ elem'[h] = elem[h]
      BY <2>1, <2>2, <3>2 DEF ScanTakes
    <3> QED
      BY <1>4, <2>1, <3>2, <3>3, <3>4
  <2>3. CASE ScanMoves(g)
    <3>1. \A h \in Gens : elem'[h].hold = elem[h].hold
      BY <2>3 DEF ScanMoves
    <3>2. inq' = inq
      BY <2>3 DEF ScanMoves
    <3>3. \A h \in Gens : Quiescent(h)' <=> Quiescent(h)
      BY <2>1, <3>1, <3>2 DEF Quiescent
    <3>4. \A l \in Lanes : Pipe(current, l)' = Pipe(current, l) /\ TakenFrom(l)' = TakenFrom(l)
      BY <1>1, <2>1, <3>1, <3>2, Zenon DEF Pipe, TakenFrom
    <3>5. \A l \in Lanes : entered'[l] = TakenFrom(l)' \o Pipe(current, l)'
      BY <2>1, <3>4 DEF CarriedSound
    <3>6. /\ \A h \in Gens : h # current' => Quiescent(h)'
          /\ repl'.pc \in {"stopOut", "waitOut", "publish"} => Quiescent(current)'
      BY <1>1, <2>1, <3>3 DEF CarriedSound
    <3> QED
      BY <3>5, <3>6 DEF CarriedSound
  <2> QED
    BY <2>1, <2>2, <2>3
<1>7. ASSUME NEW g \in Gens, ElemSend(g) PROVE CarriedSound'
  <2>1. SendMoves(g) /\ UNCHANGED <<inq, entered, taken, current, repl, cancelled>> /\ ~cancelled
    BY <1>7, Sends DEF ElemVars, routerVars
  <2>2. <<g, 0>> \notin qclosed
    BY <2>1 DEF RunningSound
  <2>3. outq'[g] \o elem'[g].hold = outq[g] \o elem[g].hold
    BY <2>1, <2>2 DEF SendMoves
  <2>4. \A h \in Gens : h # g => elem'[h] = elem[h] /\ outq'[h] = outq[h]
    BY <2>1 DEF SendMoves
  <2>5. \A h \in Gens : Quiescent(h) => Quiescent(h)'
    <3>1. Quiescent(g) => Quiescent(g)'
      BY <2>1 DEF SendMoves, Quiescent
    <3> QED
      BY <2>1, <2>4, <3>1 DEF Quiescent
  <2>6. outq'[current] \o elem'[current].hold = outq[current] \o elem[current].hold
    BY <1>1, <2>3, <2>4, Zenon
  <2>7. \A l \in Lanes : Pipe(current, l)' = Pipe(current, l) /\ TakenFrom(l)' = TakenFrom(l)
    BY <2>1, <2>6, Zenon DEF Pipe, TakenFrom
  <2>8. \A l \in Lanes : entered'[l] = TakenFrom(l)' \o Pipe(current, l)'
    BY <2>1, <2>7 DEF CarriedSound
  <2>9. /\ \A h \in Gens : h # current' => Quiescent(h)'
        /\ repl'.pc \in {"stopOut", "waitOut", "publish"} => Quiescent(current)'
    BY <1>1, <2>1, <2>5 DEF CarriedSound
  <2> QED
    BY <2>8, <2>9 DEF CarriedSound
<1>8. CASE ReplaceBegin \/ Replace
  <2>1. UNCHANGED <<inq, outq, elem, entered, taken, cancelled>> /\ ~cancelled
    BY <1>1, <1>8, ReplaceMoves DEF queueVars, ghostVars
  <2>2. CASE Begins
    BY <1>2, <2>1, <2>2 DEF Begins
  <2>3. CASE GoesOnReplacing
    <3>1. repl.pred = current
      BY <2>1, <2>3 DEF GoesOnReplacing, RunningSound
    <3>2. repl'.pc \in {"stopOut", "waitOut", "publish"} => Quiescent(current)
      BY <2>1, <2>3, <3>1 DEF GoesOnReplacing, CarriedSound
    <3>3. current' = current
      BY <2>3 DEF GoesOnReplacing
    <3> QED
      BY <1>2, <2>1, <3>2, <3>3
  <2>4. CASE Publishes
    <3>1. repl.pc = "publish" /\ repl'.pc = "idle" /\ current' = repl.pred + 1
      BY <2>4 DEF Publishes
    <3>2. repl.pred = current /\ repl.pred < MaxGen
      BY <1>1, <2>1, <3>1 DEF RunningSound, ControlTyped
    <3>3. current' \in Gens /\ current' # current
      BY <1>1, <3>1, <3>2, RouterAssumption DEF Gens
    <3>4. \A g \in Gens : Quiescent(g)
      BY <2>1, <3>1 DEF CarriedSound
    <3>5. \A g \in Gens : Quiescent(g)'
      BY <2>1, <3>4 DEF Quiescent
    <3>6. \A l \in Lanes : entered'[l] = TakenFrom(l)' \o Pipe(current, l)'
      <4> TAKE l \in Lanes
      <4>1. Pipe(current, l) = << >>
        BY <1>1, <3>4, QuiescentPipe
      <4>2. Pipe(current, l)' = << >>
        <5>1. /\ inq'[current'][l] = << >> /\ elem'[current'].hold = << >> /\ outq'[current'] = << >>
              /\ << >> \o << >> = << >>
          BY <3>3, <3>5 DEF Quiescent
        <5> QED
          BY <5>1, OnLaneNone, Zenon DEF Pipe
      <4>3. TakenFrom(l)' = TakenFrom(l) /\ entered[l] = TakenFrom(l) \o Pipe(current, l)
        BY <2>1 DEF TakenFrom, CarriedSound
      <4> QED
        BY <2>1, <4>1, <4>2, <4>3, Zenon
    <3> QED
      BY <3>1, <3>5, <3>6 DEF CarriedSound
  <2>5. CASE ResumesAdmission
    BY <1>2, <2>1, <2>5 DEF ResumesAdmission
  <2> QED
    BY <1>1, <1>8, <2>2, <2>3, <2>4, <2>5, ReplaceMoves
<1>9. CASE ElemStop \/ CancelGraph
  BY <1>9 DEF ElemStop, ElemVars, CancelGraph
<1>10. CASE Shutdown
  <2>1. (shut # "running" \/ cancelled) /\ cancelled' = cancelled
    BY <1>10 DEF Shutdown, BeginQueueShutdown, ShutdownIngress, CloseQueues, ShutdownFinish
  <2> QED
    BY <2>1 DEF RunningSound
<1>11. CASE UNCHANGED vars
  <2>1. UNCHANGED <<inq, outq, elem, entered, taken, current, cancelled, repl>>
    BY <1>11 DEF vars, routerVars, queueVars, ghostVars
  <2> QED
    BY <1>2, <2>1 DEF CarriedSound
<1> QED
  BY <1>5, <1>6, <1>7, <1>8, <1>9, <1>10, <1>11 DEF RouterNext, Element

LEMMA BoundaryInit ==
  ASSUME RouterInit
  PROVE  BoundarySound
<1>1. EnteredSound
  BY EnteredInit
<1>2. 1 \in Gens /\ current = 1 /\ NLanes \in Nat \ {0} /\ Depth \in Nat /\ 0 \in 0..(NLanes - 1)
  BY RouterAssumption DEF RouterInit, Gens
<1>3. << >> \in Seq(Items) /\ << >> \in Seq(Entries) /\ Len(<< >>) = 0
  OBVIOUS
<1>4. PICK t : t = [Scanning EXCEPT !.pc = "wait"]
  OBVIOUS
<1>5. t \in Elements /\ t.hold = << >>
  BY <1>4, EmptyHands
<1>6. /\ elem = [g \in Gens |-> t] /\ inq = [g \in Gens |-> [l \in Lanes |-> << >>]]
      /\ outq = [g \in Gens |-> << >>] /\ cursor = [g \in Gens |-> 0] /\ taken = << >>
      /\ entered = [l \in Lanes |-> << >>]
  BY <1>4 DEF RouterInit
<1>7. \A g \in Gens : /\ elem[g].hold = << >> /\ outq[g] = << >> /\ Len(elem[g].hold) <= 1 /\ Len(outq[g]) <= Depth
                      /\ \A l \in Lanes : inq[g][l] = << >> /\ Len(inq[g][l]) <= Depth
  BY <1>2, <1>3, <1>5, <1>6
<1>8. QueuesSound
  <2>1. inq \in [Gens -> LaneQueues] /\ outq \in [Gens -> Seq(Entries)]
    BY <1>3, <1>6 DEF LaneQueues
  <2>2. elem \in [Gens -> Elements] /\ cursor \in [Gens -> 0..(NLanes - 1)] /\ taken \in Seq(Entries)
    BY <1>2, <1>3, <1>5, <1>6
  <2> QED
    BY <1>7, <2>1, <2>2 DEF QueuesSound
<1>9. \A p \in Clients : op[p].gen = 1 /\ op[p].epoch = 0
  <2>1. Idle.gen = 1 /\ Idle.epoch = 0 /\ Calling.gen = 1 /\ Calling.epoch = 0
    BY DEF Idle, Calling
  <2>2. op = [p \in Clients |-> IF p \in Senders THEN Idle ELSE Calling]
    BY DEF RouterInit
  <2> QED
    BY <2>1, <2>2
<1>10. repl.pc = "idle" /\ repl.calls = 0 /\ \A g \in Gens, d \in Dirs : adm[g][d].epoch = 0
  BY DEF RouterInit, NoReplace
<1>11. RunningSound
  <2>1. \A g \in Gens : ~(g < 1)
    BY DEF Gens
  <2> QED
    BY <1>2, <1>9, <1>10, <2>1 DEF RunningSound, RouterInit
<1>12. EpochsSound
  BY <1>9, <1>10, RouterAssumption DEF EpochsSound
<1>13. CarriedSound
  <2>1. \A g \in Gens : Quiescent(g)
    BY <1>7 DEF Quiescent
  <2>2. \A l \in Lanes : entered[l] = TakenFrom(l) \o Pipe(current, l)
    <3> TAKE l \in Lanes
    <3>1. Pipe(current, l) = << >> /\ TakenFrom(l) = << >> /\ << >> \o << >> = << >>
      BY <1>2, <1>6, <2>1, QuiescentPipe, OnLaneNone DEF TakenFrom
    <3>2. entered[l] = << >>
      BY <1>6
    <3> QED
      BY <3>1, <3>2, Zenon
  <2> QED
    BY <1>2, <2>1, <2>2 DEF CarriedSound
<1> QED
  BY <1>1, <1>8, <1>11, <1>12, <1>13 DEF BoundarySound

LEMMA BoundaryAlways == RouterSpec => []BoundarySound
<1>1. RouterInit => BoundarySound
  BY BoundaryInit
<1>2. BoundarySound /\ [RouterNext]_vars => BoundarySound'
  BY EnteredStep, QueuesStep, RunningStep, EpochsStep, CarriedStep DEF BoundarySound
<1> QED
  BY <1>1, <1>2, PTL DEF RouterSpec

\* While the graph runs, what a lane accepted reaches the receivers once, in
\* order and from whichever generation, or is still in the current one: also
\* across replacements that are refused, repeated or raced by broadcasts, for any
\* number of clients, lanes, generations and any depth.
THEOREM RouterConserves == RouterSpec => []ConservedAcrossCutover
<1>1. BoundarySound => ConservedAcrossCutover
  BY CarriedIsConserved
<1> QED
  BY <1>1, BoundaryAlways, PTL

\* The router's flags and the queues that can be closed.
FlagsTyped ==
  closed \in BOOLEAN /\ drainable \in BOOLEAN /\ qclosed \subseteq Gens \X (Lanes \cup {0})

LEMMA FlagsStep ==
  ASSUME ControlTyped, FlagsTyped, [RouterNext]_vars
  PROVE  FlagsTyped'
<1>1. CASE UNCHANGED <<closed, drainable, qclosed>>
  BY <1>1 DEF FlagsTyped
<1>2. ASSUME NEW p \in Clients, Call(p) \/ Client(p) \/ GiveUp(p)
      PROVE  UNCHANGED <<closed, qclosed>> /\ drainable' \in BOOLEAN
  <2>1. CASE ReceiverFinish(p)
    BY <2>1 DEF ReceiverFinish, FinishQueueShutdown, queueVars, FlagsTyped
  <2>2. CASE Broadcast(p)
    BY <2>2 DEF Broadcast, Commit, Untouched, Sleep, WriteLanes, queueVars, routerVars, FlagsTyped
  <2>3. CASE Receive(p)
    BY <2>3 DEF Receive, Commit, Untouched, Sleep, queueVars, routerVars, FlagsTyped
  <2>4. CASE Call(p) \/ ReceiveAgain(p) \/ Acquire(p) \/ Retired(p) \/ Release(p) \/ GiveUp(p)
    BY <2>4 DEF Call, ReceiveAgain, Acquire, Retired, Release, GiveUp, queueVars, routerVars, FlagsTyped
  <2> QED
    BY <1>2, <2>1, <2>2, <2>3, <2>4 DEF Client
<1>3. ASSUME NEW g \in Gens, Element(g) PROVE UNCHANGED <<closed, drainable, qclosed>>
  BY <1>3 DEF Element, ElemScan, ElemSend, ElemVars, routerVars
<1>4. CASE ElemStop
  BY <1>1, <1>4 DEF ElemStop, ElemVars, routerVars
<1>5. CASE ReplaceBegin \/ Replace
  BY <1>1, <1>5, ReplaceMoves DEF queueVars
<1>6. CASE CancelGraph
  BY <1>1, <1>6 DEF CancelGraph, routerVars, queueVars
<1>7. CASE BeginQueueShutdown \/ ShutdownIngress \/ ShutdownFinish
  BY <1>7 DEF BeginQueueShutdown, ShutdownIngress, ShutdownFinish, FinishQueueShutdown, queueVars, FlagsTyped
<1>8. CASE CloseQueues
  <2>1. current \in Gens
    BY DEF ControlTyped
  <2>2. NextToClose \subseteq Gens \X (Lanes \cup {0})
    BY <2>1 DEF NextToClose, GraphQueues
  <2> QED
    BY <1>8, <2>2 DEF CloseQueues, FlagsTyped
<1>9. CASE UNCHANGED vars
  BY <1>1, <1>9 DEF vars, routerVars, queueVars
<1> QED
  BY <1>1, <1>2, <1>3, <1>4, <1>5, <1>6, <1>7, <1>8, <1>9 DEF RouterNext, Shutdown, FlagsTyped

\* No queue outgrows its depth, nothing but queues of the graph is closed, and no
\* operation or admission is of an epoch that no replacement has begun, for any
\* interleaving of clients, elements, replacements and shutdown.
THEOREM RouterTypeCorrect == RouterSpec => []RouterTypeOK
<1>1. RouterInit => FlagsTyped
  BY DEF RouterInit, FlagsTyped
<1>2. BoundarySound /\ FlagsTyped /\ [RouterNext]_vars => FlagsTyped'
  BY FlagsStep DEF BoundarySound, EnteredSound
<1>3. BoundarySound /\ FlagsTyped => RouterTypeOK
  <2> SUFFICES ASSUME BoundarySound, FlagsTyped PROVE RouterTypeOK
    OBVIOUS
  <2>1. ControlTyped /\ ClientsTyped /\ QueuesSound /\ EpochsSound
    BY DEF BoundarySound, EnteredSound
  <2>2. repl.calls \in Nat /\ repl.calls <= MaxReplace /\ MaxReplace \in Nat
    BY <2>1, Replacements, RouterAssumption DEF EpochsSound
  <2>3. adm \in [Gens -> [Dirs -> [open : BOOLEAN, epoch : 0..MaxReplace]]]
    <3>1. \A g \in Gens, d \in Dirs : adm[g][d] \in [open : BOOLEAN, epoch : Nat]
      BY <2>1 DEF ControlTyped
    <3>2. \A g \in Gens, d \in Dirs : adm[g][d].epoch <= repl.calls
      BY <2>1 DEF EpochsSound
    <3>3. \A g \in Gens, d \in Dirs : adm[g][d] \in [open : BOOLEAN, epoch : 0..MaxReplace]
      BY <2>2, <3>1, <3>2
    <3>4. \A g \in Gens : adm[g] \in [Dirs -> [open : BOOLEAN, epoch : 0..MaxReplace]]
      BY <2>1, <3>3 DEF ControlTyped
    <3> QED
      BY <2>1, <3>4 DEF ControlTyped
  <2>4. op \in [Clients -> [pc : {"idle", "acquire", "parked", "paused", "try", "wait", "release", "finish"},
                            item : 0..MaxItems, gen : Gens, epoch : 0..MaxReplace, res : Results]]
    <3>1. \A p \in Clients : op[p] \in Ops /\ op[p].epoch <= repl.calls
      BY <2>1 DEF ClientsTyped, EpochsSound
    <3>2. \A p \in Clients : op[p].epoch \in 0..MaxReplace
      BY <2>2, <3>1 DEF Ops
    <3>3. \A p \in Clients : op[p] \in
            [pc : {"idle", "acquire", "parked", "paused", "try", "wait", "release", "finish"},
             item : 0..MaxItems, gen : Gens, epoch : 0..MaxReplace, res : Results]
      BY <3>1, <3>2 DEF Ops
    <3> QED
      BY <2>1, <3>3 DEF ClientsTyped
  <2>5. \A g \in Gens : /\ \A l \in Lanes : inq[g][l] \in Seq(Items) /\ Len(inq[g][l]) <= Depth
                        /\ outq[g] \in Seq(Entries) /\ Len(outq[g]) <= Depth
    BY <2>1 DEF QueuesSound, LaneQueues
  <2>6. current \in Gens /\ cursor \in [Gens -> 0..(NLanes - 1)] /\ sent \in 0..MaxItems
    BY <2>1 DEF ControlTyped, QueuesSound, ClientsTyped
  <2> QED
    BY <2>3, <2>4, <2>5, <2>6 DEF RouterTypeOK, FlagsTyped, Results
<1> QED
  BY <1>1, <1>2, <1>3, BoundaryAlways, PTL DEF RouterSpec

-----------------------------------------------------------------------------
\* Sleepers.

\* What a client finds at the queues it waits for.
NothingFor(p) ==
  LET g == op[p].gen
  IN IF p \in Senders THEN ~LanesClosed(g) /\ ~LanesReady(g)
                      ELSE outq[g] = << >> /\ <<g, 0>> \notin qclosed

QueueSleepers == \A p \in Clients \cap qwait : op[p].pc = "wait" /\ NothingFor(p)

RouterSleepers ==
  \A p \in Clients \cap rwait :
    /\ op[p].pc \in {"parked", "paused"}
    /\ ~closed \/ (DirOf(p) = "out" /\ drainable)
    /\ ~adm[current][DirOf(p)].open

\* A scan begins with nothing seen, and a wait is the beginning of the next.
Placed(g) ==
  /\ elem[g].pc \in {"scan", "wait"} => elem[g].at < NLanes /\ (elem[g].at = 0 => elem[g].sealed)
  /\ elem[g].pc = "wait" => elem[g].at = 0

LaneAt(g, j) == ((cursor[g] + j) % NLanes) + 1

\* What the element has seen since it took its channel is still so.
Watches(g) ==
  /\ elem[g].pc = "scan" =>
       /\ \A j \in 0..(elem[g].at - 1) : inq[g][LaneAt(g, j)] = << >>
       /\ elem[g].sealed \/ \E j \in 0..(elem[g].at - 1) : <<g, LaneAt(g, j)>> \notin qclosed
  /\ elem[g].pc = "wait" => /\ \A l \in Lanes : inq[g][l] = << >>
                            /\ \E l \in Lanes : <<g, l>> \notin qclosed
  /\ elem[g].pc = "blocked" => Full(outq[g]) /\ <<g, 0>> \notin qclosed

ElementSleepers == \A g \in Gens : Placed(g) /\ (ElemAt(g) \in qwait => Watches(g))

\* A step leaves the queues of a generation as they are, or signals it.
Undisturbed(g) ==
  /\ inq'[g] = inq[g] /\ outq'[g] = outq[g]
  /\ \A l \in Lanes \cup {0} : <<g, l>> \in qclosed' <=> <<g, l>> \in qclosed

Signalled(g) ==
  /\ qwait' \subseteq qwait /\ ElemAt(g) \notin qwait'
  /\ \A q \in Clients \cap qwait' : op[q].gen # g

LEMMA Signals ==
  ASSUME NEW g, Signal(g)
  PROVE  Signalled(g)
BY DEF Signal, Signalled

LEMMA ElementsAreNoClients ==
  ASSUME NEW g \in Gens
  PROVE  ElemAt(g) \notin Clients /\ \A h \in Gens : ElemAt(g) = ElemAt(h) => g = h
<1>1. ElemAt(g) \in {"elem"} \X (1..MaxGen)
  BY DEF ElemAt, Gens
<1>2. (Senders \cup Receivers) \cap ({"elem"} \X (1..MaxGen)) = {}
  BY RouterAssumption
<1>3. \A h \in Gens : ElemAt(g) = ElemAt(h) => g = h
  BY DEF ElemAt
<1> QED
  BY <1>1, <1>2, <1>3 DEF Clients

LEMMA ClientsSleepOn ==
  ASSUME ClientsTyped, QueueSleepers, \A h \in Gens : Undisturbed(h) \/ Signalled(h),
         \A q \in Clients \cap qwait' : q \in qwait /\ op'[q] = op[q]
  PROVE  QueueSleepers'
<1> SUFFICES ASSUME NEW q \in Clients, q \in qwait' PROVE op'[q].pc = "wait" /\ NothingFor(q)'
  BY DEF QueueSleepers
<1>1. q \in qwait /\ op'[q] = op[q] /\ op[q].pc = "wait" /\ NothingFor(q) /\ op[q].gen \in Gens
  BY DEF QueueSleepers, ClientsTyped, Ops
<1>2. Undisturbed(op[q].gen)
  BY <1>1 DEF Signalled
<1>3. PICK g : g = op[q].gen
  OBVIOUS
<1>4. /\ inq'[g] = inq[g] /\ outq'[g] = outq[g]
      /\ \A l \in Lanes \cup {0} : <<g, l>> \in qclosed' <=> <<g, l>> \in qclosed
  BY <1>2, <1>3 DEF Undisturbed
<1>5. NothingFor(q)'
  BY <1>1, <1>3, <1>4 DEF NothingFor, LanesClosed, LanesReady, Full
<1> QED
  BY <1>1, <1>5

LEMMA ElementSleepsOn ==
  ASSUME NEW g \in Gens, Placed(g), ElemAt(g) \in qwait => Watches(g), Undisturbed(g) \/ Signalled(g),
         ElemAt(g) \in qwait' => ElemAt(g) \in qwait, elem'[g] = elem[g], cursor'[g] = cursor[g],
         QueuesSound
  PROVE  Placed(g)' /\ (ElemAt(g) \in qwait' => Watches(g)')
<1>1. Placed(g)'
  BY DEF Placed
<1>2. ASSUME ElemAt(g) \in qwait' PROVE Watches(g)'
  <2>1. Watches(g) /\ Undisturbed(g)
    BY <1>2 DEF Signalled
  <2>2. \A j \in 0..(elem[g].at - 1) : LaneAt(g, j)' = LaneAt(g, j) /\ LaneAt(g, j) \in Lanes
    <3>1. cursor[g] \in Nat /\ elem[g].at \in Nat /\ NLanes \in Nat \ {0}
      BY RouterAssumption DEF QueuesSound, Elements
    <3>2. \A n \in Nat : n % NLanes \in 0..(NLanes - 1)
      BY <3>1
    <3>3. \A j \in 0..(elem[g].at - 1) : cursor[g] + j \in Nat
      BY <3>1
    <3>4. \A j \in 0..(elem[g].at - 1) : LaneAt(g, j) \in Lanes
      BY <3>1, <3>2, <3>3 DEF LaneAt, Lanes
    <3> QED
      BY <3>4 DEF LaneAt
  <2>3. elem[g].pc = "scan" =>
          /\ \A j \in 0..(elem[g].at - 1) : inq'[g][LaneAt(g, j)'] = << >>
          /\ elem[g].sealed \/ \E j \in 0..(elem[g].at - 1) : <<g, LaneAt(g, j)'>> \notin qclosed'
    BY <2>1, <2>2 DEF Watches, Undisturbed
  <2>4. /\ elem[g].pc = "wait" => /\ \A l \in Lanes : inq'[g][l] = << >>
                                  /\ \E l \in Lanes : <<g, l>> \notin qclosed'
        /\ elem[g].pc = "blocked" => Full(outq'[g]) /\ <<g, 0>> \notin qclosed'
    BY <2>1 DEF Watches, Undisturbed
  <2> QED
    BY <2>3, <2>4 DEF Watches
<1> QED
  BY <1>1, <1>2

LEMMA DivideUnique ==
  ASSUME NEW n \in Nat \ {0}, NEW a \in Nat, NEW q \in Nat, NEW r \in 0..(n - 1), a = n * q + r
  PROVE  a % n = r
<1>1. PICK m, k : m = a % n /\ k = a \div n
  OBVIOUS
<1>2. m \in 0..(n - 1) /\ k \in Int /\ a = n * k + m
  BY <1>1
<1>3. CASE k = q
  BY <1>1, <1>2, <1>3
<1>4. CASE k < q
  <2>1. n * k + n <= n * q
    BY <1>2, <1>4
  <2> QED
    BY <1>2, <2>1
<1>5. CASE k > q
  <2>1. n * q + n <= n * k
    BY <1>2, <1>5
  <2> QED
    BY <1>2, <2>1
<1> QED
  BY <1>2, <1>3, <1>4, <1>5

\* A whole turn looks at every lane.
LEMMA TurnCovers ==
  ASSUME NEW c \in 0..(NLanes - 1), NEW l \in Lanes
  PROVE  \E j \in 0..(NLanes - 1) : ((c + j) % NLanes) + 1 = l
<1>1. PICK n \in Nat \ {0} : n = NLanes
  BY RouterAssumption
<1>2. ASSUME NEW x \in 0..(n - 1) PROVE x % n = x /\ (x + n) % n = x
  <2>1. x = n * 0 + x /\ x + n = n * 1 + x
    OBVIOUS
  <2>2. x % n = x
    BY <2>1, DivideUnique
  <2>3. (x + n) % n = x
    BY <2>1, DivideUnique
  <2> QED
    BY <2>2, <2>3
<1>3. l - 1 \in 0..(n - 1) /\ c \in 0..(n - 1) /\ l = (l - 1) + 1 /\ NLanes - 1 = n - 1
  BY <1>1 DEF Lanes
<1>4. (l - 1) % n = l - 1 /\ ((l - 1) + n) % n = l - 1
  BY <1>2, <1>3
<1>5. PICK j \in 0..(n - 1) : c + j = l - 1 \/ c + j = (l - 1) + n
  <2>1. CASE c <= l - 1
    <3>1. (l - 1) - c \in 0..(n - 1) /\ c + ((l - 1) - c) = l - 1
      BY <1>3, <2>1
    <3> QED
      BY <3>1
  <2>2. CASE ~(c <= l - 1)
    <3>1. (l - 1) + n - c \in 0..(n - 1) /\ c + ((l - 1) + n - c) = (l - 1) + n
      BY <1>3, <2>2
    <3> QED
      BY <3>1
  <2> QED
    BY <2>1, <2>2
<1>6. (c + j) % n = l - 1
  BY <1>4, <1>5, Zenon
<1>7. ((c + j) % NLanes) + 1 = l /\ j \in 0..(NLanes - 1)
  BY <1>1, <1>3, <1>5, <1>6
<1> QED
  BY <1>7

LEMMA OneAtATime ==
  ASSUME ClientsTyped, NEW p \in Clients, Call(p) \/ Client(p) \/ GiveUp(p)
  PROVE  OthersStand(p)
<1>1. ASSUME NEW t, op' = [op EXCEPT ![p] = t] PROVE OthersStand(p)
  BY <1>1 DEF ClientsTyped, OthersStand
<1>2. ASSUME NEW r, Return(p, r) PROVE OthersStand(p)
  BY <1>1, <1>2 DEF Return
<1>3. ASSUME NEW s, Goto(p, s) PROVE OthersStand(p)
  BY <1>3 DEF Goto, ClientsTyped, OthersStand
<1>4. ASSUME NEW r, Finish(p, r) PROVE OthersStand(p)
  BY <1>4 DEF Finish, ClientsTyped, OthersStand
<1>5. CASE Call(p) \/ ReceiveAgain(p)
  BY <1>1, <1>5 DEF Call, ReceiveAgain
<1>6. CASE Acquire(p)
  <2>1. CASE op' = [op EXCEPT ![p].pc = "try", ![p].gen = current, ![p].epoch = adm[current][DirOf(p)].epoch]
    BY <2>1 DEF ClientsTyped, OthersStand
  <2> QED
    BY <1>2, <1>3, <1>6, <2>1 DEF Acquire
<1>7. CASE Broadcast(p) \/ Receive(p)
  BY <1>3, <1>4, <1>7 DEF Broadcast, Receive, Commit, Sleep
<1>8. CASE Retired(p) \/ GiveUp(p)
  BY <1>2, <1>4, <1>8 DEF Retired, GiveUp
<1>9. CASE Release(p)
  BY <1>1, <1>2, <1>3, <1>9 DEF Release, Again
<1>10. CASE ReceiverFinish(p)
  BY <1>2, <1>10 DEF ReceiverFinish
<1> QED
  BY <1>5, <1>6, <1>7, <1>8, <1>9, <1>10 DEF Client

\* A client's step puts it to sleep at queues that have nothing for it, or leaves
\* or signals the queues and does not leave it asleep.
FallsAsleep(p) ==
  /\ NothingFor(p) /\ op'[p].pc = "wait" /\ op'[p].gen = op[p].gen
  /\ qwait' = qwait \cup {p} /\ UNCHANGED <<inq, outq, qclosed>>

StaysAwake(p) ==
  /\ p \notin qwait' /\ qwait' \subseteq qwait
  /\ \A h \in Gens : Undisturbed(h) \/ Signalled(h)

LEMMA ClientSleeps ==
  ASSUME EnteredSound, QueuesSound, QueueSleepers, NEW p \in Clients, Call(p) \/ Client(p) \/ GiveUp(p)
  PROVE  FallsAsleep(p) \/ StaysAwake(p)
<1>1. op[p].pc # "wait" => p \notin qwait
  BY DEF QueueSleepers
<1>2. ASSUME UNCHANGED <<inq, outq, qclosed>>, p \notin qwait', qwait' \subseteq qwait PROVE StaysAwake(p)
  BY <1>2 DEF StaysAwake, Undisturbed
<1>3. PICK g \in Gens : g = op[p].gen
  BY DEF EnteredSound, ClientsTyped, Ops
<1>4. ASSUME op[p].pc \in {"try", "wait"}, Sleep(p), NothingFor(p) PROVE FallsAsleep(p)
  <2>1. Goto(p, "wait") /\ qwait' = qwait \cup {p} /\ UNCHANGED <<inq, outq, qclosed>>
    BY <1>4 DEF Sleep
  <2>2. op'[p].pc = "wait" /\ op'[p].gen = op[p].gen
    <3>1. op[p] \in Ops /\ op' = [op EXCEPT ![p].pc = "wait"]
      BY <2>1 DEF Goto, EnteredSound, ClientsTyped
    <3> QED
      BY <3>1 DEF EnteredSound, ClientsTyped, Ops
  <2> QED
    BY <1>4, <2>1, <2>2 DEF FallsAsleep
<1>5. CASE Call(p) \/ ReceiveAgain(p) \/ Acquire(p) \/ Release(p) \/ ReceiverFinish(p)
  <2>1. op[p].pc # "wait" /\ UNCHANGED queueVars
    BY <1>5 DEF Call, ReceiveAgain, Acquire, Release, ReceiverFinish
  <2> QED
    BY <1>1, <1>2, <2>1 DEF queueVars
<1>6. CASE GiveUp(p) \/ Retired(p)
  <2>1. qwait' = qwait \ {p} /\ UNCHANGED <<inq, outq, qclosed>>
    BY <1>6 DEF GiveUp, Retired
  <2> QED
    BY <1>2, <2>1
<1>7. ASSUME Trying(p) PROVE p \notin qwait /\ op[p].pc \in {"try", "wait"}
  BY <1>1, <1>7 DEF Trying
<1>8. CASE Broadcast(p)
  <2>1. p \in Senders /\ Trying(p)
    BY <1>8 DEF Broadcast
  <2>2. CASE Sleep(p) /\ ~LanesClosed(g) /\ ~LanesReady(g)
    BY <1>3, <1>4, <1>7, <2>1, <2>2 DEF NothingFor
  <2>3. CASE UNCHANGED queueVars
    BY <1>2, <1>7, <2>1, <2>3 DEF queueVars
  <2>4. CASE WriteLanes(op[p].item, g)
    <3>1. Signalled(g) /\ UNCHANGED <<outq, qclosed>>
      BY <2>4, Signals DEF WriteLanes
    <3>2. \A h \in Gens : h # g => inq'[h] = inq[h]
      BY <2>4 DEF WriteLanes, QueuesSound
    <3> QED
      BY <1>7, <2>1, <3>1, <3>2 DEF StaysAwake, Undisturbed, Signalled
  <2> QED
    BY <1>3, <1>8, <2>2, <2>3, <2>4 DEF Broadcast, Commit, Untouched
<1>9. CASE Receive(p)
  <2>1. p \in Receivers /\ Trying(p) /\ p \notin Senders
    BY <1>9, RouterAssumption DEF Receive
  <2>2. CASE Sleep(p) /\ outq[g] = << >> /\ <<g, 0>> \notin qclosed
    BY <1>3, <1>4, <1>7, <2>1, <2>2 DEF NothingFor
  <2>3. CASE UNCHANGED queueVars
    BY <1>2, <1>7, <2>1, <2>3 DEF queueVars
  <2>4. CASE outq' = [outq EXCEPT ![g] = Tail(@)] /\ Signal(g) /\ UNCHANGED <<inq, qclosed>>
    <3>1. Signalled(g)
      BY <2>4, Signals
    <3>2. \A h \in Gens : h # g => outq'[h] = outq[h]
      BY <2>4 DEF QueuesSound
    <3> QED
      BY <1>7, <2>1, <2>4, <3>1, <3>2 DEF StaysAwake, Undisturbed, Signalled
  <2> QED
    BY <1>3, <1>9, <2>2, <2>3, <2>4 DEF Receive, Commit, Untouched
<1> QED
  BY <1>5, <1>6, <1>8, <1>9 DEF Client

LEMMA QueueSleepersByClient ==
  ASSUME EnteredSound, QueuesSound, QueueSleepers, ElementSleepers,
         NEW p \in Clients, Call(p) \/ Client(p) \/ GiveUp(p)
  PROVE  QueueSleepers' /\ ElementSleepers'
<1>1. OthersStand(p) /\ ClientsTyped
  BY OneAtATime DEF EnteredSound
<1>2. UNCHANGED <<elem, cursor>>
  BY ClientMoves
<1>3. ASSUME FallsAsleep(p) PROVE QueueSleepers'
  <2>1. \A h \in Gens : Undisturbed(h)
    BY <1>3 DEF FallsAsleep, Undisturbed
  <2> SUFFICES ASSUME NEW q \in Clients, q \in qwait' PROVE op'[q].pc = "wait" /\ NothingFor(q)'
    BY DEF QueueSleepers
  <2>2. CASE q = p
    <3>1. NothingFor(p)'
      BY <1>3 DEF FallsAsleep, NothingFor, LanesClosed, LanesReady, Full
    <3> QED
      BY <1>3, <2>2, <3>1 DEF FallsAsleep
  <2>3. CASE q # p
    <3>1. q \in qwait /\ op'[q] = op[q]
      BY <1>1, <1>3, <2>3 DEF FallsAsleep, OthersStand
    <3>2. op[q].pc = "wait" /\ NothingFor(q)
      BY <3>1 DEF QueueSleepers
    <3>3. NothingFor(q)'
      BY <1>3, <3>1, <3>2 DEF FallsAsleep, NothingFor, LanesClosed, LanesReady, Full
    <3> QED
      BY <3>1, <3>2, <3>3
  <2> QED
    BY <2>2, <2>3
<1>4. ASSUME StaysAwake(p) PROVE QueueSleepers'
  <2>1. \A q \in Clients \cap qwait' : q \in qwait /\ op'[q] = op[q]
    BY <1>1, <1>4 DEF StaysAwake, OthersStand
  <2> QED
    BY <1>1, <1>4, <2>1, ClientsSleepOn DEF StaysAwake
<1>5. ASSUME NEW g \in Gens PROVE Placed(g)' /\ (ElemAt(g) \in qwait' => Watches(g)')
  <2>1. Undisturbed(g) \/ Signalled(g)
    BY ClientSleeps DEF FallsAsleep, StaysAwake, Undisturbed
  <2>2. ElemAt(g) \in qwait' => ElemAt(g) \in qwait
    BY ClientSleeps, ElementsAreNoClients DEF FallsAsleep, StaysAwake
  <2>3. Placed(g) /\ (ElemAt(g) \in qwait => Watches(g)) /\ elem'[g] = elem[g] /\ cursor'[g] = cursor[g]
    BY <1>2 DEF ElementSleepers
  <2> QED
    BY <2>1, <2>2, <2>3, ElementSleepsOn
<1> QED
  BY <1>3, <1>4, <1>5, ClientSleeps DEF ElementSleepers

\* What a turn of a scan that finds a lane empty leaves behind.
LEMMA ScanWatches ==
  ASSUME QueuesSound, NEW g \in Gens, Placed(g), ElemAt(g) \in qwait => Watches(g),
         elem[g].pc = "scan" \/ (elem[g].pc = "wait" /\ ElemAt(g) \notin qwait),
         inq[g][LaneAt(g, elem[g].at)] = << >>,
         UNCHANGED <<inq, outq, qclosed, cursor>>,
         elem' = [elem EXCEPT ![g] =
           IF elem[g].at + 1 < NLanes
           THEN [pc |-> "scan", at |-> elem[g].at + 1,
                 sealed |-> elem[g].sealed /\ <<g, LaneAt(g, elem[g].at)>> \in qclosed, hold |-> << >>]
           ELSE [Scanning EXCEPT !.pc = IF elem[g].sealed /\ <<g, LaneAt(g, elem[g].at)>> \in qclosed
                                        THEN "stopped" ELSE "wait"]],
         qwait' = IF elem[g].at = 0 THEN qwait \cup {ElemAt(g)} ELSE qwait
  PROVE  Placed(g)' /\ (ElemAt(g) \in qwait' => Watches(g)')
<1>1. PICK a \in Nat, sealed \in BOOLEAN :
        a = elem[g].at /\ sealed = (elem[g].sealed /\ <<g, LaneAt(g, elem[g].at)>> \in qclosed)
  BY DEF QueuesSound, Elements
<1>2. NLanes \in Nat \ {0} /\ a < NLanes /\ (a = 0 => elem[g].sealed) /\ cursor[g] \in 0..(NLanes - 1)
  BY <1>1, RouterAssumption DEF Placed, QueuesSound
<1>3. \A j : LaneAt(g, j)' = LaneAt(g, j)
  BY DEF LaneAt
<1>4. \A j \in 0..a : j \in 0..(a - 1) \/ j = a
  BY <1>1
<1>5. ASSUME ElemAt(g) \in qwait'
      PROVE  /\ \A j \in 0..a : inq[g][LaneAt(g, j)] = << >>
             /\ ~sealed => \E j \in 0..a : <<g, LaneAt(g, j)>> \notin qclosed
  <2>1. CASE a = 0
    <3>1. \A j \in 0..a : j = a
      BY <2>1
    <3>2. a \in 0..a
      BY <1>1
    <3> QED
      BY <1>1, <1>2, <2>1, <3>1, <3>2
  <2>2. CASE a # 0
    <3>1. ElemAt(g) \in qwait /\ elem[g].pc = "scan"
      BY <1>1, <1>5, <2>2 DEF Placed
    <3>2. /\ \A j \in 0..(a - 1) : inq[g][LaneAt(g, j)] = << >>
          /\ elem[g].sealed \/ \E j \in 0..(a - 1) : <<g, LaneAt(g, j)>> \notin qclosed
      BY <1>1, <3>1 DEF Watches
    <3>3. \A j \in 0..a : inq[g][LaneAt(g, j)] = << >>
      BY <1>1, <1>4, <3>2
    <3>4. a \in 0..a /\ \A j \in 0..(a - 1) : j \in 0..a
      BY <1>1
    <3>5. ~sealed => \E j \in 0..a : <<g, LaneAt(g, j)>> \notin qclosed
      BY <1>1, <3>2, <3>4
    <3> QED
      BY <3>3, <3>5
  <2> QED
    BY <2>1, <2>2
<1>6. CASE a + 1 < NLanes
  <2>1. elem'[g] = [pc |-> "scan", at |-> a + 1, sealed |-> sealed, hold |-> << >>]
    BY <1>1, <1>6 DEF QueuesSound
  <2>2. elem'[g].pc = "scan" /\ elem'[g].at = a + 1 /\ elem'[g].sealed = sealed /\ (a + 1) - 1 = a /\ a + 1 # 0
    BY <1>1, <2>1
  <2>3. Placed(g)'
    BY <1>6, <2>2 DEF Placed
  <2>4. ElemAt(g) \in qwait' => Watches(g)'
    BY <1>3, <1>5, <2>2 DEF Watches
  <2> QED
    BY <2>3, <2>4
<1>7. CASE ~(a + 1 < NLanes)
  <2>1. PICK s \in {"wait", "stopped"} : s = IF sealed THEN "stopped" ELSE "wait"
    OBVIOUS
  <2>2. elem'[g] = [Scanning EXCEPT !.pc = s]
    BY <1>1, <1>7, <2>1 DEF QueuesSound
  <2>3. elem'[g].pc = s /\ elem'[g].at = 0 /\ elem'[g].sealed
    BY <2>2 DEF Scanning
  <2>4. Placed(g)'
    BY <1>2, <2>3 DEF Placed
  <2>5. a = NLanes - 1
    BY <1>1, <1>2, <1>7
  <2>6. \A j \in 0..a : LaneAt(g, j) \in Lanes
    <3>1. \A n \in Nat : n % NLanes \in 0..(NLanes - 1)
      BY <1>2
    <3>2. \A j \in 0..a : cursor[g] + j \in Nat
      BY <1>1, <1>2
    <3>3. \A n \in 0..(NLanes - 1) : n + 1 \in 1..NLanes
      BY <1>2
    <3> QED
      BY <3>1, <3>2, <3>3 DEF LaneAt, Lanes
  <2>7. \A l \in Lanes : \E j \in 0..a : LaneAt(g, j) = l
    BY <1>2, <2>5, TurnCovers DEF LaneAt
  <2>8. ASSUME ElemAt(g) \in qwait', s = "wait"
        PROVE  (\A l \in Lanes : inq[g][l] = << >>) /\ \E l \in Lanes : <<g, l>> \notin qclosed
    BY <1>5, <2>1, <2>6, <2>7, <2>8
  <2>9. ElemAt(g) \in qwait' => Watches(g)'
    BY <2>1, <2>3, <2>8 DEF Watches
  <2> QED
    BY <2>4, <2>9
<1> QED
  BY <1>6, <1>7

LEMMA SleepersByElement ==
  ASSUME EnteredSound, QueuesSound, QueueSleepers, ElementSleepers, NEW g \in Gens, Element(g)
  PROVE  QueueSleepers' /\ ElementSleepers'
<1>1. op' = op /\ ClientsTyped /\ qclosed' = qclosed
  BY DEF Element, ElemScan, ElemSend, ElemVars, EnteredSound
<1>2. Placed(g) /\ (ElemAt(g) \in qwait => Watches(g))
  BY DEF ElementSleepers
<1>3. ASSUME \A h \in Gens : h # g => /\ inq'[h] = inq[h] /\ outq'[h] = outq[h] /\ elem'[h] = elem[h]
                                      /\ cursor'[h] = cursor[h],
             Undisturbed(g) \/ Signalled(g), qwait' \subseteq qwait \cup {ElemAt(g)},
             Placed(g)', ElemAt(g) \in qwait' => Watches(g)'
      PROVE  QueueSleepers' /\ ElementSleepers'
  <2>1. \A h \in Gens : Undisturbed(h) \/ Signalled(h)
    BY <1>1, <1>3 DEF Undisturbed
  <2>2. \A q \in Clients \cap qwait' : q \in qwait /\ op'[q] = op[q]
    BY <1>1, <1>3, ElementsAreNoClients
  <2>3. QueueSleepers'
    BY <1>1, <2>1, <2>2, ClientsSleepOn
  <2>4. ASSUME NEW h \in Gens PROVE Placed(h)' /\ (ElemAt(h) \in qwait' => Watches(h)')
    <3>1. CASE h = g
      BY <1>3, <3>1
    <3>2. CASE h # g
      <4>1. ElemAt(h) \in qwait' => ElemAt(h) \in qwait
        BY <1>3, <3>2, ElementsAreNoClients
      <4>2. Placed(h) /\ (ElemAt(h) \in qwait => Watches(h)) /\ elem'[h] = elem[h] /\ cursor'[h] = cursor[h]
        BY <1>3, <3>2 DEF ElementSleepers
      <4> QED
        BY <2>1, <4>1, <4>2, ElementSleepsOn
    <3> QED
      BY <3>1, <3>2
  <2> QED
    BY <2>3, <2>4 DEF ElementSleepers
<1>4. CASE ElemScan(g)
  <2>1. /\ elem[g].pc = "scan" \/ (elem[g].pc = "wait" /\ ElemAt(g) \notin qwait)
        /\ UNCHANGED <<outq, qclosed>>
    BY <1>4 DEF ElemScan
  <2>2. CASE TakeLane(g, LaneAt(g, elem[g].at))
    <3>1. Signalled(g)
      BY <2>2, Signals DEF TakeLane
    <3>2. \A h \in Gens : h # g => inq'[h] = inq[h] /\ elem'[h] = elem[h] /\ cursor'[h] = cursor[h]
      BY <2>2 DEF TakeLane, QueuesSound
    <3>3. elem'[g].pc = "send"
      <4>1. PICK h : h = << <<Head(inq[g][LaneAt(g, elem[g].at)]), LaneAt(g, elem[g].at)>> >>
        OBVIOUS
      <4>2. elem' = [elem EXCEPT ![g] = [Scanning EXCEPT !.pc = "send", !.hold = h]]
        BY <2>2, <4>1 DEF TakeLane
      <4> QED
        BY <4>2 DEF QueuesSound, Scanning
    <3>4. Placed(g)' /\ ElemAt(g) \notin qwait'
      BY <3>1, <3>3 DEF Placed, Signalled
    <3> QED
      BY <1>3, <2>1, <3>1, <3>2, <3>4 DEF Signalled
  <2>3. CASE ~TakeLane(g, LaneAt(g, elem[g].at))
    <3>1. /\ inq[g][LaneAt(g, elem[g].at)] = << >>
          /\ elem' = [elem EXCEPT ![g] =
               IF elem[g].at + 1 < NLanes
               THEN [pc |-> "scan", at |-> elem[g].at + 1,
                     sealed |-> elem[g].sealed /\ <<g, LaneAt(g, elem[g].at)>> \in qclosed, hold |-> << >>]
               ELSE [Scanning EXCEPT !.pc = IF elem[g].sealed /\ <<g, LaneAt(g, elem[g].at)>> \in qclosed
                                            THEN "stopped" ELSE "wait"]]
          /\ qwait' = IF elem[g].at = 0 THEN qwait \cup {ElemAt(g)} ELSE qwait
          /\ UNCHANGED <<inq, cursor>>
      BY <1>4, <2>3, Zenon DEF ElemScan, LaneAt
    <3>2. Placed(g)' /\ (ElemAt(g) \in qwait' => Watches(g)')
      BY <1>2, <2>1, <3>1, ScanWatches
    <3>3. \A h \in Gens : h # g => elem'[h] = elem[h]
      BY <3>1 DEF QueuesSound
    <3>4. qwait' \subseteq qwait \cup {ElemAt(g)} /\ Undisturbed(g)
      BY <2>1, <3>1 DEF Undisturbed
    <3> QED
      BY <1>3, <2>1, <3>1, <3>2, <3>3, <3>4
  <2> QED
    BY <2>2, <2>3
<1>5. CASE ElemSend(g)
  <2>1. SendMoves(g) /\ UNCHANGED <<inq, qclosed, cursor>>
    BY <1>5, Sends
  <2>2. \A h \in Gens : h # g => /\ inq'[h] = inq[h] /\ outq'[h] = outq[h] /\ elem'[h] = elem[h]
                                 /\ cursor'[h] = cursor[h]
    BY <2>1 DEF SendMoves
  <2>3. CASE <<g, 0>> \in qclosed
    <3>1. elem' = [elem EXCEPT ![g] = Stopped] /\ UNCHANGED <<outq, qwait>>
      BY <1>5, <2>3 DEF ElemSend
    <3>2. elem'[g].pc = "stopped"
      BY <3>1 DEF QueuesSound, Stopped, Scanning
    <3>3. Placed(g)' /\ Watches(g)'
      BY <3>2 DEF Placed, Watches
    <3>4. Undisturbed(g)
      BY <2>1, <3>1 DEF Undisturbed
    <3> QED
      BY <1>3, <2>2, <3>1, <3>3, <3>4
  <2>4. CASE <<g, 0>> \notin qclosed /\ ~Full(outq[g])
    <3>1. elem' = [elem EXCEPT ![g] = IF elem[g].hold = Terminal THEN Stopped ELSE Scanning] /\ Signalled(g)
      BY <1>5, <2>4, Signals DEF ElemSend, QueuesSound
    <3>2. elem'[g].pc \in {"stopped", "scan"} /\ elem'[g].at = 0 /\ elem'[g].sealed
      BY <3>1 DEF QueuesSound, Stopped, Scanning
    <3>3. Placed(g)' /\ ElemAt(g) \notin qwait'
      BY <3>1, <3>2, RouterAssumption DEF Placed, Signalled
    <3> QED
      BY <1>3, <2>2, <3>1, <3>3 DEF Signalled
  <2>5. CASE <<g, 0>> \notin qclosed /\ Full(outq[g])
    <3>1. elem' = [elem EXCEPT ![g].pc = "blocked"] /\ qwait' = qwait \cup {ElemAt(g)} /\ outq' = outq
      BY <1>5, <2>5 DEF ElemSend
    <3>2. elem'[g].pc = "blocked"
      BY <3>1 DEF QueuesSound, Elements
    <3>3. Placed(g)' /\ Watches(g)'
      BY <2>1, <2>5, <3>1, <3>2 DEF Placed, Watches, Full
    <3>4. Undisturbed(g)
      BY <2>1, <3>1 DEF Undisturbed
    <3> QED
      BY <1>3, <2>2, <3>1, <3>3, <3>4
  <2> QED
    BY <2>3, <2>4, <2>5
<1> QED
  BY <1>4, <1>5 DEF Element

\* The other steps leave who waits at the queues as it is.
LEMMA OthersSleepOn ==
  ASSUME EnteredSound, QueuesSound, QueueSleepers, ElementSleepers,
         UNCHANGED <<op, elem, cursor>>, qwait' \subseteq qwait,
         \A h \in Gens : Undisturbed(h) \/ Signalled(h)
  PROVE  QueueSleepers' /\ ElementSleepers'
<1>1. QueueSleepers'
  BY ClientsSleepOn DEF EnteredSound
<1>2. ASSUME NEW g \in Gens PROVE Placed(g)' /\ (ElemAt(g) \in qwait' => Watches(g)')
  BY <1>2, ElementSleepsOn DEF ElementSleepers
<1> QED
  BY <1>1, <1>2 DEF ElementSleepers

LEMMA SleepersByStop ==
  ASSUME EnteredSound, QueuesSound, QueueSleepers, ElementSleepers, ElemStop
  PROVE  QueueSleepers' /\ ElementSleepers'
<1>1. /\ UNCHANGED <<inq, outq, qclosed, cursor, op>>
      /\ qwait' = qwait \ {ElemAt(g) : g \in Gens}
  BY DEF ElemStop, ElemVars
<1>2. QueueSleepers'
  <2>1. \A h \in Gens : Undisturbed(h)
    BY <1>1 DEF Undisturbed
  <2>2. \A q \in Clients \cap qwait' : q \in qwait /\ op'[q] = op[q]
    BY <1>1
  <2> QED
    BY <2>1, <2>2, ClientsSleepOn DEF EnteredSound
<1>3. ASSUME NEW g \in Gens PROVE Placed(g)' /\ ElemAt(g) \notin qwait'
  <2>1. ElemAt(g) \notin qwait'
    BY <1>1
  <2>2. PICK last \in {Stopped, [Scanning EXCEPT !.pc = "send", !.hold = Terminal]} :
          elem' = [h \in Gens |-> IF h = current /\ elem[h].pc # "stopped" THEN last ELSE Stopped]
    BY DEF ElemStop
  <2>3. last.pc \in {"stopped", "send"} /\ Stopped.pc = "stopped"
    BY <2>2 DEF Stopped, Scanning
  <2>4. elem'[g].pc \in {"stopped", "send"}
    BY <2>2, <2>3
  <2> QED
    BY <2>1, <2>4 DEF Placed
<1> QED
  BY <1>2, <1>3 DEF ElementSleepers

LEMMA SleepersByClosing ==
  ASSUME EnteredSound, QueuesSound, QueueSleepers, ElementSleepers, CloseQueues
  PROVE  QueueSleepers' /\ ElementSleepers'
<1>1. /\ qclosed' = qclosed \cup NextToClose /\ Signal(current)
      /\ UNCHANGED <<inq, outq, op, elem, cursor>>
  BY DEF CloseQueues, ShutVars
<1>2. Signalled(current)
  BY <1>1, Signals
<1>3. NextToClose \subseteq {current} \X (Lanes \cup {0})
  BY DEF NextToClose, GraphQueues
<1>4. \A h \in Gens : Undisturbed(h) \/ Signalled(h)
  BY <1>1, <1>2, <1>3 DEF Undisturbed
<1> QED
  BY <1>1, <1>2, <1>4, OthersSleepOn DEF Signalled

LEMMA QueueSleepersStep ==
  ASSUME EnteredSound, QueuesSound, QueueSleepers, ElementSleepers, [RouterNext]_vars
  PROVE  QueueSleepers' /\ ElementSleepers'
<1>1. ASSUME UNCHANGED <<queueVars, op, elem, cursor>> PROVE QueueSleepers' /\ ElementSleepers'
  <2>1. UNCHANGED <<inq, outq, qclosed, qwait, op, elem, cursor>>
    BY <1>1 DEF queueVars
  <2>2. \A h \in Gens : Undisturbed(h)
    BY <2>1 DEF Undisturbed
  <2> QED
    BY <2>1, <2>2, OthersSleepOn
<1>2. CASE ReplaceBegin \/ Replace
  BY <1>1, <1>2, ReplaceMoves DEF EnteredSound
<1>3. CASE CancelGraph \/ BeginQueueShutdown \/ ShutdownIngress \/ ShutdownFinish
  BY <1>1, <1>3 DEF CancelGraph, BeginQueueShutdown, ShutdownIngress, ShutdownFinish, ShutVars
<1>4. CASE UNCHANGED vars
  BY <1>1, <1>4 DEF vars
<1> QED
  BY <1>2, <1>3, <1>4, QueueSleepersByClient, SleepersByElement, SleepersByStop, SleepersByClosing
     DEF RouterNext, Shutdown

\* Nothing is admitted that was not, and whoever still waits has not moved.
LEMMA RouterSleepsOn ==
  ASSUME RouterSleepers, UNCHANGED <<current, closed>>, rwait' # {} => drainable' = drainable,
         \A d \in Dirs : adm'[current][d].open => adm[current][d].open,
         \A q \in Clients \cap rwait' : q \in rwait /\ op'[q] = op[q]
  PROVE  RouterSleepers'
<1> SUFFICES ASSUME NEW q \in Clients, q \in rwait'
             PROVE  /\ op'[q].pc \in {"parked", "paused"}
                    /\ ~closed' \/ (DirOf(q) = "out" /\ drainable')
                    /\ ~adm'[current'][DirOf(q)].open
  BY DEF RouterSleepers, DirOf
<1>1. q \in rwait /\ op'[q] = op[q] /\ drainable' = drainable /\ DirOf(q) \in Dirs
  BY DEF DirOf, Dirs
<1> QED
  BY <1>1 DEF RouterSleepers

LEMMA RouterSleepersByClient ==
  ASSUME ControlTyped, ClientsTyped, RouterSleepers, NEW p \in Clients, Call(p) \/ Client(p) \/ GiveUp(p)
  PROVE  RouterSleepers'
<1>1. OthersStand(p)
  BY OneAtATime
<1>2. op[p].pc \notin {"parked", "paused"} => p \notin rwait
  BY DEF RouterSleepers
<1>3. ASSUME UNCHANGED <<current, closed>>, rwait' \subseteq rwait, p \notin rwait',
             rwait' # {} => UNCHANGED <<drainable, adm>>
      PROVE  RouterSleepers'
  <2>1. CASE rwait' = {}
    BY <2>1 DEF RouterSleepers
  <2>2. CASE rwait' # {}
    <3>1. \A q \in Clients \cap rwait' : q \in rwait /\ op'[q] = op[q]
      BY <1>1, <1>3 DEF OthersStand
    <3> QED
      BY <1>3, <2>2, <3>1, RouterSleepsOn
  <2> QED
    BY <2>1, <2>2
<1>4. CASE Call(p) \/ ReceiveAgain(p) \/ Broadcast(p) \/ Receive(p) \/ Retired(p) \/ Release(p)
  <2>1. op[p].pc \notin {"parked", "paused"} /\ UNCHANGED <<routerVars, adm>>
    BY <1>4 DEF Call, ReceiveAgain, Broadcast, Receive, Retired, Release, Trying
  <2> QED
    BY <1>2, <1>3, <2>1 DEF routerVars
<1>5. CASE GiveUp(p)
  BY <1>3, <1>5 DEF GiveUp
<1>6. CASE ReceiverFinish(p)
  <2>1. op[p].pc = "finish" /\ UNCHANGED <<current, closed>> /\ FinishQueueShutdown
    BY <1>6 DEF ReceiverFinish
  <2> QED
    BY <1>2, <1>3, <2>1 DEF FinishQueueShutdown
<1>7. CASE Acquire(p)
  <2>1. p \notin rwait /\ UNCHANGED <<current, closed, drainable, adm>>
    BY <1>2, <1>7 DEF Acquire
  <2>2. CASE rwait' = rwait
    BY <1>3, <2>1, <2>2
  <2>3. CASE rwait' # rwait
    <3>1. /\ ~closed \/ (DirOf(p) = "out" /\ closed /\ drainable)
          /\ ~adm[current][DirOf(p)].open
          /\ Goto(p, "parked") \/ Goto(p, "paused")
          /\ rwait' = rwait \cup {p}
      BY <1>7, <2>3 DEF Acquire
    <3>2. op'[p].pc \in {"parked", "paused"}
      BY <3>1, Goes
    <3> SUFFICES ASSUME NEW q \in Clients, q \in rwait'
                 PROVE  /\ op'[q].pc \in {"parked", "paused"}
                        /\ ~closed \/ (DirOf(q) = "out" /\ drainable)
                        /\ ~adm[current][DirOf(q)].open
      BY <2>1 DEF RouterSleepers, DirOf
    <3>3. CASE q = p
      BY <3>1, <3>2, <3>3
    <3>4. CASE q # p
      BY <1>1, <3>1, <3>4 DEF RouterSleepers, OthersStand
    <3> QED
      BY <3>3, <3>4
  <2> QED
    BY <2>2, <2>3
<1> QED
  BY <1>4, <1>5, <1>6, <1>7 DEF Client

\* A replacement opens an admission of the current generation only with a signal.
LEMMA ReplaceAdmits ==
  ASSUME ControlTyped, ReplaceBegin \/ Replace
  PROVE  \/ rwait' = {}
         \/ /\ UNCHANGED <<current, rwait>>
            /\ \A d \in Dirs : adm'[current][d].open => adm[current][d].open
<1>1. current \in Gens /\ repl.pred \in Gens /\ "in" \in Dirs /\ "out" \in Dirs
  BY DEF ControlTyped, Dirs
<1>2. CASE ReplaceBegin
  BY <1>1, <1>2, StopCloses DEF ReplaceBegin, routerVars
<1>3. CASE (\E d \in Dirs : ReplaceDrained(d)) \/ ReplaceDrain \/ ReplaceRefused \/ ReplacePublish
  BY <1>3 DEF ReplaceDrained, ReplaceDrain, ReplaceRefused, ReplacePublish, routerVars
<1>4. CASE ReplaceStop
  BY <1>1, <1>4, StopCloses DEF ReplaceStop, routerVars
<1>5. CASE ReplaceResume
  <2>1. UNCHANGED current
    BY <1>5 DEF ReplaceResume
  <2>2. CASE \E d \in Dirs : Reopened(d)
    BY <1>5, <2>2 DEF ReplaceResume
  <2>3. CASE ~\E d \in Dirs : Reopened(d)
    <3>1. PICK epochs : /\ epochs = [d \in Dirs |-> IF ~Reopened(d) THEN -1
                                       ELSE IF d = "in" THEN repl.inEpoch ELSE repl.outEpoch]
                        /\ Resume(repl.pred, epochs)
      BY <1>5 DEF ReplaceResume
    <3>2. \A d \in Dirs : epochs[d] = -1 /\ adm[repl.pred][d].epoch \in Nat
      BY <1>1, <2>3, <3>1 DEF ControlTyped
    <3>3. \A d \in Dirs : ~(~adm[repl.pred][d].open /\ epochs[d] = adm[repl.pred][d].epoch)
      BY <3>2
    <3>4. PICK a : a = [d \in Dirs |->
                          IF ~adm[repl.pred][d].open /\ epochs[d] = adm[repl.pred][d].epoch
                          THEN [open |-> TRUE, epoch |-> adm[repl.pred][d].epoch + 1]
                          ELSE adm[repl.pred][d]]
      OBVIOUS
    <3>5. \A d \in Dirs : a[d] = adm[repl.pred][d]
      BY <3>3, <3>4
    <3>6. adm' = [adm EXCEPT ![repl.pred] = a]
      BY <3>1, <3>4 DEF Resume
    <3>7. \A g \in Gens : adm'[g] = IF g = repl.pred THEN a ELSE adm[g]
      BY <1>1, <3>6 DEF ControlTyped
    <3>8. \A d \in Dirs : adm'[current][d] = adm[current][d]
      BY <1>1, <3>5, <3>7
    <3> QED
      BY <1>5, <2>1, <2>3, <3>8 DEF ReplaceResume
  <2> QED
    BY <2>2, <2>3
<1> QED
  BY <1>2, <1>3, <1>4, <1>5 DEF Replace

LEMMA RouterSleepersStep ==
  ASSUME ControlTyped, ClientsTyped, RouterSleepers, [RouterNext]_vars
  PROVE  RouterSleepers'
<1>1. CASE rwait' = {}
  BY <1>1 DEF RouterSleepers
<1>2. ASSUME UNCHANGED <<current, closed, drainable, rwait, op>>,
             \A d \in Dirs : adm'[current][d].open => adm[current][d].open
      PROVE  RouterSleepers'
  BY <1>2, RouterSleepsOn
<1>3. CASE \E g \in Gens : Element(g)
  BY <1>2, <1>3 DEF Element, ElemScan, ElemSend, ElemVars, routerVars
<1>4. CASE ElemStop \/ CancelGraph
  BY <1>2, <1>4 DEF ElemStop, ElemVars, CancelGraph, routerVars
<1>5. CASE ReplaceBegin \/ Replace
  <2>1. UNCHANGED <<closed, drainable, op>>
    BY <1>5, ReplaceMoves
  <2> QED
    BY <1>1, <1>2, <1>5, <2>1, ReplaceAdmits
<1>6. CASE Shutdown
  <2>1. current \in Gens /\ "in" \in Dirs /\ "out" \in Dirs
    BY DEF ControlTyped, Dirs
  <2>2. CASE BeginQueueShutdown
    BY <1>1, <2>2 DEF BeginQueueShutdown
  <2>3. CASE ShutdownIngress
    BY <1>2, <2>1, <2>3, StopCloses DEF ShutdownIngress, ShutVars
  <2>4. CASE CloseQueues
    BY <1>2, <2>4 DEF CloseQueues, ShutVars
  <2>5. CASE ShutdownFinish
    BY <1>1, <1>2, <2>5 DEF ShutdownFinish, ShutVars, FinishQueueShutdown
  <2> QED
    BY <1>6, <2>2, <2>3, <2>4, <2>5 DEF Shutdown
<1>7. CASE UNCHANGED vars
  BY <1>2, <1>7 DEF vars, routerVars
<1> QED
  BY <1>3, <1>4, <1>5, <1>6, <1>7, RouterSleepersByClient DEF RouterNext

LEMMA SleepersInit ==
  ASSUME RouterInit
  PROVE  QueueSleepers /\ ElementSleepers /\ RouterSleepers
<1>1. QueueSleepers /\ RouterSleepers
  BY ElementsAreNoClients DEF RouterInit, QueueSleepers, RouterSleepers
<1>2. ASSUME NEW g \in Gens PROVE Placed(g) /\ Watches(g)
  <2>1. PICK t : t = [Scanning EXCEPT !.pc = "wait"]
    OBVIOUS
  <2>2. elem[g] = t
    BY <2>1 DEF RouterInit
  <2>3. elem[g].pc = "wait" /\ elem[g].at = 0 /\ elem[g].sealed
    BY <2>1, <2>2 DEF Scanning
  <2>4. NLanes \in Nat \ {0} /\ 1 \in Lanes
    BY RouterAssumption DEF Lanes
  <2>5. qclosed = {} /\ \A l \in Lanes : inq[g][l] = << >>
    BY DEF RouterInit
  <2> QED
    BY <2>3, <2>4, <2>5 DEF Placed, Watches
<1> QED
  BY <1>1, <1>2 DEF ElementSleepers

\* Whoever sleeps at a queue or at the router would sleep again if it looked: a
\* signal is sent after every change that could concern a sleeper, also to those
\* who took their channel in an earlier lane of a scan, for any number of
\* clients, lanes and generations.
THEOREM RouterLosesNoWakeup == RouterSpec => []SleepersWouldSleepAgain
<1> DEFINE Sleepers == QueueSleepers /\ ElementSleepers /\ RouterSleepers
<1>1. RouterInit => Sleepers
  BY SleepersInit
<1>2. BoundarySound /\ Sleepers /\ [RouterNext]_vars => Sleepers'
  BY QueueSleepersStep, RouterSleepersStep DEF BoundarySound, EnteredSound
<1>3. Sleepers => SleepersWouldSleepAgain
  BY DEF QueueSleepers, ElementSleepers, RouterSleepers, NothingFor, Watches, SleepersWouldSleepAgain
<1> QED
  BY <1>1, <1>2, <1>3, BoundaryAlways, PTL DEF RouterSpec
=============================================================================

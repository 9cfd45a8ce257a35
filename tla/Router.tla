------------------------------- MODULE Router -------------------------------
(***************************************************************************)
(* The boundary of a mounted graph: the bounded queues of                  *)
(* graph/runtime/channel.go, the generation indirection over them of       *)
(* boundary_router.go, and the part of Mounted.shutdownResources (run.go)  *)
(* that closes both.                                                       *)
(*                                                                         *)
(* A client broadcasts into the lanes of an input boundary; an element of  *)
(* the graph takes from any lane and sends to the queue of the output      *)
(* boundary; a client receives there.  A step is one critical section of a *)
(* queue's, an admission's or the router's mutex.  The signal that follows *)
(* a section is taken with it: a waiter takes its channel under the lock   *)
(* it checks the state under, so a later signal only adds wake-ups.  A     *)
(* condition is the set of those whose channel is not closed yet.          *)
(***************************************************************************)
EXTENDS Integers, Sequences, FiniteSets, SequencesExt

CONSTANTS
  Senders,      \* clients of the input boundary, one operation at a time
  Receivers,    \* clients of the output boundary
  Impatient,    \* clients whose context may end
  NLanes,       \* lanes of the input boundary
  LossyLanes,   \* those with delivery "lossy"
  Depth,        \* of every queue
  MaxGen,       \* bound on generations ever published
  MaxItems,     \* bound on broadcasts
  MaxReplace    \* bound on calls of replace

ASSUME RouterAssumption ==
  /\ NLanes \in Nat \ {0} /\ Depth \in Nat \ {0} /\ MaxGen \in Nat \ {0}
  /\ MaxItems \in Nat /\ MaxReplace \in Nat
  /\ LossyLanes \subseteq 1..NLanes
  /\ Senders \cap Receivers = {} /\ Impatient \subseteq Senders \cup Receivers
  /\ (Senders \cup Receivers) \cap ({"elem"} \X (1..MaxGen)) = {}  \* no client is an element

Gens == 1..MaxGen

Lanes == 1..NLanes

Items == 1..MaxItems

Clients == Senders \cup Receivers

Dirs == {"in", "out"}

VARIABLES
  current, closed, drainable,  \* boundaryRouter: current, closed, drainableEgress and queueShutdown
  adm,        \* [Gens -> [Dirs -> [open, epoch]]]: routeAdmission
  inq,        \* [Gens -> [Lanes -> Seq(Items)]]: queues of the input boundary
  outq,       \* [Gens -> sequence of <<item, lane>>]: queue of the output boundary
  qclosed,    \* closed queues, as <<generation, lane>>, lane 0 being the output
  qwait,      \* waiters of the graph's condition
  rwait,      \* waiters of the router's condition
  op,         \* [Clients -> operation in progress]
  elem,       \* [Gens -> the element between the boundaries]
  cursor,     \* [Gens -> inputPort.cursor of the element]
  repl,       \* the replacement in progress
  shut,       \* where shutdownResources stands
  cancelled,  \* the context of the graph's elements
  sent, outcome, entered, taken   \* broadcasts begun, their results, and histories (taken: while the graph runs)

routerVars == <<current, closed, drainable, rwait>>
queueVars == <<inq, outq, qclosed, qwait>>
ghostVars == <<sent, outcome, entered, taken>>
vars == <<routerVars, adm, queueVars, op, elem, cursor, repl, shut, cancelled, ghostVars>>

Idle == [pc |-> "idle", item |-> 0, gen |-> 1, epoch |-> 0, res |-> "none"]

Calling == [Idle EXCEPT !.pc = "acquire"]

ElemAt(g) == <<"elem", g>>

NoReplace(n) == [pc |-> "idle", pred |-> 1, inEpoch |-> -1, outEpoch |-> -1, calls |-> n]

Scanning == [pc |-> "scan", at |-> 0, sealed |-> TRUE, hold |-> << >>]

Stopped == [Scanning EXCEPT !.pc = "stopped"]

\* What an element may still send when it is disposed.
Terminal == << <<0, 1>> >>

Entries == (Items \cup {0}) \X Lanes

RouterTypeOK ==
  /\ current \in Gens /\ closed \in BOOLEAN /\ drainable \in BOOLEAN
  /\ adm \in [Gens -> [Dirs -> [open : BOOLEAN, epoch : 0..MaxReplace]]]
  /\ \A g \in Gens : /\ \A l \in Lanes : inq[g][l] \in Seq(Items) /\ Len(inq[g][l]) <= Depth
                     /\ outq[g] \in Seq(Entries) /\ Len(outq[g]) <= Depth
  /\ qclosed \subseteq Gens \X (Lanes \cup {0})
  /\ op \in [Clients -> [pc : {"idle", "acquire", "parked", "paused", "try", "wait", "release", "finish"},
                         item : 0..MaxItems, gen : Gens, epoch : 0..MaxReplace,
                         res : {"none", "delivered", "closed", "cancelled", "retry"}]]
  /\ cursor \in [Gens -> 0..(NLanes - 1)]
  /\ sent \in 0..MaxItems

RouterInit ==
  /\ current = 1 /\ closed = FALSE /\ drainable = FALSE /\ rwait = {}
  /\ adm = [g \in Gens |-> [d \in Dirs |-> [open |-> TRUE, epoch |-> 0]]]
  /\ inq = [g \in Gens |-> [l \in Lanes |-> << >>]]
  /\ outq = [g \in Gens |-> << >>]
  /\ qclosed = {} /\ qwait = {ElemAt(g) : g \in Gens}
  /\ op = [p \in Clients |-> IF p \in Senders THEN Idle ELSE Calling]
  /\ elem = [g \in Gens |-> [Scanning EXCEPT !.pc = "wait"]]
  /\ cursor = [g \in Gens |-> 0]
  /\ repl = NoReplace(0)
  /\ shut = "running" /\ cancelled = FALSE
  /\ sent = 0 /\ outcome = [i \in Items |-> "none"]
  /\ entered = [l \in Lanes |-> << >>]
  /\ taken = << >>

-----------------------------------------------------------------------------
DirOf(p) == IF p \in Senders THEN "in" ELSE "out"

\* routeLease: a client between acquire and release.
HoldsLease(p) == op[p].pc \in {"try", "wait", "release"}

\* routeAdmission.active.
Active(g, d) == {p \in Clients : HoldsLease(p) /\ DirOf(p) = d /\ op[p].gen = g}

\* beginCommit: the lease is of the epoch still admitted.  Also retired(): the
\* epoch's channel is closed by stop, which also clears open.
Admitted(p) == LET a == adm[op[p].gen][DirOf(p)] IN a.open /\ a.epoch = op[p].epoch

\* routeAdmission.stop.
Stop(g, d) == adm' = [adm EXCEPT ![g][d].open = FALSE]

\* routeAdmission.resume of each epoch that was retired: a fresh one.
Resume(g, epochs) ==
  adm' = [adm EXCEPT ![g] = [d \in Dirs |->
            IF ~adm[g][d].open /\ epochs[d] = adm[g][d].epoch
            THEN [open |-> TRUE, epoch |-> adm[g][d].epoch + 1] ELSE adm[g][d]]]

Goto(p, pc) == op' = [op EXCEPT ![p].pc = pc]

Finish(p, res) == op' = [op EXCEPT ![p].pc = "release", ![p].res = res]

\* A queue operation of a client that found something to commit, to be decided
\* by its lease: errBoundaryGenerationRetired when it is no longer admitted.
Commit(p, res, effect) ==
  IF Admitted(p) THEN effect /\ Finish(p, res)
                 ELSE Finish(p, "retry") /\ UNCHANGED <<queueVars, entered, taken>>

Untouched == UNCHANGED <<queueVars, entered, taken>>

-----------------------------------------------------------------------------
\* A client calls stableOutputPort.Broadcast; a call after the close, which
\* acquire refuses at once, is left out.
Call(p) ==
  /\ p \in Senders /\ op[p].pc = "idle" /\ sent < MaxItems /\ ~closed
  /\ sent' = sent + 1
  /\ op' = [op EXCEPT ![p] = [Calling EXCEPT !.item = sent + 1]]
  /\ UNCHANGED <<routerVars, adm, queueVars, elem, cursor, repl, shut, cancelled,
                 outcome, entered, taken>>

\* A client of the output boundary that was told it is closed may use the stable
\* port again; a call that acquire refuses at once is left out.
ReceiveAgain(p) ==
  /\ p \in Receivers /\ op[p].pc = "idle" /\ closed /\ drainable
  /\ op' = [op EXCEPT ![p] = Calling]
  /\ UNCHANGED <<routerVars, adm, queueVars, elem, cursor, repl, shut, cancelled, ghostVars>>

\* The operation returns.  A client of the output boundary calls Receive again
\* until it is told that the boundary is closed.
Return(p, res) ==
  IF p \in Senders
  THEN op' = [op EXCEPT ![p] = Idle] /\ outcome' = [outcome EXCEPT ![op[p].item] = res]
  ELSE op' = [op EXCEPT ![p] = IF res = "closed" THEN Idle ELSE Calling] /\ UNCHANGED outcome

\* boundaryRouter.acquire, one turn of its loop: the first, or one after a change.
\* Who parked before the close also selects on closedCh, and then select picks:
\* ErrChannelClosed, whatever is buffered, or another turn.  Who pauses in the
\* final drain has no such channel.
Acquire(p) ==
  /\ op[p].pc = "acquire" \/ (op[p].pc \in {"parked", "paused"} /\ p \notin rwait)
  /\ LET final == DirOf(p) = "out" /\ closed /\ drainable
         a == adm[current][DirOf(p)]
     IN \/ /\ closed
           /\ ~final \/ op[p].pc = "parked"
           /\ Return(p, "closed") /\ UNCHANGED rwait
        \/ /\ ~closed \/ final
           /\ a.open
           /\ op' = [op EXCEPT ![p].pc = "try", ![p].gen = current, ![p].epoch = a.epoch]
           /\ UNCHANGED <<outcome, rwait>>
        \/ /\ ~closed \/ final
           /\ ~a.open
           /\ Goto(p, IF final THEN "paused" ELSE "parked") /\ rwait' = rwait \cup {p}
           /\ UNCHANGED outcome
  /\ UNCHANGED <<current, closed, drainable, adm, queueVars, elem, cursor, repl, shut,
                 cancelled, sent, entered, taken>>

Full(q) == Len(q) = Depth

\* Mutant of Signal: the channel is replaced and never closed.
SignalNobody(g) == qwait' = qwait

\* condition.signal: every mount has a condition of its own, so only those who
\* wait on a queue of generation g are woken.
Signal(g) == qwait' = {w \in qwait : w \in Clients => op[w].gen # g} \ {ElemAt(g)}

LanesClosed(g) == \E l \in Lanes : <<g, l>> \in qclosed

\* Mutant of LanesReady: one lane with room is enough to begin writing.
SomeLaneReady(g) == \E l \in Lanes : ~Full(inq[g][l])

LanesReady(g) == \A l \in Lanes \ LossyLanes : ~Full(inq[g][l])

\* Every lane with room is written at once; a full one can only be lossy.
WriteLanes(item, g) ==
  LET put(q, l) == IF Full(inq[g][l]) THEN q ELSE Append(q, item)
  IN /\ inq' = [inq EXCEPT ![g] = [l \in Lanes |-> put(@[l], l)]]
     /\ entered' = [l \in Lanes |-> put(entered[l], l)]
     /\ Signal(g)
     /\ UNCHANGED <<outq, qclosed, taken>>

\* One turn of a queue operation's loop: the first, or one after a change.
Trying(p) == op[p].pc = "try" \/ (op[p].pc = "wait" /\ p \notin qwait /\ Admitted(p))

Sleep(p) == /\ Goto(p, "wait")
            /\ qwait' = qwait \cup {p}
            /\ UNCHANGED <<inq, outq, qclosed, entered, taken>>

\* broadcastWithLease with every lane locked: a closed lane refuses, a full
\* lossless one is waited for, and otherwise all lanes are written.
Broadcast(p) ==
  /\ p \in Senders /\ Trying(p)
  /\ LET g == op[p].gen IN
     \/ LanesClosed(g) /\ Commit(p, "closed", Untouched)
     \/ ~LanesClosed(g) /\ LanesReady(g) /\ Commit(p, "delivered", WriteLanes(op[p].item, g))
     \/ ~LanesClosed(g) /\ ~LanesReady(g) /\ Sleep(p)
  /\ UNCHANGED <<routerVars, adm, elem, cursor, repl, shut, cancelled, sent, outcome>>

\* receiveWithLease: what is buffered first, then the end of the queue.
Receive(p) ==
  /\ p \in Receivers /\ Trying(p)
  /\ LET g == op[p].gen IN
     \/ /\ outq[g] # << >>
        /\ Commit(p, "delivered",
             /\ taken' = IF cancelled THEN taken ELSE Append(taken, Head(outq[g]))
             /\ outq' = [outq EXCEPT ![g] = Tail(@)]
             /\ Signal(g) /\ UNCHANGED <<inq, qclosed, entered>>)
     \/ /\ outq[g] = << >> /\ <<g, 0>> \in qclosed
        /\ Commit(p, "closed", Untouched)
     \/ outq[g] = << >> /\ <<g, 0>> \notin qclosed /\ Sleep(p)
  /\ UNCHANGED <<routerVars, adm, elem, cursor, repl, shut, cancelled, sent, outcome>>

\* The caller's context ends while its operation waits for either condition.
GiveUp(p) ==
  /\ p \in Impatient
  /\ \/ op[p].pc \in {"parked", "paused"} /\ Return(p, "cancelled")
     \/ op[p].pc = "wait" /\ Finish(p, "cancelled") /\ UNCHANGED outcome
  /\ rwait' = rwait \ {p} /\ qwait' = qwait \ {p}
  /\ UNCHANGED <<current, closed, drainable, adm, inq, outq, qclosed, elem, cursor, repl, shut,
                 cancelled, sent, entered, taken>>

\* waitForQueueChange: retirement wakes a waiter, and comes before a change.
Retired(p) ==
  /\ op[p].pc = "wait" /\ ~Admitted(p)
  /\ Finish(p, "retry")
  /\ qwait' = qwait \ {p}
  /\ UNCHANGED <<routerVars, adm, inq, outq, qclosed, elem, cursor, repl, shut, cancelled, ghostVars>>

Again(p) == op' = [op EXCEPT ![p] = [Calling EXCEPT !.item = op[p].item]]

\* Mutant of Release: an operation whose generation retired is always retried.
ReleaseRetries(p) ==
  /\ op[p].pc = "release"
  /\ IF ~Admitted(p) THEN Again(p) /\ UNCHANGED outcome
                     ELSE Return(p, op[p].res)
  /\ UNCHANGED <<routerVars, adm, queueVars, elem, cursor, repl, shut, cancelled, sent, entered, taken>>

\* release, after the observer: only what was retired uncommitted is retried,
\* and a receiver that ends during shutdown looks whether it was the last.
Release(p) ==
  /\ op[p].pc = "release"
  /\ CASE op[p].res = "retry" -> Again(p) /\ UNCHANGED outcome
       [] op[p].res # "retry" /\ p \in Receivers /\ drainable -> Goto(p, "finish") /\ UNCHANGED outcome
       [] OTHER -> Return(p, op[p].res)
  /\ UNCHANGED <<routerVars, adm, queueVars, elem, cursor, repl, shut, cancelled, sent, entered, taken>>

-----------------------------------------------------------------------------
ElemVars == UNCHANGED <<routerVars, adm, op, repl, shut, cancelled, sent, outcome>>

\* tryReceive of a lane with something in it; the next scan starts behind it.
TakeLane(g, lane) ==
  /\ inq[g][lane] # << >>
  /\ inq' = [inq EXCEPT ![g][lane] = Tail(@)]
  /\ cursor' = [cursor EXCEPT ![g] = lane % NLanes]
  /\ elem' = [elem EXCEPT ![g] = [Scanning EXCEPT !.pc = "send", !.hold = << <<Head(inq[g][lane]), lane>> >>]]
  /\ Signal(g)

\* receiveAny: the channel is taken, then the lanes are tried one lock at a
\* time from the cursor on; the port has ended when all were closed and empty.
ElemScan(g) ==
  /\ elem[g].pc = "scan" \/ (elem[g].pc = "wait" /\ ElemAt(g) \notin qwait)
  /\ LET lane == ((cursor[g] + elem[g].at) % NLanes) + 1
         sealed == elem[g].sealed /\ <<g, lane>> \in qclosed
     IN \/ TakeLane(g, lane)
        \/ /\ inq[g][lane] = << >>
           /\ elem' = [elem EXCEPT ![g] =
                IF elem[g].at + 1 < NLanes
                THEN [pc |-> "scan", at |-> elem[g].at + 1, sealed |-> sealed, hold |-> << >>]
                ELSE [Scanning EXCEPT !.pc = IF sealed THEN "stopped" ELSE "wait"]]
           /\ qwait' = IF elem[g].at = 0 THEN qwait \cup {ElemAt(g)} ELSE qwait
           /\ UNCHANGED <<inq, cursor>>
  /\ UNCHANGED <<outq, qclosed, entered, taken>>
  /\ ElemVars

\* send to the output boundary's queue, which has no lease: the element is of
\* the generation.
ElemSend(g) ==
  /\ elem[g].pc = "send" \/ (elem[g].pc = "blocked" /\ ElemAt(g) \notin qwait)
  /\ \/ /\ <<g, 0>> \in qclosed
        /\ elem' = [elem EXCEPT ![g] = Stopped]
        /\ UNCHANGED <<outq, qwait>>
     \/ /\ <<g, 0>> \notin qclosed /\ ~Full(outq[g])
        /\ outq' = [outq EXCEPT ![g] = @ \o elem[g].hold]
        /\ elem' = [elem EXCEPT ![g] = IF @.hold = Terminal THEN Stopped ELSE Scanning]
        /\ Signal(g)
     \/ /\ <<g, 0>> \notin qclosed /\ Full(outq[g])
        /\ elem' = [elem EXCEPT ![g].pc = "blocked"]
        /\ qwait' = qwait \cup {ElemAt(g)}
        /\ UNCHANGED outq
  /\ UNCHANGED <<inq, qclosed, cursor, entered, taken>>
  /\ ElemVars

\* Cancellation reaches the elements, which drop what they were carrying; one
\* that is disposed may leave a terminal event for the output.  An element that
\* outlives the timeout ends when its queues are closed.
ElemStop ==
  /\ cancelled /\ shut \in {"running", "stopIn"}
  /\ \E g \in Gens : elem[g].pc # "stopped" /\ elem[g].hold # Terminal
  /\ \E last \in {Stopped, [Scanning EXCEPT !.pc = "send", !.hold = Terminal]} :
       /\ closed \/ last = Stopped
       /\ elem' = [g \in Gens |-> IF g = current /\ elem[g].pc # "stopped" THEN last ELSE Stopped]
  /\ qwait' = qwait \ {ElemAt(g) : g \in Gens}
  /\ UNCHANGED <<inq, outq, qclosed, cursor, entered, taken>>
  /\ ElemVars

-----------------------------------------------------------------------------
ReplVars == UNCHANGED <<queueVars, op, elem, cursor, shut, cancelled, ghostVars>>

\* replace up to its first wait: the contracts agree, the token is taken, the
\* router is open, and retire stops the predecessor's ingress.
ReplaceBegin ==
  /\ repl.pc = "idle" /\ repl.calls < MaxReplace
  /\ ~closed /\ current < MaxGen
  /\ Stop(current, "in")
  /\ repl' = [NoReplace(repl.calls + 1) EXCEPT !.pc = "waitIn", !.pred = current,
                                               !.inEpoch = adm[current]["in"].epoch]
  /\ UNCHANGED routerVars /\ ReplVars

\* The rest of retire: its leases have drained.
ReplaceDrained(d) ==
  /\ repl.pc = IF d = "in" THEN "waitIn" ELSE "waitOut"
  /\ Active(repl.pred, d) = {}
  /\ repl' = [repl EXCEPT !.pc = IF d = "in" THEN "drain" ELSE "publish"]
  /\ UNCHANGED <<routerVars, adm>> /\ ReplVars

\* Mutant of Quiescent: the callback looks at the queue it feeds only.
QuiescentInput(g) == \A l \in Lanes : inq[g][l] = << >>

\* What the drain callback must establish before it returns nil.
Quiescent(g) == /\ \A l \in Lanes : inq[g][l] = << >>
                /\ elem[g].hold = << >> /\ outq[g] = << >>

ReplaceDrain ==
  /\ repl.pc = "drain"
  /\ Quiescent(repl.pred)
  /\ repl' = [repl EXCEPT !.pc = "stopOut"]
  /\ UNCHANGED <<routerVars, adm>> /\ ReplVars

\* retire of the predecessor's egress begins.
ReplaceStop ==
  /\ repl.pc = "stopOut"
  /\ Stop(repl.pred, "out")
  /\ repl' = [repl EXCEPT !.pc = "waitOut", !.outEpoch = adm[repl.pred]["out"].epoch]
  /\ UNCHANGED routerVars /\ ReplVars

\* The caller's context ends one of the waits, or the callback refuses.
ReplaceRefused ==
  /\ repl.pc \in {"waitIn", "drain", "waitOut"}
  /\ repl' = [repl EXCEPT !.pc = "resume"]
  /\ UNCHANGED <<routerVars, adm>> /\ ReplVars

\* The cutover: nothing is published once the router is closed.
ReplacePublish ==
  /\ repl.pc = "publish"
  /\ IF closed
     THEN repl' = [repl EXCEPT !.pc = "resume"] /\ UNCHANGED <<current, rwait>>
     ELSE repl' = NoReplace(repl.calls) /\ current' = repl.pred + 1 /\ rwait' = {}
  /\ UNCHANGED <<closed, drainable, adm>> /\ ReplVars

\* Mutant of Reopened: a closed router reopens nothing.
ReopenedNever(d) == ~closed

\* What resume may reopen: only what terminal output needs, once closed.
Reopened(d) == ~closed \/ (d = "out" /\ drainable)

ReplaceResume ==
  /\ repl.pc = "resume"
  /\ Resume(repl.pred, [d \in Dirs |-> IF ~Reopened(d) THEN -1
                                       ELSE IF d = "in" THEN repl.inEpoch ELSE repl.outEpoch])
  /\ rwait' = IF \E d \in Dirs : Reopened(d) THEN {} ELSE rwait
  /\ repl' = NoReplace(repl.calls)
  /\ UNCHANGED <<current, closed, drainable>> /\ ReplVars

-----------------------------------------------------------------------------
ShutVars == UNCHANGED <<current, op, elem, cursor, repl, ghostVars>>

\* Run cancels the elements before it shuts the resources down.
CancelGraph ==
  /\ ~cancelled /\ cancelled' = TRUE
  /\ taken' = << >>
  /\ UNCHANGED <<routerVars, adm, queueVars, op, elem, cursor, repl, shut, sent, outcome, entered>>

\* beginQueueShutdown.
BeginQueueShutdown ==
  /\ shut = "running" /\ cancelled
  /\ closed' = TRUE /\ drainable' = TRUE /\ rwait' = {}
  /\ shut' = "stopIn"
  /\ UNCHANGED <<adm, queueVars, cancelled>> /\ ShutVars

\* Its end: nothing more is admitted.  shutdownResources then waits for the
\* scopes and for the last ingress leases, each within its timeout.
ShutdownIngress ==
  /\ shut = "stopIn"
  /\ Stop(current, "in")
  /\ shut' = "queues"
  /\ UNCHANGED <<closed, drainable, rwait, queueVars, cancelled>> /\ ShutVars

GraphQueues == {current} \X (Lanes \cup {0})

\* The queues are closed in the order of their names: the lanes, then the output.
NextToClose == IF <<current, 1>> \in qclosed THEN GraphQueues \ qclosed ELSE {current} \X Lanes

\* queue.close; no operation tells one closed lane from several.
CloseQueues ==
  /\ shut = "queues" /\ ~(GraphQueues \subseteq qclosed)
  /\ qclosed' = qclosed \cup NextToClose /\ Signal(current)
  /\ UNCHANGED <<closed, drainable, rwait, adm, inq, outq, shut, cancelled>> /\ ShutVars

\* The queues of the output boundary are closed and empty.
Ended == <<current, 0>> \in qclosed /\ outq[current] = << >>

\* finishQueueShutdown: egress closes when its queues are closed and empty.  A
\* closed router admits nobody to what is not drainable, so that the admission
\* stops after the section is not told apart.
FinishQueueShutdown ==
  IF drainable /\ Ended THEN drainable' = FALSE /\ rwait' = {} /\ Stop(current, "out")
                        ELSE UNCHANGED <<drainable, rwait, adm>>

\* The end of shutdownResources; the wait for the last leases is bounded.
ShutdownFinish ==
  /\ shut = "queues" /\ GraphQueues \subseteq qclosed
  /\ FinishQueueShutdown
  /\ shut' = "done"
  /\ UNCHANGED <<closed, queueVars, cancelled>> /\ ShutVars

\* The same by a receiver that ends during shutdown.
ReceiverFinish(p) ==
  /\ op[p].pc = "finish"
  /\ FinishQueueShutdown
  /\ Return(p, op[p].res)
  /\ UNCHANGED <<current, closed, queueVars, elem, cursor, repl, shut, cancelled, sent, entered, taken>>

-----------------------------------------------------------------------------
Client(p) == ReceiveAgain(p) \/ Acquire(p) \/ Broadcast(p) \/ Receive(p) \/ Retired(p)
             \/ Release(p) \/ ReceiverFinish(p)

Element(g) == ElemScan(g) \/ ElemSend(g)

Replace == \/ \E d \in Dirs : ReplaceDrained(d)
           \/ ReplaceDrain \/ ReplaceStop \/ ReplaceRefused \/ ReplacePublish \/ ReplaceResume

Shutdown == \/ BeginQueueShutdown \/ ShutdownIngress
            \/ CloseQueues
            \/ ShutdownFinish

RouterNext == \/ \E p \in Clients : Call(p) \/ Client(p) \/ GiveUp(p)
              \/ \E g \in Gens : Element(g)
              \/ ElemStop
              \/ ReplaceBegin \/ Replace
              \/ CancelGraph \/ Shutdown

RouterSpec == RouterInit /\ [][RouterNext]_vars

\* The contexts of clients may last for ever, so giving up is not owed; clients
\* of the output boundary keep reading, also after one ErrChannelClosed, which
\* nothing in the code obliges them to; replace has a bounded context.
FairRouterSpec ==
  /\ RouterSpec
  /\ \A p \in Clients : WF_vars(Client(p))
  /\ WF_vars(\E g \in Gens : Element(g))
  /\ WF_vars(Replace) /\ WF_vars(Shutdown)

-----------------------------------------------------------------------------
\* The items of s that came through lane l.
OnLane(s, l) == FlattenSeq([i \in DOMAIN s |-> IF s[i][2] = l THEN <<s[i][1]>> ELSE << >>])

\* What lane l has accepted and generation g has not handed out yet, oldest first.
Pipe(g, l) == OnLane(outq[g] \o elem[g].hold, l) \o inq[g][l]

TakenFrom(l) == OnLane(taken, l)

\* A broadcast interrupted by retirement and repeated in the next generation
\* enters every lossless lane once, or none: a result of delivered stands for
\* exactly one entry and any other result for no entry at all, in every
\* generation together ("interrupted before it committed any queue mutation, so
\* (and only so) the wrapper may retry").
DeliveredOnce ==
  \A l \in Lanes \ LossyLanes :
    /\ \A m \in Lanes \ LossyLanes : entered[m] = entered[l]
    /\ \A i \in Items :
         LET n == Cardinality({k \in DOMAIN entered[l] : entered[l][k] = i})
         IN CASE outcome[i] = "none" -> n <= 1
              [] outcome[i] = "delivered" -> n = 1
              [] OTHER -> n = 0

\* While the graph runs nothing a lane accepted is lost, repeated or overtaken
\* on its way to the receivers, also across a change of generation with items in
\* the lanes, in the element's hands and in the output queue.
ConservedAcrossCutover ==
  ~cancelled =>
    \A l \in Lanes :
      entered[l] = TakenFrom(l) \o FlattenSeq([g \in Gens |-> Pipe(g, l)])

\* No wake-up is lost: whoever still sleeps on a channel that nobody has closed
\* would go to sleep again if it looked now, although a signal only reaches those
\* who took their channel before, and the element takes its channel before it
\* looks at the first of its lanes and sleeps after the last.
SleepersWouldSleepAgain ==
  /\ \A p \in Clients \cap qwait :
       LET g == op[p].gen
       IN IF p \in Senders THEN ~LanesClosed(g) /\ ~LanesReady(g)
                           ELSE outq[g] = << >> /\ <<g, 0>> \notin qclosed
  /\ \A p \in Clients \cap rwait :
       (~closed \/ (DirOf(p) = "out" /\ drainable)) /\ ~adm[current][DirOf(p)].open
  /\ \A g \in Gens : ElemAt(g) \in qwait =>
       /\ elem[g].pc = "wait" => /\ \A l \in Lanes : inq[g][l] = << >>
                                 /\ \E l \in Lanes : <<g, l>> \notin qclosed
       /\ elem[g].pc = "blocked" => Full(outq[g]) /\ <<g, 0>> \notin qclosed

\* Every broadcast returns although its context never ends, and so does every
\* receive once the boundary closes: no wake-up is lost, no change of generation
\* strands an operation, and shutdown releases all of them.
OperationsReturn ==
  /\ \A p \in Senders : op[p].pc # "idle" ~> op[p].pc = "idle"
  /\ \A p \in Receivers : closed ~> op[p].pc = "idle"

\* Shutdown, also one that races a replacement which has paused egress, leaves
\* the buffered terminal output readable until the last item and only then
\* closes egress ("a caller holding (or later using) a stable port can drain
\* them"): whoever the close woke with ErrChannelClosed while egress was paused
\* finds it when it receives again.
TerminalOutputDrains ==
  shut = "done" ~> (outq[current] = << >> /\ ~drainable)
=============================================================================

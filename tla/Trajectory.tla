----------------------------- MODULE Trajectory -----------------------------
(***************************************************************************)
(* The canonical log, trajectory/trajectory.go: an append-only sequence of *)
(* items, each admitted by the rules appendLocked applies to the items     *)
(* before it, a batch whole or not at all.                                 *)
(*                                                                         *)
(* An item's identity is its position.  The store's maps (tool calls,      *)
(* results, placeholders, proposals, dispositions, assistant states,       *)
(* pending repairs) index the items and are written here as what the log   *)
(* says.  Item times, causal parents, payload texts and supersession edges *)
(* between observations are left out; "queued" is not told apart from      *)
(* "prepared".  A call is identified by the invocation that made it and    *)
(* the provider's name for it; Unscoped is an omitted invocation.          *)
(***************************************************************************)
EXTENDS Naturals, SequencesExt

VARIABLE log

Unscoped == 0

\* Positions of the items of a kind.
Of(l, kind) == {i \in DOMAIN l : l[i].kind = kind}

\* The tool identities the items of a kind name.
Identities(l, kind) == {<<l[i].inv, l[i].call>> : i \in Of(l, kind)}

ObservedRevisions(l) == {l[i].rev : i \in Of(l, "observation")}

\* assistantStates: what was last reported of an assistant item.
Visibility(l, a) ==
  LET reports == {i \in Of(l, "state") : l[i].ref = a}
  IN  IF reports = {} THEN "prepared" ELSE l[Max(reports)].vis

\* pendingRepairs: the item that requires a repair of a, if none resolved it.
PendingOf(l, a) ==
  LET repairs == {i \in Of(l, "required") \cup Of(l, "resolved") : l[i].ref = a}
  IN  {i \in repairs : i = Max(repairs) /\ l[i].kind = "required"}

PendingTargets(l) == {a \in Of(l, "assistant") : PendingOf(l, a) # {}}

\* resolveToolCallLocked: the call that is meant, when that is unambiguous.
ResolveCall(l, inv, call) ==
  IF inv # Unscoped THEN {<<inv, call>>} \cap Identities(l, "call")
  ELSE LET named == {id \in Identities(l, "call") : id[2] = call}
       IN  IF \A a, b \in named : a = b THEN named ELSE {}

\* normalizeToolInvocationLocked: what is retained names the invocation.
Normalized(l, item) ==
  IF item.kind \in {"result", "placeholder"} /\ item.inv = Unscoped
  THEN [item EXCEPT !.inv = (CHOOSE id \in ResolveCall(l, item.inv, item.call) : TRUE)[1]]
  ELSE item

-----------------------------------------------------------------------------
\* What appendLocked asks of an item, by kind.

\* A proposal is neither proposed twice nor an executable call already.
AcceptsProposal(l, item) ==
  <<item.inv, item.call>> \notin Identities(l, "proposal") \cup Identities(l, "call")

\* Mutant of AcceptsDisposition: a promoted proposal may still be disposed of.
AcceptsDispositionLate(l, item) ==
  /\ <<item.inv, item.call>> \in Identities(l, "proposal")
  /\ <<item.inv, item.call>> \notin Identities(l, "disposition")

AcceptsDisposition(l, item) ==
  /\ <<item.inv, item.call>> \in Identities(l, "proposal")
  /\ <<item.inv, item.call>> \notin Identities(l, "call") \cup Identities(l, "disposition")

\* A call, also one that promotes a proposal.
AcceptsCall(l, item) ==
  <<item.inv, item.call>> \notin Identities(l, "call") \cup Identities(l, "disposition")

\* acceptToolResultLocked.
AcceptsResult(l, item) ==
  \E id \in ResolveCall(l, item.inv, item.call) : id \notin Identities(l, "result")

\* acceptToolPlaceholderLocked: one, and only while the call is outstanding.
AcceptsPlaceholder(l, item) ==
  \E id \in ResolveCall(l, item.inv, item.call) :
    id \notin Identities(l, "result") \cup Identities(l, "placeholder")

\* Mutant of AcceptsState: the latest report is believed.
AcceptsStateLatest(l, item) == item.ref \in Of(l, "assistant")

\* transitionAssistantLocked: what was heard stays heard, what was cancelled
\* stays cancelled, and a report may be repeated.
AcceptsState(l, item) ==
  /\ item.ref \in Of(l, "assistant")
  /\ Visibility(l, item.ref) \in {"prepared", item.vis}

\* transitionRepairLocked, RepairRequired.
AcceptsRequired(l, item) ==
  /\ item.ref \in Of(l, "assistant")
  /\ Visibility(l, item.ref) = "played"
  /\ item.rev > l[item.ref].rev
  /\ item.rev \in ObservedRevisions(l)
  /\ PendingOf(l, item.ref) = {}

\* transitionRepairLocked, RepairResolved: by another, slow answer, under the
\* number of the evidence that required it or a higher one that was observed.
AcceptsResolved(l, item) ==
  /\ item.ref \in Of(l, "assistant")
  /\ item.rev \in ObservedRevisions(l)
  /\ item.by \in Of(l, "assistant") \ {item.ref}
  /\ l[item.by].phase = "slow" /\ l[item.by].rev = item.rev
  /\ \E i \in PendingOf(l, item.ref) : item.rev >= l[i].rev

Accepts(l, item) ==
  CASE item.kind = "proposal" -> AcceptsProposal(l, item)
    [] item.kind = "disposition" -> AcceptsDisposition(l, item)
    [] item.kind = "call" -> AcceptsCall(l, item)
    [] item.kind = "result" -> AcceptsResult(l, item)
    [] item.kind = "placeholder" -> AcceptsPlaceholder(l, item)
    [] item.kind = "state" -> AcceptsState(l, item)
    [] item.kind = "required" -> AcceptsRequired(l, item)
    [] item.kind = "resolved" -> AcceptsResolved(l, item)
    [] OTHER -> TRUE

\* appendBatchLocked: every item on the log its predecessors extend, or none.
AcceptsBatch(l, items) ==
  \A i \in DOMAIN items : Accepts(l \o SubSeq(items, 1, i - 1), items[i])

AppendBatch(items) ==
  /\ AcceptsBatch(log, items)
  /\ log' = log \o [i \in DOMAIN items |-> Normalized(log, items[i])]

\* UnresolvedToolCalls: neither a result nor a placeholder.
UnresolvedToolCalls(l) ==
  Identities(l, "call") \ (Identities(l, "result") \cup Identities(l, "placeholder"))

-----------------------------------------------------------------------------
\* The tool history of the log, read item by item: every result and placeholder
\* follows its call, a call has at most one of each and no placeholder after its
\* result, no identity is a call twice, and a proposal is promoted or disposed
\* of, never both, whoever appended in which order and with which names.
ToolHistorySound ==
  \A i, j \in DOMAIN log :
    /\ log[i].kind \in {"result", "placeholder"} =>
         \E c \in 1..(i - 1) : /\ log[c].kind = "call"
                               /\ log[c].inv = log[i].inv /\ log[c].call = log[i].call
    /\ /\ i < j
       /\ {log[i].kind, log[j].kind} \subseteq {"proposal", "disposition", "call", "result", "placeholder"}
       /\ <<log[i].inv, log[i].call>> = <<log[j].inv, log[j].call>>
       => <<log[i].kind, log[j].kind>> \in
            {<<"proposal", "call">>, <<"proposal", "disposition">>, <<"proposal", "result">>,
             <<"proposal", "placeholder">>, <<"call", "placeholder">>, <<"call", "result">>,
             <<"placeholder", "result">>}
=============================================================================

---------------------------- MODULE Replication ----------------------------
(***************************************************************************)
(* The import half of `hn sync`: runReplicationTransaction of              *)
(* quarantine.go with the acceptance journal of shallow.go.                *)
(*                                                                         *)
(* One repository, several `hn sync` processes on it (an operator's and    *)
(* the periodic one of `hn runner watch`; the code takes no lock), any of  *)
(* which may stop between two durable steps.  A history is an actor's      *)
(* event chain, a memory stream or a candidate's code ref; its i-th object *)
(* is <<h, i>> and its head is the number of objects it holds.             *)
(*                                                                         *)
(* The journal has two kinds of files per transaction: a pending anchor    *)
(* (written before any object is copied) and a receipt ("validated", then  *)
(* "complete").  Every reader derives from them the set of objects it must *)
(* deny; a journal it cannot make sense of denies everything.              *)
(***************************************************************************)
EXTENDS Naturals, FiniteSets

CONSTANTS
  Remotes,        \* configured Git remotes
  Histories,      \* histories a remote may advertise
  ActorHistories, \* those that are actor chains (refs/hn/actors)
  MaxLen,         \* bound: objects per history
  TxnIds,         \* bound: transaction ids, each used once
  Procs,          \* concurrent `hn sync` processes
  MaxCrashes,     \* bound: processes that die or fail part-way
  Selection,      \* per remote, the exact saved selection
  CompatAll,      \* remotes without one: bounded compatibility-all
  MaxEvents,      \* the max-events budget, per history
  Malformed,      \* objects that fail structural or relationship validation
  References,     \* per object, the exact objects it requires
  LocalObjects    \* objects of the repository's own refs

Objects == Histories \X (1..MaxLen)

ASSUME ReplicationAssumption ==
  /\ ActorHistories \subseteq Histories
  /\ MaxLen \in Nat /\ MaxCrashes \in Nat
  /\ Selection \in [Remotes -> SUBSET Histories]
  /\ CompatAll \subseteq Remotes
  /\ MaxEvents \in [Histories -> Nat]
  /\ Malformed \subseteq Objects
  /\ References \in [Objects -> SUBSET Objects]
  /\ LocalObjects \subseteq Objects

VARIABLES
  advert,    \* per remote and history, the published head (0: not advertised)
  refs,      \* per remote and history, the accepted head under refs/hn/remotes
  main,      \* objects present in the main object database
  anchored,  \* transactions with a pending anchor on disk
  anchors,   \* per transaction, the anchor it wrote
  receipts,  \* per transaction, its receipt
  pc,        \* per process, the next step of runReplicationTransaction
  \* Per process, the locals of that call:
  remote,    \* its remote
  txn,       \* its transaction id
  requests,  \* per history, the advertised head (0: not requested)
  old,       \* per history, the accepted head it read
  promotable,\* selections that are still good
  required,  \* objects reachable from them
  pending,   \* of those, the ones absent from the main database
  accept,    \* objects its receipt accepts
  todo,      \* anchors left to repair or to reconcile
  completed, \* history: objects of a transaction recorded complete
  crashes    \* bound: processes that died so far

journal == <<anchored, anchors, receipts>>
locals  == <<remote, txn, requests, old, promotable, required, pending, accept, todo>>
vars    == <<advert, refs, main, journal, pc, locals, completed, crashes>>

Heads == 0..MaxLen

NoAnchor  == [remote |-> "none", pending |-> {}]
NoReceipt == [state |-> "none", remote |-> "none", pending |-> {}, accepted |-> {}]
NoHeads   == [h \in Histories |-> 0]

Reach(h, n) == {<<h, i>> : i \in 1..n}

Running(p) == pc[p] # "idle"

----------------------------------------------------------------------------
(* The acceptance journal as readers see it. *)

Anchored(t)  == t \in anchored
Validated(t) == receipts[t].state = "validated"
Complete(t)  == receipts[t].state = "complete"

\* The journal is coherent: every anchor has a receipt of the same remote, a
\* completed one accepts all its anchor holds, and a validated receipt has an
\* anchor with exactly its pending objects.  Anything else is an error that
\* every reader turns into a refusal.
JournalCoherent ==
  \A t \in TxnIds :
    /\ Anchored(t) => /\ Validated(t) \/ Complete(t)
                      /\ receipts[t].remote = anchors[t].remote
                      /\ Complete(t) => anchors[t].pending \subseteq receipts[t].accepted
    /\ Validated(t) => Anchored(t) /\ receipts[t].pending = anchors[t].pending

AcceptedByReceipt == UNION {receipts[t].accepted : t \in {u \in TxnIds : Complete(u)}}

Denied == (UNION {anchors[t].pending : t \in {u \in TxnIds : Validated(u)}})
            \ AcceptedByReceipt

\* What a replication-aware command may use of the object database.
Readable(o) == JournalCoherent /\ o \in main /\ o \notin Denied

Settled(t)     == Complete(t) /\ ~Anchored(t)
SettledObjects == UNION {receipts[t].accepted : t \in {u \in TxnIds : Settled(u)}}

\* collectEvents: every object below an accepted ref must pass the reader.
Projectable == \A r \in Remotes, h \in Histories :
                 \A o \in Reach(h, refs[r][h]) : Readable(o)

----------------------------------------------------------------------------
(* Validation of one transaction's selections. *)

SelectedActors(r) == IF r \in CompatAll THEN {} ELSE Selection[r] \cap ActorHistories

\* Mutant: one object past the advertised head is requested.
RequestsOverrun(r) == [h \in Histories |->
                         IF r \in CompatAll \/ h \in Selection[r] THEN advert[r][h] + 1 ELSE 0]

\* The requests: exact selections, or everything advertised.
Requests(r) == [h \in Histories |->
                  IF r \in CompatAll \/ h \in Selection[r] THEN advert[r][h] ELSE 0]

Requested(p) == {h \in Histories : requests[p][h] > 0}
Objs(p, h)   == Reach(h, requests[p][h])

WithinBudget(h, n) == n <= MaxEvents[h]
WellFormed(h, n)   == Reach(h, n) \cap Malformed = {}

AcceptedRefs == {x \in Remotes \X Histories : refs[x[1]][x[2]] > 0}
AcceptedChain(x) == Reach(x[2], refs[x[1]][x[2]])

\* An accepted actor chain with a denied object is left out when its actor is
\* exactly selected (the full chain must replace it) ...
Omitted(p, x) == /\ x[2] \in SelectedActors(remote[p])
                 /\ AcceptedChain(x) \cap Denied # {}

\* Mutant: a denied object refuses the inspection even when the selection is
\* about to replace its chain.
AcceptedInspectableStrict(p) ==
  /\ JournalCoherent
  /\ \A x \in AcceptedRefs : x[2] \in ActorHistories => AcceptedChain(x) \cap Denied = {}

\* ... and otherwise the whole inspection is refused.
AcceptedInspectable(p) ==
  /\ JournalCoherent
  /\ \A x \in AcceptedRefs :
       x[2] \in ActorHistories => Omitted(p, x) \/ AcceptedChain(x) \cap Denied = {}

AcceptedFacts(p) ==
  LocalObjects \cup
  UNION {AcceptedChain(x) : x \in {y \in AcceptedRefs : ~Omitted(p, y)}}

\* A reference is supplied by the selection that owns it, which must then
\* itself be promotable (even if the object is already accepted), and otherwise
\* by an accepted fact.
Supplied(p, S, h) ==
  \A o \in Objs(p, h) : \A x \in References[o] :
    IF \E k \in promotable[p] : x \in Objs(p, k)
    THEN \E k \in S : x \in Objs(p, k)
    ELSE x \in AcceptedFacts(p)

\* Mutant: a failed selection does not fail the ones that depend on it.
PromotableAlone(p) == promotable[p]

\* Failure spreads to every selection that depends on a failed one: what is
\* left is the largest set of selections that supply one another.
Promotable(p) ==
  UNION {S \in SUBSET promotable[p] : \A h \in S : Supplied(p, S, h)}

\* validateExactEventReferenceClosure over accepted and selected events.
ProjectionClosed(p, S) ==
  LET facts == AcceptedFacts(p) \cup UNION {Objs(p, h) : h \in S}
      isEvent(o) == o[1] \in ActorHistories
  IN \A o \in facts : isEvent(o) =>
       \A x \in References[o] : isEvent(x) => x \in facts

----------------------------------------------------------------------------
Init ==
  /\ advert = [r \in Remotes |-> [h \in Histories |-> 0]]
  /\ refs = [r \in Remotes |-> [h \in Histories |-> 0]]
  /\ main = LocalObjects
  /\ anchored = {}
  /\ anchors = [t \in TxnIds |-> NoAnchor]
  /\ receipts = [t \in TxnIds |-> NoReceipt]
  /\ pc = [p \in Procs |-> "idle"]
  /\ remote = [p \in Procs |-> "none"]
  /\ txn = [p \in Procs |-> "none"]
  /\ requests = [p \in Procs |-> NoHeads]
  /\ old = [p \in Procs |-> NoHeads]
  /\ promotable = [p \in Procs |-> {}]
  /\ required = [p \in Procs |-> {}]
  /\ pending = [p \in Procs |-> {}]
  /\ accept = [p \in Procs |-> {}]
  /\ todo = [p \in Procs |-> {}]
  /\ completed = LocalObjects
  /\ crashes = 0

\* allocateReplicationQuarantine: an id with no receipt, no anchor and no
\* quarantine directory of a running transaction.
FreshTxns == {t \in TxnIds : /\ ~Anchored(t)
                             /\ receipts[t].state = "none"
                             /\ \A p \in Procs : txn[p] # t}

\* Environment: another clone publishes with an ordinary, non-forced push.
\* Bound: not against the last id, so that a retry can finish.
Publish(r, h) ==
  /\ advert[r][h] < MaxLen /\ Cardinality(FreshTxns) > 1
  /\ advert' = [advert EXCEPT ![r][h] = @ + 1]
  /\ UNCHANGED <<refs, main, journal, pc, locals, completed, crashes>>

Step(p, from, to) == pc[p] = from /\ pc' = [pc EXCEPT ![p] = to]

\* The call returns, or its process is gone: its locals are forgotten.
Stop(p) ==
  /\ pc' = [pc EXCEPT ![p] = "idle"]
  /\ remote' = [remote EXCEPT ![p] = "none"]
  /\ txn' = [txn EXCEPT ![p] = "none"]
  /\ requests' = [requests EXCEPT ![p] = NoHeads]
  /\ old' = [old EXCEPT ![p] = NoHeads]
  /\ promotable' = [promotable EXCEPT ![p] = {}]
  /\ required' = [required EXCEPT ![p] = {}]
  /\ pending' = [pending EXCEPT ![p] = {}]
  /\ accept' = [accept EXCEPT ![p] = {}]
  /\ todo' = [todo EXCEPT ![p] = {}]

\* recordReplicationTransaction replaces the receipt file atomically.
WriteReceipt(t, s, r, P, A) ==
  receipts' = [receipts EXCEPT ![t] = [state |-> s, remote |-> r, pending |-> P, accepted |-> A]]

\* The selection and the remote's advertisement are read first.
Resolve(p, r) ==
  /\ FreshTxns # {}
  /\ Step(p, "idle", "repair-load")
  /\ remote' = [remote EXCEPT ![p] = r]
  /\ requests' = [requests EXCEPT ![p] = Requests(r)]
  /\ UNCHANGED <<advert, refs, main, journal, txn, old, promotable, required, pending,
                 accept, todo, completed, crashes>>

\* Mutant: every transaction of the remote is repaired, anchored or not.
RepairLoadSettled(p) ==
  /\ Step(p, "repair-load", "repair")
  /\ todo' = [todo EXCEPT ![p] = {t \in TxnIds : receipts[t].remote = remote[p]}]
  /\ UNCHANGED <<advert, refs, main, journal, remote, txn, requests, old, promotable,
                 required, pending, accept, completed, crashes>>

\* repairAnchoredReplicationReceiptsForRecovery reads the anchors ...
RepairLoad(p) ==
  /\ Step(p, "repair-load", "repair")
  /\ todo' = [todo EXCEPT ![p] = {t \in anchored : anchors[t].remote = remote[p]}]
  /\ UNCHANGED <<advert, refs, main, journal, remote, txn, requests, old, promotable,
                 required, pending, accept, completed, crashes>>

\* ... and rewrites the receipt of each, from the anchor as it was read.
RepairWrite(p, t) ==
  /\ pc[p] = "repair" /\ t \in todo[p]
  /\ WriteReceipt(t, "validated", anchors[t].remote, anchors[t].pending, anchors[t].pending)
  /\ todo' = [todo EXCEPT ![p] = @ \ {t}]
  /\ UNCHANGED <<advert, refs, main, anchored, anchors, pc, remote, txn, requests, old,
                 promotable, required, pending, accept, completed, crashes>>

\* Allocate the quarantine and fetch; a ref that moved since it was advertised
\* fails its selection alone.
Fetch(p, t) ==
  /\ todo[p] = {} /\ t \in FreshTxns
  /\ Step(p, "repair", "measure")
  /\ txn' = [txn EXCEPT ![p] = t]
  /\ requests' = [requests EXCEPT ![p] =
        [h \in Histories |-> IF advert[remote[p]][h] = @[h] THEN @[h] ELSE 0]]
  /\ UNCHANGED <<advert, refs, main, journal, remote, old, promotable, required, pending,
                 accept, todo, completed, crashes>>

\* Read the accepted heads, measure against the budgets, validate the chains.
Measure(p) ==
  /\ Step(p, "measure", "classify")
  /\ old' = [old EXCEPT ![p] = refs[remote[p]]]
  /\ promotable' = [promotable EXCEPT ![p] =
        {h \in Requested(p) : /\ WithinBudget(h, requests[p][h])
                              /\ WellFormed(h, requests[p][h])}]
  /\ UNCHANGED <<advert, refs, main, journal, remote, txn, requests, required, pending,
                 accept, todo, completed, crashes>>

\* Inspect the accepted facts, propagate failures, check the projection.
Classify(p) ==
  LET S == Promotable(p) IN
  /\ pc[p] = "classify"
  /\ \/ /\ AcceptedInspectable(p) /\ ProjectionClosed(p, S)
        /\ pc' = [pc EXCEPT ![p] = "prepare"]
        /\ promotable' = [promotable EXCEPT ![p] = S]
        /\ required' = [required EXCEPT ![p] = UNION {Objs(p, h) : h \in S}]
        /\ UNCHANGED <<remote, txn, requests, old, pending, accept, todo>>
     \/ ~(AcceptedInspectable(p) /\ ProjectionClosed(p, S)) /\ Stop(p)
  /\ UNCHANGED <<advert, refs, main, journal, completed, crashes>>

\* Objects to hold back, and objects the receipt will accept.
Prepare(p) ==
  /\ Step(p, "prepare", "anchor")
  /\ pending' = [pending EXCEPT ![p] = required[p] \ main]
  /\ accept' = [accept EXCEPT ![p] = (required[p] \ main) \cup (required[p] \ SettledObjects)]
  /\ UNCHANGED <<advert, refs, main, journal, remote, txn, requests, old, promotable,
                 required, todo, completed, crashes>>

CreateAnchor(p) ==
  /\ Step(p, "anchor", "record-validated")
  /\ anchored' = anchored \cup {txn[p]}
  /\ anchors' = [anchors EXCEPT ![txn[p]] = [remote |-> remote[p], pending |-> pending[p]]]
  /\ UNCHANGED <<advert, refs, main, receipts, locals, completed, crashes>>

RecordValidated(p) ==
  /\ Step(p, "record-validated", "copy")
  /\ WriteReceipt(txn[p], "validated", remote[p], pending[p], accept[p])
  /\ UNCHANGED <<advert, refs, main, anchored, anchors, locals, completed, crashes>>

\* Mutant: only the objects at the selected heads are copied.
CopyHeads(p) ==
  /\ Step(p, "copy", "promote")
  /\ main' = main \cup {<<h, requests[p][h]>> : h \in promotable[p]}
  /\ UNCHANGED <<advert, refs, journal, locals, completed, crashes>>

\* Copy the required objects, as one pack, and verify that they arrived.
CopyObjects(p) ==
  /\ Step(p, "copy", "promote")
  /\ main' = main \cup required[p]
  /\ UNCHANGED <<advert, refs, journal, locals, completed, crashes>>

\* One compare-and-swap ref transaction for every promotion.
Unmoved(p) == \A h \in promotable[p] : refs[remote[p]][h] = old[p][h]

\* Mutant: every requested history is promoted, the failed ones too.
PromoteFailed(p) ==
  /\ pc[p] = "promote"
  /\ \/ /\ Unmoved(p)
        /\ refs' = [refs EXCEPT ![remote[p]] = requests[p]]
        /\ pc' = [pc EXCEPT ![p] = "record-complete"]
        /\ UNCHANGED locals
     \/ ~Unmoved(p) /\ Stop(p) /\ UNCHANGED refs
  /\ UNCHANGED <<advert, main, journal, completed, crashes>>

Promote(p) ==
  /\ pc[p] = "promote"
  /\ \/ /\ Unmoved(p)
        /\ refs' = [refs EXCEPT ![remote[p]] =
              [h \in Histories |-> IF h \in promotable[p] THEN requests[p][h] ELSE @[h]]]
        /\ pc' = [pc EXCEPT ![p] = "record-complete"]
        /\ UNCHANGED locals
     \/ ~Unmoved(p) /\ Stop(p) /\ UNCHANGED refs
  /\ UNCHANGED <<advert, main, journal, completed, crashes>>

RecordComplete(p) ==
  /\ Step(p, "record-complete", "remove-anchor")
  /\ WriteReceipt(txn[p], "complete", remote[p], pending[p], accept[p])
  /\ completed' = completed \cup required[p]
  /\ UNCHANGED <<advert, refs, main, anchored, anchors, locals, crashes>>

RemoveAnchor(p) ==
  /\ Step(p, "remove-anchor", "reconcile-load")
  /\ anchored' = anchored \ {txn[p]}
  /\ UNCHANGED <<advert, refs, main, anchors, receipts, locals, completed, crashes>>

\* Mutant: anchors this transaction's closure does not cover are settled too.
ReconcileLoadUncovered(p) ==
  /\ Step(p, "reconcile-load", "reconcile")
  /\ todo' = [todo EXCEPT ![p] = {t \in anchored \ {txn[p]} : anchors[t].remote = remote[p]}]
  /\ UNCHANGED <<advert, refs, main, journal, remote, txn, requests, old, promotable,
                 required, pending, accept, completed, crashes>>

\* reconcileCompletedReplicationTransactions: the other anchors of this remote
\* whose objects this transaction's closure covers ...
ReconcileLoad(p) ==
  /\ Step(p, "reconcile-load", "reconcile")
  /\ todo' = [todo EXCEPT ![p] =
        {t \in anchored \ {txn[p]} : /\ anchors[t].remote = remote[p]
                                     /\ anchors[t].pending \subseteq required[p]}]
  /\ UNCHANGED <<advert, refs, main, journal, remote, txn, requests, old, promotable,
                 required, pending, accept, completed, crashes>>

\* Mutant: a reconciled receipt keeps the state "validated".
ReconcileRecordValidated(p, t) ==
  /\ Step(p, "reconcile", "reconcile-remove") /\ t \in todo[p]
  /\ WriteReceipt(t, "validated", anchors[t].remote, anchors[t].pending, anchors[t].pending)
  /\ txn' = [txn EXCEPT ![p] = t]
  /\ UNCHANGED <<advert, refs, main, anchored, anchors, remote, requests, old, promotable,
                 required, pending, accept, todo, completed, crashes>>

\* ... are recorded complete one after the other ...
ReconcileRecord(p, t) ==
  /\ Step(p, "reconcile", "reconcile-remove") /\ t \in todo[p]
  /\ WriteReceipt(t, "complete", anchors[t].remote, anchors[t].pending, anchors[t].pending)
  /\ txn' = [txn EXCEPT ![p] = t]
  /\ UNCHANGED <<advert, refs, main, anchored, anchors, remote, requests, old, promotable,
                 required, pending, accept, todo, completed, crashes>>

\* ... and each loses its anchor.
ReconcileRemove(p) ==
  /\ Step(p, "reconcile-remove", "reconcile")
  /\ anchored' = anchored \ {txn[p]}
  /\ todo' = [todo EXCEPT ![p] = @ \ {txn[p]}]
  /\ UNCHANGED <<advert, refs, main, anchors, receipts, remote, txn, requests, old,
                 promotable, required, pending, accept, completed, crashes>>

Finish(p) ==
  /\ pc[p] = "reconcile" /\ todo[p] = {}
  /\ Stop(p)
  /\ UNCHANGED <<advert, refs, main, journal, completed, crashes>>

\* The process dies, or a step fails and the call returns its error: durable
\* state stays as it is.  Bounds: MaxCrashes, and an id left to retry with.
Crash(p) ==
  /\ Running(p) /\ crashes < MaxCrashes /\ FreshTxns # {}
  /\ crashes' = crashes + 1
  /\ Stop(p)
  /\ UNCHANGED <<advert, refs, main, journal, completed>>

SyncStep(p) ==
  \/ RepairLoad(p) \/ \E t \in TxnIds : RepairWrite(p, t)
  \/ \E t \in TxnIds : Fetch(p, t)
  \/ Measure(p) \/ Classify(p) \/ Prepare(p)
  \/ CreateAnchor(p) \/ RecordValidated(p) \/ CopyObjects(p)
  \/ Promote(p) \/ RecordComplete(p) \/ RemoveAnchor(p)
  \/ ReconcileLoad(p) \/ \E t \in TxnIds : ReconcileRecord(p, t)
  \/ ReconcileRemove(p) \/ Finish(p)

Next ==
  \/ \E r \in Remotes, h \in Histories : Publish(r, h)
  \/ \E p \in Procs, r \in Remotes : Resolve(p, r)
  \/ \E p \in Procs : SyncStep(p)
  \/ \E p \in Procs : Crash(p)

Spec == Init /\ [][Next]_vars

\* A started sync runs on unless it dies, and the operator or the watching
\* runner retries; deaths are bounded by MaxCrashes.
FairSpec ==
  /\ Spec
  /\ \A p \in Procs : WF_vars(SyncStep(p))
  /\ \A r \in Remotes : WF_vars(\E p \in Procs : Resolve(p, r))

----------------------------------------------------------------------------
(* Properties. *)

Anchors  == [remote : Remotes \cup {"none"}, pending : SUBSET Objects]
Receipts == [state : {"none", "validated", "complete"}, remote : Remotes \cup {"none"},
             pending : SUBSET Objects, accepted : SUBSET Objects]
Steps == {"idle", "repair-load", "repair", "measure", "classify", "prepare", "anchor",
          "record-validated", "copy", "promote", "record-complete", "remove-anchor",
          "reconcile-load", "reconcile", "reconcile-remove"}
TxnSteps == Steps \ {"idle", "repair-load", "repair"}

\* Every variable has its type; in particular no step of
\* runReplicationTransaction records an object outside the selected graphs.
TypeOK ==
  /\ advert \in [Remotes -> [Histories -> Heads]]
  /\ refs \in [Remotes -> [Histories -> Heads]]
  /\ main \subseteq Objects /\ completed \subseteq Objects
  /\ anchored \subseteq TxnIds
  /\ anchors \in [TxnIds -> Anchors]
  /\ receipts \in [TxnIds -> Receipts]
  /\ pc \in [Procs -> Steps]
  /\ remote \in [Procs -> Remotes \cup {"none"}]
  /\ txn \in [Procs -> TxnIds \cup {"none"}]
  /\ requests \in [Procs -> [Histories -> Heads]]
  /\ old \in [Procs -> [Histories -> Heads]]
  /\ promotable \in [Procs -> SUBSET Histories]
  /\ required \in [Procs -> SUBSET Objects]
  /\ pending \in [Procs -> SUBSET Objects]
  /\ accept \in [Procs -> SUBSET Objects]
  /\ todo \in [Procs -> SUBSET TxnIds]
  /\ crashes \in Nat
  /\ \A p \in Procs : Running(p) => remote[p] \in Remotes
  /\ \A p \in Procs : pc[p] \in TxnSteps => txn[p] \in TxnIds

\* Fail-closed acceptance (replicationAcceptanceReader.check): whatever steps
\* concurrent and interrupted transactions were left at, a reader admits an
\* object only if a transaction that required it was recorded complete.
NoUnacceptedReadable == \A o \in Objects : Readable(o) => o \in completed

\* promoteReplicationRefs never publishes an accepted ref whose objects are not
\* all in the main object database.
RefsBacked == \A r \in Remotes, h \in Histories : Reach(h, refs[r][h]) \subseteq main

\* "A settled receipt is complete and has no pending anchor; nothing rewrites
\* it" (comment on replicationObjectsToAccept): the reason an object a settled
\* receipt accepts may be left out of later receipts.
SettledNeverRewritten ==
  [][\A t \in TxnIds : Settled(t) => receipts'[t] = receipts[t]]_vars

\* While every remote only fast-forwards, no transaction moves an accepted ref
\* back, so nothing already accepted leaves the projection.
AcceptedNeverRewinds ==
  [][\A r \in Remotes, h \in Histories : refs'[r][h] >= refs[r][h]]_vars

\* The events below the accepted refs always resolve one another's references:
\* collectEvents never meets a dangling exact reference after a promotion.
AcceptedEventsClosed ==
  LET facts == LocalObjects \cup UNION {AcceptedChain(x) : x \in AcceptedRefs}
  IN \A o \in facts : References[o] \subseteq facts

\* With no transaction running and no anchor left, the whole accepted
\* projection is readable: reconciliation never strands an object.
QuietMeansReadable ==
  (\A p \in Procs : ~Running(p)) /\ (\A t \in TxnIds : ~Anchored(t)) => Projectable

\* "retry reconciles exact transaction state" (docs/replication-v0.md): an
\* anchor left by an interrupted transaction leads, by retrying hn sync, to
\* a projection every command can read again.
InterruptedSyncRecovers ==
  \A t \in TxnIds : Anchored(t) ~> (~Anchored(t) /\ Projectable)

=============================================================================

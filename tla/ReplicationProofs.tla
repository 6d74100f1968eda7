------------------------- MODULE ReplicationProofs -------------------------
(***************************************************************************)
(* For every number of concurrent `hn sync` processes, remotes, histories  *)
(* and transactions, and wherever those processes die: a reader never      *)
(* admits an object that no completed transaction required (FailClosed),   *)
(* and accepted refs are backed (RefsAlwaysBacked).  With one process at a *)
(* time settled receipts stay, refs never rewind, a quiet clone reads all  *)
(* it accepted, and accepted events are closed.                            *)
(***************************************************************************)
EXTENDS Replication, TLAPS

----------------------------------------------------------------------------
(* The type invariant. *)

\* The objects below a head are objects of its history.
LEMMA ReachType ==
  ASSUME NEW h \in Histories, NEW n \in Heads
  PROVE  Reach(h, n) \subseteq Objects
BY ReplicationAssumption DEF Reach, Heads, Objects

\* Every action of a sync process, and of its environment, keeps the types.
LEMMA TypeStep == TypeOK /\ [Next]_vars => TypeOK'
<1> SUFFICES ASSUME TypeOK, [Next]_vars PROVE TypeOK'
  OBVIOUS
<1> USE DEF TypeOK, Step, WriteReceipt, journal, locals, Running, Steps, TxnSteps
<1>a. ASSUME NEW p \in Procs, Stop(p), UNCHANGED <<advert, refs, main, journal, completed>>,
             crashes' \in Nat
      PROVE  TypeOK'
  BY <1>a, ReplicationAssumption DEF Stop, NoHeads, Heads
<1>1. ASSUME NEW r \in Remotes, NEW h \in Histories, Publish(r, h) PROVE TypeOK'
  BY <1>1, ReplicationAssumption DEF Publish, Heads
<1>2. ASSUME NEW p \in Procs, NEW r \in Remotes, Resolve(p, r) PROVE TypeOK'
  <2>1. Requests(r) \in [Histories -> Heads]
    BY ReplicationAssumption DEF Requests, Heads
  <2> QED
    BY <1>2, <2>1 DEF Resolve
<1>3. ASSUME NEW p \in Procs, RepairLoad(p) PROVE TypeOK'
  BY <1>3 DEF RepairLoad
<1>4. ASSUME NEW p \in Procs, NEW t \in TxnIds, RepairWrite(p, t) PROVE TypeOK'
  BY <1>4 DEF RepairWrite, Anchors, Receipts
<1>5. ASSUME NEW p \in Procs, NEW t \in TxnIds, Fetch(p, t) PROVE TypeOK'
  BY <1>5, ReplicationAssumption DEF Fetch, Heads
<1>6. ASSUME NEW p \in Procs, Measure(p) PROVE TypeOK'
  BY <1>6 DEF Measure, Requested
<1>7. ASSUME NEW p \in Procs, Classify(p) PROVE TypeOK'
  <2>1. Promotable(p) \subseteq promotable[p] /\ promotable[p] \subseteq Histories
    BY DEF Promotable
  <2>2. \A h \in Histories : Objs(p, h) \subseteq Objects
    BY ReachType DEF Objs
  <2>3. UNION {Objs(p, h) : h \in Promotable(p)} \subseteq Objects
    BY <2>1, <2>2
  <2>4. CASE ~(AcceptedInspectable(p) /\ ProjectionClosed(p, Promotable(p)))
    BY <1>7, <1>a, <2>4 DEF Classify
  <2>5. CASE AcceptedInspectable(p) /\ ProjectionClosed(p, Promotable(p))
    <3>1. /\ pc[p] = "classify" /\ pc' = [pc EXCEPT ![p] = "prepare"]
          /\ promotable' = [promotable EXCEPT ![p] = Promotable(p)]
          /\ required' = [required EXCEPT ![p] = UNION {Objs(p, h) : h \in Promotable(p)}]
          /\ UNCHANGED <<remote, txn, requests, old, pending, accept, todo>>
          /\ UNCHANGED <<advert, refs, main, journal, completed, crashes>>
      BY <1>7, <2>5, Zenon DEF Classify
    <3> QED
      BY <2>1, <2>3, <3>1
  <2> QED
    BY <2>4, <2>5
<1>8. ASSUME NEW p \in Procs, Prepare(p) PROVE TypeOK'
  BY <1>8 DEF Prepare
<1>9. ASSUME NEW p \in Procs, CreateAnchor(p) PROVE TypeOK'
  BY <1>9 DEF CreateAnchor, Anchors
<1>10. ASSUME NEW p \in Procs, RecordValidated(p) PROVE TypeOK'
  BY <1>10 DEF RecordValidated, Receipts
<1>11. ASSUME NEW p \in Procs, CopyObjects(p) PROVE TypeOK'
  BY <1>11 DEF CopyObjects
<1>12. ASSUME NEW p \in Procs, Promote(p) PROVE TypeOK'
  <2>1. CASE ~Unmoved(p)
    BY <1>12, <1>a, <2>1 DEF Promote
  <2>2. CASE Unmoved(p)
    <3> DEFINE moved == [h \in Histories |-> IF h \in promotable[p] THEN requests[p][h]
                                                                 ELSE refs[remote[p]][h]]
    <3>1. /\ pc[p] = "promote" /\ pc' = [pc EXCEPT ![p] = "record-complete"]
          /\ refs' = [refs EXCEPT ![remote[p]] = moved]
          /\ UNCHANGED <<locals, advert, main, journal, completed, crashes>>
      BY <1>12, <2>2, Zenon DEF Promote
    <3>2. remote[p] \in Remotes
      BY <3>1
    <3>3. moved \in [Histories -> Heads]
      BY <3>2
    <3> HIDE DEF moved
    <3> QED
      BY <3>1, <3>3
  <2> QED
    BY <2>1, <2>2
<1>13. ASSUME NEW p \in Procs, RecordComplete(p) PROVE TypeOK'
  BY <1>13 DEF RecordComplete, Receipts
<1>14. ASSUME NEW p \in Procs, RemoveAnchor(p) PROVE TypeOK'
  BY <1>14 DEF RemoveAnchor
<1>15. ASSUME NEW p \in Procs, ReconcileLoad(p) PROVE TypeOK'
  BY <1>15 DEF ReconcileLoad
<1>16. ASSUME NEW p \in Procs, NEW t \in TxnIds, ReconcileRecord(p, t) PROVE TypeOK'
  BY <1>16 DEF ReconcileRecord, Anchors, Receipts
<1>17. ASSUME NEW p \in Procs, ReconcileRemove(p) PROVE TypeOK'
  BY <1>17 DEF ReconcileRemove
<1>18. ASSUME NEW p \in Procs, Finish(p) PROVE TypeOK'
  BY <1>18, <1>a DEF Finish
<1>19. ASSUME NEW p \in Procs, Crash(p) PROVE TypeOK'
  BY <1>19, <1>a DEF Crash
<1>20. CASE UNCHANGED vars
  BY <1>20 DEF vars
<1> HIDE DEF TypeOK, Step, WriteReceipt, journal, locals, Running, Steps, TxnSteps
<1> QED
  BY <1>1, <1>2, <1>3, <1>4, <1>5, <1>6, <1>7, <1>8, <1>9, <1>10, <1>11, <1>12, <1>13,
     <1>14, <1>15, <1>16, <1>17, <1>18, <1>19, <1>20 DEF Next, SyncStep

\* The journal, the locals and the program counters are typed in every
\* reachable state of any number of concurrent transactions.
THEOREM TypeCorrect == Spec => []TypeOK
<1>1. Init => TypeOK
  BY ReplicationAssumption
  DEF Init, TypeOK, NoAnchor, NoReceipt, NoHeads, Anchors, Receipts, Steps, TxnSteps, Heads, Running
<1>2. TypeOK /\ [Next]_vars => TypeOK'
  BY TypeStep
<1> QED
  BY <1>1, <1>2, PTL DEF Spec

----------------------------------------------------------------------------
(* Fail-closed acceptance.  The invariant below follows an object that is   *)
(* in the main database and that no completed transaction required: the     *)
(* transaction that copied it wrote an anchor over it first, and only a     *)
(* completed transaction that requires it takes that anchor away.           *)

\* An id is used, for ever, once it has an anchor or a receipt.
Used(t) == Anchored(t) \/ receipts[t].state # "none"

Early == {"measure", "classify", "prepare", "anchor"}
Held  == {"record-validated", "copy", "promote", "record-complete"}
Done  == {"remove-anchor", "reconcile-load", "reconcile", "reconcile-remove"}

\* An id belongs to one transaction, and is unused until its anchor exists.
IdsExclusive ==
  /\ \A p \in Procs : pc[p] \in Early => ~Used(txn[p])
  /\ \A p, q \in Procs : p # q /\ pc[p] \in Early /\ pc[q] \in TxnSteps => txn[p] # txn[q]
  /\ \A p \in Procs : pc[p] \in {"remove-anchor", "reconcile-remove"} =>
                        receipts[txn[p]].state # "none"
  /\ \A p \in Procs : \A t \in todo[p] : Used(t)

\* What a process knows of its own transaction at each step.
LocalsSound ==
  \A p \in Procs :
    /\ pc[p] = "anchor" \/ pc[p] \in Held =>
         /\ required[p] \ main \subseteq pending[p]
         /\ pending[p] \subseteq required[p]
         /\ accept[p] \subseteq required[p]
    /\ pc[p] \in Held =>
         /\ anchors[txn[p]].pending = pending[p]
         /\ Anchored(txn[p]) \/ pending[p] \subseteq completed
    /\ pc[p] \in Done => required[p] \subseteq completed
    /\ pc[p] \in {"remove-anchor", "reconcile-remove"} =>
         anchors[txn[p]].pending \subseteq completed
    /\ pc[p] \in {"reconcile", "reconcile-remove"} =>
         \A t \in todo[p] : anchors[t].pending \subseteq completed

\* Receipts accept only objects of completed transactions.
ReceiptsSound == \A t \in TxnIds : Complete(t) => receipts[t].accepted \subseteq completed

\* An object no completed transaction required is held back by an anchor.
ResidueAnchored ==
  \A o \in main \ completed : \E t \in TxnIds : Anchored(t) /\ o \in anchors[t].pending

IInv == TypeOK /\ IdsExclusive /\ LocalsSound /\ ReceiptsSound /\ ResidueAnchored

\* No sync process has started: the invariant holds.
LEMMA InitIInv == Init => IInv
<1> SUFFICES ASSUME Init PROVE IInv
  OBVIOUS
<1>1. TypeOK
  BY ReplicationAssumption
  DEF Init, TypeOK, NoAnchor, NoReceipt, NoHeads, Anchors, Receipts, Steps, TxnSteps, Heads, Running
<1>2. IdsExclusive /\ LocalsSound
  BY DEF Init, IdsExclusive, LocalsSound, Early, Held, Done
<1>3. ReceiptsSound /\ ResidueAnchored
  BY DEF Init, ReceiptsSound, ResidueAnchored, Complete, NoReceipt
<1> QED
  BY <1>1, <1>2, <1>3 DEF IInv

\* The invariant implies that a reader denies everything else.
LEMMA IInvFailsClosed == IInv => NoUnacceptedReadable
<1> SUFFICES ASSUME IInv, NEW o \in Objects, JournalCoherent, o \in main, o \notin Denied,
                    o \notin completed
             PROVE  FALSE
  BY DEF NoUnacceptedReadable, Readable
<1>1. PICK t \in TxnIds : Anchored(t) /\ o \in anchors[t].pending
  BY DEF IInv, ResidueAnchored
<1>2. o \notin AcceptedByReceipt
  BY DEF IInv, ReceiptsSound, AcceptedByReceipt
<1>3. Validated(t)
  BY <1>1 DEF IInv, ReceiptsSound, JournalCoherent
<1>4. o \in UNION {anchors[u].pending : u \in {v \in TxnIds : Validated(v)}}
  BY <1>1, <1>3
<1>5. o \in Denied
  BY <1>2, <1>4, Zenon DEF Denied
<1> QED
  BY <1>5

\* Every step keeps the invariant.
LEMMA NextIInv == IInv /\ [Next]_vars => IInv'
<1> SUFFICES ASSUME IInv, [Next]_vars PROVE IInv'
  OBVIOUS
<1> USE DEF IInv
<1>t. TypeOK'
  BY TypeStep
<1> USE DEF IdsExclusive, LocalsSound, ReceiptsSound, ResidueAnchored, Anchored, Complete, Used,
            Early, Held, Done, TxnSteps, Steps, Step, WriteReceipt, journal, locals
<1>a. ASSUME NEW p \in Procs, Stop(p), UNCHANGED <<main, journal, completed>>
      PROVE  IInv'
  BY <1>a, <1>t DEF Stop, TypeOK
<1>1. ASSUME NEW r \in Remotes, NEW h \in Histories, Publish(r, h) PROVE IInv'
  BY <1>1, <1>t DEF Publish
<1>2. ASSUME NEW p \in Procs, NEW r \in Remotes, Resolve(p, r) PROVE IInv'
  BY <1>2, <1>t DEF Resolve, TypeOK
<1>3. ASSUME NEW p \in Procs, RepairLoad(p) PROVE IInv'
  BY <1>3, <1>t DEF RepairLoad, TypeOK
<1>4. ASSUME NEW p \in Procs, NEW t \in TxnIds, RepairWrite(p, t) PROVE IInv'
  BY <1>4, <1>t DEF RepairWrite, TypeOK, Receipts
<1>5. ASSUME NEW p \in Procs, NEW t \in TxnIds, Fetch(p, t) PROVE IInv'
  BY <1>5, <1>t DEF Fetch, FreshTxns, TypeOK
<1>6. ASSUME NEW p \in Procs, Measure(p) PROVE IInv'
  BY <1>6, <1>t DEF Measure, TypeOK
<1>7. ASSUME NEW p \in Procs, Classify(p) PROVE IInv'
  <2>1. CASE ~(AcceptedInspectable(p) /\ ProjectionClosed(p, Promotable(p)))
    BY <1>7, <1>a, <2>1, Zenon DEF Classify
  <2>2. CASE AcceptedInspectable(p) /\ ProjectionClosed(p, Promotable(p))
    <3>1. /\ pc[p] = "classify" /\ pc' = [pc EXCEPT ![p] = "prepare"]
          /\ required' = [required EXCEPT ![p] = UNION {Objs(p, h) : h \in Promotable(p)}]
          /\ UNCHANGED <<txn, pending, accept, todo, main, journal, completed>>
      BY <1>7, <2>2, Zenon DEF Classify
    <3> QED
      BY <3>1, <1>t DEF TypeOK
  <2> QED
    BY <2>1, <2>2
<1>8. ASSUME NEW p \in Procs, Prepare(p) PROVE IInv'
  BY <1>8, <1>t DEF Prepare, TypeOK
<1>9. ASSUME NEW p \in Procs, CreateAnchor(p) PROVE IInv'
  <2>a. pc[p] = "anchor" /\ txn[p] \in TxnIds /\ ~Used(txn[p])
    BY <1>9 DEF CreateAnchor, TypeOK
  <2>b. \A q \in Procs : q # p /\ pc[q] \in TxnSteps => txn[q] # txn[p]
    BY <2>a
  <2>c. \A q \in Procs : \A t \in todo[q] : t # txn[p]
    BY <2>a
  <2>d. /\ \A t \in TxnIds : t # txn[p] => anchors'[t] = anchors[t]
        /\ anchors'[txn[p]].pending = pending[p]
    BY <1>9, <2>a DEF CreateAnchor, TypeOK
  <2>e. /\ pc' = [pc EXCEPT ![p] = "record-validated"] /\ anchored' = anchored \cup {txn[p]}
        /\ UNCHANGED <<main, receipts, txn, required, pending, accept, todo, completed>>
    BY <1>9 DEF CreateAnchor
  <2>1. IdsExclusive'
    <3> SUFFICES /\ \A q \in Procs : q # p /\ pc[q] \in Early => ~Used(txn[q])'
                 /\ \A q \in Procs : \A t \in todo[q] : Used(t)'
      BY <2>a, <2>e DEF TypeOK
    <3> QED
      BY <2>b, <2>e DEF TypeOK
  <2>2. LocalsSound'
    <3> SUFFICES ASSUME NEW q \in Procs PROVE LocalsSound!(q)'
      OBVIOUS
    <3>1. CASE q = p
      BY <2>a, <2>d, <2>e, <3>1 DEF TypeOK
    <3>2. CASE q # p
      <4>1. pc'[q] = pc[q] /\ (pc[q] \in TxnSteps => anchors'[txn[q]] = anchors[txn[q]])
        BY <2>b, <2>d, <2>e, <3>2 DEF TypeOK
      <4>2. \A t \in todo[q] : anchors'[t] = anchors[t]
        BY <2>c, <2>d DEF TypeOK
      <4> QED
        BY <2>e, <4>1, <4>2
    <3> QED
      BY <3>1, <3>2
  <2>3. ReceiptsSound'
    BY <1>9 DEF CreateAnchor, TypeOK, Anchors
  <2>4. ResidueAnchored'
    BY <1>9 DEF CreateAnchor, TypeOK, Anchors
  <2> QED
    BY <1>t, <2>1, <2>2, <2>3, <2>4
<1>10. ASSUME NEW p \in Procs, RecordValidated(p) PROVE IInv'
  <2>1. IdsExclusive'
    BY <1>10 DEF RecordValidated, TypeOK, Receipts
  <2>2. LocalsSound'
    BY <1>10 DEF RecordValidated, TypeOK, Receipts
  <2>3. ReceiptsSound'
    BY <1>10 DEF RecordValidated, TypeOK, Receipts
  <2>4. ResidueAnchored'
    BY <1>10 DEF RecordValidated, TypeOK, Receipts
  <2> QED
    BY <1>t, <2>1, <2>2, <2>3, <2>4
<1>11. ASSUME NEW p \in Procs, CopyObjects(p) PROVE IInv'
  <2>1. IdsExclusive'
    BY <1>11 DEF CopyObjects, TypeOK
  <2>2. LocalsSound'
    BY <1>11 DEF CopyObjects, TypeOK
  <2>3. ReceiptsSound'
    BY <1>11 DEF CopyObjects, TypeOK
  <2>4. ResidueAnchored'
    BY <1>11 DEF CopyObjects, TypeOK
  <2> QED
    BY <1>t, <2>1, <2>2, <2>3, <2>4
<1>12. ASSUME NEW p \in Procs, Promote(p) PROVE IInv'
  <2>1. CASE ~Unmoved(p)
    BY <1>12, <1>a, <2>1, Zenon DEF Promote
  <2>2. CASE Unmoved(p)
    <3>1. /\ pc[p] = "promote" /\ pc' = [pc EXCEPT ![p] = "record-complete"]
          /\ UNCHANGED <<locals, main, journal, completed>>
      BY <1>12, <2>2, Zenon DEF Promote
    <3> QED
      BY <3>1, <1>t DEF TypeOK
  <2> QED
    BY <2>1, <2>2
<1>13. ASSUME NEW p \in Procs, RecordComplete(p) PROVE IInv'
  <2>0. /\ \A q \in Procs : pc[q] \in Early => txn[q] # txn[p]
        /\ \A t \in TxnIds : t # txn[p] => receipts'[t] = receipts[t]
        /\ receipts'[txn[p]].state = "complete"
    BY <1>13 DEF RecordComplete, TypeOK
  <2>1. IdsExclusive'
    BY <1>13, <2>0 DEF RecordComplete, TypeOK
  <2>2. LocalsSound'
    BY <1>13 DEF RecordComplete, TypeOK, Receipts
  <2>3. ReceiptsSound'
    BY <1>13 DEF RecordComplete, TypeOK, Receipts
  <2>4. ResidueAnchored'
    BY <1>13 DEF RecordComplete, TypeOK, Receipts
  <2> QED
    BY <1>t, <2>1, <2>2, <2>3, <2>4
<1>14. ASSUME NEW p \in Procs, RemoveAnchor(p) PROVE IInv'
  BY <1>14, <1>t DEF RemoveAnchor, TypeOK
<1>15. ASSUME NEW p \in Procs, ReconcileLoad(p) PROVE IInv'
  BY <1>15, <1>t DEF ReconcileLoad, TypeOK
<1>16. ASSUME NEW p \in Procs, NEW t \in TxnIds, ReconcileRecord(p, t) PROVE IInv'
  BY <1>16, <1>t DEF ReconcileRecord, TypeOK
<1>17. ASSUME NEW p \in Procs, ReconcileRemove(p) PROVE IInv'
  BY <1>17, <1>t DEF ReconcileRemove, TypeOK
<1>18. ASSUME NEW p \in Procs, Finish(p) PROVE IInv'
  BY <1>18, <1>a, Zenon DEF Finish
<1>19. ASSUME NEW p \in Procs, Crash(p) PROVE IInv'
  BY <1>19, <1>a, Zenon DEF Crash
<1>20. CASE UNCHANGED vars
  BY <1>20, <1>t DEF vars
<1> HIDE DEF IInv
<1> QED
  BY <1>1, <1>2, <1>3, <1>4, <1>5, <1>6, <1>7, <1>8, <1>9, <1>10, <1>11, <1>12, <1>13,
     <1>14, <1>15, <1>16, <1>17, <1>18, <1>19, <1>20 DEF Next, SyncStep

\* Whatever steps concurrent and interrupted transactions are left at, a
\* reader of the acceptance journal admits only objects that a transaction
\* recorded complete had required.
THEOREM FailClosed == Spec => []NoUnacceptedReadable
<1>1. Init => IInv
  BY InitIInv
<1>2. IInv /\ [Next]_vars => IInv'
  BY NextIInv
<1>3. IInv => NoUnacceptedReadable
  BY IInvFailsClosed
<1> QED
  BY <1>1, <1>2, <1>3, PTL DEF Spec

----------------------------------------------------------------------------
(* Accepted refs have their objects. *)

\* From the classification on, the graphs to promote are required, and from the
\* copy on they are in the main database.
Selected == {"prepare", "anchor"} \cup Held
GraphsRequired ==
  \A p \in Procs :
    /\ pc[p] \in Selected => \A h \in promotable[p] : Objs(p, h) \subseteq required[p]
    /\ pc[p] \in {"promote", "record-complete"} => required[p] \subseteq main
RefInv == TypeOK /\ GraphsRequired /\ RefsBacked

\* Moving the accepted refs of a remote keeps them backed when the moved heads are.
LEMMA MovedRefsBacked ==
  ASSUME TypeOK, RefsBacked, main \subseteq main', NEW r \in Remotes,
         NEW moved \in [Histories -> Heads], refs' = [refs EXCEPT ![r] = moved],
         \A h \in Histories : moved[h] = refs[r][h] \/ Reach(h, moved[h]) \subseteq main'
  PROVE  RefsBacked'
  BY DEF TypeOK, RefsBacked

LEMMA RefStep == RefInv /\ [Next]_vars => RefInv'
<1> SUFFICES ASSUME RefInv, [Next]_vars PROVE RefInv'
  OBVIOUS
<1>t. TypeOK /\ TypeOK'
  BY TypeStep DEF RefInv
<1> USE DEF RefInv, GraphsRequired, Selected, Held, Objs, Step, journal, locals
<1>a. ASSUME NEW p \in Procs, Stop(p), UNCHANGED <<refs, main>> PROVE RefInv'
  BY <1>a, <1>t DEF Stop, TypeOK, RefsBacked
<1>1. ASSUME NEW r \in Remotes, NEW h \in Histories, Publish(r, h) PROVE RefInv'
  BY <1>1, <1>t DEF Publish, RefsBacked
<1>2. ASSUME NEW p \in Procs, NEW r \in Remotes, Resolve(p, r) PROVE RefInv'
  BY <1>2, <1>t DEF Resolve, TypeOK, RefsBacked
<1>3. ASSUME NEW p \in Procs, RepairLoad(p) PROVE RefInv'
  BY <1>3, <1>t DEF RepairLoad, TypeOK, RefsBacked
<1>4. ASSUME NEW p \in Procs, NEW t \in TxnIds, RepairWrite(p, t) PROVE RefInv'
  BY <1>4, <1>t DEF RepairWrite, RefsBacked
<1>5. ASSUME NEW p \in Procs, NEW t \in TxnIds, Fetch(p, t) PROVE RefInv'
  BY <1>5, <1>t DEF Fetch, TypeOK, RefsBacked
<1>6. ASSUME NEW p \in Procs, Measure(p) PROVE RefInv'
  BY <1>6, <1>t DEF Measure, TypeOK, RefsBacked
<1>7. ASSUME NEW p \in Procs, Classify(p) PROVE RefInv'
  <2>1. CASE ~(AcceptedInspectable(p) /\ ProjectionClosed(p, Promotable(p)))
    BY <1>7, <1>a, <2>1, Zenon DEF Classify
  <2>2. CASE AcceptedInspectable(p) /\ ProjectionClosed(p, Promotable(p))
    <3>1. /\ pc[p] = "classify" /\ pc' = [pc EXCEPT ![p] = "prepare"]
          /\ promotable' = [promotable EXCEPT ![p] = Promotable(p)]
          /\ required' = [required EXCEPT ![p] = UNION {Objs(p, h) : h \in Promotable(p)}]
          /\ UNCHANGED <<requests, refs, main>>
      BY <1>7, <2>2, Zenon DEF Classify
    <3> QED
      BY <3>1, <1>t DEF TypeOK, RefsBacked
  <2> QED
    BY <2>1, <2>2
<1>8. ASSUME NEW p \in Procs, Prepare(p) PROVE RefInv'
  BY <1>8, <1>t DEF Prepare, TypeOK, RefsBacked
<1>9. ASSUME NEW p \in Procs, CreateAnchor(p) PROVE RefInv'
  BY <1>9, <1>t DEF CreateAnchor, TypeOK, RefsBacked
<1>10. ASSUME NEW p \in Procs, RecordValidated(p) PROVE RefInv'
  BY <1>10, <1>t DEF RecordValidated, TypeOK, RefsBacked
<1>11. ASSUME NEW p \in Procs, CopyObjects(p) PROVE RefInv'
  BY <1>11, <1>t DEF CopyObjects, TypeOK, RefsBacked
<1>12. ASSUME NEW p \in Procs, Promote(p) PROVE RefInv'
  <2>1. CASE ~Unmoved(p)
    BY <1>12, <1>a, <2>1, Zenon DEF Promote
  <2>2. CASE Unmoved(p)
    <3> DEFINE moved == [h \in Histories |-> IF h \in promotable[p] THEN requests[p][h]
                                                                 ELSE refs[remote[p]][h]]
    <3>1. /\ pc[p] = "promote" /\ pc' = [pc EXCEPT ![p] = "record-complete"]
          /\ refs' = [refs EXCEPT ![remote[p]] = moved]
          /\ UNCHANGED <<locals, main>>
      BY <1>12, <2>2, Zenon DEF Promote
    <3>2. remote[p] \in Remotes /\ requests[p] \in [Histories -> Heads]
      BY <1>t, <3>1 DEF TypeOK, Running
    <3>3. moved \in [Histories -> Heads]
      BY <1>t, <3>2 DEF TypeOK
    <3>4. \A h \in Histories : moved[h] = refs[remote[p]][h] \/ Reach(h, moved[h]) \subseteq main
      BY <3>1
    <3> HIDE DEF moved
    <3>5. RefsBacked'
      BY <1>t, <3>1, <3>2, <3>3, <3>4, MovedRefsBacked
    <3> QED
      BY <1>t, <3>1, <3>5 DEF TypeOK
  <2> QED
    BY <2>1, <2>2
<1>13. ASSUME NEW p \in Procs, RecordComplete(p) PROVE RefInv'
  BY <1>13, <1>t DEF RecordComplete, TypeOK, RefsBacked
<1>14. ASSUME NEW p \in Procs, RemoveAnchor(p) PROVE RefInv'
  BY <1>14, <1>t DEF RemoveAnchor, TypeOK, RefsBacked
<1>15. ASSUME NEW p \in Procs, ReconcileLoad(p) PROVE RefInv'
  BY <1>15, <1>t DEF ReconcileLoad, TypeOK, RefsBacked
<1>16. ASSUME NEW p \in Procs, NEW t \in TxnIds, ReconcileRecord(p, t) PROVE RefInv'
  BY <1>16, <1>t DEF ReconcileRecord, TypeOK, RefsBacked
<1>17. ASSUME NEW p \in Procs, ReconcileRemove(p) PROVE RefInv'
  BY <1>17, <1>t DEF ReconcileRemove, TypeOK, RefsBacked
<1>18. ASSUME NEW p \in Procs, Finish(p) PROVE RefInv'
  BY <1>18, <1>a, Zenon DEF Finish
<1>19. ASSUME NEW p \in Procs, Crash(p) PROVE RefInv'
  BY <1>19, <1>a, Zenon DEF Crash
<1>20. CASE UNCHANGED vars
  BY <1>20, <1>t DEF vars, RefsBacked
<1> HIDE DEF RefInv
<1> QED
  BY <1>1, <1>2, <1>3, <1>4, <1>5, <1>6, <1>7, <1>8, <1>9, <1>10, <1>11, <1>12, <1>13,
     <1>14, <1>15, <1>16, <1>17, <1>18, <1>19, <1>20 DEF Next, SyncStep

LEMMA RefInit == Init => RefInv
<1> SUFFICES ASSUME Init PROVE RefInv
  OBVIOUS
<1>1. TypeOK
  BY InitIInv DEF IInv
<1>2. \A h : Reach(h, 0) = {}
  BY DEF Reach
<1> QED
  BY <1>1, <1>2 DEF Init, RefInv, GraphsRequired, RefsBacked, Selected, Held

\* However many syncs run and wherever they die, an accepted ref never names a head
\* below which an object is missing (promoteReplicationRefs runs after the copy).
THEOREM RefsAlwaysBacked == Spec => []RefsBacked
<1>1. RefInv => RefsBacked
  BY DEF RefInv
<1> QED
  BY <1>1, RefInit, RefStep, PTL DEF Spec

----------------------------------------------------------------------------
(* One sync at a time.  With two, a settled receipt can be rewritten (the   *)
(* run ReplicationRace); with one, whatever the crashes, it never is, no    *)
(* accepted head moves back and nothing is stranded.                        *)

OneProcess == \A p, q \in Procs : p = q

\* What the only process has written, it finds again.
JournalKept ==
  /\ \A p \in Procs :
       /\ pc[p] \in Held => Anchored(txn[p])
       /\ pc[p] \in {"repair", "reconcile", "reconcile-remove"} => todo[p] \subseteq anchored
       /\ pc[p] \in {"remove-anchor", "reconcile-remove"} => Complete(txn[p])
  /\ \A t \in TxnIds : Validated(t) => Anchored(t)

\* The heads it was shown are not behind those it accepted.
HeadsAhead ==
  /\ \A r \in Remotes, h \in Histories : refs[r][h] <= advert[r][h]
  /\ \A p \in Procs : Running(p) => \A h \in Histories :
       /\ requests[p][h] <= advert[remote[p]][h]
       /\ requests[p][h] = 0 \/ refs[remote[p]][h] <= requests[p][h]
  /\ \A p \in Procs : pc[p] = "classify" \/ pc[p] \in Selected =>
       \A h \in promotable[p] : requests[p][h] # 0

SerialInv == OneProcess /\ IInv /\ JournalKept /\ HeadsAhead

LEMMA JournalStep == SerialInv /\ [Next]_vars => JournalKept'
<1> SUFFICES ASSUME SerialInv, [Next]_vars PROVE JournalKept'
  OBVIOUS
<1>t. TypeOK /\ IdsExclusive /\ OneProcess
  BY DEF SerialInv, IInv
<1>j. JournalKept
  BY DEF SerialInv
<1> USE DEF JournalKept, Anchored, Complete, Validated, Held, Step, WriteReceipt, journal, locals
<1>a. ASSUME NEW p \in Procs, Stop(p), UNCHANGED journal PROVE JournalKept'
  BY <1>a, <1>t, <1>j DEF Stop, TypeOK, OneProcess
<1>1. ASSUME NEW r \in Remotes, NEW h \in Histories, Publish(r, h) PROVE JournalKept'
  BY <1>1, <1>j DEF Publish
<1>2. ASSUME NEW p \in Procs, NEW r \in Remotes, Resolve(p, r) PROVE JournalKept'
  BY <1>2, <1>t, <1>j DEF Resolve, TypeOK
<1>3. ASSUME NEW p \in Procs, RepairLoad(p) PROVE JournalKept'
  BY <1>3, <1>t, <1>j DEF RepairLoad, TypeOK
<1>4. ASSUME NEW p \in Procs, NEW t \in TxnIds, RepairWrite(p, t) PROVE JournalKept'
  BY <1>4, <1>t, <1>j DEF RepairWrite, TypeOK, OneProcess
<1>5. ASSUME NEW p \in Procs, NEW t \in TxnIds, Fetch(p, t) PROVE JournalKept'
  BY <1>5, <1>t, <1>j DEF Fetch, TypeOK
<1>6. ASSUME NEW p \in Procs, Measure(p) PROVE JournalKept'
  BY <1>6, <1>t, <1>j DEF Measure, TypeOK
<1>7. ASSUME NEW p \in Procs, Classify(p) PROVE JournalKept'
  <2>1. CASE ~(AcceptedInspectable(p) /\ ProjectionClosed(p, Promotable(p)))
    BY <1>7, <1>a, <2>1, Zenon DEF Classify
  <2>2. CASE AcceptedInspectable(p) /\ ProjectionClosed(p, Promotable(p))
    <3>1. /\ pc[p] = "classify" /\ pc' = [pc EXCEPT ![p] = "prepare"]
          /\ UNCHANGED <<txn, todo, journal>>
      BY <1>7, <2>2, Zenon DEF Classify
    <3> QED
      BY <3>1, <1>t, <1>j DEF TypeOK
  <2> QED
    BY <2>1, <2>2
<1>8. ASSUME NEW p \in Procs, Prepare(p) PROVE JournalKept'
  BY <1>8, <1>t, <1>j DEF Prepare, TypeOK
<1>9. ASSUME NEW p \in Procs, CreateAnchor(p) PROVE JournalKept'
  BY <1>9, <1>t, <1>j DEF CreateAnchor, TypeOK
<1>10. ASSUME NEW p \in Procs, RecordValidated(p) PROVE JournalKept'
  BY <1>10, <1>t, <1>j DEF RecordValidated, TypeOK, OneProcess
<1>11. ASSUME NEW p \in Procs, CopyObjects(p) PROVE JournalKept'
  BY <1>11, <1>t, <1>j DEF CopyObjects, TypeOK
<1>12. ASSUME NEW p \in Procs, Promote(p) PROVE JournalKept'
  <2>1. CASE ~Unmoved(p)
    BY <1>12, <1>a, <2>1, Zenon DEF Promote
  <2>2. CASE Unmoved(p)
    <3>1. /\ pc[p] = "promote" /\ pc' = [pc EXCEPT ![p] = "record-complete"]
          /\ UNCHANGED <<locals, journal>>
      BY <1>12, <2>2, Zenon DEF Promote
    <3> QED
      BY <3>1, <1>t, <1>j DEF TypeOK
  <2> QED
    BY <2>1, <2>2
<1>13. ASSUME NEW p \in Procs, RecordComplete(p) PROVE JournalKept'
  BY <1>13, <1>t, <1>j DEF RecordComplete, TypeOK, OneProcess, TxnSteps, Steps
<1>14. ASSUME NEW p \in Procs, RemoveAnchor(p) PROVE JournalKept'
  BY <1>14, <1>t, <1>j DEF RemoveAnchor, TypeOK, OneProcess
<1>15. ASSUME NEW p \in Procs, ReconcileLoad(p) PROVE JournalKept'
  BY <1>15, <1>t, <1>j DEF ReconcileLoad, TypeOK
<1>16. ASSUME NEW p \in Procs, NEW t \in TxnIds, ReconcileRecord(p, t) PROVE JournalKept'
  BY <1>16, <1>t, <1>j DEF ReconcileRecord, TypeOK, OneProcess
<1>17. ASSUME NEW p \in Procs, ReconcileRemove(p) PROVE JournalKept'
  BY <1>17, <1>t, <1>j DEF ReconcileRemove, TypeOK, OneProcess
<1>18. ASSUME NEW p \in Procs, Finish(p) PROVE JournalKept'
  BY <1>18, <1>a, Zenon DEF Finish
<1>19. ASSUME NEW p \in Procs, Crash(p) PROVE JournalKept'
  BY <1>19, <1>a, Zenon DEF Crash
<1>20. CASE UNCHANGED vars
  BY <1>20, <1>j DEF vars
<1> QED
  BY <1>1, <1>2, <1>3, <1>4, <1>5, <1>6, <1>7, <1>8, <1>9, <1>10, <1>11, <1>12, <1>13,
     <1>14, <1>15, <1>16, <1>17, <1>18, <1>19, <1>20 DEF Next, SyncStep

\* Only the only process moves heads, and only forwards.
NoRewind == \A r \in Remotes, h \in Histories : refs'[r][h] >= refs[r][h]
LEMMA HeadsStep == SerialInv /\ [Next]_vars => HeadsAhead' /\ NoRewind
<1> SUFFICES ASSUME SerialInv, [Next]_vars PROVE HeadsAhead' /\ NoRewind
  OBVIOUS
<1>t. TypeOK /\ TypeOK' /\ OneProcess
  BY TypeStep DEF SerialInv, IInv
<1>h. HeadsAhead
  BY DEF SerialInv
<1>n. /\ \A n \in Heads : n \in Nat
      /\ \A p \in Procs : \A h \in Histories : requests[p][h] \in Heads
      /\ \A r \in Remotes, h \in Histories : advert'[r][h] \in Heads
  BY <1>t, ReplicationAssumption DEF Heads, TypeOK
<1>u. \A r \in Remotes, h \in Histories : refs[r][h] \in Nat /\ advert[r][h] \in Nat
  <2>1. \A r \in Remotes, h \in Histories : refs[r][h] \in Heads /\ advert[r][h] \in Heads
    BY <1>t DEF TypeOK
  <2> QED
    BY <1>n, <2>1
<1> USE DEF HeadsAhead, NoRewind, Running, Selected, Held, Step, journal, locals
<1>r. UNCHANGED refs => NoRewind
  BY <1>u
<1>a. ASSUME NEW p \in Procs, Stop(p), UNCHANGED <<refs, advert>> PROVE HeadsAhead' /\ NoRewind
  BY <1>a, <1>r, <1>t, <1>h DEF Stop, TypeOK
<1>s. ASSUME NEW p \in Procs, NEW to \in Steps \ {"idle", "classify"}, pc[p] # "idle",
             to \in Selected => pc[p] \in Selected,
             pc' = [pc EXCEPT ![p] = to], UNCHANGED <<refs, advert, remote, requests, promotable>>
      PROVE  HeadsAhead' /\ NoRewind
  BY <1>s, <1>r, <1>t, <1>h DEF TypeOK
<1>1. ASSUME NEW r \in Remotes, NEW h \in Histories, Publish(r, h) PROVE HeadsAhead' /\ NoRewind
  <2>1. /\ UNCHANGED <<refs, pc, remote, requests, promotable>>
        /\ \A q \in Remotes, k \in Histories : advert[q][k] <= advert'[q][k]
    BY <1>1, <1>t, <1>u DEF Publish, TypeOK
  <2>2. \A q \in Remotes, k \in Histories : advert'[q][k] \in Nat
    BY <1>n
  <2>3. \A p \in Procs : \A k \in Histories : requests[p][k] \in Nat
    BY <1>n
  <2>4. \A p \in Procs : Running(p) => remote[p] \in Remotes
    BY <1>t DEF TypeOK
  <2> QED
    BY <2>1, <2>2, <2>3, <2>4, <1>h, <1>r, <1>u
<1>2. ASSUME NEW p \in Procs, NEW r \in Remotes, Resolve(p, r) PROVE HeadsAhead' /\ NoRewind
  <2>1. /\ pc' = [pc EXCEPT ![p] = "repair-load"] /\ remote' = [remote EXCEPT ![p] = r]
        /\ requests' = [requests EXCEPT ![p] = Requests(r)] /\ UNCHANGED <<refs, advert, promotable>>
    BY <1>2 DEF Resolve
  <2>2. \A h \in Histories : Requests(r)[h] = 0 \/ Requests(r)[h] = advert[r][h]
    BY DEF Requests
  <2>3. \A h \in Histories : 0 <= advert[r][h] /\ advert[r][h] <= advert[r][h]
    BY <1>u
  <2>4. \A q \in Procs : q # p => pc'[q] = pc[q] /\ remote'[q] = remote[q] /\ requests'[q] = requests[q]
    BY <2>1, <1>t DEF TypeOK
  <2>5. pc'[p] = "repair-load" /\ remote'[p] = r /\ requests'[p] = Requests(r)
    BY <2>1, <1>t DEF TypeOK
  <2> QED
    BY <2>1, <2>2, <2>3, <2>4, <2>5, <1>h, <1>r
<1>3. ASSUME NEW p \in Procs, RepairLoad(p) PROVE HeadsAhead' /\ NoRewind
  BY <1>3, <1>s DEF RepairLoad, Steps
<1>4. ASSUME NEW p \in Procs, NEW t \in TxnIds, RepairWrite(p, t) PROVE HeadsAhead' /\ NoRewind
  BY <1>4, <1>h, <1>r DEF RepairWrite
<1>5. ASSUME NEW p \in Procs, NEW t \in TxnIds, Fetch(p, t) PROVE HeadsAhead' /\ NoRewind
  <2>1. /\ pc[p] = "repair" /\ pc' = [pc EXCEPT ![p] = "measure"]
        /\ UNCHANGED <<refs, advert, promotable, remote>>
    BY <1>5 DEF Fetch
  <2>2. /\ \A q \in Procs : q # p => requests'[q] = requests[q]
        /\ \A h \in Histories : requests'[p][h] = 0 \/ requests'[p][h] = requests[p][h]
    BY <1>5, <1>t DEF Fetch, TypeOK
  <2>3. \A q \in Procs : Running(q) => remote[q] \in Remotes
    BY <1>t DEF TypeOK
  <2>4. \A r \in Remotes, h \in Histories : 0 <= advert[r][h]
    BY <1>u
  <2>5. pc'[p] = "measure" /\ \A q \in Procs : q # p => pc'[q] = pc[q]
    BY <2>1, <1>t DEF TypeOK
  <2> QED
    BY <2>1, <2>2, <2>3, <2>4, <2>5, <1>h, <1>r
<1>6. ASSUME NEW p \in Procs, Measure(p) PROVE HeadsAhead' /\ NoRewind
  <2>1. \A h \in Requested(p) : h \in Histories /\ requests[p][h] # 0
    BY <1>t, <1>n DEF Requested, TypeOK
  <2>2. \A h \in promotable'[p] : requests[p][h] # 0
    BY <1>6, <1>t, <2>1 DEF Measure, TypeOK
  <2>3. /\ UNCHANGED <<refs, advert, remote, requests>>
        /\ \A q \in Procs : q # p => pc'[q] = pc[q] /\ promotable'[q] = promotable[q]
        /\ pc[p] = "measure" /\ pc'[p] = "classify"
    BY <1>6, <1>t DEF Measure, TypeOK
  <2> QED
    BY <2>2, <2>3, <1>h, <1>r
<1>7. ASSUME NEW p \in Procs, Classify(p) PROVE HeadsAhead' /\ NoRewind
  <2>1. CASE ~(AcceptedInspectable(p) /\ ProjectionClosed(p, Promotable(p)))
    BY <1>7, <1>a, <2>1, Zenon DEF Classify
  <2>2. CASE AcceptedInspectable(p) /\ ProjectionClosed(p, Promotable(p))
    <3>1. /\ pc[p] = "classify" /\ pc' = [pc EXCEPT ![p] = "prepare"]
          /\ promotable' = [promotable EXCEPT ![p] = Promotable(p)]
          /\ UNCHANGED <<refs, advert, remote, requests>>
      BY <1>7, <2>2, Zenon DEF Classify
    <3>2. Promotable(p) \subseteq promotable[p]
      BY DEF Promotable
    <3> QED
      BY <3>1, <3>2, <1>t, <1>h, <1>r DEF TypeOK
  <2> QED
    BY <2>1, <2>2
<1>8. ASSUME NEW p \in Procs, Prepare(p) PROVE HeadsAhead' /\ NoRewind
  BY <1>8, <1>s DEF Prepare, Steps
<1>9. ASSUME NEW p \in Procs, CreateAnchor(p) PROVE HeadsAhead' /\ NoRewind
  BY <1>9, <1>s DEF CreateAnchor, Steps
<1>10. ASSUME NEW p \in Procs, RecordValidated(p) PROVE HeadsAhead' /\ NoRewind
  BY <1>10, <1>s DEF RecordValidated, Steps
<1>11. ASSUME NEW p \in Procs, CopyObjects(p) PROVE HeadsAhead' /\ NoRewind
  BY <1>11, <1>s DEF CopyObjects, Steps
<1>12. ASSUME NEW p \in Procs, Promote(p) PROVE HeadsAhead' /\ NoRewind
  <2>1. CASE ~Unmoved(p)
    BY <1>12, <1>a, <2>1, Zenon DEF Promote
  <2>2. CASE Unmoved(p)
    <3> DEFINE moved == [h \in Histories |-> IF h \in promotable[p] THEN requests[p][h]
                                                                 ELSE refs[remote[p]][h]]
    <3>1. /\ pc[p] = "promote" /\ pc' = [pc EXCEPT ![p] = "record-complete"]
          /\ refs' = [refs EXCEPT ![remote[p]] = moved]
          /\ UNCHANGED <<locals, advert>>
      BY <1>12, <2>2, Zenon DEF Promote
    <3>2. remote[p] \in Remotes /\ requests[p] \in [Histories -> Heads]
      BY <1>t, <3>1 DEF TypeOK
    <3>3. \A h \in Histories : /\ moved[h] = refs[remote[p]][h] \/ moved[h] = requests[p][h]
                               /\ refs[remote[p]][h] <= moved[h] /\ moved[h] <= advert[remote[p]][h]
      BY <1>h, <1>u, <3>1, <3>2
    <3>4. \A h \in Histories : requests[p][h] = 0 \/ moved[h] <= requests[p][h]
      <4>1. \A h \in Histories : requests[p][h] \in Nat
        BY <1>n
      <4>2. \A h \in Histories : requests[p][h] = 0 \/ refs[remote[p]][h] <= requests[p][h]
        BY <1>h, <3>1
      <4> QED
        BY <3>3, <4>1, <4>2
    <3> HIDE DEF moved
    <3>5. \A q \in Procs : q = p
      BY <1>t DEF OneProcess
    <3>6. refs'[remote[p]] = moved /\ \A r \in Remotes : r # remote[p] => refs'[r] = refs[r]
      BY <1>t, <3>1, <3>2 DEF TypeOK
    <3>7. NoRewind
      BY <1>u, <3>3, <3>6
    <3>8. \A r \in Remotes, h \in Histories : refs'[r][h] <= advert[r][h]
      BY <1>h, <3>2, <3>3, <3>6
    <3>9. HeadsAhead'
      BY <1>h, <1>t, <3>1, <3>2, <3>4, <3>5, <3>6, <3>8 DEF TypeOK
    <3> QED
      BY <3>7, <3>9
  <2> QED
    BY <2>1, <2>2
<1>13. ASSUME NEW p \in Procs, RecordComplete(p) PROVE HeadsAhead' /\ NoRewind
  BY <1>13, <1>s DEF RecordComplete, Steps
<1>14. ASSUME NEW p \in Procs, RemoveAnchor(p) PROVE HeadsAhead' /\ NoRewind
  BY <1>14, <1>s DEF RemoveAnchor, Steps
<1>15. ASSUME NEW p \in Procs, ReconcileLoad(p) PROVE HeadsAhead' /\ NoRewind
  BY <1>15, <1>s DEF ReconcileLoad, Steps
<1>16. ASSUME NEW p \in Procs, NEW t \in TxnIds, ReconcileRecord(p, t) PROVE HeadsAhead' /\ NoRewind
  BY <1>16, <1>s DEF ReconcileRecord, Steps
<1>17. ASSUME NEW p \in Procs, ReconcileRemove(p) PROVE HeadsAhead' /\ NoRewind
  BY <1>17, <1>s DEF ReconcileRemove, Steps
<1>18. ASSUME NEW p \in Procs, Finish(p) PROVE HeadsAhead' /\ NoRewind
  BY <1>18, <1>a, Zenon DEF Finish
<1>19. ASSUME NEW p \in Procs, Crash(p) PROVE HeadsAhead' /\ NoRewind
  BY <1>19, <1>a, Zenon DEF Crash
<1>20. CASE UNCHANGED vars
  BY <1>20, <1>h, <1>r DEF vars
<1> HIDE DEF HeadsAhead, NoRewind
<1> QED
  BY <1>1, <1>2, <1>3, <1>4, <1>5, <1>6, <1>7, <1>8, <1>9, <1>10, <1>11, <1>12, <1>13,
     <1>14, <1>15, <1>16, <1>17, <1>18, <1>19, <1>20 DEF Next, SyncStep

LEMMA SerialInit == OneProcess /\ Init => SerialInv
<1> SUFFICES ASSUME OneProcess, Init PROVE SerialInv
  OBVIOUS
<1>1. IInv
  BY InitIInv
<1>2. JournalKept
  BY DEF Init, JournalKept, Held, Validated, NoReceipt
<1>3. HeadsAhead
  BY DEF Init, HeadsAhead, Selected, Held, Running
<1> QED
  BY <1>1, <1>2, <1>3 DEF SerialInv

LEMMA SerialStep == SerialInv /\ [Next]_vars => SerialInv'
<1>1. OneProcess => OneProcess'
  BY DEF OneProcess
<1> QED
  BY <1>1, NextIInv, JournalStep, HeadsStep DEF SerialInv

\* While syncs of a clone do not overlap, nothing rewrites the receipt of a settled
\* transaction, so an object it accepts may be left out of later receipts (comment
\* on replicationObjectsToAccept).
THEOREM SettledKept == OneProcess /\ Spec => SettledNeverRewritten
<1> DEFINE Kept == \A t \in TxnIds : Settled(t) => receipts'[t] = receipts[t]
<1>1. SerialInv /\ [Next]_vars => [Kept]_vars
  <2> SUFFICES ASSUME SerialInv, Next PROVE Kept
    BY DEF vars
  <2>t. TypeOK /\ IdsExclusive /\ JournalKept
    BY DEF SerialInv, IInv
  <2>w. ASSUME NEW u \in TxnIds, NEW x, receipts' = [receipts EXCEPT ![u] = x], ~Settled(u) PROVE Kept
    BY <2>t, <2>w DEF TypeOK
  <2>u. UNCHANGED receipts => Kept
    OBVIOUS
  <2> HIDE DEF Kept
  <2>1. ASSUME NEW p \in Procs, NEW t \in TxnIds, RepairWrite(p, t) \/ ReconcileRecord(p, t) PROVE Kept
    <3>1. ~Settled(t)
      BY <2>1, <2>t DEF RepairWrite, ReconcileRecord, JournalKept, Settled, Anchored, Step
    <3> QED
      BY <2>1, <2>w, <3>1 DEF RepairWrite, ReconcileRecord, WriteReceipt
  <2>2. ASSUME NEW p \in Procs, RecordValidated(p) \/ RecordComplete(p) PROVE Kept
    <3>1. txn[p] \in TxnIds
      BY <2>2, <2>t DEF RecordValidated, RecordComplete, Step, TypeOK, TxnSteps, Steps
    <3>2. ~Settled(txn[p])
      BY <2>2, <2>t DEF RecordValidated, RecordComplete, Step, JournalKept, Settled, Held
    <3> QED
      BY <2>2, <2>w, <3>1, <3>2 DEF RecordValidated, RecordComplete, WriteReceipt
  <2>3. ASSUME NEW p \in Procs, SyncStep(p) PROVE Kept
    BY <2>1, <2>2, <2>3, <2>u DEF SyncStep, RepairLoad, Fetch, Measure, Classify, Prepare, CreateAnchor,
       CopyObjects, Promote, RemoveAnchor, ReconcileLoad, ReconcileRemove, Finish, journal
  <2> QED
    BY <2>3, <2>u DEF Next, Publish, Resolve, Crash, journal
<1> QED
  BY <1>1, SerialInit, SerialStep, PTL DEF Spec, SettledNeverRewritten

\* While syncs of a clone do not overlap, no accepted head moves back, although
\* adverts, requests and accepted heads are read at different times
\* (quarantine.go prepareReplicationTransaction, promoteReplicationRefs).
THEOREM NeverRewinds == OneProcess /\ Spec => AcceptedNeverRewinds
<1>1. SerialInv /\ [Next]_vars => [\A r \in Remotes, h \in Histories : refs'[r][h] >= refs[r][h]]_vars
  BY HeadsStep DEF NoRewind
<1> QED
  BY <1>1, SerialInit, SerialStep, PTL DEF Spec, AcceptedNeverRewinds

\* While syncs of a clone do not overlap, nothing is stranded: with no sync running
\* and no anchor left, every accepted object is readable
\* (reconcileCompletedReplicationTransactions).
THEOREM QuietReadable == OneProcess /\ Spec => []QuietMeansReadable
<1>1. SerialInv /\ RefInv => QuietMeansReadable
  <2> SUFFICES ASSUME SerialInv, RefInv, \A t \in TxnIds : ~Anchored(t) PROVE Projectable
    BY DEF QuietMeansReadable
  <2>1. \A t \in TxnIds : ~Validated(t)
    BY DEF SerialInv, JournalKept
  <2>2. JournalCoherent /\ Denied = {}
    BY <2>1 DEF JournalCoherent, Denied
  <2> QED
    BY <2>2 DEF Projectable, Readable, RefInv, RefsBacked
<1> QED
  BY <1>1, RefInit, RefStep, SerialInit, SerialStep, PTL DEF Spec

----------------------------------------------------------------------------
(* The accepted events resolve one another's references, as long as those   *)
(* of the repository's own refs do.                                         *)

LocalClosed == \A o \in LocalObjects : References[o] \subseteq LocalObjects
Facts == LocalObjects \cup UNION {AcceptedChain(x) : x \in AcceptedRefs}

\* What is about to be promoted is resolved by the accepted facts and by itself.
SelectionSupplied ==
  \A p \in Procs : pc[p] \in Selected =>
    \A h \in promotable[p] : \A o \in Objs(p, h) : \A x \in References[o] :
      x \in Facts \/ \E k \in promotable[p] : x \in Objs(p, k)
ClosedInv == LocalClosed /\ SerialInv /\ SelectionSupplied /\ AcceptedEventsClosed

\* An object is a fact if it is local or below an accepted head.
FactsDescribed ==
  \A o : o \in Facts <=>
    o \in LocalObjects \/ \E r \in Remotes, h \in Histories : o \in Reach(h, refs[r][h])
LEMMA FactsAre == TypeOK => FactsDescribed
<1> SUFFICES ASSUME TypeOK, NEW o
             PROVE  o \in Facts <=>
               o \in LocalObjects \/ \E r \in Remotes, h \in Histories : o \in Reach(h, refs[r][h])
  BY DEF FactsDescribed
<1>1. ASSUME NEW r \in Remotes, NEW h \in Histories, o \in Reach(h, refs[r][h])
      PROVE  <<r, h>> \in AcceptedRefs /\ o \in AcceptedChain(<<r, h>>)
  <2>1. refs[r][h] \in Nat
    BY ReplicationAssumption DEF TypeOK, Heads
  <2>2. refs[r][h] > 0
    BY <1>1, <2>1 DEF Reach
  <2> QED
    BY <1>1, <2>2 DEF AcceptedRefs, AcceptedChain
<1>2. ASSUME NEW x \in AcceptedRefs, o \in AcceptedChain(x)
      PROVE  \E r \in Remotes, h \in Histories : o \in Reach(h, refs[r][h])
  BY <1>2 DEF AcceptedRefs, AcceptedChain
<1> QED
  BY <1>1, <1>2 DEF Facts

\* Facts are only gained while no head moves back.
LEMMA FactsGrow ==
  ASSUME TypeOK, TypeOK', NoRewind
  PROVE  Facts \subseteq Facts'
<1>1. FactsDescribed /\ FactsDescribed'
  BY FactsAre, PTL
<1>2. ASSUME NEW r \in Remotes, NEW h \in Histories
      PROVE  Reach(h, refs[r][h]) \subseteq Reach(h, refs'[r][h])
  <2>1. refs[r][h] \in Nat /\ refs'[r][h] \in Nat /\ refs'[r][h] >= refs[r][h]
    BY ReplicationAssumption DEF TypeOK, Heads, NoRewind
  <2> QED
    BY <2>1 DEF Reach
<1> QED
  BY <1>1, <1>2 DEF FactsDescribed

\* The fixpoint of Classify supplies itself.
LEMMA PromotableSupplied ==
  ASSUME NEW p \in Procs, NEW h \in Promotable(p), NEW o \in Objs(p, h), NEW x \in References[o]
  PROVE  x \in AcceptedFacts(p) \/ \E k \in Promotable(p) : x \in Objs(p, k)
<1>1. PICK S \in SUBSET promotable[p] : h \in S /\ \A k \in S : Supplied(p, S, k)
  BY DEF Promotable
<1>2. S \subseteq Promotable(p)
  BY <1>1 DEF Promotable
<1>3. x \in AcceptedFacts(p) \/ \E k \in S : x \in Objs(p, k)
  BY <1>1 DEF Supplied
<1> QED
  BY <1>2, <1>3

LEMMA ClosedStep == ClosedInv /\ [Next]_vars => ClosedInv'
<1> SUFFICES ASSUME ClosedInv, [Next]_vars PROVE ClosedInv'
  OBVIOUS
<1>t. TypeOK /\ TypeOK'
  BY TypeStep DEF ClosedInv, SerialInv, IInv
<1>s. SerialInv' /\ NoRewind
  BY SerialStep, HeadsStep DEF ClosedInv
<1>g. Facts \subseteq Facts'
  BY <1>t, <1>s, FactsGrow
<1>f. FactsDescribed /\ FactsDescribed'
  BY <1>t, FactsAre, PTL
<1>l. LocalClosed'
  BY DEF ClosedInv, LocalClosed
<1>i. SelectionSupplied
  BY DEF ClosedInv
<1>c. \A o \in Facts : References[o] \subseteq Facts
  BY DEF ClosedInv, AcceptedEventsClosed, Facts
<1>d. (\A o \in Facts : References[o] \subseteq Facts)' => AcceptedEventsClosed'
  BY DEF AcceptedEventsClosed, Facts
\* A process that had selected keeps its selection; one that classifies makes it.
<1>k. ASSUME \A q \in Procs : pc'[q] \in Selected =>
               pc[q] \in Selected /\ promotable'[q] = promotable[q] /\ requests'[q] = requests[q]
      PROVE  SelectionSupplied'
  BY <1>k, <1>g, <1>i DEF SelectionSupplied, Objs
<1>r. ASSUME UNCHANGED refs PROVE AcceptedEventsClosed'
  BY <1>r, <1>c, <1>d DEF Facts, AcceptedRefs, AcceptedChain
<1>q. ASSUME UNCHANGED refs, SelectionSupplied' PROVE ClosedInv'
  BY <1>q, <1>r, <1>l, <1>s DEF ClosedInv
<1> USE DEF Selected, Held, Step, locals
<1>a. ASSUME NEW p \in Procs, Stop(p), UNCHANGED refs PROVE ClosedInv'
  BY <1>a, <1>t, <1>k, <1>q DEF Stop, TypeOK
<1>1. ASSUME NEW r \in Remotes, NEW h \in Histories, Publish(r, h) PROVE ClosedInv'
  BY <1>1, <1>k, <1>q DEF Publish
<1>2. ASSUME NEW p \in Procs, NEW r \in Remotes, Resolve(p, r) PROVE ClosedInv'
  BY <1>2, <1>t, <1>k, <1>q DEF Resolve, TypeOK
<1>3. ASSUME NEW p \in Procs, RepairLoad(p) PROVE ClosedInv'
  BY <1>3, <1>t, <1>k, <1>q DEF RepairLoad, TypeOK
<1>4. ASSUME NEW p \in Procs, NEW t \in TxnIds, RepairWrite(p, t) PROVE ClosedInv'
  BY <1>4, <1>k, <1>q DEF RepairWrite
<1>5. ASSUME NEW p \in Procs, NEW t \in TxnIds, Fetch(p, t) PROVE ClosedInv'
  BY <1>5, <1>t, <1>k, <1>q DEF Fetch, TypeOK
<1>6. ASSUME NEW p \in Procs, Measure(p) PROVE ClosedInv'
  BY <1>6, <1>t, <1>k, <1>q DEF Measure, TypeOK
<1>7. ASSUME NEW p \in Procs, Classify(p) PROVE ClosedInv'
  <2>1. CASE ~(AcceptedInspectable(p) /\ ProjectionClosed(p, Promotable(p)))
    BY <1>7, <1>a, <2>1, Zenon DEF Classify
  <2>2. CASE AcceptedInspectable(p) /\ ProjectionClosed(p, Promotable(p))
    <3>1. /\ pc' = [pc EXCEPT ![p] = "prepare"]
          /\ promotable' = [promotable EXCEPT ![p] = Promotable(p)]
          /\ UNCHANGED <<requests, refs>>
      BY <1>7, <2>2, Zenon DEF Classify
    <3>2. promotable'[p] = Promotable(p)
          /\ \A q \in Procs : q # p => pc'[q] = pc[q] /\ promotable'[q] = promotable[q]
      BY <1>t, <3>1 DEF TypeOK
    <3>3. AcceptedFacts(p) \subseteq Facts
      BY DEF AcceptedFacts, Facts
    <3>4. \A h \in Promotable(p) : \A o \in Objs(p, h) : \A x \in References[o] :
            x \in Facts' \/ \E k \in Promotable(p) : x \in Objs(p, k)
      BY <1>g, <3>3, PromotableSupplied
    <3>5. SelectionSupplied'
      BY <1>g, <1>i, <3>1, <3>2, <3>4 DEF SelectionSupplied, Objs
    <3> QED
      BY <1>q, <3>1, <3>5
  <2> QED
    BY <2>1, <2>2
<1>8. ASSUME NEW p \in Procs, Prepare(p) PROVE ClosedInv'
  BY <1>8, <1>t, <1>k, <1>q DEF Prepare, TypeOK
<1>9. ASSUME NEW p \in Procs, CreateAnchor(p) PROVE ClosedInv'
  BY <1>9, <1>t, <1>k, <1>q DEF CreateAnchor, TypeOK
<1>10. ASSUME NEW p \in Procs, RecordValidated(p) PROVE ClosedInv'
  BY <1>10, <1>t, <1>k, <1>q DEF RecordValidated, TypeOK
<1>11. ASSUME NEW p \in Procs, CopyObjects(p) PROVE ClosedInv'
  BY <1>11, <1>t, <1>k, <1>q DEF CopyObjects, TypeOK
<1>12. ASSUME NEW p \in Procs, Promote(p) PROVE ClosedInv'
  <2>1. CASE ~Unmoved(p)
    BY <1>12, <1>a, <2>1, Zenon DEF Promote
  <2>2. CASE Unmoved(p)
    <3> DEFINE moved == [h \in Histories |-> IF h \in promotable[p] THEN requests[p][h]
                                                                 ELSE refs[remote[p]][h]]
    <3>1. /\ pc[p] = "promote" /\ pc' = [pc EXCEPT ![p] = "record-complete"]
          /\ refs' = [refs EXCEPT ![remote[p]] = moved]
          /\ UNCHANGED locals
      BY <1>12, <2>2, Zenon DEF Promote
    <3>2. SelectionSupplied'
      BY <1>k, <1>t, <3>1 DEF TypeOK
    <3>3. remote[p] \in Remotes
      BY <1>t, <3>1 DEF TypeOK, Running
    <3>4. /\ \A h \in Histories : h \in promotable[p] => refs'[remote[p]][h] = requests[p][h]
          /\ \A h \in Histories : h \notin promotable[p] => refs'[remote[p]][h] = refs[remote[p]][h]
          /\ \A r \in Remotes : r # remote[p] => refs'[r] = refs[r]
      BY <1>t, <3>1, <3>3 DEF TypeOK
    <3> HIDE DEF moved
    <3>5. promotable[p] \subseteq Histories
      BY <1>t DEF TypeOK
    <3>6. ASSUME NEW h \in promotable[p], NEW o \in Objs(p, h) PROVE o \in Facts'
      BY <1>f, <3>3, <3>4, <3>5 DEF Objs, FactsDescribed
    <3>7. ASSUME NEW o \in Facts' PROVE References[o] \subseteq Facts'
      <4>1. CASE o \in Facts
        BY <1>c, <1>g, <4>1
      <4>2. CASE o \notin Facts
        <5>1. PICK r \in Remotes, h \in Histories : o \in Reach(h, refs'[r][h]) /\ o \notin Reach(h, refs[r][h])
          BY <1>f, <4>2 DEF FactsDescribed
        <5>2. h \in promotable[p] /\ o \in Objs(p, h)
          BY <3>4, <5>1 DEF Objs
        <5>3. \A x \in References[o] : x \in Facts \/ \E k \in promotable[p] : x \in Objs(p, k)
          BY <1>i, <3>1, <5>2 DEF SelectionSupplied
        <5> QED
          BY <1>g, <3>6, <5>3
      <4> QED
        BY <4>1, <4>2
    <3> QED
      BY <1>d, <1>l, <1>s, <3>2, <3>7 DEF ClosedInv
  <2> QED
    BY <2>1, <2>2
<1>13. ASSUME NEW p \in Procs, RecordComplete(p) PROVE ClosedInv'
  BY <1>13, <1>t, <1>k, <1>q DEF RecordComplete, TypeOK
<1>14. ASSUME NEW p \in Procs, RemoveAnchor(p) PROVE ClosedInv'
  BY <1>14, <1>t, <1>k, <1>q DEF RemoveAnchor, TypeOK
<1>15. ASSUME NEW p \in Procs, ReconcileLoad(p) PROVE ClosedInv'
  BY <1>15, <1>t, <1>k, <1>q DEF ReconcileLoad, TypeOK
<1>16. ASSUME NEW p \in Procs, NEW t \in TxnIds, ReconcileRecord(p, t) PROVE ClosedInv'
  BY <1>16, <1>t, <1>k, <1>q DEF ReconcileRecord, TypeOK
<1>17. ASSUME NEW p \in Procs, ReconcileRemove(p) PROVE ClosedInv'
  BY <1>17, <1>t, <1>k, <1>q DEF ReconcileRemove, TypeOK
<1>18. ASSUME NEW p \in Procs, Finish(p) PROVE ClosedInv'
  BY <1>18, <1>a, Zenon DEF Finish
<1>19. ASSUME NEW p \in Procs, Crash(p) PROVE ClosedInv'
  BY <1>19, <1>a, Zenon DEF Crash
<1>20. CASE UNCHANGED vars
  BY <1>20, <1>k, <1>q DEF vars
<1> QED
  BY <1>1, <1>2, <1>3, <1>4, <1>5, <1>6, <1>7, <1>8, <1>9, <1>10, <1>11, <1>12, <1>13,
     <1>14, <1>15, <1>16, <1>17, <1>18, <1>19, <1>20 DEF Next, SyncStep

\* While syncs of a clone do not overlap, the accepted events never hold a dangling
\* exact reference, whatever selections failed and whatever the promoted ones refer
\* to (classifyReplicationDependencies, validateExactEventReferenceClosure).
THEOREM EventsClosed == OneProcess /\ LocalClosed /\ Spec => []AcceptedEventsClosed
<1>1. OneProcess /\ LocalClosed /\ Init => ClosedInv
  <2> SUFFICES ASSUME OneProcess, LocalClosed, Init PROVE ClosedInv
    OBVIOUS
  <2>1. SerialInv /\ TypeOK
    BY SerialInit DEF SerialInv, IInv
  <2>2. \A r \in Remotes, h \in Histories : Reach(h, refs[r][h]) = {}
    BY DEF Init, Reach
  <2>3. Facts = LocalObjects
    BY <2>1, <2>2, FactsAre DEF FactsDescribed
  <2>4. AcceptedEventsClosed
    BY <2>3 DEF LocalClosed, AcceptedEventsClosed, Facts
  <2>5. SelectionSupplied
    BY DEF Init, SelectionSupplied, Selected, Held
  <2> QED
    BY <2>1, <2>4, <2>5 DEF ClosedInv
<1>2. ClosedInv => AcceptedEventsClosed
  BY DEF ClosedInv
<1> QED
  BY <1>1, <1>2, ClosedStep, PTL DEF Spec

=============================================================================

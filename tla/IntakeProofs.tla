---------------------------- MODULE IntakeProofs ----------------------------
(***************************************************************************)
(* What holds of the contribution intake for every set of offers, local    *)
(* writes, budgets, crashes and branch moves (ContributionIntake.tla):     *)
(* installed records are never lost (RefsOnlyExtend), and two attempts     *)
(* that look conflict-free are (PendingAgree).                             *)
(*                                                                         *)
(* The first rests on RetainInv: a durable plan extends the history it was *)
(* made for, and its objects are written.  The second on ConflictInv: what *)
(* an attempt was compared with before its bytes were published is still   *)
(* all it has to be compared with when it settles.                         *)
(***************************************************************************)
EXTENDS ContributionIntake, SequenceTheorems, TLAPS

AttemptFields == {"intent", "artifact", "exact", "status", "recs", "auth", "win", "plan"}
PlanFields    == {"expected", "head", "durable", "complete"}
IsSequence(h) == h \in Seq({h[i] : i \in DOMAIN h})

\* The ledger is a sequence of attempts, and an attempt has a plan for every
\* actor; a command that runs works on one of them.
LedgerShape ==
  /\ IsSequence(cxAttempts)
  /\ \A i \in DOMAIN cxAttempts :
       /\ DOMAIN cxAttempts[i] = AttemptFields
       /\ DOMAIN cxAttempts[i].plan = CxActors
       /\ \A a \in CxActors : DOMAIN cxAttempts[i].plan[a] = PlanFields
  /\ cxPc # "idle" => cxAt \in DOMAIN cxAttempts
  /\ cxPc \in {"objects", "durable", "finish", "complete"} => cxActor \in CxActors
  /\ DOMAIN cxRefs = CxActors /\ \A a \in CxActors : IsSequence(cxRefs[a])

\* A head adds at most one record set to a history, and keeps its records.
Extends(h, g) ==
  \/ h = g
  \/ h = Append(g, Last(h)) /\ (g # Absent => Last(g) \subseteq Last(h))

PlansExtend ==
  \A i \in DOMAIN cxAttempts, a \in CxActors :
    LET p == cxAttempts[i].plan[a]
    IN  /\ IsSequence(p.expected) /\ IsSequence(p.head)
        /\ Extends(p.head, p.expected)
        /\ p.durable => p.head \in cxObjects

HeadWritten ==
  cxPc \in {"durable", "finish", "complete"} => PlanOf(cxAt, cxActor).head \in cxObjects

RetainInv == LedgerShape /\ PlansExtend /\ HeadWritten

\* Every attempt has an intent of its own, a local one that of its record.
IntentsUnique ==
  /\ \A i, k \in DOMAIN cxAttempts : cxAttempts[i].intent = cxAttempts[k].intent => i = k
  /\ \A i \in DOMAIN cxAttempts :
       IsLocal(i) => cxAttempts[i].intent = LocalIntent(cxAttempts[i].artifact)

\* An attempt received as pending has its bytes kept.
PendingKept ==
  \A i \in DOMAIN cxAttempts :
    (cxAttempts[i].status = "pending" /\ ~IsLocal(i)) => BytesKept(i)

\* From its verification to its settling an attempt carries the marks of every
\* pending attempt it conflicts with.
MarksComplete ==
  /\ cxPc \in {"verify", "publish", "settle"} => ~IsLocal(cxAt)
  /\ cxPc = "settle" => BytesKept(cxAt)
  /\ cxPc \in {"publish", "settle"} =>
       \A k \in DOMAIN cxAttempts :
         (/\ k # cxAt /\ cxAttempts[k].status = "pending" /\ ~IsLocal(k)
          /\ CrossConflict(cxAttempts[k].artifact, cxAttempts[cxAt].artifact)) => k \in cxMarks

ConflictInv ==
  RetainInv /\ IntentsUnique /\ PendingKept /\ MarksComplete /\ NoPendingConflict

-----------------------------------------------------------------------------
(* Sequences.                                                                *)

LEMMA SequenceBounds ==
  ASSUME NEW s, IsSequence(s)
  PROVE  Len(s) \in Nat /\ DOMAIN s = 1..Len(s)
  BY DEF IsSequence

LEMMA SequenceOf ==
  ASSUME NEW s, IsSequence(s), NEW t, DOMAIN t = DOMAIN s, t = [k \in DOMAIN t |-> t[k]]
  PROVE  IsSequence(t)
<1> DEFINE R == {t[k] : k \in DOMAIN t}
<1>1. t \in [1..Len(s) -> R] /\ Len(s) \in Nat
  BY SequenceBounds
<1> HIDE DEF R
<1>2. t \in Seq(R)
  BY <1>1
<1> QED
  BY <1>2 DEF IsSequence, R

LEMMA AppendMoves ==
  ASSUME NEW s, IsSequence(s), NEW e
  PROVE  /\ IsSequence(Append(s, e)) /\ Len(Append(s, e)) = Len(s) + 1
         /\ DOMAIN Append(s, e) = DOMAIN s \cup {Len(s) + 1} /\ Len(s) + 1 \notin DOMAIN s
         /\ Append(s, e)[Len(s) + 1] = e
         /\ \A i \in DOMAIN s : Append(s, e)[i] = s[i]
         /\ Append(s, e) # <<>> /\ Last(Append(s, e)) = e
<1> DEFINE R == {s[i] : i \in DOMAIN s} \cup {e}
           t == Append(s, e)
<1>1. s \in Seq(R) /\ e \in R
  BY SequenceBounds DEF IsSequence
<1> HIDE DEF R
<1>2. /\ t \in Seq(R) /\ Len(t) = Len(s) + 1 /\ t[Len(s) + 1] = e
      /\ \A i \in DOMAIN s : t[i] = s[i]
      /\ DOMAIN s = 1..Len(s) /\ Len(s) \in Nat /\ DOMAIN t = 1..(Len(s) + 1)
  BY <1>1
<1>3. DOMAIN t = DOMAIN s \cup {Len(s) + 1} /\ Len(s) + 1 \notin DOMAIN s
  BY <1>2
<1> HIDE DEF t
<1>4. t \in [1..Len(t) -> {t[i] : i \in DOMAIN t}] /\ Len(t) \in Nat
  BY <1>2
<1>5. IsSequence(t)
  BY <1>4 DEF IsSequence
<1>6. t # <<>> /\ Last(t) = e
  BY <1>2 DEF Last
<1> QED
  BY <1>2, <1>3, <1>5, <1>6 DEF t

-----------------------------------------------------------------------------
(* What the steps make of the ledger.                                        *)

\* No step takes an attempt or its identity back.
AttemptKept(k) ==
  /\ DOMAIN cxAttempts'[k] = AttemptFields /\ DOMAIN cxAttempts'[k].plan = CxActors
  /\ cxAttempts'[k].intent = cxAttempts[k].intent
  /\ cxAttempts'[k].artifact = cxAttempts[k].artifact

StatusesSet(i, s, marks) ==
  /\ IsSequence(cxAttempts') /\ DOMAIN cxAttempts' = DOMAIN cxAttempts
  /\ \A k \in DOMAIN cxAttempts :
       /\ AttemptKept(k) /\ cxAttempts'[k].plan = cxAttempts[k].plan
       /\ cxAttempts'[k].status = IF k = i THEN s ELSE IF k \in marks THEN "conflict"
                                  ELSE cxAttempts[k].status

LEMMA StatusMoves ==
  ASSUME LedgerShape, NEW i \in DOMAIN cxAttempts, NEW s, NEW marks,
         cxAttempts' = [Marked(marks) EXCEPT ![i].status = s]
  PROVE  StatusesSet(i, s, marks)
<1>1. DOMAIN cxAttempts' = DOMAIN cxAttempts
  BY DEF Marked
<1>2. IsSequence(cxAttempts')
  BY <1>1, SequenceOf DEF LedgerShape
<1>3. \A k \in DOMAIN cxAttempts :
       /\ AttemptKept(k) /\ cxAttempts'[k].plan = cxAttempts[k].plan
       /\ cxAttempts'[k].status = IF k = i THEN s ELSE IF k \in marks THEN "conflict"
                                  ELSE cxAttempts[k].status
  BY DEF Marked, LedgerShape, AttemptFields, AttemptKept
<1> QED
  BY <1>1, <1>2, <1>3 DEF StatusesSet

PlanSet(i, a, p) ==
  /\ IsSequence(cxAttempts') /\ DOMAIN cxAttempts' = DOMAIN cxAttempts
  /\ \A k \in DOMAIN cxAttempts :
       /\ AttemptKept(k)
       /\ \A b \in CxActors :
            cxAttempts'[k].plan[b] = IF k = i /\ b = a THEN p ELSE cxAttempts[k].plan[b]

LEMMA PlanMoves ==
  ASSUME LedgerShape, NEW i \in DOMAIN cxAttempts, NEW a \in CxActors, NEW p, SetPlan(i, a, p)
  PROVE  PlanSet(i, a, p) /\ \A k \in DOMAIN cxAttempts : cxAttempts'[k].status = cxAttempts[k].status
<1>1. DOMAIN cxAttempts' = DOMAIN cxAttempts
  BY DEF SetPlan
<1>2. IsSequence(cxAttempts')
  BY <1>1, SequenceOf DEF LedgerShape, SetPlan
<1>3. \A k \in DOMAIN cxAttempts :
       /\ AttemptKept(k)
       /\ \A b \in CxActors :
            cxAttempts'[k].plan[b] = IF k = i /\ b = a THEN p ELSE cxAttempts[k].plan[b]
       /\ cxAttempts'[k].status = cxAttempts[k].status
  BY DEF SetPlan, LedgerShape, AttemptFields, AttemptKept
<1> QED
  BY <1>1, <1>2, <1>3 DEF PlanSet

LEMMA PlanActorMoves ==
  ASSUME LedgerShape, NEW a \in CxActors, PlanActor(a)
  PROVE  /\ PlanSet(cxAt, a, NewPlan(a)) /\ cxAt \in DOMAIN cxAttempts
         /\ \A k \in DOMAIN cxAttempts :
              cxAttempts'[k].status = IF k = cxAt /\ IsLocal(cxAt) THEN "pending"
                                      ELSE cxAttempts[k].status
<1>0. cxAt \in DOMAIN cxAttempts
  BY DEF LedgerShape, PlanActor
<1>1. cxAttempts' = [cxAttempts EXCEPT ![cxAt].plan[a] = NewPlan(a),
                       ![cxAt].status = IF IsLocal(cxAt) THEN "pending" ELSE @]
  BY DEF PlanActor
<1>2. DOMAIN cxAttempts' = DOMAIN cxAttempts
  BY <1>1
<1>3. IsSequence(cxAttempts')
  BY <1>1, <1>2, SequenceOf DEF LedgerShape
<1>4. \A k \in DOMAIN cxAttempts :
       /\ AttemptKept(k)
       /\ \A b \in CxActors :
            cxAttempts'[k].plan[b] = IF k = cxAt /\ b = a THEN NewPlan(a)
                                     ELSE cxAttempts[k].plan[b]
       /\ cxAttempts'[k].status = IF k = cxAt /\ IsLocal(cxAt) THEN "pending"
                                  ELSE cxAttempts[k].status
  BY <1>0, <1>1 DEF LedgerShape, AttemptFields, AttemptKept
<1> QED
  BY <1>0, <1>2, <1>3, <1>4 DEF PlanSet

LEMMA AttestMoves ==
  ASSUME LedgerShape, Attest
  PROVE  /\ IsSequence(cxAttempts') /\ DOMAIN cxAttempts' = DOMAIN cxAttempts
         /\ cxAt \in DOMAIN cxAttempts
         /\ \A k \in DOMAIN cxAttempts :
              /\ AttemptKept(k) /\ cxAttempts'[k].plan = cxAttempts[k].plan
              /\ cxAttempts'[k].status = cxAttempts[k].status
<1>0. cxAt \in DOMAIN cxAttempts
  BY DEF LedgerShape, Attest
<1>1. CASE cxAttempts' = cxAttempts
  BY <1>0, <1>1 DEF LedgerShape, AttemptKept
<1>2. CASE cxAttempts' = [cxAttempts EXCEPT ![cxAt].recs = ResultOf(cxAt)]
  <2>1. DOMAIN cxAttempts' = DOMAIN cxAttempts
    BY <1>2
  <2>2. IsSequence(cxAttempts')
    BY <1>2, <2>1, SequenceOf DEF LedgerShape
  <2>3. \A k \in DOMAIN cxAttempts :
          /\ AttemptKept(k) /\ cxAttempts'[k].plan = cxAttempts[k].plan
          /\ cxAttempts'[k].status = cxAttempts[k].status
    BY <1>0, <1>2 DEF LedgerShape, AttemptFields, AttemptKept
  <2> QED
    BY <1>0, <2>1, <2>2, <2>3
<1> QED
  BY <1>1, <1>2 DEF Attest

\* A reservation adds an attempt without plans.
ReservedAs(intent, d) ==
  /\ IsSequence(cxAttempts') /\ DOMAIN cxAttempts' = DOMAIN cxAttempts \cup {Len(cxAttempts) + 1}
  /\ Len(cxAttempts) + 1 \notin DOMAIN cxAttempts
  /\ \A k \in DOMAIN cxAttempts : cxAttempts'[k] = cxAttempts[k]
  /\ LET n == cxAttempts'[Len(cxAttempts) + 1] IN
       /\ DOMAIN n = AttemptFields /\ DOMAIN n.plan = CxActors
       /\ n.intent = intent /\ n.artifact = d /\ n.status = "reserved"
       /\ \A a \in CxActors : n.plan[a] = NoPlan

LEMMA ReserveMoves ==
  ASSUME LedgerShape, NEW intent, NEW d, NEW exact, NEW recs,
         cxAttempts' = Append(cxAttempts, NewAttempt(intent, d, exact, recs))
  PROVE  ReservedAs(intent, d)
<1> DEFINE n == NewAttempt(intent, d, exact, recs)
<1>1. /\ DOMAIN n = AttemptFields /\ DOMAIN n.plan = CxActors
      /\ n.intent = intent /\ n.artifact = d /\ n.status = "reserved"
      /\ \A a \in CxActors : n.plan[a] = NoPlan
  BY DEF NewAttempt, AttemptFields
<1>2. cxAttempts' = Append(cxAttempts, n)
  OBVIOUS
<1> HIDE DEF n
<1> QED
  BY <1>1, <1>2, AppendMoves DEF ReservedAs, LedgerShape

\* Where a step goes in the ledger: it leaves it, reserves, sets statuses, plans
\* or attests.
LEMMA StepsOf ==
  ASSUME LedgerShape, ContributionNext
  PROVE  \/ UNCHANGED cxAttempts
         \/ \E o \in CxOffers : ReceiveNew(o.intent, o.artifact, o.exact)
         \/ \E d \in CxLocal : LocalReserve(d)
         \/ SignReceipts
         \/ \E i \in DOMAIN cxAttempts : Recover(i)
         \/ ReceiveFails \/ MarkConflictsFails \/ PublishFails \/ ReceiveSettle
         \/ \E a \in CxActors : PlanActor(a)
         \/ MarkDurable \/ MarkComplete \/ Attest
  BY Zenon DEF ContributionNext, ReceiveSteps, RetainSteps, LocalSteps, Rollover, BranchMoves, EvidenceMoves,
    ContributionCrash, ReceiveReplay, RetryNative, ReceiveVerified, ReceivePublish, ReplanActor,
    FinishKnown, WriteManifest, UpdateRef, RetainRefused, RetainNative, CommandEnds, NativeAppend,
    AttestRefused, PinNativeObservation

\* The attempts alone keep their shape.
AttemptsShape ==
  /\ IsSequence(cxAttempts)
  /\ \A i \in DOMAIN cxAttempts :
       /\ DOMAIN cxAttempts[i] = AttemptFields
       /\ DOMAIN cxAttempts[i].plan = CxActors
       /\ \A a \in CxActors : DOMAIN cxAttempts[i].plan[a] = PlanFields

LEMMA AttemptsStep ==
  ASSUME LedgerShape, ContributionNext
  PROVE  /\ AttemptsShape'
         /\ DOMAIN cxAttempts \subseteq DOMAIN cxAttempts'
         /\ \A k \in DOMAIN cxAttempts : AttemptKept(k)
<1> DEFINE Goal == /\ AttemptsShape' /\ DOMAIN cxAttempts \subseteq DOMAIN cxAttempts'
                   /\ \A k \in DOMAIN cxAttempts : AttemptKept(k)
<1>s. AttemptsShape
  BY DEF LedgerShape, AttemptsShape
<1>p. DOMAIN NoPlan = PlanFields /\ \A a : DOMAIN NewPlan(a) = PlanFields
  BY DEF NoPlan, NewPlan, PlanFields
<1>1. CASE UNCHANGED cxAttempts
  BY <1>1, <1>s DEF AttemptsShape, AttemptKept
<1>2. ASSUME NEW intent, NEW d, ReservedAs(intent, d)
      PROVE  Goal
  BY <1>2, <1>s, <1>p DEF ReservedAs, AttemptsShape, AttemptKept
<1>3. ASSUME NEW i, NEW s, NEW marks, StatusesSet(i, s, marks)
      PROVE  Goal
  BY <1>3, <1>s DEF StatusesSet, AttemptsShape, AttemptKept
<1>4. ASSUME NEW i, NEW a, NEW p, DOMAIN p = PlanFields, PlanSet(i, a, p)
      PROVE  Goal
  BY <1>4, <1>s DEF PlanSet, AttemptsShape, AttemptKept
<1>5. ASSUME NEW o \in CxOffers, ReceiveNew(o.intent, o.artifact, o.exact)
      PROVE  Goal
  BY <1>2, <1>5, ReserveMoves DEF ReceiveNew, Reserved
<1>6. ASSUME NEW d \in CxLocal, LocalReserve(d)
      PROVE  Goal
  BY <1>2, <1>6, ReserveMoves DEF LocalReserve
<1>7. CASE SignReceipts
  <2>1. \/ UNCHANGED cxAttempts
        \/ cxAttempts' = Reserved(ControlIntent(cxAt), Control(cxAt), TRUE)
    BY <1>7 DEF SignReceipts
  <2> QED
    BY <1>1, <1>2, <2>1, ReserveMoves DEF Reserved
<1>8. ASSUME NEW i \in DOMAIN cxAttempts, Recover(i)
      PROVE  Goal
  BY <1>3, <1>8, StatusMoves DEF Recover
<1>9. CASE ReceiveFails \/ MarkConflictsFails \/ PublishFails \/ ReceiveSettle
  <2>1. cxAt \in DOMAIN cxAttempts
    BY <1>9 DEF LedgerShape, ReceiveFails, MarkConflictsFails, PublishFails, ReceiveSettle
  <2>2. \E s, marks : cxAttempts' = [Marked(marks) EXCEPT ![cxAt].status = s]
    BY <1>9, Zenon DEF ReceiveFails, MarkConflictsFails, PublishFails, ReceiveSettle, SetStatus
  <2> QED
    BY <1>3, <2>1, <2>2, StatusMoves
<1>10. ASSUME NEW a \in CxActors, PlanActor(a)
       PROVE  Goal
  BY <1>4, <1>10, <1>p, PlanActorMoves
<1>11. CASE MarkDurable \/ MarkComplete
  <2>1. cxAt \in DOMAIN cxAttempts /\ cxActor \in CxActors
    BY <1>11 DEF LedgerShape, MarkDurable, MarkComplete
  <2>2. DOMAIN PlanOf(cxAt, cxActor) = PlanFields
    BY <2>1 DEF LedgerShape, PlanOf
  <2>3. PICK p : DOMAIN p = PlanFields /\ SetPlan(cxAt, cxActor, p)
    BY <1>11, <2>2 DEF MarkDurable, MarkComplete
  <2> QED
    BY <1>4, <2>1, <2>3, PlanMoves
<1>12. CASE Attest
  BY <1>12, <1>s, AttestMoves DEF AttemptsShape, AttemptKept
<1> QED
  BY <1>1, <1>5, <1>6, <1>7, <1>8, <1>9, <1>10, <1>11, <1>12, StepsOf

LEMMA ShapeStep ==
  ASSUME RetainInv, ContributionNext
  PROVE  LedgerShape'
<1>a. LedgerShape /\ PlansExtend
  BY DEF RetainInv
<1>s. /\ AttemptsShape' /\ DOMAIN cxAttempts \subseteq DOMAIN cxAttempts'
  BY <1>a, AttemptsStep
<1>1. cxPc' # "idle" => cxAt' \in DOMAIN cxAttempts'
  <2>1. CASE cxAt' \in DOMAIN cxAttempts
    BY <2>1, <1>s
  <2>2. CASE cxAt' = Len(cxAttempts) + 1 /\ \E e : cxAttempts' = Append(cxAttempts, e)
    BY <2>2, <1>a, AppendMoves DEF LedgerShape
  <2>3. CASE cxPc # "idle" /\ cxAt' = cxAt
    BY <2>1, <2>3, <1>a DEF LedgerShape
  <2> QED
    BY <2>1, <2>2, <2>3, Zenon DEF ContributionNext, ReceiveNew, LocalReserve, Recover,
      ReceiveReplay, RetryNative, ReceiveSteps, ReceiveVerified, ReceivePublish, ReceiveSettle,
      MarkConflictsFails, ReceiveFails, PublishFails, RetainSteps, PlanActor, ReplanActor,
      FinishKnown, WriteManifest, MarkDurable, UpdateRef, MarkComplete, RetainRefused,
      SignReceipts, RetainNative, CommandEnds, LocalSteps, NativeAppend, Attest, AttestRefused,
      PinNativeObservation, Rollover, BranchMoves, EvidenceMoves, ContributionCrash, Goto, Reserved, WithIntent
<1>2. cxPc' \in {"objects", "durable", "finish", "complete"} => cxActor' \in CxActors
  BY <1>a DEF LedgerShape, ContributionNext, ReceiveNew, LocalReserve, Recover,
      ReceiveReplay, RetryNative, ReceiveSteps, ReceiveVerified, ReceivePublish, ReceiveSettle,
      MarkConflictsFails, ReceiveFails, PublishFails, RetainSteps, PlanActor, ReplanActor,
      FinishKnown, WriteManifest, MarkDurable, UpdateRef, MarkComplete, RetainRefused,
      SignReceipts, RetainNative, CommandEnds, LocalSteps, NativeAppend, Attest, AttestRefused,
      PinNativeObservation, Rollover, BranchMoves, EvidenceMoves, ContributionCrash, Goto
<1>3. DOMAIN cxRefs' = CxActors /\ \A a \in CxActors : IsSequence(cxRefs'[a])
  <2>1. CASE cxRefs' = cxRefs
    BY <2>1, <1>a DEF LedgerShape
  <2>2. CASE UpdateRef
    <3>1. cxAt \in DOMAIN cxAttempts /\ cxActor \in CxActors
      BY <2>2, <1>a DEF UpdateRef, LedgerShape
    <3>2. IsSequence(PlanOf(cxAt, cxActor).head)
      BY <3>1, <1>a DEF PlansExtend, PlanOf
    <3>3. cxRefs' = [cxRefs EXCEPT ![cxActor] = PlanOf(cxAt, cxActor).head]
      BY <2>2 DEF UpdateRef
    <3> QED
      BY <3>2, <3>3, <1>a DEF LedgerShape
  <2> QED
    BY <2>1, <2>2, Zenon DEF ContributionNext, ReceiveNew, LocalReserve, Recover,
      ReceiveReplay, RetryNative, ReceiveSteps, ReceiveVerified, ReceivePublish, ReceiveSettle,
      MarkConflictsFails, ReceiveFails, PublishFails, RetainSteps, PlanActor, ReplanActor,
      FinishKnown, WriteManifest, MarkDurable, MarkComplete, RetainRefused,
      SignReceipts, RetainNative, CommandEnds, LocalSteps, NativeAppend, Attest, AttestRefused,
      PinNativeObservation, Rollover, BranchMoves, EvidenceMoves, ContributionCrash, cxStore
<1> QED
  BY <1>s, <1>1, <1>2, <1>3 DEF LedgerShape, AttemptsShape

-----------------------------------------------------------------------------
(* Plans extend the history they were made for.                              *)

LEMMA NewPlanExtends ==
  ASSUME LedgerShape, NEW a \in CxActors
  PROVE  /\ IsSequence(NewPlan(a).expected) /\ IsSequence(NewPlan(a).head)
         /\ Extends(NewPlan(a).head, NewPlan(a).expected) /\ ~NewPlan(a).durable
<1>1. /\ NewPlan(a).expected = cxRefs[a] /\ ~NewPlan(a).durable
      /\ NewPlan(a).head = PlannedHead(cxAttempts[cxAt], a)
  BY DEF NewPlan
<1>2. IsSequence(cxRefs[a])
  BY DEF LedgerShape
<1> DEFINE S == Installed(a) \cup RecordsOf(cxAttempts[cxAt], a)
<1>3. PlannedHead(cxAttempts[cxAt], a) \in {cxRefs[a], Append(cxRefs[a], S)}
  BY DEF PlannedHead
<1>4. cxRefs[a] # Absent => Last(cxRefs[a]) \subseteq S
  BY DEF Installed
<1> HIDE DEF S
<1>5. IsSequence(Append(cxRefs[a], S)) /\ Last(Append(cxRefs[a], S)) = S
  BY <1>2, AppendMoves
<1> QED
  BY <1>1, <1>2, <1>3, <1>4, <1>5 DEF Extends

LEMMA ObjectsGrow ==
  ASSUME ContributionNext
  PROVE  cxObjects \subseteq cxObjects'
  BY DEF ContributionNext, ReceiveNew, LocalReserve, Recover,
      ReceiveReplay, RetryNative, ReceiveSteps, ReceiveVerified, ReceivePublish, ReceiveSettle,
      MarkConflictsFails, ReceiveFails, PublishFails, RetainSteps, PlanActor, ReplanActor,
      FinishKnown, WriteManifest, MarkDurable, MarkComplete, RetainRefused, UpdateRef,
      SignReceipts, RetainNative, CommandEnds, LocalSteps, NativeAppend, Attest, AttestRefused,
      PinNativeObservation, Rollover, BranchMoves, EvidenceMoves, ContributionCrash, cxStore

\* What PlansExtend says of one plan.
PlanSound(p, objects) ==
  /\ IsSequence(p.expected) /\ IsSequence(p.head)
  /\ Extends(p.head, p.expected)
  /\ p.durable => p.head \in objects

LEMMA PlansStep ==
  ASSUME RetainInv, ContributionNext
  PROVE  PlansExtend'
<1>a. LedgerShape /\ PlansExtend /\ HeadWritten
  BY DEF RetainInv
<1>b. \A i \in DOMAIN cxAttempts, a \in CxActors : PlanSound(cxAttempts[i].plan[a], cxObjects)
  BY <1>a DEF PlansExtend, PlanSound
<1>c. \A p : PlanSound(p, cxObjects) => PlanSound(p, cxObjects')
  BY ObjectsGrow DEF PlanSound
<1> DEFINE Goal == \A i \in DOMAIN cxAttempts', a \in CxActors : PlanSound(cxAttempts'[i].plan[a], cxObjects')
<1>p. PlanSound(NoPlan, cxObjects')
  BY DEF PlanSound, NoPlan, Extends, IsSequence
<1> SUFFICES Goal
  BY DEF PlansExtend, PlanSound
<1> HIDE DEF PlanSound
<1>1. CASE UNCHANGED cxAttempts
  BY <1>1, <1>b, <1>c
<1>2. ASSUME NEW intent, NEW d, ReservedAs(intent, d)
      PROVE  Goal
  BY <1>2, <1>b, <1>c, <1>p DEF ReservedAs
<1>3. ASSUME NEW i, NEW s, NEW marks, StatusesSet(i, s, marks)
      PROVE  Goal
  BY <1>3, <1>b, <1>c DEF StatusesSet
<1>4. ASSUME NEW i, NEW a, NEW p, PlanSound(p, cxObjects'), PlanSet(i, a, p)
      PROVE  Goal
  BY <1>4, <1>b, <1>c DEF PlanSet
<1>5. ASSUME NEW o \in CxOffers, ReceiveNew(o.intent, o.artifact, o.exact)
      PROVE  Goal
  BY <1>2, <1>5, <1>a, ReserveMoves DEF ReceiveNew, Reserved
<1>6. ASSUME NEW d \in CxLocal, LocalReserve(d)
      PROVE  Goal
  BY <1>2, <1>6, <1>a, ReserveMoves DEF LocalReserve
<1>7. CASE SignReceipts
  <2>1. \/ UNCHANGED cxAttempts
        \/ cxAttempts' = Reserved(ControlIntent(cxAt), Control(cxAt), TRUE)
    BY <1>7 DEF SignReceipts
  <2> QED
    BY <1>1, <1>2, <1>a, <2>1, ReserveMoves DEF Reserved
<1>8. ASSUME NEW i \in DOMAIN cxAttempts, Recover(i)
      PROVE  Goal
  BY <1>3, <1>8, <1>a, StatusMoves DEF Recover
<1>9. CASE ReceiveFails \/ MarkConflictsFails \/ PublishFails \/ ReceiveSettle
  <2>1. cxAt \in DOMAIN cxAttempts
    BY <1>9, <1>a DEF LedgerShape, ReceiveFails, MarkConflictsFails, PublishFails, ReceiveSettle
  <2>2. \E s, marks : cxAttempts' = [Marked(marks) EXCEPT ![cxAt].status = s]
    BY <1>9, Zenon DEF ReceiveFails, MarkConflictsFails, PublishFails, ReceiveSettle, SetStatus
  <2> QED
    BY <1>3, <1>a, <2>1, <2>2, StatusMoves
<1>10. ASSUME NEW a \in CxActors, PlanActor(a)
       PROVE  Goal
  <2>1. PlanSound(NewPlan(a), cxObjects)
    BY <1>a, NewPlanExtends DEF PlanSound
  <2> QED
    BY <1>4, <1>10, <1>a, <1>c, <2>1, PlanActorMoves
<1>11. CASE MarkDurable \/ MarkComplete
  <2>1. cxAt \in DOMAIN cxAttempts /\ cxActor \in CxActors
    BY <1>11, <1>a DEF LedgerShape, MarkDurable, MarkComplete
  <2>2. /\ DOMAIN PlanOf(cxAt, cxActor) = PlanFields /\ PlanSound(PlanOf(cxAt, cxActor), cxObjects)
        /\ PlanOf(cxAt, cxActor).head \in cxObjects
    BY <1>11, <2>1, <1>a, <1>b DEF LedgerShape, PlanOf, HeadWritten, MarkDurable, MarkComplete
  <2> DEFINE p == PlanOf(cxAt, cxActor)
             q == [p EXCEPT !.durable = TRUE]
             r == [p EXCEPT !.complete = TRUE]
  <2>3. PlanSound(q, cxObjects) /\ PlanSound(r, cxObjects)
    <3>1. /\ q.expected = p.expected /\ q.head = p.head
          /\ r.expected = p.expected /\ r.head = p.head /\ r.durable = p.durable
      BY <2>2 DEF PlanFields
    <3> HIDE DEF p, q, r
    <3> QED
      BY <3>1, <2>2 DEF PlanSound, p
  <2>4. SetPlan(cxAt, cxActor, q) \/ SetPlan(cxAt, cxActor, r)
    BY <1>11 DEF MarkDurable, MarkComplete
  <2> QED
    BY <1>4, <1>a, <1>c, <2>1, <2>3, <2>4, PlanMoves
<1>12. CASE Attest
  BY <1>12, <1>a, <1>b, <1>c, AttestMoves
<1> QED
  BY <1>1, <1>5, <1>6, <1>7, <1>8, <1>9, <1>10, <1>11, <1>12, <1>a, StepsOf

LEMMA HeadStep ==
  ASSUME RetainInv, ContributionNext
  PROVE  HeadWritten'
<1>a. LedgerShape /\ PlansExtend /\ HeadWritten
  BY DEF RetainInv
<1>1. CASE WriteManifest
  BY <1>1 DEF WriteManifest, HeadWritten, PlanOf
<1>2. CASE MarkDurable
  <2>1. cxAt \in DOMAIN cxAttempts /\ cxActor \in CxActors
    BY <1>2, <1>a DEF LedgerShape, MarkDurable
  <2>2. DOMAIN PlanOf(cxAt, cxActor) = PlanFields /\ PlanOf(cxAt, cxActor).head \in cxObjects
    BY <1>2, <2>1, <1>a DEF LedgerShape, PlanOf, HeadWritten, MarkDurable
  <2> DEFINE q == [PlanOf(cxAt, cxActor) EXCEPT !.durable = TRUE]
  <2>3. q.head = PlanOf(cxAt, cxActor).head
    BY <2>2 DEF PlanFields
  <2>4. SetPlan(cxAt, cxActor, q) /\ cxAt' = cxAt /\ cxActor' = cxActor /\ cxObjects' = cxObjects
    BY <1>2 DEF MarkDurable, cxStore
  <2> HIDE DEF q
  <2>5. PlanOf(cxAt, cxActor)' = q
    BY <1>a, <2>1, <2>4, PlanMoves DEF PlanSet, PlanOf
  <2> QED
    BY <2>2, <2>3, <2>4, <2>5 DEF HeadWritten
<1>3. ASSUME NEW a \in CxActors, FinishKnown(a)
      PROVE  HeadWritten'
  <2>1. cxAt \in DOMAIN cxAttempts /\ PlanOf(cxAt, a).durable
    BY <1>3, <1>a DEF LedgerShape, FinishKnown
  <2>2. PlanOf(cxAt, a).head \in cxObjects
    BY <2>1, <1>a DEF PlansExtend, PlanOf
  <2> QED
    BY <1>3, <2>2 DEF FinishKnown, HeadWritten, PlanOf, cxStore
<1>4. CASE UpdateRef
  BY <1>4, <1>a DEF UpdateRef, HeadWritten, PlanOf
<1>5. CASE cxPc' \notin {"durable", "finish", "complete"}
  BY <1>5 DEF HeadWritten
<1>6. CASE UNCHANGED <<cxPc, cxAt, cxActor, cxObjects, cxAttempts>>
  BY <1>6, <1>a DEF HeadWritten, PlanOf
<1>7. \/ WriteManifest \/ MarkDurable \/ UpdateRef \/ (\E a \in CxActors : FinishKnown(a))
      \/ cxPc' \notin {"durable", "finish", "complete"}
      \/ UNCHANGED <<cxPc, cxAt, cxActor, cxObjects, cxAttempts>>
  BY DEF ContributionNext, ReceiveNew, LocalReserve, Recover,
      ReceiveReplay, RetryNative, ReceiveSteps, ReceiveVerified, ReceivePublish, ReceiveSettle,
      MarkConflictsFails, ReceiveFails, PublishFails, RetainSteps, PlanActor, ReplanActor,
      MarkComplete, RetainRefused, SignReceipts, RetainNative, CommandEnds, LocalSteps, NativeAppend, Attest,
      AttestRefused, PinNativeObservation, Rollover, BranchMoves, EvidenceMoves, ContributionCrash, cxStore, Goto
<1> QED
  BY <1>1, <1>2, <1>3, <1>4, <1>5, <1>6, <1>7

LEMMA RetainInit ==
  ContributionInit => RetainInv
<1> SUFFICES ASSUME ContributionInit
             PROVE  RetainInv
  OBVIOUS
<1>1. IsSequence(<<>>)
  BY DEF IsSequence
<1>2. cxAttempts = <<>> /\ DOMAIN cxAttempts = {} /\ cxPc = "idle"
      /\ cxRefs = [a \in CxActors |-> Absent]
  BY DEF ContributionInit
<1> QED
  BY <1>1, <1>2 DEF RetainInv, LedgerShape, PlansExtend, HeadWritten, Absent

LEMMA RetainStep ==
  RetainInv /\ [ContributionNext]_contributionVars => RetainInv'
<1> SUFFICES ASSUME RetainInv, [ContributionNext]_contributionVars
             PROVE  RetainInv'
  OBVIOUS
<1>1. CASE ContributionNext
  BY <1>1, ShapeStep, PlansStep, HeadStep DEF RetainInv
<1>2. CASE UNCHANGED contributionVars
  BY <1>2 DEF contributionVars, RetainInv, LedgerShape, PlansExtend, HeadWritten, PlanOf
<1> QED
  BY <1>1, <1>2

LEMMA RetainHolds == IntakeSpec => []RetainInv
  BY RetainInit, RetainStep, PTL DEF IntakeSpec

LEMMA AppendPrefix ==
  ASSUME NEW s, IsSequence(s), NEW e
  PROVE  IsPrefix(s, Append(s, e))
<1> DEFINE t == Append(s, e)
<1>1. /\ Len(s) \in Nat /\ DOMAIN s = 1..Len(s) /\ Len(t) = Len(s) + 1
      /\ \A i \in 1..Len(s) : t[i] = s[i]
  BY SequenceBounds, AppendMoves
<1> HIDE DEF t
<1>2. SubSeq(s, 1, Len(s)) = SubSeq(t, 1, Len(s))
  <2>1. SubSeq(s, 1, Len(s)) = [i \in 1..Len(s) |-> s[i]]
    BY <1>1
  <2>2. SubSeq(t, 1, Len(s)) = [i \in 1..Len(s) |-> t[i]]
    BY <1>1
  <2> QED
    BY <1>1, <2>1, <2>2
<1> QED
  BY <1>1, <1>2 DEF IsPrefix, t

\* A contribution ref only moves to a history that extends the one it had, keeps
\* every record it held and has its objects written, whatever commands died
\* between planning, writing, marking and installing.
THEOREM RefsOnlyExtend == IntakeSpec => RetainedNeverLost
<1> DEFINE Moves ==
      \A a \in CxActors : cxRefs'[a] # cxRefs[a] =>
        /\ IsPrefix(cxRefs[a], cxRefs'[a])
        /\ Installed(a) \subseteq Last(cxRefs'[a])
        /\ cxRefs'[a] \in cxObjects
<1>1. ASSUME RetainInv, ContributionNext
      PROVE  Moves
  <2>a. LedgerShape /\ PlansExtend /\ HeadWritten
    BY <1>1 DEF RetainInv
  <2>1. CASE UpdateRef
    <3>1. cxAt \in DOMAIN cxAttempts /\ cxActor \in CxActors
      BY <2>1, <2>a DEF UpdateRef, LedgerShape
    <3> DEFINE p == PlanOf(cxAt, cxActor)
    <3>2. /\ IsSequence(p.expected) /\ Extends(p.head, p.expected) /\ p.head \in cxObjects
      BY <2>1, <2>a, <3>1 DEF PlansExtend, HeadWritten, PlanOf, UpdateRef
    <3>3. cxRefs[cxActor] \in {p.head, p.expected} /\ cxRefs' = [cxRefs EXCEPT ![cxActor] = p.head]
      BY <2>1 DEF UpdateRef, MayInstall
    <3> HIDE DEF p
    <3>4. \A a \in CxActors : cxRefs'[a] # cxRefs[a] => a = cxActor
      BY <3>3, <2>a DEF LedgerShape
    <3>5. cxRefs'[cxActor] = p.head
      BY <3>1, <3>3, <2>a DEF LedgerShape
    <3>6. ASSUME cxRefs'[cxActor] # cxRefs[cxActor]
          PROVE  /\ IsPrefix(cxRefs[cxActor], p.head)
                 /\ Installed(cxActor) \subseteq Last(p.head)
      <4>1. /\ cxRefs[cxActor] = p.expected /\ p.head = Append(p.expected, Last(p.head))
            /\ p.expected # Absent => Last(p.expected) \subseteq Last(p.head)
        BY <3>2, <3>3, <3>5, <3>6 DEF Extends
      <4>2. IsPrefix(p.expected, p.head)
        BY <4>1, <3>2, AppendPrefix
      <4> QED
        BY <4>1, <4>2 DEF Installed
    <3> QED
      BY <3>2, <3>4, <3>5, <3>6
  <2>2. CASE cxRefs' = cxRefs
    BY <2>2
  <2> QED
    BY <1>1, <2>1, <2>2, Zenon DEF ContributionNext, ReceiveNew, LocalReserve, Recover,
      ReceiveReplay, RetryNative, ReceiveSteps, ReceiveVerified, ReceivePublish, ReceiveSettle,
      MarkConflictsFails, ReceiveFails, PublishFails, RetainSteps, PlanActor, ReplanActor,
      FinishKnown, WriteManifest, MarkDurable, MarkComplete, RetainRefused,
      SignReceipts, RetainNative, CommandEnds, LocalSteps, NativeAppend, Attest, AttestRefused,
      PinNativeObservation, Rollover, BranchMoves, EvidenceMoves, ContributionCrash, cxStore
<1>2. RetainInv /\ [ContributionNext]_contributionVars => [Moves]_contributionVars
  BY <1>1
<1>3. IntakeSpec => [][Moves]_contributionVars
  BY <1>2, RetainHolds, PTL DEF IntakeSpec
<1> QED
  BY <1>3 DEF RetainedNeverLost

-----------------------------------------------------------------------------
(* Conflicts.                                                                *)

LEMMA ReceivedNotLocal ==
  /\ \A o \in CxOffers : o.artifact \notin CxLocal
  /\ \A i : Control(i).recs # {} => Control(i) \notin CxLocal
<1>1. \A o \in CxOffers : o.artifact \notin CxLocal
  BY ContributionAssumption DEF CxForeign
<1>2. \A d \in CxLocal : \E r \in d.recs : r.kind # "receipt"
  BY ContributionAssumption
<1>3. \A i : \A r \in Control(i).recs : r.kind = "receipt"
  BY DEF Control, MissingReceipts, ReceiptOf
<1> QED
  BY <1>1, <1>2, <1>3

LEMMA OwnIntents ==
  ASSUME NEW d \in CxLocal, NEW e \in CxLocal, CrossConflict(d, e)
  PROVE  LocalIntent(d) = LocalIntent(e) /\ d # e
<1>1. PICK r \in d.recs : d.recs = {r}
  BY ContributionAssumption
<1>2. PICK s \in e.recs : e.recs = {s}
  BY ContributionAssumption
<1>3. r.about = s.about /\ r # s
  BY <1>1, <1>2 DEF CrossConflict, SameIntent
<1>4. (CHOOSE x \in d.recs : TRUE) = r /\ (CHOOSE x \in e.recs : TRUE) = s
  BY <1>1, <1>2
<1> QED
  BY <1>1, <1>2, <1>3, <1>4 DEF LocalIntent

\* An attempt that keeps its artifact stays local, or not.
LEMMA LocalStays ==
  ASSUME NEW k, AttemptKept(k)
  PROVE  IsLocal(k)' <=> IsLocal(k)
  BY DEF AttemptKept, IsLocal

LEMMA IntentsStep ==
  ASSUME ConflictInv, ContributionNext
  PROVE  IntentsUnique'
<1>a. LedgerShape /\ IntentsUnique
  BY DEF ConflictInv, RetainInv
<1>k. \A k \in DOMAIN cxAttempts : AttemptKept(k)
  BY <1>a, AttemptsStep
<1>1. CASE DOMAIN cxAttempts' = DOMAIN cxAttempts
  BY <1>1, <1>k, <1>a, LocalStays DEF IntentsUnique, AttemptKept
<1>2. ASSUME NEW intent, NEW d, ReservedAs(intent, d), WithIntent(intent) = {},
             d \in CxLocal => intent = LocalIntent(d)
      PROVE  IntentsUnique'
  <2>0. PICK n : n = Len(cxAttempts) + 1
    OBVIOUS
  <2>1. cxAttempts'[n].intent = intent /\ cxAttempts'[n].artifact = d
    BY <1>2, <2>0 DEF ReservedAs
  <2>2. \A k \in DOMAIN cxAttempts : cxAttempts[k].intent # intent
    BY <1>2 DEF WithIntent
  <2>3. DOMAIN cxAttempts' = DOMAIN cxAttempts \cup {n}
    BY <1>2, <2>0 DEF ReservedAs
  <2>4. \A i, k \in DOMAIN cxAttempts' : cxAttempts'[i].intent = cxAttempts'[k].intent => i = k
    BY <2>1, <2>2, <2>3, <1>k, <1>a DEF IntentsUnique, AttemptKept
  <2>5. IsLocal(n)' <=> d \in CxLocal
    BY <2>1 DEF IsLocal
  <2>6. IsLocal(n)' => cxAttempts'[n].intent = LocalIntent(cxAttempts'[n].artifact)
    BY <1>2, <2>1, <2>5
  <2>7. \A i \in DOMAIN cxAttempts :
          IsLocal(i)' => cxAttempts'[i].intent = LocalIntent(cxAttempts'[i].artifact)
    BY <1>k, <1>a, LocalStays DEF IntentsUnique, AttemptKept
  <2> QED
    BY <2>3, <2>4, <2>6, <2>7 DEF IntentsUnique
<1>3. ASSUME NEW o \in CxOffers, ReceiveNew(o.intent, o.artifact, o.exact)
      PROVE  IntentsUnique'
  BY <1>2, <1>3, <1>a, ReserveMoves, ReceivedNotLocal DEF ReceiveNew, Reserved
<1>4. ASSUME NEW d \in CxLocal, LocalReserve(d)
      PROVE  IntentsUnique'
  BY <1>2, <1>4, <1>a, ReserveMoves DEF LocalReserve
<1>5. CASE SignReceipts
  <2>1. \/ UNCHANGED cxAttempts
        \/ /\ WithIntent(ControlIntent(cxAt)) = {} /\ Control(cxAt).recs # {}
           /\ cxAttempts' = Reserved(ControlIntent(cxAt), Control(cxAt), TRUE)
    BY <1>5 DEF SignReceipts, Control
  <2> QED
    BY <1>1, <1>2, <1>a, <2>1, ReserveMoves, ReceivedNotLocal DEF Reserved
<1>6. ASSUME NEW i \in DOMAIN cxAttempts, Recover(i)
      PROVE  IntentsUnique'
  BY <1>1, <1>6, <1>a, StatusMoves DEF Recover, StatusesSet
<1>7. CASE ReceiveFails \/ MarkConflictsFails \/ PublishFails \/ ReceiveSettle
  <2>1. cxAt \in DOMAIN cxAttempts
    BY <1>7, <1>a DEF LedgerShape, ReceiveFails, MarkConflictsFails, PublishFails, ReceiveSettle
  <2>2. \E s, marks : cxAttempts' = [Marked(marks) EXCEPT ![cxAt].status = s]
    BY <1>7, Zenon DEF ReceiveFails, MarkConflictsFails, PublishFails, ReceiveSettle, SetStatus
  <2> QED
    BY <1>1, <1>a, <2>1, <2>2, StatusMoves DEF StatusesSet
<1>8. ASSUME NEW a \in CxActors, PlanActor(a)
      PROVE  IntentsUnique'
  BY <1>1, <1>8, <1>a, PlanActorMoves DEF PlanSet
<1>9. CASE MarkDurable \/ MarkComplete
  BY <1>1, <1>9 DEF MarkDurable, MarkComplete, SetPlan
<1>10. CASE Attest
  BY <1>1, <1>10, <1>a, AttestMoves
<1> QED
  BY <1>1, <1>3, <1>4, <1>5, <1>6, <1>7, <1>8, <1>9, <1>10, <1>a, StepsOf

\* How an attempt comes to be pending: it settles, or a recovery settles it, with
\* nothing to mark; or it is a local write whose retention begins.
Settles(k) == ReceiveSettle /\ k = cxAt /\ ~Conflicted(cxAt, cxMarks)
Recovers(k) == Recover(k) /\ ~Conflicted(k, ConflictsWith(k))

LEMMA PendingFrom ==
  ASSUME LedgerShape, ContributionNext,
         NEW k \in DOMAIN cxAttempts', cxAttempts'[k].status = "pending"
  PROVE  /\ k \in DOMAIN cxAttempts
         /\ cxAttempts[k].status = "pending" \/ Settles(k) \/ Recovers(k) \/ IsLocal(k)
<1> DEFINE Goal == /\ k \in DOMAIN cxAttempts
                   /\ cxAttempts[k].status = "pending" \/ Settles(k) \/ Recovers(k) \/ IsLocal(k)
<1>1. CASE UNCHANGED cxAttempts
  BY <1>1
<1>2. ASSUME NEW intent, NEW d, ReservedAs(intent, d)
      PROVE  Goal
  BY <1>2 DEF ReservedAs
<1>3. ASSUME NEW o \in CxOffers, ReceiveNew(o.intent, o.artifact, o.exact)
      PROVE  Goal
  BY <1>2, <1>3, ReserveMoves DEF ReceiveNew, Reserved
<1>4. ASSUME NEW d \in CxLocal, LocalReserve(d)
      PROVE  Goal
  BY <1>2, <1>4, ReserveMoves DEF LocalReserve
<1>5. CASE SignReceipts
  <2>1. \/ UNCHANGED cxAttempts
        \/ cxAttempts' = Reserved(ControlIntent(cxAt), Control(cxAt), TRUE)
    BY <1>5 DEF SignReceipts
  <2> QED
    BY <1>1, <1>2, <2>1, ReserveMoves DEF Reserved
<1>6. ASSUME NEW i \in DOMAIN cxAttempts, Recover(i)
      PROVE  Goal
  <2>1. StatusesSet(i, IF Conflicted(i, ConflictsWith(i)) THEN "conflict" ELSE "pending",
                    ConflictsWith(i))
    BY <1>6, StatusMoves DEF Recover
  <2> QED
    BY <1>6, <2>1 DEF StatusesSet, Recovers
<1>7. CASE ReceiveFails \/ MarkConflictsFails \/ PublishFails
  <2>1. cxAt \in DOMAIN cxAttempts
    BY <1>7 DEF LedgerShape, ReceiveFails, MarkConflictsFails, PublishFails
  <2>2. PICK marks : cxAttempts' = [Marked(marks) EXCEPT ![cxAt].status = "failed"]
    BY <1>7, Zenon DEF ReceiveFails, MarkConflictsFails, PublishFails, SetStatus
  <2>3. StatusesSet(cxAt, "failed", marks)
    BY <2>1, <2>2, StatusMoves
  <2> QED
    BY <2>3 DEF StatusesSet
<1>8. CASE ReceiveSettle
  <2>1. cxAt \in DOMAIN cxAttempts
    BY <1>8 DEF LedgerShape, ReceiveSettle
  <2>2. StatusesSet(cxAt, IF Conflicted(cxAt, cxMarks) THEN "conflict" ELSE "pending", cxMarks)
    BY <1>8, <2>1, StatusMoves DEF ReceiveSettle, SetStatus
  <2> QED
    BY <1>8, <2>2 DEF StatusesSet, Settles
<1>9. ASSUME NEW a \in CxActors, PlanActor(a)
      PROVE  Goal
  BY <1>9, PlanActorMoves DEF PlanSet
<1>10. CASE MarkDurable \/ MarkComplete
  <2>1. cxAt \in DOMAIN cxAttempts /\ cxActor \in CxActors
    BY <1>10 DEF LedgerShape, MarkDurable, MarkComplete
  <2>2. \E p : SetPlan(cxAt, cxActor, p)
    BY <1>10 DEF MarkDurable, MarkComplete
  <2> QED
    BY <2>1, <2>2, PlanMoves DEF PlanSet
<1>11. CASE Attest
  BY <1>11, AttestMoves
<1> QED
  BY <1>1, <1>3, <1>4, <1>5, <1>6, <1>7, <1>8, <1>9, <1>10, <1>11, StepsOf

LEMMA FilesGrow ==
  ASSUME ContributionNext
  PROVE  cxFiles \subseteq cxFiles'
  BY DEF ContributionNext, ReceiveNew, LocalReserve, Recover,
      ReceiveReplay, RetryNative, ReceiveSteps, ReceiveVerified, ReceivePublish, ReceiveSettle,
      MarkConflictsFails, ReceiveFails, PublishFails, RetainSteps, PlanActor, ReplanActor,
      FinishKnown, WriteManifest, MarkDurable, MarkComplete, RetainRefused, UpdateRef,
      SignReceipts, RetainNative, CommandEnds, LocalSteps, NativeAppend, Attest, AttestRefused,
      PinNativeObservation, Rollover, BranchMoves, EvidenceMoves, ContributionCrash, cxStore

LEMMA KeptStep ==
  ASSUME ConflictInv, ContributionNext
  PROVE  PendingKept'
<1>a. LedgerShape /\ PendingKept /\ MarksComplete
  BY DEF ConflictInv, RetainInv
<1> SUFFICES ASSUME NEW k \in DOMAIN cxAttempts', cxAttempts'[k].status = "pending", ~IsLocal(k)'
             PROVE  BytesKept(k)'
  BY DEF PendingKept
<1>1. k \in DOMAIN cxAttempts /\ AttemptKept(k) /\ ~IsLocal(k)
  BY <1>a, PendingFrom, AttemptsStep, LocalStays
<1>2. BytesKept(k)
  <2>1. CASE cxAttempts[k].status = "pending"
    BY <2>1, <1>1, <1>a DEF PendingKept
  <2>2. CASE Settles(k)
    BY <2>2, <1>a DEF Settles, ReceiveSettle, MarksComplete
  <2>3. CASE Recovers(k)
    BY <2>3 DEF Recovers, Recover
  <2> QED
    BY <2>1, <2>2, <2>3, <1>1, <1>a, PendingFrom
<1> QED
  BY <1>1, <1>2, FilesGrow DEF BytesKept, AttemptKept

LEMMA MarksStep ==
  ASSUME ConflictInv, ContributionNext
  PROVE  MarksComplete'
<1>a. LedgerShape /\ PendingKept /\ MarksComplete
  BY DEF ConflictInv, RetainInv
<1>1. CASE cxPc' \notin {"verify", "publish", "settle"}
  BY <1>1 DEF MarksComplete
<1>2. ASSUME NEW o \in CxOffers, ReceiveNew(o.intent, o.artifact, o.exact)
      PROVE  MarksComplete'
  <2>1. ReservedAs(o.intent, o.artifact) /\ cxAt' = Len(cxAttempts) + 1 /\ cxPc' = "verify"
    BY <1>2, <1>a, ReserveMoves DEF ReceiveNew, Reserved, Goto
  <2> QED
    BY <2>1, ReceivedNotLocal DEF ReservedAs, MarksComplete, IsLocal
<1>3. CASE SignReceipts
  <2>1. \/ cxPc' = "native"
        \/ /\ Control(cxAt).recs # {} /\ cxPc' = "verify" /\ cxAt' = Len(cxAttempts) + 1
           /\ cxAttempts' = Reserved(ControlIntent(cxAt), Control(cxAt), TRUE)
    BY <1>3 DEF SignReceipts, Control, Goto
  <2>2. CASE cxPc' = "verify" /\ ReservedAs(ControlIntent(cxAt), Control(cxAt)) /\ Control(cxAt).recs # {}
             /\ cxAt' = Len(cxAttempts) + 1
    BY <2>2, ReceivedNotLocal DEF ReservedAs, MarksComplete, IsLocal
  <2> QED
    BY <1>1, <1>a, <2>1, <2>2, ReserveMoves DEF Reserved
<1>4. CASE ReceiveVerified
  <2>1. /\ UNCHANGED <<cxAttempts, cxFiles, cxAt>> /\ cxPc = "verify" /\ cxPc' = "publish"
        /\ cxMarks' = ConflictsWith(cxAt)
    BY <1>4 DEF ReceiveVerified, cxStore
  <2>2. ASSUME NEW k \in DOMAIN cxAttempts, k # cxAt, cxAttempts[k].status = "pending",
               ~IsLocal(k), CrossConflict(cxAttempts[k].artifact, cxAttempts[cxAt].artifact)
        PROVE  k \in ConflictsWith(cxAt)
    BY <2>2, <1>a DEF ConflictsWith, Others, PendingKept
  <2> QED
    BY <2>1, <2>2, <1>a DEF MarksComplete, IsLocal
<1>5. CASE ReceivePublish
  BY <1>5, <1>a DEF ReceivePublish, MarksComplete, IsLocal, BytesKept
<1>6. CASE UNCHANGED <<cxAttempts, cxFiles, cxPc, cxAt, cxMarks>>
  BY <1>6, <1>a DEF MarksComplete, IsLocal, BytesKept
<1>7. \/ cxPc' \notin {"verify", "publish", "settle"} \/ SignReceipts \/ ReceiveVerified
      \/ ReceivePublish \/ \E o \in CxOffers : ReceiveNew(o.intent, o.artifact, o.exact)
      \/ UNCHANGED <<cxAttempts, cxFiles, cxPc, cxAt, cxMarks>>
  BY DEF ContributionNext, LocalReserve, Recover,
      ReceiveReplay, RetryNative, ReceiveSteps, ReceiveSettle,
      MarkConflictsFails, ReceiveFails, PublishFails, RetainSteps, PlanActor, ReplanActor,
      FinishKnown, WriteManifest, MarkDurable, MarkComplete, RetainRefused, UpdateRef,
      RetainNative, CommandEnds, LocalSteps, NativeAppend, Attest, AttestRefused,
      PinNativeObservation, Rollover, BranchMoves, EvidenceMoves, ContributionCrash, cxStore, Goto
<1> QED
  BY <1>1, <1>2, <1>3, <1>4, <1>5, <1>6, <1>7

\* What becomes pending agrees with what is.
LEMMA NewlyPending ==
  ASSUME ConflictInv, NEW i \in DOMAIN cxAttempts, NEW k \in DOMAIN cxAttempts,
         Settles(i) \/ Recovers(i), ~IsLocal(i),
         cxAttempts[k].status = "pending" \/ k = i, ~IsLocal(k)
  PROVE  ~CrossConflict(cxAttempts[k].artifact, cxAttempts[i].artifact)
<1>a. PendingKept /\ MarksComplete
  BY DEF ConflictInv
<1>1. CASE k = i
  <2>1. ~IntentConflict(cxAttempts[i].artifact)
    BY DEF Settles, Recovers, Conflicted
  <2> QED
    BY <1>1, <2>1 DEF IntentConflict, CrossConflict
<1>2. CASE k # i /\ Settles(i)
  <2>1. cxMarks = {} /\ cxPc = "settle" /\ i = cxAt
    BY <1>2 DEF Settles, Conflicted, ReceiveSettle
  <2> QED
    BY <1>2, <2>1, <1>a DEF MarksComplete
<1>3. CASE k # i /\ Recovers(i)
  <2>1. ConflictsWith(i) = {}
    BY <1>3 DEF Recovers, Conflicted
  <2>2. k \in Others(i)
    BY <1>3, <1>a DEF PendingKept, Others
  <2> QED
    BY <2>1, <2>2 DEF ConflictsWith
<1> QED
  BY <1>1, <1>2, <1>3

LEMMA AgreeStep ==
  ASSUME ConflictInv, ContributionNext
  PROVE  NoPendingConflict'
<1>a. LedgerShape /\ IntentsUnique /\ NoPendingConflict
  BY DEF ConflictInv, RetainInv
<1> SUFFICES ASSUME NEW i \in DOMAIN cxAttempts', NEW k \in DOMAIN cxAttempts',
                    cxAttempts'[i].status = "pending", cxAttempts'[k].status = "pending",
                    IsLocal(i)' <=> IsLocal(k)'
             PROVE  ~CrossConflict(cxAttempts'[i].artifact, cxAttempts'[k].artifact)
  BY DEF NoPendingConflict, CrossConflict, SameIntent
<1>1. /\ i \in DOMAIN cxAttempts /\ k \in DOMAIN cxAttempts
      /\ cxAttempts'[i].artifact = cxAttempts[i].artifact
      /\ cxAttempts'[k].artifact = cxAttempts[k].artifact
      /\ IsLocal(i) <=> IsLocal(k)
  BY <1>a, PendingFrom, AttemptsStep DEF AttemptKept, IsLocal
<1> SUFFICES ~CrossConflict(cxAttempts[i].artifact, cxAttempts[k].artifact)
  BY <1>1
<1>2. \A d, e : CrossConflict(d, e) => CrossConflict(e, d)
  BY DEF CrossConflict, SameIntent
<1>4. CASE IsLocal(i) /\ IsLocal(k)
  BY <1>1, <1>4, <1>a, OwnIntents DEF IntentsUnique, IsLocal
<1>7. CASE ~IsLocal(i) /\ ~IsLocal(k)
  <2>1. /\ cxAttempts[i].status = "pending" \/ Settles(i) \/ Recovers(i)
        /\ cxAttempts[k].status = "pending" \/ Settles(k) \/ Recovers(k)
    BY <1>7, <1>a, PendingFrom
  <2>2. CASE cxAttempts[i].status = "pending" /\ cxAttempts[k].status = "pending"
    BY <2>2, <1>1, <1>7, <1>a DEF NoPendingConflict
  <2>3. CASE (Settles(i) \/ Recovers(i)) /\ cxAttempts[k].status = "pending"
    BY <2>3, <1>1, <1>2, <1>7, NewlyPending
  <2>4. CASE cxAttempts[i].status = "pending" /\ (Settles(k) \/ Recovers(k))
    BY <2>4, <1>1, <1>2, <1>7, NewlyPending
  <2>5. CASE (Settles(i) \/ Recovers(i)) /\ (Settles(k) \/ Recovers(k)) /\ i = k
    BY <2>5, <1>1, <1>2, <1>7, NewlyPending
  <2>6. CASE (Settles(i) \/ Recovers(i)) /\ (Settles(k) \/ Recovers(k)) /\ i # k
    BY <2>6 DEF Settles, Recovers, ReceiveSettle, Recover, Goto
  <2> QED
    BY <2>1, <2>2, <2>3, <2>4, <2>5, <2>6
<1> QED
  BY <1>1, <1>4, <1>7

LEMMA ConflictInit ==
  ASSUME ContributionInit
  PROVE  ConflictInv
<1>1. RetainInv
  BY RetainInit
<1> QED
  BY <1>1 DEF ContributionInit, ConflictInv, IntentsUnique, PendingKept, MarksComplete,
      NoPendingConflict

LEMMA ConflictStep ==
  ASSUME ConflictInv, [ContributionNext]_contributionVars
  PROVE  ConflictInv'
<1>1. CASE ContributionNext
  <2>1. RetainInv
    BY DEF ConflictInv
  <2> QED
    BY <1>1, <2>1, RetainStep, IntentsStep, KeptStep, MarksStep, AgreeStep DEF ConflictInv
<1>2. CASE UNCHANGED contributionVars
  <2>1. RetainInv'
    BY <1>2, RetainStep DEF ConflictInv
  <2>2. IntentsUnique' /\ PendingKept' /\ MarksComplete' /\ NoPendingConflict'
    BY <1>2 DEF ConflictInv, contributionVars, IntentsUnique, PendingKept, MarksComplete,
        NoPendingConflict, IsLocal, BytesKept
  <2> QED
    BY <2>1, <2>2 DEF ConflictInv
<1> QED
  BY <1>1, <1>2

\* Two received attempts that both look conflict-free hold no two different
\* records of one actor and intent, whatever was interrupted, repeated or
\* recovered between their comparison and their settling, and whoever signed them
\* (contribution_exchange.go markConflicts, Recover); nor do two local writes.
THEOREM PendingAgree == IntakeSpec => []NoPendingConflict
<1>1. ConflictInv => NoPendingConflict
  BY DEF ConflictInv
<1> QED
  BY <1>1, ConflictInit, ConflictStep, PTL DEF IntakeSpec
=============================================================================

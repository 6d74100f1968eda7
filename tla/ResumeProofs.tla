---------------------------- MODULE ResumeProofs ----------------------------
(***************************************************************************)
(* What holds of the two journalled commands that are repeated until they  *)
(* are done, `hn migrate` (Migration.tla) and `hn identity rotate`         *)
(* (IdentityRotation.tla), for every set of cases, accounts and keys and   *)
(* every number of crashes and of changes others make; and of `hn          *)
(* automerge --execute` (Automerge.tla), which finishes or restores the    *)
(* checkout, for every number of edits, foreign writes, kills and deaths.  *)
(*                                                                         *)
(* The journal is the argument.  A migration's entry is saved as inflight  *)
(* before its one request leaves, so what the wire and the destination     *)
(* hold of an intent can be read off its entry (MigInv).  A rotation's     *)
(* journal is on disk before its authorisation is signed and goes after    *)
(* the pointer has moved, so an authorisation a rotation signed is either  *)
(* of a key already left or of the rotation the journal names (IdInv).     *)
(***************************************************************************)
EXTENDS Migration, IdentityRotation, Automerge, FiniteSetTheorems, WellFoundedInduction, TLAPS

MigTargets  == MigItems \cup {Code}
EntryStates == {"none", "prepared", "inflight", "confirmed"}
MigObject   == [marker : Nat, parent : Nat, exact : BOOLEAN, rev : Nat, mine : BOOLEAN]
MigRequest  == [intent : Nat, parent : Nat, target : Nat, rev : {0, 1}]
Forges      == {"github", "forgejo", "gitea", "gitlab", "azure"}

JournalTypes ==
  /\ migCase \in MigCases
  /\ migPc \in {"idle", "run", "send", "wait"}
  /\ migEntry \in [MigTargets -> EntryStates]
  /\ migReceipt \in [MigTargets -> Nat] /\ migParent \in [MigItems -> Nat]
  /\ migSent \in [MigTargets -> {0, 1}]
  /\ migReply \in Int /\ (migReply # Refused => migReply \in Nat)
  /\ migObjects \in Seq(MigObject) /\ \A q \in migWire : q \in MigRequest
  /\ migRef \in {"old", "ours", "theirs"} /\ migArchive \in BOOLEAN

\* The saved plan holds what was found to be writable, and the code refs.
PlanKept ==
  /\ migPlan \in Seq(MigTargets)
  /\ migPhase # "saved" => migPlan = <<>> /\ migPc = "idle" /\ migWire = {}
  /\ migPhase = "saved" => MigIntents = Written \cup {Code} /\ CanonicalPlan(migDecided)
  /\ \A k \in MigItems : migKind[k] = "comment" => MigItem(k).kind = "comment"

\* An intent's request leaves after its entry was saved as inflight, once.
SentOnce ==
  /\ \A k \in MigTargets : migEntry[k] \in {"none", "prepared"} => migSent[k] = 0
  /\ migPc \in {"send", "wait"} => ~MigDone /\ migEntry[Current] = "inflight"
  /\ migPc = "send" => migSent[Current] = 0

\* A request on the wire is the one its entry bound, and nothing came of it yet.
WireBound ==
  \A q \in migWire :
    /\ q.intent \in MigIntents /\ migSent[q.intent] = 1
    /\ q.target = TargetObject(q.intent)
    /\ q.intent # Code => q.parent = migParent[q.intent]
    /\ q.rev = IF ConditionalWrite(q.intent) THEN 1 ELSE 0
    /\ \A r \in migWire : r.intent = q.intent => r = q
    /\ \A o \in DOMAIN migObjects : migObjects[o].mine => migObjects[o].marker # q.intent

\* What the migration wrote is what it sent, one object for an intent.
MineSent ==
  \A o \in DOMAIN migObjects : migObjects[o].mine =>
    LET k == migObjects[o].marker IN
      /\ migPhase = "saved" /\ k \in MigItems /\ migSent[k] = 1
      /\ IF TargetObject(k) # 0 THEN o = TargetObject(k)
                                ELSE migObjects[o].parent = migParent[k]
      /\ \A p \in DOMAIN migObjects :
           (migObjects[p].mine /\ migObjects[p].marker = k) => p = o

\* The answer a process waits for names the object its request wrote.
AnswerNames ==
  (migPc = "wait" /\ migReply \notin {NoReply, Refused} /\ Current # Code) =>
    \A o \in DOMAIN migObjects :
      (migObjects[o].mine /\ migObjects[o].marker = Current) => o = migReply

\* A confirmed project of a local destination or an archive is on disk.
CodeArchived ==
  migCase.dst \in {"local", "archive"} =>
    /\ migEntry[Code] = "confirmed" => migArchive
    /\ (migPc = "wait" /\ Current = Code) => migArchive

\* An object at its first revision shows what it was created with, and those
\* that were there before stay where they are.
ObjectsKept ==
  /\ \A o \in DOMAIN migObjects : migObjects[o].rev = 1 => migObjects[o].exact
  /\ Len(migObjects) >= MigSel.existing
  /\ \A o \in 1..MigSel.existing : migObjects[o].parent = o - 1

MigInv == /\ JournalTypes /\ PlanKept /\ SentOnce /\ WireBound /\ MineSent
          /\ AnswerNames /\ CodeArchived /\ ObjectsKept

-----------------------------------------------------------------------------
(* The plan's next intent.                                                   *)

\* The numbers below another number: what makes an induction over them sound.
LessThan == {ss \in Nat \X Nat : ss[1] < ss[2]}

\* A set of natural numbers that has a member has a least one.
LEMMA LeastNumber ==
  ASSUME NEW T, T \subseteq Nat, T # {}
  PROVE  \E x \in T : \A y \in T : x <= y
<1>1. IsWellFoundedOn(LessThan, Nat)
  BY NatLessThanWellFounded DEF OpToRel, LessThan
<1>2. PICK x \in T : \A y \in T : ~(<<y, x>> \in LessThan)
  BY <1>1, WFMin
<1>3. \A y \in T : ~(y < x)
  BY <1>2 DEF LessThan
<1> QED
  BY <1>3

\* While entries are unconfirmed, Current is one of the plan's intents and it
\* is not confirmed (the loop of ApplyMigration finds one).
LEMMA CurrentPlanned ==
  ASSUME migPlan \in Seq(MigTargets), ~MigDone
  PROVE  Current \in MigIntents /\ Current \in MigTargets /\ migEntry[Current] # "confirmed"
<1>1. Unconfirmed \subseteq Nat /\ Unconfirmed # {}
  BY DEF Unconfirmed, MigDone
<1>2. \E j \in Unconfirmed : \A i \in Unconfirmed : j <= i
  BY <1>1, LeastNumber
<1> DEFINE least == CHOOSE j \in Unconfirmed : \A i \in Unconfirmed : j <= i
<1>3. least \in Unconfirmed
  BY <1>2
<1>4. Current = migPlan[least]
  BY DEF Current
<1> HIDE DEF least
<1> QED
  BY <1>3, <1>4 DEF Unconfirmed, MigIntents

\* Current moves only when an entry is confirmed.
LEMMA CurrentStays ==
  ASSUME migPlan' = migPlan, migPlan \in Seq(MigTargets),
         \A k \in MigTargets : migEntry'[k] = "confirmed" <=> migEntry[k] = "confirmed"
  PROVE  Current' = Current /\ (MigDone' <=> MigDone)
<1>1. Unconfirmed' = Unconfirmed
  BY DEF Unconfirmed
<1> QED
  BY <1>1 DEF Current, MigDone

-----------------------------------------------------------------------------
(* What a step makes of the destination's objects.                           *)

\* A request that is executed either changes nothing, or shows its intent in the
\* object it names, or creates the object it describes.
Updated(q) ==
  /\ q.intent # Code /\ q.target # 0 /\ q.target \in DOMAIN migObjects
  /\ RevAccepts(q) /\ migObjects[q.target].rev > 0
  /\ migObjects' = [migObjects EXCEPT ![q.target] =
       Shows(q.target, q.intent, TRUE, migObjects[q.target].rev + 1, TRUE)]
  /\ Answer(q, q.target)
Created(q) ==
  /\ q.intent # Code /\ q.target = 0
  /\ migObjects' = Append(migObjects,
       [marker |-> q.intent, parent |-> q.parent, exact |-> TRUE, rev |-> 1, mine |-> TRUE])
  /\ Answer(q, Len(migObjects) + 1)
Unexecuted(q) ==
  /\ migObjects' = migObjects
  /\ \/ q.intent = Code /\ Answer(q, 1)
     \/ Answer(q, Refused)

LEMMA DeliverMoves ==
  ASSUME NEW q, Deliver(q)
  PROVE  /\ Updated(q) \/ Created(q) \/ Unexecuted(q)
         /\ UNCHANGED <<migSaved, migEntry, migParent, migReceipt, migActor, migLock,
              migPc, migSent, migArchive, migCrashes, migOthers>>
         /\ migWire' = migWire \ {q}
         /\ migRef' # migRef => migRef = "old" /\ migRef' = "ours"
<1> USE DEF Deliver
<1>1. CASE q.intent = Code /\ migCase.dst # "archive"
  BY <1>1, Zenon DEF Unexecuted, RefAccepts
<1>2. CASE q.intent = Code /\ migCase.dst = "archive"
  BY <1>2, Zenon DEF Unexecuted
<1>3. CASE q.intent # Code /\ q.target # 0
  BY <1>3, Zenon DEF Unexecuted, Updated, MigLive
<1>4. CASE q.intent # Code /\ q.target = 0
  BY <1>4, Zenon DEF Unexecuted, Created
<1> QED
  BY <1>1, <1>2, <1>3, <1>4

\* Another user leaves the marker and the parent of an object alone, and what it
\* adds is a copy that is not the migration's.
OthersEdit(o) ==
  /\ o \in DOMAIN migObjects
  /\ \E x \in BOOLEAN, r \in Nat :
       /\ migObjects' = [migObjects EXCEPT ![o] =
            Shows(o, migObjects[o].marker, x, r, migObjects[o].mine)]
       /\ r # 1 /\ (x => migObjects[o].exact)
OthersCopy(o) ==
  /\ o \in DOMAIN migObjects
  /\ migObjects' = Append(migObjects,
       Shows(o, migObjects[o].marker, migObjects[o].exact, migObjects[o].rev, FALSE))

LEMMA OthersMoves ==
  ASSUME JournalTypes, OthersChange
  PROVE  /\ \/ migObjects' = migObjects
            \/ \E o \in DOMAIN migObjects : OthersEdit(o) \/ OthersCopy(o)
         /\ UNCHANGED <<migSaved, migEntry, migParent, migReceipt, migActor, migLock,
              migPc, migReply, migWire, migSent, migArchive, migCrashes>>
         /\ migPhase = "saved" /\ migRef' \in {migRef, "theirs"}
<1>1. \A o \in DOMAIN migObjects :
        /\ migObjects[o].rev \in Nat /\ migObjects[o].exact \in BOOLEAN
        /\ MigLive(o) => migObjects[o].rev + 1 \in Nat /\ migObjects[o].rev + 1 # 1
  <2>1. TAKE o \in DOMAIN migObjects
  <2>2. migObjects[o] \in MigObject
    BY DEF JournalTypes
  <2> QED
    BY <2>2 DEF MigObject, MigLive
<1>2. ASSUME NEW o \in DOMAIN migObjects, MigLive(o),
             migObjects' = [migObjects EXCEPT ![o] =
               Shows(o, migObjects[o].marker, FALSE, migObjects[o].rev + 1, migObjects[o].mine)]
      PROVE  OthersEdit(o)
  BY <1>1, <1>2, Zenon DEF OthersEdit
<1>3. ASSUME NEW o \in DOMAIN migObjects, MigLive(o),
             migObjects' = [migObjects EXCEPT ![o] =
               Shows(o, migObjects[o].marker, migObjects[o].exact, 0, migObjects[o].mine)]
      PROVE  OthersEdit(o)
  <2>1. 0 \in Nat /\ 0 # 1
    OBVIOUS
  <2> QED
    BY <1>1, <1>3, <2>1, Zenon DEF OthersEdit
<1> QED
  BY <1>2, <1>3, Zenon DEF OthersChange, OthersCopy

-----------------------------------------------------------------------------
(* What the plan may hold.                                                   *)

LEMMA StatusValues ==
  ASSUME JournalTypes, NEW k \in MigItems
  PROVE  /\ migCase.dst \in Forges =>
              IssueStatus(k) \in {"requires_mapping", "missing_dependency", "unsupported", "mapped"}
         /\ migCase.dst \in Forges =>
              CommentStatus(k) \in {"missing_dependency", "unsupported", "mapped"}
<1> USE DEF Forges
<1>1. migCase.dst \in Forges =>
        IssueStatus(k) \in {"requires_mapping", "missing_dependency", "unsupported", "mapped"}
  BY Zenon DEF IssueStatus, GithubIssue, ForgejoIssue, GitlabIssue, AzureIssue
<1>2. GithubComment(k) \in {"missing_dependency", "unsupported", "mapped"}
  BY Zenon DEF GithubComment
<1>3. ForgejoComment(k) \in {"missing_dependency", "unsupported", "mapped"}
  BY <1>2, Zenon DEF ForgejoComment
<1>4. migCase.dst \in Forges =>
        CommentStatus(k) \in {"missing_dependency", "unsupported", "mapped"}
  BY <1>2, <1>3, Zenon DEF CommentStatus, AzureComment, GitlabComment
<1> QED
  BY <1>1, <1>4

\* A record is written only at a forge that takes issues and comments, and it is
\* preserved only by a destination that keeps the whole snapshot.
LEMMA WrittenAtForge ==
  ASSUME JournalTypes, NEW k \in MigItems
  PROVE  /\ FindingStatus(k) = "mapped" => migCase.dst \in Forges
         /\ FindingStatus(k) = "preserved" =>
              migCase.dst \in {"local", "archive"} /\ migKind[k] # "unread"
<1>1. migCase.dst \in Forges \cup {"bitbucket", "local", "archive"}
  BY MigrationAssumption DEF JournalTypes, Forges
<1> QED
  BY <1>1, StatusValues DEF FindingStatus, LocalPlan, BitbucketPlan, Forges

\* What counts as a match for an intent of the plan.
LEMMA MatchesAre ==
  ASSUME JournalTypes, NEW k \in Written \cup {Code}
  PROVE  /\ k = Code => Matches(k) \subseteq {1}
         /\ (k = Code /\ migCase.dst \in {"local", "archive"} /\ Matches(k) # {}) => migArchive
         /\ k # Code =>
              Matches(k) = {o \in DOMAIN migObjects :
                /\ MigLive(o) /\ migObjects[o].marker = k /\ migObjects[o].exact
                /\ migObjects[o].parent = migParent[k]
                /\ TargetObject(k) # 0 => o = TargetObject(k)}
         /\ Matches(k) \subseteq Nat
<1>1. k = Code => Matches(k) \subseteq {1}
  BY DEF Matches, LocalReconcile, ArchiveReconcile, GitReconcile
<1>2. (k = Code /\ migCase.dst \in {"local", "archive"} /\ Matches(k) # {}) => migArchive
  BY DEF Matches, LocalReconcile, ArchiveReconcile
<1>3. ASSUME k # Code
      PROVE  Matches(k) = {o \in DOMAIN migObjects :
                /\ MigLive(o) /\ migObjects[o].marker = k /\ migObjects[o].exact
                /\ migObjects[o].parent = migParent[k]
                /\ TargetObject(k) # 0 => o = TargetObject(k)}
  <2>1. k \in MigItems /\ migCase.dst \in Forges
    BY <1>3, WrittenAtForge DEF Written
  <2>2. CASE migCase.dst \in {"github", "azure"}
    <3>1. Matches(k) = GithubReconcile(k)
      BY <1>3, <2>2 DEF Matches, AzureReconcile
    <3>2. TargetObject(k) = IF migKind[k] = "comment" THEN 0 ELSE MigSel.target[k]
      BY <1>3, <2>2 DEF TargetObject
    <3> QED
      BY <3>1, <3>2 DEF GithubReconcile, UpdatesExisting
  <2>3. CASE migCase.dst \in {"forgejo", "gitea", "gitlab"}
    <3>1. Matches(k) = ForgejoReconcile(k)
      BY <1>3, <2>3 DEF Matches, GitlabReconcile
    <3>2. TargetObject(k) = MigSel.target[k]
      BY <1>3, <2>3 DEF TargetObject
    <3> QED
      BY <3>1, <3>2 DEF ForgejoReconcile, UpdatesExisting
  <2> QED
    BY <2>1, <2>2, <2>3 DEF Forges
<1>4. Matches(k) \subseteq Nat
  BY <1>1, <1>3 DEF JournalTypes
<1> QED
  BY <1>1, <1>2, <1>3, <1>4

LEMMA TargetsAre ==
  ASSUME JournalTypes, PlanKept, NEW k \in MigTargets
  PROVE  /\ TargetObject(k) \in Nat /\ TargetObject(k) <= MigSel.existing
         /\ (k # Code /\ migKind[k] = "comment") => TargetObject(k) # 1
         /\ k # Code => BindWrite(k) \in Nat
<1>1. migCase \in MigCases /\ migReceipt \in [MigTargets -> Nat]
  BY DEF JournalTypes
<1>2. CASE k = Code
  BY <1>1, <1>2, MigrationAssumption DEF TargetObject, MigSel
<1>3. CASE k # Code
  <2>1. k \in DOMAIN migCase.items
    BY <1>3 DEF MigTargets, MigItems
  <2>2. migKind[k] = "comment" =>
          migCase.items[k].kind = "comment" /\ migCase.items[k].parent \in DOMAIN migCase.items
    BY <2>1, <1>1, MigrationAssumption DEF PlanKept, MigItem, MigItems
  <2>3. BindWrite(k) \in Nat
    BY <2>2, <1>1 DEF BindWrite, ParentItem, MigItem, MigTargets, MigItems
  <2>4. /\ migCase.sel.target[k] \in 0..migCase.sel.existing
        /\ migCase.sel.target[k] = 1 => migCase.items[k].kind # "comment"
        /\ migCase.sel.existing \in Nat
    BY <2>1, <1>1, MigrationAssumption
  <2> QED
    BY <2>2, <2>3, <2>4, <1>3 DEF TargetObject, MigSel
<1> QED
  BY <1>2, <1>3

-----------------------------------------------------------------------------
(* The types of the journal.                                                 *)

\* Replacing an element of a sequence and adding one at its end.
LEMMA SequenceMoves ==
  ASSUME NEW S, NEW s \in Seq(S), NEW e \in S
  PROVE  /\ Append(s, e) \in Seq(S) /\ DOMAIN Append(s, e) = DOMAIN s \cup {Len(s) + 1}
         /\ Append(s, e)[Len(s) + 1] = e
         /\ \A i \in DOMAIN s : Append(s, e)[i] = s[i] /\ i # Len(s) + 1
         /\ \A i \in DOMAIN s :
              /\ [s EXCEPT ![i] = e] \in Seq(S) /\ DOMAIN [s EXCEPT ![i] = e] = DOMAIN s
              /\ \A j \in DOMAIN s : [s EXCEPT ![i] = e][j] = IF j = i THEN e ELSE s[j]
  OBVIOUS

LEMMA ShowsTyped ==
  ASSUME migObjects \in Seq(MigObject), NEW o \in DOMAIN migObjects,
         NEW m \in Nat, NEW x \in BOOLEAN, NEW r \in Nat, NEW w \in BOOLEAN
  PROVE  Shows(o, m, x, r, w) \in MigObject
<1>1. migObjects[o] \in MigObject
  OBVIOUS
<1> QED
  BY <1>1 DEF Shows, MigObject

LEMMA ObjectFields ==
  ASSUME migObjects \in Seq(MigObject), NEW o \in DOMAIN migObjects
  PROVE  /\ migObjects[o].marker \in Nat /\ migObjects[o].exact \in BOOLEAN
         /\ migObjects[o].rev \in Nat /\ migObjects[o].mine \in BOOLEAN
         /\ migObjects[o].parent \in Nat
<1>1. migObjects[o] \in MigObject
  OBVIOUS
<1> QED
  BY <1>1 DEF MigObject

\* The objects after each of these steps.
LEMMA UpdatedObjects ==
  ASSUME JournalTypes, NEW q \in MigRequest, Updated(q)
  PROVE  /\ migObjects' \in Seq(MigObject) /\ DOMAIN migObjects' = DOMAIN migObjects
         /\ \A p \in DOMAIN migObjects : p # q.target => migObjects'[p] = migObjects[p]
         /\ q.target \in DOMAIN migObjects /\ q.target # 0 /\ q.intent # Code
         /\ migObjects'[q.target].marker = q.intent
         /\ migObjects'[q.target].parent = migObjects[q.target].parent
         /\ migObjects'[q.target].exact /\ migObjects'[q.target].mine
         /\ migObjects'[q.target].rev = migObjects[q.target].rev + 1
<1>1. q.intent \in Nat
  BY DEF MigRequest
<1>2. q.target \in DOMAIN migObjects /\ migObjects[q.target].rev + 1 \in Nat
  BY ObjectFields DEF Updated, JournalTypes
<1> DEFINE ob == Shows(q.target, q.intent, TRUE, migObjects[q.target].rev + 1, TRUE)
<1>3. ob \in MigObject
  BY <1>1, <1>2, ShowsTyped DEF JournalTypes
<1>4. /\ ob.marker = q.intent /\ ob.parent = migObjects[q.target].parent
      /\ ob.exact /\ ob.mine /\ ob.rev = migObjects[q.target].rev + 1
  BY DEF Shows
<1>5. migObjects' = [migObjects EXCEPT ![q.target] = ob] /\ q.target # 0 /\ q.intent # Code
  BY DEF Updated
<1> HIDE DEF ob
<1>6. /\ migObjects' \in Seq(MigObject) /\ DOMAIN migObjects' = DOMAIN migObjects
      /\ \A p \in DOMAIN migObjects : migObjects'[p] = IF p = q.target THEN ob ELSE migObjects[p]
  BY <1>2, <1>3, <1>5, SequenceMoves, Zenon DEF JournalTypes
<1> QED
  BY <1>2, <1>4, <1>5, <1>6

LEMMA CreatedObjects ==
  ASSUME JournalTypes, NEW q \in MigRequest, Created(q)
  PROVE  /\ migObjects' \in Seq(MigObject)
         /\ DOMAIN migObjects' = DOMAIN migObjects \cup {Len(migObjects) + 1}
         /\ \A p \in DOMAIN migObjects :
              migObjects'[p] = migObjects[p] /\ p # Len(migObjects) + 1
         /\ q.target = 0 /\ q.intent # Code
         /\ migObjects'[Len(migObjects) + 1].marker = q.intent
         /\ migObjects'[Len(migObjects) + 1].parent = q.parent
         /\ migObjects'[Len(migObjects) + 1].exact
<1> DEFINE ob == [marker |-> q.intent, parent |-> q.parent, exact |-> TRUE, rev |-> 1, mine |-> TRUE]
<1>1. ob \in MigObject
  BY DEF MigRequest, MigObject
<1>2. migObjects' = Append(migObjects, ob) /\ q.target = 0 /\ q.intent # Code
  BY DEF Created
<1>4. ob.marker = q.intent /\ ob.parent = q.parent /\ ob.exact
  OBVIOUS
<1> HIDE DEF ob
<1>3. /\ migObjects' \in Seq(MigObject)
      /\ DOMAIN migObjects' = DOMAIN migObjects \cup {Len(migObjects) + 1}
      /\ \A p \in DOMAIN migObjects : migObjects'[p] = migObjects[p] /\ p # Len(migObjects) + 1
      /\ migObjects'[Len(migObjects) + 1] = ob
  BY <1>1, <1>2, SequenceMoves DEF JournalTypes
<1> QED
  BY <1>2, <1>3, <1>4, Zenon

\* Another user's step takes nothing away and adds nothing of the migration's.
LEMMA OthersObjects ==
  ASSUME JournalTypes, OthersChange
  PROVE  /\ migObjects' \in Seq(MigObject) /\ DOMAIN migObjects \subseteq DOMAIN migObjects'
         /\ \A p \in DOMAIN migObjects :
              /\ migObjects'[p].marker = migObjects[p].marker
              /\ migObjects'[p].parent = migObjects[p].parent
              /\ migObjects'[p].mine = migObjects[p].mine
              /\ migObjects'[p].exact => migObjects[p].exact
              /\ migObjects'[p].rev = 1 => migObjects'[p] = migObjects[p]
         /\ \A p \in DOMAIN migObjects' \ DOMAIN migObjects :
              /\ ~migObjects'[p].mine
              /\ \E o \in DOMAIN migObjects : /\ migObjects'[p].exact = migObjects[o].exact
                                            /\ migObjects'[p].rev = migObjects[o].rev
<1> DEFINE Goal ==
         /\ migObjects' \in Seq(MigObject) /\ DOMAIN migObjects \subseteq DOMAIN migObjects'
         /\ \A p \in DOMAIN migObjects :
              /\ migObjects'[p].marker = migObjects[p].marker
              /\ migObjects'[p].parent = migObjects[p].parent
              /\ migObjects'[p].mine = migObjects[p].mine
              /\ migObjects'[p].exact => migObjects[p].exact
              /\ migObjects'[p].rev = 1 => migObjects'[p] = migObjects[p]
         /\ \A p \in DOMAIN migObjects' \ DOMAIN migObjects :
              /\ ~migObjects'[p].mine
              /\ \E o \in DOMAIN migObjects : /\ migObjects'[p].exact = migObjects[o].exact
                                            /\ migObjects'[p].rev = migObjects[o].rev
<1>1. ASSUME NEW o \in DOMAIN migObjects, OthersEdit(o)
      PROVE  Goal
  <2>1. PICK x \in BOOLEAN, r \in Nat :
          /\ migObjects' = [migObjects EXCEPT ![o] =
               Shows(o, migObjects[o].marker, x, r, migObjects[o].mine)]
          /\ r # 1 /\ (x => migObjects[o].exact)
    BY <1>1 DEF OthersEdit
  <2> DEFINE ob == Shows(o, migObjects[o].marker, x, r, migObjects[o].mine)
  <2>2. ob \in MigObject
    BY ShowsTyped, ObjectFields DEF JournalTypes
  <2>3. /\ ob.marker = migObjects[o].marker /\ ob.parent = migObjects[o].parent
        /\ ob.exact = x /\ ob.mine = migObjects[o].mine /\ ob.rev = r
    BY DEF Shows
  <2>4. migObjects' = [migObjects EXCEPT ![o] = ob]
    BY <2>1
  <2> HIDE DEF ob
  <2>5. /\ migObjects' \in Seq(MigObject) /\ DOMAIN migObjects' = DOMAIN migObjects
        /\ \A p \in DOMAIN migObjects : migObjects'[p] = IF p = o THEN ob ELSE migObjects[p]
    BY <2>2, <2>4, SequenceMoves, Zenon DEF JournalTypes
  <2> QED
    BY <2>1, <2>3, <2>5
<1>2. ASSUME NEW o \in DOMAIN migObjects, OthersCopy(o)
      PROVE  Goal
  <2> DEFINE ob == Shows(o, migObjects[o].marker, migObjects[o].exact, migObjects[o].rev, FALSE)
  <2>1. ob \in MigObject
    BY ShowsTyped, ObjectFields DEF JournalTypes
  <2>2. ob.exact = migObjects[o].exact /\ ~ob.mine /\ ob.rev = migObjects[o].rev
    BY DEF Shows
  <2>3. migObjects' = Append(migObjects, ob)
    BY <1>2 DEF OthersCopy
  <2> HIDE DEF ob
  <2>4. /\ migObjects' \in Seq(MigObject)
        /\ DOMAIN migObjects' = DOMAIN migObjects \cup {Len(migObjects) + 1}
        /\ migObjects'[Len(migObjects) + 1] = ob
        /\ \A p \in DOMAIN migObjects : migObjects'[p] = migObjects[p]
    BY <2>1, <2>3, SequenceMoves DEF JournalTypes
  <2> QED
    BY <2>2, <2>4
<1>3. CASE migObjects' = migObjects
  BY <1>3 DEF JournalTypes
<1> QED
  BY <1>1, <1>2, <1>3, OthersMoves

LEMMA TypesStep ==
  ASSUME MigInv, MigrationNext
  PROVE  JournalTypes'
<1>a. JournalTypes /\ WireBound /\ PlanKept
  BY DEF MigInv
<1>b. migCase' = migCase /\ MigTargets' = MigTargets /\ MigItems' = MigItems
  BY DEF MigrationNext, ObserveStart, ObserveEnd, SourceReplaced, PrepareMigration,
    ApplyStart, ApplyPrepare, ApplyInflight, ApplySend, ApplyConfirm, ApplyFail,
    ApplyReconcile, ApplyEnd, ApplyCrash, ClearLock, OthersChange, Deliver,
    RequestLost, migSaved, MigTargets, MigItems
<1> USE <1>a, <1>b
<1>1. CASE ObserveStart \/ ObserveEnd \/ SourceReplaced \/ PrepareMigration
  BY <1>1 DEF ObserveStart, ObserveEnd, SourceReplaced, PrepareMigration, JournalTypes
<1>2. CASE ApplyStart \/ ApplyFail \/ ApplyEnd \/ ApplyCrash \/ ClearLock
  BY <1>2 DEF ApplyStart, ApplyFail, ApplyEnd, ApplyCrash, ClearLock, JournalTypes,
    migSaved, NoReply, Refused
<1>3. CASE ApplyPrepare
  <2>1. \A k \in MigItems : BindWrite(k) \in Nat
    BY TargetsAre, MigrationAssumption DEF MigTargets, JournalTypes, MigItems, Code
  <2>2. migParent' \in [MigItems -> Nat]
    BY <1>3, <2>1 DEF ApplyPrepare, JournalTypes
  <2> QED
    BY <1>3, <2>2 DEF ApplyPrepare, JournalTypes, EntryStates, migSaved
<1>4. CASE ApplyInflight
  BY <1>4 DEF ApplyInflight, JournalTypes, EntryStates, migSaved
<1>5. CASE ApplySend
  <2>1. Current \in MigTargets /\ migSent[Current] = 0 /\ 0 \in {0, 1} /\ 1 \in {0, 1}
    BY <1>5, CurrentPlanned DEF ApplySend, MigInv, SentOnce, PlanKept
  <2>2. Current \in Nat /\ (Current # Code => Current \in MigItems)
    BY <2>1, MigrationAssumption DEF MigTargets, MigItems, JournalTypes, Code
  <2>3. migSent' \in [MigTargets -> {0, 1}]
    BY <1>5, <2>1 DEF ApplySend, JournalTypes
  <2>4. [intent |-> Current, parent |-> IF Current = Code THEN 0 ELSE migParent[Current],
         target |-> TargetObject(Current),
         rev |-> IF ConditionalWrite(Current) THEN 1 ELSE 0] \in MigRequest
    BY <2>1, <2>2, TargetsAre DEF MigRequest, JournalTypes
  <2>5. \A q \in migWire' : q \in MigRequest
    BY <1>5, <2>4 DEF ApplySend, JournalTypes
  <2> QED
    BY <1>5, <2>3, <2>5 DEF ApplySend, JournalTypes, migSaved, NoReply
<1>6. CASE ApplyConfirm
  <2>1. migReply \in Nat
    BY <1>6 DEF ApplyConfirm, JournalTypes
  <2>2. migReceipt' \in [MigTargets -> Nat]
    BY <1>6, <2>1 DEF ApplyConfirm, JournalTypes
  <2>3. migEntry' \in [MigTargets -> EntryStates]
    BY <1>6 DEF ApplyConfirm, JournalTypes, EntryStates
  <2> QED
    BY <1>6, <2>2, <2>3 DEF ApplyConfirm, JournalTypes, migSaved, NoReply
<1>7. CASE ApplyReconcile
  <2>1. Current \in Written \cup {Code}
    BY <1>7, CurrentPlanned DEF ApplyReconcile, PlanKept
  <2>2. Matches(Current) \subseteq Nat
    BY <2>1, MatchesAre
  <2>3. migReceipt' \in [MigTargets -> Nat]
    BY <1>7, <2>2 DEF ApplyReconcile, JournalTypes
  <2>4. migEntry' \in [MigTargets -> EntryStates]
    BY <1>7 DEF ApplyReconcile, JournalTypes, EntryStates
  <2> QED
    BY <1>7, <2>3, <2>4 DEF ApplyReconcile, JournalTypes, migSaved
<1>8. CASE OthersChange
  <2>1. migObjects' \in Seq(MigObject)
    BY <1>8, OthersObjects
  <2> QED
    BY <1>8, <2>1, OthersMoves DEF JournalTypes
<1>9. ASSUME NEW q \in migWire, Deliver(q)
      PROVE  JournalTypes'
  <2>1. /\ q.intent \in Nat /\ q.parent \in Nat /\ q.target \in Nat
    BY <1>9 DEF JournalTypes, MigRequest
  <2>2. CASE Updated(q)
    <3>1. migObjects' \in Seq(MigObject)
      BY <1>9, <2>2, UpdatedObjects DEF JournalTypes
    <3>2. migReply' \in Int /\ (migReply' # Refused => migReply' \in Nat)
      BY <2>1, <2>2 DEF Updated, JournalTypes, Answer
    <3> QED
      BY <1>9, <3>1, <3>2, DeliverMoves DEF JournalTypes, migSaved
  <2>3. CASE Created(q)
    <3>1. migObjects' \in Seq(MigObject)
      BY <1>9, <2>3, CreatedObjects DEF JournalTypes
    <3>2. migReply' \in Int /\ (migReply' # Refused => migReply' \in Nat)
      BY <2>1, <2>3 DEF Created, JournalTypes, Answer
    <3> QED
      BY <1>9, <3>1, <3>2, DeliverMoves DEF JournalTypes, migSaved
  <2>4. CASE Unexecuted(q)
    <3>1. migReply' \in Int /\ (migReply' # Refused => migReply' \in Nat)
      BY <2>1, <2>4 DEF Unexecuted, JournalTypes, Answer, Refused
    <3> QED
      BY <1>9, <2>4, <3>1, DeliverMoves DEF Unexecuted, JournalTypes, migSaved
  <2> QED
    BY <1>9, <2>2, <2>3, <2>4, DeliverMoves
<1>10. ASSUME NEW q \in migWire, RequestLost(q)
      PROVE  JournalTypes'
  BY <1>10 DEF RequestLost, JournalTypes, migSaved
<1> QED
  BY <1>1, <1>2, <1>3, <1>4, <1>5, <1>6, <1>7, <1>8, <1>9, <1>10 DEF MigrationNext

-----------------------------------------------------------------------------
(* The plan, once saved, stays; what it says of an intent stays too.         *)

LEMMA SavedStays ==
  ASSUME UNCHANGED <<migCase, migKind>>
  PROVE  /\ Written' = Written /\ MigItems' = MigItems /\ MigTargets' = MigTargets
         /\ MigSel' = MigSel
         /\ \A k : TargetObject(k)' = TargetObject(k)
         /\ \A k : ConditionalWrite(k)' = ConditionalWrite(k)
         /\ \A k : FindingStatus(k)' = FindingStatus(k)
         /\ \A d : CanonicalPlan(d)' = CanonicalPlan(d)
<1>1. MigItems' = MigItems /\ MigTargets' = MigTargets /\ MigSel' = MigSel
      /\ \A k : MigItem(k)' = MigItem(k)
  BY DEF MigItems, MigTargets, MigSel, MigItem
<1>2. \A k : IssueStatus(k)' = IssueStatus(k)
  BY DEF IssueStatus, GithubIssue, ForgejoIssue, GitlabIssue, AzureIssue, WorkItemUnmapped,
    DestState, DestType, SourceState, SourceType, UpdatesExisting, MigSel, MigItem
<1>3. \A k : GithubComment(k)' = GithubComment(k)
  BY <1>2 DEF GithubComment, IssueLike, ParentItem, MigItem
<1>4. \A k : ForgejoComment(k)' = ForgejoComment(k)
  BY <1>3 DEF ForgejoComment, UpdatesExisting, ParentItem, MigSel, MigItem
<1>5. \A k : CommentStatus(k)' = CommentStatus(k)
  BY <1>3, <1>4 DEF CommentStatus, AzureComment, GitlabComment
<1>6. \A k : FindingStatus(k)' = FindingStatus(k)
  BY <1>2, <1>5 DEF FindingStatus, LocalPlan, BitbucketPlan, IssueLike
<1>7. Written' = Written
  BY <1>1, <1>6 DEF Written
<1>8. \A d : CanonicalPlan(d)' = CanonicalPlan(d)
  BY <1>1, <1>6 DEF CanonicalPlan
<1>9. \A k : TargetObject(k)' = TargetObject(k) /\ ConditionalWrite(k)' = ConditionalWrite(k)
  BY DEF TargetObject, ConditionalWrite, MigSel
<1> QED
  BY <1>1, <1>6, <1>7, <1>8, <1>9

\* A snapshot never turns something else into a comment.
LEMMA SnapshotKinds ==
  ASSUME JournalTypes, NEW k \in MigItems, SourceSnapshot(k) = "comment"
  PROVE  MigItem(k).kind = "comment"
<1>1. \A r, o : Kept(k, r, o) \in {"unread", MigItem(k).kind, "preserved"}
  BY DEF Kept
<1>2. migCase.src \in {"github", "forgejo", "gitlab", "azure", "bitbucket"}
  BY MigrationAssumption DEF JournalTypes
<1>3. GithubIssueRows(k) \in {"unread", MigItem(k).kind, "preserved"}
  BY <1>1, Zenon DEF GithubIssueRows
<1>4. AzureWorkItemRows(k) \in {"unread", MigItem(k).kind, "preserved", "work_item"}
  <2>1. AzureWorkItemRows(k) = "work_item"
        \/ \E r, o : AzureWorkItemRows(k) = Kept(k, r, o)
    BY Zenon DEF AzureWorkItemRows
  <2> QED
    BY <2>1, <1>1
<1>5. SourceSnapshot(k) \in {"unread", MigItem(k).kind, "preserved", "work_item"}
  BY <1>1, <1>2, <1>3, <1>4 DEF SourceSnapshot, GithubPullRows, ForgejoPullRows,
    ForgejoIssueRows, GitlabMergeRequestRows, GitlabIssueRows, AzurePullRows, BitbucketRows
<1> QED
  BY <1>5

LEMMA PlanStep ==
  ASSUME MigInv, MigrationNext
  PROVE  PlanKept'
<1>a. JournalTypes /\ PlanKept
  BY DEF MigInv
<1>1. CASE ObserveStart
  <2>1. MigItems' = MigItems /\ \A k : MigItem(k)' = MigItem(k)
    BY <1>1 DEF ObserveStart, MigItems, MigItem
  <2>2. \A k \in MigItems' : migKind'[k] = "comment" => MigItem(k)'.kind = "comment"
    BY <1>1, <2>1, <1>a, SnapshotKinds DEF ObserveStart
  <2>3. MigTargets' = MigTargets
    BY <2>1 DEF MigTargets
  <2> QED
    BY <1>1, <1>a, <2>2, <2>3 DEF ObserveStart, PlanKept
<1>2. CASE ObserveEnd \/ SourceReplaced
  <2>1. UNCHANGED <<migCase, migKind, migPlan, migDecided, migPc, migWire>> /\ migPhase # "saved"
        /\ migPhase' # "saved"
    BY <1>2 DEF ObserveEnd, SourceReplaced
  <2>2. MigItems' = MigItems /\ MigTargets' = MigTargets /\ \A k : MigItem(k)' = MigItem(k)
    BY <2>1 DEF MigItems, MigItem, MigTargets
  <2> QED
    BY <2>1, <2>2, <1>a DEF PlanKept
<1>3. CASE PrepareMigration
  <2>1. UNCHANGED <<migCase, migKind, migPc, migWire>> /\ migPhase' = "saved"
        /\ migPlan' \in PlanIntents
    BY <1>3 DEF PrepareMigration
  <2>2. /\ Written' = Written /\ MigTargets' = MigTargets /\ MigItems' = MigItems
        /\ \A d : CanonicalPlan(d)' = CanonicalPlan(d)
    BY <2>1, SavedStays
  <2>3. CanonicalPlan(migDecided)'
    BY <1>3, <2>1, <2>2 DEF PrepareMigration, CanonicalPlan, MigItems, FindingStatus
  <2> DEFINE W == Written \cup {Code}
  <2>4. Cardinality(W) \in Nat
    <3>1. IsFiniteSet(MigItems)
      BY <1>a, MigrationAssumption DEF JournalTypes, MigItems
    <3>2. IsFiniteSet(Written)
      BY <3>1, FS_Subset DEF Written
    <3>3. IsFiniteSet(W)
      BY <3>2, FS_AddElement
    <3> QED
      BY <3>3, FS_CardinalityType
  <2>5. migPlan' \in Seq(W) /\ \A k \in W : \E i \in DOMAIN migPlan' : migPlan'[i] = k
    <3>1. /\ migPlan' \in [1..Cardinality(W) -> W]
          /\ \A k \in W : \E i \in DOMAIN migPlan' : migPlan'[i] = k
      BY <2>1 DEF PlanIntents
    <3> HIDE DEF W
    <3> QED
      BY <3>1, <2>4
  <2>6. W \subseteq MigTargets
    BY DEF Written, MigTargets
  <2>7. MigIntents' = W
    BY <2>5 DEF MigIntents
  <2>8. \A k \in MigItems' : migKind'[k] = "comment" => MigItem(k)'.kind = "comment"
    BY <2>1, <2>2, <1>a DEF PlanKept, MigItem
  <2>9. migPlan' \in Seq(MigTargets')
    BY <2>2, <2>5, <2>6
  <2> QED
    BY <2>1, <2>2, <2>3, <2>7, <2>8, <2>9 DEF PlanKept
<1>4. CASE ~(ObserveStart \/ ObserveEnd \/ SourceReplaced \/ PrepareMigration)
  <2>1. /\ UNCHANGED <<migCase, migKind, migPlan, migDecided, migPhase>>
        /\ migPc' = "idle" \/ migPhase = "saved"
        /\ migWire' \subseteq migWire \/ migPc # "idle"
    BY <1>a, <1>4 DEF MigrationNext, ApplyStart, ApplyPrepare, ApplyInflight, ApplySend,
      ApplyConfirm, ApplyFail, ApplyReconcile, ApplyEnd, ApplyCrash, ClearLock,
      OthersChange, Deliver, RequestLost, migSaved, PlanKept
  <2>2. /\ Written' = Written /\ MigTargets' = MigTargets /\ MigItems' = MigItems
        /\ CanonicalPlan(migDecided)' = CanonicalPlan(migDecided)
        /\ MigIntents' = MigIntents
    <3>1. CanonicalPlan(migDecided)' = CanonicalPlan(migDecided)
      BY <2>1, SavedStays DEF CanonicalPlan
    <3> QED
      BY <2>1, <3>1, SavedStays DEF MigIntents
  <2> QED
    BY <2>1, <2>2, <1>a DEF PlanKept, MigItem
<1> QED
  BY <1>1, <1>2, <1>3, <1>4

-----------------------------------------------------------------------------
(* The journal against the wire.                                             *)

\* Steps that leave the plan and the set of confirmed entries alone.
LEMMA JournalFrame ==
  ASSUME MigInv, MigrationNext, ~PrepareMigration,
         \A k \in MigTargets : migEntry'[k] = "confirmed" <=> migEntry[k] = "confirmed"
  PROVE  Current' = Current /\ (MigDone' <=> MigDone)
<1>1. migPlan' = migPlan
  BY DEF MigrationNext, ObserveStart, ObserveEnd, SourceReplaced, ApplyStart, ApplyPrepare,
    ApplyInflight, ApplySend, ApplyConfirm, ApplyFail, ApplyReconcile, ApplyEnd, ApplyCrash,
    ClearLock, OthersChange, Deliver, RequestLost, migSaved
<1> QED
  BY <1>1, CurrentStays DEF MigInv, PlanKept

LEMMA SentStep ==
  ASSUME MigInv, MigrationNext
  PROVE  SentOnce'
<1>a. JournalTypes /\ PlanKept /\ SentOnce
  BY DEF MigInv
<1>b. MigTargets' = MigTargets /\ MigItems' = MigItems
  BY DEF MigrationNext, ObserveStart, ObserveEnd, SourceReplaced, PrepareMigration,
    ApplyStart, ApplyPrepare, ApplyInflight, ApplySend, ApplyConfirm, ApplyFail,
    ApplyReconcile, ApplyEnd, ApplyCrash, ClearLock, OthersChange, Deliver,
    RequestLost, migSaved, MigTargets, MigItems
<1> USE <1>a, <1>b
<1>1. CASE ApplyPrepare
  <2>1. Current \in MigTargets
    BY <1>1, CurrentPlanned DEF ApplyPrepare, PlanKept
  <2>2. migPc' = "run" /\ migSent' = migSent /\ migSent[Current] = 0
    BY <1>1, <2>1 DEF ApplyPrepare, SentOnce
  <2>3. \A k \in MigTargets : k # Current => migEntry'[k] = migEntry[k]
    BY <1>1 DEF ApplyPrepare, JournalTypes
  <2> QED
    BY <2>2, <2>3 DEF SentOnce
<1>2. CASE ApplyInflight
  <2>1. Current \in MigTargets /\ migSent[Current] = 0 /\ migSent' = migSent
    BY <1>2, CurrentPlanned DEF ApplyInflight, PlanKept, SentOnce
  <2>2. \A k \in MigTargets : migEntry'[k] = IF k = Current THEN "inflight" ELSE migEntry[k]
    BY <1>2 DEF ApplyInflight, JournalTypes
  <2>3. Current' = Current /\ (MigDone' <=> MigDone)
    BY <1>2, <2>2, JournalFrame DEF ApplyInflight, PrepareMigration
  <2> QED
    BY <1>2, <2>1, <2>2, <2>3 DEF ApplyInflight, SentOnce
<1>3. CASE ApplySend
  <2>1. Current' = Current /\ (MigDone' <=> MigDone)
    BY <1>3, JournalFrame DEF ApplySend, PrepareMigration
  <2>2. migEntry[Current] = "inflight" /\ ~MigDone
    BY <1>3 DEF ApplySend, SentOnce
  <2>3. \A k \in MigTargets : k # Current => migSent'[k] = migSent[k]
    BY <1>3 DEF ApplySend, JournalTypes
  <2> QED
    BY <1>3, <2>1, <2>2, <2>3 DEF ApplySend, SentOnce
<1>4. CASE ApplyConfirm \/ ApplyReconcile
  <2>1. \A k \in MigTargets : migEntry'[k] \in {migEntry[k], "confirmed"}
    BY <1>4 DEF ApplyConfirm, ApplyReconcile, JournalTypes
  <2> QED
    BY <1>4, <2>1 DEF ApplyConfirm, ApplyReconcile, SentOnce
<1>5. CASE ObserveStart \/ ObserveEnd \/ SourceReplaced \/ PrepareMigration
  BY <1>5 DEF ObserveStart, ObserveEnd, SourceReplaced, PrepareMigration, PlanKept, SentOnce
<1>6. CASE ApplyStart \/ ApplyFail \/ ApplyEnd \/ ApplyCrash \/ ClearLock
  BY <1>6 DEF ApplyStart, ApplyFail, ApplyEnd, ApplyCrash, ClearLock, SentOnce
<1>7. CASE OthersChange \/ (\E q \in migWire : Deliver(q) \/ RequestLost(q))
  <2>1. UNCHANGED <<migEntry, migPc, migSent, migPlan>>
    BY <1>7 DEF OthersChange, Deliver, RequestLost, migSaved
  <2>2. Current' = Current /\ (MigDone' <=> MigDone)
    BY <2>1, CurrentStays DEF PlanKept
  <2> QED
    BY <2>1, <2>2 DEF SentOnce
<1> QED
  BY <1>1, <1>2, <1>3, <1>4, <1>5, <1>6, <1>7 DEF MigrationNext

\* Once a plan is saved, everything it says stays.
LEMMA AfterSaved ==
  ASSUME MigInv, MigrationNext,
         ~(ObserveStart \/ ObserveEnd \/ SourceReplaced \/ PrepareMigration)
  PROVE  /\ UNCHANGED migSaved /\ MigIntents' = MigIntents /\ Written' = Written
         /\ MigItems' = MigItems /\ MigTargets' = MigTargets /\ MigSel' = MigSel
         /\ \A k : TargetObject(k)' = TargetObject(k)
         /\ \A k : ConditionalWrite(k)' = ConditionalWrite(k)
<1>1. UNCHANGED migSaved
  BY DEF MigrationNext, ApplyStart, ApplyPrepare, ApplyInflight, ApplySend,
      ApplyConfirm, ApplyFail, ApplyReconcile, ApplyEnd, ApplyCrash, ClearLock,
      OthersChange, Deliver, RequestLost, migSaved
<1> QED
  BY <1>1, SavedStays DEF migSaved, MigIntents

\* Before one is saved nothing is sent.
LEMMA BeforeSaved ==
  ASSUME MigInv, ObserveStart \/ ObserveEnd \/ SourceReplaced \/ PrepareMigration
  PROVE  /\ migPc = "idle" /\ migPc' = "idle" /\ migWire = {} /\ migWire' = {}
         /\ \A o \in DOMAIN migObjects : ~migObjects[o].mine
         /\ UNCHANGED <<migCase, migEntry, migParent, migReceipt, migSent, migObjects,
              migRef, migArchive, migReply>>
  BY DEF MigInv, PlanKept, MineSent, ObserveStart, ObserveEnd, SourceReplaced, PrepareMigration

LEMMA WireStep ==
  ASSUME MigInv, MigrationNext
  PROVE  WireBound'
<1>a. JournalTypes /\ PlanKept /\ SentOnce /\ WireBound /\ MineSent
  BY DEF MigInv
<1>1. CASE ObserveStart \/ ObserveEnd \/ SourceReplaced \/ PrepareMigration
  BY <1>1, BeforeSaved DEF WireBound
<1> DEFINE Kept1 ==
  /\ MigIntents' = MigIntents
  /\ \A k : TargetObject(k)' = TargetObject(k)
  /\ \A k : ConditionalWrite(k)' = ConditionalWrite(k)
<1>2. ASSUME ~(ObserveStart \/ ObserveEnd \/ SourceReplaced \/ PrepareMigration)
      PROVE  Kept1
  BY <1>2, AfterSaved
<1>i. MigIntents \subseteq MigTargets
  BY <1>a DEF PlanKept, MigIntents
<1> HIDE DEF Kept1
<1>3. CASE ApplyStart \/ ApplyFail \/ ApplyEnd \/ ApplyCrash \/ ClearLock \/ ApplyConfirm
           \/ ApplyInflight \/ ApplyReconcile
  <2>1. UNCHANGED <<migWire, migSent, migParent, migObjects>> /\ migPhase' = migPhase
    BY <1>3 DEF ApplyStart, ApplyFail, ApplyEnd, ApplyCrash, ClearLock, ApplyConfirm,
      ApplyInflight, ApplyReconcile, migSaved
  <2>2. Kept1
    BY <1>2, <1>3 DEF ApplyStart, ApplyFail, ApplyEnd, ApplyCrash, ClearLock, ApplyConfirm,
      ApplyInflight, ApplyReconcile, ObserveStart, ObserveEnd, SourceReplaced,
      PrepareMigration, PlanKept, migSaved
  <2> QED
    BY <2>1, <2>2, <1>a DEF WireBound, Kept1
<1>4. CASE ApplyPrepare
  <2>1. /\ UNCHANGED <<migWire, migSent, migObjects>>
        /\ \A k \in MigItems : k # Current => migParent'[k] = migParent[k]
        /\ migPhase' = migPhase
    BY <1>4 DEF ApplyPrepare, migSaved
  <2>2. Kept1
    BY <1>2, <1>4 DEF ApplyPrepare, ObserveStart, ObserveEnd, SourceReplaced,
      PrepareMigration, migSaved
  <2>3. Current \in MigTargets /\ migSent[Current] = 0
    BY <1>4, <1>a, CurrentPlanned DEF ApplyPrepare, PlanKept, SentOnce
  <2>4. \A q \in migWire : q.intent # Current /\ (q.intent # Code => q.intent \in MigItems)
    BY <2>3, <1>a, <1>i DEF WireBound, MigTargets
  <2> QED
    BY <2>1, <2>2, <2>4, <1>a DEF WireBound, Kept1
<1>5. CASE ApplySend
  <2> DEFINE nw == [intent |-> Current,
        parent |-> IF Current = Code THEN 0 ELSE migParent[Current],
        target |-> TargetObject(Current),
        rev |-> IF ConditionalWrite(Current) THEN 1 ELSE 0]
  <2>1. UNCHANGED <<migParent, migObjects>> /\ migWire' = migWire \cup {nw}
    BY <1>5 DEF ApplySend
  <2>2. Kept1
    BY <1>2, <1>5 DEF ApplySend, ObserveStart, ObserveEnd, SourceReplaced,
      PrepareMigration, migSaved
  <2>3. Current \in MigTargets /\ Current \in MigIntents /\ migSent[Current] = 0
    BY <1>5, <1>a, CurrentPlanned DEF ApplySend, PlanKept, SentOnce
  <2>4. \A k \in MigTargets : migSent'[k] = IF k = Current THEN 1 ELSE migSent[k]
    BY <1>5, <2>3, <1>a DEF ApplySend, JournalTypes
  <2>5. \A q \in migWire : q.intent # Current /\ q.intent \in MigTargets
    BY <2>3, <1>a, <1>i DEF WireBound
  <2>6. \A o \in DOMAIN migObjects : migObjects[o].mine => migObjects[o].marker # Current
    BY <2>3, <1>a DEF MineSent
  <2>7. /\ nw.intent = Current /\ nw.target = TargetObject(Current)
        /\ Current # Code => nw.parent = migParent[Current]
        /\ nw.rev = IF ConditionalWrite(Current) THEN 1 ELSE 0
    OBVIOUS
  <2> HIDE DEF nw
  <2> QED
    BY <2>1, <2>2, <2>3, <2>4, <2>5, <2>6, <2>7, <1>a DEF WireBound, Kept1
<1>6. CASE OthersChange
  <2>1. UNCHANGED <<migWire, migSent, migParent>>
    BY <1>6, <1>a, OthersMoves
  <2>2. Kept1
    BY <1>2, <1>6, <1>a DEF OthersChange, ObserveStart, ObserveEnd, SourceReplaced,
      PrepareMigration, migSaved
  <2> QED
    BY <2>1, <2>2, <1>6, <1>a, OthersObjects DEF WireBound, Kept1
<1>7. ASSUME NEW q \in migWire, RequestLost(q)
      PROVE  WireBound'
  <2>1. UNCHANGED <<migSent, migParent, migObjects>> /\ migWire' \subseteq migWire
    BY <1>7 DEF RequestLost
  <2>2. Kept1
    BY <1>2, <1>7, <1>a DEF RequestLost, ObserveStart, ObserveEnd, SourceReplaced,
      PrepareMigration, migSaved
  <2> QED
    BY <2>1, <2>2, <1>a DEF WireBound, Kept1
<1>8. ASSUME NEW q \in migWire, Deliver(q)
      PROVE  WireBound'
  <2>1. UNCHANGED <<migSent, migParent>> /\ migWire' = migWire \ {q}
    BY <1>8, DeliverMoves
  <2>2. Kept1
    <3>1. UNCHANGED migPhase
      BY <1>8, DeliverMoves DEF migSaved
    <3>2. migPhase = "saved"
      BY <1>8, <1>a DEF PlanKept
    <3> QED
      BY <1>2, <3>1, <3>2 DEF ObserveStart, ObserveEnd, SourceReplaced, PrepareMigration
  <2>3. \A r \in migWire' : r \in migWire /\ r.intent # q.intent
    BY <2>1, <1>a DEF WireBound
  <2>4. \A r \in migWire', o \in DOMAIN migObjects' :
          migObjects'[o].mine => migObjects'[o].marker # r.intent
    <3>0. q \in MigRequest
      BY <1>a, <1>8 DEF JournalTypes
    <3>1. CASE Updated(q)
      BY <3>0, <3>1, <2>3, <1>a, UpdatedObjects DEF WireBound
    <3>2. CASE Created(q)
      BY <3>0, <3>2, <2>3, <1>a, CreatedObjects DEF WireBound
    <3>3. CASE Unexecuted(q)
      BY <3>3, <2>3, <1>a DEF WireBound, Unexecuted
    <3> QED
      BY <3>1, <3>2, <3>3, <1>8, DeliverMoves
  <2> QED
    BY <2>1, <2>2, <2>3, <2>4, <1>a DEF WireBound, Kept1
<1> QED
  BY <1>1, <1>3, <1>4, <1>5, <1>6, <1>7, <1>8 DEF MigrationNext

LEMMA MineStep ==
  ASSUME MigInv, MigrationNext
  PROVE  MineSent'
<1>a. JournalTypes /\ PlanKept /\ SentOnce /\ WireBound /\ MineSent
  BY DEF MigInv
<1>1. CASE ObserveStart \/ ObserveEnd \/ SourceReplaced \/ PrepareMigration
  BY <1>1, BeforeSaved DEF MineSent
<1>2. CASE migPhase # "saved" /\ ~(ObserveStart \/ ObserveEnd \/ SourceReplaced \/ PrepareMigration)
  <2>1. \A o \in DOMAIN migObjects : ~migObjects[o].mine
    BY <1>2, <1>a DEF MineSent
  <2>2. migObjects' = migObjects
    BY <1>2, <1>a DEF PlanKept, MigrationNext, ApplyStart, ApplyPrepare, ApplyInflight,
      ApplySend, ApplyConfirm, ApplyFail, ApplyReconcile, ApplyEnd, ApplyCrash, ClearLock,
      OthersChange
  <2> QED
    BY <2>1, <2>2 DEF MineSent
<1> SUFFICES ASSUME migPhase = "saved",
                    ~(ObserveStart \/ ObserveEnd \/ SourceReplaced \/ PrepareMigration)
             PROVE  MineSent'
  BY <1>1, <1>2
<1>b. /\ migPhase' = "saved" /\ MigItems' = MigItems /\ MigIntents' = MigIntents
      /\ \A k : TargetObject(k)' = TargetObject(k)
  BY AfterSaved DEF migSaved
<1>3. CASE ApplyStart \/ ApplyFail \/ ApplyEnd \/ ApplyCrash \/ ClearLock \/ ApplyConfirm
           \/ ApplyInflight \/ ApplyReconcile \/ \E q \in migWire : RequestLost(q)
  <2>1. UNCHANGED <<migSent, migParent, migObjects>>
    BY <1>3 DEF ApplyStart, ApplyFail, ApplyEnd, ApplyCrash, ClearLock, ApplyConfirm,
      ApplyInflight, ApplyReconcile, RequestLost
  <2> QED
    BY <2>1, <1>b, <1>a DEF MineSent
<1>4. CASE ApplyPrepare
  <2>1. /\ UNCHANGED <<migSent, migObjects>>
        /\ \A k \in MigItems : k # Current => migParent'[k] = migParent[k]
    BY <1>4 DEF ApplyPrepare
  <2>2. migSent[Current] = 0
    BY <1>4, <1>a, CurrentPlanned DEF ApplyPrepare, PlanKept, SentOnce
  <2> QED
    BY <2>1, <2>2, <1>b, <1>a DEF MineSent
<1>5. CASE ApplySend
  <2>1. UNCHANGED <<migParent, migObjects>>
    BY <1>5 DEF ApplySend
  <2>2. Current \in MigTargets /\ migSent[Current] = 0
    BY <1>5, <1>a, CurrentPlanned DEF ApplySend, PlanKept, SentOnce
  <2>3. \A k \in MigItems : migSent'[k] = IF k = Current THEN 1 ELSE migSent[k]
    BY <1>5, <2>2, <1>a DEF ApplySend, JournalTypes, MigTargets
  <2> QED
    BY <2>1, <2>3, <1>b, <1>a DEF MineSent
<1>6. CASE OthersChange
  <2>1. UNCHANGED <<migSent, migParent>>
    BY <1>6, <1>a, OthersMoves
  <2> QED
    BY <2>1, <1>b, <1>6, <1>a, OthersObjects DEF MineSent
<1>7. ASSUME NEW q \in migWire, Deliver(q)
      PROVE  MineSent'
  <2>1. UNCHANGED <<migSent, migParent>> /\ q \in MigRequest
    BY <1>7, <1>a, DeliverMoves DEF JournalTypes
  <2>2. /\ q.intent # Code => q.intent \in MigItems
        /\ migSent[q.intent] = 1 /\ q.target = TargetObject(q.intent)
        /\ q.intent # Code => q.parent = migParent[q.intent]
        /\ \A o \in DOMAIN migObjects : migObjects[o].mine => migObjects[o].marker # q.intent
    BY <1>7, <1>a DEF WireBound, PlanKept, MigIntents, MigTargets
  <2>3. CASE Updated(q)
    BY <2>1, <2>2, <2>3, <1>b, <1>a, UpdatedObjects DEF MineSent
  <2>4. CASE Created(q)
    BY <2>1, <2>2, <2>4, <1>b, <1>a, CreatedObjects DEF MineSent
  <2>5. CASE Unexecuted(q)
    BY <2>1, <2>5, <1>b, <1>a DEF MineSent, Unexecuted
  <2> QED
    BY <2>3, <2>4, <2>5, <1>7, DeliverMoves
<1> QED
  BY <1>3, <1>4, <1>5, <1>6, <1>7 DEF MigrationNext

LEMMA AnswerStep ==
  ASSUME MigInv, MigrationNext
  PROVE  AnswerNames'
<1>a. JournalTypes /\ PlanKept /\ SentOnce /\ WireBound /\ MineSent /\ AnswerNames
  BY DEF MigInv
<1>1. CASE migPc' # "wait" \/ migReply' = NoReply
  BY <1>1 DEF AnswerNames
<1> SUFFICES ASSUME migPc' = "wait", migReply' # NoReply
             PROVE  AnswerNames'
  BY <1>1
<1>2. OthersChange \/ \E q \in migWire : Deliver(q) \/ RequestLost(q)
  BY <1>a DEF MigrationNext, ObserveStart, ObserveEnd, SourceReplaced, PrepareMigration,
    ApplyStart, ApplyPrepare, ApplyInflight, ApplySend, ApplyConfirm, ApplyFail,
    ApplyReconcile, ApplyEnd, ApplyCrash, ClearLock, PlanKept
<1>3. migPc = "wait" /\ Current' = Current
  <2>1. UNCHANGED <<migPc, migPlan, migEntry>>
    BY <1>2 DEF OthersChange, Deliver, RequestLost, migSaved
  <2> QED
    BY <2>1, <1>a, CurrentStays DEF PlanKept
<1>4. CASE OthersChange
  <2>1. UNCHANGED migReply
    BY <1>4, <1>a, OthersMoves
  <2> QED
    BY <2>1, <1>3, <1>4, <1>a, OthersObjects DEF AnswerNames
<1>5. ASSUME NEW q \in migWire, RequestLost(q)
      PROVE  AnswerNames'
  BY <1>3, <1>5, <1>a DEF RequestLost, AnswerNames
<1>6. ASSUME NEW q \in migWire, Deliver(q)
      PROVE  AnswerNames'
  <2>1. q \in MigRequest
    BY <1>6, <1>a DEF JournalTypes
  <2>2. \A o \in DOMAIN migObjects : migObjects[o].mine => migObjects[o].marker # q.intent
    BY <1>6, <1>a DEF WireBound
  <2>3. CASE Updated(q)
    <3>1. migReply' = IF Current = q.intent THEN q.target ELSE migReply
      BY <2>3, <1>3 DEF Updated, Answer
    <3> QED
      BY <2>1, <2>2, <2>3, <3>1, <1>3, <1>a, UpdatedObjects DEF AnswerNames
  <2>4. CASE Created(q)
    <3>1. migReply' = IF Current = q.intent THEN Len(migObjects) + 1 ELSE migReply
      BY <2>4, <1>3 DEF Created, Answer
    <3> QED
      BY <2>1, <2>2, <2>4, <3>1, <1>3, <1>a, CreatedObjects DEF AnswerNames
  <2>5. CASE Unexecuted(q)
    <3>1. Current # q.intent => migReply' = migReply
      BY <2>5, <1>3 DEF Unexecuted, Answer
    <3>2. migObjects' = migObjects
      BY <2>5 DEF Unexecuted
    <3> QED
      BY <2>2, <3>1, <3>2, <1>3, <1>a DEF AnswerNames
  <2> QED
    BY <2>3, <2>4, <2>5, <1>6, DeliverMoves
<1> QED
  BY <1>2, <1>4, <1>5, <1>6

-----------------------------------------------------------------------------
(* The project on disk, and the objects that were there before.              *)

LEMMA CodeStep ==
  ASSUME MigInv, MigrationNext
  PROVE  CodeArchived'
<1>a. JournalTypes /\ PlanKept /\ SentOnce /\ CodeArchived
  BY DEF MigInv
<1>b. migCase' = migCase /\ Code \in MigTargets
  BY DEF MigrationNext, ObserveStart, ObserveEnd, SourceReplaced, PrepareMigration,
    ApplyStart, ApplyPrepare, ApplyInflight, ApplySend, ApplyConfirm, ApplyFail,
    ApplyReconcile, ApplyEnd, ApplyCrash, ClearLock, OthersChange, Deliver,
    RequestLost, migSaved, MigTargets
<1>1. CASE ApplyConfirm
  <2>1. migPc = "wait" /\ migPc' = "run" /\ migArchive' = migArchive
    BY <1>1 DEF ApplyConfirm
  <2>2. Code # Current => migEntry'[Code] = migEntry[Code]
    BY <1>1, <1>a, <1>b DEF ApplyConfirm, JournalTypes
  <2> QED
    BY <2>1, <2>2, <1>a, <1>b DEF CodeArchived
<1>2. CASE ApplyReconcile
  <2>1. Current \in Written \cup {Code}
    BY <1>2, <1>a, CurrentPlanned DEF ApplyReconcile, PlanKept
  <2>2. migPc' # "wait" /\ migArchive' = migArchive
    BY <1>2 DEF ApplyReconcile
  <2>3. (migEntry'[Code] # migEntry[Code]) => Current = Code /\ Matches(Current) # {}
    <3>1. (migEntry'[Code] # migEntry[Code]) => Current = Code
      BY <1>2, <1>a, <1>b DEF ApplyReconcile, JournalTypes
    <3>2. (migEntry'[Code] # migEntry[Code] /\ Current = Code) => Exact(Matches(Current))
      BY <1>2 DEF ApplyReconcile
    <3> QED
      BY <3>1, <3>2, FS_EmptySet DEF Exact
  <2> QED
    BY <2>1, <2>2, <2>3, <1>a, <1>b, MatchesAre DEF CodeArchived
<1>3. CASE ApplySend
  <2>1. Current' = Current
    BY <1>3, JournalFrame DEF ApplySend, PrepareMigration
  <2> QED
    BY <1>3, <2>1, <1>a, <1>b DEF ApplySend, CodeArchived, JournalTypes
<1>4. CASE ApplyPrepare \/ ApplyInflight
  <2>1. migPc' # "wait" /\ migArchive' = migArchive
    BY <1>4 DEF ApplyPrepare, ApplyInflight
  <2>2. migEntry'[Code] \in {migEntry[Code], "prepared", "inflight"}
    BY <1>4, <1>a, <1>b DEF ApplyPrepare, ApplyInflight, JournalTypes
  <2> QED
    BY <2>1, <2>2, <1>a, <1>b DEF CodeArchived
<1>5. CASE ApplyStart \/ ApplyFail \/ ApplyEnd \/ ApplyCrash \/ ClearLock
  BY <1>5, <1>a, <1>b DEF ApplyStart, ApplyFail, ApplyEnd, ApplyCrash, ClearLock, CodeArchived
<1>6. CASE ObserveStart \/ ObserveEnd \/ SourceReplaced \/ PrepareMigration
  BY <1>6, <1>a, BeforeSaved DEF CodeArchived
<1>7. CASE OthersChange \/ \E q \in migWire : Deliver(q) \/ RequestLost(q)
  <2>1. UNCHANGED <<migPc, migPlan, migEntry, migArchive>>
    BY <1>7 DEF OthersChange, Deliver, RequestLost, migSaved
  <2>2. Current' = Current
    BY <2>1, <1>a, CurrentStays DEF PlanKept
  <2> QED
    BY <2>1, <2>2, <1>a, <1>b DEF CodeArchived
<1> QED
  BY <1>1, <1>2, <1>3, <1>4, <1>5, <1>6, <1>7 DEF MigrationNext

LEMMA ObjectsStep ==
  ASSUME MigInv, MigrationNext
  PROVE  ObjectsKept'
<1>a. JournalTypes /\ ObjectsKept
  BY DEF MigInv
<1>b. MigSel' = MigSel
  BY DEF MigrationNext, ObserveStart, ObserveEnd, SourceReplaced, PrepareMigration,
    ApplyStart, ApplyPrepare, ApplyInflight, ApplySend, ApplyConfirm, ApplyFail,
    ApplyReconcile, ApplyEnd, ApplyCrash, ClearLock, OthersChange, Deliver,
    RequestLost, migSaved, MigSel
<1>c. MigSel.existing \in Nat /\ migObjects \in Seq(MigObject)
  BY <1>a, MigrationAssumption DEF JournalTypes, MigSel
<1>d. 1..MigSel.existing \subseteq DOMAIN migObjects
  BY <1>a, <1>c DEF ObjectsKept
<1>1. CASE migObjects' = migObjects
  BY <1>1, <1>a, <1>b DEF ObjectsKept
<1>2. CASE OthersChange
  <2>1. \A o \in DOMAIN migObjects' : migObjects'[o].rev = 1 => migObjects'[o].exact
    BY <1>2, <1>a, OthersObjects DEF ObjectsKept
  <2>2. \A o \in 1..MigSel.existing : migObjects'[o].parent = o - 1
    BY <1>2, <1>a, <1>d, OthersObjects DEF ObjectsKept
  <2>3. Len(migObjects') >= Len(migObjects)
    BY <1>2, <1>a, <1>c, OthersObjects
  <2>4. Len(migObjects') \in Nat /\ Len(migObjects) \in Nat
    BY <1>2, <1>a, <1>c, OthersObjects
  <2>5. Len(migObjects') >= MigSel.existing
    BY <2>3, <2>4, <1>a, <1>c DEF ObjectsKept
  <2> QED
    BY <2>1, <2>2, <2>5, <1>b DEF ObjectsKept
<1>3. ASSUME NEW q \in migWire, Deliver(q)
      PROVE  ObjectsKept'
  <2>0. q \in MigRequest
    BY <1>3, <1>a DEF JournalTypes
  <2>1. CASE Updated(q)
    <3>1. \A o \in DOMAIN migObjects' : migObjects'[o].rev = 1 => migObjects'[o].exact
      BY <2>0, <2>1, <1>a, UpdatedObjects DEF ObjectsKept
    <3>2. \A o \in 1..MigSel.existing : migObjects'[o].parent = o - 1
      BY <2>0, <2>1, <1>a, <1>d, UpdatedObjects DEF ObjectsKept
    <3>3. Len(migObjects') = Len(migObjects)
      BY <2>0, <2>1, <1>a, <1>c, UpdatedObjects
    <3> QED
      BY <3>1, <3>2, <3>3, <1>a, <1>b DEF ObjectsKept
  <2>2. CASE Created(q)
    <3>1. \A o \in DOMAIN migObjects' : migObjects'[o].rev = 1 => migObjects'[o].exact
      BY <2>0, <2>2, <1>a, CreatedObjects DEF ObjectsKept
    <3>2. \A o \in 1..MigSel.existing : migObjects'[o].parent = o - 1
      BY <2>0, <2>2, <1>a, <1>d, CreatedObjects DEF ObjectsKept
    <3>3. Len(migObjects') = Len(migObjects) + 1
      BY <2>2, <1>c DEF Created
    <3> QED
      BY <3>1, <3>2, <3>3, <1>a, <1>b, <1>c DEF ObjectsKept
  <2> QED
    BY <2>1, <2>2, <1>1, <1>3, DeliverMoves DEF Unexecuted
<1> QED
  BY <1>1, <1>2, <1>3 DEF MigrationNext, ObserveStart, ObserveEnd, SourceReplaced,
    PrepareMigration, ApplyStart, ApplyPrepare, ApplyInflight, ApplySend, ApplyConfirm,
    ApplyFail, ApplyReconcile, ApplyEnd, ApplyCrash, ClearLock, RequestLost

-----------------------------------------------------------------------------
(* The invariant.                                                            *)

LEMMA InvInit ==
  ASSUME MigrationInit
  PROVE  MigInv
<1>1. migCase \in MigCases /\ migCase.sel.existing \in Nat
  BY MigrationAssumption DEF MigrationInit
<1>2. migObjects \in Seq(MigObject) /\ Len(migObjects) = MigSel.existing
      /\ \A o \in DOMAIN migObjects : /\ ~migObjects[o].mine /\ migObjects[o].exact
                                      /\ migObjects[o].parent = o - 1
  <2> DEFINE ob(o) == [marker |-> 0, parent |-> o - 1, exact |-> TRUE, rev |-> 1, mine |-> FALSE]
             n == migCase.sel.existing
  <2>1. \A o \in 1..n : ob(o) \in MigObject
    BY <1>1 DEF MigObject
  <2>2. \A o \in 1..n : ~ob(o).mine /\ ob(o).exact /\ ob(o).parent = o - 1
    OBVIOUS
  <2>3. migObjects = [o \in 1..n |-> ob(o)] /\ MigSel.existing = n
    BY DEF MigrationInit, MigSel
  <2> HIDE DEF ob, n
  <2>4. n \in Nat
    BY <1>1 DEF n
  <2> QED
    BY <2>1, <2>2, <2>3, <2>4
<1>3. JournalTypes
  <2>1. /\ migEntry \in [MigTargets -> EntryStates] /\ migReceipt \in [MigTargets -> Nat]
        /\ migParent \in [MigItems -> Nat]
    BY DEF MigrationInit, MigTargets, MigItems, EntryStates
  <2>2. migSent \in [MigTargets -> {0, 1}]
    BY DEF MigrationInit, MigTargets, MigItems
  <2> QED
    <3>1. /\ migPc = "idle" /\ migReply = 0 /\ migWire = {} /\ migRef = "old"
      BY DEF MigrationInit, NoReply
    <3>2. migArchive \in BOOLEAN /\ \A q \in migWire : q \in MigRequest
      BY <3>1, Zenon DEF MigrationInit
    <3>3. migReply \in Int /\ migReply \in Nat
      BY <3>1
    <3>4. migPc \in {"idle", "run", "send", "wait"} /\ migRef \in {"old", "ours", "theirs"}
      BY <3>1
    <3> QED
      BY <3>2, <3>3, <3>4, <1>1, <1>2, <2>1, <2>2, Zenon DEF JournalTypes
<1>4. PlanKept
  BY DEF MigrationInit, PlanKept, MigItems
<1>5. SentOnce /\ WireBound /\ AnswerNames
  BY DEF MigrationInit, SentOnce, WireBound, AnswerNames, MigTargets, MigItems
<1>6. MineSent /\ ObjectsKept
  BY <1>1, <1>2 DEF MineSent, ObjectsKept, MigSel
<1>7. CodeArchived
  BY DEF MigrationInit, CodeArchived
<1> QED
  BY <1>3, <1>4, <1>5, <1>6, <1>7 DEF MigInv

LEMMA InvStutters ==
  ASSUME MigInv, UNCHANGED migrationVars
  PROVE  MigInv'
<1>a. JournalTypes /\ PlanKept /\ SentOnce /\ WireBound /\ MineSent
      /\ AnswerNames /\ CodeArchived /\ ObjectsKept
  BY DEF MigInv
<1> USE DEF migrationVars
<1>1. /\ Written' = Written /\ MigItems' = MigItems /\ MigTargets' = MigTargets
      /\ MigSel' = MigSel /\ MigIntents' = MigIntents
      /\ \A k : TargetObject(k)' = TargetObject(k)
      /\ \A k : ConditionalWrite(k)' = ConditionalWrite(k)
      /\ \A k : MigItem(k)' = MigItem(k)
      /\ CanonicalPlan(migDecided)' = CanonicalPlan(migDecided)
  BY SavedStays DEF MigIntents, MigItem, CanonicalPlan
<1>2. Current' = Current /\ (MigDone' <=> MigDone)
  BY <1>a, CurrentStays DEF PlanKept
<1>3. JournalTypes' /\ PlanKept'
  BY <1>a, <1>1 DEF JournalTypes, PlanKept
<1>4. SentOnce' /\ AnswerNames' /\ CodeArchived'
  BY <1>a, <1>1, <1>2 DEF SentOnce, AnswerNames, CodeArchived
<1>5. WireBound' /\ MineSent' /\ ObjectsKept'
  BY <1>a, <1>1 DEF WireBound, MineSent, ObjectsKept
<1> QED
  BY <1>3, <1>4, <1>5 DEF MigInv

LEMMA InvStep ==
  MigInv /\ [MigrationNext]_migrationVars => MigInv'
<1> SUFFICES ASSUME MigInv, [MigrationNext]_migrationVars
             PROVE  MigInv'
  OBVIOUS
<1>1. CASE MigrationNext
  BY <1>1, TypesStep, PlanStep, SentStep, WireStep, MineStep, AnswerStep, CodeStep,
    ObjectsStep DEF MigInv
<1>2. CASE UNCHANGED migrationVars
  BY <1>2, InvStutters
<1> QED
  BY <1>1, <1>2

LEMMA InvHolds == MigrationSpec => []MigInv
<1>1. MigrationInit => MigInv
  BY InvInit
<1> QED
  BY <1>1, InvStep, PTL DEF MigrationSpec

-----------------------------------------------------------------------------
(* The theorems.                                                             *)

\* However often the apply loop dies, loses an answer or is resumed, an intent
\* of a saved plan is sent to the destination at most once.
THEOREM OneRequest == MigrationSpec => []AtMostOneRequest
<1>1. MigInv => migSent \in [MigTargets -> {0, 1}]
  BY DEF MigInv, JournalTypes
<1>2. migSent \in [MigTargets -> {0, 1}] => AtMostOneRequest
  BY DEF AtMostOneRequest
<1>3. MigInv => AtMostOneRequest
  BY <1>1, <1>2
<1> QED
  BY <1>3, InvHolds, PTL

\* A migration whose entries are all confirmed has written every source item,
\* kept the whole snapshot, or the operator decided what is missing.
THEOREM NothingDropped == MigrationSpec => []NothingDroppedSilently
<1>1. ASSUME MigInv
      PROVE  NothingDroppedSilently
  <2> SUFFICES ASSUME migPhase = "saved", MigDone, NEW k \in MigItems, k \notin migDecided
               PROVE  \/ migEntry[k] = "confirmed"
                      \/ /\ migCase.dst \in {"local", "archive"}
                         /\ migArchive /\ migKind[k] # "unread"
    BY DEF NothingDroppedSilently
  <2>a. JournalTypes /\ PlanKept /\ CodeArchived
    BY <1>1 DEF MigInv
  <2>1. \A i \in MigIntents : migEntry[i] = "confirmed"
    BY DEF MigDone, Unconfirmed, MigIntents
  <2>2. FindingStatus(k) \in {"mapped", "preserved"} /\ MigIntents = Written \cup {Code}
    BY <2>a DEF PlanKept, CanonicalPlan
  <2>3. CASE FindingStatus(k) = "mapped"
    BY <2>1, <2>2, <2>3 DEF Written
  <2>4. CASE FindingStatus(k) = "preserved"
    BY <2>1, <2>2, <2>4, <2>a, WrittenAtForge DEF CodeArchived
  <2> QED
    BY <2>2, <2>3, <2>4
<1> QED
  BY <1>1, InvHolds, PTL

\* Where the receipt of an intent is saved, by the answer or by reconciliation,
\* it names the object this migration wrote if that object stands as written.
THEOREM ReceiptNamesTheWrite == MigrationSpec => ConfirmedNamesTheWrite
<1> DEFINE Named ==
      \A k \in DOMAIN migCase.items :
        (migEntry[k] # "confirmed" /\ migEntry'[k] = "confirmed") =>
          \A o \in DOMAIN migObjects :
            (/\ migObjects[o].marker = k /\ migObjects[o].mine
             /\ migObjects[o].exact /\ MigLive(o)) => migReceipt'[k] = o
<1>1. ASSUME MigInv, MigrationNext
      PROVE  Named
  <2> SUFFICES ASSUME NEW k \in DOMAIN migCase.items,
                      migEntry[k] # "confirmed", migEntry'[k] = "confirmed",
                      NEW o \in DOMAIN migObjects, migObjects[o].marker = k,
                      migObjects[o].mine, migObjects[o].exact, MigLive(o)
               PROVE  migReceipt'[k] = o
    OBVIOUS
  <2>a. JournalTypes /\ PlanKept /\ SentOnce /\ MineSent /\ AnswerNames
    BY <1>1 DEF MigInv
  <2>b. k \in MigTargets /\ k # Code
    BY <2>a, MigrationAssumption DEF JournalTypes, MigTargets, MigItems, Code
  <2>1. CASE ApplyConfirm
    <3>1. k = Current
      BY <2>1, <2>a, <2>b DEF ApplyConfirm, JournalTypes
    <3>2. migReceipt'[k] = migReply
      BY <2>1, <3>1, <2>a, <2>b DEF ApplyConfirm, JournalTypes
    <3>3. o = migReply
      BY <2>1, <3>1, <2>a, <2>b DEF ApplyConfirm, AnswerNames
    <3> QED
      BY <3>2, <3>3
  <2>2. CASE ApplyReconcile
    <3>1. k = Current
      BY <2>2, <2>a, <2>b DEF ApplyReconcile, JournalTypes
    <3>2. k \in Written \cup {Code}
      BY <2>2, <3>1, <2>a, CurrentPlanned DEF ApplyReconcile, PlanKept
    <3> DEFINE S == IF Current # Code /\ ~ParentIntact(Current) THEN {} ELSE Matches(Current)
    <3>3. PICK p \in S : Exact(S) /\ migReceipt' = [migReceipt EXCEPT ![Current] = p]
      BY <2>2 DEF ApplyReconcile
    <3>4. migReceipt'[k] = p
      BY <3>1, <3>3, <2>a, <2>b DEF JournalTypes
    <3>5. S = Matches(k) /\ Cardinality(Matches(k)) = 1
      BY <3>1, <3>3 DEF Exact
    <3>6. o \in Matches(k) \/ (TargetObject(k) # 0 /\ o = TargetObject(k))
      BY <2>a, <2>b, <3>2, MatchesAre DEF MineSent
    <3>7. CASE TargetObject(k) # 0
      BY <3>3, <3>4, <3>5, <3>6, <3>7, <3>2, <2>a, <2>b, MatchesAre DEF MineSent
    <3>8. CASE TargetObject(k) = 0
      <4>1. IsFiniteSet(Matches(k))
        <5>1. Matches(k) \in SUBSET DOMAIN migObjects
          BY <3>2, <2>a, <2>b, MatchesAre
        <5>2. IsFiniteSet(DOMAIN migObjects)
          BY <2>a, FS_Interval DEF JournalTypes
        <5> QED
          BY <5>1, <5>2, FS_Subset
      <4>2. PICK x : Matches(k) = {x}
        BY <4>1, <3>5, FS_Singleton
      <4> QED
        BY <4>2, <3>3, <3>4, <3>5, <3>6, <3>8
    <3> QED
      BY <3>7, <3>8
  <2>3. CASE ~ApplyConfirm /\ ~ApplyReconcile
    <3>1. migEntry'[k] \in {migEntry[k], "prepared", "inflight"}
      BY <1>1, <2>3, <2>a, <2>b DEF JournalTypes, MigrationNext, ObserveStart, ObserveEnd,
        SourceReplaced, PrepareMigration, ApplyStart, ApplyPrepare, ApplyInflight, ApplySend,
        ApplyFail, ApplyEnd, ApplyCrash, ClearLock, OthersChange, Deliver, RequestLost
    <3> QED
      BY <3>1
  <2> QED
    BY <2>1, <2>2, <2>3
<1>2. MigInv /\ [MigrationNext]_migrationVars => [Named]_migrationVars
  BY <1>1
<1>3. MigrationSpec => [][Named]_migrationVars
  BY <1>2, InvHolds, PTL DEF MigrationSpec
<1> QED
  BY <1>3 DEF ConfirmedNamesTheWrite

\* A branch another user moved is never taken over, and where the service tests
\* revisions an edited issue is never overwritten.
THEOREM OthersKept == MigrationSpec => OthersWorkKept
<1> DEFINE Left ==
      /\ migRef = "theirs" => migRef' # "ours"
      /\ \A o \in DOMAIN migObjects :
           (/\ migCase.dst \in {"azure", "gitea"}
            /\ migObjects[o].parent = 0 /\ ~migObjects[o].exact)
              => ~migObjects'[o].exact
<1>1. ASSUME MigInv, MigrationNext
      PROVE  Left
  <2>a. JournalTypes /\ PlanKept /\ WireBound /\ ObjectsKept
    BY <1>1 DEF MigInv
  <2>1. CASE OthersChange
    BY <2>1, <2>a, OthersMoves, OthersObjects
  <2>2. ASSUME NEW q \in migWire, Deliver(q)
        PROVE  Left
    <3>0. q \in MigRequest
      BY <2>2, <2>a DEF JournalTypes
    <3>1. migRef = "theirs" => migRef' # "ours"
      BY <2>2, DeliverMoves
    <3>2. CASE Updated(q)
      <4> SUFFICES ASSUME NEW o \in DOMAIN migObjects, migCase.dst \in {"azure", "gitea"},
                          migObjects[o].parent = 0, ~migObjects[o].exact
                   PROVE  ~migObjects'[o].exact
        BY <3>1
      <4>1. CASE o # q.target
        BY <4>1, <3>0, <3>2, <2>a, UpdatedObjects
      <4>2. CASE o = q.target
        <5>1. q.target = TargetObject(q.intent) /\ q.intent # Code /\ q.intent \in MigTargets
          BY <2>2, <3>2, <2>a DEF WireBound, Updated, PlanKept, MigIntents
        <5>2. CASE migKind[q.intent] = "comment"
          <6>1. o \in 1..MigSel.existing /\ o # 1
            BY <4>2, <5>1, <5>2, <3>2, <2>a, TargetsAre DEF Updated
          <6>2. migObjects[o].parent = o - 1
            BY <6>1, <2>a DEF ObjectsKept
          <6> QED
            BY <6>1, <6>2
        <5>3. CASE migKind[q.intent] # "comment"
          <6>1. q.rev = 1
            BY <2>2, <5>1, <5>3, <2>a DEF WireBound, ConditionalWrite
          <6>2. migObjects[o].rev = 1
            BY <6>1, <4>2, <3>2 DEF Updated, RevAccepts
          <6> QED
            BY <6>2, <2>a DEF ObjectsKept
        <5> QED
          BY <5>2, <5>3
      <4> QED
        BY <4>1, <4>2
    <3>3. CASE Created(q)
      BY <3>0, <3>1, <3>3, <2>a, CreatedObjects
    <3>4. CASE Unexecuted(q)
      BY <3>1, <3>4 DEF Unexecuted
    <3> QED
      BY <3>2, <3>3, <3>4, <2>2, DeliverMoves
  <2>3. CASE UNCHANGED <<migObjects, migRef>>
    BY <2>3
  <2> QED
    BY <1>1, <2>1, <2>2, <2>3 DEF MigrationNext, ObserveStart, ObserveEnd, SourceReplaced,
      PrepareMigration, ApplyStart, ApplyPrepare, ApplyInflight, ApplySend, ApplyConfirm,
      ApplyFail, ApplyReconcile, ApplyEnd, ApplyCrash, ClearLock, RequestLost
<1>2. MigInv /\ [MigrationNext]_migrationVars => [Left]_migrationVars
  BY <1>1
<1>3. MigrationSpec => [][Left]_migrationVars
  BY <1>2, InvHolds, PTL DEF MigrationSpec
<1> QED
  BY <1>3 DEF OthersWorkKept

-----------------------------------------------------------------------------
(* The planned rotation: its inductive invariant.                            *)

IdEvent == [kind : {"identity.authorize", "identity.accept"}, actor : IdActors \cup {PeerKey},
            rel : {"none", "device", "successor"}, target : 0..PeerKey, subject : Nat, hand : BOOLEAN]

IdShape ==
  /\ idKeys \in 0..MaxKeys /\ idLegacy \in 0..idKeys /\ idActive \in 0..idKeys
  /\ idRecords \subseteq 1..idKeys /\ idFormer \subseteq 1..idKeys
  /\ idCommand \in JournalType /\ idRotation \in JournalType /\ idState \in JournalType
  /\ idActive # NoKey => idActive \in idRecords

EventShape ==
  /\ idEvents \in Seq(IdEvent)
  /\ \A i \in DOMAIN idEvents :
       IF idEvents[i].kind = "identity.accept" THEN idEvents[i].subject \in 1..(i - 1)
                                               ELSE idEvents[i].subject = 0

\* A rotation leaves the active key for a key the pointer never had.
Moves(s) ==
  /\ s.pred \in 1..idKeys /\ s.target \in 1..idKeys /\ s.pred # s.target
  /\ idActive \in {s.pred, s.target} /\ s.target \notin idFormer
  /\ idActive = s.target => s.pred \in idFormer
SameMove(s, j) == Rotating(j) => j.pred = s.pred /\ j.target = s.target

\* Both journals tell of the same rotation, which is the current one.
JournalsAgree ==
  /\ idActive \notin idFormer /\ (idActive = NoKey => idFormer = {})
  /\ Rotating(idCommand) => Moves(idCommand) /\ SameMove(idCommand, idRotation)
  /\ Rotating(idRotation) => Moves(idRotation)

Writes == {"record", "pointer", "command", "rotation", "authorize", "accept", "switch",
           "unrotate", "discard"}

\* Some write of xs comes before the n-th.
Preceded(t, xs, n) == \E m \in 1..(n - 1) : t[m] \in xs

\* The order of a rotation's remaining writes: rotation.json is there before the
\* authorisation is signed, the authorisation before it is accepted, and the
\* pointer has moved before either journal goes.
Ordered(t, kept, signed, moved) ==
  \A n \in 1..Len(t) :
    /\ t[n] # "pointer"
    /\ t[n] = "authorize" => /\ ~moved /\ (kept \/ Preceded(t, {"rotation"}, n))
                             /\ ~Preceded(t, {"switch", "unrotate"}, n)
    /\ t[n] = "accept" => signed \/ Preceded(t, {"authorize"}, n)
    /\ t[n] \in {"unrotate", "discard"} => moved \/ Preceded(t, {"switch"}, n)

\* The event s names as its authorisation authorises its target.
Signed(s, es) ==
  /\ s.auth \in DOMAIN es /\ es[s.auth].kind = "identity.authorize"
  /\ es[s.auth].actor = s.pred /\ es[s.auth].rel = "successor" /\ es[s.auth].target = s.target

Creating ==
  /\ idTodo = <<"record", "pointer">> \/ idTodo = <<"pointer">>
  /\ idActive = NoKey /\ idState.target \in 1..idKeys
Rotates ==
  /\ Moves(idState) /\ SameMove(idState, idCommand) /\ SameMove(idState, idRotation)
  /\ Ordered(idTodo, Rotating(idRotation), Signed(idState, idEvents), idActive = idState.target)
RunningOne == idTodo \in Seq(Writes) /\ (idTodo # <<>> => Creating \/ Rotates)

\* An authorisation a rotation signed is of a key that was left, or of the
\* rotation a journal on disk tells of.
Recorded(e, j) == Rotating(j) /\ e.actor = j.pred /\ e.target = j.target
OwnRecorded ==
  \A i \in DOMAIN idEvents :
    (~idEvents[i].hand /\ idEvents[i].kind = "identity.authorize") =>
      /\ idEvents[i].rel = "successor"
      /\ \/ idEvents[i].actor \in idFormer
         \/ Recorded(idEvents[i], idRotation) \/ Recorded(idEvents[i], idCommand)
FormerSucceeded == \A a \in idFormer : AcceptedSuccessors(idEvents, a) # {}

IdInv == /\ IdShape /\ EventShape /\ JournalsAgree /\ RunningOne /\ OwnRecorded
         /\ RotationIsOne /\ FormerSucceeded

LEMMA Shifted ==
  ASSUME NEW t \in Seq(Writes), t # <<>>
  PROVE  /\ Head(t) = t[1] /\ Head(t) \in Writes /\ Len(t) \in Nat /\ Len(t) >= 1
         /\ Tail(t) \in Seq(Writes) /\ Len(Tail(t)) = Len(t) - 1
         /\ \A n \in 1..(Len(t) - 1) : Tail(t)[n] = t[n + 1]
<1> QED
  OBVIOUS

\* What the tail of a sequence of writes has before its n-th.
LEMMA PrecededTail ==
  ASSUME NEW t \in Seq(Writes), t # <<>>, NEW xs, NEW n \in 1..(Len(t) - 1)
  PROVE  Preceded(t, xs, n + 1) <=> (Head(t) \in xs \/ Preceded(Tail(t), xs, n))
<1>1. /\ Head(t) = t[1] /\ Len(t) \in Nat /\ Len(t) >= 1
      /\ \A m \in 1..(Len(t) - 1) : Tail(t)[m] = t[m + 1]
  BY Shifted
<1> DEFINE T == Tail(t)
<1> HIDE DEF T
<1>2. \A m \in 1..(Len(t) - 1) : T[m] = t[m + 1]
  BY <1>1 DEF T
<1>3. ASSUME Preceded(t, xs, n + 1) PROVE Head(t) \in xs \/ Preceded(T, xs, n)
  <2>1. PICK m \in 1..n : t[m] \in xs
    BY <1>3 DEF Preceded
  <2>2. CASE m = 1
    BY <2>1, <2>2, <1>1
  <2>3. CASE m # 1
    <3>1. m - 1 \in 1..(n - 1) /\ T[m - 1] = t[m]
      BY <2>3, <1>1, <1>2
    <3> QED BY <3>1, <2>1 DEF Preceded
  <2> QED BY <2>2, <2>3
<1>4. ASSUME Head(t) \in xs PROVE Preceded(t, xs, n + 1)
  <2>1. 1 \in 1..n /\ t[1] \in xs
    BY <1>1, <1>4
  <2> QED BY <2>1 DEF Preceded
<1>5. ASSUME Preceded(T, xs, n) PROVE Preceded(t, xs, n + 1)
  <2>1. PICK m \in 1..(n - 1) : T[m] \in xs
    BY <1>5 DEF Preceded
  <2>2. m + 1 \in 1..n /\ t[m + 1] = T[m]
    BY <1>1, <1>2
  <2> QED BY <2>1, <2>2 DEF Preceded
<1> QED
  BY <1>3, <1>4, <1>5 DEF T

\* A write that does its part leaves the rest in order.
LEMMA OrderKept ==
  ASSUME NEW t \in Seq(Writes), t # <<>>,
         NEW kept \in BOOLEAN, NEW signed \in BOOLEAN, NEW moved \in BOOLEAN,
         NEW kept2 \in BOOLEAN, NEW signed2 \in BOOLEAN, NEW moved2 \in BOOLEAN,
         Ordered(t, kept, signed, moved),
         (kept \/ Head(t) = "rotation") => kept2 \/ Head(t) = "unrotate",
         (signed \/ Head(t) = "authorize") => signed2,
         (moved \/ Head(t) = "switch") <=> moved2
  PROVE  Tail(t) \in Seq(Writes) /\ Ordered(Tail(t), kept2, signed2, moved2)
<1> DEFINE T == Tail(t)
<1>1. /\ T \in Seq(Writes) /\ Len(T) = Len(t) - 1 /\ Len(t) \in Nat /\ Len(t) >= 1
      /\ \A n \in 1..(Len(t) - 1) : T[n] = t[n + 1]
  BY Shifted
<1>2. \A xs : \A n \in 1..(Len(t) - 1) : Preceded(t, xs, n + 1) <=> (Head(t) \in xs \/ Preceded(T, xs, n))
  BY PrecededTail
<1> HIDE DEF T
<1>3. ASSUME NEW n \in 1..Len(T)
      PROVE  /\ T[n] # "pointer"
             /\ T[n] = "authorize" => /\ ~moved2 /\ (kept2 \/ Preceded(T, {"rotation"}, n))
                                      /\ ~Preceded(T, {"switch", "unrotate"}, n)
             /\ T[n] = "accept" => signed2 \/ Preceded(T, {"authorize"}, n)
             /\ T[n] \in {"unrotate", "discard"} => moved2 \/ Preceded(T, {"switch"}, n)
  <2>1. n \in 1..(Len(t) - 1) /\ n + 1 \in 1..Len(t) /\ T[n] = t[n + 1]
    BY <1>1
  <2>2. /\ T[n] # "pointer"
        /\ T[n] = "authorize" => /\ ~moved /\ (kept \/ Preceded(t, {"rotation"}, n + 1))
                                 /\ ~Preceded(t, {"switch", "unrotate"}, n + 1)
        /\ T[n] = "accept" => signed \/ Preceded(t, {"authorize"}, n + 1)
        /\ T[n] \in {"unrotate", "discard"} => moved \/ Preceded(t, {"switch"}, n + 1)
    BY <2>1 DEF Ordered
  <2>3. /\ Preceded(t, {"rotation"}, n + 1) <=> (Head(t) \in {"rotation"} \/ Preceded(T, {"rotation"}, n))
        /\ Preceded(t, {"authorize"}, n + 1) <=> (Head(t) \in {"authorize"} \/ Preceded(T, {"authorize"}, n))
        /\ Preceded(t, {"switch"}, n + 1) <=> (Head(t) \in {"switch"} \/ Preceded(T, {"switch"}, n))
        /\ Preceded(t, {"switch", "unrotate"}, n + 1)
             <=> (Head(t) \in {"switch", "unrotate"} \/ Preceded(T, {"switch", "unrotate"}, n))
    BY <2>1, <1>2
  <2> QED BY <2>2, <2>3
<1> QED
  BY <1>1, <1>3 DEF Ordered, T

\* What the first write finds.
LEMMA OrderFirst ==
  ASSUME NEW t \in Seq(Writes), t # <<>>,
         NEW kept \in BOOLEAN, NEW signed \in BOOLEAN, NEW moved \in BOOLEAN,
         Ordered(t, kept, signed, moved)
  PROVE  /\ Head(t) # "pointer" /\ (Head(t) = "authorize" => ~moved /\ kept)
         /\ (Head(t) = "accept" => signed) /\ (Head(t) \in {"unrotate", "discard"} => moved)
<1>1. Head(t) = t[1] /\ 1 \in 1..Len(t)
  BY Shifted
<1>2. \A xs : ~Preceded(t, xs, 1)
  BY DEF Preceded
<1> QED
  BY <1>1, <1>2 DEF Ordered

\* Writes of the key record and of the journals may come before.
LEMMA OrderPrefix ==
  ASSUME NEW u \in Seq(Writes), \A m \in 1..Len(u) : u[m] \in {"record", "command", "rotation"},
         NEW t \in Seq(Writes),
         NEW kept \in BOOLEAN, NEW signed \in BOOLEAN, NEW moved \in BOOLEAN, NEW kept2 \in BOOLEAN,
         Ordered(t, kept2, signed, moved),
         kept2 => kept \/ \E m \in 1..Len(u) : u[m] = "rotation"
  PROVE  u \o t \in Seq(Writes) /\ Ordered(u \o t, kept, signed, moved)
<1> DEFINE s == u \o t
<1>1. /\ s \in Seq(Writes) /\ Len(s) = Len(u) + Len(t) /\ Len(u) \in Nat /\ Len(t) \in Nat
      /\ \A n \in 1..Len(u) : s[n] = u[n] /\ s[n] \in {"record", "command", "rotation"}
      /\ \A n \in 1..Len(t) : s[Len(u) + n] = t[n]
  OBVIOUS
<1> HIDE DEF s
<1>2. ASSUME NEW n \in 1..Len(t), NEW xs
      PROVE  /\ Preceded(t, xs, n) => Preceded(s, xs, Len(u) + n)
             /\ Preceded(s, xs, Len(u) + n) =>
                  Preceded(t, xs, n) \/ \E m \in 1..Len(u) : u[m] \in xs
             /\ (\E m \in 1..Len(u) : u[m] \in xs) => Preceded(s, xs, Len(u) + n)
  <2>1. ASSUME Preceded(t, xs, n) PROVE Preceded(s, xs, Len(u) + n)
    <3>1. PICK m \in 1..(n - 1) : t[m] \in xs
      BY <2>1 DEF Preceded
    <3>2. Len(u) + m \in 1..(Len(u) + n - 1) /\ s[Len(u) + m] = t[m]
      BY <1>1
    <3> QED BY <3>1, <3>2 DEF Preceded
  <2>2. ASSUME Preceded(s, xs, Len(u) + n) PROVE Preceded(t, xs, n) \/ \E m \in 1..Len(u) : u[m] \in xs
    <3>1. PICK m \in 1..(Len(u) + n - 1) : s[m] \in xs
      BY <2>2 DEF Preceded
    <3>2. CASE m \in 1..Len(u)
      BY <3>1, <3>2, <1>1
    <3>3. CASE m \notin 1..Len(u)
      <4>1. m - Len(u) \in 1..(n - 1) /\ t[m - Len(u)] = s[m]
        <5>1. m - Len(u) \in 1..(n - 1) /\ m - Len(u) \in 1..Len(t) /\ Len(u) + (m - Len(u)) = m
          BY <3>3, <1>1
        <5> QED BY <5>1, <1>1
      <4> QED BY <4>1, <3>1 DEF Preceded
    <3> QED BY <3>2, <3>3
  <2>3. ASSUME NEW m \in 1..Len(u), u[m] \in xs PROVE Preceded(s, xs, Len(u) + n)
    <3>1. m \in 1..(Len(u) + n - 1) /\ s[m] = u[m]
      BY <1>1
    <3> QED BY <3>1, <2>3 DEF Preceded
  <2> QED BY <2>1, <2>2, <2>3
<1>3. ASSUME NEW k \in 1..Len(s)
      PROVE  /\ s[k] # "pointer"
             /\ s[k] = "authorize" => /\ ~moved /\ (kept \/ Preceded(s, {"rotation"}, k))
                                      /\ ~Preceded(s, {"switch", "unrotate"}, k)
             /\ s[k] = "accept" => signed \/ Preceded(s, {"authorize"}, k)
             /\ s[k] \in {"unrotate", "discard"} => moved \/ Preceded(s, {"switch"}, k)
  <2>1. CASE k \in 1..Len(u)
    BY <2>1, <1>1
  <2>2. CASE k \notin 1..Len(u)
    <3>1. PICK n \in 1..Len(t) : k = Len(u) + n
      <4>1. k - Len(u) \in 1..Len(t) /\ k = Len(u) + (k - Len(u))
        BY <2>2, <1>1
      <4> QED BY <4>1
    <3>2. s[k] = t[n]
      BY <3>1, <1>1
    <3>3. /\ t[n] # "pointer"
          /\ t[n] = "authorize" => /\ ~moved /\ (kept2 \/ Preceded(t, {"rotation"}, n))
                                   /\ ~Preceded(t, {"switch", "unrotate"}, n)
          /\ t[n] = "accept" => signed \/ Preceded(t, {"authorize"}, n)
          /\ t[n] \in {"unrotate", "discard"} => moved \/ Preceded(t, {"switch"}, n)
      BY DEF Ordered
    <3>4. ~ \E m \in 1..Len(u) : u[m] \in {"switch", "unrotate"}
      BY <1>1
    <3>5. (\E m \in 1..Len(u) : u[m] = "rotation") => \E m \in 1..Len(u) : u[m] \in {"rotation"}
      OBVIOUS
    <3> QED BY <3>1, <3>2, <3>3, <3>4, <3>5, <1>2
  <2> QED BY <2>1, <2>2
<1> QED
  BY <1>1, <1>3 DEF Ordered, s

LEMMA Joined ==
  ASSUME NEW u \in Seq(Writes), NEW v \in Seq(Writes)
  PROVE  /\ u \o v \in Seq(Writes) /\ Len(u \o v) = Len(u) + Len(v)
         /\ \A n \in 1..Len(u) : (u \o v)[n] = u[n]
         /\ \A n \in 1..Len(v) : (u \o v)[Len(u) + n] = v[n]
  OBVIOUS

LEMMA Three ==
  ASSUME NEW a \in Writes, NEW b \in Writes, NEW c \in Writes
  PROVE  /\ <<a, b, c>> \in Seq(Writes) /\ Len(<<a, b, c>>) = 3
         /\ <<a, b, c>>[1] = a /\ <<a, b, c>>[2] = b /\ <<a, b, c>>[3] = c
  OBVIOUS

\* The writes Progress lists, once rotation.json is stored.
LEMMA ProgressOrdered ==
  ASSUME NEW s, NEW signed \in BOOLEAN, NEW moved \in BOOLEAN,
         s.acc # 0 => s.auth # 0, s.auth # 0 => signed, moved => s.auth # 0
  PROVE  Progress(s) \in Seq(Writes) /\ Ordered(Progress(s), TRUE, signed, moved)
<1> DEFINE auth == <<"authorize", "rotation", "command">>
           acc  == <<"accept", "rotation", "command">>
           last == <<"switch", "unrotate", "discard">>
           two  == acc \o last
           mid  == auth \o acc
           all  == mid \o last
<1>a. /\ auth \in Seq(Writes) /\ Len(auth) = 3
      /\ auth[1] = "authorize" /\ auth[2] = "rotation" /\ auth[3] = "command"
  BY Three DEF Writes
<1>b. /\ acc \in Seq(Writes) /\ Len(acc) = 3
      /\ acc[1] = "accept" /\ acc[2] = "rotation" /\ acc[3] = "command"
  BY Three DEF Writes
<1>c. /\ last \in Seq(Writes) /\ Len(last) = 3
      /\ last[1] = "switch" /\ last[2] = "unrotate" /\ last[3] = "discard"
  BY Three DEF Writes
<1>d. /\ s.auth # 0 /\ s.acc # 0 => Progress(s) = <<>> \o <<>> \o last
      /\ s.auth # 0 /\ s.acc = 0 => Progress(s) = <<>> \o acc \o last
      /\ s.auth = 0 => Progress(s) = all
  BY DEF Progress
<1> HIDE DEF auth, acc, last
<1>e. <<>> \in Seq(Writes) /\ <<>> \o <<>> \o last = last /\ <<>> \o acc \o last = two
  BY <1>b, <1>c
<1>1. Ordered(last, TRUE, signed, moved)
  <2>1. 1 \in 1..(2 - 1) /\ 1 \in 1..(3 - 1) /\ last[1] \in {"switch"}
    BY <1>c
  <2>2. Preceded(last, {"switch"}, 2) /\ Preceded(last, {"switch"}, 3)
    BY <2>1 DEF Preceded
  <2> QED BY <2>2, <1>c DEF Ordered
<1>f. two \in Seq(Writes) /\ Len(two) = 6
  <2>1. two \in Seq(Writes) /\ Len(two) = Len(acc) + Len(last)
    BY <1>b, <1>c, Joined
  <2> QED BY <2>1, <1>b, <1>c
<1>g. /\ two[1] = "accept" /\ two[2] = "rotation" /\ two[3] = "command"
      /\ two[4] = "switch" /\ two[5] = "unrotate" /\ two[6] = "discard"
  <2>1. /\ \A n \in 1..Len(acc) : two[n] = acc[n]
        /\ \A n \in 1..Len(last) : two[Len(acc) + n] = last[n]
    BY <1>b, <1>c, Joined
  <2>2. two[3 + 1] = last[1] /\ two[3 + 2] = last[2] /\ two[3 + 3] = last[3]
    BY <2>1, <1>b, <1>c
  <2> QED BY <2>1, <2>2, <1>b, <1>c
<1>h. /\ mid \in Seq(Writes) /\ Len(mid) = 6
      /\ \A n \in 1..Len(auth) : mid[n] = auth[n]
      /\ \A n \in 1..Len(acc) : mid[Len(auth) + n] = acc[n]
  <2>1. mid \in Seq(Writes) /\ Len(mid) = Len(auth) + Len(acc)
    BY <1>a, <1>b, Joined
  <2>2. /\ \A n \in 1..Len(auth) : mid[n] = auth[n]
        /\ \A n \in 1..Len(acc) : mid[Len(auth) + n] = acc[n]
    BY <1>a, <1>b, Joined
  <2> QED BY <2>1, <2>2, <1>a, <1>b
<1> HIDE DEF mid
<1>k. /\ all \in Seq(Writes) /\ Len(all) = 9
      /\ \A n \in 1..Len(mid) : all[n] = mid[n]
      /\ \A n \in 1..Len(last) : all[Len(mid) + n] = last[n]
  <2>1. all \in Seq(Writes) /\ Len(all) = Len(mid) + Len(last)
    BY <1>c, <1>h, Joined
  <2>2. /\ \A n \in 1..Len(mid) : all[n] = mid[n]
        /\ \A n \in 1..Len(last) : all[Len(mid) + n] = last[n]
    BY <1>c, <1>h, Joined
  <2> QED BY <2>1, <2>2, <1>c, <1>h
<1> HIDE DEF two, all
<1>i. /\ all[1] = "authorize" /\ all[2] = "rotation" /\ all[3] = "command"
      /\ all[4] = "accept" /\ all[5] = "rotation" /\ all[6] = "command"
      /\ all[7] = "switch" /\ all[8] = "unrotate" /\ all[9] = "discard"
  <2>1. mid[3 + 1] = acc[1] /\ mid[3 + 2] = acc[2] /\ mid[3 + 3] = acc[3]
    BY <1>h, <1>a, <1>b
  <2>2. all[6 + 1] = last[1] /\ all[6 + 2] = last[2] /\ all[6 + 3] = last[3]
    BY <1>h, <1>k, <1>c
  <2>3. \A n \in 1..6 : all[n] = mid[n]
    BY <1>h, <1>k
  <2>4. \A n \in 1..3 : mid[n] = auth[n]
    BY <1>h, <1>a
  <2> QED BY <2>1, <2>2, <2>3, <2>4, <1>a, <1>b, <1>c
<1>2. ASSUME s.auth # 0 PROVE Ordered(two, TRUE, signed, moved)
  <2>1. 4 \in 1..(5 - 1) /\ 4 \in 1..(6 - 1) /\ two[4] \in {"switch"}
    BY <1>g
  <2>2. Preceded(two, {"switch"}, 5) /\ Preceded(two, {"switch"}, 6)
    BY <2>1 DEF Preceded
  <2>3. \A n \in 1..6 : n = 1 \/ n = 2 \/ n = 3 \/ n = 4 \/ n = 5 \/ n = 6
    OBVIOUS
  <2> QED BY <1>2, <2>2, <2>3, <1>f, <1>g DEF Ordered
<1>3. ASSUME s.auth = 0 PROVE Ordered(all, TRUE, signed, moved)
  <2>1. 7 \in 1..(8 - 1) /\ 7 \in 1..(9 - 1) /\ all[7] \in {"switch"} /\ 1 \in 1..(4 - 1) /\ all[1] \in {"authorize"}
    BY <1>i
  <2>2. /\ Preceded(all, {"switch"}, 8) /\ Preceded(all, {"switch"}, 9)
        /\ Preceded(all, {"authorize"}, 4) /\ ~Preceded(all, {"switch", "unrotate"}, 1)
    BY <2>1 DEF Preceded
  <2>3. \A n \in 1..9 : n = 1 \/ n = 2 \/ n = 3 \/ n = 4 \/ n = 5 \/ n = 6 \/ n = 7 \/ n = 8 \/ n = 9
    OBVIOUS
  <2> QED BY <1>3, <2>2, <2>3, <1>k, <1>i DEF Ordered
<1> QED
  BY <1>1, <1>2, <1>3, <1>c, <1>d, <1>e, <1>f, <1>k

-----------------------------------------------------------------------------
(* What a step makes of the events.                                          *)

\* An acceptance names an event that is there.
Subjected(e) ==
  IF e.kind = "identity.accept" THEN e.subject \in DOMAIN idEvents ELSE e.subject = 0

LEMMA EventAppended ==
  ASSUME idEvents \in Seq(IdEvent), NEW e \in IdEvent, SignIdEvent(e)
  PROVE  /\ idEvents' \in Seq(IdEvent) /\ Len(idEvents) \in Nat
         /\ DOMAIN idEvents = 1..Len(idEvents) /\ DOMAIN idEvents' = 1..(Len(idEvents) + 1)
         /\ \A i \in DOMAIN idEvents : idEvents'[i] = idEvents[i]
         /\ idEvents'[Len(idEvents) + 1] = e
  BY DEF SignIdEvent

\* What was accepted stays accepted.
LEMMA AcceptedStays ==
  ASSUME EventShape, NEW e \in IdEvent, SignIdEvent(e),
         Subjected(e)
  PROVE  /\ EventShape'
         /\ \A s : Signed(s, idEvents) => Signed(s, idEvents')
         /\ \A a : AcceptedSuccessors(idEvents, a) \subseteq AcceptedSuccessors(idEvents', a)
<1>1. /\ idEvents' \in Seq(IdEvent) /\ Len(idEvents) \in Nat
      /\ DOMAIN idEvents = 1..Len(idEvents) /\ DOMAIN idEvents' = 1..(Len(idEvents) + 1)
      /\ \A i \in DOMAIN idEvents : idEvents'[i] = idEvents[i]
      /\ idEvents'[Len(idEvents) + 1] = e
  BY EventAppended DEF EventShape
<1>2. EventShape'
  BY <1>1 DEF EventShape, Subjected
<1>3. \A s : Signed(s, idEvents) => Signed(s, idEvents')
  BY <1>1 DEF Signed
<1>4. \A i \in Authorizations(idEvents) :
        i \in Authorizations(idEvents') /\ AcceptanceIDs(idEvents, i) \subseteq AcceptanceIDs(idEvents', i)
  BY <1>1 DEF Authorizations, AcceptanceIDs
<1>5. AcceptedEdges(idEvents) \subseteq AcceptedEdges(idEvents')
  BY <1>4 DEF AcceptedEdges
<1>6. \A i \in AcceptedEdges(idEvents) : idEvents'[i] = idEvents[i]
  BY <1>1 DEF AcceptedEdges, Authorizations
<1> QED
  BY <1>2, <1>3, <1>5, <1>6 DEF AcceptedSuccessors

\* An event issued by hand disturbs nothing a rotation signed.
LEMMA ByHandKeeps ==
  ASSUME EventShape, OwnRecorded, RotationIsOne, FormerSucceeded,
         NEW e \in IdEvent, SignIdEvent(e), e.hand,
         Subjected(e),
         UNCHANGED <<idFormer, idRotation, idCommand>>
  PROVE  EventShape' /\ OwnRecorded' /\ RotationIsOne' /\ FormerSucceeded'
<1>1. /\ DOMAIN idEvents = 1..Len(idEvents) /\ DOMAIN idEvents' = 1..(Len(idEvents) + 1)
      /\ \A i \in DOMAIN idEvents : idEvents'[i] = idEvents[i]
      /\ idEvents'[Len(idEvents) + 1] = e /\ Len(idEvents) \in Nat
  BY EventAppended DEF EventShape
<1>2. EventShape' /\ \A a : AcceptedSuccessors(idEvents, a) \subseteq AcceptedSuccessors(idEvents', a)
  BY AcceptedStays
<1>3. \A i \in DOMAIN idEvents' : ~idEvents'[i].hand => i \in DOMAIN idEvents /\ idEvents'[i] = idEvents[i]
  BY <1>1
<1>4. OwnRecorded'
  BY <1>3 DEF OwnRecorded, Recorded, Rotating
<1>5. RotationIsOne'
  BY <1>3 DEF RotationIsOne
<1>6. FormerSucceeded'
  BY <1>2 DEF FormerSucceeded
<1> QED
  BY <1>2, <1>4, <1>5, <1>6

-----------------------------------------------------------------------------
(* What the writes of a rotation find.                                       *)

\* Before the first identity there is nothing to rotate.
LEMMA NothingToRotate ==
  ASSUME JournalsAgree, idActive = NoKey
  PROVE  ~Rotating(idCommand) /\ ~Rotating(idRotation) /\ idFormer = {} /\ \A s : ~Moves(s)
  BY DEF JournalsAgree, Moves, NoKey

\* A write other than those of a new identity is a rotation's.
LEMMA FirstWrite ==
  ASSUME RunningOne, ~IdIdle, Head(idTodo) \notin {"record", "pointer"}
  PROVE  /\ Rotates
         /\ Head(idTodo) = "authorize" => idActive # idState.target /\ Rotating(idRotation)
         /\ Head(idTodo) = "accept" => Signed(idState, idEvents)
         /\ Head(idTodo) \in {"unrotate", "discard"} => idActive = idState.target
<1>1. idTodo \in Seq(Writes) /\ idTodo # <<>>
  BY DEF RunningOne, IdIdle
<1>2. ~Creating
  BY <1>1 DEF Creating
<1>3. Rotates
  BY <1>1, <1>2 DEF RunningOne
<1>4. Ordered(idTodo, Rotating(idRotation), Signed(idState, idEvents), idActive = idState.target)
  BY <1>3 DEF Rotates
<1>5. /\ Rotating(idRotation) \in BOOLEAN /\ Signed(idState, idEvents) \in BOOLEAN
      /\ (idActive = idState.target) \in BOOLEAN
  BY DEF Rotating, Signed
<1> QED
  BY <1>1, <1>3, <1>4, <1>5, OrderFirst

\* A write leaves the rest of the rotation in order.
LEMMA RestOrdered ==
  ASSUME RunningOne, ~IdIdle, Rotates, idTodo' = Tail(idTodo),
         Moves(idState)', SameMove(idState, idCommand)', SameMove(idState, idRotation)',
         (Rotating(idRotation) \/ Head(idTodo) = "rotation") =>
           Rotating(idRotation)' \/ Head(idTodo) = "unrotate",
         (Signed(idState, idEvents) \/ Head(idTodo) = "authorize") => Signed(idState, idEvents)',
         (idActive = idState.target \/ Head(idTodo) = "switch") <=> (idActive = idState.target)'
  PROVE  RunningOne'
<1> DEFINE k == Rotating(idRotation)  k2 == Rotating(idRotation)'
           s == Signed(idState, idEvents)  s2 == Signed(idState, idEvents)'
           m == (idActive = idState.target)  m2 == (idActive = idState.target)'
<1>1. idTodo \in Seq(Writes) /\ idTodo # <<>>
  BY DEF RunningOne, IdIdle
<1>2. k \in BOOLEAN /\ k2 \in BOOLEAN /\ s \in BOOLEAN /\ s2 \in BOOLEAN /\ m \in BOOLEAN /\ m2 \in BOOLEAN
  BY DEF Rotating, Signed
<1>3. Ordered(idTodo, k, s, m)
  BY DEF Rotates
<1>4. /\ (k \/ Head(idTodo) = "rotation") => k2 \/ Head(idTodo) = "unrotate"
      /\ (s \/ Head(idTodo) = "authorize") => s2
      /\ (m \/ Head(idTodo) = "switch") <=> m2
  OBVIOUS
<1> HIDE DEF k, k2, s, s2, m, m2
<1>5. Tail(idTodo) \in Seq(Writes) /\ Ordered(Tail(idTodo), k2, s2, m2)
  BY <1>1, <1>2, <1>3, <1>4, OrderKept
<1>6. idTodo' \in Seq(Writes) /\ Ordered(idTodo', k2, s2, m2)
  BY <1>5
<1>7. Rotates'
  BY <1>6 DEF Rotates, k2, s2, m2
<1> QED
  BY <1>6, <1>7 DEF RunningOne

LEMMA CreateKeeps ==
  ASSUME IdInv, CreateIdentity \/ AdoptLegacy
  PROVE  IdInv'
<1>1. /\ idActive = NoKey /\ idTodo' = <<"record", "pointer">>
      /\ UNCHANGED <<idFiles, idEvents, idFormer>>
      /\ idState' = [NoJournal EXCEPT !.target = idState'.target]
      /\ idState'.target \in 1..idKeys' /\ idKeys' \in 0..MaxKeys /\ idKeys <= idKeys'
  <2>0. idKeys \in 0..MaxKeys /\ idLegacy \in 0..idKeys /\ MaxKeys \in Nat
    BY IdentityAssumption DEF IdInv, IdShape
  <2>1. CASE CreateIdentity
    BY <2>0, <2>1 DEF CreateIdentity, NoJournal
  <2>2. CASE AdoptLegacy
    BY <2>0, <2>2 DEF AdoptLegacy, NoJournal, NoKey
  <2> QED BY <2>1, <2>2
<1>2. UNCHANGED <<idLegacy, idRecords, idActive, idCommand, idRotation>>
  BY <1>1 DEF idFiles
<1>3. ~Rotating(idCommand) /\ ~Rotating(idRotation) /\ idFormer = {}
  BY <1>1, NothingToRotate DEF IdInv
<1>4. idState' \in JournalType
  BY <1>1, IdentityAssumption DEF JournalType, NoJournal, NoKey
<1>5. IdShape'
  BY <1>1, <1>2, <1>4 DEF IdInv, IdShape
<1>6. JournalsAgree'
  BY <1>1, <1>2, <1>3 DEF IdInv, JournalsAgree, Rotating
<1>7. idTodo' \in Seq(Writes)
  <2>1. "record" \in Writes /\ "pointer" \in Writes
    BY DEF Writes
  <2> QED BY <2>1, <1>1
<1>8. RunningOne'
  BY <1>1, <1>2, <1>7 DEF RunningOne, Creating
<1>9. EventShape' /\ OwnRecorded' /\ RotationIsOne' /\ FormerSucceeded'
  BY <1>1, <1>2 DEF IdInv, EventShape, OwnRecorded, Recorded, Rotating, RotationIsOne, FormerSucceeded
<1> QED
  BY <1>5, <1>6, <1>8, <1>9 DEF IdInv

LEMMA PointerKeeps ==
  ASSUME IdInv, InitializeActive
  PROVE  IdInv'
<1>1. /\ ~IdIdle /\ Head(idTodo) = "pointer" /\ idState.target \in idRecords
      /\ idTodo' = Tail(idTodo)
      /\ UNCHANGED <<idLegacy, idRecords, idCommand, idRotation, idEvents, idState, idKeys, idFormer>>
  BY DEF InitializeActive
<1>2. Creating
  <2>1. idTodo \in Seq(Writes) /\ idTodo # <<>> /\ (Creating \/ Rotates)
    BY <1>1 DEF IdInv, RunningOne, IdIdle
  <2>2. /\ Rotating(idRotation) \in BOOLEAN /\ Signed(idState, idEvents) \in BOOLEAN
        /\ (idActive = idState.target) \in BOOLEAN
    BY DEF Rotating, Signed
  <2>3. ~Rotates
    BY <1>1, <2>1, <2>2, OrderFirst DEF Rotates
  <2> QED BY <2>1, <2>3
<1>3. idActive = NoKey /\ idTodo' = <<>> /\ idActive' = idState.target
  <2>1. idTodo = <<"pointer">>
    BY <1>1, <1>2 DEF Creating
  <2> QED BY <1>1, <1>2, <2>1 DEF Creating, InitializeActive
<1>4. ~Rotating(idCommand) /\ ~Rotating(idRotation) /\ idFormer = {}
  BY <1>3, NothingToRotate DEF IdInv
<1>5. IdShape'
  BY <1>1, <1>2, <1>3 DEF IdInv, IdShape, Creating
<1>6. JournalsAgree'
  BY <1>1, <1>4 DEF JournalsAgree, Rotating
<1>7. RunningOne'
  BY <1>3 DEF RunningOne
<1>8. EventShape' /\ OwnRecorded' /\ RotationIsOne' /\ FormerSucceeded'
  BY <1>1 DEF IdInv, EventShape, OwnRecorded, Recorded, Rotating, RotationIsOne, FormerSucceeded
<1> QED
  BY <1>5, <1>6, <1>7, <1>8 DEF IdInv

LEMMA RecordKeeps ==
  ASSUME IdInv, StoreRecord
  PROVE  IdInv'
<1>1. /\ ~IdIdle /\ Head(idTodo) = "record" /\ idTodo' = Tail(idTodo)
      /\ idRecords' = idRecords \cup {idState.target}
      /\ UNCHANGED <<idLegacy, idActive, idCommand, idRotation, idEvents, idState, idKeys, idFormer>>
  BY DEF StoreRecord
<1>2. Creating \/ Rotates
  BY <1>1 DEF IdInv, RunningOne, IdIdle
<1>3. idState.target \in 1..idKeys
  BY <1>2 DEF Creating, Rotates, Moves
<1>4. IdShape'
  BY <1>1, <1>3 DEF IdInv, IdShape
<1>5. JournalsAgree'
  BY <1>1 DEF IdInv, JournalsAgree, Rotating, Moves, SameMove
<1>6. RunningOne'
  <2>1. CASE Creating
    <3>1. idTodo = <<"record", "pointer">>
      BY <1>1, <2>1 DEF Creating
    <3>2. idTodo' = <<"pointer">> /\ "pointer" \in Writes
      BY <1>1, <3>1 DEF Writes
    <3>3. idTodo' \in Seq(Writes)
      BY <3>2
    <3> QED BY <1>1, <2>1, <3>2, <3>3 DEF RunningOne, Creating
  <2>2. CASE Rotates
    <3>1. Moves(idState)' /\ SameMove(idState, idCommand)' /\ SameMove(idState, idRotation)'
      BY <1>1, <2>2 DEF Rotates, Moves, SameMove, Rotating
    <3>2. /\ Rotating(idRotation)' = Rotating(idRotation)
          /\ Signed(idState, idEvents)' = Signed(idState, idEvents)
          /\ (idActive = idState.target)' = (idActive = idState.target)
      BY <1>1 DEF Rotating, Signed
    <3> QED BY <1>1, <2>2, <3>1, <3>2, RestOrdered DEF IdInv
  <2> QED BY <1>2, <2>1, <2>2
<1>7. EventShape' /\ OwnRecorded' /\ RotationIsOne' /\ FormerSucceeded'
  BY <1>1 DEF IdInv, EventShape, OwnRecorded, Recorded, Rotating, RotationIsOne, FormerSucceeded
<1> QED
  BY <1>4, <1>5, <1>6, <1>7 DEF IdInv

\* Filling a journal's gaps from another keeps what it tells of.
LEMMA ReconciledMoves ==
  ASSUME NEW l \in JournalType, NEW r \in JournalType
  PROVE  /\ Reconciled(l, r) \in JournalType
         /\ Reconciled(l, r).pred = l.pred /\ Reconciled(l, r).target = l.target
  BY DEF Reconciled, JournalType

LEMMA MoveIsNamed ==
  ASSUME NEW s, NEW j, j.pred = s.pred, j.target = s.target
  PROVE  /\ Moves(s) => Moves(j) /\ Rotating(j)
         /\ \A x : SameMove(s, x) => SameMove(j, x)
         /\ SameMove(s, j)
<1>1. Moves(s) => Moves(j)
  BY DEF Moves
<1>2. Moves(j) => Rotating(j)
  BY DEF Moves, Rotating, NoJournal, NoKey
<1> QED
  BY <1>1, <1>2 DEF SameMove

LEMMA CommandKeeps ==
  ASSUME IdInv, UpdateCommand
  PROVE  IdInv'
<1>1. /\ ~IdIdle /\ Head(idTodo) = "command" /\ idTodo' = Tail(idTodo)
      /\ idCommand' = idState \/ (Rotating(idCommand) /\ idCommand' = Reconciled(idCommand, idState))
      /\ UNCHANGED <<idLegacy, idRecords, idActive, idRotation, idEvents, idState, idKeys, idFormer>>
  BY DEF UpdateCommand
<1>2. Rotates
  BY <1>1, FirstWrite DEF IdInv
<1>3. idCommand' \in JournalType /\ idCommand'.pred = idState.pred /\ idCommand'.target = idState.target
  <2>1. idCommand \in JournalType /\ idState \in JournalType
    BY DEF IdInv, IdShape
  <2>2. CASE idCommand' = idState
    BY <2>1, <2>2
  <2>3. CASE Rotating(idCommand) /\ idCommand' = Reconciled(idCommand, idState)
    <3>1. idCommand.pred = idState.pred /\ idCommand.target = idState.target
      BY <2>3, <1>2 DEF Rotates, SameMove
    <3> QED BY <2>1, <2>3, <3>1, ReconciledMoves
  <2> QED BY <1>1, <2>2, <2>3
<1>4. Moves(idCommand') /\ Rotating(idCommand') /\ SameMove(idCommand', idRotation) /\ SameMove(idState, idCommand')
  BY <1>2, <1>3, MoveIsNamed DEF Rotates
<1>5. IdShape'
  BY <1>1, <1>3 DEF IdInv, IdShape
<1>6. JournalsAgree'
  BY <1>1, <1>4 DEF IdInv, JournalsAgree, Rotating, Moves, SameMove
<1>7. RunningOne'
  <2>1. Moves(idState)' /\ SameMove(idState, idCommand)' /\ SameMove(idState, idRotation)'
    BY <1>1, <1>2, <1>4 DEF Rotates, Moves, SameMove, Rotating
  <2>2. /\ Rotating(idRotation)' = Rotating(idRotation)
        /\ Signed(idState, idEvents)' = Signed(idState, idEvents)
        /\ (idActive = idState.target)' = (idActive = idState.target)
    BY <1>1 DEF Rotating, Signed
  <2> QED BY <1>1, <1>2, <2>1, <2>2, RestOrdered DEF IdInv
<1>8. OwnRecorded'
  <2>1. \A e : Recorded(e, idCommand) => Recorded(e, idCommand')
    BY <1>2, <1>3, <1>4 DEF Recorded, Rotates, SameMove
  <2> QED BY <1>1, <2>1 DEF IdInv, OwnRecorded, Recorded, Rotating
<1>9. EventShape' /\ RotationIsOne' /\ FormerSucceeded'
  BY <1>1 DEF IdInv, EventShape, RotationIsOne, FormerSucceeded
<1> QED
  BY <1>5, <1>6, <1>7, <1>8, <1>9 DEF IdInv

LEMMA RotationKeeps ==
  ASSUME IdInv, StoreRotation
  PROVE  IdInv'
<1>1. /\ ~IdIdle /\ Head(idTodo) = "rotation" /\ idTodo' = Tail(idTodo)
      /\ idRotation' = idState \/ idRotation' = Reconciled(idState, idRotation)
      /\ UNCHANGED <<idLegacy, idRecords, idActive, idCommand, idEvents, idState, idKeys, idFormer>>
  BY DEF StoreRotation
<1>2. Rotates
  BY <1>1, FirstWrite DEF IdInv
<1>3. idRotation' \in JournalType /\ idRotation'.pred = idState.pred /\ idRotation'.target = idState.target
  <2>1. idRotation \in JournalType /\ idState \in JournalType
    BY DEF IdInv, IdShape
  <2> QED BY <1>1, <2>1, ReconciledMoves
<1>4. Moves(idRotation') /\ Rotating(idRotation') /\ SameMove(idState, idRotation')
  BY <1>2, <1>3, MoveIsNamed DEF Rotates
<1>5. IdShape'
  BY <1>1, <1>3 DEF IdInv, IdShape
<1>6. JournalsAgree'
  <2>1. Rotating(idCommand) => SameMove(idCommand, idRotation')
    BY <1>2, <1>3 DEF Rotates, SameMove
  <2> QED BY <1>1, <1>4, <2>1 DEF IdInv, JournalsAgree, Rotating, Moves, SameMove
<1>7. RunningOne'
  <2>1. Moves(idState)' /\ SameMove(idState, idCommand)' /\ SameMove(idState, idRotation)'
    BY <1>1, <1>2, <1>4 DEF Rotates, Moves, SameMove, Rotating
  <2>2. /\ Rotating(idRotation)'
        /\ Signed(idState, idEvents)' = Signed(idState, idEvents)
        /\ (idActive = idState.target)' = (idActive = idState.target)
    BY <1>1, <1>4 DEF Rotating, Signed
  <2> QED BY <1>1, <1>2, <2>1, <2>2, RestOrdered DEF IdInv
<1>8. OwnRecorded'
  <2>1. \A e : Recorded(e, idRotation) => Recorded(e, idRotation')
    BY <1>2, <1>3, <1>4 DEF Recorded, Rotates, SameMove
  <2> QED BY <1>1, <2>1 DEF IdInv, OwnRecorded, Recorded, Rotating
<1>9. EventShape' /\ RotationIsOne' /\ FormerSucceeded'
  BY <1>1 DEF IdInv, EventShape, RotationIsOne, FormerSucceeded
<1> QED
  BY <1>5, <1>6, <1>7, <1>8, <1>9 DEF IdInv

\* The journals go once the pointer has moved: what they recorded is then of a
\* key that was left.
LEMMA RemovalKeeps ==
  ASSUME IdInv, RemoveRotation \/ DiscardCommand
  PROVE  IdInv'
<1>1. /\ ~IdIdle /\ Head(idTodo) \in {"unrotate", "discard"} /\ idTodo' = Tail(idTodo)
      /\ \/ Head(idTodo) = "unrotate" /\ idRotation' = NoJournal /\ idCommand' = idCommand
         \/ Head(idTodo) = "discard" /\ idCommand' = NoJournal /\ idRotation' = idRotation
      /\ UNCHANGED <<idLegacy, idRecords, idActive, idEvents, idState, idKeys, idFormer>>
  BY DEF RemoveRotation, DiscardCommand
<1>2. Rotates /\ idActive = idState.target
  BY <1>1, FirstWrite DEF IdInv
<1>3. idState.pred \in idFormer
  BY <1>2 DEF Rotates, Moves
<1>4. NoJournal \in JournalType /\ ~Rotating(NoJournal)
  BY IdentityAssumption DEF NoJournal, NoKey, JournalType, Rotating
<1>5. IdShape'
  BY <1>1, <1>4 DEF IdInv, IdShape
<1>6. JournalsAgree'
  BY <1>1, <1>4 DEF IdInv, JournalsAgree, Rotating, Moves, SameMove
<1>7. RunningOne'
  <2>1. Moves(idState)' /\ SameMove(idState, idCommand)' /\ SameMove(idState, idRotation)'
    BY <1>1, <1>2, <1>4 DEF Rotates, Moves, SameMove, Rotating
  <2>2. /\ Rotating(idRotation) => Rotating(idRotation)' \/ Head(idTodo) = "unrotate"
        /\ Signed(idState, idEvents)' = Signed(idState, idEvents)
        /\ (idActive = idState.target)' = (idActive = idState.target)
    BY <1>1 DEF Rotating, Signed
  <2> QED BY <1>1, <1>2, <2>1, <2>2, RestOrdered DEF IdInv
<1>8. OwnRecorded'
  <2>1. \A e : (Recorded(e, idRotation) \/ Recorded(e, idCommand)) => e.actor \in idFormer
    BY <1>2, <1>3 DEF Recorded, Rotates, SameMove
  <2> QED BY <1>1, <2>1 DEF IdInv, OwnRecorded
<1>9. EventShape' /\ RotationIsOne' /\ FormerSucceeded'
  BY <1>1 DEF IdInv, EventShape, RotationIsOne, FormerSucceeded
<1> QED
  BY <1>5, <1>6, <1>7, <1>8, <1>9 DEF IdInv

LEMMA SwitchKeeps ==
  ASSUME IdInv, SwitchActive
  PROVE  IdInv'
<1>1. /\ ~IdIdle /\ Head(idTodo) = "switch" /\ idTodo' = Tail(idTodo)
      /\ ValidProgress(idState, TRUE) /\ idState.target \in idRecords
      /\ idActive' = idState.target /\ idFormer' = idFormer \cup ({idActive} \ {idState.target})
      /\ UNCHANGED <<idLegacy, idRecords, idCommand, idRotation, idEvents, idState, idKeys>>
  BY DEF SwitchActive
<1>2. Rotates
  BY <1>1, FirstWrite DEF IdInv
<1>3. /\ idState.pred \in 1..idKeys /\ idState.target \in 1..idKeys /\ idState.pred # idState.target
      /\ idActive \in {idState.pred, idState.target} /\ idState.target \notin idFormer
      /\ idActive = idState.target => idState.pred \in idFormer
  BY <1>2 DEF Rotates, Moves
<1>4. idFormer' = idFormer \cup {idState.pred} /\ idState.target \notin idFormer'
  BY <1>1, <1>3
<1>5. IdShape'
  <2>1. idFormer' \subseteq 1..idKeys
    BY <1>3, <1>4 DEF IdInv, IdShape
  <2>2. idActive' \in 0..idKeys /\ idActive' \in idRecords
    BY <1>1, <1>3
  <2> QED BY <1>1, <2>1, <2>2 DEF IdInv, IdShape
<1>6. Moves(idState)'
  BY <1>1, <1>3, <1>4 DEF Moves
<1>7. \A j : (Rotating(j) /\ SameMove(idState, j)) =>
               j.pred = idState.pred /\ j.target = idState.target
  BY DEF SameMove
<1>8. JournalsAgree'
  <2>1. Rotating(idCommand) => Moves(idCommand)'
    BY <1>1, <1>2, <1>6, <1>7 DEF Rotates, Moves
  <2>2. Rotating(idRotation) => Moves(idRotation)'
    BY <1>1, <1>2, <1>6, <1>7 DEF Rotates, Moves
  <2>3. Rotating(idCommand) => SameMove(idCommand, idRotation)
    BY DEF IdInv, JournalsAgree
  <2>4. idActive' \notin idFormer' /\ idActive' # NoKey
    BY <1>1, <1>3, <1>4 DEF NoKey
  <2> QED BY <1>1, <2>1, <2>2, <2>3, <2>4 DEF JournalsAgree, Rotating, SameMove
<1>9. RunningOne'
  <2>1. SameMove(idState, idCommand)' /\ SameMove(idState, idRotation)'
    BY <1>1, <1>2 DEF Rotates, SameMove, Rotating
  <2>2. /\ Rotating(idRotation)' = Rotating(idRotation)
        /\ Signed(idState, idEvents)' = Signed(idState, idEvents)
        /\ (idActive = idState.target)'
    BY <1>1 DEF Rotating, Signed
  <2> QED BY <1>1, <1>2, <1>6, <2>1, <2>2, RestOrdered DEF IdInv
<1>10. OwnRecorded'
  BY <1>1, <1>4 DEF IdInv, OwnRecorded, Recorded, Rotating
<1>11. FormerSucceeded'
  <2>1. /\ idState.auth \in Authorizations(idEvents) /\ idState.acc \in AcceptanceIDs(idEvents, idState.auth)
        /\ idEvents[idState.auth].actor = idState.pred /\ idEvents[idState.auth].rel = "successor"
    BY <1>1 DEF ValidProgress, RotationShape
  <2>2. idState.auth \in AcceptedSuccessors(idEvents, idState.pred)
    BY <2>1 DEF AcceptedSuccessors, AcceptedEdges
  <2> QED BY <1>1, <1>4, <2>2 DEF IdInv, FormerSucceeded
<1>12. EventShape' /\ RotationIsOne'
  BY <1>1 DEF IdInv, EventShape, RotationIsOne
<1> QED
  BY <1>5, <1>8, <1>9, <1>10, <1>11, <1>12 DEF IdInv

\* Signing the authorisation: only the events and the ids the command holds move.
LEMMA SigningRuns ==
  ASSUME IdInv, ~IdIdle, Rotates, idTodo' = Tail(idTodo),
         Head(idTodo) \in {"authorize", "accept"}, idState' \in JournalType,
         idState'.pred = idState.pred, idState'.target = idState.target,
         (Signed(idState, idEvents) \/ Head(idTodo) = "authorize") => Signed(idState, idEvents)',
         UNCHANGED <<idFiles, idKeys, idFormer>>
  PROVE  IdShape' /\ JournalsAgree' /\ RunningOne'
<1>1. UNCHANGED <<idLegacy, idRecords, idActive, idCommand, idRotation, idKeys, idFormer>>
  BY DEF idFiles
<1>2. IdShape'
  BY <1>1 DEF IdInv, IdShape
<1>3. JournalsAgree'
  BY <1>1 DEF IdInv, JournalsAgree, Rotating, Moves, SameMove
<1>4. Moves(idState)' /\ SameMove(idState, idCommand)' /\ SameMove(idState, idRotation)'
  BY <1>1 DEF Rotates, Moves, SameMove, Rotating
<1>5. /\ Rotating(idRotation)' = Rotating(idRotation)
      /\ (idActive = idState.target)' = (idActive = idState.target)
  BY <1>1 DEF Rotating
<1> QED
  BY <1>2, <1>3, <1>4, <1>5, RestOrdered DEF IdInv

\* An id the command learns is all that changes of the state it holds.
LEMMA IdLearned ==
  ASSUME NEW s \in JournalType, NEW n \in Nat
  PROVE  /\ [s EXCEPT !.auth = n] \in JournalType /\ [s EXCEPT !.acc = n] \in JournalType
         /\ [s EXCEPT !.auth = n].pred = s.pred /\ [s EXCEPT !.auth = n].target = s.target
         /\ [s EXCEPT !.acc = n].pred = s.pred /\ [s EXCEPT !.acc = n].target = s.target
         /\ [s EXCEPT !.auth = n].auth = n /\ [s EXCEPT !.acc = n].auth = s.auth
  BY DEF JournalType

LEMMA AuthorizationKeeps ==
  ASSUME IdInv, FindOrAppendAuthorization
  PROVE  IdInv'
<1> DEFINE e == AuthorizeEvent(idState.pred, "successor", idState.target, FALSE)
<1>1. /\ ~IdIdle /\ Head(idTodo) = "authorize" /\ idTodo' = Tail(idTodo)
      /\ UNCHANGED <<idFiles, idKeys, idFormer>>
      /\ \/ /\ MatchingAuthorizations # {} /\ idEvents' = idEvents
            /\ idState' = [idState EXCEPT !.auth = CHOOSE i \in MatchingAuthorizations : TRUE]
         \/ /\ MatchingAuthorizations = {} /\ SignIdEvent(e)
            /\ idState' = [idState EXCEPT !.auth = Len(idEvents) + 1]
  BY DEF FindOrAppendAuthorization
<1>2. UNCHANGED <<idLegacy, idRecords, idActive, idCommand, idRotation>>
  BY <1>1 DEF idFiles
<1>3. Rotates /\ idActive # idState.target /\ Rotating(idRotation)
  BY <1>1, FirstWrite DEF IdInv
<1>4. idEvents \in Seq(IdEvent) /\ idState \in JournalType /\ idKeys \in 0..MaxKeys /\ MaxKeys \in Nat
  BY IdentityAssumption DEF IdInv, EventShape, IdShape
<1>5. /\ idState.pred \in IdActors /\ idState.target \in IdActors
      /\ idActive = idState.pred
  BY <1>3, <1>4 DEF Rotates, Moves, IdActors
<1>6. CASE MatchingAuthorizations # {} /\ idEvents' = idEvents
           /\ idState' = [idState EXCEPT !.auth = CHOOSE i \in MatchingAuthorizations : TRUE]
  <2>1. PICK i \in MatchingAuthorizations : idState' = [idState EXCEPT !.auth = i]
    BY <1>6
  <2>2. i \in DOMAIN idEvents /\ i \in Nat
        /\ idEvents[i] = AuthorizeEvent(idState.pred, "successor", idState.target, idEvents[i].hand)
    BY <1>4, <2>1 DEF MatchingAuthorizations, Authorizations
  <2>3. /\ idState' \in JournalType /\ idState'.pred = idState.pred /\ idState'.target = idState.target
        /\ idState'.auth = i
    BY <1>4, <2>1, <2>2, IdLearned
  <2>a. /\ idEvents[i].kind = "identity.authorize" /\ idEvents[i].actor = idState.pred
        /\ idEvents[i].rel = "successor" /\ idEvents[i].target = idState.target
    <3>1. \A h : LET x == AuthorizeEvent(idState.pred, "successor", idState.target, h) IN
                  /\ x.kind = "identity.authorize" /\ x.actor = idState.pred
                  /\ x.rel = "successor" /\ x.target = idState.target
      BY DEF AuthorizeEvent
    <3> QED BY <2>2, <3>1
  <2>4. Signed(idState, idEvents)'
    BY <1>6, <2>2, <2>3, <2>a DEF Signed
  <2>5. IdShape' /\ JournalsAgree' /\ RunningOne'
    BY <1>1, <1>3, <2>3, <2>4, SigningRuns
  <2>6. EventShape' /\ OwnRecorded' /\ RotationIsOne' /\ FormerSucceeded'
    BY <1>1, <1>2, <1>6 DEF IdInv, EventShape, OwnRecorded, Recorded, Rotating, RotationIsOne, FormerSucceeded
  <2> QED BY <2>5, <2>6 DEF IdInv
<1>7. CASE MatchingAuthorizations = {} /\ SignIdEvent(e)
           /\ idState' = [idState EXCEPT !.auth = Len(idEvents) + 1]
  <2>1. /\ e \in IdEvent /\ e.kind = "identity.authorize" /\ ~e.hand /\ e.rel = "successor"
        /\ e.actor = idState.pred /\ e.target = idState.target /\ e.subject = 0
    BY <1>4, <1>5 DEF AuthorizeEvent, IdEvent, IdActors, PeerKey
  <2> HIDE DEF e
  <2>2. /\ idEvents' \in Seq(IdEvent) /\ Len(idEvents) \in Nat
        /\ DOMAIN idEvents = 1..Len(idEvents) /\ DOMAIN idEvents' = 1..(Len(idEvents) + 1)
        /\ \A i \in DOMAIN idEvents : idEvents'[i] = idEvents[i]
        /\ idEvents'[Len(idEvents) + 1] = e
    BY <1>4, <1>7, <2>1, EventAppended
  <2>3. EventShape' /\ \A a : AcceptedSuccessors(idEvents, a) \subseteq AcceptedSuccessors(idEvents', a)
    BY <1>7, <2>1, AcceptedStays DEF IdInv, Subjected
  <2>4. /\ idState' \in JournalType /\ idState'.pred = idState.pred /\ idState'.target = idState.target
        /\ idState'.auth = Len(idEvents) + 1
    <3>1. Len(idEvents) + 1 \in Nat
      BY <2>2
    <3> QED BY <1>4, <1>7, <3>1, IdLearned
  <2>5. Signed(idState, idEvents)'
    BY <2>1, <2>2, <2>4 DEF Signed
  <2>6. IdShape' /\ JournalsAgree' /\ RunningOne'
    BY <1>1, <1>3, <2>4, <2>5, SigningRuns
  <2>7. \A i \in DOMAIN idEvents :
          (~idEvents[i].hand /\ idEvents[i].kind = "identity.authorize" /\ idEvents[i].subject = 0)
            => idEvents[i].actor # idState.pred
    <3> SUFFICES ASSUME NEW i \in DOMAIN idEvents, ~idEvents[i].hand,
                        idEvents[i].kind = "identity.authorize", idEvents[i].subject = 0,
                        idEvents[i].actor = idState.pred
                 PROVE  FALSE
      OBVIOUS
    <3>1. idState.pred \notin idFormer
      BY <1>5 DEF IdInv, JournalsAgree
    <3>2. idEvents[i].rel = "successor" /\ (Recorded(idEvents[i], idRotation) \/ Recorded(idEvents[i], idCommand))
      BY <3>1 DEF IdInv, OwnRecorded
    <3>3. idEvents[i].target = idState.target
      BY <3>2, <1>3 DEF Recorded, Rotates, SameMove
    <3>4. idEvents[i] \in IdEvent
      BY <1>4
    <3>5. idEvents[i] = AuthorizeEvent(idState.pred, "successor", idState.target, idEvents[i].hand)
      BY <3>2, <3>3, <3>4 DEF IdEvent, AuthorizeEvent
    <3> QED BY <1>7, <3>5 DEF MatchingAuthorizations, Authorizations
  <2>8. RotationIsOne'
    BY <2>1, <2>2, <2>7 DEF IdInv, RotationIsOne
  <2>9. OwnRecorded'
    <3>1. Recorded(e, idRotation)
      BY <1>3, <2>1 DEF Recorded, Rotates, SameMove
    <3> QED BY <1>1, <1>2, <2>1, <2>2, <3>1 DEF IdInv, OwnRecorded, Recorded, Rotating
  <2>10. FormerSucceeded'
    BY <1>1, <2>3 DEF IdInv, FormerSucceeded
  <2> QED BY <2>3, <2>6, <2>8, <2>9, <2>10 DEF IdInv
<1> QED
  BY <1>1, <1>6, <1>7

LEMMA AcceptanceKeeps ==
  ASSUME IdInv, FindOrAppendAcceptance
  PROVE  IdInv'
<1> DEFINE e == AcceptEvent(idState.target, idState.auth, FALSE)
<1>1. /\ ~IdIdle /\ Head(idTodo) = "accept" /\ idTodo' = Tail(idTodo)
      /\ UNCHANGED <<idFiles, idKeys, idFormer>>
      /\ \/ /\ MatchingAcceptances # {} /\ idEvents' = idEvents
            /\ idState' = [idState EXCEPT !.acc = CHOOSE i \in MatchingAcceptances : TRUE]
         \/ /\ MatchingAcceptances = {} /\ SignIdEvent(e)
            /\ idState' = [idState EXCEPT !.acc = Len(idEvents) + 1]
  BY DEF FindOrAppendAcceptance
<1>2. UNCHANGED <<idLegacy, idRecords, idActive, idCommand, idRotation>>
  BY <1>1 DEF idFiles
<1>3. Rotates /\ Signed(idState, idEvents)
  BY <1>1, FirstWrite DEF IdInv
<1>4. idEvents \in Seq(IdEvent) /\ idState \in JournalType /\ idKeys \in 0..MaxKeys /\ MaxKeys \in Nat
  BY IdentityAssumption DEF IdInv, EventShape, IdShape
<1>5. idState.target \in IdActors
  BY <1>3, <1>4 DEF Rotates, Moves, IdActors
<1>6. CASE MatchingAcceptances # {} /\ idEvents' = idEvents
           /\ idState' = [idState EXCEPT !.acc = CHOOSE i \in MatchingAcceptances : TRUE]
  <2>1. PICK i \in MatchingAcceptances : idState' = [idState EXCEPT !.acc = i]
    BY <1>6
  <2>2. i \in Nat
    BY <1>4, <2>1 DEF MatchingAcceptances, AcceptanceIDs
  <2>3. /\ idState' \in JournalType /\ idState'.pred = idState.pred /\ idState'.target = idState.target
        /\ idState'.auth = idState.auth
    BY <1>4, <2>1, <2>2, IdLearned
  <2>4. Signed(idState, idEvents)'
    BY <1>3, <1>6, <2>3 DEF Signed
  <2>5. IdShape' /\ JournalsAgree' /\ RunningOne'
    BY <1>1, <1>3, <2>3, <2>4, SigningRuns
  <2>6. EventShape' /\ OwnRecorded' /\ RotationIsOne' /\ FormerSucceeded'
    BY <1>1, <1>2, <1>6 DEF IdInv, EventShape, OwnRecorded, Recorded, Rotating, RotationIsOne, FormerSucceeded
  <2> QED BY <2>5, <2>6 DEF IdInv
<1>7. CASE MatchingAcceptances = {} /\ SignIdEvent(e)
           /\ idState' = [idState EXCEPT !.acc = Len(idEvents) + 1]
  <2>1. /\ e \in IdEvent /\ e.kind = "identity.accept" /\ ~e.hand
        /\ e.actor = idState.target /\ e.subject = idState.auth
    BY <1>4, <1>5 DEF AcceptEvent, IdEvent, IdActors, PeerKey, NoKey, JournalType
  <2> HIDE DEF e
  <2>2. /\ idEvents' \in Seq(IdEvent) /\ Len(idEvents) \in Nat
        /\ DOMAIN idEvents = 1..Len(idEvents) /\ DOMAIN idEvents' = 1..(Len(idEvents) + 1)
        /\ \A i \in DOMAIN idEvents : idEvents'[i] = idEvents[i]
        /\ idEvents'[Len(idEvents) + 1] = e
    BY <1>4, <1>7, <2>1, EventAppended
  <2>3. /\ EventShape' /\ \A a : AcceptedSuccessors(idEvents, a) \subseteq AcceptedSuccessors(idEvents', a)
        /\ \A s : Signed(s, idEvents) => Signed(s, idEvents')
    BY <1>3, <1>7, <2>1, AcceptedStays DEF IdInv, Signed, Subjected
  <2>4. /\ idState' \in JournalType /\ idState'.pred = idState.pred /\ idState'.target = idState.target
        /\ idState'.auth = idState.auth
    <3>1. Len(idEvents) + 1 \in Nat
      BY <2>2
    <3> QED BY <1>4, <1>7, <3>1, IdLearned
  <2>5. Signed(idState, idEvents)'
    BY <1>3, <2>3, <2>4 DEF Signed
  <2>6. IdShape' /\ JournalsAgree' /\ RunningOne'
    BY <1>1, <1>3, <2>4, <2>5, SigningRuns
  <2>7. \A i \in DOMAIN idEvents :
          (idEvents[i].kind = "identity.accept" /\ idEvents[i].subject = idState.auth)
            => idEvents[i].actor # idState.target
    BY <1>3, <1>7 DEF MatchingAcceptances, AcceptanceIDs, Signed
  <2>8. RotationIsOne'
    BY <2>1, <2>2, <2>7 DEF IdInv, RotationIsOne
  <2>9. OwnRecorded'
    BY <1>1, <1>2, <2>1, <2>2 DEF IdInv, OwnRecorded, Recorded, Rotating
  <2>10. FormerSucceeded'
    BY <1>1, <2>3 DEF IdInv, FormerSucceeded
  <2> QED BY <2>3, <2>6, <2>8, <2>9, <2>10 DEF IdInv
<1> QED
  BY <1>1, <1>6, <1>7

LEMMA ByHandStep ==
  ASSUME IdInv,
         \/ \E t \in 1..idKeys \cup {PeerKey}, rel \in {"device", "successor"} : IdentityAuthorize(rel, t)
         \/ \E i \in DOMAIN idEvents : IdentityAccept(i)
         \/ PeerEvent
  PROVE  IdInv'
<1>1. /\ UNCHANGED <<idFiles, idTodo, idState, idKeys, idFormer>> /\ idTodo = <<>>
  BY DEF IdentityAuthorize, IdentityAccept, PeerEvent, IdIdle
<1>2. \E e \in IdEvent :
        SignIdEvent(e) /\ e.hand /\ Subjected(e)
  <2>0. /\ idEvents \in Seq(IdEvent) /\ idKeys \in 0..MaxKeys /\ MaxKeys \in Nat
        /\ idActive \in 0..idKeys /\ DOMAIN idEvents \subseteq Nat
    BY IdentityAssumption DEF IdInv, EventShape, IdShape
  <2>1. ASSUME NEW a \in IdActors \cup {PeerKey}, NEW rel \in {"device", "successor"}, NEW t \in 0..PeerKey
        PROVE  /\ AuthorizeEvent(a, rel, t, TRUE) \in IdEvent /\ AuthorizeEvent(a, rel, t, TRUE).hand
               /\ Subjected(AuthorizeEvent(a, rel, t, TRUE))
    BY <2>0 DEF AuthorizeEvent, IdEvent, Subjected
  <2>2. ASSUME NEW a \in IdActors \cup {PeerKey}, NEW i \in DOMAIN idEvents
        PROVE  /\ AcceptEvent(a, i, TRUE) \in IdEvent /\ AcceptEvent(a, i, TRUE).hand
               /\ Subjected(AcceptEvent(a, i, TRUE))
    BY <2>0 DEF AcceptEvent, IdEvent, NoKey, PeerKey, Subjected
  <2>3. idActive # NoKey => idActive \in IdActors \cup {PeerKey}
    BY <2>0 DEF NoKey, IdActors
  <2>4. 1..idKeys \cup {PeerKey} \subseteq 0..PeerKey /\ PeerKey \in IdActors \cup {PeerKey}
    BY <2>0 DEF PeerKey
  <2>5. ASSUME NEW t \in 1..idKeys \cup {PeerKey}, NEW rel \in {"device", "successor"}, IdentityAuthorize(rel, t)
        PROVE  \E e \in IdEvent : SignIdEvent(e) /\ e.hand /\ Subjected(e)
    <3>1. SignIdEvent(AuthorizeEvent(idActive, rel, t, TRUE)) /\ idActive # NoKey
      BY <2>5 DEF IdentityAuthorize
    <3>2. t \in 0..PeerKey /\ idActive \in IdActors \cup {PeerKey}
      BY <3>1, <2>3, <2>4
    <3> QED BY <3>1, <3>2, <2>1
  <2>6. ASSUME NEW i \in DOMAIN idEvents, IdentityAccept(i)
        PROVE  \E e \in IdEvent : SignIdEvent(e) /\ e.hand /\ Subjected(e)
    BY <2>2, <2>3, <2>6 DEF IdentityAccept
  <2>7. ASSUME PeerEvent
        PROVE  \E e \in IdEvent : SignIdEvent(e) /\ e.hand /\ Subjected(e)
    <3>1. \/ \E t \in 1..idKeys : SignIdEvent(AuthorizeEvent(PeerKey, "successor", t, TRUE))
          \/ \E i \in DOMAIN idEvents : SignIdEvent(AcceptEvent(PeerKey, i, TRUE))
      BY <2>7 DEF PeerEvent, Authorizations
    <3>2. CASE \E t \in 1..idKeys : SignIdEvent(AuthorizeEvent(PeerKey, "successor", t, TRUE))
      <4>1. PICK t \in 1..idKeys : SignIdEvent(AuthorizeEvent(PeerKey, "successor", t, TRUE))
        BY <3>2
      <4>2. t \in 0..PeerKey
        BY <2>4
      <4> QED BY <4>1, <4>2, <2>1, <2>4
    <3>3. CASE \E i \in DOMAIN idEvents : SignIdEvent(AcceptEvent(PeerKey, i, TRUE))
      BY <3>3, <2>2, <2>4
    <3> QED BY <3>1, <3>2, <3>3
  <2> QED BY <2>5, <2>6, <2>7
<1>3. UNCHANGED <<idLegacy, idRecords, idActive, idCommand, idRotation>>
  BY <1>1 DEF idFiles
<1>4. EventShape' /\ OwnRecorded' /\ RotationIsOne' /\ FormerSucceeded'
  BY <1>1, <1>2, <1>3, ByHandKeeps DEF IdInv
<1>5. IdShape' /\ JournalsAgree'
  BY <1>1, <1>3 DEF IdInv, IdShape, JournalsAgree, Rotating, Moves, SameMove
<1>6. RunningOne'
  BY <1>1 DEF IdInv, RunningOne
<1> QED
  BY <1>4, <1>5, <1>6 DEF IdInv

\* A command that stops leaves the files and the events.
LEMMA StopKeeps ==
  ASSUME IdInv, RotationRefused \/ IdCrash
  PROVE  IdInv'
<1>1. idTodo' = <<>> /\ UNCHANGED <<idFiles, idEvents, idState, idKeys, idFormer>>
  BY DEF RotationRefused, IdCrash
<1>2. UNCHANGED <<idLegacy, idRecords, idActive, idCommand, idRotation>>
  BY <1>1 DEF idFiles
<1>3. IdShape' /\ JournalsAgree'
  BY <1>1, <1>2 DEF IdInv, IdShape, JournalsAgree, Rotating, Moves, SameMove
<1>4. RunningOne'
  BY <1>1 DEF RunningOne
<1>5. EventShape' /\ OwnRecorded' /\ RotationIsOne' /\ FormerSucceeded'
  BY <1>1, <1>2 DEF IdInv, EventShape, OwnRecorded, Recorded, Rotating, RotationIsOne, FormerSucceeded
<1> QED
  BY <1>3, <1>4, <1>5 DEF IdInv

\* A lost command journal leaves the rotation's own.
LEMMA LossKeeps ==
  ASSUME IdInv, CommandLost
  PROVE  IdInv'
<1>1. /\ idTodo' = <<>> /\ Rotating(idCommand) /\ Rotating(idRotation) /\ idCommand' = NoJournal
      /\ UNCHANGED <<idLegacy, idRecords, idActive, idRotation, idEvents, idState, idKeys, idFormer>>
  BY DEF CommandLost, IdIdle
<1>2. NoJournal \in JournalType /\ ~Rotating(NoJournal)
  BY IdentityAssumption DEF NoJournal, NoKey, JournalType, Rotating
<1>3. IdShape' /\ JournalsAgree'
  BY <1>1, <1>2 DEF IdInv, IdShape, JournalsAgree, Rotating, Moves, SameMove
<1>4. RunningOne'
  BY <1>1 DEF RunningOne
<1>5. OwnRecorded'
  <2>1. \A e : Recorded(e, idCommand) => Recorded(e, idRotation)
    BY <1>1 DEF IdInv, JournalsAgree, Recorded, SameMove
  <2> QED BY <1>1, <2>1 DEF IdInv, OwnRecorded, Recorded, Rotating
<1>6. EventShape' /\ RotationIsOne' /\ FormerSucceeded'
  BY <1>1 DEF IdInv, EventShape, RotationIsOne, FormerSucceeded
<1> QED
  BY <1>3, <1>4, <1>5, <1>6 DEF IdInv

\* A command that begins or resumes a rotation in order touches no file.
LEMMA StartKeeps ==
  ASSUME IdInv, NEW s \in JournalType, idState' = s, idTodo' \in Seq(Writes),
         idKeys' \in 0..MaxKeys, idKeys <= idKeys', UNCHANGED <<idFiles, idEvents, idFormer>>,
         s.pred \in 1..idKeys', s.target \in 1..idKeys', s.pred # s.target,
         idActive \in {s.pred, s.target}, s.target \notin idFormer,
         idActive = s.target => s.pred \in idFormer,
         SameMove(s, idCommand), SameMove(s, idRotation),
         Ordered(idTodo', Rotating(idRotation), Signed(s, idEvents), idActive = s.target)
  PROVE  IdInv'
<1>1. UNCHANGED <<idLegacy, idRecords, idActive, idCommand, idRotation>>
  BY DEF idFiles
<1>2. IdShape'
  BY <1>1 DEF IdInv, IdShape
<1>3. JournalsAgree'
  <2>1. \A j : Moves(j) => Moves(j)'
    BY <1>1 DEF IdInv, IdShape, Moves
  <2> QED BY <1>1, <2>1 DEF IdInv, JournalsAgree, Rotating, SameMove
<1>4. RunningOne'
  <2>1. Moves(idState)' /\ SameMove(idState, idCommand)' /\ SameMove(idState, idRotation)'
    BY <1>1 DEF Moves, SameMove, Rotating
  <2>2. Ordered(idTodo', Rotating(idRotation'), Signed(idState', idEvents'), idActive' = idState'.target)
    BY <1>1 DEF Rotating
  <2> QED BY <2>1, <2>2 DEF RunningOne, Rotates
<1>5. EventShape' /\ OwnRecorded' /\ RotationIsOne' /\ FormerSucceeded'
  BY <1>1 DEF IdInv, EventShape, OwnRecorded, Recorded, Rotating, RotationIsOne, FormerSucceeded
<1> QED
  BY <1>2, <1>3, <1>4, <1>5 DEF IdInv

LEMMA BeginKeeps ==
  ASSUME IdInv, BeginRotation
  PROVE  IdInv'
<1> DEFINE s == [pred |-> idActive, target |-> idKeys + 1, auth |-> 0, acc |-> 0]
           u == <<"command", "record", "rotation">>
<1>1. /\ ~Rotating(idCommand) /\ ~Rotating(idRotation) /\ idActive # NoKey /\ idKeys < MaxKeys
      /\ idKeys' = idKeys + 1 /\ idState' = s /\ idTodo' = u \o Progress(s)
      /\ UNCHANGED <<idFiles, idEvents, idFormer>>
  BY DEF BeginRotation
<1>2. idKeys \in 0..MaxKeys /\ MaxKeys \in Nat /\ idActive \in 1..idKeys /\ idFormer \subseteq 1..idKeys
  BY <1>1, IdentityAssumption DEF IdInv, IdShape, NoKey
<1>3. /\ s \in JournalType /\ s.pred = idActive /\ s.target = idKeys + 1 /\ s.auth = 0 /\ s.acc = 0
  BY <1>1, <1>2 DEF JournalType
<1>4. u \in Seq(Writes) /\ Len(u) = 3 /\ u[1] = "command" /\ u[2] = "record" /\ u[3] = "rotation"
  BY Three DEF Writes
<1> HIDE DEF s, u
<1>5. Signed(s, idEvents) \in BOOLEAN /\ (idActive = s.target) = FALSE
  BY <1>2, <1>3 DEF Signed
<1>6. Progress(s) \in Seq(Writes) /\ Ordered(Progress(s), TRUE, Signed(s, idEvents), FALSE)
  BY <1>3, <1>5, ProgressOrdered
<1>7. /\ \A m \in 1..Len(u) : u[m] \in {"record", "command", "rotation"}
      /\ \E m \in 1..Len(u) : u[m] = "rotation"
  BY <1>4
<1>8. idTodo' \in Seq(Writes) /\ Ordered(idTodo', FALSE, Signed(s, idEvents), FALSE)
  BY <1>1, <1>4, <1>5, <1>6, <1>7, OrderPrefix
<1>9. Ordered(idTodo', Rotating(idRotation), Signed(s, idEvents), idActive = s.target)
  BY <1>1, <1>5, <1>8 DEF Rotating
<1>10. SameMove(s, idCommand) /\ SameMove(s, idRotation)
  BY <1>1 DEF SameMove
<1>11. idActive \notin idFormer
  BY DEF IdInv, JournalsAgree
<1> QED
  BY <1>1, <1>2, <1>3, <1>8, <1>9, <1>10, <1>11, StartKeeps

LEMMA ResumeKeeps ==
  ASSUME IdInv, NEW s \in JournalType, NEW u \in Seq(Writes), NEW t \in Seq(Writes),
         Resume(s, u \o t), \A m \in 1..Len(u) : u[m] \in {"record", "command", "rotation"},
         Moves(s), SameMove(s, idCommand), SameMove(s, idRotation), NEW kept \in BOOLEAN,
         Ordered(t, kept, Signed(s, idEvents), idActive = s.target),
         kept => Rotating(idRotation) \/ \E m \in 1..Len(u) : u[m] = "rotation"
  PROVE  IdInv'
<1>1. /\ Signed(s, idEvents) \in BOOLEAN /\ (idActive = s.target) \in BOOLEAN
      /\ Rotating(idRotation) \in BOOLEAN
  BY DEF Signed, Rotating
<1>2. /\ u \o t \in Seq(Writes)
      /\ Ordered(u \o t, Rotating(idRotation), Signed(s, idEvents), idActive = s.target)
  <2> DEFINE k == Rotating(idRotation)  g == Signed(s, idEvents)  m == (idActive = s.target)
  <2>1. /\ k \in BOOLEAN /\ g \in BOOLEAN /\ m \in BOOLEAN /\ Ordered(t, kept, g, m)
        /\ kept => k \/ \E n \in 1..Len(u) : u[n] = "rotation"
    BY <1>1
  <2> HIDE DEF k, g, m
  <2>2. u \o t \in Seq(Writes) /\ Ordered(u \o t, k, g, m)
    BY <2>1, OrderPrefix
  <2> QED BY <2>2 DEF k, g, m
<1>3. /\ idState' = s /\ idTodo' = u \o t /\ UNCHANGED <<idFiles, idEvents, idKeys, idFormer>>
  BY DEF Resume
<1>4. idKeys' \in 0..MaxKeys /\ idKeys <= idKeys'
  BY <1>3, IdentityAssumption DEF IdInv, IdShape
<1> QED
  BY <1>2, <1>3, <1>4, StartKeeps DEF Moves

\* A valid journal's remaining writes.
LEMMA ValidOrdered ==
  ASSUME NEW s, ValidProgress(s, idActive = s.target)
  PROVE  /\ Progress(s) \in Seq(Writes)
         /\ Ordered(Progress(s), TRUE, Signed(s, idEvents), idActive = s.target)
<1>1. Signed(s, idEvents) \in BOOLEAN /\ (idActive = s.target) \in BOOLEAN
  BY DEF Signed
<1>2. /\ s.acc # 0 => s.auth # 0
      /\ idActive = s.target => s.auth # 0
      /\ s.auth # 0 => Signed(s, idEvents)
  BY DEF ValidProgress, RotationShape, Signed, Authorizations
<1> QED
  BY <1>1, <1>2, ProgressOrdered

LEMMA FromRotationKeeps ==
  ASSUME IdInv, ResumeFromRotation
  PROVE  IdInv'
<1> DEFINE u == <<"command">>
<1>1. /\ ~Rotating(idCommand) /\ Rotating(idRotation)
      /\ ValidProgress(idRotation, idActive = idRotation.target)
      /\ Resume(idRotation, u \o Progress(idRotation))
  BY DEF ResumeFromRotation
<1>2. u \in Seq(Writes) /\ Len(u) = 1 /\ u[1] = "command"
  BY DEF Writes
<1> HIDE DEF u
<1>3. Moves(idRotation) /\ SameMove(idRotation, idCommand) /\ SameMove(idRotation, idRotation)
  BY <1>1 DEF IdInv, JournalsAgree, SameMove
<1>4. /\ Progress(idRotation) \in Seq(Writes)
      /\ Ordered(Progress(idRotation), TRUE, Signed(idRotation, idEvents), idActive = idRotation.target)
  BY <1>1, ValidOrdered
<1>5. idRotation \in JournalType
  BY DEF IdInv, IdShape
<1>6. \A m \in 1..Len(u) : u[m] \in {"record", "command", "rotation"}
  BY <1>2
<1> QED
  BY <1>1, <1>2, <1>3, <1>4, <1>5, <1>6, ResumeKeeps

LEMMA FromCommandKeeps ==
  ASSUME IdInv, ResumeFromCommand
  PROVE  IdInv'
<1> DEFINE s == IF Rotating(idRotation) THEN Reconciled(idCommand, idRotation) ELSE idCommand
           rec == IF s.target \in idRecords THEN <<>> ELSE <<"record">>
<1>1. /\ Rotating(idCommand) /\ ValidProgress(s, idActive = s.target)
      /\ Resume(s, IF Rotating(idRotation) THEN rec \o <<"command">> \o Progress(s)
                   ELSE IF idActive = s.target THEN rec \o <<"discard">>
                   ELSE rec \o <<"rotation">> \o Progress(s))
  BY DEF ResumeFromCommand
<1>2. s \in JournalType /\ s.pred = idCommand.pred /\ s.target = idCommand.target
  BY ReconciledMoves DEF IdInv, IdShape
<1>3. \/ rec = <<>> \/ rec = <<"record">>
  OBVIOUS
<1> HIDE DEF s, rec
<1>4. Moves(s) /\ SameMove(s, idCommand) /\ SameMove(s, idRotation)
  <2>1. Moves(idCommand) /\ SameMove(idCommand, idRotation)
    BY <1>1 DEF IdInv, JournalsAgree
  <2> QED BY <1>2, <2>1 DEF Moves, SameMove
<1>5. /\ Progress(s) \in Seq(Writes)
      /\ Ordered(Progress(s), TRUE, Signed(s, idEvents), idActive = s.target)
  BY <1>1, ValidOrdered
<1>6. /\ rec \in Seq(Writes) /\ \A m \in 1..Len(rec) : rec[m] \in {"record", "command", "rotation"}
  <2>1. CASE rec = <<>>
    BY <2>1
  <2>2. CASE rec = <<"record">>
    <3>1. "record" \in Writes
      BY DEF Writes
    <3>2. rec \in Seq(Writes) /\ Len(rec) = 1 /\ rec[1] = "record"
      BY <2>2, <3>1
    <3> QED BY <3>2
  <2> QED BY <1>3, <2>1, <2>2
<1>7. ASSUME NEW x \in {"command", "rotation"}
      PROVE  /\ rec \o <<x>> \in Seq(Writes)
             /\ \A m \in 1..Len(rec \o <<x>>) : (rec \o <<x>>)[m] \in {"record", "command", "rotation"}
             /\ \E m \in 1..Len(rec \o <<x>>) : (rec \o <<x>>)[m] = x
  <2> DEFINE one == <<x>>
  <2>1. one \in Seq(Writes) /\ Len(one) = 1 /\ one[1] = x
    BY DEF Writes
  <2> HIDE DEF one
  <2>0. rec \o one \in Seq(Writes) /\ Len(rec \o one) = Len(rec) + Len(one)
    BY <1>6, <2>1, Joined
  <2>2. rec \o one \in Seq(Writes) /\ Len(rec \o one) = Len(rec) + 1
    BY <2>0, <2>1
  <2>3. /\ \A n \in 1..Len(rec) : (rec \o one)[n] = rec[n]
        /\ \A n \in 1..Len(one) : (rec \o one)[Len(rec) + n] = one[n]
    BY <1>6, <2>1, Joined
  <2>a. 1 \in 1..Len(one)
    BY <2>1
  <2>4. (rec \o one)[Len(rec) + 1] = x /\ Len(rec) \in Nat
    <3>1. (rec \o one)[Len(rec) + 1] = one[1]
      BY <2>3, <2>a, Zenon
    <3> QED BY <3>1, <2>1, <1>6
  <2>5. \A m \in 1..Len(rec \o one) : (rec \o one)[m] \in {"record", "command", "rotation"}
    <3>1. TAKE m \in 1..Len(rec \o one)
    <3>2. m \in 1..Len(rec) \/ m = Len(rec) + 1
      BY <2>2, <2>4
    <3> QED BY <3>2, <2>3, <2>4, <1>6
  <2>6. Len(rec) + 1 \in 1..Len(rec \o one)
    BY <2>2, <2>4
  <2> QED BY <2>2, <2>4, <2>5, <2>6 DEF one
<1>8. CASE Rotating(idRotation)
  <2>1. Resume(s, (rec \o <<"command">>) \o Progress(s))
    BY <1>1, <1>8
  <2> HIDE DEF Resume
  <2>2. /\ rec \o <<"command">> \in Seq(Writes)
        /\ \A m \in 1..Len(rec \o <<"command">>) : (rec \o <<"command">>)[m] \in {"record", "command", "rotation"}
    BY <1>7
  <2> QED BY <1>2, <1>4, <1>5, <1>8, <2>1, <2>2, ResumeKeeps
<1>9. CASE ~Rotating(idRotation) /\ idActive # s.target
  <2>1. Resume(s, (rec \o <<"rotation">>) \o Progress(s))
    BY <1>1, <1>9
  <2>2. /\ rec \o <<"rotation">> \in Seq(Writes)
        /\ \A m \in 1..Len(rec \o <<"rotation">>) : (rec \o <<"rotation">>)[m] \in {"record", "command", "rotation"}
        /\ \E m \in 1..Len(rec \o <<"rotation">>) : (rec \o <<"rotation">>)[m] = "rotation"
    BY <1>7
  <2> QED BY <1>2, <1>4, <1>5, <2>1, <2>2, ResumeKeeps
<1>10. CASE ~Rotating(idRotation) /\ idActive = s.target
  <2> DEFINE d == <<"discard">>
  <2>1. Resume(s, rec \o d)
    BY <1>1, <1>10
  <2>2. d \in Seq(Writes) /\ Len(d) = 1 /\ d[1] = "discard"
    BY DEF Writes
  <2> HIDE DEF d
  <2>3. Ordered(d, FALSE, Signed(s, idEvents), idActive = s.target)
    BY <1>10, <2>2 DEF Ordered
  <2> QED BY <1>2, <1>4, <1>6, <2>1, <2>2, <2>3, ResumeKeeps
<1> QED
  BY <1>8, <1>9, <1>10

LEMMA IdInitial ==
  ASSUME IdentityInit
  PROVE  IdInv
<1>1. /\ idLegacy \in {0, 1} /\ idKeys = (IF idLegacy = 0 THEN 0 ELSE 1)
      /\ idRecords = {} /\ idActive = 0 /\ idCommand = NoJournal /\ idRotation = NoJournal
      /\ idEvents \in {<<>>, PeerSucceeded} /\ idTodo = <<>> /\ idState = NoJournal /\ idFormer = {}
  BY DEF IdentityInit, NoKey
<1>2. NoJournal \in JournalType /\ MaxKeys \in Nat \ {0}
  BY IdentityAssumption DEF NoJournal, NoKey, JournalType
<1>3. IdShape
  BY <1>1, <1>2 DEF IdShape, NoKey
<1>4. JournalsAgree /\ RunningOne /\ FormerSucceeded
  BY <1>1 DEF JournalsAgree, RunningOne, FormerSucceeded, Rotating
<1>5. idEvents \in Seq(IdEvent) /\ \A i \in DOMAIN idEvents :
        /\ idEvents[i].hand
        /\ IF idEvents[i].kind = "identity.accept" THEN idEvents[i].subject \in 1..(i - 1)
                                                   ELSE idEvents[i].subject = 0
  <2>1. CASE idEvents = <<>>
    BY <2>1
  <2>2. CASE idEvents = PeerSucceeded
    <3> DEFINE x == AuthorizeEvent(PeerKey, "successor", 1, TRUE)
               y == AcceptEvent(1, 1, TRUE)
    <3>1. x \in IdEvent /\ x.hand /\ x.kind = "identity.authorize" /\ x.subject = 0
      BY <1>2 DEF AuthorizeEvent, IdEvent, PeerKey, IdActors
    <3>2. y \in IdEvent /\ y.hand /\ y.kind = "identity.accept" /\ y.subject = 1
      BY <1>2 DEF AcceptEvent, IdEvent, PeerKey, IdActors, NoKey
    <3>3. idEvents = <<x, y>>
      BY <2>2 DEF PeerSucceeded
    <3> HIDE DEF x, y
    <3>4. idEvents \in Seq(IdEvent) /\ DOMAIN idEvents = 1..2 /\ idEvents[1] = x /\ idEvents[2] = y
      BY <3>1, <3>2, <3>3
    <3>5. \A i \in 1..2 : i = 1 \/ i = 2
      OBVIOUS
    <3>6. 1 \in 1..(2 - 1)
      OBVIOUS
    <3> QED BY <3>1, <3>2, <3>4, <3>5, <3>6
  <2> QED BY <1>1, <2>1, <2>2
<1>6. EventShape
  BY <1>5 DEF EventShape
<1>7. OwnRecorded /\ RotationIsOne
  BY <1>5 DEF OwnRecorded, RotationIsOne
<1> QED
  BY <1>3, <1>4, <1>6, <1>7 DEF IdInv

LEMMA IdStep ==
  ASSUME IdInv, IdentityNext
  PROVE  IdInv'
  BY CreateKeeps, ByHandStep, FromCommandKeeps, FromRotationKeeps, BeginKeeps, RecordKeeps,
     CommandKeeps, RotationKeeps, AuthorizationKeeps, AcceptanceKeeps, SwitchKeeps, RemovalKeeps,
     PointerKeeps, StopKeeps, LossKeeps
  DEF IdentityNext, RerunRotation, RotateWrite

LEMMA IdHolds == IdentitySpec => []IdInv
<1>1. ASSUME IdInv, UNCHANGED identityVars PROVE IdInv'
  <2>1. UNCHANGED <<idLegacy, idRecords, idActive, idCommand, idRotation, idEvents, idTodo,
                    idState, idKeys, idFormer>>
    BY <1>1 DEF identityVars
  <2>2. IdShape' /\ JournalsAgree' /\ EventShape'
    BY <1>1, <2>1 DEF IdInv, IdShape, JournalsAgree, Rotating, Moves, SameMove, EventShape
  <2>3. RunningOne'
    BY <1>1, <2>1 DEF IdInv, RunningOne, Creating, Rotates, Moves, SameMove, Rotating
  <2>4. OwnRecorded' /\ RotationIsOne' /\ FormerSucceeded'
    BY <1>1, <2>1 DEF IdInv, OwnRecorded, Recorded, Rotating, RotationIsOne, FormerSucceeded
  <2> QED BY <2>2, <2>3, <2>4 DEF IdInv
<1>2. IdInv /\ [IdentityNext]_identityVars => IdInv'
  BY <1>1, IdStep
<1> QED
  BY <1>2, IdInitial, PTL DEF IdentitySpec

\* However often `hn identity rotate` dies and is repeated, and whatever is
\* issued by hand or by other devices in between, for any number of keys: it
\* signs one authorisation per key it leaves and one acceptance of each.
THEOREM RotatesOnce == IdentitySpec => []RotationIsOne
<1>1. IdInv => RotationIsOne
  BY DEF IdInv
<1> QED
  BY <1>1, IdHolds, PTL

\* A key the pointer has left is shown as retired by the signed events, unless
\* somebody issued another successor by hand or the successors form a cycle.
THEOREM FormerShown == IdentitySpec => []FormerIsRetired
<1>1. ASSUME IdInv PROVE FormerIsRetired
  <2> SUFFICES ASSUME NEW a \in idFormer \ {idActive}, SuccessorCycleIDs(idEvents) = {},
                      \A i \in AcceptedEdges(idEvents) :
                        ~(idEvents[i].actor = a /\ idEvents[i].rel = "successor" /\ idEvents[i].hand)
               PROVE  ListedAs(a) = "retired"
    BY DEF FormerIsRetired
  <2> DEFINE A == AcceptedSuccessors(idEvents, a)
  <2>1. PICK i \in A : TRUE
    BY <1>1 DEF IdInv, FormerSucceeded
  <2>2. \A j \in A : j \in DOMAIN idEvents /\ idEvents[j].actor = a /\ ~idEvents[j].hand
                     /\ idEvents[j].kind = "identity.authorize"
    BY DEF AcceptedSuccessors, AcceptedEdges, Authorizations
  <2>3. \A j \in A : idEvents[j].subject = 0
    BY <1>1, <2>2 DEF IdInv, EventShape
  <2> HIDE DEF A
  <2>4. A = {i}
    BY <1>1, <2>1, <2>2, <2>3 DEF IdInv, RotationIsOne
  <2>5. Cardinality(A) = 1
    BY <2>4, FS_Singleton
  <2>6. ActorState(idEvents, a) = "retired"
    BY <2>5 DEF ActorState, Ambiguous, A
  <2> QED BY <2>6 DEF ListedAs
<1> QED
  BY <1>1, IdHolds, PTL

-----------------------------------------------------------------------------
(* Automerge. *)

\* The places of the command, grouped by what it has done to the checkout.
BeforeMove == {"built", "leased", "checked"}
AfterMove  == {"moved", "waiting", "restore", "record"}
\* The command holds the prepared transaction.
Leased     == {"leased", "checked", "moved", "abort"}

AmTypeOK ==
  /\ amBranch \in {"base", "merge", "theirs", "onTop"}
  /\ amTree \in {"base", "cand", "mixed", "theirs", "onTop"}
  /\ amGit \in {"none", "prepared", "committing", "gone"}
  /\ amLock \in BOOLEAN /\ amEdit \in BOOLEAN
  /\ amPc \in {"idle", "abort"} \cup BeforeMove \cup AfterMove

\* The child is prepared exactly while the command holds it, and is committing
\* only for a command that waits for it, or for one that died.
ChildFollowsCommand ==
  /\ amGit = "prepared" <=> amPc \in Leased
  /\ amGit = "committing" => amTree = "cand" /\ (amPc = "waiting" \/ (amPc = "idle" /\ amSaid = "died"))
\* Nobody else can move the branch before the child is gone.
LockHeld == amGit \in {"prepared", "committing"} => amLock /\ amBranch = "base"
\* What is checked out while the command runs.
CheckoutInFlight ==
  /\ amPc \in BeforeMove => amTree = "base" /\ amBranch \in {"base", "theirs"}
  /\ amPc \in AfterMove => amTree = "cand"
  /\ amPc = "abort" => amBranch \in {"base", "theirs"} /\ (amTree # "base" => amSaid = "gitFailed")
  /\ amPc = "restore" => amBranch \in {"base", "theirs"}
  /\ amPc = "record" => amBranch \in {"merge", "onTop"}

AmInv == AmTypeOK /\ ChildFollowsCommand /\ LockHeld /\ CheckoutInFlight /\ CheckoutFollowsBranch

\* Every step of the command, of its child and of the others keeps the invariant.
LEMMA AmInvStep == AmInv /\ [AutomergeNext]_automergeVars => AmInv'
<1> SUFFICES ASSUME AmInv, [AutomergeNext]_automergeVars PROVE AmInv'
  OBVIOUS
<1> USE DEF AmInv, AmTypeOK, ChildFollowsCommand, LockHeld, CheckoutInFlight, CheckoutFollowsBranch,
            BeforeMove, AfterMove, Leased, TreeOf, AmGoto, automergeVars
<1>1. CASE BeginAutomerge
  BY <1>1 DEF BeginAutomerge, Eligible, CleanCheckout
<1>2. CASE PrepareLease
  BY <1>2 DEF PrepareLease
<1>3. CASE CheckLeased
  BY <1>3 DEF CheckLeased
<1>4. CASE MoveCheckout
  BY <1>4 DEF MoveCheckout
<1>5. CASE SendCommit
  BY <1>5 DEF SendCommit
<1>6. CASE ReadBack
  BY <1>6 DEF ReadBack, Exited
<1>7. CASE ReadBackFails
  BY <1>7 DEF ReadBackFails, Exited
<1>8. CASE Restore
  BY <1>8 DEF Restore
<1>9. CASE RecordMerge
  BY <1>9 DEF RecordMerge
<1>10. CASE AbortLease
  BY <1>10 DEF AbortLease
<1>11. CASE RepairFact
  BY <1>11 DEF RepairFact
<1>12. CASE GitCommits
  BY <1>12 DEF GitCommits
<1>13. CASE GitRefuses
  BY <1>13 DEF GitRefuses
<1>14. CASE KillChild
  BY <1>14 DEF KillChild
<1>15. CASE HnDies
  BY <1>15 DEF HnDies
<1>16. CASE UserEdits
  BY <1>16 DEF UserEdits
<1>17. CASE EvidenceChanges
  BY <1>17 DEF EvidenceChanges
<1>18. CASE OtherWriter
  BY <1>18 DEF OtherWriter
<1>19. CASE UserTidies
  BY <1>19 DEF UserTidies
<1>20. CASE MoveRefused
  BY <1>20 DEF MoveRefused
<1>21. CASE MoveFails
  BY <1>21 DEF MoveFails
<1>22. CASE RestoreRefused
  BY <1>22 DEF RestoreRefused
<1>23. CASE RestoreFails
  BY <1>23 DEF RestoreFails
<1>24. CASE RecordFails
  BY <1>24 DEF RecordFails
<1>25. CASE UNCHANGED automergeVars
  BY <1>25
<1> QED
  BY <1>1, <1>2, <1>3, <1>4, <1>5, <1>6, <1>7, <1>8, <1>9, <1>10, <1>11, <1>12, <1>13, <1>14,
     <1>15, <1>16, <1>17, <1>18, <1>19, <1>20, <1>21, <1>22, <1>23, <1>24, <1>25 DEF AutomergeNext

\* The branch is advanced only over a wholly moved checkout, and a command that
\* left another checkout on an unmoved branch reported it or died, whatever
\* becomes of the acknowledgement, of read-tree and of hn (advanceAutomerge).
THEOREM CheckoutKept == AutomergeSpec => []CheckoutFollowsBranch
<1>1. AutomergeInit => AmInv
  BY DEF AutomergeInit, AmInv, AmTypeOK, ChildFollowsCommand, LockHeld, CheckoutInFlight,
         CheckoutFollowsBranch, BeforeMove, AfterMove, Leased, TreeOf
<1>2. AmInv => CheckoutFollowsBranch
  BY DEF AmInv
<1> QED
  BY <1>1, <1>2, AmInvStep, PTL DEF AutomergeSpec

=============================================================================

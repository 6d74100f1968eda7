------------------------- MODULE ContributionIntake -------------------------
(***************************************************************************)
(* The receiver's side of `hn contribution`: a local artifact is charged   *)
(* to the project's ledger, verified, kept as immutable bytes, compared    *)
(* with every kept artifact, and its signed records are installed actor by *)
(* actor in the contribution refs; a project signer then adds receipts     *)
(* through a second, separately charged intake.  The owner's own writes go *)
(* through the same ledger: reserved and described before the native event *)
(* is appended, attested after it (contribution_exchange.go,               *)
(* contribution_commands.go, contribution_moderation.go,                   *)
(* internal/contribution/policy.go).                                       *)
(*                                                                         *)
(* One command runs at a time (contributionCommandLock); it may die before *)
(* any durable write.  Every request reserves the same maxima, so usage is *)
(* counted in requests.  An artifact is [recs, good, base]: its signed     *)
(* records, whether its native closure verifies, and the branch position   *)
(* its code ref was exported at.  A record is [actor, kind, about, body];  *)
(* a second body under one (actor, kind, about) is a signed conflict; about *)
(* and body are tuples.  Decisions and branch moves happen between         *)
(* commands (they take the same lock).                                     *)
(***************************************************************************)
EXTENDS Naturals, FiniteSets, Sequences, FiniteSetsExt, SequencesExt

CONSTANTS
  CxOffers,       \* artifacts handed over: [intent, artifact, exact]; exact when the
                  \* owner's selection is the one the bytes read under
  CxLocal,        \* the writes of the owner, by CxSigner
  CxSigner,       \* the actor that signs receipts
  CxWindowMax,    \* policy: requests per window
  CxRetainedMax,  \* policy: requests retained in all
  MaxCxCrashes,   \* bound: deaths of the process
  MaxCxMoves      \* bound: advances of the governance branch and moderation decisions

CxForeign == {o.artifact : o \in CxOffers}

ASSUME ContributionAssumption ==
  \* the descriptor of a local write is no artifact
  /\ CxForeign \cap CxLocal = {}
  \* a local write is one submission
  /\ \A d \in CxLocal : \E r \in d.recs : d.recs = {r} /\ r.actor = CxSigner /\ r.kind = "submission"
  /\ {CxWindowMax, CxRetainedMax, MaxCxCrashes, MaxCxMoves} \subseteq Nat

VARIABLES
  cxAttempts, \* journal: attempts in order, with the durable retention plans
  cxWindow,   \* journal: the current accounting window
  cxFiles,    \* immutable artifacts kept by the receiver
  cxRefs,     \* actor -> contribution ref: its history of record sets
  cxObjects,  \* manifest heads whose Git objects are written
  cxNative,   \* local writes: signed native events appended
  cxPinned,   \* artifacts whose native facts are in the accepted refs
  cxBranch,   \* position of the governance branch
  cxCut,      \* moderation decisions on the actors and dependencies of submissions:
              \* [heads: the cut a receipt names, barred: whether they bar the intake]
  cxPc,       \* where the running command is; "idle" when none runs
  cxAt,       \* the attempt the command works on
  cxActor,    \* the actor whose manifest is being retained
  cxMarks,    \* attempts the command found in conflict with its artifact
  cxCrashes

contributionVars == <<cxAttempts, cxWindow, cxFiles, cxRefs, cxObjects,
  cxNative, cxPinned, cxBranch, cxCut, cxPc, cxAt, cxActor, cxMarks, cxCrashes>>

cxOwn   == <<cxNative, cxPinned>>
cxWorld == <<cxBranch, cxCut>>
cxStore == <<cxWindow, cxFiles, cxRefs, cxObjects, cxOwn, cxWorld, cxCrashes>>

CxActors  == {CxSigner} \cup UNION {{r.actor : r \in d.recs} : d \in CxForeign}
NoOne     == "no one"
NoPlan    == [expected |-> <<>>, head |-> <<>>, durable |-> FALSE, complete |-> FALSE]
Absent    == <<>>

ContributionInit ==
  /\ cxAttempts = <<>> /\ cxWindow = 0 /\ cxFiles = {} /\ cxObjects = {}
  /\ cxRefs = [a \in CxActors |-> Absent]
  /\ cxNative = {} /\ cxPinned = {} /\ cxBranch = 0 /\ cxCut = [heads |-> 0, barred |-> FALSE]
  /\ cxPc = "idle" /\ cxAt = 0 /\ cxActor = NoOne
  /\ cxMarks = {} /\ cxCrashes = 0

-----------------------------------------------------------------------------
(* Records, selections and conflicts. *)

ActorsOf(d)       == {r.actor : r \in d.recs}
RecordsOf(d, a)   == {r \in d.recs : r.actor = a}
SameIntent(r, s)  == r.actor = s.actor /\ r.kind = s.kind /\ r.about = s.about

\* contributionIntentConflict within one artifact, contributionCrossConflict
\* between two.
IntentConflict(d)   == \E r, s \in d.recs : SameIntent(r, s) /\ r # s
CrossConflict(d, e) == \E r \in d.recs, s \in e.recs : SameIntent(r, s) /\ r # s

\* stageContributionNative verifies the native closure in quarantine, within limits;
\* readContributionArtifact accepts the bytes under the attempt's selection.
NativeVerifies(d) == d.good
Readable(att) == NativeVerifies(att.artifact) /\ att.exact
IsLocal(i)    == cxAttempts[i].artifact \in CxLocal
BytesKept(i)  == cxAttempts[i].artifact \in cxFiles

\* markConflicts reads every attempt whose artifact is kept, whatever its status.
Others(i)          == {k \in DOMAIN cxAttempts : k # i /\ BytesKept(k)}
OthersReadable(i)  == \A k \in Others(i) : Readable(cxAttempts[k])
\* As if only the attempts still pending were read.
PendingOnly(i)     == {k \in Others(i) : cxAttempts[k].status = "reserved"}
ConflictsWith(i)   ==
  {k \in Others(i) : CrossConflict(cxAttempts[k].artifact, cxAttempts[i].artifact)}
Conflicted(i, marks) ==
  \/ cxAttempts[i].status = "conflict" \/ marks # {}
  \/ IntentConflict(cxAttempts[i].artifact)

Marked(marks) ==
  [k \in DOMAIN cxAttempts |->
     IF k \in marks THEN [cxAttempts[k] EXCEPT !.status = "conflict"] ELSE cxAttempts[k]]

-----------------------------------------------------------------------------
(* The ledger. *)

UsedInWindow == Cardinality({i \in DOMAIN cxAttempts : cxAttempts[i].win = cxWindow})
WithinBudget == UsedInWindow < CxWindowMax /\ Len(cxAttempts) < CxRetainedMax

\* The records to install: those of the artifact, or what a local write attests.
NewAttempt(intent, d, exact, recs) ==
  [intent |-> intent, artifact |-> d, exact |-> exact, status |-> "reserved",
   recs |-> recs, auth |-> cxBranch, win |-> cxWindow, plan |-> [a \in CxActors |-> NoPlan]]

Reserved(intent, d, exact) == Append(cxAttempts, NewAttempt(intent, d, exact, d.recs))

WithIntent(intent) == {i \in DOMAIN cxAttempts : cxAttempts[i].intent = intent}
\* An earlier completed attempt with the same bytes and selection.
Completed(d, exact) ==
  {i \in DOMAIN cxAttempts :
     /\ cxAttempts[i].artifact = d /\ cxAttempts[i].exact = exact
     /\ cxAttempts[i].status \in {"pending", "conflict"}}

\* Only a maintainer's command moves the window, and never an empty one.
Rollover ==
  /\ cxPc = "idle" /\ UsedInWindow > 0
  /\ cxWindow' = cxWindow + 1
  /\ UNCHANGED <<cxAttempts, cxFiles, cxRefs, cxObjects, cxOwn, cxWorld, cxPc, cxAt,
                 cxActor, cxMarks, cxCrashes>>

-----------------------------------------------------------------------------
(* Receive. *)

Goto(pc, i) == cxPc' = pc /\ cxAt' = i /\ cxActor' = NoOne /\ cxMarks' = {}
SetStatus(s, marks) ==
  cxAttempts' = [Marked(marks) EXCEPT ![cxAt].status = s]

\* The command begins; the reservation is durable before the source is opened.
ReceiveNew(intent, d, exact) ==
  /\ cxPc = "idle"
  /\ WithIntent(intent) = {} /\ Completed(d, exact) = {}
  /\ WithinBudget
  /\ cxAttempts' = Reserved(intent, d, exact)
  /\ Goto("verify", Len(cxAttempts) + 1)
  /\ UNCHANGED cxStore

\* The source cannot be read, its bytes changed, or they do not verify under the
\* selection: the attempt stays charged.
ReceiveFails ==
  /\ cxPc = "verify"
  /\ SetStatus("failed", {})
  /\ Goto("idle", 0)
  /\ UNCHANGED cxStore

\* A kept artifact cannot be read again under some attempt's selection.
MarkConflictsFails ==
  /\ cxPc = "verify" /\ Readable(cxAttempts[cxAt]) /\ ~OthersReadable(cxAt)
  /\ \E marks \in SUBSET ConflictsWith(cxAt) : SetStatus("failed", marks)
  /\ Goto("idle", 0)
  /\ UNCHANGED cxStore

ReceiveVerified ==
  /\ cxPc = "verify" /\ Readable(cxAttempts[cxAt]) /\ OthersReadable(cxAt)
  /\ cxPc' = "publish" /\ cxMarks' = ConflictsWith(cxAt)
  /\ UNCHANGED <<cxAttempts, cxStore, cxAt, cxActor>>

\* contributionPublish links the bytes under their digest, or finds them there.
ReceivePublish ==
  /\ cxPc = "publish"
  /\ cxFiles' = cxFiles \cup {cxAttempts[cxAt].artifact}
  /\ cxPc' = "settle"
  /\ UNCHANGED <<cxAttempts, cxWindow, cxRefs, cxObjects, cxOwn, cxWorld, cxAt,
                 cxActor, cxMarks, cxCrashes>>

PublishFails ==
  /\ cxPc = "publish"
  /\ SetStatus("failed", cxMarks)
  /\ Goto("idle", 0)
  /\ UNCHANGED cxStore

\* The deferred save: the attempt and every attempt it conflicts with.
ReceiveSettle ==
  /\ cxPc = "settle"
  /\ SetStatus(IF Conflicted(cxAt, cxMarks) THEN "conflict" ELSE "pending", cxMarks)
  /\ Goto("native", cxAt)
  /\ UNCHANGED cxStore

\* The command is repeated with its digest and selection, or names a new intent
\* for bytes that are already settled.
ReceiveReplay(i) ==
  /\ cxPc = "idle" /\ ~IsLocal(i)
  /\ cxAttempts[i].status \in {"pending", "conflict"}
  /\ Goto("native", i)
  /\ UNCHANGED <<cxAttempts, cxStore>>

\* Recover works from the kept bytes only; without them the attempt remains.
Recover(i) ==
  /\ cxPc = "idle" /\ cxAttempts[i].status = "reserved" /\ ~IsLocal(i)
  /\ BytesKept(i) /\ Readable(cxAttempts[i]) /\ OthersReadable(i)
  /\ cxAttempts' = [Marked(ConflictsWith(i)) EXCEPT ![i].status =
       IF Conflicted(i, ConflictsWith(i)) THEN "conflict" ELSE "pending"]
  /\ Goto("native", i)
  /\ UNCHANGED cxStore

-----------------------------------------------------------------------------
(* Retention: the native facts, then one durable plan per attempt and actor. *)

\* contributionRetainIntakeContext copies the objects of the kept bytes and creates
\* accepted refs named for the artifact, or finds the ones an earlier run created.
RetainNative ==
  /\ cxPc = "native"
  /\ cxPinned' = cxPinned \cup {cxAttempts[cxAt].artifact}
  /\ cxPc' = "retain"
  /\ UNCHANGED <<cxAttempts, cxWindow, cxFiles, cxRefs, cxObjects, cxNative, cxWorld, cxAt,
                 cxActor, cxMarks, cxCrashes>>

\* A manifest head is the ref's history with the enlarged record set added;
\* nothing new keeps the head.
Installed(a) == IF cxRefs[a] = Absent THEN {} ELSE Last(cxRefs[a])
\* As if the plan forgot the records the ref already holds.
PlannedHeadAlone(att, a) == Append(cxRefs[a], RecordsOf(att, a))
PlannedHead(att, a) ==
  IF RecordsOf(att, a) \subseteq Installed(a) THEN cxRefs[a]
  ELSE Append(cxRefs[a], Installed(a) \cup RecordsOf(att, a))

SetPlan(i, a, p) == cxAttempts' = [cxAttempts EXCEPT ![i].plan[a] = p]
PlanOf(i, a)     == cxAttempts[i].plan[a]
Planned(i, a)    == PlanOf(i, a) # NoPlan
ToRetain(i)      == {a \in ActorsOf(cxAttempts[i]) : ~PlanOf(i, a).complete}

NewPlan(a) == [expected |-> cxRefs[a], head |-> PlannedHead(cxAttempts[cxAt], a),
               durable |-> FALSE, complete |-> FALSE]

\* Without a plan the current ref is the expected-old value.  The same save
\* settles a local write.
PlanActor(a) ==
  /\ cxPc = "retain" /\ a \in ToRetain(cxAt) /\ ~Planned(cxAt, a)
  /\ cxAttempts' = [cxAttempts EXCEPT ![cxAt].plan[a] = NewPlan(a),
                       ![cxAt].status = IF IsLocal(cxAt) THEN "pending" ELSE @]
  /\ cxPc' = "objects" /\ cxActor' = a
  /\ UNCHANGED <<cxStore, cxAt, cxMarks>>

\* A rerun finds the plan without its objects: the same plan must come out.
ReplanActor(a) ==
  /\ cxPc = "retain" /\ a \in ToRetain(cxAt) /\ Planned(cxAt, a)
  /\ ~PlanOf(cxAt, a).durable
  /\ cxRefs[a] = PlanOf(cxAt, a).expected
  /\ PlannedHead(cxAttempts[cxAt], a) = PlanOf(cxAt, a).head
  /\ cxPc' = "objects" /\ cxActor' = a
  /\ UNCHANGED <<cxAttempts, cxStore, cxAt, cxMarks>>

WriteManifest ==
  /\ cxPc = "objects"
  /\ cxObjects' = cxObjects \cup {PlanOf(cxAt, cxActor).head}
  /\ cxPc' = "durable"
  /\ UNCHANGED <<cxAttempts, cxWindow, cxFiles, cxRefs, cxOwn, cxWorld, cxAt, cxActor,
                 cxMarks, cxCrashes>>

MarkDurable ==
  /\ cxPc = "durable"
  /\ SetPlan(cxAt, cxActor, [PlanOf(cxAt, cxActor) EXCEPT !.durable = TRUE])
  /\ cxPc' = "finish"
  /\ UNCHANGED <<cxStore, cxAt, cxActor, cxMarks>>

FinishKnown(a) ==
  /\ cxPc = "retain" /\ a \in ToRetain(cxAt) /\ PlanOf(cxAt, a).durable
  /\ cxPc' = "finish" /\ cxActor' = a
  /\ UNCHANGED <<cxAttempts, cxStore, cxAt, cxMarks>>

\* update-ref compares with the expected-old value; the planned head itself is a
\* write whose completion mark was lost.  A retry that forgot the lost mark:
ExpectedOnly(p, a) == cxRefs[a] = p.expected
MayInstall(p, a)   == cxRefs[a] \in {p.head, p.expected}

UpdateRef ==
  LET p == PlanOf(cxAt, cxActor)
  IN  /\ cxPc = "finish" /\ MayInstall(p, cxActor)
      /\ cxRefs' = [cxRefs EXCEPT ![cxActor] = p.head]
      /\ cxPc' = "complete"
      /\ UNCHANGED <<cxAttempts, cxWindow, cxFiles, cxObjects, cxOwn, cxWorld, cxAt,
                     cxActor, cxMarks, cxCrashes>>

MarkComplete ==
  /\ cxPc = "complete"
  /\ SetPlan(cxAt, cxActor, [PlanOf(cxAt, cxActor) EXCEPT !.complete = TRUE])
  /\ cxPc' = "retain" /\ cxActor' = NoOne
  /\ UNCHANGED <<cxStore, cxAt, cxMarks>>

\* The ref has moved past a plan that did not complete: the command refuses.
RetainRefused ==
  /\ \/ cxPc = "finish" /\ ~MayInstall(PlanOf(cxAt, cxActor), cxActor)
     \/ /\ cxPc = "retain"
        /\ \E a \in ToRetain(cxAt) :
             Planned(cxAt, a) /\ ~PlanOf(cxAt, a).durable /\ cxRefs[a] # PlanOf(cxAt, a).expected
  /\ Goto("idle", 0)
  /\ UNCHANGED <<cxAttempts, cxStore>>

-----------------------------------------------------------------------------
(* Receipts: signed control records, charged and received like an artifact. *)

\* A receipt is signed once per submission and policy; it names the exact
\* submission, and the attempt, the authority and the moderation cut it stands on.
Subject(r)         == <<r.actor>> \o r.about \o r.body
ReceiptOf(i, r)    == [actor |-> CxSigner, kind |-> "receipt", about |-> Subject(r),
                       body |-> <<i, cxBranch, cxCut.heads>>]
Submissions(i)     == {r \in cxAttempts[i].artifact.recs : r.kind = "submission"}
Receipted(r)       == \E a \in CxActors : \E q \in Installed(a) : q.kind = "receipt" /\ q.about = Subject(r)
MissingReceipts(i) == {ReceiptOf(i, r) : r \in {s \in Submissions(i) : ~Receipted(s)}}
Control(i)         == [recs |-> MissingReceipts(i), good |-> TRUE, base |-> cxBranch]
ControlIntent(i)   == "receipts " \o cxAttempts[i].intent

\* The raw records are installed: the receipt stage of a pending intake begins a
\* second intake, or repeats one whose bytes are the same.
SignReceipts ==
  LET same == WithIntent(ControlIntent(cxAt))
  IN  /\ cxPc = "retain" /\ ToRetain(cxAt) = {} /\ ~IsLocal(cxAt) /\ ~cxCut.barred
      /\ cxAttempts[cxAt].status = "pending" /\ MissingReceipts(cxAt) # {}
      /\ \/ /\ same = {} /\ WithinBudget
            /\ cxAttempts' = Reserved(ControlIntent(cxAt), Control(cxAt), TRUE)
            /\ Goto("verify", Len(cxAttempts) + 1)
         \/ \E k \in same :
            /\ cxAttempts[k].artifact = Control(cxAt)
            /\ cxAttempts[k].status \in {"pending", "conflict"}
            /\ Goto("native", k)
            /\ UNCHANGED cxAttempts
      /\ UNCHANGED cxStore

\* Nothing is left, the attempt is in conflict, the evidence bars it, the budget is
\* spent, or the control intent already names other bytes.
CommandEnds ==
  /\ cxPc = "retain" /\ ~IsLocal(cxAt) /\ ToRetain(cxAt) = {}
  /\ Goto("idle", 0)
  /\ UNCHANGED <<cxAttempts, cxStore>>

-----------------------------------------------------------------------------
(* Local writes. *)

LocalIntent(d) == "native " \o (CHOOSE r \in d.recs : TRUE).about[1]

\* contributionBeforeNative: the charge, then the signed event and submission in
\* a private descriptor, before the native writer creates anything.
LocalReserve(d) ==
  /\ cxPc = "idle" /\ ~cxCut.barred /\ WithIntent(LocalIntent(d)) = {} /\ WithinBudget
  /\ cxAttempts' = Append(cxAttempts, NewAttempt(LocalIntent(d), d, TRUE, {}))
  /\ Goto("append", Len(cxAttempts) + 1)
  /\ UNCHANGED cxStore

\* The native event is appended to the actor's log.
NativeAppend ==
  /\ cxPc = "append"
  /\ cxNative' = cxNative \cup {cxAttempts[cxAt].artifact}
  /\ cxPc' = "attest"
  /\ UNCHANGED <<cxAttempts, cxWindow, cxFiles, cxRefs, cxObjects, cxPinned, cxWorld,
                 cxAt, cxActor, cxMarks, cxCrashes>>

\* The command is repeated and finds its event.
RetryNative(i) ==
  /\ cxPc = "idle" /\ IsLocal(i) /\ cxAttempts[i].artifact \in cxNative \ cxPinned
  /\ Goto("attest", i)
  /\ UNCHANGED <<cxAttempts, cxStore>>

\* The result is signed once, under the authority the descriptor names; every
\* retry works with it, and while it is not installed its receipt must still name
\* the current moderation cut (contributionValidateLiveRecords).
ResultOf(i) ==
  LET recs == cxAttempts[i].artifact.recs IN recs \cup {ReceiptOf(i, r) : r \in recs}
MaySign(i)  == cxAttempts[i].auth = cxBranch /\ ~cxCut.barred
StillLive(i) ==
  ~cxCut.barred /\ \A r \in cxAttempts[i].recs : r.kind = "receipt" => r.body[3] = cxCut.heads
MayAttest(i) ==
  IF cxAttempts[i].recs = {} THEN MaySign(i) ELSE ToRetain(i) = {} \/ StillLive(i)

Attest ==
  /\ cxPc = "attest" /\ MayAttest(cxAt)
  /\ \/ cxAttempts[cxAt].recs # {} /\ UNCHANGED cxAttempts
     \/ /\ cxAttempts[cxAt].recs = {}
        /\ cxAttempts' = [cxAttempts EXCEPT ![cxAt].recs = ResultOf(cxAt)]
  /\ cxPc' = "retain"
  /\ UNCHANGED <<cxStore, cxAt, cxActor, cxMarks>>

\* The branch or the moderation evidence moved meanwhile: the command refuses.
AttestRefused ==
  /\ cxPc = "attest" /\ ~MayAttest(cxAt)
  /\ Goto("idle", 0)
  /\ UNCHANGED <<cxAttempts, cxStore>>

\* The complete observation of the write is pinned last.
PinNativeObservation ==
  /\ cxPc = "retain" /\ IsLocal(cxAt) /\ ToRetain(cxAt) = {}
  /\ cxPinned' = cxPinned \cup {cxAttempts[cxAt].artifact}
  /\ Goto("idle", 0)
  /\ UNCHANGED <<cxAttempts, cxWindow, cxFiles, cxRefs, cxObjects, cxNative, cxWorld, cxCrashes>>

LocalSteps == NativeAppend \/ Attest \/ AttestRefused \/ PinNativeObservation

-----------------------------------------------------------------------------

BranchMoves ==
  /\ cxPc = "idle" /\ cxBranch + cxCut.heads < MaxCxMoves
  /\ cxBranch' = cxBranch + 1
  /\ UNCHANGED <<cxAttempts, cxWindow, cxFiles, cxRefs, cxObjects, cxOwn, cxCut, cxPc, cxAt,
                 cxActor, cxMarks, cxCrashes>>

\* A decision is made here or arrives: a block, an unblock, a dependency hidden
\* or shown.  A decision supersedes heads, so a cut never comes back.
EvidenceMoves ==
  /\ cxPc = "idle" /\ cxBranch + cxCut.heads < MaxCxMoves
  /\ \E barred \in BOOLEAN : cxCut' = [heads |-> cxCut.heads + 1, barred |-> barred]
  /\ UNCHANGED <<cxAttempts, cxWindow, cxFiles, cxRefs, cxObjects, cxOwn, cxBranch, cxPc, cxAt,
                 cxActor, cxMarks, cxCrashes>>

ContributionCrash ==
  /\ cxPc # "idle" /\ cxCrashes < MaxCxCrashes
  /\ cxCrashes' = cxCrashes + 1
  /\ Goto("idle", 0)
  /\ UNCHANGED <<cxAttempts, cxWindow, cxFiles, cxRefs, cxObjects, cxOwn, cxWorld>>

ReceiveSteps ==
  \/ ReceiveVerified \/ ReceivePublish \/ ReceiveSettle \/ MarkConflictsFails
  \/ ReceiveFails \/ PublishFails

RetainSteps ==
  \/ \E a \in CxActors : PlanActor(a) \/ ReplanActor(a) \/ FinishKnown(a)
  \/ RetainNative \/ WriteManifest \/ MarkDurable \/ UpdateRef \/ MarkComplete \/ RetainRefused
  \/ SignReceipts \/ CommandEnds

Repeat(i) ==
  /\ i \in DOMAIN cxAttempts
  /\ Recover(i) \/ (ToRetain(i) # {} /\ ReceiveReplay(i)) \/ RetryNative(i)

ContributionNext ==
  \/ \E o \in CxOffers : ReceiveNew(o.intent, o.artifact, o.exact)
  \/ \E d \in CxLocal : LocalReserve(d)
  \/ \E i \in DOMAIN cxAttempts : Recover(i) \/ ReceiveReplay(i) \/ RetryNative(i)
  \/ ReceiveSteps \/ RetainSteps \/ LocalSteps \/ Rollover
  \/ BranchMoves \/ EvidenceMoves \/ ContributionCrash

\* A command runs to its end and the owner repeats one that did not complete.
ContributionFairness ==
  /\ WF_contributionVars(ReceiveSteps) /\ WF_contributionVars(RetainSteps)
  /\ WF_contributionVars(LocalSteps)
  /\ \A i \in 1..CxRetainedMax : SF_contributionVars(Repeat(i))

IntakeSpec == ContributionInit /\ [][ContributionNext]_contributionVars /\ ContributionFairness

-----------------------------------------------------------------------------
(* Properties. *)

ContributionTypeOK ==
  /\ \A i \in DOMAIN cxAttempts :
       /\ cxAttempts[i].status \in {"reserved", "failed", "pending", "conflict"}
       /\ cxAttempts[i].win \in 0..cxWindow
  /\ cxAt \in 0..Len(cxAttempts) /\ cxActor \in CxActors \cup {NoOne}
  /\ cxMarks \subseteq DOMAIN cxAttempts

\* Intake never lets two conflicting signed facts both look conflict-free,
\* whatever was interrupted: two pending attempts hold no two different records
\* of one actor and intent (contribution_exchange.go markConflicts).  Received
\* attempts are compared with received ones and local writes with local ones: a
\* second record under the intent of a local write, which only another holder of
\* its signer's key can have signed, is not looked for among received bytes.
NoPendingConflict ==
  \A i, k \in DOMAIN cxAttempts :
    (/\ cxAttempts[i].status = "pending" /\ cxAttempts[k].status = "pending"
     /\ IsLocal(i) <=> IsLocal(k)) =>
      ~CrossConflict(cxAttempts[i].artifact, cxAttempts[k].artifact)

\* Installed records are never lost: a contribution ref only moves to a history
\* that extends the old one and holds every record the old one held, and only to
\* heads whose objects are written.
RetainedNeverLost ==
  [][\A a \in CxActors : cxRefs'[a] # cxRefs[a] =>
        /\ IsPrefix(cxRefs[a], cxRefs'[a])
        /\ Installed(a) \subseteq Last(cxRefs'[a])
        /\ cxRefs'[a] \in cxObjects]_contributionVars

\* An attempt whose verified bytes are kept, or whose native event is appended,
\* and what repeating its command must reach: native facts and every record in.
Resumable(i) ==
  /\ i \in DOMAIN cxAttempts
  /\ IF IsLocal(i) THEN cxAttempts[i].artifact \in cxNative
     ELSE /\ BytesKept(i) /\ Readable(cxAttempts[i]) /\ cxAttempts[i].status # "failed"
          /\ ~(cxAt = i /\ cxPc \in {"verify", "publish"})
ResumeDone(i) ==
  /\ i \in DOMAIN cxAttempts /\ cxAttempts[i].status # "reserved" /\ ToRetain(i) = {}
  /\ cxAttempts[i].artifact \in cxPinned
\* Another attempt names kept bytes under a selection they do not read under, or
\* has moved a ref past this attempt's unfinished plan, or the branch or the
\* moderation evidence moved before a local write's records were installed.
Overtaken(i) ==
  \/ \E k \in DOMAIN cxAttempts : BytesKept(k) /\ ~Readable(cxAttempts[k])
  \/ i \in DOMAIN cxAttempts /\ \E a \in ToRetain(i) :
       Planned(i, a) /\ cxRefs[a] \notin {PlanOf(i, a).expected, PlanOf(i, a).head}
  \/ i \in DOMAIN cxAttempts /\ IsLocal(i) /\ ~MayAttest(i)

\* docs/contributions.md, on repeating the interrupted command: "Valid retained
\* bytes resume the existing retention/admission path".
KeptBytesResume ==
  \A i \in 1..CxRetainedMax : Resumable(i) ~> ResumeDone(i)

\* What the code guarantees of a repeated command: kept bytes resume and all
\* their records get installed, unless another attempt overtakes this one
\* (contribution_exchange.go Recover, RetainActor).
ResumesUnlessOvertaken ==
  \A i \in 1..CxRetainedMax : Resumable(i) ~> (ResumeDone(i) \/ Overtaken(i))
=============================================================================

----------------------------- MODULE Migration -----------------------------
(***************************************************************************)
(* `hn migrate`: a project is observed at its source forge, planned for a  *)
(* destination and applied write by write through a sealed journal         *)
(* (migration_engine.go, migration_journal.go, internal/migration), with   *)
(* the five forge adapters, the Git companion and the local and archive    *)
(* destinations.                                                           *)
(*                                                                         *)
(* A destination call is a request that the remote executes once, later or *)
(* never; its answer may be lost.  Bodies, titles and names are left out:  *)
(* a remote object keeps the intent whose recovery marker it carries and   *)
(* whether it still shows that intent's exact projection.                  *)
(***************************************************************************)
EXTENDS Integers, FiniteSets, Sequences

CONSTANTS
  MigActors,      \* destination accounts that may run an apply
  MigCases,       \* a case is [src, dst, sel, items]: adapters, mapping, source items
  MaxMigCrashes,  \* bound: deaths of the applying process
  MaxMigOthers    \* bound: changes other users make at the destination

Unmapped == "unmapped"
Code     == 0            \* the intent of the Git companion, or of the whole project
NoReply  == 0
NoActor  == "none"
Refused  == -1

\* Items are numbered from 1 (0 stands for the code refs, and for "creates a new
\* object" in a target); a comment is on an item.  The objects a case finds at its destination are one
\* issue and the comments on it, each kept under the one before; a target is one
\* of them, and a comment's target is not the issue.
ASSUME MigrationAssumption ==
  /\ MaxMigCrashes \in Nat /\ MaxMigOthers \in Nat
  /\ NoActor \notin MigActors
  /\ \A c \in MigCases :
       /\ c.src \in {"github", "forgejo", "gitlab", "azure", "bitbucket"}
       /\ c.dst \in {"github", "forgejo", "gitea", "gitlab", "azure", "bitbucket",
                     "local", "archive"}
       /\ IsFiniteSet(DOMAIN c.items)
       /\ \A k \in DOMAIN c.items :
            /\ k \in Nat \ {0}
            /\ c.items[k].kind \in {"issue", "comment", "change_request"}
            /\ c.items[k].kind = "comment" => c.items[k].parent \in DOMAIN c.items
       /\ c.sel.existing \in Nat /\ DOMAIN c.sel.target = DOMAIN c.items
       /\ \A k \in DOMAIN c.items :
            /\ c.sel.target[k] \in 0..c.sel.existing
            /\ c.sel.target[k] = 1 => c.items[k].kind # "comment"

VARIABLES
  migCase,    \* the case that is being migrated
  migPhase,   \* "select", "observe", "prepare", "saved"
  migSourceId,\* incarnation of the source repository
  migSeenId,  \* the incarnation the observation began with
  migAvail,   \* item kinds the source lets this account read
  migKind,    \* item -> what the snapshot holds of it
  migDecided, \* items whose finding the operator decided
  migPlan,    \* saved plan: sequence of intents (an intent is its item)
  migEntry,   \* journal: intent -> "none", "prepared", "inflight", "confirmed"
  migParent,  \* journal: intent -> parent object its bound payload names
  migReceipt, \* journal: intent -> object named by its receipt
  migActor,   \* journal: the account the migration is bound to
  migLock,    \* the lock file exists
  migPc,      \* "idle", "run", "send", "wait"
  migReply,   \* the destination's answer to the pending call
  migWire,    \* requests the destination has not executed yet
  migSent,    \* history: intent -> requests sent
  migObjects, \* destination objects, in order of creation
  migRef,     \* the destination's branch: "old", "ours", "theirs"
  migArchive, \* the portable archive is published
  migCrashes, migOthers

migrationVars == <<migCase, migPhase, migSourceId, migSeenId, migAvail,
  migKind, migDecided, migPlan, migEntry, migParent, migReceipt, migActor, migLock,
  migPc, migReply, migWire, migSent, migObjects, migRef, migArchive,
  migCrashes, migOthers>>

migSaved == <<migCase, migPhase, migSourceId, migSeenId, migAvail, migKind,
  migDecided, migPlan>>

MigItems  == DOMAIN migCase.items
MigItem(k) == migCase.items[k]
MigKinds  == {"issue", "comment", "change_request"}
MigSel    == migCase.sel

\* What a mapping of the selection makes of a source value.
Mapped(v, m) == IF m = Unmapped THEN v ELSE m

------------------------------------------------------------------------------
(* Sources: what each adapter's Snapshot keeps of an item.                    *)

\* The closed record schema holds the item's content (CanonicalContent).
Representable(k) == ~MigItem(k).oversized
ParentItem(k)    == MigItem(k).parent

\* A listing that is not accessible leaves its items unread (a finding says
\* so); an item outside the closed schemas is kept as inert source bytes.
Kept(k, readable, ordinary) ==
  IF ~readable THEN "unread" ELSE IF ordinary THEN MigItem(k).kind ELSE "preserved"

\* Issues and, per issue, its comments.
GithubIssueRows(k) ==
  IF MigItem(k).kind = "issue"
  THEN Kept(k, "issue" \in migAvail, Representable(k))
  ELSE Kept(k, {"issue", "comment"} \subseteq migAvail,
            Representable(k) /\ Representable(ParentItem(k)))
\* Pull requests, reviews, discussions, projects and workflows: source bytes.
GithubPullRows(k) == Kept(k, "change_request" \in migAvail, FALSE)

\* Pull requests are rows of the issue list.
ForgejoIssueRows(k) == GithubIssueRows(k)
ForgejoPullRows(k)  == Kept(k, {"issue", "change_request"} \subseteq migAvail, FALSE)

\* Confidential issues and system notes are kept as source bytes too.
GitlabIssueRows(k) == GithubIssueRows(k)
GitlabMergeRequestRows(k) == Kept(k, "change_request" \in migAvail, FALSE)

\* Work items; the comments of one that is not representable are not read.
AzureWorkItemRows(k) ==
  IF MigItem(k).kind = "issue"
  THEN IF Kept(k, "issue" \in migAvail, Representable(k)) = "issue"
       THEN "work_item" ELSE Kept(k, "issue" \in migAvail, FALSE)
  ELSE Kept(k, {"issue", "comment"} \subseteq migAvail /\ Representable(ParentItem(k)),
            Representable(k))
AzurePullRows(k) == Kept(k, "change_request" \in migAvail, FALSE)

\* The cloud has no issue tracker left: pull requests only.
BitbucketRows(k) ==
  Kept(k, MigItem(k).kind = "change_request" /\ "change_request" \in migAvail, FALSE)

SourceSnapshot(k) ==
  LET pull == MigItem(k).kind = "change_request" IN
  CASE migCase.src = "github"  -> IF pull THEN GithubPullRows(k) ELSE GithubIssueRows(k)
    [] migCase.src = "forgejo" -> IF pull THEN ForgejoPullRows(k) ELSE ForgejoIssueRows(k)
    [] migCase.src = "gitlab"  -> IF pull THEN GitlabMergeRequestRows(k) ELSE GitlabIssueRows(k)
    [] migCase.src = "azure"   -> IF pull THEN AzurePullRows(k) ELSE AzureWorkItemRows(k)
    [] migCase.src = "bitbucket" -> BitbucketRows(k)

------------------------------------------------------------------------------
(* Destinations: the status each adapter's Plan gives a record.               *)

IssueLike(k) == migKind[k] \in {"issue", "work_item"}
WorkItemUnmapped(k) ==
  migKind[k] = "work_item" /\ Unmapped \in {MigSel.state, MigSel.type}
SourceState(k) == IF migCase.src = "gitlab" THEN "opened"
                  ELSE IF migKind[k] = "work_item" THEN "Active" ELSE "open"
SourceType(k)  == IF migKind[k] = "work_item" THEN "Task"
                  ELSE IF migCase.src = "gitlab" THEN "issue" ELSE ""
DestState(k) == Mapped(SourceState(k), MigSel.state)
DestType(k)  == Mapped(SourceType(k), MigSel.type)
UpdatesExisting(k) == MigSel.target[k] # 0      \* the selection names an existing object

GithubIssue(k) ==
  IF \/ WorkItemUnmapped(k) \/ DestState(k) # "open" \/ DestType(k) # ""
     \/ MigSel.names = Unmapped
  THEN "requires_mapping"
  ELSE IF ~MigItem(k).fits THEN "unsupported" ELSE "mapped"

ForgejoIssue(k) ==
  IF \/ WorkItemUnmapped(k) \/ DestState(k) \notin {"open", "closed"} \/ DestType(k) # ""
     \/ MigSel.names = Unmapped
  THEN "requires_mapping"
  ELSE IF MigSel.names = "absent" THEN "missing_dependency"   \* label unknown there
  ELSE IF ~MigItem(k).fits THEN "unsupported" ELSE "mapped"

GitlabIssue(k) ==
  LET typ == IF DestType(k) = "" /\ SourceType(k) = "" THEN "issue" ELSE DestType(k) IN
  IF \/ WorkItemUnmapped(k) \/ MigSel.names = Unmapped \/ typ # "issue"
     \/ DestState(k) \notin {"opened", "closed"}
     \/ ~UpdatesExisting(k) /\ DestState(k) # "opened"
  THEN "requires_mapping"
  ELSE IF ~MigItem(k).fits THEN "unsupported" ELSE "mapped"

AzureIssue(k) ==
  IF \/ Unmapped \in {MigSel.state, MigSel.type} \/ "" \in {MigSel.state, MigSel.type}
     \/ MigSel.names # "omitted"
  THEN "requires_mapping"
  ELSE IF ~MigItem(k).fits THEN "unsupported" ELSE "mapped"

IssueStatus(k) == CASE migCase.dst = "github"    -> GithubIssue(k)
                    [] migCase.dst \in {"forgejo", "gitea"}   -> ForgejoIssue(k)
                    [] migCase.dst = "gitlab"    -> GitlabIssue(k)
                    [] migCase.dst = "azure"     -> AzureIssue(k)

\* A comment needs the intent of its parent; only GitHub and Azure comments
\* are always created, the others may name an existing comment of a parent
\* that itself is an update.
GithubComment(k) ==
  IF ~IssueLike(ParentItem(k)) \/ IssueStatus(ParentItem(k)) # "mapped"
  THEN "missing_dependency"
  ELSE IF ~MigItem(k).fits THEN "unsupported" ELSE "mapped"
AzureComment(k) == GithubComment(k)
ForgejoComment(k) ==
  IF GithubComment(k) = "mapped" /\ UpdatesExisting(k) /\ ~UpdatesExisting(ParentItem(k))
  THEN "missing_dependency" ELSE GithubComment(k)
GitlabComment(k) == ForgejoComment(k)

CommentStatus(k) == CASE migCase.dst = "github"  -> GithubComment(k)
                      [] migCase.dst \in {"forgejo", "gitea"} -> ForgejoComment(k)
                      [] migCase.dst = "gitlab"  -> GitlabComment(k)
                      [] migCase.dst = "azure"   -> AzureComment(k)

\* Bitbucket has no write at all; a local repository or an archive keeps the
\* whole snapshot (the finding it always adds asks for a decision on governance,
\* not on an item).
BitbucketPlan(k) == "unsupported"
LocalPlan(k)     == "preserved"

FindingStatus(k) ==
  IF migKind[k] = "unread" THEN "missing_dependency"
  ELSE IF migCase.dst \in {"local", "archive"} THEN LocalPlan(k)
  ELSE IF migCase.dst = "bitbucket" THEN BitbucketPlan(k)
  ELSE IF IssueLike(k) THEN IssueStatus(k)
  ELSE IF migKind[k] = "comment" THEN CommentStatus(k)
  ELSE "unsupported"

\* Communications first, issues before comments, then the code refs
\* (migrationCompositeDestination.Plan); records are in canonical order.
Written == {k \in MigItems : FindingStatus(k) = "mapped"}
Before(k, l) == \/ k # Code /\ l = Code
                \/ k # Code /\ l # Code /\ migKind[k] # "comment" /\ migKind[l] = "comment"
                \/ k # Code /\ l # Code /\ k < l
                   /\ (migKind[k] = "comment" <=> migKind[l] = "comment")
PlanIntents ==
  LET W == Written \cup {Code} IN
  {p \in [1..Cardinality(W) -> W] :
     /\ \A k \in W : \E i \in DOMAIN p : p[i] = k
     /\ \A i, j \in DOMAIN p : i < j => Before(p[i], p[j])}

\* Mutant: findings need no decision.
PlanUndecided(decided) == decided \subseteq MigItems

\* Every finding that is not mapped or preserved needs a decision.
CanonicalPlan(decided) ==
  {k \in MigItems : FindingStatus(k) \notin {"mapped", "preserved"}} \subseteq decided

------------------------------------------------------------------------------
(* Observing and preparing.                                                   *)

MigrationInit ==
  /\ migCase \in MigCases
  /\ migPhase = "select" /\ migSourceId = 1 /\ migSeenId = 0
  /\ migAvail \in {MigKinds} \cup {MigKinds \ {x} : x \in MigKinds}
  /\ migKind = [k \in DOMAIN migCase.items |-> "unread"]
  /\ migDecided = {} /\ migPlan = <<>>
  /\ migEntry = [k \in {Code} \cup DOMAIN migCase.items |-> "none"]
  /\ migParent = [k \in DOMAIN migCase.items |-> 0]
  /\ migReceipt = [k \in {Code} \cup DOMAIN migCase.items |-> 0]
  /\ migActor = NoActor /\ migLock = FALSE /\ migPc = "idle" /\ migReply = NoReply
  /\ migWire = {} /\ migSent = [k \in {Code} \cup DOMAIN migCase.items |-> 0]
  /\ migObjects = [o \in 1..migCase.sel.existing |->
       [marker |-> 0, parent |-> o - 1, exact |-> TRUE, rev |-> 1, mine |-> FALSE]]
  /\ migRef = "old" /\ migArchive = FALSE
  /\ migCrashes = 0 /\ migOthers = 0

\* Snapshot: the repository is read at the start ...
ObserveStart ==
  /\ migPhase = "select"
  /\ migSeenId' = migSourceId /\ migPhase' = "observe"
  /\ migKind' = [k \in MigItems |-> SourceSnapshot(k)]
  /\ UNCHANGED <<migCase, migSourceId, migAvail, migDecided, migPlan, migEntry,
       migParent, migReceipt, migActor, migLock, migPc, migReply, migWire, migSent,
       migObjects, migRef, migArchive, migCrashes, migOthers>>

\* ... and again at the end: a mix of two incarnations is refused.
ObserveEnd ==
  /\ migPhase = "observe"
  /\ migPhase' = IF migSeenId = migSourceId THEN "prepare" ELSE "select"
  /\ UNCHANGED <<migCase, migSourceId, migSeenId, migAvail, migKind, migDecided,
       migPlan, migEntry, migParent, migReceipt, migActor, migLock, migPc, migReply,
       migWire, migSent, migObjects, migRef, migArchive, migCrashes, migOthers>>

SourceReplaced ==
  /\ migPhase \in {"select", "observe"} /\ migSourceId = 1
  /\ migSourceId' = 2
  /\ UNCHANGED <<migCase, migPhase, migSeenId, migAvail, migKind, migDecided,
       migPlan, migEntry, migParent, migReceipt, migActor, migLock, migPc, migReply,
       migWire, migSent, migObjects, migRef, migArchive, migCrashes, migOthers>>

\* The operator decides every finding, or only looks at the preview.
Decisions == {{}, MigItems}

\* PrepareMigration: plan, copy blobs, stage, seal; nothing is left on error.
PrepareMigration ==
  /\ migPhase = "prepare"
  /\ \E decided \in Decisions :
       /\ CanonicalPlan(decided)
       /\ migDecided' = decided
  /\ migPlan' \in PlanIntents /\ migPhase' = "saved"
  /\ UNCHANGED <<migCase, migSourceId, migSeenId, migAvail, migKind, migEntry,
       migParent, migReceipt, migActor, migLock, migPc, migReply, migWire, migSent,
       migObjects, migRef, migArchive, migCrashes, migOthers>>

------------------------------------------------------------------------------
(* ApplyMigration.                                                            *)

MigIntents  == {migPlan[j] : j \in DOMAIN migPlan}
Unconfirmed == {j \in DOMAIN migPlan : migEntry[migPlan[j]] # "confirmed"}
Current     == migPlan[CHOOSE j \in Unconfirmed : \A i \in Unconfirmed : j <= i]
MigDone     == Unconfirmed = {}

MigLive(o)  == o \in DOMAIN migObjects /\ migObjects[o].rev > 0

\* GitMigrationDestination.Preflight: no write at all over a stale branch,
\* unless the push is already under way.
PreflightGit ==
  \/ migCase.dst \in {"local", "archive"}
  \/ migEntry[Code] \in {"inflight", "confirmed"}
  \/ migRef = "old"

\* Lock file, reopened session, same destination and actor, staged snapshot.
ApplyStart ==
  /\ migPhase = "saved" /\ migPc = "idle" /\ ~migLock /\ ~MigDone
  /\ PreflightGit
  /\ \E a \in MigActors : migActor \in {NoActor, a} /\ migActor' = a
  /\ migLock' = TRUE /\ migPc' = "run"
  /\ UNCHANGED <<migSaved, migEntry, migParent, migReceipt, migReply, migWire,
       migSent, migObjects, migRef, migArchive, migCrashes, migOthers>>

\* BindWrite: a comment's parent is the remote key of the confirmed receipt.
BindWrite(k) == IF k # Code /\ migKind[k] = "comment"
                THEN migReceipt[ParentItem(k)] ELSE 0

\* A new entry is bound and saved as "prepared" ...
ApplyPrepare ==
  /\ migPc = "run" /\ ~MigDone /\ migEntry[Current] = "none"
  /\ migEntry' = [migEntry EXCEPT ![Current] = "prepared"]
  /\ migParent' = [k \in MigItems |-> IF k = Current THEN BindWrite(k) ELSE migParent[k]]
  /\ UNCHANGED <<migSaved, migReceipt, migActor, migLock, migPc, migReply, migWire,
       migSent, migObjects, migRef, migArchive, migCrashes, migOthers>>

\* Mutant: a resumed run writes an uncertain entry again.
ResumeReapplies ==
  /\ migPc = "run" /\ ~MigDone /\ migEntry[Current] \in {"prepared", "inflight"}
  /\ migEntry' = [migEntry EXCEPT ![Current] = "inflight"]
  /\ migPc' = "send"
  /\ UNCHANGED <<migSaved, migParent, migReceipt, migActor, migLock, migReply, migWire,
       migSent, migObjects, migRef, migArchive, migCrashes, migOthers>>

\* ... and saved as "inflight" before the destination is called.
ApplyInflight ==
  /\ migPc = "run" /\ ~MigDone /\ migEntry[Current] = "prepared"
  /\ migEntry' = [migEntry EXCEPT ![Current] = "inflight"]
  /\ migPc' = "send"
  /\ UNCHANGED <<migSaved, migParent, migReceipt, migActor, migLock, migReply, migWire,
       migSent, migObjects, migRef, migArchive, migCrashes, migOthers>>

\* Checks an adapter's Apply makes before its request: the planned revision of
\* an update, the identity of a comment's parent, the branch a push expects.
ParentIntact(k) == migParent[k] # 0 => MigLive(migParent[k])
Baseline(o)    == MigLive(o) /\ migObjects[o].rev = 1
GithubApply(k) ==
  /\ ParentIntact(k)
  /\ (migKind[k] # "comment" /\ UpdatesExisting(k)) => Baseline(MigSel.target[k])
ForgejoApply(k) ==
  /\ ParentIntact(k)
  /\ UpdatesExisting(k) => Baseline(MigSel.target[k])
GitlabApply(k) == ForgejoApply(k)
AzureApply(k)  == GithubApply(k)
GitApply       == migRef = "old"
LocalApply     == migCase.dst = "archive" \/ migRef = "old"

ApplyGuard(k) ==
  CASE k = Code /\ migCase.dst \in {"local", "archive"} -> LocalApply
    [] k = Code /\ migCase.dst \notin {"local", "archive"} -> GitApply
    [] k # Code /\ migCase.dst = "github"  -> GithubApply(k)
    [] k # Code /\ migCase.dst \in {"forgejo", "gitea"} -> ForgejoApply(k)
    [] k # Code /\ migCase.dst = "gitlab"  -> GitlabApply(k)
    [] k # Code /\ migCase.dst = "azure"   -> AzureApply(k)

\* The object an update names; GitHub and Azure always create comments.
TargetObject(k) ==
  IF k = Code \/ (migKind[k] = "comment" /\ migCase.dst \in {"github", "azure"})
  THEN 0 ELSE MigSel.target[k]

\* Azure's PATCH tests the revision and Gitea 1.27 the content version of an
\* issue; the other profiles write unconditionally.
ConditionalWrite(k) == /\ migCase.dst \in {"azure", "gitea"}
                       /\ k # Code /\ migKind[k] # "comment"

ApplySend ==
  /\ migPc = "send" /\ ApplyGuard(Current)
  /\ migWire' = migWire \cup {[intent |-> Current,
        parent |-> IF Current = Code THEN 0 ELSE migParent[Current],
        target |-> TargetObject(Current),
        rev |-> IF ConditionalWrite(Current) THEN 1 ELSE 0]}
  /\ migSent' = [migSent EXCEPT ![Current] = @ + 1]
  /\ migArchive' = (migArchive \/ (Current = Code /\ migCase.dst \in {"local", "archive"}))
  /\ migPc' = "wait" /\ migReply' = NoReply
  /\ UNCHANGED <<migSaved, migEntry, migParent, migReceipt, migActor, migLock,
       migObjects, migRef, migCrashes, migOthers>>

\* ValidateReceipt and the confirming save.
ApplyConfirm ==
  /\ migPc = "wait" /\ migReply \notin {NoReply, Refused}
  /\ (Current = Code /\ migCase.dst \notin {"local", "archive"}) => migRef = "ours"
  /\ migEntry' = [migEntry EXCEPT ![Current] = "confirmed"]
  /\ migReceipt' = [migReceipt EXCEPT ![Current] = migReply]
  /\ migPc' = "run" /\ migReply' = NoReply
  /\ UNCHANGED <<migSaved, migParent, migActor, migLock, migWire, migSent, migObjects,
       migRef, migArchive, migCrashes, migOthers>>

\* Every error after "inflight" ends the run with the entry uncertain.
ApplyFail ==
  /\ \/ migPc = "send" /\ ~ApplyGuard(Current)
     \/ migPc = "wait"
  /\ migPc' = "idle" /\ migLock' = FALSE /\ migReply' = NoReply
  /\ UNCHANGED <<migSaved, migEntry, migParent, migReceipt, migActor, migWire, migSent,
       migObjects, migRef, migArchive, migCrashes, migOthers>>

\* Objects that show the exact bound projection and its marker.
GithubReconcile(k) ==
  {o \in DOMAIN migObjects : /\ MigLive(o) /\ migObjects[o].marker = k
                             /\ migObjects[o].exact
                             /\ migObjects[o].parent = migParent[k]
                             /\ (migKind[k] # "comment" /\ UpdatesExisting(k)) => o = MigSel.target[k]}
ForgejoReconcile(k) ==
  {o \in DOMAIN migObjects : /\ MigLive(o) /\ migObjects[o].marker = k
                             /\ migObjects[o].exact
                             /\ migObjects[o].parent = migParent[k]
                             /\ UpdatesExisting(k) => o = MigSel.target[k]}
GitlabReconcile(k) == ForgejoReconcile(k)
AzureReconcile(k)  == GithubReconcile(k)
GitReconcile       == IF migRef = "ours" THEN {1} ELSE {}
LocalReconcile     == IF migRef = "ours" /\ migArchive THEN {1} ELSE {}
ArchiveReconcile   == IF migArchive THEN {1} ELSE {}

Matches(k) ==
  CASE k = Code /\ migCase.dst = "local"   -> LocalReconcile
    [] k = Code /\ migCase.dst = "archive" -> ArchiveReconcile
    [] k = Code /\ migCase.dst \notin {"local", "archive"} -> GitReconcile
    [] k # Code /\ migCase.dst = "github"  -> GithubReconcile(k)
    [] k # Code /\ migCase.dst \in {"forgejo", "gitea"} -> ForgejoReconcile(k)
    [] k # Code /\ migCase.dst = "gitlab"  -> GitlabReconcile(k)
    [] k # Code /\ migCase.dst = "azure"   -> AzureReconcile(k)

\* Mutants: any match is proof; the count is off by one.
AnyMatch(S)  == S # {}
TwoMatches(S) == Cardinality(S) = 2

\* Only a unique match is proof.
Exact(S) == Cardinality(S) = 1

\* An inflight entry is reconciled; absence never authorizes another write.
ApplyReconcile ==
  /\ migPc = "run" /\ ~MigDone /\ migEntry[Current] = "inflight"
  /\ LET S == IF Current # Code /\ ~ParentIntact(Current) THEN {} ELSE Matches(Current) IN
     IF Exact(S)
     THEN /\ migEntry' = [migEntry EXCEPT ![Current] = "confirmed"]
          /\ \E o \in S : migReceipt' = [migReceipt EXCEPT ![Current] = o]
          /\ UNCHANGED <<migPc, migLock>>
     ELSE /\ migPc' = "idle" /\ migLock' = FALSE
          /\ UNCHANGED <<migEntry, migReceipt>>
  /\ UNCHANGED <<migSaved, migParent, migActor, migReply, migWire, migSent, migObjects,
       migRef, migArchive, migCrashes, migOthers>>

ApplyEnd ==
  /\ migPc = "run" /\ MigDone
  /\ migPc' = "idle" /\ migLock' = FALSE
  /\ UNCHANGED <<migSaved, migEntry, migParent, migReceipt, migActor, migReply, migWire,
       migSent, migObjects, migRef, migArchive, migCrashes, migOthers>>

\* The process dies; the lock file stays until the operator removes it.
ApplyCrash ==
  /\ migPc # "idle" /\ migCrashes < MaxMigCrashes
  /\ migCrashes' = migCrashes + 1
  /\ migPc' = "idle" /\ migReply' = NoReply
  /\ UNCHANGED <<migSaved, migEntry, migParent, migReceipt, migActor, migLock, migWire,
       migSent, migObjects, migRef, migArchive, migOthers>>

ClearLock ==
  /\ migPc = "idle" /\ migLock
  /\ migLock' = FALSE
  /\ UNCHANGED <<migSaved, migEntry, migParent, migReceipt, migActor, migPc, migReply,
       migWire, migSent, migObjects, migRef, migArchive, migCrashes, migOthers>>

------------------------------------------------------------------------------
(* The destination service and its other users.                               *)

\* Mutant: the push has no lease.
PushForced == TRUE

\* The answer reaches the caller only while it waits for this request.
Answer(q, a) ==
  migReply' = IF migPc = "wait" /\ Current = q.intent THEN a ELSE migReply

\* Object o with its parent kept, and everything else as given.
Shows(o, marker, exact, rev, mine) ==
  [marker |-> marker, parent |-> migObjects[o].parent, exact |-> exact,
   rev |-> rev, mine |-> mine]

RefAccepts  == migRef = "old"          \* --force-with-lease, update-ref <old>
RevAccepts(q) == q.rev # 0 => migObjects[q.target].rev = q.rev

Deliver(q) ==
  /\ migWire' = migWire \ {q}
  /\ \/ /\ q.intent = Code /\ migCase.dst # "archive"
        /\ IF RefAccepts THEN migRef' = "ours" /\ Answer(q, 1)
                         ELSE migRef' = migRef /\ Answer(q, Refused)
        /\ UNCHANGED migObjects
     \/ /\ q.intent = Code /\ migCase.dst = "archive" /\ Answer(q, 1)
        /\ UNCHANGED <<migRef, migObjects>>
     \/ /\ q.intent # Code /\ q.target # 0
        /\ IF MigLive(q.target) /\ RevAccepts(q)
           THEN /\ migObjects' = [migObjects EXCEPT ![q.target] =
                     Shows(q.target, q.intent, TRUE, migObjects[q.target].rev + 1, TRUE)]
                /\ Answer(q, q.target)
           ELSE UNCHANGED migObjects /\ Answer(q, Refused)
        /\ UNCHANGED migRef
     \/ /\ q.intent # Code /\ q.target = 0
        /\ IF q.parent # 0 /\ ~MigLive(q.parent)
           THEN UNCHANGED migObjects /\ Answer(q, Refused)
           ELSE /\ migObjects' = Append(migObjects,
                     [marker |-> q.intent, parent |-> q.parent, exact |-> TRUE,
                      rev |-> 1, mine |-> TRUE])
                /\ Answer(q, Len(migObjects) + 1)
        /\ UNCHANGED migRef
  /\ UNCHANGED <<migSaved, migEntry, migParent, migReceipt, migActor, migLock, migPc,
       migSent, migArchive, migCrashes, migOthers>>

RequestLost(q) ==
  /\ migWire' = migWire \ {q}
  /\ UNCHANGED <<migSaved, migEntry, migParent, migReceipt, migActor, migLock, migPc,
       migReply, migSent, migObjects, migRef, migArchive, migCrashes, migOthers>>

\* Another user edits, copies or deletes an object, or pushes to the branch.
OthersChange ==
  /\ migPhase = "saved" /\ migOthers < MaxMigOthers
  /\ migOthers' = migOthers + 1
  /\ \/ /\ \E o \in DOMAIN migObjects :
             LET was == migObjects[o] IN
             /\ MigLive(o)
             /\ \/ migObjects' = [migObjects EXCEPT ![o] =
                     Shows(o, was.marker, FALSE, was.rev + 1, was.mine)]
                \/ migObjects' = [migObjects EXCEPT ![o] =
                     Shows(o, was.marker, was.exact, 0, was.mine)]
                \/ /\ was.mine
                   /\ migObjects' = Append(migObjects,
                        Shows(o, was.marker, was.exact, was.rev, FALSE))
        /\ UNCHANGED migRef
     \/ /\ migRef' = "theirs" /\ migRef # "theirs"
        /\ UNCHANGED migObjects
  /\ UNCHANGED <<migSaved, migEntry, migParent, migReceipt, migActor, migLock, migPc,
       migReply, migWire, migSent, migArchive, migCrashes>>

MigrationNext ==
  \/ ObserveStart \/ ObserveEnd \/ SourceReplaced \/ PrepareMigration
  \/ ApplyStart \/ ApplyPrepare \/ ApplyInflight \/ ApplySend
  \/ ApplyConfirm \/ ApplyFail \/ ApplyReconcile \/ ApplyEnd
  \/ ApplyCrash \/ ClearLock \/ OthersChange
  \/ \E q \in migWire : Deliver(q) \/ RequestLost(q)

\* The operator resumes an unfinished migration and clears a lock that a dead
\* process left; a process that runs takes its next step.
MigrationFairness ==
  /\ WF_migrationVars(ApplyStart) /\ WF_migrationVars(ClearLock)
  /\ WF_migrationVars(ApplyPrepare) /\ WF_migrationVars(ApplyInflight)
  /\ WF_migrationVars(ApplySend) /\ WF_migrationVars(ApplyFail)
  /\ WF_migrationVars(ApplyReconcile) /\ WF_migrationVars(ApplyEnd)

MigrationSpec ==
  MigrationInit /\ [][MigrationNext]_migrationVars /\ MigrationFairness

------------------------------------------------------------------------------
(* Properties.                                                                *)

MigrationTypeOK ==
  /\ migCase \in MigCases
  /\ migPhase \in {"select", "observe", "prepare", "saved"}
  /\ migSourceId \in 1..2 /\ migSeenId \in 0..2
  /\ migAvail \subseteq MigKinds /\ migDecided \subseteq MigItems
  /\ \A j \in DOMAIN migPlan : migPlan[j] \in MigItems \cup {Code}
  /\ migEntry \in [MigItems \cup {Code} -> {"none", "prepared", "inflight", "confirmed"}]
  /\ migActor \in MigActors \cup {NoActor}
  /\ migLock \in BOOLEAN /\ migPc \in {"idle", "run", "send", "wait"}
  /\ \A q \in migWire : q.intent \in MigItems \cup {Code}
  /\ migRef \in {"old", "ours", "theirs"} /\ migArchive \in BOOLEAN
  /\ migCrashes <= MaxMigCrashes /\ migOthers <= MaxMigOthers

\* Over all crashes, lost answers, late deliveries and resumes, a plan's intent
\* is sent to the destination at most once (migration_engine.go:240 "Negative
\* reconciliation never retries").
AtMostOneRequest == \A k \in DOMAIN migSent : migSent[k] <= 1

\* The object a receipt names is the one this migration wrote, whenever that
\* object still stands as written: a copy another user made is never taken for
\* it, so that comments land under the migrated issue.
ConfirmedNamesTheWrite ==
  [][\A k \in DOMAIN migCase.items :
       (migEntry[k] # "confirmed" /\ migEntry'[k] = "confirmed") =>
         \A o \in DOMAIN migObjects :
           (/\ migObjects[o].marker = k /\ migObjects[o].mine
            /\ migObjects[o].exact /\ MigLive(o)) => migReceipt'[k] = o]_migrationVars

\* A branch another user moved is never overwritten, and where the service
\* tests revisions neither is an object another user edited.
OthersWorkKept ==
  [][/\ migRef = "theirs" => migRef' # "ours"
     /\ \A o \in DOMAIN migObjects :
          (/\ migCase.dst \in {"azure", "gitea"}
           /\ migObjects[o].parent = 0 /\ ~migObjects[o].exact)
             => ~migObjects'[o].exact]_migrationVars

\* A finished migration accounts for every source item: it was written, kept as
\* a whole, or the operator decided its finding.
NothingDroppedSilently ==
  (migPhase = "saved" /\ MigDone) =>
    \A k \in MigItems : \/ migEntry[k] = "confirmed"
                       \/ k \in migDecided
                       \/ /\ migCase.dst \in {"local", "archive"}
                          /\ migArchive /\ migKind[k] # "unread"

\* What landed while nobody else touched the destination is confirmed in the
\* end, whatever answers were lost, as long as the operator still resumes.
LandedIsConfirmed ==
  \A k \in 1..3 :
    (k \in MigItems /\ migEntry[k] = "inflight" /\ Cardinality(Matches(k)) = 1 /\ migOthers = 0)
      ~> (migEntry[k] = "confirmed" \/ migOthers > 0)

==============================================================================

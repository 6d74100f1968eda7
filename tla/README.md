# A TLA+ model of Hubnot

Hubnot (`hn`) is a forge without a server. Signed JSON events live in Git refs,
every collaborator has a clone, and `hn sync` exchanges refs through ordinary
Git remotes. Nothing but Git's compare-and-swap of refs and a few files under
`.git/hn` orders what concurrent commands do. This directory models the parts
that carry this design, checks them with TLC on small instances, and proves
the most important results with TLAPS for every instance.

## The system

| Component | State it keeps | Operations | Hard behaviour | Makes it correct |
|---|---|---|---|---|
| **Replication transaction** (`quarantine.go`, `shallow.go`, `replication.go`) | accepted refs `refs/hn/remotes/*`, the object database, pending anchors, receipts, selections | the import half of `hn sync` | six durable writes per transaction, crash at any of them, no lock between two syncs, one selection of several failing | readers refuse objects no completed transaction accepted; accepted refs are backed and closed; a retry recovers |
| **Signed actor log** (`store.go`, `commands.go`, `event.go`) | `refs/hn/actors/<actor>`, the accepted copies of it | compose, append, import, publish | concurrent commands, two clones with one key, restores from backup | no acknowledged event lost, no fork of a known history, what is published is never rewritten |
| **Proposals, policy, decisions, merge** (`proposal.go`, `lineage.go`, `policy.go`, `governance.go`) | proposal, review, result, decision and merge events; candidate code refs; the target branch | open, revise, review, decide, merge and its repair | events arrive between evaluation and effect; a crash between `git merge` and its event | what commands write is what readers accept; the event follows the code; no merge over a standing block |
| **CI and runner** (`ci.go`, `runner*.go`) | run requests, withdrawals, results; watch state | request, execute, withdraw, watch | checks made before a pipeline that runs for minutes | a result is for an eligible request; withdrawals suppress |
| **Automerge** (`automerge.go`) | a prepared `update-ref` transaction, the checkout | evaluate, prepare, commit, read back, roll back, repair | a lost acknowledgement of the commit, a checkout written in part | the branch advances only over a moved checkout, and a checkout left behind is reported |
| **Shallow verification** (`shallow.go`) | boundaries, gap reports | verify, release a boundary | objects that are absent on purpose | absence is classified, never taken for acceptance |
| **Identity, keyring, rotation** (`identity*.go`) | key records, two rotation journals, the active pointer, signed continuity events | create, adopt, authorise, accept, rotate, resume | a crash between any two writes | one successor per rotation; a replaced key is publicly retired; a rerun completes |
| **Memory** (`memory_*.go`) | signed streams, a private index | record, supersede, retract, challenge, recall, rebuild | an index and a paged recall against streams in motion | the pages of one recall are one selection |
| **Artifacts** (`artifact_*.go`) | intents, candidates, revisions, closures, opaque index | create, revise, resolve, fetch, import, push | sign, record and publish in separate steps; imports verified against refs that move | one artifact per operation key; nothing accepted is lost |
| **Contributions** (`contribution_*.go`, `internal/contribution`) | ledger, kept artifacts, contribution refs, retention plans; signed submissions, receipts, decisions | receive, retain, recover, attest; admit, hide, block | retries within a charged budget, records in any order | conflicts never look clean, nothing installed is lost, kept bytes resume; visibility is the greatest fixed point |
| **Migration** (`migration_*.go`, `internal/migration`) | a plan and a sealed journal of prepared, inflight and confirmed entries | observe, plan, apply, resume, reconcile | an answer that is lost, other users at the destination | sent at most once, nothing dropped silently, others' work kept |
| **Issues, discussions, projects, resources** (`issue_*.go`, `resource_*.go`) | projections of signed events | append, replay an operation, project | order of arrival | an operation is one event; expected heads guard edits |
| **Forge interoperability** (`github_*.go`, `resource_transfer.go`) | import intents and journals, export checkpoints | import, export, resume | a request that lands late or never, edits on both sides | copied once; no edit is overwritten that the other side has not seen |
| **Extension host** (`internal/extension`, `extension_*.go`) | registry, enablement epochs, session slots and owners; one session's frames | register, enable, disable, remove, run, call | deadlines against durable effects, draining, hosts that die | a reported end is an end; no effect is hidden by a deadline or an abort |
| **Audits** (`audit_*.go`) | signed audit events | open, execute, follow up | order of arrival | authority of each step |
| **Consumer contract, gh compatibility, release** | formats | print | formatting | outside a model's reach |

The interactions: every command appends through the actor log; `hn sync` runs
the replication transaction per remote and then publishes local refs; every
reader, governance included, loads events through the acceptance journal and
fails as a whole when one event or object is refused.

## Modules

| Module | Models | Uses |
|---|---|---|
| `Replication` | the import half of `hn sync` and the acceptance journal | |
| `MCReplication` | its instances | `Replication` |
| `ReplicationProofs` | theorems | `Replication` |
| `OwnedHistory` | the abstract promise of a signer's history | |
| `ActorLog` | one actor's chain in several clones and the remote | instantiates `OwnedHistory` |
| `MCActorLog`, `ActorLogProofs` | its instances and theorems | `ActorLog` |
| `Governance` | candidates from proposal to merge | |
| `MCGovernance`, `GovernanceProofs` | its instances and theorems | `Governance` |
| `Migration` | `hn migrate`: plan, journal, apply, reconcile | |
| `IdentityRotation` | keyring, continuity events, planned rotation | |
| `ContributionIntake` | the receiver's ledger, conflicts and raw retention | |
| `MCIntake` | offers and local records of the intake runs | `ContributionIntake` |
| `MCResume` | the three journalled commands, one per behaviour | `Migration`, `IdentityRotation`, `MCIntake` |
| `Moderation` | the reduction of contribution records to the governed view | |
| `ArtifactStore` | artifact intents, publication, closures, exchange | |
| `Memory` | memory streams, projection, index, paged recall | |
| `ExtensionHost` | registration, enablement, sessions, disable and remove | |
| `ExtensionRequests` | the threads of one extension session | |
| `ForgeImport` | import of issues and threads | |
| `ForgeExport` | export of issues, discussions and projects | |
| `Automerge` | the leased merge of `hn automerge --execute` | |
| `MCStores` | these eight, one per behaviour | the eight modules |
| `ResumeProofs`, `IntakeProofs` | theorems | `Migration`, `IdentityRotation`, `Automerge`; `ContributionIntake` |
| `StoreProofs` | theorems | `ArtifactStore`, `Moderation`, `Memory` |
| `ExtensionProofs` | theorems | `ExtensionHost`, `ExtensionRequests` |
| `ForgeProofs` | theorems | `ForgeExport`, `ForgeImport` |

`PROJECT.json` maps every definition to its lines. A definition that
`PROJECT.json` names under "mutants" as `as` is a variant of the one that
follows it, with a plausible bug in it; it belongs to no specification and
documents what the property named with it would catch.

`MCResume` and `MCStores` put independent components into one state machine.
A variable `focus`, chosen initially and never changed, says which one moves;
the others keep one initial state. A reachable state is therefore a reachable
state of one component, and an invariant of another component is checked in
the behaviours with that focus.

### Replication

A *history* is an actor's chain, a memory stream or a candidate's code ref. Its
objects are numbered, and its head is how many it has. `refs`, `main`,
`anchored`/`anchors` and `receipts` are what is on disk; `pc` and the other
per-process variables are the locals of one `runReplicationTransaction`. The
actions follow that function in order: `Resolve` (selection and `ls-remote`),
`RepairLoad`/`RepairWrite`, `Fetch`, `Measure`, `Classify`, `Prepare`,
`CreateAnchor`, `RecordValidated`, `CopyObjects`, `Promote`, `RecordComplete`,
`RemoveAnchor`, `ReconcileLoad`/`ReconcileRecord`/`ReconcileRemove`, `Finish`.
Each ends where something durable has happened or where shared state was read,
so that a crash (`Crash`) or another process can come between any two.
`Readable` is `replicationAcceptanceReader`: an incoherent journal denies
everything, and otherwise an object is denied if a validated receipt holds it
back and no complete one accepts it. The quarantine itself has no state here
beyond `required`: it is private to the process and thrown away.

The failure propagation of `quarantine.go`, a loop over selections, is stated
by its result (`Promotable`): the largest set of selections that supply one
another.

### ActorLog

An event id covers the whole chain before it, so the model keeps chains of
stamps and compares those. `NextEvent`, `CheckHead` and `UpdateRef` are where
a command and its `appendEvent` read and write the ref; `Fetch`, `Promote` and
`PublishLocalFacts` are this actor's part of `hn sync`, whose import is one
step of the `Replication` module. `Restore` and `Adopt` are the operator's
side of `docs/recovery.md`. `completed`, `acked` and `seen` in the three
modules are history variables: no action reads them.

### Governance

Every actor has a clone (`facts`, `code`, `target`) and at most one decide or
merge command in progress. A decide or merge is split at each point where it
collects events again, reads the target head or writes; `Sync` and
`PullTarget` may happen at all of them. `Ready`, `Accepted`, `Eligible` and
`Evidence` are `evaluateProposal` and the lineage checks; `ValidRelationship`
is what readers require of the same events. The two are separate code in
`policy.go`, and `EveryViewValid` is about their agreement.

### Migration

A case is a source and a destination adapter with a mapping; `MCResume` picks
ten that use every adapter, the Git companion and both local destinations.
`ObserveStart`/`ObserveEnd` bracket the observation (a source that was replaced
in between is refused), `PrepareMigration` is `NewPlan` with the operator's
decisions. An entry moves from prepared to inflight to confirmed in
`ApplyPrepare`, `ApplyInflight`, `ApplySend` and `ApplyConfirm`, or is
reconciled (`ApplyReconcile`). A request on `migWire` is executed once, later or
never, also after the process that sent it died. `OthersChange` is any other
user of the destination: a copied object, an edit, a moved branch.

### IdentityRotation

The state is exactly what is on disk: the legacy key file, key records, the
active pointer, `rotation-command.json`, `rotation.json` and the signed
events. A command computes the list of its remaining durable writes
(`idTodo`) from what it finds; `RotateWrite` makes the next one and `IdCrash`
ends it between any two. Authorisations and acceptances issued by hand, and a
peer's, may come before, between and after. One of them can stop a rotation for
good: a second authorisation of the very successor by the same key, since
`findOrAppendRotationAuthorization` refuses to choose between two matches.
`RotationCompletes` excepts this case and no other.

### ContributionIntake and Moderation

`ContributionIntake` is the receiver of untrusted artifacts: reserve, verify,
keep bytes, compare with every kept artifact, then per actor plan, write
objects, update the ref and mark complete; the owner's own writes go through
the same ledger. `Recover`, `ReceiveReplay` and `RetryNative` are the repeated
commands. `RetainNative` copies an artifact's native facts before its records are
planned. `Attest` signs a local write's records on the branch it was begun on, and
checks those it signed earlier against the moderation evidence of now (`cxCut`,
`StillLive`) before it installs them. A local write may therefore be refused when
branch or evidence moved, which is one of the ways of being overtaken. A received
artifact may hold any records, also some under the receiver's own key: from
another clone of the same owner, for instance. All the assumption asks is that a
local write's descriptor is no received artifact, which their schemas ensure.

`Moderation` starts where records are installed: `Reduce` is the reduction of a
clone's records (validity, clashes, effective decisions, admission, blocks,
visibility) and the actions are submissions, receipts and decisions signed on
that view, delivery per actor in any order, and changes of the policy that a
governed merge may or may not have ratified. Two records clash when actor and
intent agree, of whatever kind. What an actor may do is what the policy's rule
for the operation says (`MdRules`: named actors, maintainers, automatic
admission), and without a rule nobody may. A decision on a revision requires its
content to be accounted for, by a submission, the baseline or a registration
(`mdRetained`, `RegisterRetained`), and a clone that holds decisions on other
revisions has no view to sign on until it registers them (`RetentionHolds`).

### ArtifactStore

Two processes of one clone and a peer. `Begin`, `Prepare`, `Sign`,
`SaveCandidate`, `CheckSources`, `Publish` and `Confirm` are one mutation,
split at its durable writes; `Retry` and `Replay` repeat it. `Fetch` and
`Import` verify chains alone and within the projected view (`Accept`) and move
refs by expected-old values (`Promote`). `Loads` is what every reader requires
of the whole accepted view.

### Memory

Two terminals of the user, a peer, a backup that may be restored and an index
file that may be rebuilt at any commit. A recall is followed page by page;
each page reads again (`loadMemoryRecallSelection`), and its cursor binds
sources, policy and filters. `memRecall` keeps what matched at the start and at
the end of the traversal to state the property.

### ExtensionHost and ExtensionRequests

`ExtensionHost` has the registry, enablement epochs, slots, owner files and
sessions with a child process and a call in progress; managers enable, disable
and remove, some in the sessions' repository and some outside it. A host may
die with its child alive and a child may not stop. `ExtensionRequests` is one
session: the module's frames, the reader, the main loop, the handler and the
writer are separate steps, and a deadline, an abort, a cancel or the end of the
pipe may come between any two. A handler may fail after its append: the code
returns `admission_pending`, or the error of a later read as `repository_error`,
and the session reports that refusal as it is.

### ForgeImport and ForgeExport

Both sides hold a record with one dependent part. An import saves its intent
or journal before it signs, and resumes it before it reads the source again;
native edits, source edits and the death of the import come anywhere. An
export freezes a snapshot, saves each write as prepared, in flight and
confirmed, and reconciles by the marker that the written text carries. The
provider executes a request late or never, answers get lost, users edit with or
without keeping the marker, and a fresh clone has no checkpoint.

A record that was imported from the forge it is exported to goes back to where
it came from (`fxSource`): its parts are bound by the identity the import signed,
carry no marker, and are first compared with the text that was imported, which
the export may therefore replace. What a closed issue, an answer or a project's
title need last is a step of its own (`Finish`, `fxLate`), and a comment that an
interrupted export had claimed is adopted (`AdoptComment`).

In `ForgeImport` reading an item, its comments and the native listing is one
step. The code makes three reads: a change at the source between the first two
gives a comment of a later moment, which the next import would have brought, and
the listing is taken under the import lock, in pages that end when the log grows
(`StaleListing`).

### Automerge

The child process that holds the target under a prepared transaction, the
checkout moved to the candidate before the commit, and the read-back that
decides whether it stays. Git may commit or refuse, the acknowledgement may be
lost, the child may be killed and the command may die. Each of the two
`read-tree` may be refused with nothing touched, or fail or be killed with part
of the worktree written (`MoveFails`, `RestoreFails`). `amSaid` is how the last
command ended: after the first `read-tree` the code passes on Git's error without
advice, after the second it tells the user to inspect the index.

## Runs

| Run | Instance | Shows |
|---|---|---|
| `replication_serial` | one process, three histories that refer to one another, one malformed event, a code budget, three transactions, two crashes | `TypeOK`, `RefsBacked`, `AcceptedEventsClosed`, `QuietMeansReadable`, `NoUnacceptedReadable`, `SettledNeverRewritten`, `AcceptedNeverRewinds` |
| `replication_recovery` | an explicit selection, two crashes, fairness | `InterruptedSyncRecovers` |
| `replication_compat_all` | as before, with the compatibility-all selection | a counterexample, see below |
| `replication_race` | two processes, no crash | a counterexample, see below |
| `actor_log_exclusive` | one clone with the key and two writers, one reader | `AckedAppendsKept`, `SignedIsPublished`, `ImplementsOwnedHistory` |
| `actor_log_restored` | two clones with the key, two restores, commands of a clone one at a time | `NoKnownFork`, `PublishedOnlyGrows` |
| `governance_evidence` | author, reviewer and runner, maintainer; all evidence required; a failure | `EveryViewValid`, `RecordedAfterCode` |
| `governance_lineage` | two maintainers, one of them the author; revisions; protected checks | `OneMergePerLineage`, `StandingBlockHonoured` |
| `governance_plain_merge` | as before, without protected checks | a counterexample, see below |
| `resume` | migration: ten cases, a crash, another user; rotation: three keys, a crash, two events by hand; intake: three attempts, a conflict, an offer under a wrong selection, a full window, a crash, a move of the branch or the evidence; fairness | the properties of `Migration`, `IdentityRotation` and `ContributionIntake`, below |
| `contribution_retry` | the intake alone, two attempts | a counterexample, see below |
| `stores` | the eight other modules, see *Bounds* | their properties, below |

What `resume` shows:

* `AtMostOneRequest`, `ConfirmedNamesTheWrite`, `LandedIsConfirmed`: whatever
  is lost, late or repeated, an intent is sent once, a receipt names what this
  migration wrote, and what landed gets its receipt. `OthersWorkKept`: a branch
  moved or an object edited by somebody else is not overwritten.
  `NothingDroppedSilently`: a finished migration accounts for every item.
* `RotationIsOne`, `RotationCompletes`, `FormerIsRetired`: an interrupted
  rotation is continued, never doubled; it completes, unless its owner also
  authorised the same successor by hand; and the replaced key shows as retired.
* `NoPendingConflict`, `RetainedNeverLost`, `ResumesUnlessOvertaken`: two
  conflicting records are never both clean among received artifacts, nor among
  local writes (the code does not compare one with the other); installed records
  stay; and kept bytes are installed by a repeated command unless another attempt
  overtook it or, for a local write, branch or evidence moved.

What `stores` shows:

* `VisibleIsGreatest`, `BlockEndsByUnblock`: the propagation in `Reduce` computes
  the greatest set that hides what depends on hidden revisions; a block ends by
  an unblock that comes to count, not by the order of arrival.
* `OneArtifactPerOperation`, `NothingAcceptedLost`: an operation key stands for
  one artifact however it is interrupted and repeated; refs only grow.
* `PagesAreOneSelection`: a recall followed to its end returned one selection.
* `RetiredMeansStopped`: after a reported disable or remove nothing older runs.
  `EffectsAccountedFor`: every durable effect is answered, reported as uncertain
  or reported by the code its handler returned after the append; a deadline, an
  abort or the end of the pipe never hides it. `ConformingNeverAccused`: a module that waits for the whole
  response is never refused for a second request.
* `IssueCopiedOnce`, `NativeEditsKept`: an import neither doubles an issue nor
  replaces a native edit. `UserEditsKept`: an export never overwrites what a
  user had typed before it last looked, unless the native record has that text
  from an import.
* `CheckoutFollowsBranch`: the branch advances only over a checkout that was
  moved as a whole, and where a command left the branch at its base with another
  tree checked out, it died or reported so. A command that says only that the
  target was not advanced has put the checkout back.

**Bounds.** Two objects per history are the least for which a history can
grow after it was accepted, and for which an old head differs from a new one.
Three transactions are an interrupted one, one that fails or reconciles, and
one that finishes; two processes are what it takes for every race found.
Three events of an actor let two writers collide and one of them go on.
Three events of a maintainer are room for a decision and two merges; a
lineage of a candidate and its revisions is opened once because lineages do
not interact. `Publish` and `Crash` leave a transaction id unused, since a
retry that is stopped only by the bound on ids would say nothing about the
code. A journalled command needs one death and one repetition; one change by
somebody else is enough to come between any two of its steps. Three keys are
two rotations in a row; three attempts are two that conflict and a third that
meets both. In `stores`: a topic, a reply and an edit that cites it, two
decisions and a policy change, and in behaviours of their own (focus "arrival")
three decisions about one actor that reach a third clone in any order, so that
an unblock may be held there before the block it answers; three artifact operations of two actors, one of
them asked for in two ways; three memories, one of which cites an event that
arrives later; two sessions and two managers, with an edit of the enablement
(the first is made initially) and a fault; two requests and three frames; two
edits at the forge and one or two here.

`MCResume` and `MCStores` cut a few products of independent events, each named
by a comment in their `MCNext`: a third attempt is not combined with a move of
the branch or the evidence, a second rotation not with a second event by hand, a second
decision not with a ratified policy change, a registration of retained records
not with a policy change, a type published by the peer not
with a crash or a resolution here, two appends at once not with a restored
backup, an edit of the enablement not with a second registration and with a
fault only beside one session, a fourth edit not with an imported or late-finished
record of the export. Each event is in the run without the other.

**Deadlock** is not checked where the bounds stop everything in the end
(`Replication`, `Governance`, `MCResume`, `MCStores`); `ActorLog` syncs for
ever and is checked.

**Fairness.** A sync that was started goes on unless it dies (it runs in one
thread and waits for no other process), and someone retries: an operator, or
`hn runner watch`, which syncs periodically. A migration, rotation or intake
that was started goes on in its one thread, and its operator repeats the
command, as the documentation tells them to after an interruption; for the
intake strongly fair, since another command may hold the lock each time.
Clearing a stale lock is the operator's too. The destination of a migration is
not assumed to execute any request. Deaths are bounded. No fairness
is assumed of commands that sign, of publication by others, or of the
environment.

## Findings

1. **A settled receipt can be rewritten** (`replication_race`).
   `repairAnchoredReplicationReceiptsForRecovery` lists anchors and then
   rewrites their receipts, without a lock. If another sync completes one of
   these transactions in between, its receipt becomes "validated" with no
   anchor: an incoherent journal, that readers refuse as a whole. The comment at
   `quarantine.go:1816` relies on the opposite. `FailClosed` below says that
   safety survives this.
2. **Compatibility-all never recovers** (`replication_compat_all`). The
   exemption for accepted chains that a retry is about to replace covers only
   actors the selection names, and this selection names none.
   `docs/replication-v0.md:125` promises that a retry reconciles. The
   `--recover-shallow` retry the error message names refuses a repository that
   is not shallow; saving an explicit selection first is a way out.
3. **An ordinary merge does not reload** (`governance_plain_merge`).
   `governance.go:267` reloads only for protected checks or automerge;
   `docs/governance-v0.md:198` says it always does.
4. **Kept bytes do not always resume** (`contribution_retry`). An attempt is
   compared with every recorded attempt whose artifact file exists, each read
   under its own ref selection, and the file is named by its digest alone. If the
   same bytes are offered again under another selection, that attempt fails and
   stays recorded, and its unreadable entry then refuses every retry of the
   first. `docs/contributions.md:277` says that valid retained bytes resume.
   `ResumesUnlessOvertaken` states what remains true.

## What is proved

Every theorem holds for every value of the constants that satisfies its module's
`ASSUME`, so for any number of remotes, processes, clones, actors, requests and
crashes. Hypotheses beyond those are written out in the statements: `OneProcess`
and `Reloads` where findings 1 and 3 show that the property fails otherwise, and
`Serial` or `Exclusive` where the code itself promises no more.

**Replication** (`ReplicationProofs`)

* `TypeCorrect`: `Spec => []TypeOK`.
* `FailClosed`: `Spec => []NoUnacceptedReadable`. The property says nothing about
  objects that are on their way, so it is not inductive. The strengthening is
  `IInv`: an object that is in `main` and that no completed transaction required
  is held back by an anchor on disk (`ResidueAnchored`); a complete receipt
  accepts completed objects only (`ReceiptsSound`); an id belongs to one
  transaction and is unused until its anchor exists (`IdsExclusive`); and each
  process knows enough of its own transaction at each step (`LocalsSound`). It
  holds although `SettledNeverRewritten` does not: a rewritten receipt only
  denies more.
* `RefsAlwaysBacked`: `[]RefsBacked`, with any number of processes. A ref is
  promoted from the graph that was selected, so the invariant is that the
  selected graph is within what was required and copied (`GraphsRequired`).
* `SettledKept`, `NeverRewinds`, `QuietReadable`: with one process
  `SettledNeverRewritten`, `AcceptedNeverRewinds` and `[]QuietMeansReadable`.
  `SerialInv` adds to `IInv` that a validated receipt has its anchor and that the
  anchors a process is working through are still there (`JournalKept`), and that
  a head it was shown is not behind the ref it will replace (`HeadsAhead`).
* `EventsClosed`: `[]AcceptedEventsClosed`, given also that the clone's own
  events refer to its own events (`LocalClosed`, what composing an event
  checks). The invariant is that every reference of a selected history is
  supplied by the selection or by what was accepted before
  (`SelectionSupplied`).

**Actor log** (`ActorLogProofs`)

* `AppendsKept`: acknowledged appends stay in the log, however many commands and
  syncs race.
* `KnownHistoryNotForked`: `NoKnownFork` for `Serial = TRUE`. `ForkInv` adds that
  one command runs in a clone (`OneCommand`), and that what a writer has checked
  and what a sync has fetched therefore still agree with the clone's log when
  they are used (`RootsHeld`).
* `ExclusiveSignerRefines`: with one clone holding the key (and no restores),
  `Spec` implements `OwnedHistory!Spec`. `OwnedInv` says that everything outside
  the owner's clone is a prefix of its log.
* `PublishedKept`: `PublishedOnlyGrows` with any number of clones, restores and
  overlapping commands.

**Governance** (`GovernanceProofs`)

* `CodeBeforeRecord`: `[]RecordedAfterCode`. `CodeInv` adds that a command which
  is past the commit, or repairs one, has its candidate in the target branch
  (`PastCode`).
* `ViewsValid`: `[]EveryViewValid`, for any actors and policy. A command checks
  one view and signs into a later one, so `ViewInv` says what of its check is
  still true then (`CommandsSound`), and that all a clone knows of an actor is in
  that actor's own clone, numbered once (`SignedOnce`).
* `LineagesMergedOnce`: `[]OneMergePerLineage`. Eligibility is evaluated in one
  view and the merge is signed into a later one. `LineageInv` adds to `ViewInv`
  that a maintainer's merges, with the candidate it is merging, are of different
  lineages (`MergesApart`). It survives the growth of a view because the root of
  a candidate is the same in every view that holds the candidate (`RootStable`),
  which `Ancestry`, the least set closed under predecessors, gives without
  recursion.
* `ReloadHonoursBlocks`: `StandingBlockHonoured` where merge reloads (`Reloads`,
  the code's condition; finding 3 is about the other case). `ClearedInv` says
  that what stood against a candidate when merge inspected its target is still in
  its view, and that none of it stands once it has evaluated again; a larger view
  never revives a decision of a smaller one (`BlocksShrink`).

**Journalled commands** (`ResumeProofs`, `IntakeProofs`)

* `OneRequest`, `NothingDropped`, `ReceiptNamesTheWrite`, `OthersKept`:
  `[]AtMostOneRequest`, `[]NothingDroppedSilently`, `ConfirmedNamesTheWrite` and
  `OthersWorkKept`, for every set of cases `MigrationAssumption` describes.
  `MigInv` ties the three places a request can be to one another: only an entry
  saved as inflight has been sent (`SentOnce`), a request on the wire is the one
  its entry bound and nothing came of it yet (`WireBound`), what the migration
  wrote is what it sent and one object for an intent (`MineSent`), and an answer
  names that object (`AnswerNames`).
* `RotatesOnce`, `FormerShown`: `[]RotationIsOne` and `[]FormerIsRetired`, for any
  number of keys, deaths, reruns and events of others. `IdInv` says that both
  journals and the running command tell of one rotation, from the active key to a
  key the pointer never had (`JournalsAgree`, `Rotates`); that the remaining
  writes keep their order, rotation.json before the authorisation, that before
  its acceptance, the pointer before either journal goes (`Ordered`); and that an
  authorisation a rotation signed is of a key already left or of the rotation a
  journal names (`OwnRecorded`), so a rerun finds it and signs no second one.
* `RefsOnlyExtend`: `RetainedNeverLost`. `RetainInv` says that a durable plan's
  head adds to the history it was made for and keeps its records (`PlansExtend`),
  and that its objects are written before the ref moves (`HeadWritten`).
* `PendingAgree`: `[]NoPendingConflict`. `ConflictInv` says that the marks an
  attempt took before its bytes were kept name every pending attempt it conflicts
  with until it settles (`MarksComplete`), which needs pending attempts to keep
  their bytes (`PendingKept`) and intents to be unique (`IntentsUnique`). Nothing
  is assumed of who signed the records of a received artifact.

**Stores** (`StoreProofs`, `ExtensionProofs`, `ResumeProofs`)

* `KeyStandsForOne`: `[]OneArtifactPerOperation`. The property names answers and
  one ref; it holds because of the whole exchange. `OnceInv` says that every copy
  of an actor's chain, here, at the peer, in a bundle or in a running transfer,
  is a beginning of what the actor signed (`OneSource`); that actor and key
  determine an artifact (`Keyed`); that the accepted view and every transfer
  about to be promoted are closed under dependencies and lineage rules
  (`ViewsClosed`), which survives because the rules of an artifact depend only on
  what it names, not on how much more is held (`LineageSame`); that a private
  intent and what stands under its key agree (`IntentsOK`); and what a mutation
  knows at each of its steps (`MutationsOK`).
* `NothingLost`: `NothingAcceptedLost`. `GrowInv` says that a transfer extends
  what it read at its destination (`TakesExtend`), which the leases compare
  again, and that the index is merged by one process at a time (`IndexHeld`).
* `ShownIsGreatest`: `[]VisibleIsGreatest`, for every finite set of revisions and
  every set of records. The work list reaches its fixed point within as many
  rounds as there are admitted revisions, since a round that changes anything
  hides one more (`SpreadSettles`).
* `UnblockEndsBlock`: `BlockEndsByUnblock`. The first attempt failed for a good
  reason: an unblock can be held by a clone while a decision it is built on is
  missing, and counts once that arrives, so a block may end in a step that brings
  no unblock. The property now speaks of unblocks that start to count, and the
  focus "arrival" has the case. The argument is that what counts among fewer
  records counts among more (`CountingKept`) unless a new clash of intents
  arises, and that a head disappears only under a decision built on it.
* `OneSelection`: `[]PagesAreOneSelection`, for any number of memories, pages,
  policies and requests. A cursor names the last row and the fingerprint of the
  sources. `MemoryInv` says that between two pages a traversal has returned only
  rows it has passed, and all it has passed of what matched when it began
  (`Passed`), in the order of the sources its digest names. That order does not
  change while memories are signed (`MatchesKept`), an accepted event only adds
  rows (`MatchesGrow`), and any other change of the sources changes the digest,
  so that the cursor refuses. The pages are stated by the row each ends with, not
  by sorting: what a sort computes would be induction over data.
* `EffectsAccounted`, `ConformingSafe`: `[]EffectsAccountedFor` and
  `[]ConformingNeverAccused` for any number of frames and requests. `EffectInv`
  says what threads may be doing at each place of the main loop, that at most
  one effect is unsettled and that it is the current request's; `QueueInv` and `ConformInv` say what the pipe, the
  reader and the channel hold of a module that waits.
* `RetiredStopped`: `[]RetiredMeansStopped` for any number of sessions, managers,
  slots, edits and faults. `HostInv` says that a session from its owner record on
  holds its slot or is marked (`SlotsHeld`, `OwnersWritten`), that epochs grow,
  and that a manager's pass over the slots leaves no older session behind it
  (`PassMissesNone`, `OlderAreGone`, `RevokedStays`).
* `CheckoutKept`: `[]CheckoutFollowsBranch`, with `read-tree` failing in part in
  either direction. `AmInv` says where the checkout is while the transaction is
  held and while its outcome is unknown.

**Forge** (`ForgeProofs`)

* `ForgeTextKept`: `[]UserEditsKept`, for records that go to a new place and for
  those that go back to their source. Texts are numbered so that those the native
  record had (its revisions, the imported one among them, and the interim state)
  come before `FirstUser`; `ExportInv` says that the baseline of every checkpoint, pending
  intent and request on the wire is such a text (`CheckpointOK`, `ProcOK`), which
  needs that ids of tickets are given out once (`TicketsOK`) and that the steps
  left in a plan create what is unbound, root first, and update what is bound
  (`PlanOK`).
* `IssueImportedOnce`, `IssueEditsKept`: `[]IssueCopiedOnce` and
  `[]NativeEditsKept` of imports of issues. `IssueInv` says that an operation key
  was signed once and a source claimed once (`IssueLogOK`); that a saved intent
  which opens an issue is the only one that may claim it (`IntentOK`), for which
  one file for all selections is essential; and that a listing in the hands of a
  command has every claim, since only the command with the lock opens issues
  (`IssueProcOK`).
* `ThreadEditsKept`: `[]NativeEditsKept` of imports of discussions, whose plan has
  several steps and is resumed in a later log. `ThreadInv` says that a step of a
  saved plan replaces imported content or writes what is there already
  (`PlannedStepOK`), that a preview stands for an earlier step and each finished
  step is bound to an event with imported content (`JournalOK`), and that what is
  about to be signed keeps the edits of its parents (`SignOK`): the parents named
  by the plan are compared again as heads before the signature.

**Only model-checked.** The liveness properties (`InterruptedSyncRecovers`,
`SignedIsPublished`, `LandedIsConfirmed`, `RotationCompletes`,
`ResumesUnlessOvertaken`): the prover has neither fairness nor `ENABLED`. Every
invariant and action property of a passing run is also a theorem.
The library's induction theorems take an operator and cannot be used here; where
a proof needs induction over numbers it goes through a least counterexample
(`LeastNumber`, `UpTo`), which well-foundedness of the numbers gives.

## Known limits

* `AcceptedNeverRewinds` and `SettledNeverRewritten` are for one sync at a
  time. With two, an older advertisement can be promoted over a newer one: the
  expected old value is read after the remote was listed.
* `NoKnownFork` is for commands that do not overlap with a sync in their clone.
  `docs/recovery.md` calls the check a local guard.
* Remotes are assumed to grow only; a remote that is rewound is not modelled.
* `Replication` leaves out receipts of version 1, memory checkpoints and the
  release of shallow boundaries. An error after promotion is `Crash`.
* `Governance` has one base policy: no amendments, no protected paths that a
  candidate changes, no automerge. Comparing the target head and `git merge`
  are one step. The heads of candidates are unrelated, so that merging one
  never brings in another. A run's request and result are one event.
* Signatures, canonical encodings and object formats are taken as sound: an
  event is what its signer wrote or it is malformed.

* `NoUnacceptedReadable` is checked with one sync at a time and proved for any
  number of them.
* One `hn identity rotate` runs at a time; the code has no lock between two.
* `Migration` has the adapters' abilities, not their requests: paging, rate
  limits and field formats are left out. Where a service does not test
  revisions, `OthersWorkKept` promises only the branch.
* `ContributionIntake` counts requests; the other budgets of a reservation are
  reserved alike and left out. A received record under an intent of a local write
  is not looked for, in the code as in the model: `NoPendingConflict` compares
  received attempts with received ones and local with local. In `Moderation` decisions delete only their direct
  parents from the heads, as the code does.
* `Memory`: an event that arrives between two pages may resolve a citation of a
  row before the cursor; that row is then not returned. The cursor does not bind
  events, and the property speaks of what matched from the start to the end.
* `ExtensionHost` has one module and one repository of sessions. After a host
  died with its child alive, its slot refuses new sessions until somebody
  cleans up, in the code as in the model.
* `ConformingNeverAccused` is about the refusal of a second request. The code
  reports a host response that fails its own inspection under the same name,
  `invalid_input`; the model calls that `invalid_response`.
* `ForgeExport`: an edit made between the last look and the landing of a request
  can be lost, as with any service without conditional writes. Two clones that
  export the same record at the same time are not modelled, and neither is a
  second import between two exports, which would make later text of the forge
  native. A part is one text: a status or an answer, fields of their own at the
  forge, share it. A board that is not the source is chosen by its owner, and
  counts as one that is not in `fxSource`.
* `Automerge`: the lock file a killed `git update-ref` leaves is the user's to
  remove. After the first `read-tree` failed in part the user has Git's error and
  a branch at its base; the code gives no advice. A branch that a third party
  moved after the commit is reported and its checkout is left.

## Not modelled

* **Audits**, **CI requests, withdrawals and the watch loop**: commands over
  signed events that use the append protocol of `ActorLog`; what is hard in them
  is the external pipeline.
* **Shallow verification**: it classifies absent objects by walking the Git
  object graph; its result is an input of `Replication`.
* **Workflows, labels, milestones and listings** of the forge-like commands, the
  HTTP clients and **`gh` compatibility**, the **consumer contract** and
  **release packaging**: formats, paging and printing.
* **The extensions in `examples/`**: programs on the other side of the extension
  protocol; `ExtensionRequests` lets the module send anything.

## Plan

1. CI requests and withdrawals beside `Governance`: a withdrawal and a duplicate
   result are checked on events loaded before a pipeline that may run for
   minutes.
2. A second `hn identity rotate` in the same clone, and a sync between the check
   of a signing root and the update of the ref: both are listed as hazards
   without a property, because the code takes no lock there and promises nothing.

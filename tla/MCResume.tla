---------------------------- MODULE MCResume ----------------------------
(***************************************************************************)
(* The commands that resume from their own journals: project migration,    *)
(* identity rotation and contribution intake.  One component moves in each *)
(* behaviour (focus); the others keep their initial state, so that a state *)
(* of the run is a state of one component.                                 *)
(***************************************************************************)
EXTENDS Migration, IdentityRotation, MCIntake

VARIABLE focus

MCTargets(n) == [k \in 1..3 |-> IF k \in n THEN k ELSE 0]

\* An issue, a comment on it and a pull request.
MCItems(fits, oversized) ==
  [k \in 1..3 |->
    [kind |-> CASE k = 1 -> "issue" [] k = 2 -> "comment" [] k = 3 -> "change_request",
     parent |-> IF k = 2 THEN 1 ELSE 0,
     fits |-> fits, oversized |-> oversized]]

MCSel(state, type, names, n) ==
  [state |-> state, type |-> type, names |-> names,
   target |-> MCTargets(n), existing |-> IF n = {} THEN 0 ELSE 2]

MCCase(src, dst, sel, items) == [src |-> src, dst |-> dst, sel |-> sel, items |-> items]
MCPlain == MCItems(TRUE, FALSE)

MCMigCases == {
  MCCase("github", "forgejo", MCSel(Unmapped, Unmapped, "mapped", {1}), MCPlain),
  MCCase("forgejo", "github", MCSel(Unmapped, Unmapped, "mapped", {}), MCPlain),
  MCCase("azure", "gitlab", MCSel("opened", "issue", "omitted", {}), MCPlain),
  MCCase("gitlab", "azure", MCSel("Active", "Task", "omitted", {1}), MCPlain),
  MCCase("github", "bitbucket", MCSel(Unmapped, Unmapped, "mapped", {}), MCPlain),
  MCCase("bitbucket", "local", MCSel(Unmapped, Unmapped, Unmapped, {}), MCPlain),
  MCCase("azure", "archive", MCSel(Unmapped, Unmapped, Unmapped, {}), MCItems(TRUE, TRUE)),
  MCCase("forgejo", "gitea", MCSel(Unmapped, Unmapped, "absent", {1}), MCPlain),
  MCCase("github", "gitea", MCSel(Unmapped, Unmapped, "mapped", {1, 2}), MCPlain),
  MCCase("gitlab", "github", MCSel(Unmapped, Unmapped, "mapped", {}), MCItems(FALSE, FALSE)) }

-----------------------------------------------------------------------------
MCVars == <<focus, migrationVars, identityVars, contributionVars>>

MCInit ==
  /\ focus \in {"migration", "identity", "intake"}
  /\ MigrationInit /\ IdentityInit /\ ContributionInit
  \* one initial state of a component that does not move
  /\ focus # "migration" => migCase = (CHOOSE c \in MigCases : TRUE) /\ migAvail = MigKinds
  /\ focus # "identity" => idLegacy = NoKey
MCNext ==
  /\ UNCHANGED focus
  /\ \/ focus = "migration" /\ MigrationNext /\ UNCHANGED <<identityVars, contributionVars>>
     \/ /\ focus = "identity" /\ IdentityNext /\ UNCHANGED <<migrationVars, contributionVars>>
        \* a second rotation, or a second identity event by hand
        /\ idKeys' <= 2 \/ idManual' <= 1
     \/ /\ focus = "intake" /\ ContributionNext /\ UNCHANGED <<migrationVars, identityVars>>
        \* a third attempt, or a move of the governance branch or of the evidence
        /\ Len(cxAttempts') <= 2 \/ (cxBranch' = 0 /\ cxCut'.heads = 0)

MCMigrationFairness ==
  /\ WF_migrationVars(focus = "migration" /\ ApplyStart)
  /\ WF_migrationVars(focus = "migration" /\ ClearLock)
  /\ WF_migrationVars(focus = "migration" /\ ApplyPrepare)
  /\ WF_migrationVars(focus = "migration" /\ ApplyInflight)
  /\ WF_migrationVars(focus = "migration" /\ ApplySend)
  /\ WF_migrationVars(focus = "migration" /\ ApplyFail)
  /\ WF_migrationVars(focus = "migration" /\ ApplyReconcile)
  /\ WF_migrationVars(focus = "migration" /\ ApplyEnd)
MCIdentityFairness ==
  /\ WF_identityVars(focus = "identity" /\ RotateWrite)
  /\ WF_identityVars(focus = "identity" /\ RerunRotation)
MCIntakeFairness ==
  /\ WF_contributionVars(focus = "intake" /\ ReceiveSteps)
  /\ WF_contributionVars(focus = "intake" /\ RetainSteps)
  /\ WF_contributionVars(focus = "intake" /\ LocalSteps)
  /\ \A i \in 1..CxRetainedMax : SF_contributionVars(focus = "intake" /\ Repeat(i))

MCSpec == /\ MCInit /\ [][MCNext]_MCVars
          /\ MCMigrationFairness /\ MCIdentityFairness /\ MCIntakeFairness
=============================================================================

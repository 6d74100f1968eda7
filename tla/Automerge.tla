------------------------------ MODULE Automerge ------------------------------
(***************************************************************************)
(* `hn automerge --execute` (automerge.go, with the common merge path of   *)
(* governance.go).  A child `git update-ref --stdin` holds the target      *)
(* branch under a prepared expected-old transaction while the command      *)
(* evaluates the evidence again and moves the checkout to the candidate;   *)
(* then the transaction is committed, the branch is read back, and the     *)
(* checkout is kept or restored.                                           *)
(*                                                                         *)
(* The branch is at "base", at the prepared "merge", or moved by another   *)
(* writer ("theirs", "onTop"); the checkout shows the tree of one of these *)
(* or, after a `git read-tree` that failed or was killed at 30 seconds, is *)
(* partly written ("mixed").  A user edit stands for any local change of a *)
(* path that the candidate changes, evidence for the whole evaluation.     *)
(***************************************************************************)
EXTENDS Naturals

CONSTANTS
  MaxAmChanges,  \* bound: edits, evidence changes and writes of others
  MaxAmFaults    \* bound: lost acknowledgements, failed commands, deaths

ASSUME AutomergeAssumption == {MaxAmChanges, MaxAmFaults} \subseteq Nat

VARIABLES
  amBranch,   \* the target branch
  amTree,     \* the tree in the index and the tracked files
  amEdit,     \* the user has changed a path of the candidate
  amReady,    \* the current evidence allows the merge
  amGit,      \* the update-ref child: "none", "prepared", "committing", "gone"
  amLock,     \* the branch is locked, by the child or by a lock file it left
  amPc,       \* where the command is
  amSaid,     \* how the last command ended, when that concerns the checkout:
              \* "gitFailed" (read-tree's own error), "inspect" (advice to look),
              \* "uncertain", "notAdvanced", "died"; else "nothing"
  amFact,     \* the signed merge fact is recorded
  amCounts    \* [changes, faults]

automergeVars == <<amBranch, amTree, amEdit, amReady, amGit, amLock, amPc, amSaid, amFact, amCounts>>

AutomergeInit ==
  /\ amBranch = "base" /\ amTree = "base" /\ amEdit = FALSE /\ amReady \in BOOLEAN
  /\ amGit = "none" /\ amLock = FALSE /\ amPc = "idle" /\ amSaid = "nothing" /\ amFact = FALSE
  /\ amCounts = [changes |-> 0, faults |-> 0]

-----------------------------------------------------------------------------
(* What is read. *)

TreeOf(branch) == IF branch = "merge" THEN "cand" ELSE branch
CleanCheckout  == amTree = TreeOf(amBranch) /\ ~amEdit
Eligible       == amReady /\ amBranch = "base" /\ CleanCheckout /\ ~amFact
ReadEarly      == TRUE
\* The child has exited, by itself or killed, before the branch is read.
Exited         == amGit = "gone"

FaultLeft   == amCounts.faults < MaxAmFaults
CountFault  == amCounts' = [amCounts EXCEPT !.faults = @ + 1]
ChangeLeft  == amCounts.changes < MaxAmChanges
CountChange == amCounts' = [amCounts EXCEPT !.changes = @ + 1]
AmGoto(pc)  == amPc' = pc

-----------------------------------------------------------------------------
(* The command. *)

BeginAutomerge ==
  /\ amPc = "idle" /\ Eligible
  /\ AmGoto("built") /\ amSaid' = "nothing"
  /\ UNCHANGED <<amBranch, amTree, amEdit, amReady, amGit, amLock, amFact, amCounts>>
PrepareLease ==
  /\ amPc = "built"
  /\ IF amBranch = "base" /\ ~amLock
     THEN amGit' = "prepared" /\ amLock' = TRUE /\ AmGoto("leased")
     ELSE AmGoto("idle") /\ UNCHANGED <<amGit, amLock>>
  /\ UNCHANGED <<amBranch, amTree, amEdit, amReady, amSaid, amFact, amCounts>>
\* Evidence, target and checkout are evaluated again while the lease is held.
CheckLeased ==
  /\ amPc = "leased"
  /\ AmGoto(IF Eligible THEN "checked" ELSE "abort")
  /\ UNCHANGED <<amBranch, amTree, amEdit, amReady, amGit, amLock, amSaid, amFact, amCounts>>
MoveCheckout ==
  /\ amPc = "checked" /\ ~amEdit
  /\ AmGoto("moved") /\ amTree' = "cand"
  /\ UNCHANGED <<amBranch, amEdit, amReady, amGit, amLock, amSaid, amFact, amCounts>>
\* The two-way read-tree refuses to touch a path with a local change, or fails
\* or is killed with nothing, a part or all of it written: its error is
\* returned, nothing is restored, and the deferred close gives up the lease.
MoveRefused ==
  /\ amPc = "checked" /\ amEdit
  /\ AmGoto("abort") /\ amSaid' = "gitFailed"
  /\ UNCHANGED <<amBranch, amTree, amEdit, amReady, amGit, amLock, amFact, amCounts>>
MoveFails ==
  /\ amPc = "checked" /\ ~amEdit /\ FaultLeft /\ CountFault
  /\ amTree' \in {"base", "mixed", "cand"}
  /\ AmGoto("abort") /\ amSaid' = "gitFailed"
  /\ UNCHANGED <<amBranch, amEdit, amReady, amGit, amLock, amFact>>
SendCommit ==
  /\ amPc = "moved"
  /\ amGit' = "committing" /\ AmGoto("waiting")
  /\ UNCHANGED <<amBranch, amTree, amEdit, amReady, amLock, amSaid, amFact, amCounts>>
ReadBack ==
  /\ amPc = "waiting" /\ Exited
  /\ AmGoto(CASE amBranch = "merge" -> "record" [] amBranch = "base" -> "restore" [] OTHER -> "idle")
  /\ amSaid' = IF amBranch \in {"merge", "base"} THEN amSaid ELSE "notAdvanced"
  /\ UNCHANGED <<amBranch, amTree, amEdit, amReady, amGit, amLock, amFact, amCounts>>
\* The branch cannot be read: the user is told that the outcome is uncertain.
ReadBackFails ==
  /\ amPc = "waiting" /\ Exited /\ FaultLeft /\ CountFault
  /\ AmGoto("idle") /\ amSaid' = "uncertain"
  /\ UNCHANGED <<amBranch, amTree, amEdit, amReady, amGit, amLock, amFact>>
Restore ==
  /\ amPc = "restore" /\ ~amEdit
  /\ amTree' = "base" /\ amSaid' = "notAdvanced" /\ AmGoto("idle")
  /\ UNCHANGED <<amBranch, amEdit, amReady, amGit, amLock, amFact, amCounts>>
\* The second read-tree meets a local change, or fails partway.
RestoreRefused ==
  /\ amPc = "restore" /\ amEdit
  /\ amSaid' = "inspect" /\ AmGoto("idle")
  /\ UNCHANGED <<amBranch, amTree, amEdit, amReady, amGit, amLock, amFact, amCounts>>
RestoreFails ==
  /\ amPc = "restore" /\ ~amEdit /\ FaultLeft /\ CountFault
  /\ amTree' \in {"base", "mixed", "cand"}
  /\ amSaid' = "inspect" /\ AmGoto("idle")
  /\ UNCHANGED <<amBranch, amEdit, amReady, amGit, amLock, amFact>>
RecordMerge ==
  /\ amPc = "record"
  /\ amFact' = TRUE /\ AmGoto("idle")
  /\ UNCHANGED <<amBranch, amTree, amEdit, amReady, amGit, amLock, amSaid, amCounts>>
\* The code is merged and the append of its fact fails: `hn merge` repairs it.
RecordFails ==
  /\ amPc = "record" /\ FaultLeft /\ CountFault
  /\ AmGoto("idle")
  /\ UNCHANGED <<amBranch, amTree, amEdit, amReady, amGit, amLock, amSaid, amFact>>
AbortLease ==
  /\ amPc = "abort"
  /\ amGit' = "gone" /\ amLock' = FALSE /\ AmGoto("idle")
  /\ UNCHANGED <<amBranch, amTree, amEdit, amReady, amSaid, amFact, amCounts>>
\* `hn merge` records the missing fact of a merge that is in the target.
RepairFact ==
  /\ amPc = "idle" /\ amBranch \in {"merge", "onTop"} /\ ~amFact /\ amReady /\ CleanCheckout
  /\ amFact' = TRUE
  /\ UNCHANGED <<amBranch, amTree, amEdit, amReady, amGit, amLock, amPc, amSaid, amCounts>>

-----------------------------------------------------------------------------
(* The update-ref child, and what goes wrong. *)

GitCommits ==
  /\ amGit = "committing"
  /\ amBranch' = "merge" /\ amLock' = FALSE /\ amGit' = "gone"
  /\ UNCHANGED <<amTree, amEdit, amReady, amPc, amSaid, amFact, amCounts>>
\* A hook or an I/O error makes the child give the transaction up.
GitRefuses ==
  /\ amGit = "committing" /\ FaultLeft /\ CountFault
  /\ amLock' = FALSE /\ amGit' = "gone"
  /\ UNCHANGED <<amBranch, amTree, amEdit, amReady, amPc, amSaid, amFact>>
\* After a timed-out acknowledgement the child is killed, perhaps with its lock.
KillChild ==
  /\ amPc \in {"waiting", "abort"} /\ amGit \in {"committing", "prepared"} /\ FaultLeft /\ CountFault
  /\ amGit' = "gone" /\ AmGoto(IF amPc = "abort" THEN "idle" ELSE amPc)
  /\ UNCHANGED <<amBranch, amTree, amEdit, amReady, amLock, amSaid, amFact>>
\* hn dies: a prepared child sees the end of its input and aborts.
HnDies ==
  /\ amPc # "idle" /\ FaultLeft /\ CountFault
  /\ AmGoto("idle") /\ amSaid' = "died"
  /\ amGit' = IF amGit = "prepared" THEN "gone" ELSE amGit
  /\ amLock' = (amLock /\ amGit # "prepared")
  /\ UNCHANGED <<amBranch, amTree, amEdit, amReady, amFact>>

UserEdits ==
  /\ ChangeLeft /\ CountChange /\ ~amEdit /\ amEdit' = TRUE
  /\ UNCHANGED <<amBranch, amTree, amReady, amGit, amLock, amPc, amSaid, amFact>>
EvidenceChanges ==
  /\ ChangeLeft /\ CountChange /\ amReady' = ~amReady
  /\ UNCHANGED <<amBranch, amTree, amEdit, amGit, amLock, amPc, amSaid, amFact>>
OtherWriter ==
  /\ ChangeLeft /\ CountChange /\ ~amLock /\ amBranch \in {"base", "merge"}
  /\ amBranch' = IF amBranch = "base" THEN "theirs" ELSE "onTop"
  /\ UNCHANGED <<amTree, amEdit, amReady, amGit, amLock, amPc, amSaid, amFact>>
\* The user follows the advice: keeps the edit elsewhere and resets the checkout.
UserTidies ==
  /\ amPc = "idle" /\ amGit # "committing" /\ (amLock \/ ~CleanCheckout)
  /\ amEdit' = FALSE /\ amTree' = TreeOf(amBranch) /\ amLock' = FALSE /\ amSaid' = "nothing"
  /\ UNCHANGED <<amBranch, amReady, amGit, amPc, amFact, amCounts>>

AutomergeNext ==
  \/ BeginAutomerge \/ PrepareLease \/ CheckLeased \/ MoveCheckout \/ MoveRefused \/ MoveFails
  \/ SendCommit \/ ReadBack \/ ReadBackFails \/ Restore \/ RestoreRefused \/ RestoreFails
  \/ RecordMerge \/ RecordFails \/ AbortLease \/ RepairFact
  \/ GitCommits \/ GitRefuses \/ KillChild \/ HnDies
  \/ UserEdits \/ EvidenceChanges \/ OtherWriter \/ UserTidies

AutomergeSpec == AutomergeInit /\ [][AutomergeNext]_automergeVars

-----------------------------------------------------------------------------
(* Properties. *)

\* The branch is advanced to the prepared merge only over a checkout that was
\* wholly moved to the candidate, whatever becomes of the acknowledgement, the
\* child or hn; and when the branch stayed at the base with anything else
\* checked out, the command that left it so died, or reported the failure of
\* read-tree, an uncertain outcome or a checkout to inspect: a command that
\* says only that the target was not advanced has put the checkout back
\* (automerge.go, advanceAutomerge, read-back and roll-back).
CheckoutFollowsBranch ==
  /\ amBranch = "merge" => amTree = "cand"
  /\ (amPc = "idle" /\ amBranch = "base" /\ amTree # "base")
       => amSaid \in {"gitFailed", "uncertain", "inspect", "died"}
=============================================================================

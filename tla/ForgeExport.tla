----------------------------- MODULE ForgeExport -----------------------------
(***************************************************************************)
(* Export of a native issue, discussion or project to a forge              *)
(* (github_export.go, github_discussions.go, github_projects.go): a frozen *)
(* native snapshot, a plan of provider writes, and one remote intent per   *)
(* write, saved as prepared, in_flight and confirmed.                      *)
(*                                                                         *)
(* The native record has a "root" and at most one "leaf" (a comment, a     *)
(* reply, a project item); its text is its revision number.  At the forge  *)
(* a part is a set of tickets [id, text, proof, names, snap]: text from    *)
(* FirstUser on was typed by a user of the forge, proof says whether the   *)
(* marker with the native record is still in it, and names and snap are    *)
(* the item and the native snapshot the marker of a project quotes.  A     *)
(* request may land late or never, its answer may be lost, and the command *)
(* may die at any step.                                                    *)
(*                                                                         *)
(* A record that was imported from this very forge goes back to where it   *)
(* came from: its parts in fxSource are known by the identity the import   *)
(* signed, need no marker and get none, and what the import recorded,      *)
(* native revision 1, is the text they are first compared with.            *)
(***************************************************************************)
EXTENDS Naturals, FiniteSets, Sequences, FiniteSetsExt, SequencesExt

CONSTANTS
  FxKinds,      \* which of "issue", "discussion", "project" are exported
  MaxFxNative,  \* bound: native edits
  MaxFxUser,    \* bound: edits and deletions at the forge
  MaxFxStops    \* bound: deaths, errors and fresh clones

ASSUME ForgeExportAssumption ==
  {MaxFxNative, MaxFxUser, MaxFxStops} \subseteq Nat /\ FxKinds \subseteq {"issue", "discussion", "project"}

VARIABLES
  fxKind,    \* what this record is
  fxSource,  \* its parts that were imported from the forge they go to
  fxLate,    \* whether it has a state, answer or name that is written last
  fxNative,  \* part -> native revision, 0 when there is none
  fxTickets, \* part -> tickets at the forge
  fxCp,      \* the signed private checkpoint
  fxProc,    \* the running export
  fxWire,    \* the provider request under way
  fxCounts   \* [ids, native, user, stops]: how many so far

forgeExportVars == <<fxKind, fxSource, fxLate, fxNative, fxTickets, fxCp, fxProc, fxWire, fxCounts>>

FxParts   == {"root", "leaf"}
Nothing   == [p \in FxParts |-> 0]
NoRequest == [act |-> "none"]
NothingPending  == [phase |-> "none"]
\* Texts above every native revision: what is shown until the last write (a
\* temporary title, an issue still open), and what users type.
Interim   == MaxFxNative + 2
FirstUser == MaxFxNative + 3
NewCheckpoint == [found |-> FALSE, snap |-> Nothing, prev |-> Nothing, base |-> Nothing, bind |-> Nothing,
                  steps |-> <<>>, next |-> 1, pend |-> NothingPending]
Resting == [pc |-> "idle"]

\* The identity a part was imported under.
SourceId(p) == IF p \in fxSource THEN IF p = "root" THEN 1 ELSE 2 ELSE 0
SourceTicket(p) == [id |-> SourceId(p), text |-> 1, proof |-> FALSE, names |-> 0, snap |-> Nothing]
ImportedText == [p \in FxParts |-> IF p \in fxSource THEN 1 ELSE 0]

\* Comments that came with an imported issue are left out of its export, and a
\* board is always named last.
ForgeExportInit ==
  /\ fxKind \in FxKinds
  /\ fxSource \in {{}, {"root"}} \cup IF fxKind = "issue" THEN {} ELSE {FxParts}
  /\ fxLate \in IF fxKind = "project" THEN {TRUE} ELSE BOOLEAN
  /\ fxNative = [ImportedText EXCEPT !["root"] = 1]
  /\ fxTickets = [p \in FxParts |-> IF p \in fxSource THEN {SourceTicket(p)} ELSE {}]
  /\ fxCp = NewCheckpoint /\ fxProc = Resting /\ fxWire = NoRequest
  /\ fxCounts = [ids |-> IF fxSource = {} THEN 0 ELSE 2, native |-> 0, user |-> 0, stops |-> 0]

-----------------------------------------------------------------------------
(* What the forge shows. *)

TextOf(p, id)  == IF \E t \in fxTickets[p] : t.id = id THEN (CHOOSE t \in fxTickets[p] : t.id = id).text ELSE 0
\* Tickets known to be this record's: by their marker, or as what it came from.
Marks(p)       == {t \in fxTickets[p] : t.proof \/ t.id = SourceId(p)}
Marked(p, id)  == \E t \in Marks(p) : t.id = id
Shown(bind)    == [p \in FxParts |-> TextOf(p, bind[p])]
\* A project is compared as a whole: its root and all its items.
SameBoard(cp)  ==
  /\ Shown(cp.bind) = cp.base
  /\ {t.id : t \in fxTickets["leaf"]} \subseteq {cp.bind["leaf"]}

-----------------------------------------------------------------------------
(* Discovery of an earlier export by a clone without its checkpoint. *)

Ambiguous ==
  \/ ~fxCp.found /\ Cardinality(Marks("root")) > 1
  \/ /\ fxKind = "discussion" /\ "leaf" \notin fxSource
     /\ Cardinality({t.id : t \in Marks("leaf")} \cup ({fxCp.bind["leaf"]} \ {0})) > 1
FoundTicket(p) == CHOOSE t \in Marks(p) : TRUE
\* Replies are found by their markers, the items of a board in the marker of
\* the board, and the comments of an issue only when they are to be published.
FoundBinding(p) ==
  IF p \in fxSource THEN SourceId(p)
  ELSE IF Marks("root") = {} THEN 0
  ELSE IF p = "root" THEN FoundTicket(p).id
  ELSE IF fxKind = "project" THEN FoundTicket("root").names
  ELSE IF fxKind = "discussion" /\ Marks(p) # {} THEN FoundTicket(p).id ELSE 0
\* What was imported is the baseline of what goes back to where it came from;
\* a board is taken as it is.
Discovered ==
  LET bind == [p \in FxParts |-> FoundBinding(p)]
      text == [p \in FxParts |-> IF fxKind # "project" /\ p \in fxSource THEN 1 ELSE TextOf(p, bind[p])]
  IN [NewCheckpoint EXCEPT !.found = TRUE, !.bind = bind, !.base = text, !.prev = text]
Known == IF fxCp.found THEN fxCp ELSE Discovered
\* Discovered by its marker, an issue or discussion shows the native text and a
\* board the signed snapshot its marker quotes; a board that was imported shows
\* what was imported or what is native now.
BoardShows(text) == SameBoard([Discovered EXCEPT !.base = text])
Unrecoverable ==
  CASE fxKind # "project" ->
         ~fxCp.found /\ \E p \in FxParts \ fxSource : \E t \in Marks(p) :
           t.id = FoundBinding(p) /\ t.text # fxNative[p]
    [] fxKind = "project" /\ fxSource = {} -> \E t \in Marks("root") : ~BoardShows(t.snap)
    [] OTHER -> ~fxCp.found /\ ~BoardShows(ImportedText) /\ ~BoardShows(fxNative)

-----------------------------------------------------------------------------
(* The plan: three-way between native text, last exported text and the forge. *)

IssueRoot(cp) ==
  LET n == fxNative["root"]
      got == TextOf("root", cp.bind["root"])
  IN CASE cp.bind["root"] = 0 -> "create"
       [] cp.bind["root"] # 0 /\ got = n -> "none"
       [] cp.bind["root"] # 0 /\ got # n /\ got # cp.base["root"] ->
            IF n = cp.prev["root"] THEN "keep" ELSE "blocked"
       [] OTHER -> IF n = cp.prev["root"] THEN "none" ELSE "update"
\* A comment is published once and never edited afterwards.
IssueComment(cp) == IF fxNative["leaf"] # 0 /\ cp.bind["leaf"] = 0 THEN "create" ELSE "none"
DiscussionPart(cp, p) ==
  LET n == fxNative[p]
      got == TextOf(p, cp.bind[p])
  IN CASE n = 0 -> "none"
       [] n # 0 /\ cp.bind[p] = 0 -> "create"
       [] n # 0 /\ cp.bind[p] # 0 /\ (got = 0 \/ ~Marked(p, cp.bind[p])) ->
            IF p = "leaf" /\ n = ImportedText[p] THEN "none" ELSE "blocked"
       [] OTHER -> IF got # cp.base[p] THEN IF n \in {cp.prev[p], ImportedText[p]} THEN "keep" ELSE "blocked"
                   ELSE IF got = n THEN "none" ELSE "update"
ProjectPart(cp, p) ==
  LET n == fxNative[p] IN
  CASE n = 0 -> "none"
    [] n # 0 /\ cp.bind[p] = 0 -> "create"
    [] OTHER -> IF TextOf(p, cp.bind[p]) # n \/ (p = "root" /\ fxSource = {} /\ cp.prev # fxNative)
                THEN "update" ELSE "none"
PartPlan(cp, p) ==
  CASE fxKind = "issue" -> IF p = "root" THEN IssueRoot(cp) ELSE IssueComment(cp)
    [] fxKind = "discussion" -> DiscussionPart(cp, p)
    [] fxKind = "project" -> ProjectPart(cp, p)

Write(act, p) == [act |-> act, part |-> p]
Writes(cp, p) == IF PartPlan(cp, p) \in {"create", "update"} THEN <<Write(PartPlan(cp, p), p)>> ELSE <<>>
\* What only a last write can put there: a closed issue is created open, a
\* discussion is answered and closed after its replies, a board is named last.
Finish(cp) ==
  IF fxLate /\ (PartPlan(cp, "root") = "create" \/ (fxKind = "discussion" /\ PartPlan(cp, "root") = "update"))
  THEN <<Write("update", "root")>> ELSE <<>>
BuildPlan(cp) ==
  CASE fxKind = "issue" -> Writes(cp, "root") \o Finish(cp) \o Writes(cp, "leaf")
    [] fxKind = "project" /\ cp.bind["root"] # 0 -> Writes(cp, "leaf") \o Writes(cp, "root")
    [] OTHER -> Writes(cp, "root") \o Writes(cp, "leaf") \o Finish(cp)

\* An issue without its marker is kept as it is or reported, never written.
LostIssue(cp) == fxKind = "issue" /\ cp.bind["root"] # 0 /\ ~Marked("root", cp.bind["root"])
PlanRefused(cp) ==
  \/ Ambiguous \/ Unrecoverable
  \/ \E p \in FxParts : PartPlan(cp, p) = "blocked"
  \/ fxKind = "project" /\ cp.bind["root"] # 0 /\ ~SameBoard(cp)
  \/ LostIssue(cp)
\* An issue shown exactly as wanted becomes the baseline without a write.
Rebased(cp) ==
  IF fxKind = "issue" /\ TextOf("root", cp.bind["root"]) = fxNative["root"]
  THEN [cp EXCEPT !.base["root"] = fxNative["root"]] ELSE cp

-----------------------------------------------------------------------------
(* One export command. *)

FxAt(pc)     == fxProc.pc = pc
EndExport    == fxProc' = Resting
SaveCp(cp)   == fxCp' = cp
TheStep      == fxCp.steps[fxCp.next]
LastOf(p)    == \A k \in (fxCp.next + 1)..Len(fxCp.steps) : fxCp.steps[k].part # p
Want(s)      == IF LastOf(s.part) THEN fxCp.snap[s.part] ELSE Interim
Reads        == fxKind = "project"
OtherPart(p) == IF p = "root" THEN "leaf" ELSE "root"

\* The board and the items of an interrupted project export must already show
\* the frozen snapshot, or be still under the temporary title.
Associated ==
  (fxKind = "project" /\ fxCp.bind["root"] # 0) =>
    /\ Marked("root", fxCp.bind["root"]) \/ TextOf("root", fxCp.bind["root"]) = Interim
    /\ fxCp.bind["leaf"] # 0 =>
         IF fxSource = {} THEN TextOf("leaf", fxCp.bind["leaf"]) = fxCp.snap["leaf"]
         ELSE TextOf("leaf", fxCp.bind["leaf"]) # 0
\* The record and the parts that belong to it, as they are now.
CurrentSnapshot == [p \in FxParts |-> fxNative[p]]
\* A frozen snapshot is resumed before anything newer is looked at.
ResumeExport ==
  /\ FxAt("idle") /\ fxCp.snap # Nothing /\ Associated
  /\ fxProc' = [pc |-> "work", fresh |-> TRUE]
  /\ UNCHANGED <<fxKind, fxSource, fxLate, fxNative, fxTickets, fxCp, fxWire, fxCounts>>
StartExport ==
  /\ FxAt("idle") /\ fxCp.snap = Nothing /\ ~PlanRefused(Known)
  /\ BuildPlan(Known) = <<>> => fxKind = "issue" \/ (fxKind = "project" /\ ~fxCp.found)
  /\ SaveCp([Rebased(Known) EXCEPT !.snap = CurrentSnapshot, !.steps = BuildPlan(Known), !.next = 1])
  /\ fxProc' = [pc |-> "work", fresh |-> FALSE]
  /\ UNCHANGED <<fxKind, fxSource, fxLate, fxNative, fxTickets, fxWire, fxCounts>>

\* What must still hold at the forge before a write, per kind.
ReplyAllowed(cp) ==
  Marked("root", cp.bind["root"]) /\ (fxKind = "discussion" => TextOf("root", cp.bind["root"]) = cp.base["root"])
Unmoved(cp, s) ==
  CASE fxKind = "project" -> cp.bind["root"] # 0 => SameBoard(cp)
    [] fxKind # "project" /\ s.act = "create" -> s.part = "leaf" => ReplyAllowed(cp)
    [] OTHER -> Marked("root", cp.bind["root"]) /\ TextOf(s.part, cp.bind[s.part]) = cp.base[s.part]

\* A project is compared with what this command read last, an issue read again.
MayPrepare(s) ==
  CASE fxKind = "issue" -> Unmoved(fxCp, s)
    [] fxKind = "discussion" -> TRUE
    [] fxKind = "project" -> fxProc.fresh => Unmoved(fxCp, s)
\* The checkpoint after a step whose ticket and whose view of the forge are known.
StepDone(id, seen) ==
  [fxCp EXCEPT !.bind[TheStep.part] = id, !.base = seen, !.next = @ + 1, !.pend = NothingPending, !.found = TRUE]
\* A comment that the forge already has for the native one is not sent.
CommentClaimed == fxKind = "issue" /\ TheStep = Write("create", "leaf") /\ Marks("leaf") # {}
AdoptComment ==
  /\ FxAt("work") /\ fxCp.next <= Len(fxCp.steps) /\ fxCp.pend.phase \in {"none", "prepared"} /\ CommentClaimed
  /\ IF Unmoved(fxCp, TheStep) /\ \E t \in Marks("leaf") : Marks("leaf") = {t} /\ t.text = Want(TheStep)
     THEN /\ SaveCp(StepDone(FoundTicket("leaf").id, [fxCp.base EXCEPT !["leaf"] = Want(TheStep)]))
          /\ UNCHANGED fxProc
     ELSE EndExport /\ UNCHANGED fxCp
  /\ UNCHANGED <<fxKind, fxSource, fxLate, fxNative, fxTickets, fxWire, fxCounts>>
PrepareIntent ==
  /\ FxAt("work") /\ fxCp.next <= Len(fxCp.steps) /\ fxCp.pend = NothingPending /\ ~CommentClaimed
  /\ IF fxKind = "issue" /\ TheStep = Write("update", "root") /\ TextOf("root", fxCp.bind["root"]) = Want(TheStep)
     THEN /\ SaveCp([fxCp EXCEPT !.base["root"] = Want(TheStep), !.next = @ + 1])
          /\ UNCHANGED fxProc
     ELSE IF MayPrepare(TheStep)
     THEN /\ SaveCp([fxCp EXCEPT !.pend = [phase |-> "prepared", rest |-> fxCp.base[OtherPart(TheStep.part)], id |-> 0]])
          /\ UNCHANGED fxProc
     ELSE EndExport /\ UNCHANGED fxCp
  /\ UNCHANGED <<fxKind, fxSource, fxLate, fxNative, fxTickets, fxWire, fxCounts>>
\* A discussion is read once more before the intent is marked, the others after.
MarkInFlight ==
  /\ FxAt("work") /\ fxCp.pend.phase = "prepared" /\ ~CommentClaimed
  /\ IF fxKind = "discussion" /\ ~Unmoved(fxCp, TheStep) THEN EndExport /\ UNCHANGED fxCp
     ELSE /\ SaveCp([fxCp EXCEPT !.pend.phase = "in_flight"])
          /\ fxProc' = [pc |-> "send", over |-> TextOf(TheStep.part, fxCp.bind[TheStep.part])]
  /\ UNCHANGED <<fxKind, fxSource, fxLate, fxNative, fxTickets, fxWire, fxCounts>>
SendMutation ==
  /\ FxAt("send")
  /\ IF fxKind # "discussion" /\ ~Unmoved(fxCp, TheStep) THEN EndExport /\ UNCHANGED fxWire
     ELSE /\ fxWire' = [act |-> TheStep.act, part |-> TheStep.part, target |-> fxCp.bind[TheStep.part],
                        text |-> Want(TheStep), mark |-> TheStep.part \notin fxSource /\ (Reads => Want(TheStep) # Interim),
                        names |-> IF Reads /\ TheStep.part = "root" THEN fxCp.bind["leaf"] ELSE 0, snap |-> fxCp.snap,
                        over |-> IF fxKind = "discussion" THEN fxProc.over
                                 ELSE TextOf(TheStep.part, fxCp.bind[TheStep.part])]
          /\ fxProc' = [pc |-> "wait", answer |-> 0]
  /\ UNCHANGED <<fxKind, fxSource, fxLate, fxNative, fxTickets, fxCp, fxCounts>>

\* The provider carries the request out, whether or not anybody still waits.
Landed(id) == [id |-> id, text |-> fxWire.text, proof |-> fxWire.mark, names |-> fxWire.names, snap |-> fxWire.snap]
LandRequest ==
  /\ fxWire # NoRequest
  /\ \E id \in {IF fxWire.act = "create" THEN fxCounts.ids + 1 ELSE fxWire.target} :
       /\ fxTickets' = [fxTickets EXCEPT ![fxWire.part] =
            IF fxWire.act = "create" THEN @ \cup {Landed(id)}
            ELSE {IF t.id = id THEN Landed(id) ELSE t : t \in @}]
       /\ fxCounts' = [fxCounts EXCEPT !.ids = Max({@, id})]
       /\ fxProc' = IF FxAt("wait") THEN [fxProc EXCEPT !.answer = id] ELSE fxProc
  /\ fxWire' = NoRequest
  /\ UNCHANGED <<fxKind, fxSource, fxLate, fxNative, fxCp>>
DropRequest ==
  /\ fxWire # NoRequest /\ ~FxAt("wait")
  /\ fxWire' = NoRequest /\ UNCHANGED <<fxKind, fxSource, fxLate, fxNative, fxTickets, fxCp, fxProc, fxCounts>>

\* The unique ticket that shows an uncertain write was carried out.
RestIgnored(s) == TRUE
RestUnmoved(s) ==
  fxKind = "project" => TextOf(OtherPart(s.part), fxCp.bind[OtherPart(s.part)]) = fxCp.pend.rest
Candidates(s) ==
  CASE s.act = "update" -> {t \in fxTickets[s.part] : t.id = fxCp.bind[s.part]}
    [] s.act = "create" /\ fxKind = "issue" -> Marks(s.part)
    [] OTHER -> {t \in fxTickets[s.part] : t.text = Want(s)}
Proofs(s) == {t \in Candidates(s) : t.text = Want(s) /\ Cardinality(Candidates(s)) = 1 /\ RestUnmoved(s)}

ConfirmIntent(id) ==
  /\ SaveCp([fxCp EXCEPT !.pend.phase = "confirmed", !.pend.id = id])
  /\ fxProc' = [pc |-> "confirmed", id |-> id,
                seen |-> IF Reads THEN Shown([fxCp.bind EXCEPT ![TheStep.part] = id])
                         ELSE [fxCp.base EXCEPT ![TheStep.part] = Want(TheStep)]]
ReceiveAnswer ==
  /\ FxAt("wait") /\ fxProc.answer # 0
  /\ IF Reads /\ \A t \in Proofs(TheStep) : t.id # fxProc.answer THEN EndExport /\ UNCHANGED fxCp
     ELSE ConfirmIntent(fxProc.answer)
  /\ UNCHANGED <<fxKind, fxSource, fxLate, fxNative, fxTickets, fxWire, fxCounts>>
\* An interrupted write is never sent again: only an exact observation confirms it.
Reconcile ==
  /\ FxAt("work") /\ fxCp.pend.phase \in {"in_flight", "confirmed"}
  /\ IF fxKind = "issue" /\ fxCp.pend.phase = "confirmed" THEN ConfirmIntent(fxCp.pend.id)
     ELSE IF Proofs(TheStep) = {} THEN EndExport /\ UNCHANGED fxCp
     ELSE ConfirmIntent((CHOOSE t \in Proofs(TheStep) : TRUE).id)
  /\ UNCHANGED <<fxKind, fxSource, fxLate, fxNative, fxTickets, fxWire, fxCounts>>

SaveProgress ==
  /\ FxAt("confirmed")
  /\ SaveCp(StepDone(fxProc.id, fxProc.seen))
  /\ fxProc' = [pc |-> "work", fresh |-> FALSE]
  /\ UNCHANGED <<fxKind, fxSource, fxLate, fxNative, fxTickets, fxWire, fxCounts>>
CompleteExport ==
  /\ FxAt("work") /\ fxCp.next > Len(fxCp.steps)
  /\ IF Reads /\ (IF fxProc.fresh THEN Shown(fxCp.bind) ELSE fxCp.base) # fxCp.snap THEN UNCHANGED fxCp
     ELSE SaveCp([fxCp EXCEPT !.prev = fxCp.snap, !.snap = Nothing, !.steps = <<>>, !.next = 1])
  /\ EndExport
  /\ UNCHANGED <<fxKind, fxSource, fxLate, fxNative, fxTickets, fxWire, fxCounts>>

-----------------------------------------------------------------------------
(* Interruptions and the rest of the world. *)

StopExport ==
  /\ ~FxAt("idle") /\ fxCounts.stops < MaxFxStops
  /\ fxCounts' = [fxCounts EXCEPT !.stops = @ + 1] /\ EndExport
  /\ UNCHANGED <<fxKind, fxSource, fxLate, fxNative, fxTickets, fxCp, fxWire>>
\* The private checkpoint does not travel with a clone of the repository.
FreshClone ==
  /\ FxAt("idle") /\ fxCp.found /\ fxCounts.stops < MaxFxStops
  /\ fxCounts' = [fxCounts EXCEPT !.stops = @ + 1] /\ SaveCp(NewCheckpoint)
  /\ UNCHANGED <<fxKind, fxSource, fxLate, fxNative, fxTickets, fxProc, fxWire>>
EditNativePart(p) ==
  /\ fxCounts.native < MaxFxNative
  /\ fxKind = "issue" /\ p = "leaf" => fxNative[p] = 0
  /\ fxNative' = [fxNative EXCEPT ![p] = @ + 1]
  /\ fxCounts' = [fxCounts EXCEPT !.native = @ + 1]
  /\ UNCHANGED <<fxKind, fxSource, fxLate, fxTickets, fxCp, fxProc, fxWire>>
\* A user of the forge edits a ticket, with or without its marker, to a text of
\* their own or to the native one, or deletes it.
UserEdit(p, t) ==
  /\ fxCounts.user < MaxFxUser
  /\ fxCounts' = [fxCounts EXCEPT !.user = @ + 1]
  /\ \E keep, gone \in {TRUE, FALSE}, text \in {FirstUser + fxCounts.user, fxNative[p]} :
       fxTickets' = [fxTickets EXCEPT ![p] = (@ \ {t}) \cup
         IF gone THEN {} ELSE {[t EXCEPT !.text = text, !.proof = @ /\ keep]}]
  /\ UNCHANGED <<fxKind, fxSource, fxLate, fxNative, fxCp, fxProc, fxWire>>

ForgeExportNext ==
  \/ StartExport \/ ResumeExport \/ AdoptComment \/ PrepareIntent \/ MarkInFlight \/ SendMutation
  \/ LandRequest \/ DropRequest \/ ReceiveAnswer \/ Reconcile \/ SaveProgress \/ CompleteExport
  \/ StopExport \/ FreshClone
  \/ \E p \in FxParts : EditNativePart(p) \/ \E t \in fxTickets[p] : UserEdit(p, t)

ForgeExportSpec == ForgeExportInit /\ [][ForgeExportNext]_forgeExportVars

-----------------------------------------------------------------------------
(* Properties. *)

\* A write never replaces text that was typed at the forge and that the native
\* side has never seen: through kept edits, resumed snapshots, late requests,
\* fresh clones and native edits, only text of the native record, which this
\* project wrote there or imported from there, is ever the baseline of an
\* overwrite (github_discussions.go, githubDiscussionBuildPlan;
\* github_export.go, forgeExportFindInitial; github_projects.go,
\* githubProjectStepInvariant).  An edit between the last look of the export and
\* the landing of its request can be lost.
UserEditsKept == fxWire # NoRequest => fxWire.over < FirstUser
=============================================================================

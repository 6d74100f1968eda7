----------------------------- MODULE Moderation -----------------------------
(***************************************************************************)
(* The governed view of contributions: signed submissions, intake receipts *)
(* and moderation decisions reduced to what is admitted and visible under  *)
(* the project's policy (internal/contribution/model.go Reduce, policy.go  *)
(* Evaluate, contribution_records.go, contribution_moderation.go).         *)
(*                                                                         *)
(* Clones hold sets of records that travel actor by actor in any order;    *)
(* moderators sign on the view of the clone they sit at.  The policy lives *)
(* on one branch, whose changes may or may not be ratified by a governed   *)
(* merge.  A command holds the clone's contribution lock from its read to  *)
(* its write and compares the authority again, so it is one step here.     *)
(* A record's identity is its content.  Depth and count budgets are above  *)
(* the bounds of the instances.                                            *)
(***************************************************************************)
EXTENDS Naturals, FiniteSets, Sequences, SequencesExt

CONSTANTS
  MdFact,        \* revision -> [actor, author, root, op, parents, refs]
  MdBaseline,    \* revisions the policy takes as admitted history
  MdClones,
  MdIdentity,    \* clone -> the actor it signs as
  MdModerators,
  MdMaintainers,
  MdRules,       \* operation -> [actors, maintainers, automatic]
  MdOffers,      \* clone -> revisions whose artifacts it is handed
  MdTargets,     \* targets moderators decide on
  MdIntents,     \* operation names they give
  MdPolicies,    \* policy changes: [revoked, ratified, keep], keep: checkpoints
  MaxMdDecisions, \* bound: decisions signed
  MaxMdPolicies   \* bound: policy changes

ASSUME ModerationAssumption ==
  /\ \A x \in DOMAIN MdFact : MdFact[x].root \in DOMAIN MdFact
  /\ MdBaseline \subseteq DOMAIN MdFact /\ IsFiniteSet(DOMAIN MdFact)
  /\ {MaxMdDecisions, MaxMdPolicies} \subseteq Nat

VARIABLES
  mdRecs,    \* clone -> records in its contribution refs
  mdHistory, \* the branch: sequence of [revoked, ratified, checkpoints]
  mdAdopted, \* clone -> the adopted position of the branch
  mdRetained \* clone -> revisions its operator registered as retained

moderationVars == <<mdRecs, mdHistory, mdAdopted, mdRetained>>

Revisions == DOMAIN MdFact
Genesis   == [revoked |-> {}, ratified |-> TRUE, checkpoints |-> {}]

-----------------------------------------------------------------------------
(* Native facts. *)

RefIDs(x) == {r.id : r \in MdFact[x].refs}
Deps(x)   == MdFact[x].parents \cup RefIDs(x)
AuthorOperation(op) == op \in {"edit", "revise"}

SameFamily(root, op) ==
  CASE op = "edit" -> root \in {"create", "reply"} [] op = "revise" -> root = "propose"
    [] OTHER -> FALSE

\* getFact: what one fact must satisfy beside its dependencies.
FactShape(x) ==
  LET f == MdFact[x]
      r == MdFact[f.root]
  IN  /\ x \notin Deps(x)
      /\ IF f.root = x
         THEN ~AuthorOperation(f.op) /\ f.actor = f.author /\ f.parents = {}
         ELSE /\ AuthorOperation(f.op) /\ f.parents # {} /\ r.root = f.root
              /\ r.author = f.author /\ SameFamily(r.op, f.op)
      /\ \A p \in f.parents : MdFact[p].root = f.root /\ MdFact[p].author = f.author
      /\ \A q \in f.refs : q.kind = "root" => MdFact[q.id].root = q.id
      /\ f.op = "reply" => f.refs # {}

\* A missing or unsound dependency makes every dependent unsound.  Identities
\* are digests of content, so the dependencies of sound facts have no cycle, and
\* the largest closed set is the well-founded one.
Facts == {x \in Revisions : \E T \in SUBSET {y \in Revisions : FactShape(y)} :
            x \in T /\ \A y \in T : Deps(y) \cup {MdFact[y].root} \subseteq T}

\* What an artifact that submits x carries: x and all that it depends on.
Carries == [x \in Revisions |->
  {y \in Revisions : \A T \in SUBSET Revisions :
     (x \in T /\ \A z \in T : Deps(z) \subseteq T) => y \in T}]

-----------------------------------------------------------------------------
(* Records.  The intents a submission and a receipt derive are digests; an  *)
(* unnamed decision's is that of its body, and a named one may meet any     *)
(* record of its actor.                                                     *)

Submission(x) ==
  [kind |-> "submission", actor |-> MdFact[x].actor, intent |-> <<"submit", x>>, content |-> x]
Decision(m, action, target, auth, parents, intent) ==
  [kind |-> "decision", actor |-> m, intent |-> <<intent>>, action |-> action,
   target |-> target, auth |-> auth, parents |-> parents]
Receipt(m, x, auth, automatic, evaluated) ==
  [kind |-> "receipt", actor |-> m, intent |-> <<"receipt", x, auth>>, content |-> x,
   auth |-> auth, automatic |-> automatic, evaluated |-> evaluated]

\* Decision.validate: the action fits the target's kind.
ActionsOn(kind) ==
  CASE kind = "submission" -> {"admit", "reject"}
    [] kind = "revision"   -> {"hide", "restore"}
    [] kind = "actor"      -> {"block", "unblock"}

OfKind(R, k)   == {r \in R : r.kind = k}
Decisions_(R)  == OfKind(R, "decision")

Unnamed == "unnamed"
SameRecordIntent(r, s) == r.actor = s.actor /\ r.intent = s.intent
IntentClash(R) ==
  {r \in R : r.intent # <<Unnamed>> /\ \E s \in R : SameRecordIntent(r, s) /\ s # r}

-----------------------------------------------------------------------------
(* Authority: the branch since the adopted position. *)

Now == Len(mdHistory)

\* verifyContributionPolicyHistory and verifyContributionCheckpoints: every
\* change since adoption, and every checkpoint since ever, was a governed merge.
IntroducedAt(r) ==
  CHOOSE n \in 1..Now : /\ \A k \in n..Now : r \in mdHistory[k].checkpoints
                        /\ n = 1 \/ r \notin mdHistory[n - 1].checkpoints
AuthorityLoads(c) ==
  /\ \A n \in (mdAdopted[c] + 1)..Now : mdHistory[n].ratified
  /\ \A r \in mdHistory[Now].checkpoints : IntroducedAt(r) > 1 /\ mdHistory[IntroducedAt(r)].ratified

Established(r) == r \in mdHistory[Now].checkpoints
Revoked(n)     == mdHistory[n].revoked

\* Evaluate for a contribution under policy n: denied, pending a moderator, or
\* automatic.  An operation without a rule is denied.
Permission(op, actor, author) ==
  LET rule       == MdRules[op]
      maintainer == rule.maintainers /\ actor \in MdMaintainers
  IN  IF \/ op \notin DOMAIN MdRules
         \/ rule.actors # {} /\ actor \notin rule.actors /\ ~maintainer
         \/ AuthorOperation(op) /\ actor # author /\ ~maintainer
      THEN "denied" ELSE IF rule.automatic THEN "automatic" ELSE "moderated"

MayModerate(m, n) == m \in MdModerators \ Revoked(n)

\* The signer's authority as evaluated when it signed; records of an older
\* policy count only when a ratified checkpoint names them.
SignerAuthorised(r) ==
  /\ r.auth = Now \/ Established(r)
  /\ r.actor \notin Revoked(r.auth)
  /\ IF r.kind = "decision" THEN r.actor \in MdModerators
     ELSE r.actor \in MdModerators \cup MdMaintainers

Effective(r) == r.actor \notin Revoked(Now)

-----------------------------------------------------------------------------
(* Reduce. *)

ValidSubmissions(R) == {r \in OfKind(R, "submission") : r.content \in Facts} \ IntentClash(R)
Submitted(R)        == {r.content : r \in ValidSubmissions(R)}

TargetKnown(R, t) ==
  \/ t.kind = "submission" /\ t.id \in Submitted(R)
  \/ t.kind = "revision" /\ t.id \in Facts
  \/ t.kind = "actor"

\* An invalid or missing parent poisons the decisions built on it.
Sound(R, d) == /\ SignerAuthorised(d) /\ TargetKnown(R, d.target)
               /\ \A p \in d.parents : p.target = d.target
SoundDecisions(R) == {d \in Decisions_(R) : Sound(R, d)} \ IntentClash(R)
ValidDecisions(R) ==
  {d \in SoundDecisions(R) : \E T \in SUBSET SoundDecisions(R) :
     d \in T /\ \A e \in T : e.parents \subseteq T}

\* Moderation evidence a receipt may cite about its submission.
Relevant(d, x) ==
  LET t == d.target
  IN  \/ t.kind = "actor" /\ t.id \in {MdFact[x].actor, MdFact[x].author}
      \/ /\ t.kind = "revision"
         /\ \/ \E p \in MdFact[x].parents : MdFact[t.id].root = MdFact[p].root
            \/ t.id \in RefIDs(x)
            \/ \E q \in MdFact[x].refs : q.kind = "root" /\ MdFact[t.id].root = q.id

ValidReceipts(R, valid) ==
  {r \in OfKind(R, "receipt") \ IntentClash(R) :
     /\ SignerAuthorised(r) /\ r.content \in Submitted(R)
     /\ \A d \in r.evaluated : /\ d \in valid /\ d.target.kind # "submission"
                               /\ Relevant(d, r.content)
                               /\ d.action \notin {"block", "hide"}
     /\ \A d, e \in r.evaluated : d.target = e.target => d = e
     /\ r.automatic => Permission(MdFact[r.content].op, MdFact[r.content].actor,
                                  MdFact[r.content].author) = "automatic"}

\* No decision on a submission counts before an effective receipt of it.
Group(valid, received) ==
  {d \in valid : /\ Effective(d)
                 /\ d.target.kind = "submission" => \E r \in received : r.content = d.target.id}
\* Only an effective decision retires its parents, all on its own target.
HeadsOf(group) == group \ UNION {d.parents : d \in group}

Target(k, id)    == [kind |-> k, id |-> id]
On(heads, k, id) == {d \in heads : d.target = Target(k, id)}
MdActors         == {MdFact[x].actor : x \in Revisions}

\* What the heads of a target say.
Contested(heads) == Cardinality(heads) > 1
Says(heads, action) == \E d \in heads : d.action = action
\* As if contested heads blocked no one.
BlocksUnlessContested(heads) == ~Contested(heads) /\ Says(heads, "block")
\* A conflict blocks, and hides.
Blocks(heads) == Contested(heads) \/ Says(heads, "block")
Hides(heads)  == Contested(heads) \/ Says(heads, "hide")

Candidate_(R, received, heads, x) ==
  LET h == On(heads, "submission", x)
      f == MdFact[x]
  IN  \/ x \in MdBaseline
      \/ /\ x \in Submitted(R) /\ ~Contested(h)
         /\ \/ Says(h, "admit") /\ Permission(f.op, f.actor, f.author) # "denied"
            \/ h = {} /\ \E r \in received : r.content = x /\ r.automatic

\* An intersection: no dependency is admitted by implication.
AdmittedOf(candidates) ==
  {x \in candidates : \E T \in SUBSET candidates :
     x \in T /\ \A y \in T : Deps(y) \subseteq T}

\* Heads of a resource among admitted revisions, hidden ones included.
RootHeads(adm, root) ==
  {x \in adm : MdFact[x].root = root} \ UNION {MdFact[x].parents : x \in adm}

\* As if only references to resources carried invisibility.
DependsByRoot(x, adm, gone) ==
  \E q \in MdFact[x].refs : q.kind = "root" /\ RootHeads(adm, q.id) \subseteq gone
\* Invisibility spreads against exact references, and through a resource's heads
\* to whatever refers to that resource.
DependsOnHidden(x, adm, gone) ==
  \E q \in MdFact[x].refs :
    IF q.kind = "revision" THEN q.id \in gone
    ELSE RootHeads(adm, q.id) \cap gone # {} \/ RootHeads(adm, q.id) = {}

\* The work list.
Propagate(adm, hidden) ==
  LET gone[n \in 0..Cardinality(adm)] ==
        IF n = 0 THEN hidden
        ELSE LET prev == gone[n - 1]
             IN  prev \cup {x \in adm : DependsOnHidden(x, adm, prev)}
  IN  gone[Cardinality(adm)]

ViewOf(heads, blocked, received, adm, hidden) ==
  [heads |-> heads, blocked |-> blocked, received |-> received, admitted |-> adm,
   hidden |-> hidden, visible |-> adm \ Propagate(adm, hidden)]
WithAdmitted(heads, blocked, received, adm) ==
  ViewOf(heads, blocked, received, adm, {x \in adm : Hides(On(heads, "revision", x))})
WithBlocked(R, received, heads, blocked) ==
  WithAdmitted(heads, blocked, received,
    AdmittedOf({x \in Facts : /\ Candidate_(R, received, heads, x)
                              /\ {MdFact[x].actor, MdFact[x].author} \cap blocked = {}}))
WithHeads(R, received, heads) ==
  WithBlocked(R, received, heads, {a \in MdActors : Blocks(On(heads, "actor", a))})
WithReceipts(R, valid, received) ==
  WithHeads(R, received, HeadsOf(Group(valid, received)))
WithDecisions(R, valid) ==
  WithReceipts(R, valid, {r \in ValidReceipts(R, valid) : Effective(r)})
Reduce(R) == WithDecisions(R, ValidDecisions(R))

ModerationInit ==
  /\ mdRecs = [c \in MdClones |-> {}]
  /\ mdHistory = <<Genesis>>
  /\ mdAdopted = [c \in MdClones |-> 1]
  /\ mdRetained = [c \in MdClones |-> {}]

-----------------------------------------------------------------------------
(* Retention: a clone views and decides on what it has accounted for.       *)

\* contributionRetentionKnown: the coverage of the artifacts it took in, the
\* baseline, and what was registered.
RetentionKnown(c) ==
  MdBaseline \cup mdRetained[c] \cup UNION {Carries[r.content] : r \in OfKind(mdRecs[c], "submission")}
\* Revisions the reducer opens beside those of submissions.
Opened(c) == Facts \cap {d.target.id : d \in {d \in Decisions_(mdRecs[c]) : d.target.kind = "revision"}}
\* contributionRequireRetention: without it there is no view.
RetentionHolds(c) == Opened(c) \subseteq RetentionKnown(c)

\* contributionRegisterRetained: what the view opens, and what the operator names.
RegisterRetained(c, named) ==
  /\ ~((Opened(c) \cup named) \subseteq RetentionKnown(c))
  /\ mdRetained' = [mdRetained EXCEPT ![c] = @ \cup ((Opened(c) \cup named) \ RetentionKnown(c))]
  /\ UNCHANGED <<mdRecs, mdHistory, mdAdopted>>

-----------------------------------------------------------------------------
(* Signing. *)

\* IntakeEvidence: only over visible dependencies, citing what was decided on
\* them and on the actors.
RootVisible(v, root) ==
  LET h == RootHeads(v.admitted, root) IN h # {} /\ h \subseteq v.visible
DependenciesVisible(v, x) ==
  /\ \A p \in MdFact[x].parents : p \in v.visible /\ RootVisible(v, MdFact[p].root)
  /\ \A q \in MdFact[x].refs :
       /\ q.id \in v.admitted
       /\ IF q.kind = "root" THEN RootVisible(v, q.id) ELSE q.id \in v.visible

Evidence(v, x) ==
  LET exact == MdFact[x].parents \cup {q.id : q \in {q \in MdFact[x].refs : q.kind = "revision"}}
      roots == {MdFact[p].root : p \in MdFact[x].parents}
                 \cup {q.id : q \in {q \in MdFact[x].refs : q.kind = "root"}}
      revs  == exact \cup UNION {RootHeads(v.admitted, r) : r \in roots}
      seen  == {Target("actor", a) : a \in {MdFact[x].actor, MdFact[x].author}}
                 \cup {Target("revision", y) : y \in revs}
  IN  {d \in v.heads : d.target \in seen}

MayIntake(v, x) ==
  /\ x \in Facts
  /\ {MdFact[x].actor, MdFact[x].author} \cap v.blocked = {}
  /\ DependenciesVisible(v, x)
  /\ Permission(MdFact[x].op, MdFact[x].actor, MdFact[x].author) # "denied"

NewReceipt(v, m, x) == 
  Receipt(m, x, Now, Permission(MdFact[x].op, MdFact[x].actor, MdFact[x].author) = "automatic",
          Evidence(v, x))

Store(c, recs) ==
  /\ mdRecs' = [mdRecs EXCEPT ![c] = @ \cup recs]
  /\ UNCHANGED <<mdHistory, mdAdopted, mdRetained>>

\* A foreign submission is retained raw, whatever it is.
Retain(c, x) ==
  /\ AuthorityLoads(c) /\ Submission(x) \notin mdRecs[c]
  /\ Store(c, {Submission(x)})

MayReceipt(m) == m \in (MdModerators \cup MdMaintainers) \ Revoked(Now)

\* contributionReceiptIntake: one receipt per submission and policy.
SignReceipt(c, v, x) ==
  /\ Submission(x) \in mdRecs[c]
  /\ AuthorityLoads(c) /\ RetentionHolds(c) /\ MayReceipt(MdIdentity[c])
  /\ \A r \in OfKind(mdRecs[c], "receipt") : ~(r.content = x /\ r.auth = Now)
  /\ MayIntake(v, x)
  /\ Store(c, {NewReceipt(v, MdIdentity[c], x)})

\* contributionAuthorizeCandidate and the native boundary: a maintainer's own
\* write is submitted and received at once.
LocalWrite(c, v, x) ==
  /\ MdFact[x].actor = MdIdentity[c] /\ Submission(x) \notin mdRecs[c]
  /\ AuthorityLoads(c) /\ RetentionHolds(c) /\ MayReceipt(MdIdentity[c])
  /\ MayIntake(v, x)
  /\ Store(c, {Submission(x), NewReceipt(v, MdIdentity[c], x)})

\* contributionDecide: on exactly the current heads, and refused when the
\* reducer would not accept it.
Decide(c, v, action, t, intent) ==
  LET R == mdRecs[c]
      m == MdIdentity[c]
      d == Decision(m, action, t, Now, On(v.heads, t.kind, t.id), intent)
  IN  /\ AuthorityLoads(c) /\ RetentionHolds(c) /\ MayModerate(m, Now)
      /\ t.kind = "revision" => t.id \in RetentionKnown(c)
      /\ Cardinality(UNION {Decisions_(mdRecs[k]) : k \in MdClones}) < MaxMdDecisions
      /\ intent # Unnamed => \A r \in R : ~(r.actor = m /\ r.intent = <<intent>>)
      /\ d \notin R /\ d \in ValidDecisions(R \cup {d})
      /\ t.kind = "submission" => \E r \in v.received : r.content = t.id
      /\ Store(c, {d})

\* The clone receives another actor's manifest as the other clone holds it.
AdmitRecords(from, to, a) ==
  LET recs == {r \in mdRecs[from] : r.actor = a}
  IN  /\ from # to /\ ~(recs \subseteq mdRecs[to]) /\ AuthorityLoads(to)
      /\ Store(to, recs)

-----------------------------------------------------------------------------
(* The policy branch. *)

\* A governed merge, or someone pushing to the branch; the new policy
\* checkpoints the control records signed so far, or none.
PolicyChange(p) ==
  /\ Now <= MaxMdPolicies
  /\ p.revoked # Revoked(Now)
  /\ mdHistory' = Append(mdHistory,
       [revoked |-> p.revoked, ratified |-> p.ratified,
        checkpoints |-> IF p.keep THEN {r \in UNION Range(mdRecs) : r.kind # "submission"}
                        ELSE {}])
  /\ UNCHANGED <<mdRecs, mdAdopted, mdRetained>>

\* contributionSetAuthority: the operator adopts the branch as it now stands,
\* and registers what the view opens.
Readopt(c) ==
  /\ mdAdopted[c] # Now
  /\ mdAdopted' = [mdAdopted EXCEPT ![c] = Now]
  /\ mdRetained' = [mdRetained EXCEPT ![c] = @ \cup (Opened(c) \ RetentionKnown(c))]
  /\ UNCHANGED <<mdRecs, mdHistory>>

\* Every command of a clone works on the view it reduces from its records.
AtClone(c, v) ==
  \/ \E x \in MdOffers[c] : Retain(c, x) \/ SignReceipt(c, v, x)
  \/ \E x \in Revisions \ MdBaseline : LocalWrite(c, v, x)
  \/ \E t \in MdTargets, i \in MdIntents :
       \E action \in ActionsOn(t.kind) : Decide(c, v, action, t, i)
  \/ \E t \in {t \in MdTargets : t.kind = "revision"} : AuthorityLoads(c) /\ RegisterRetained(c, {t.id})
  \/ Readopt(c)

ModerationNext ==
  \/ \E c \in MdClones : \E v \in {Reduce(mdRecs[c])} : AtClone(c, v)
  \/ \E c, d \in MdClones : \E a \in {r.actor : r \in mdRecs[c]} : AdmitRecords(c, d, a)
  \/ \E p \in MdPolicies : PolicyChange(p)

ModerationSpec == ModerationInit /\ [][ModerationNext]_moderationVars

-----------------------------------------------------------------------------
(* Properties. *)

ModerationTypeOK ==
  \A c \in MdClones :
    /\ mdAdopted[c] \in 1..Now
    /\ \A r \in mdRecs[c] : r.kind # "submission" => r.auth \in 1..Now

\* The work list computes what visibility means: the largest set of admitted
\* revisions none of which is hidden, refers to a revision outside it, or refers
\* to a resource with a head outside it, derived cycles included (model.go,
\* "greatest visibility fixed point").
SelfConsistent(v, S) ==
  \A x \in S : /\ x \notin v.hidden
               /\ \A q \in MdFact[x].refs :
                    IF q.kind = "revision" THEN q.id \in S
                    ELSE /\ RootHeads(v.admitted, q.id) # {}
                         /\ RootHeads(v.admitted, q.id) \subseteq S
VisibleIsGreatest ==
  \A c \in MdClones :
    \E v \in {Reduce(mdRecs[c])} :
      v.visible = UNION {S \in SUBSET v.admitted : SelfConsistent(v, S)}

\* Under one policy a block at a clone ends only by an unblock that comes to
\* count: one a moderator signed over it, which arrived, or whose missing parents
\* did, whatever arrives in whatever order; short of a moderator signing two
\* records under one operation name, which voids both and all that was built on
\* them (model.go Reduce, contributionDecide).
BlockEndsByUnblock ==
  [][mdHistory' = mdHistory =>
       \A c \in {k \in MdClones : mdRecs'[k] # mdRecs[k]} :
         \A a \in Reduce(mdRecs[c]).blocked \ Reduce(mdRecs'[c]).blocked :
           \/ \E d \in ValidDecisions(mdRecs'[c]) \ ValidDecisions(mdRecs[c]) :
                d.action = "unblock" /\ d.target = Target("actor", a)
           \/ IntentClash(mdRecs'[c]) # IntentClash(mdRecs[c])]_moderationVars
=============================================================================

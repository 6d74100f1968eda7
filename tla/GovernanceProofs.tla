-------------------------- MODULE GovernanceProofs --------------------------
(***************************************************************************)
(* For any actors, policy, number of candidates and interleaving of syncs: *)
(* a merge event never precedes its merge commit (CodeBeforeRecord),       *)
(* every clone's events satisfy what readers require of them (ViewsValid), *)
(* a maintainer merges one candidate of a lineage (LineagesMergedOnce),    *)
(* and a merge that reloads is not over a block (ReloadHonoursBlocks).     *)
(***************************************************************************)
EXTENDS Governance, FiniteSetTheorems, TLAPS

\* A command that is past the commit, or repairs one, has it on its branch.
PastCode ==
  \A a \in Actors : pc[a] \in {"merge-record", "repair-reload"} => cand[a] \in target[a]

\* The functions the argument updates.
Shape ==
  /\ DOMAIN facts = Actors /\ facts = [a \in Actors |-> facts[a]]
  /\ pc = [a \in Actors |-> pc[a]]
  /\ cand = [a \in Actors |-> cand[a]]
  /\ target = [a \in Actors |-> target[a]]

CodeInv == Shape /\ PastCode /\ RecordedAfterCode

\* What is enough for a step: branches never lose a candidate, a new merge event
\* names one on its signer's branch, and a command that gets past its commit has
\* it on its branch.
LEMMA KeepsCodeFirst ==
  ASSUME CodeInv, Shape',
         \A a \in Actors : target[a] \subseteq target'[a],
         \A a \in Actors : \A e \in Own(a)' :
           e \in Own(a) \/ e.kind # "proposal.merged" \/ e.subject \in target'[a],
         \A a \in Actors : pc'[a] \in {"merge-record", "repair-reload"} =>
           \/ pc[a] \in {"merge-record", "repair-reload"} /\ cand'[a] = cand[a]
           \/ cand'[a] \in target'[a]
  PROVE  CodeInv'
<1>1. PastCode'
  BY DEF CodeInv, PastCode
<1>2. RecordedAfterCode'
  <2> SUFFICES ASSUME NEW a \in Actors, NEW e \in Own(a)', e.kind = "proposal.merged"
               PROVE  e.subject \in target'[a]
    BY DEF RecordedAfterCode
  <2>1. CASE e \in Own(a)
    BY <2>1 DEF CodeInv, RecordedAfterCode
  <2>2. CASE e \notin Own(a)
    BY <2>2
  <2> QED BY <2>1, <2>2
<1> QED BY <1>1, <1>2 DEF CodeInv

\* appendEvent adds one event of its own kind and subject to its signer's clone.
LEMMA AppendOwn ==
  ASSUME CodeInv, NEW a \in Actors, NEW kind, NEW p, NEW verdict, NEW evidence,
         AppendEvent(a, kind, p, verdict, evidence)
  PROVE  /\ facts' = [b \in Actors |-> facts'[b]] /\ DOMAIN facts' = Actors
         /\ \A b \in Actors : \A e \in Own(b)' :
              e \in Own(b) \/ (b = a /\ e.kind = kind /\ e.subject = p)
<1> DEFINE new == [kind |-> kind, actor |-> a, sequence |-> NextSequence(a),
                   subject |-> p, verdict |-> verdict, evidence |-> evidence]
<1>1. facts' = [facts EXCEPT ![a] = @ \cup {new}]
  BY DEF AppendEvent
<1>2. new.kind = kind /\ new.subject = p /\ new.actor = a
  OBVIOUS
<1> HIDE DEF new
<1>3. facts' = [b \in Actors |-> IF b = a THEN facts[b] \cup {new} ELSE facts[b]]
  BY <1>1 DEF CodeInv, Shape
<1>4. ASSUME NEW b \in Actors, NEW e \in Own(b)'
      PROVE  e \in Own(b) \/ (b = a /\ e.kind = kind /\ e.subject = p)
  <2>1. e \in facts'[b] /\ e.actor = b
    BY <1>4 DEF Own
  <2>2. CASE e \in facts[b]
    BY <2>1, <2>2 DEF Own
  <2>3. CASE e \notin facts[b]
    <3>1. b = a /\ e = new
      BY <1>3, <2>1, <2>3
    <3> QED BY <3>1, <1>2
  <2> QED BY <2>2, <2>3
<1>5. facts' = [b \in Actors |-> facts'[b]] /\ DOMAIN facts' = Actors
  BY <1>3
<1> QED BY <1>4, <1>5

\* A step that leaves the events alone signs nothing.
LEMMA SameOwn ==
  ASSUME UNCHANGED facts
  PROVE  \A a \in Actors : Own(a)' = Own(a)
  BY DEF Own

\* hn sync brings in only what another actor signed.
LEMMA SyncOwn ==
  ASSUME CodeInv, NEW a \in Actors, NEW b \in Actors, Sync(a, b)
  PROVE  /\ facts' = [c \in Actors |-> facts'[c]] /\ DOMAIN facts' = Actors
         /\ \A c \in Actors : \A e \in Own(c)' : e \in Own(c)
<1>1. a # b /\ facts' = [facts EXCEPT ![a] = facts[a] \cup Own(b)]
  BY DEF Sync
<1>2. facts' = [c \in Actors |-> IF c = a THEN facts[c] \cup Own(b) ELSE facts[c]]
  BY <1>1 DEF CodeInv, Shape
<1>3. ASSUME NEW c \in Actors, NEW e \in Own(c)'
      PROVE  e \in Own(c)
  <2>1. e \in facts'[c] /\ e.actor = c
    BY <1>3 DEF Own
  <2>2. e \notin facts[c] => c = a /\ e.actor = b
    BY <1>2, <2>1 DEF Own
  <2> QED BY <1>1, <2>1, <2>2 DEF Own
<1> QED BY <1>2, <1>3

\* The commands that only append: target, pc and cand stay.
LEMMA AppendKeeps ==
  ASSUME CodeInv, NEW a \in Actors, NEW kind, NEW p, NEW verdict, NEW evidence,
         AppendEvent(a, kind, p, verdict, evidence), kind # "proposal.merged",
         UNCHANGED <<target, pc, cand>>
  PROVE  CodeInv'
<1>1. Shape'
  BY AppendOwn DEF CodeInv, Shape
<1>2. \A b \in Actors : \A e \in Own(b)' :
        e \in Own(b) \/ e.kind # "proposal.merged" \/ e.subject \in target'[b]
  BY AppendOwn
<1> QED BY <1>1, <1>2, KeepsCodeFirst, Zenon DEF CodeInv

\* A step of one command that signs nothing and leaves the branches alone.
LEMMA MoveKeeps ==
  ASSUME CodeInv, NEW a \in Actors, NEW next, UNCHANGED <<facts, target>>,
         pc' = [pc EXCEPT ![a] = next],
         UNCHANGED cand \/ cand' = [cand EXCEPT ![a] = cand'[a]],
         next \in {"merge-record", "repair-reload"} => cand'[a] \in target[a]
  PROVE  CodeInv'
<1>1. Shape' /\ (\A b \in Actors : b # a => pc'[b] = pc[b] /\ cand'[b] = cand[b])
      /\ pc'[a] = next
  BY DEF CodeInv, Shape
<1>2. \A b \in Actors : pc'[b] \in {"merge-record", "repair-reload"} =>
        \/ pc[b] \in {"merge-record", "repair-reload"} /\ cand'[b] = cand[b]
        \/ cand'[b] \in target'[b]
  BY <1>1
<1>3. \A b \in Actors : \A e \in Own(b)' : e \in Own(b)
  BY SameOwn
<1> QED BY <1>1, <1>2, <1>3, KeepsCodeFirst

\* An ended command, with the events and branches it leaves.
LEMMA ReturnMoves ==
  ASSUME CodeInv, NEW a \in Actors, Return(a)
  PROVE  /\ pc' = [b \in Actors |-> pc'[b]] /\ cand' = [b \in Actors |-> cand'[b]]
         /\ \A b \in Actors : pc'[b] \in {"merge-record", "repair-reload"} =>
              pc[b] \in {"merge-record", "repair-reload"} /\ cand'[b] = cand[b]
  BY DEF CodeInv, Shape, Return

\* Every step of every command keeps the order of commit and event.
LEMMA CodeStep == CodeInv /\ [Next]_vars => CodeInv'
<1> SUFFICES ASSUME CodeInv, [Next]_vars PROVE CodeInv'
  OBVIOUS
<1>1. CASE UNCHANGED vars
  BY <1>1 DEF vars, command, CodeInv, Shape, PastCode, RecordedAfterCode, Own
<1>2. ASSUME NEW a \in Actors, ProposalOpen(a) PROVE CodeInv'
  BY <1>2, AppendKeeps DEF ProposalOpen, command
<1>3. ASSUME NEW a \in Actors, NEW p, ProposalRevise(a, p) PROVE CodeInv'
  BY <1>3, AppendKeeps DEF ProposalRevise, command
<1>4. ASSUME NEW a \in Actors, NEW p, NEW v, Review(a, p, v) PROVE CodeInv'
  BY <1>4, AppendKeeps DEF Review, command
<1>5. ASSUME NEW a \in Actors, NEW p, NEW o, RunExecute(a, p, o) PROVE CodeInv'
  BY <1>5, AppendKeeps DEF RunExecute, command
<1>6. ASSUME NEW a \in Actors, NEW p, DecideReject(a, p) PROVE CodeInv'
  BY <1>6, AppendKeeps DEF DecideReject, command
<1>7. ASSUME NEW a \in Actors, NEW p, DecideAccept(a, p) PROVE CodeInv'
  <2>1. UNCHANGED <<facts, target>> /\ pc' = [pc EXCEPT ![a] = "decide-reload"]
        /\ cand' = [cand EXCEPT ![a] = cand'[a]]
    BY <1>7 DEF DecideAccept, CodeInv, Shape
  <2> QED BY <2>1, MoveKeeps
<1>8. ASSUME NEW a \in Actors, DecideReload(a) PROVE CodeInv'
  BY <1>8, MoveKeeps DEF DecideReload
<1>9. ASSUME NEW a \in Actors, DecideRecord(a) PROVE CodeInv'
  <2>1. AppendEvent(a, "proposal.decision", cand[a], "accept", proof[a]) /\ Return(a)
        /\ UNCHANGED target
    BY <1>9 DEF DecideRecord
  <2>2. Shape'
    BY <2>1, AppendOwn, ReturnMoves DEF CodeInv, Shape
  <2>3. \A b \in Actors : \A e \in Own(b)' :
          e \in Own(b) \/ e.kind # "proposal.merged" \/ e.subject \in target'[b]
    BY <2>1, AppendOwn
  <2> QED BY <2>1, <2>2, <2>3, ReturnMoves, KeepsCodeFirst
<1>10. ASSUME NEW a \in Actors, NEW p, MergeEvaluate(a, p) PROVE CodeInv'
  <2>1. UNCHANGED <<facts, target>> /\ pc' = [pc EXCEPT ![a] = "merge-inspect"]
        /\ cand' = [cand EXCEPT ![a] = cand'[a]]
    BY <1>10 DEF MergeEvaluate, CodeInv, Shape
  <2> QED BY <2>1, MoveKeeps
<1>11. ASSUME NEW a \in Actors, MergeInspect(a) PROVE CodeInv'
  <2> DEFINE next == IF cand[a] \in target[a] THEN "repair-reload"
                     ELSE IF Reloads THEN "merge-reload" ELSE "merge-code"
  <2>1. UNCHANGED <<facts, target, cand>> /\ pc' = [pc EXCEPT ![a] = next]
    BY <1>11 DEF MergeInspect
  <2>2. next \in {"merge-record", "repair-reload"} => cand[a] \in target[a]
    OBVIOUS
  <2> HIDE DEF next
  <2> QED BY <2>1, <2>2, MoveKeeps
<1>12. ASSUME NEW a \in Actors, MergeReload(a) PROVE CodeInv'
  BY <1>12, MoveKeeps DEF MergeReload
<1>13. ASSUME NEW a \in Actors, MergeCode(a) PROVE CodeInv'
  <2>1. UNCHANGED <<facts, cand>> /\ target' = [target EXCEPT ![a] = @ \cup {cand[a]}]
        /\ pc' = [pc EXCEPT ![a] = "merge-record"]
    BY <1>13 DEF MergeCode
  <2>2. Shape' /\ (\A b \in Actors : target[b] \subseteq target'[b])
        /\ cand'[a] \in target'[a] /\ \A b \in Actors : b # a => pc'[b] = pc[b]
    BY <2>1 DEF CodeInv, Shape
  <2>3. \A b \in Actors : \A e \in Own(b)' : e \in Own(b)
    BY <2>1, SameOwn
  <2> QED BY <2>1, <2>2, <2>3, KeepsCodeFirst
<1>14. ASSUME NEW a \in Actors, MergeRecord(a) PROVE CodeInv'
  <2>1. AppendEvent(a, "proposal.merged", cand[a], "none", proof[a]) /\ Return(a)
        /\ UNCHANGED target /\ pc[a] = "merge-record"
    BY <1>14 DEF MergeRecord
  <2>2. Shape'
    BY <2>1, AppendOwn, ReturnMoves DEF CodeInv, Shape
  <2>3. cand[a] \in target'[a]
    BY <2>1 DEF CodeInv, PastCode
  <2>4. \A b \in Actors : \A e \in Own(b)' :
          e \in Own(b) \/ e.kind # "proposal.merged" \/ e.subject \in target'[b]
    BY <2>1, <2>3, AppendOwn
  <2> QED BY <2>1, <2>2, <2>4, ReturnMoves, KeepsCodeFirst
<1>15. ASSUME NEW a \in Actors, RepairReload(a) PROVE CodeInv'
  <2>1. cand[a] \in target[a]
    BY <1>15 DEF RepairReload, CodeInv, PastCode
  <2> QED BY <1>15, <2>1, MoveKeeps DEF RepairReload
<1>16. ASSUME NEW a \in Actors, Refuse(a) \/ Fail(a) PROVE CodeInv'
  <2>1. UNCHANGED <<facts, target>> /\ Return(a)
    BY <1>16 DEF Refuse, Fail
  <2>2. Shape'
    BY <2>1, ReturnMoves DEF CodeInv, Shape
  <2>3. \A b \in Actors : \A e \in Own(b)' : e \in Own(b)
    BY <2>1, SameOwn
  <2> QED BY <2>1, <2>2, <2>3, ReturnMoves, KeepsCodeFirst
<1>17. ASSUME NEW a \in Actors, NEW b \in Actors, Sync(a, b) PROVE CodeInv'
  <2>1. UNCHANGED <<target, pc, cand>>
    BY <1>17 DEF Sync, command
  <2>2. Shape'
    BY <1>17, <2>1, SyncOwn DEF CodeInv, Shape
  <2> QED BY <1>17, <2>1, <2>2, SyncOwn, KeepsCodeFirst
<1>18. ASSUME NEW a \in Actors, NEW b \in Actors, PullTarget(a, b) PROVE CodeInv'
  <2>1. UNCHANGED <<facts, pc, cand>> /\ target' = [target EXCEPT ![a] = target[b]]
        /\ target[a] \subseteq target[b]
    BY <1>18 DEF PullTarget, command
  <2>2. Shape' /\ \A c \in Actors : target[c] \subseteq target'[c]
    BY <2>1 DEF CodeInv, Shape
  <2>3. \A c \in Actors : \A e \in Own(c)' : e \in Own(c)
    BY <2>1, SameOwn
  <2> QED BY <2>1, <2>2, <2>3, KeepsCodeFirst
<1> QED
  BY <1>1, <1>2, <1>3, <1>4, <1>5, <1>6, <1>7, <1>8, <1>9, <1>10, <1>11, <1>12,
     <1>13, <1>14, <1>15, <1>16, <1>17, <1>18 DEF Next, Step

\* No maintainer's log holds a merge event for code its target branch lacks,
\* whatever crashes, repairs, syncs and other maintainers do.
THEOREM CodeBeforeRecord == Spec => []RecordedAfterCode
<1>1. Init => CodeInv
  BY DEF Init, CodeInv, Shape, PastCode, RecordedAfterCode, Own
<1>2. CodeInv => RecordedAfterCode
  BY DEF CodeInv
<1> QED BY <1>1, <1>2, CodeStep, PTL DEF Spec

----------------------------------------------------------------------------
(* What the commands write is what the readers accept.  A command evaluates *)
(* a view that grows before it writes; what it found must still be there,   *)
(* and must be what a reader counts, in its own clone and in every other.   *)

\* The functions this argument updates.
ViewShape == Shape /\ proof = [a \in Actors |-> proof[a]]

\* An actor's clone has all its events, numbered without a gap; all that a clone
\* knows of an actor is in that actor's clone.
SignedOnce ==
  /\ \A a \in Actors : IsFiniteSet(facts[a])
  /\ \A a \in Actors : \A e \in facts[a] : e.actor \in Actors /\ e \in facts[e.actor]
  /\ \A a \in Actors : \A e \in Own(a) : e.sequence \in 1..Cardinality(Own(a))
  /\ \A a \in Actors : \A e, f \in Own(a) : e.sequence = f.sequence => e = f

\* A running command has a candidate of the view F, and the evidence E it found is
\* still in F and still enough.
Sound(a, F, step, p, E) ==
  /\ step # "idle" => a \in Maintainers /\ p \in Candidates(F)
  /\ step = "decide-record" =>
       /\ E \subseteq IdsOf(F)
       /\ Cardinality(Approvers(F, p, E)) >= RequiredApprovals
       /\ Cardinality(Runners(F, p, E)) >= RequiredResults
  /\ step \in {"merge-inspect", "merge-reload", "merge-code", "merge-record", "repair-reload"} =>
       Cardinality(Acceptors(F, p, E)) >= RequiredAccepts

CommandsSound == \A a \in Actors : Sound(a, facts[a], pc[a], cand[a], proof[a])

ViewInv == ViewShape /\ SignedOnce /\ CommandsSound /\ EveryViewValid

\* Readers count actors: an enlarged set has at least as many of them.
LEMMA ActorsCounted ==
  ASSUME NEW S, NEW T, S \subseteq T, IsFiniteSet(T)
  PROVE  LET A == {e.actor : e \in S}
             B == {e.actor : e \in T}
         IN  /\ IsFiniteSet(A) /\ IsFiniteSet(B) /\ Cardinality(A) \in Nat /\ Cardinality(B) \in Nat
             /\ Cardinality(A) <= Cardinality(B)
<1> DEFINE A == {e.actor : e \in S}
           B == {e.actor : e \in T}
           f == [e \in T |-> e.actor]
<1>1. f \in Surjection(T, B)
  BY DEF Surjection
<1>2. IsFiniteSet(B)
  BY <1>1, FS_Surjection
<1>3. A \subseteq B
  OBVIOUS
<1> HIDE DEF A, B
<1>4. IsFiniteSet(A) /\ Cardinality(A) <= Cardinality(B)
  BY <1>2, <1>3, FS_Subset
<1> QED
  BY <1>2, <1>4, FS_CardinalityType DEF A, B

\* One event per actor is as many actors as events.
LEMMA OnePerActor ==
  ASSUME NEW S, IsFiniteSet(S), \A e, f \in S : e.actor = f.actor => e = f
  PROVE  LET A == {e.actor : e \in S}
         IN  /\ IsFiniteSet(A) /\ Cardinality(A) \in Nat /\ Cardinality(S) \in Nat
             /\ Cardinality(S) <= Cardinality(A)
<1> DEFINE A == {e.actor : e \in S}
           f == [e \in S |-> e.actor]
<1>1. f \in Injection(S, A) /\ f \in Surjection(S, A)
  BY DEF Injection, Surjection, IsInjective
<1>2. IsFiniteSet(A)
  BY <1>1, FS_Surjection
<1> HIDE DEF A, f
<1>3. Cardinality(S) <= Cardinality(A)
  BY <1>1, <1>2, FS_Injection
<1> QED
  BY <1>2, <1>3, FS_CardinalityType DEF A

\* What an event names, and readers look up, is all that its validity rests on.
LEMMA CountsKept ==
  ASSUME NEW F, NEW G, IsFiniteSet(G), NEW p, NEW E, \A f \in F : Id(f) \in E => f \in G
  PROVE  /\ Cardinality(Approvers(F, p, E)) \in Nat /\ Cardinality(Approvers(G, p, E)) \in Nat
         /\ Cardinality(Approvers(F, p, E)) <= Cardinality(Approvers(G, p, E))
         /\ Cardinality(Runners(F, p, E)) \in Nat /\ Cardinality(Runners(G, p, E)) \in Nat
         /\ Cardinality(Runners(F, p, E)) <= Cardinality(Runners(G, p, E))
         /\ Cardinality(Acceptors(F, p, E)) \in Nat /\ Cardinality(Acceptors(G, p, E)) \in Nat
         /\ Cardinality(Acceptors(F, p, E)) <= Cardinality(Acceptors(G, p, E))
<1> DEFINE approve(H) == {f \in H : /\ Id(f) \in E /\ f.kind = "review.submit"
                                    /\ f.subject = p /\ f.verdict = "approve"
                                    /\ MayApprove(f.actor, p)}
           run(H) == {f \in H : /\ Id(f) \in E /\ f.kind = "run.result"
                                /\ f.subject = p /\ f.verdict = "passed"
                                /\ f.actor \in TrustedRunners}
           accept(H) == {f \in H : /\ Id(f) \in E /\ f.kind = "proposal.decision"
                                   /\ f.subject = p /\ f.verdict = "accept"
                                   /\ f.actor \in Maintainers}
<1>1. approve(F) \subseteq approve(G) /\ run(F) \subseteq run(G) /\ accept(F) \subseteq accept(G)
  OBVIOUS
<1>2. approve(G) \subseteq G /\ run(G) \subseteq G /\ accept(G) \subseteq G
  OBVIOUS
<1>3. IsFiniteSet(approve(G)) /\ IsFiniteSet(run(G)) /\ IsFiniteSet(accept(G))
  <2> HIDE DEF approve, run, accept
  <2> QED BY <1>2, FS_Subset
<1>4. /\ Approvers(F, p, E) = {e.actor : e \in approve(F)} /\ Approvers(G, p, E) = {e.actor : e \in approve(G)}
      /\ Runners(F, p, E) = {e.actor : e \in run(F)} /\ Runners(G, p, E) = {e.actor : e \in run(G)}
      /\ Acceptors(F, p, E) = {e.actor : e \in accept(F)} /\ Acceptors(G, p, E) = {e.actor : e \in accept(G)}
  BY DEF Approvers, Runners, Acceptors
<1> HIDE DEF approve, run, accept
<1>5. /\ Cardinality(Approvers(F, p, E)) \in Nat /\ Cardinality(Approvers(G, p, E)) \in Nat
      /\ Cardinality(Approvers(F, p, E)) <= Cardinality(Approvers(G, p, E))
  BY <1>1, <1>3, <1>4, ActorsCounted
<1>6. /\ Cardinality(Runners(F, p, E)) \in Nat /\ Cardinality(Runners(G, p, E)) \in Nat
      /\ Cardinality(Runners(F, p, E)) <= Cardinality(Runners(G, p, E))
  BY <1>1, <1>3, <1>4, ActorsCounted
<1>7. /\ Cardinality(Acceptors(F, p, E)) \in Nat /\ Cardinality(Acceptors(G, p, E)) \in Nat
      /\ Cardinality(Acceptors(F, p, E)) <= Cardinality(Acceptors(G, p, E))
  BY <1>1, <1>3, <1>4, ActorsCounted
<1> QED
  BY <1>5, <1>6, <1>7

LEMMA CandidatesKept ==
  ASSUME NEW F, NEW G, NEW p, \A f \in F : Id(f) = p => f \in G, p \in Candidates(F)
  PROVE  p \in Candidates(G)
  BY DEF Candidates, Proposals, IdsOf

\* An event that is valid in a view is valid in one that has what it names.
LEMMA ValidKept ==
  ASSUME NEW F, NEW G, IsFiniteSet(G), NEW e, ValidRelationship(F, e),
         \A f \in F : Id(f) = e.subject \/ Id(f) \in e.evidence => f \in G
  PROVE  ValidRelationship(G, e)
<1>1. e.kind # "proposal.open" => e.subject \in Candidates(G)
  BY CandidatesKept DEF ValidRelationship
<1>2. ASSUME e.kind = "proposal.decision" PROVE ValidDecision(G, e)
  <2>1. ValidDecision(F, e)
    BY <1>2 DEF ValidRelationship
  <2>2. e.evidence \subseteq IdsOf(F) => e.evidence \subseteq IdsOf(G)
    BY DEF IdsOf
  <2> QED
    BY <2>1, <2>2, CountsKept, GovernanceAssumption DEF ValidDecision
<1>3. ASSUME e.kind = "proposal.merged" PROVE ValidMerge(G, e)
  BY <1>3, CountsKept, GovernanceAssumption DEF ValidRelationship, ValidMerge
<1> QED
  BY <1>1, <1>2, <1>3 DEF ValidRelationship

LEMMA SoundKept ==
  ASSUME NEW F, NEW G, F \subseteq G, IsFiniteSet(G), NEW a, NEW step, NEW p, NEW E,
         Sound(a, F, step, p, E)
  PROVE  Sound(a, G, step, p, E)
<1>1. p \in Candidates(F) => p \in Candidates(G)
  BY CandidatesKept
<1>2. E \subseteq IdsOf(F) => E \subseteq IdsOf(G)
  BY DEF IdsOf
<1> QED
  BY <1>1, <1>2, CountsKept, GovernanceAssumption DEF Sound

\* An id names one event, in whatever clones it is met.
LEMMA SameId ==
  ASSUME SignedOnce, NEW a \in Actors, NEW b \in Actors, NEW e \in facts[a], NEW f \in facts[b],
         Id(e) = Id(f)
  PROVE  e = f
<1>1. e.actor = f.actor /\ e.sequence = f.sequence
  BY DEF Id
<1>2. e \in Own(e.actor) /\ f \in Own(e.actor) /\ e.actor \in Actors
  BY <1>1 DEF SignedOnce, Own
<1> QED
  BY <1>1, <1>2 DEF SignedOnce

\* The current events of a kind are one per actor.
LEMMA CurrentOne ==
  ASSUME SignedOnce, NEW a \in Actors, NEW kind, NEW p, NEW S, S \subseteq Current(facts[a], kind, p)
  PROVE  IsFiniteSet(S) /\ \A e, f \in S : e.actor = f.actor => e = f
<1>1. S \subseteq facts[a]
  BY DEF Current
<1>2. IsFiniteSet(S)
  BY <1>1, FS_Subset DEF SignedOnce
<1>3. ASSUME NEW e \in S, NEW f \in S, e.actor = f.actor PROVE e = f
  <2>1. e.sequence <= f.sequence /\ f.sequence <= e.sequence
    BY <1>3 DEF Current
  <2>2. e.actor \in Actors /\ e \in Own(e.actor) /\ f \in Own(e.actor)
    BY <1>1, <1>3 DEF SignedOnce, Own
  <2>3. IsFiniteSet(Own(e.actor))
    BY <2>2, FS_Subset DEF SignedOnce, Own
  <2>4. e.sequence \in Nat /\ f.sequence \in Nat
    BY <2>2, <2>3, FS_CardinalityType DEF SignedOnce
  <2>5. e.sequence = f.sequence
    BY <2>1, <2>4
  <2> QED
    BY <2>2, <2>5 DEF SignedOnce
<1> QED
  BY <1>2, <1>3

\* The evidence of a ready candidate is enough for a reader who knows these events.
LEMMA EvidenceEnough ==
  ASSUME SignedOnce, NEW a \in Actors, NEW C, NEW p, Ready(facts[a], C, p)
  PROVE  LET E == Evidence(facts[a], p)
         IN  /\ E \subseteq IdsOf(facts[a])
             /\ Cardinality(Approvers(facts[a], p, E)) >= RequiredApprovals
             /\ Cardinality(Runners(facts[a], p, E)) >= RequiredResults
<1> DEFINE E == Evidence(facts[a], p)
           S == Approvals(facts[a], p)
           T == Passed(facts[a], p)
           U == {f \in facts[a] : /\ Id(f) \in E /\ f.kind = "review.submit"
                                  /\ f.subject = p /\ f.verdict = "approve"
                                  /\ MayApprove(f.actor, p)}
           V == {f \in facts[a] : /\ Id(f) \in E /\ f.kind = "run.result"
                                  /\ f.subject = p /\ f.verdict = "passed"
                                  /\ f.actor \in TrustedRunners}
<1>1. /\ S \subseteq Current(facts[a], "review.submit", p)
      /\ T \subseteq Current(facts[a], "run.result", p)
  BY DEF Approvals, Passed
<1>2. /\ E \subseteq IdsOf(facts[a])
      /\ S \subseteq U /\ T \subseteq V
  BY DEF Evidence, IdsOf, Approvals, Passed, Current
<1>3. /\ Approvers(facts[a], p, E) = {e.actor : e \in U}
      /\ Runners(facts[a], p, E) = {e.actor : e \in V}
  BY DEF Approvers, Runners
<1>4. U \subseteq facts[a] /\ V \subseteq facts[a]
  OBVIOUS
<1>5. Cardinality(S) >= RequiredApprovals /\ Cardinality(T) >= RequiredResults
  BY DEF Ready
<1> HIDE DEF E, S, T, U, V
<1>6. IsFiniteSet(U) /\ IsFiniteSet(V)
  BY <1>4, FS_Subset DEF SignedOnce
<1>7. /\ IsFiniteSet(S) /\ \A e, f \in S : e.actor = f.actor => e = f
      /\ IsFiniteSet(T) /\ \A e, f \in T : e.actor = f.actor => e = f
  BY <1>1, CurrentOne
<1>8. Cardinality(Approvers(facts[a], p, E)) >= RequiredApprovals
  <2>1. Cardinality({e.actor : e \in S}) >= Cardinality(S) /\ Cardinality(S) \in Nat
        /\ Cardinality({e.actor : e \in S}) \in Nat
    BY <1>7, OnePerActor
  <2>2. Cardinality({e.actor : e \in S}) <= Cardinality({e.actor : e \in U})
        /\ Cardinality({e.actor : e \in U}) \in Nat
    BY <1>2, <1>6, ActorsCounted
  <2> QED
    BY <1>3, <1>5, <2>1, <2>2, GovernanceAssumption
<1>9. Cardinality(Runners(facts[a], p, E)) >= RequiredResults
  <2>1. Cardinality({e.actor : e \in T}) >= Cardinality(T) /\ Cardinality(T) \in Nat
        /\ Cardinality({e.actor : e \in T}) \in Nat
    BY <1>7, OnePerActor
  <2>2. Cardinality({e.actor : e \in T}) <= Cardinality({e.actor : e \in V})
        /\ Cardinality({e.actor : e \in V}) \in Nat
    BY <1>2, <1>6, ActorsCounted
  <2> QED
    BY <1>3, <1>5, <2>1, <2>2, GovernanceAssumption
<1> QED
  BY <1>2, <1>8, <1>9 DEF E

\* So are the accepting decisions of an accepted one.
LEMMA AcceptsEnough ==
  ASSUME SignedOnce, NEW a \in Actors, NEW p, Accepted(facts[a], p)
  PROVE  Cardinality(Acceptors(facts[a], p, AcceptIds(facts[a], p))) >= RequiredAccepts
<1> DEFINE E == AcceptIds(facts[a], p)
           S == Decisions(facts[a], p, "accept")
           U == {f \in facts[a] : /\ Id(f) \in E /\ f.kind = "proposal.decision"
                                  /\ f.subject = p /\ f.verdict = "accept"
                                  /\ f.actor \in Maintainers}
<1>1. S \subseteq Current(facts[a], "proposal.decision", p)
  BY DEF Decisions
<1>2. S \subseteq U
  BY DEF AcceptIds, IdsOf, Decisions, Current
<1>3. Acceptors(facts[a], p, E) = {e.actor : e \in U}
  BY DEF Acceptors
<1>4. U \subseteq facts[a]
  OBVIOUS
<1>5. Cardinality(S) >= RequiredAccepts
  BY DEF Accepted
<1> HIDE DEF E, S, U
<1>6. IsFiniteSet(U)
  BY <1>4, FS_Subset DEF SignedOnce
<1>7. IsFiniteSet(S) /\ \A e, f \in S : e.actor = f.actor => e = f
  BY <1>1, CurrentOne
<1>8. Cardinality({e.actor : e \in S}) >= Cardinality(S) /\ Cardinality(S) \in Nat
      /\ Cardinality({e.actor : e \in S}) \in Nat
  BY <1>7, OnePerActor
<1>9. Cardinality({e.actor : e \in S}) <= Cardinality({e.actor : e \in U})
      /\ Cardinality({e.actor : e \in U}) \in Nat
  BY <1>2, <1>6, ActorsCounted
<1> QED
  BY <1>3, <1>5, <1>8, <1>9, GovernanceAssumption DEF E

----------------------------------------------------------------------------
(* What a step makes of the views. *)

\* The views after a step: those of the others are the same, that of a has grown.
ViewGrows(a, new) == facts' = [b \in Actors |-> IF b = a THEN facts[b] \cup new ELSE facts[b]]

LEMMA AppendSigned ==
  ASSUME ViewShape, SignedOnce, NEW a \in Actors, NEW kind, NEW p, NEW verdict, NEW evidence,
         AppendEvent(a, kind, p, verdict, evidence)
  PROVE  /\ SignedOnce'
         /\ \E e : /\ ViewGrows(a, {e}) /\ e \notin facts[a]
                   /\ e = [kind |-> kind, actor |-> a, sequence |-> NextSequence(a),
                           subject |-> p, verdict |-> verdict, evidence |-> evidence]
<1> DEFINE new == [kind |-> kind, actor |-> a, sequence |-> NextSequence(a),
                   subject |-> p, verdict |-> verdict, evidence |-> evidence]
           n == Cardinality(Own(a))
<1>1. facts' = [facts EXCEPT ![a] = @ \cup {new}]
  BY DEF AppendEvent
<1>2. new.actor = a /\ new.sequence = n + 1
  BY DEF NextSequence
<1>3. IsFiniteSet(Own(a))
  <2>1. Own(a) \subseteq facts[a] /\ IsFiniteSet(facts[a])
    BY DEF Own, SignedOnce
  <2> QED BY <2>1, FS_Subset
<1>4. n \in Nat
  BY <1>3, FS_CardinalityType
<1>4a. \A e \in Own(a) : e.sequence \in 1..n
  BY DEF SignedOnce
<1> HIDE DEF new, n
<1>5. new \notin Own(a)
  BY <1>2, <1>4, <1>4a
<1>6. new \notin facts[a]
  BY <1>2, <1>5 DEF Own
<1>7. ViewGrows(a, {new})
  BY <1>1 DEF ViewShape, Shape, ViewGrows
<1>8. Own(a)' = Own(a) \cup {new} /\ \A b \in Actors : b # a => Own(b)' = Own(b)
  BY <1>2, <1>7 DEF Own, ViewGrows
<1>9. Cardinality(Own(a)') = n + 1
  BY <1>3, <1>5, <1>8, FS_AddElement DEF n
<1>10. \A b \in Actors : IsFiniteSet(facts'[b])
  <2>1. IsFiniteSet(facts[a] \cup {new})
    BY FS_AddElement DEF SignedOnce
  <2> QED BY <2>1, <1>7 DEF ViewGrows, SignedOnce
<1>11. \A b \in Actors : \A e \in facts'[b] : e.actor \in Actors /\ e \in facts'[e.actor]
  BY <1>2, <1>7 DEF ViewGrows, SignedOnce
<1>12. \A b \in Actors : \A e \in Own(b)' : e.sequence \in 1..Cardinality(Own(b)')
  <2>1. \A e \in Own(a)' : e.sequence \in 1..Cardinality(Own(a)')
    BY <1>2, <1>4, <1>4a, <1>8, <1>9
  <2> QED BY <2>1, <1>8 DEF SignedOnce
<1>13. \A b \in Actors : \A e, f \in Own(b)' : e.sequence = f.sequence => e = f
  <2>1. \A e \in Own(a) : e.sequence # new.sequence
    BY <1>2, <1>4, <1>4a
  <2> QED BY <2>1, <1>8 DEF SignedOnce
<1>14. SignedOnce'
  BY <1>10, <1>11, <1>12, <1>13 DEF SignedOnce
<1> QED
  BY <1>6, <1>7, <1>14 DEF new

LEMMA SyncSigned ==
  ASSUME ViewShape, SignedOnce, NEW a \in Actors, NEW b \in Actors, Sync(a, b)
  PROVE  SignedOnce' /\ ViewGrows(a, Own(b))
<1>1. a # b /\ facts' = [facts EXCEPT ![a] = facts[a] \cup Own(b)]
  BY DEF Sync
<1>2. ViewGrows(a, Own(b))
  BY <1>1 DEF ViewShape, Shape, ViewGrows
<1>3. \A c \in Actors : Own(c)' = Own(c)
  BY <1>1, <1>2 DEF ViewGrows, Own
<1>4. IsFiniteSet(Own(b))
  <2>1. Own(b) \subseteq facts[b] /\ IsFiniteSet(facts[b])
    BY DEF Own, SignedOnce
  <2> QED BY <2>1, FS_Subset
<1>5. IsFiniteSet(facts[a] \cup Own(b))
  BY <1>4, FS_Union DEF SignedOnce
<1>6. \A c \in Actors : IsFiniteSet(facts'[c])
  BY <1>2, <1>5 DEF ViewGrows, SignedOnce
<1>7. \A c \in Actors : \A e \in facts'[c] : e.actor \in Actors /\ e \in facts'[e.actor]
  <2>1. \A c \in Actors : facts[c] \subseteq facts'[c]
    BY <1>2 DEF ViewGrows
  <2>2. \A c \in Actors : \A e \in facts'[c] : \E d \in Actors : e \in facts[d]
    BY <1>2 DEF ViewGrows, Own
  <2> QED BY <2>1, <2>2 DEF SignedOnce
<1> QED
  BY <1>2, <1>3, <1>6, <1>7 DEF SignedOnce

\* A new event that is valid where it is signed leaves every view valid.
LEMMA AppendViews ==
  ASSUME ViewInv, NEW a \in Actors, NEW kind, NEW p, NEW verdict, NEW evidence,
         AppendEvent(a, kind, p, verdict, evidence),
         \A e : (/\ e.kind = kind /\ e.actor = a /\ e.subject = p /\ e.verdict = verdict
                 /\ e.evidence = evidence) => ValidRelationship(facts[a], e)
  PROVE  /\ SignedOnce' /\ EveryViewValid' /\ \A b \in Actors : facts[b] \subseteq facts'[b]
         /\ facts' = [b \in Actors |-> facts'[b]]
<1>1. ViewShape /\ SignedOnce /\ EveryViewValid
  BY DEF ViewInv
<1>2. PICK new : /\ ViewGrows(a, {new})
                 /\ new = [kind |-> kind, actor |-> a, sequence |-> NextSequence(a),
                           subject |-> p, verdict |-> verdict, evidence |-> evidence]
  BY <1>1, AppendSigned
<1>3. SignedOnce'
  BY <1>1, AppendSigned
<1>4. ValidRelationship(facts[a], new)
  BY <1>2
<1>5. \A b \in Actors : facts[b] \subseteq facts'[b] /\ IsFiniteSet(facts'[b])
  BY <1>2, <1>3 DEF ViewGrows, SignedOnce
<1>6. ASSUME NEW b \in Actors, NEW e \in facts'[b] PROVE ValidRelationship(facts'[b], e)
  <2>1. ValidRelationship(facts[b], e)
    BY <1>1, <1>2, <1>4, <1>6 DEF ViewGrows, EveryViewValid
  <2> QED
    BY <2>1, <1>5, ValidKept
<1>7. EveryViewValid'
  BY <1>6 DEF EveryViewValid
<1> QED
  BY <1>2, <1>3, <1>5, <1>7 DEF ViewGrows

\* A history that is accepted with all it names is valid where it arrives.
LEMMA SyncViews ==
  ASSUME ViewInv, NEW a \in Actors, NEW b \in Actors, Sync(a, b)
  PROVE  /\ SignedOnce' /\ EveryViewValid' /\ \A c \in Actors : facts[c] \subseteq facts'[c]
         /\ facts' = [c \in Actors |-> facts'[c]]
<1>1. ViewShape /\ SignedOnce /\ EveryViewValid
  BY DEF ViewInv
<1>2. SignedOnce' /\ ViewGrows(a, Own(b))
  BY <1>1, SyncSigned
<1> DEFINE G == facts[a] \cup Own(b)
<1>3. facts'[a] = G /\ IsFiniteSet(G) /\ Closed(G)
  BY <1>2 DEF ViewGrows, SignedOnce, Sync
<1>4. \A e \in G, f \in facts[b] : Id(e) = Id(f) => e = f
  BY <1>1, SameId DEF Own
<1>5. ASSUME NEW e \in Own(b) PROVE ValidRelationship(G, e)
  <2>1. ValidRelationship(facts[b], e)
    BY <1>1 DEF EveryViewValid, Own
  <2>2. CASE e.kind # "proposal.open"
    <3>1. e.subject \in IdsOf(G) /\ e.evidence \subseteq IdsOf(G)
      BY <1>3, <2>2 DEF Closed
    <3>2. \A f \in facts[b] : Id(f) \in IdsOf(G) => f \in G
      BY <1>4 DEF IdsOf
    <3> QED
      BY <1>3, <2>1, <3>1, <3>2, ValidKept
  <2>3. CASE e.kind = "proposal.open"
    BY <2>3 DEF ValidRelationship
  <2> QED
    BY <2>2, <2>3
<1>6. ASSUME NEW e \in facts[a] PROVE ValidRelationship(G, e)
  BY <1>1, <1>3, ValidKept DEF EveryViewValid
<1>7. EveryViewValid'
  BY <1>1, <1>2, <1>3, <1>5, <1>6 DEF EveryViewValid, ViewGrows
<1> QED
  BY <1>2, <1>7 DEF ViewGrows

\* Views only grow, so a command that does not move stays sound.
LEMMA CommandsKept ==
  ASSUME ViewInv, SignedOnce', \A b \in Actors : facts[b] \subseteq facts'[b], NEW a \in Actors,
         \A b \in Actors : b # a => pc'[b] = pc[b] /\ cand'[b] = cand[b] /\ proof'[b] = proof[b],
         Sound(a, facts'[a], pc'[a], cand'[a], proof'[a])
  PROVE  CommandsSound'
<1>1. \A b \in Actors : Sound(b, facts[b], pc[b], cand[b], proof[b])
  BY DEF ViewInv, CommandsSound
<1>2. ASSUME NEW b \in Actors, b # a PROVE Sound(b, facts'[b], pc'[b], cand'[b], proof'[b])
  <2>1. Sound(b, facts'[b], pc[b], cand[b], proof[b])
    BY <1>1, SoundKept DEF SignedOnce
  <2> QED BY <1>2, <2>1
<1> QED
  BY <1>2 DEF CommandsSound

\* The commands that only append.
LEMMA AppendSound ==
  ASSUME ViewInv, NEW a \in Actors, NEW kind, NEW p, NEW verdict, NEW evidence,
         AppendEvent(a, kind, p, verdict, evidence), UNCHANGED <<target, command>>,
         \A e : (/\ e.kind = kind /\ e.actor = a /\ e.subject = p /\ e.verdict = verdict
                 /\ e.evidence = evidence) => ValidRelationship(facts[a], e)
  PROVE  ViewInv'
<1>1. /\ SignedOnce' /\ EveryViewValid' /\ \A b \in Actors : facts[b] \subseteq facts'[b]
      /\ facts' = [b \in Actors |-> facts'[b]]
  BY AppendViews
<1>2. Sound(a, facts'[a], pc'[a], cand'[a], proof'[a])
  BY <1>1, SoundKept DEF ViewInv, CommandsSound, SignedOnce, command
<1>3. CommandsSound'
  BY <1>1, <1>2, CommandsKept DEF command
<1> QED
  BY <1>1, <1>3 DEF ViewInv, ViewShape, Shape, command

\* A command that moves on and writes no event.
LEMMA MoveSound ==
  ASSUME ViewInv, NEW a \in Actors, UNCHANGED facts, ViewShape',
         \A b \in Actors : b # a => pc'[b] = pc[b] /\ cand'[b] = cand[b] /\ proof'[b] = proof[b],
         Sound(a, facts[a], pc'[a], cand'[a], proof'[a])
  PROVE  ViewInv'
<1>1. SignedOnce' /\ EveryViewValid' /\ \A b \in Actors : facts[b] \subseteq facts'[b]
  BY DEF ViewInv, SignedOnce, EveryViewValid, Own
<1>2. CommandsSound'
  BY <1>1, CommandsKept
<1> QED
  BY <1>1, <1>2 DEF ViewInv

LEMMA ReturnShape ==
  ASSUME ViewShape, NEW a \in Actors, Return(a)
  PROVE  /\ pc' = [b \in Actors |-> pc'[b]] /\ cand' = [b \in Actors |-> cand'[b]]
         /\ proof' = [b \in Actors |-> proof'[b]] /\ pc'[a] = "idle"
         /\ \A b \in Actors : b # a => pc'[b] = pc[b] /\ cand'[b] = cand[b] /\ proof'[b] = proof[b]
  BY DEF ViewShape, Shape, Return

\* A command that writes its event and returns.
LEMMA RecordSound ==
  ASSUME ViewInv, NEW a \in Actors, NEW kind, NEW p, NEW verdict, NEW evidence,
         AppendEvent(a, kind, p, verdict, evidence), Return(a), UNCHANGED target,
         \A e : (/\ e.kind = kind /\ e.actor = a /\ e.subject = p /\ e.verdict = verdict
                 /\ e.evidence = evidence) => ValidRelationship(facts[a], e)
  PROVE  ViewInv'
<1>1. /\ SignedOnce' /\ EveryViewValid' /\ \A b \in Actors : facts[b] \subseteq facts'[b]
      /\ facts' = [b \in Actors |-> facts'[b]]
  BY AppendViews
<1>2. /\ pc' = [b \in Actors |-> pc'[b]] /\ cand' = [b \in Actors |-> cand'[b]]
      /\ proof' = [b \in Actors |-> proof'[b]] /\ pc'[a] = "idle"
      /\ \A b \in Actors : b # a => pc'[b] = pc[b] /\ cand'[b] = cand[b] /\ proof'[b] = proof[b]
  BY ReturnShape DEF ViewInv
<1>3. Sound(a, facts'[a], pc'[a], cand'[a], proof'[a])
  BY <1>2 DEF Sound
<1>4. CommandsSound'
  BY <1>1, <1>2, <1>3, CommandsKept
<1> QED
  BY <1>1, <1>2, <1>4 DEF ViewInv, ViewShape, Shape

LEMMA ViewStep == ViewInv /\ [Next]_vars => ViewInv'
<1> SUFFICES ASSUME ViewInv, [Next]_vars PROVE ViewInv'
  OBVIOUS
<1>s. ViewShape /\ SignedOnce
  BY DEF ViewInv
<1>c. \A a \in Actors : Sound(a, facts[a], pc[a], cand[a], proof[a])
  BY DEF ViewInv, CommandsSound
<1>1. CASE UNCHANGED vars
  <2>1. UNCHANGED <<facts, target, pc, cand, proof>>
    BY <1>1 DEF vars, command
  <2>2. ViewShape'
    BY <1>s, <2>1 DEF ViewShape, Shape
  <2>3. SignedOnce' /\ EveryViewValid'
    BY <2>1 DEF ViewInv, SignedOnce, EveryViewValid, Own
  <2>4. CommandsSound'
    BY <1>c, <2>1 DEF CommandsSound
  <2> QED BY <2>2, <2>3, <2>4 DEF ViewInv
<1>2. ASSUME NEW a \in Actors, ProposalOpen(a) PROVE ViewInv'
  <2>1. \A e : e.kind = "proposal.open" => ValidRelationship(facts[a], e)
    BY DEF ValidRelationship
  <2> QED BY <1>2, <2>1, AppendSound DEF ProposalOpen
<1>3. ASSUME NEW a \in Actors, NEW p, ProposalRevise(a, p) PROVE ViewInv'
  <2>1. \A e : e.kind = "proposal.revise" /\ e.actor = a /\ e.subject = p => ValidRelationship(facts[a], e)
    BY <1>3 DEF ValidRelationship, ProposalRevise
  <2> QED BY <1>3, <2>1, AppendSound DEF ProposalRevise
<1>4. ASSUME NEW a \in Actors, NEW p, NEW v, Review(a, p, v) PROVE ViewInv'
  <2>1. \A e : e.kind = "review.submit" /\ e.subject = p => ValidRelationship(facts[a], e)
    BY <1>4 DEF ValidRelationship, Review
  <2> QED BY <1>4, <2>1, AppendSound DEF Review
<1>5. ASSUME NEW a \in Actors, NEW p, NEW o, RunExecute(a, p, o) PROVE ViewInv'
  <2>1. \A e : e.kind = "run.result" /\ e.subject = p => ValidRelationship(facts[a], e)
    BY <1>5 DEF ValidRelationship, RunExecute
  <2> QED BY <1>5, <2>1, AppendSound DEF RunExecute
<1>6. ASSUME NEW a \in Actors, NEW p, DecideReject(a, p) PROVE ViewInv'
  <2>1. \A e : (/\ e.kind = "proposal.decision" /\ e.actor = a /\ e.subject = p
                /\ e.verdict = "reject") => ValidRelationship(facts[a], e)
    BY <1>6 DEF ValidRelationship, ValidDecision, DecideReject
  <2> QED BY <1>6, <2>1, AppendSound DEF DecideReject
<1>7. ASSUME NEW a \in Actors, NEW p, DecideAccept(a, p) PROVE ViewInv'
  <2>1. /\ UNCHANGED <<facts, target, proof>> /\ a \in Maintainers /\ p \in Candidates(facts[a])
        /\ pc' = [pc EXCEPT ![a] = "decide-reload"] /\ cand' = [cand EXCEPT ![a] = p]
    BY <1>7 DEF DecideAccept
  <2>2. /\ ViewShape' /\ pc'[a] = "decide-reload" /\ cand'[a] = p
        /\ \A b \in Actors : b # a => pc'[b] = pc[b] /\ cand'[b] = cand[b] /\ proof'[b] = proof[b]
    BY <1>s, <2>1 DEF ViewShape, Shape
  <2>3. Sound(a, facts[a], pc'[a], cand'[a], proof'[a])
    BY <2>1, <2>2 DEF Sound
  <2> QED BY <2>1, <2>2, <2>3, MoveSound
<1>8. ASSUME NEW a \in Actors, DecideReload(a) PROVE ViewInv'
  <2>1. /\ UNCHANGED <<facts, target, cand>> /\ pc[a] = "decide-reload"
        /\ Ready(facts[a], code[a], cand[a])
        /\ pc' = [pc EXCEPT ![a] = "decide-record"]
        /\ proof' = [proof EXCEPT ![a] = Evidence(facts[a], cand[a])]
    BY <1>8 DEF DecideReload
  <2>2. /\ ViewShape' /\ pc'[a] = "decide-record" /\ cand'[a] = cand[a]
        /\ proof'[a] = Evidence(facts[a], cand[a])
        /\ \A b \in Actors : b # a => pc'[b] = pc[b] /\ cand'[b] = cand[b] /\ proof'[b] = proof[b]
    BY <1>s, <2>1 DEF ViewShape, Shape
  <2>3. Sound(a, facts[a], "decide-record", cand[a], Evidence(facts[a], cand[a]))
    BY <1>s, <1>c, <2>1, EvidenceEnough DEF Sound
  <2> QED BY <2>1, <2>2, <2>3, MoveSound
<1>9. ASSUME NEW a \in Actors, DecideRecord(a) PROVE ViewInv'
  <2>1. Sound(a, facts[a], "decide-record", cand[a], proof[a])
    BY <1>9, <1>c DEF DecideRecord
  <2>2. \A e : (/\ e.kind = "proposal.decision" /\ e.actor = a /\ e.subject = cand[a]
                /\ e.verdict = "accept" /\ e.evidence = proof[a]) => ValidRelationship(facts[a], e)
    BY <2>1 DEF ValidRelationship, ValidDecision, Sound
  <2> QED BY <1>9, <2>2, RecordSound DEF DecideRecord
<1>10. ASSUME NEW a \in Actors, NEW p, MergeEvaluate(a, p) PROVE ViewInv'
  <2>1. /\ UNCHANGED <<facts, target>> /\ a \in Maintainers /\ p \in Candidates(facts[a])
        /\ Accepted(facts[a], p)
        /\ pc' = [pc EXCEPT ![a] = "merge-inspect"] /\ cand' = [cand EXCEPT ![a] = p]
        /\ proof' = [proof EXCEPT ![a] = AcceptIds(facts[a], p)]
    BY <1>10 DEF MergeEvaluate, Mergeable
  <2>2. /\ ViewShape' /\ pc'[a] = "merge-inspect" /\ cand'[a] = p /\ proof'[a] = AcceptIds(facts[a], p)
        /\ \A b \in Actors : b # a => pc'[b] = pc[b] /\ cand'[b] = cand[b] /\ proof'[b] = proof[b]
    BY <1>s, <2>1 DEF ViewShape, Shape
  <2>3. Sound(a, facts[a], "merge-inspect", p, AcceptIds(facts[a], p))
    BY <1>s, <2>1, AcceptsEnough DEF Sound
  <2> QED BY <2>1, <2>2, <2>3, MoveSound
<1>11. ASSUME NEW a \in Actors, MergeInspect(a) PROVE ViewInv'
  <2> DEFINE next == IF cand[a] \in target[a] THEN "repair-reload"
                     ELSE IF Reloads THEN "merge-reload" ELSE "merge-code"
  <2>1. /\ UNCHANGED <<facts, target, cand, proof>> /\ pc[a] = "merge-inspect"
        /\ pc' = [pc EXCEPT ![a] = next]
    BY <1>11 DEF MergeInspect
  <2>2. next \in {"repair-reload", "merge-reload", "merge-code"}
    OBVIOUS
  <2> HIDE DEF next
  <2>3. /\ ViewShape' /\ pc'[a] = next
        /\ \A b \in Actors : b # a => pc'[b] = pc[b] /\ cand'[b] = cand[b] /\ proof'[b] = proof[b]
    BY <1>s, <2>1 DEF ViewShape, Shape
  <2>4. Sound(a, facts[a], next, cand[a], proof[a])
    BY <1>c, <2>1, <2>2 DEF Sound
  <2> QED BY <2>1, <2>3, <2>4, MoveSound
<1>12. ASSUME NEW a \in Actors, MergeReload(a) \/ RepairReload(a) PROVE ViewInv'
  <2>1. PICK next \in {"merge-code", "merge-record"} :
          /\ UNCHANGED <<facts, target, cand>> /\ pc[a] \in {"merge-reload", "repair-reload"}
          /\ Accepted(facts[a], cand[a])
          /\ pc' = [pc EXCEPT ![a] = next]
          /\ proof' = [proof EXCEPT ![a] = AcceptIds(facts[a], cand[a])]
    BY <1>12 DEF MergeReload, RepairReload, Mergeable
  <2>2. /\ ViewShape' /\ pc'[a] = next /\ cand'[a] = cand[a]
        /\ proof'[a] = AcceptIds(facts[a], cand[a])
        /\ \A b \in Actors : b # a => pc'[b] = pc[b] /\ cand'[b] = cand[b] /\ proof'[b] = proof[b]
    BY <1>s, <2>1 DEF ViewShape, Shape
  <2>3. Sound(a, facts[a], next, cand[a], AcceptIds(facts[a], cand[a]))
    BY <1>s, <1>c, <2>1, AcceptsEnough DEF Sound
  <2> QED BY <2>1, <2>2, <2>3, MoveSound
<1>13. ASSUME NEW a \in Actors, MergeCode(a) PROVE ViewInv'
  <2>1. /\ UNCHANGED <<facts, cand, proof>> /\ pc[a] = "merge-code"
        /\ target' = [target EXCEPT ![a] = @ \cup {cand[a]}]
        /\ pc' = [pc EXCEPT ![a] = "merge-record"]
    BY <1>13 DEF MergeCode
  <2>2. /\ ViewShape' /\ pc'[a] = "merge-record"
        /\ \A b \in Actors : b # a => pc'[b] = pc[b] /\ cand'[b] = cand[b] /\ proof'[b] = proof[b]
    BY <1>s, <2>1 DEF ViewShape, Shape
  <2>3. Sound(a, facts[a], "merge-record", cand[a], proof[a])
    BY <1>c, <2>1 DEF Sound
  <2> QED BY <2>1, <2>2, <2>3, MoveSound
<1>14. ASSUME NEW a \in Actors, MergeRecord(a) PROVE ViewInv'
  <2>1. Sound(a, facts[a], "merge-record", cand[a], proof[a])
    BY <1>14, <1>c DEF MergeRecord
  <2>2. \A e : (/\ e.kind = "proposal.merged" /\ e.actor = a /\ e.subject = cand[a]
                /\ e.verdict = "none" /\ e.evidence = proof[a]) => ValidRelationship(facts[a], e)
    BY <2>1 DEF ValidRelationship, ValidMerge, Sound
  <2> QED BY <1>14, <2>2, RecordSound DEF MergeRecord
<1>15. ASSUME NEW a \in Actors, Refuse(a) \/ Fail(a) PROVE ViewInv'
  <2>1. UNCHANGED <<facts, target>> /\ Return(a)
    BY <1>15 DEF Refuse, Fail
  <2>2. /\ ViewShape' /\ pc'[a] = "idle"
        /\ \A b \in Actors : b # a => pc'[b] = pc[b] /\ cand'[b] = cand[b] /\ proof'[b] = proof[b]
    BY <1>s, <2>1, ReturnShape DEF ViewShape, Shape
  <2>3. Sound(a, facts[a], pc'[a], cand'[a], proof'[a])
    BY <2>2 DEF Sound
  <2> QED BY <2>1, <2>2, <2>3, MoveSound
<1>16. ASSUME NEW a \in Actors, NEW b \in Actors, Sync(a, b) PROVE ViewInv'
  <2>1. UNCHANGED <<target, pc, cand, proof>>
    BY <1>16 DEF Sync, command
  <2>2. /\ SignedOnce' /\ EveryViewValid' /\ \A c \in Actors : facts[c] \subseteq facts'[c]
        /\ facts' = [c \in Actors |-> facts'[c]]
    BY <1>16, SyncViews
  <2>3. Sound(a, facts'[a], pc'[a], cand'[a], proof'[a])
    BY <1>c, <2>1, <2>2, SoundKept DEF SignedOnce
  <2>4. CommandsSound'
    BY <2>1, <2>2, <2>3, CommandsKept
  <2> QED BY <1>s, <2>1, <2>2, <2>4 DEF ViewInv, ViewShape, Shape
<1>17. ASSUME NEW a \in Actors, NEW b \in Actors, PullTarget(a, b) PROVE ViewInv'
  <2>1. UNCHANGED <<facts, pc, cand, proof>> /\ target' = [target EXCEPT ![a] = target[b]]
    BY <1>17 DEF PullTarget, command
  <2>2. ViewShape'
    BY <1>s, <2>1 DEF ViewShape, Shape
  <2> QED BY <1>c, <2>1, <2>2, MoveSound
<1> QED
  BY <1>1, <1>2, <1>3, <1>4, <1>5, <1>6, <1>7, <1>8, <1>9, <1>10, <1>11, <1>12,
     <1>13, <1>14, <1>15, <1>16, <1>17 DEF Next, Step

\* No clone ever holds a set of events that validateEventRelationships refuses:
\* evaluateProposal and the readers agree on the evidence of every decision and
\* merge, for any policy, and however views grow between a command's evaluation
\* and its event, and events arrive at other clones.
THEOREM ViewsValid == Spec => []EveryViewValid
<1>1. Init => ViewInv
  BY FS_EmptySet DEF Init, ViewInv, ViewShape, Shape, SignedOnce, CommandsSound, Sound,
      EveryViewValid, Own
<1>2. ViewInv => EveryViewValid
  BY DEF ViewInv
<1> QED BY <1>1, <1>2, ViewStep, PTL DEF Spec

----------------------------------------------------------------------------
(* Lineages.  The root of a candidate is the same in every view that has    *)
(* the candidate, so what a maintainer's evaluation said of a lineage holds *)
(* until its command signs.                                                 *)

\* A view, as far as lineages are concerned: one event per id, and what was
\* revised is there.
Lineal(F) ==
  /\ \A e, f \in F : Id(e) = Id(f) => e = f
  /\ \A e \in F : e.kind # "proposal.open" => e.subject \in Candidates(F)

LEMMA ViewsLineal ==
  ASSUME ViewInv, NEW a \in Actors
  PROVE  Lineal(facts[a])
<1>1. SignedOnce /\ EveryViewValid
  BY DEF ViewInv
<1>2. \A e, f \in facts[a] : Id(e) = Id(f) => e = f
  BY <1>1, SameId
<1>3. \A e \in facts[a] : e.kind # "proposal.open" => e.subject \in Candidates(facts[a])
  BY <1>1 DEF EveryViewValid, ValidRelationship
<1> QED BY <1>2, <1>3 DEF Lineal

LEMMA LinealNext ==
  ASSUME ViewInv', NEW a \in Actors
  PROVE  Lineal(facts'[a])
<1>1. SignedOnce' /\ EveryViewValid'
  BY DEF ViewInv
<1>2. ASSUME NEW e \in facts'[a], NEW f \in facts'[a], Id(e) = Id(f) PROVE e = f
  <2>1. e.actor = f.actor /\ e.sequence = f.sequence
    BY <1>2 DEF Id
  <2>2. e \in Own(e.actor)' /\ f \in Own(e.actor)' /\ e.actor \in Actors
    BY <1>1, <2>1 DEF SignedOnce, Own
  <2> QED BY <1>1, <2>1, <2>2 DEF SignedOnce
<1>3. \A e \in facts'[a] : e.kind # "proposal.open" => e.subject \in Candidates(facts'[a])
  BY <1>1 DEF EveryViewValid, ValidRelationship
<1> QED BY <1>2, <1>3 DEF Lineal

\* A larger view has no other event for a candidate of a smaller one.
LEMMA CandidateEvent ==
  ASSUME NEW F, NEW G, F \subseteq G, Lineal(G), NEW e \in G, Id(e) \in Candidates(F)
  PROVE  e \in F /\ e \in Proposals(F)
<1>1. PICK f \in Proposals(F) : Id(f) = Id(e)
  BY DEF Candidates, IdsOf
<1>2. f \in F
  BY DEF Proposals
<1> QED BY <1>1, <1>2 DEF Lineal

\* What a set contains that holds every revision's predecessor.
Walked(F, S) ==
  \A e \in Proposals(F) : e.kind = "proposal.revise" /\ Id(e) \in S => e.subject \in S

LEMMA AncestryStable ==
  ASSUME NEW F, NEW G, F \subseteq G, Lineal(F), Lineal(G), NEW p \in Candidates(F)
  PROVE  Ancestry(F, p) = Ancestry(G, p)
<1>1. Proposals(F) \subseteq Proposals(G) /\ Candidates(F) \subseteq Candidates(G)
  BY DEF Proposals, Candidates, IdsOf
<1>2. \A H : Ancestry(H, p) = {q \in Candidates(H) : \A S \in SUBSET Candidates(H) :
                                p \in S /\ Walked(H, S) => q \in S}
  BY DEF Ancestry, Walked
<1>3. ASSUME NEW q \in Ancestry(F, p) PROVE q \in Ancestry(G, p)
  <2>1. q \in Candidates(G)
    BY <1>1, <1>2
  <2>2. ASSUME NEW S \in SUBSET Candidates(G), p \in S, Walked(G, S) PROVE q \in S
    <3> DEFINE T == S \cap Candidates(F)
    <3>1. ASSUME NEW e \in Proposals(F), e.kind = "proposal.revise", Id(e) \in T
          PROVE  e.subject \in T
      <4>1. e.subject \in S
        BY <1>1, <2>2, <3>1 DEF Walked
      <4>2. e.subject \in Candidates(F)
        BY <3>1 DEF Lineal, Proposals
      <4> QED BY <4>1, <4>2
    <3>2. Walked(F, T)
      BY <3>1 DEF Walked
    <3>3. T \in SUBSET Candidates(F) /\ p \in T
      BY <2>2
    <3> HIDE DEF T
    <3>4. q \in T
      BY <1>2, <3>2, <3>3
    <3> QED BY <3>4 DEF T
  <2> QED BY <1>2, <2>1, <2>2
<1>4. ASSUME NEW q \in Ancestry(G, p) PROVE q \in Ancestry(F, p)
  <2>1. ASSUME NEW S \in SUBSET Candidates(F), p \in S, Walked(F, S) PROVE q \in S
    <3>1. ASSUME NEW e \in Proposals(G), e.kind = "proposal.revise", Id(e) \in S
          PROVE  e.subject \in S
      <4>1. e \in G /\ Id(e) \in Candidates(F)
        BY <2>1, <3>1 DEF Proposals
      <4>2. e \in Proposals(F)
        BY <4>1, CandidateEvent
      <4> QED BY <2>1, <3>1, <4>2 DEF Walked
    <3>2. Walked(G, S)
      BY <3>1 DEF Walked
    <3>3. S \in SUBSET Candidates(G)
      BY <1>1
    <3> QED BY <1>2, <2>1, <3>2, <3>3
  <2>2. Walked(F, Candidates(F))
    BY DEF Walked, Lineal, Proposals
  <2>3. q \in Candidates(F)
    BY <2>1, <2>2
  <2> QED BY <1>2, <2>1, <2>3
<1> QED BY <1>3, <1>4

\* The walk to the root of a candidate goes the same way in a larger view.
LEMMA RootStable ==
  ASSUME NEW F, NEW G, F \subseteq G, Lineal(F), Lineal(G), NEW p \in Candidates(F)
  PROVE  Root(F, p) = Root(G, p)
<1> DEFINE open(H) == IdsOf({e \in H : e.kind = "proposal.open"})
<1>1. Ancestry(F, p) = Ancestry(G, p)
  BY AncestryStable
<1>2. Ancestry(F, p) \subseteq Candidates(F)
  BY DEF Ancestry
<1>3. ASSUME NEW q \in Ancestry(F, p) PROVE q \in open(F) <=> q \in open(G)
  <2>1. q \in open(F) => q \in open(G)
    BY DEF IdsOf
  <2>2. ASSUME q \in open(G) PROVE q \in open(F)
    <3>1. PICK e \in G : e.kind = "proposal.open" /\ Id(e) = q
      BY <2>2 DEF IdsOf
    <3>2. e \in F
      BY <1>2, <3>1, CandidateEvent
    <3> QED BY <3>1, <3>2 DEF IdsOf
  <2> QED BY <2>1, <2>2
<1>4. Ancestry(F, p) \cap open(F) = Ancestry(G, p) \cap open(G)
  BY <1>1, <1>3
<1> QED BY <1>4 DEF Root

----------------------------------------------------------------------------
(* One merge per lineage and maintainer.                                    *)

Merging == {"merge-inspect", "merge-reload", "merge-code", "merge-record", "repair-reload"}

OwnMerges(a) == {e \in Own(a) : e.kind = "proposal.merged"}

\* The merges a maintainer signed are of candidates of different lineages, or of
\* one candidate; while it merges another, of none of that candidate's lineage.
Apart(F, M, step, p) ==
  /\ \A e, f \in M : Root(F, e.subject) = Root(F, f.subject) => e.subject = f.subject
  /\ step \in Merging => \A e \in M : Root(F, e.subject) # Root(F, p)

MergesApart == \A a \in Actors : Apart(facts[a], OwnMerges(a), pc[a], cand[a])

LineageInv == ViewInv /\ MergesApart

\* A mergeable candidate has no merged relative, and nothing stands against it.
LEMMA MergeableAlone ==
  ASSUME NEW F, Lineal(F), NEW p \in Candidates(F), Mergeable(F, p)
  PROVE  /\ \A e \in F : e.kind = "proposal.merged" => Root(F, e.subject) # Root(F, p)
         /\ Blocks(F, p) = {}
<1>1. MergedMembers(F, p) = {}
  BY DEF Mergeable, Eligible, MergedMembers
<1>2. Successors(F, p) = {} /\ Decisions(F, p, "reject") = {}
  BY DEF Mergeable, Eligible, Accepted, Rejected
<1>3. ASSUME NEW e \in F, e.kind = "proposal.merged" PROVE Root(F, e.subject) # Root(F, p)
  <2>1. e.subject \in Candidates(F) /\ Merged(F, e.subject)
    BY <1>3 DEF Lineal, Merged
  <2> QED BY <1>1, <2>1 DEF MergedMembers, Members
<1> QED BY <1>1, <1>2, <1>3 DEF Blocks

\* A view that grows by others' events changes no root, so nothing comes closer.
LEMMA ApartKept ==
  ASSUME NEW F, NEW G, F \subseteq G, Lineal(F), Lineal(G), NEW M, M \subseteq F,
         \A e \in M : e.kind = "proposal.merged", NEW step, NEW p,
         step \in Merging => p \in Candidates(F), Apart(F, M, step, p)
  PROVE  Apart(G, M, step, p)
<1>1. \A e \in M : e.subject \in Candidates(F)
  BY DEF Lineal
<1>2. \A e \in M : Root(F, e.subject) = Root(G, e.subject)
  BY <1>1, RootStable
<1>3. step \in Merging => Root(F, p) = Root(G, p)
  BY RootStable
<1> QED BY <1>2, <1>3 DEF Apart

\* What is enough for a step: views grow, and an actor that signs a merge, or
\* starts one, does so apart from its merges.
LEMMA ApartStep ==
  ASSUME LineageInv, ViewInv',
         \A a \in Actors : facts[a] \subseteq facts'[a],
         \A a \in Actors :
           \/ OwnMerges(a)' = OwnMerges(a) /\ (pc'[a] \in Merging => pc[a] \in Merging /\ cand'[a] = cand[a])
           \/ Apart(facts'[a], OwnMerges(a)', pc'[a], cand'[a])
  PROVE  LineageInv'
<1>1. ASSUME NEW a \in Actors PROVE Apart(facts'[a], OwnMerges(a)', pc'[a], cand'[a])
  <2>1. Lineal(facts[a]) /\ Apart(facts[a], OwnMerges(a), pc[a], cand[a])
    BY ViewsLineal DEF LineageInv, MergesApart
  <2>2. Lineal(facts'[a])
    BY LinealNext
  <2>3. facts[a] \subseteq facts'[a]
    OBVIOUS
  <2>4. OwnMerges(a) \subseteq facts[a] /\ \A e \in OwnMerges(a) : e.kind = "proposal.merged"
    BY DEF OwnMerges, Own
  <2>5. pc[a] \in Merging => cand[a] \in Candidates(facts[a])
    BY DEF LineageInv, ViewInv, CommandsSound, Sound, Merging
  <2>6. Apart(facts'[a], OwnMerges(a), pc[a], cand[a])
    BY <2>1, <2>2, <2>3, <2>4, <2>5, ApartKept
  <2> QED BY <2>6 DEF Apart
<1> QED BY <1>1 DEF LineageInv, MergesApart

\* A step of a that signs no merge leaves its merges as they are.
LEMMA MergesSame ==
  ASSUME ViewInv, NEW a \in Actors, NEW kind, NEW p, NEW verdict, NEW evidence,
         AppendEvent(a, kind, p, verdict, evidence)
  PROVE  /\ \A b \in Actors : facts[b] \subseteq facts'[b]
         /\ \A b \in Actors : b # a => OwnMerges(b)' = OwnMerges(b)
         /\ kind # "proposal.merged" => OwnMerges(a)' = OwnMerges(a)
         /\ \A e \in OwnMerges(a)' : e \in OwnMerges(a) \/ e.subject = p
<1>1. PICK new : /\ ViewGrows(a, {new})
                 /\ new = [kind |-> kind, actor |-> a, sequence |-> NextSequence(a),
                           subject |-> p, verdict |-> verdict, evidence |-> evidence]
  BY AppendSigned DEF ViewInv
<1>2. new.kind = kind /\ new.actor = a /\ new.subject = p
  BY <1>1
<1> QED BY <1>1, <1>2 DEF ViewGrows, OwnMerges, Own

LEMMA SyncMerges ==
  ASSUME ViewInv, NEW a \in Actors, NEW b \in Actors, Sync(a, b)
  PROVE  /\ \A c \in Actors : facts[c] \subseteq facts'[c]
         /\ \A c \in Actors : OwnMerges(c)' = OwnMerges(c)
<1>1. ViewGrows(a, Own(b)) /\ a # b
  BY SyncSigned DEF ViewInv, Sync
<1> QED BY <1>1 DEF ViewGrows, OwnMerges, Own

\* A merge event that is signed is apart from those its maintainer signed before.
LEMMA RecordApart ==
  ASSUME LineageInv, NEW a \in Actors, MergeRecord(a), Lineal(facts'[a])
  PROVE  Apart(facts'[a], OwnMerges(a)', pc'[a], cand'[a])
<1>1. /\ pc[a] = "merge-record" /\ Return(a)
      /\ AppendEvent(a, "proposal.merged", cand[a], "none", proof[a])
  BY DEF MergeRecord
<1>2. /\ facts[a] \subseteq facts'[a]
      /\ \A e \in OwnMerges(a)' : e \in OwnMerges(a) \/ e.subject = cand[a]
  BY <1>1, MergesSame DEF LineageInv
<1>3. pc'[a] = "idle"
  BY <1>1 DEF Return, LineageInv, ViewInv, ViewShape, Shape
<1>4. Lineal(facts[a]) /\ cand[a] \in Candidates(facts[a])
  BY <1>1, ViewsLineal DEF LineageInv, ViewInv, CommandsSound, Sound
<1>5. OwnMerges(a) \subseteq facts[a] /\ \A e \in OwnMerges(a) : e.kind = "proposal.merged"
  BY DEF OwnMerges, Own
<1>6. Apart(facts[a], OwnMerges(a), "merge-record", cand[a])
  BY <1>1 DEF LineageInv, MergesApart
<1>7. Apart(facts'[a], OwnMerges(a), "merge-record", cand[a])
  BY <1>2, <1>4, <1>5, <1>6, ApartKept
<1> QED BY <1>2, <1>3, <1>7 DEF Apart, Merging

\* A command that appends no merge event, and does not start to merge.
LEMMA AppendApart ==
  ASSUME LineageInv, ViewInv', NEW a \in Actors, NEW kind, NEW p, NEW verdict, NEW evidence,
         AppendEvent(a, kind, p, verdict, evidence), kind # "proposal.merged",
         \A b \in Actors : pc'[b] \in Merging => pc[b] \in Merging /\ cand'[b] = cand[b]
  PROVE  LineageInv'
<1>1. /\ \A b \in Actors : facts[b] \subseteq facts'[b]
      /\ \A b \in Actors : OwnMerges(b)' = OwnMerges(b)
  BY MergesSame DEF LineageInv
<1> QED BY <1>1, ApartStep

\* A command that moves on, writes no event and does not start to merge.
LEMMA MoveApart ==
  ASSUME LineageInv, ViewInv', UNCHANGED facts,
         \A b \in Actors : pc'[b] \in Merging => pc[b] \in Merging /\ cand'[b] = cand[b]
  PROVE  LineageInv'
<1>1. /\ \A b \in Actors : facts[b] \subseteq facts'[b]
      /\ \A b \in Actors : OwnMerges(b)' = OwnMerges(b)
  BY DEF OwnMerges, Own
<1> QED BY <1>1, ApartStep

LEMMA LineageStep == LineageInv /\ [Next]_vars => LineageInv'
<1> SUFFICES ASSUME LineageInv, [Next]_vars PROVE LineageInv'
  OBVIOUS
<1>v. ViewInv /\ ViewInv' /\ ViewShape
  BY ViewStep DEF LineageInv, ViewInv
<1>r. ASSUME NEW a \in Actors, Return(a)
      PROVE  \A b \in Actors : pc'[b] \in Merging => pc[b] \in Merging /\ cand'[b] = cand[b]
  BY <1>v, <1>r, ReturnShape DEF Merging
<1>1. CASE UNCHANGED vars
  BY <1>1, <1>v, MoveApart DEF vars, command
<1>2. ASSUME NEW a \in Actors, ProposalOpen(a) PROVE LineageInv'
  <2>1. UNCHANGED <<pc, cand>>
    BY <1>2 DEF ProposalOpen, command
  <2> QED BY <1>v, <1>2, <2>1, AppendApart DEF ProposalOpen
<1>3. ASSUME NEW a \in Actors, NEW p, ProposalRevise(a, p) PROVE LineageInv'
  <2>1. UNCHANGED <<pc, cand>>
    BY <1>3 DEF ProposalRevise, command
  <2> QED BY <1>v, <1>3, <2>1, AppendApart DEF ProposalRevise
<1>4. ASSUME NEW a \in Actors, NEW p, NEW v, Review(a, p, v) PROVE LineageInv'
  <2>1. UNCHANGED <<pc, cand>>
    BY <1>4 DEF Review, command
  <2> QED BY <1>v, <1>4, <2>1, AppendApart DEF Review
<1>5. ASSUME NEW a \in Actors, NEW p, NEW o, RunExecute(a, p, o) PROVE LineageInv'
  <2>1. UNCHANGED <<pc, cand>>
    BY <1>5 DEF RunExecute, command
  <2> QED BY <1>v, <1>5, <2>1, AppendApart DEF RunExecute
<1>6. ASSUME NEW a \in Actors, NEW p, DecideReject(a, p) PROVE LineageInv'
  <2>1. UNCHANGED <<pc, cand>>
    BY <1>6 DEF DecideReject, command
  <2> QED BY <1>v, <1>6, <2>1, AppendApart DEF DecideReject
<1>7. ASSUME NEW a \in Actors, NEW p, DecideAccept(a, p) PROVE LineageInv'
  <2>1. /\ UNCHANGED facts /\ pc' = [pc EXCEPT ![a] = "decide-reload"]
        /\ cand' = [cand EXCEPT ![a] = p]
    BY <1>7 DEF DecideAccept
  <2>2. \A b \in Actors : pc'[b] \in Merging => pc[b] \in Merging /\ cand'[b] = cand[b]
    BY <1>v, <2>1 DEF ViewShape, Shape, Merging
  <2> QED BY <1>v, <2>1, <2>2, MoveApart
<1>8. ASSUME NEW a \in Actors, DecideReload(a) PROVE LineageInv'
  <2>1. UNCHANGED <<facts, cand>> /\ pc' = [pc EXCEPT ![a] = "decide-record"]
    BY <1>8 DEF DecideReload
  <2>2. \A b \in Actors : pc'[b] \in Merging => pc[b] \in Merging /\ cand'[b] = cand[b]
    BY <1>v, <2>1 DEF ViewShape, Shape, Merging
  <2> QED BY <1>v, <2>1, <2>2, MoveApart
<1>9. ASSUME NEW a \in Actors, DecideRecord(a) PROVE LineageInv'
  BY <1>v, <1>r, <1>9, AppendApart DEF DecideRecord
<1>10. ASSUME NEW a \in Actors, NEW p, MergeEvaluate(a, p) PROVE LineageInv'
  <2>1. /\ UNCHANGED facts /\ p \in Candidates(facts[a]) /\ Mergeable(facts[a], p)
        /\ pc' = [pc EXCEPT ![a] = "merge-inspect"] /\ cand' = [cand EXCEPT ![a] = p]
    BY <1>10 DEF MergeEvaluate
  <2>2. /\ pc'[a] = "merge-inspect" /\ cand'[a] = p
        /\ \A b \in Actors : b # a => pc'[b] = pc[b] /\ cand'[b] = cand[b]
    BY <1>v, <2>1 DEF ViewShape, Shape
  <2>3. \A b \in Actors : OwnMerges(b)' = OwnMerges(b)
    BY <2>1 DEF OwnMerges, Own
  <2>4. \A e \in OwnMerges(a) : Root(facts[a], e.subject) # Root(facts[a], p)
    BY <1>v, <2>1, ViewsLineal, MergeableAlone DEF OwnMerges, Own
  <2>5. Apart(facts'[a], OwnMerges(a)', pc'[a], cand'[a])
    BY <2>1, <2>2, <2>3, <2>4 DEF Apart, LineageInv, MergesApart
  <2>6. \A b \in Actors : facts[b] \subseteq facts'[b]
    BY <2>1
  <2> QED BY <1>v, <2>2, <2>3, <2>5, <2>6, ApartStep
<1>11. ASSUME NEW a \in Actors,
             MergeInspect(a) \/ MergeReload(a) \/ RepairReload(a) \/ MergeCode(a) PROVE LineageInv'
  <2>1. PICK next : UNCHANGED <<facts, cand>> /\ pc[a] \in Merging /\ pc' = [pc EXCEPT ![a] = next]
    BY <1>11 DEF MergeInspect, MergeReload, RepairReload, MergeCode, Merging
  <2>2. \A b \in Actors : pc'[b] \in Merging => pc[b] \in Merging /\ cand'[b] = cand[b]
    BY <1>v, <2>1 DEF ViewShape, Shape
  <2> QED BY <1>v, <2>1, <2>2, MoveApart
<1>12. ASSUME NEW a \in Actors, MergeRecord(a) PROVE LineageInv'
  <2>1. Apart(facts'[a], OwnMerges(a)', pc'[a], cand'[a])
    BY <1>v, <1>12, LinealNext, RecordApart
  <2>2. /\ \A b \in Actors : facts[b] \subseteq facts'[b]
        /\ \A b \in Actors : b # a => OwnMerges(b)' = OwnMerges(b)
    BY <1>v, <1>12, MergesSame DEF MergeRecord
  <2>3. \A b \in Actors : b # a => pc'[b] = pc[b] /\ cand'[b] = cand[b]
    BY <1>v, <1>12, ReturnShape DEF MergeRecord
  <2> QED BY <1>v, <2>1, <2>2, <2>3, ApartStep
<1>13. ASSUME NEW a \in Actors, Refuse(a) \/ Fail(a) PROVE LineageInv'
  BY <1>v, <1>r, <1>13, MoveApart DEF Refuse, Fail
<1>14. ASSUME NEW a \in Actors, NEW b \in Actors, Sync(a, b) PROVE LineageInv'
  <2>1. UNCHANGED <<pc, cand>>
    BY <1>14 DEF Sync, command
  <2> QED BY <1>v, <1>14, <2>1, SyncMerges, ApartStep
<1>15. ASSUME NEW a \in Actors, NEW b \in Actors, PullTarget(a, b) PROVE LineageInv'
  BY <1>v, <1>15, MoveApart DEF PullTarget, command
<1> QED
  BY <1>1, <1>2, <1>3, <1>4, <1>5, <1>6, <1>7, <1>8, <1>9, <1>10, <1>11, <1>12,
     <1>13, <1>14, <1>15 DEF Next, Step

\* A maintainer never signs merges of two candidates of one lineage: what
\* requireLineageTerminalEligibility said when merge evaluated its candidate is
\* still true of the maintainer's own merges when appendProposalMergeEvent signs,
\* whatever revisions, decisions and merges arrived in between.
THEOREM LineagesMergedOnce == Spec => []OneMergePerLineage
<1>1. Init => LineageInv
  BY FS_EmptySet DEF Init, LineageInv, ViewInv, ViewShape, Shape, SignedOnce, CommandsSound, Sound,
      EveryViewValid, Own, MergesApart, Apart, OwnMerges, Merging
<1>2. ASSUME LineageInv PROVE OneMergePerLineage
  <2> SUFFICES ASSUME NEW a \in Actors, NEW p \in Candidates(facts[a])
               PROVE  Cardinality({q \in Members(facts[a], p) :
                        \E e \in Own(a) : e.kind = "proposal.merged" /\ e.subject = q}) <= 1
    BY DEF OneMergePerLineage
  <2> DEFINE S == {q \in Members(facts[a], p) :
                     \E e \in Own(a) : e.kind = "proposal.merged" /\ e.subject = q}
  <2>1. \A q, r \in S : q = r
    BY <1>2 DEF LineageInv, MergesApart, Apart, OwnMerges, Members
  <2> HIDE DEF S
  <2>2. CASE S = {}
    BY <2>2, FS_EmptySet DEF S
  <2>3. ASSUME NEW q \in S PROVE Cardinality(S) <= 1
    <3>1. S = {q}
      BY <2>1, <2>3
    <3> QED BY <3>1, FS_Singleton
  <2> QED BY <2>2, <2>3 DEF S
<1> QED BY <1>1, <1>2, LineageStep, PTL DEF Spec

----------------------------------------------------------------------------
(* What a reload protects.  Blocks that arrive after it may stand against a *)
(* merge; a block that was known before it and still stands does not.       *)

\* What stands against a candidate in a larger view, of the events of a smaller
\* one, stood against it in the smaller one.
LEMMA BlocksShrink ==
  ASSUME NEW F, NEW G, F \subseteq G, Lineal(F), Lineal(G), NEW p \in Candidates(F)
  PROVE  Blocks(G, p) \cap F \subseteq Blocks(F, p)
<1> SUFFICES ASSUME NEW e \in F, e \in Blocks(G, p) PROVE e \in Blocks(F, p)
  OBVIOUS
<1>1. CASE e \in Decisions(G, p, "reject")
  BY <1>1 DEF Decisions, Current, Blocks
<1>2. CASE e \in Successors(G, p)
  BY <1>2 DEF Successors, Blocks
<1>3. CASE e.kind = "proposal.merged" /\ e.subject \in MergedMembers(G, p)
  <2>1. e.subject \in Candidates(F)
    BY <1>3 DEF Lineal
  <2>2. Root(F, e.subject) = Root(F, p)
    BY <1>3, <2>1, RootStable DEF MergedMembers, Members
  <2>3. Merged(F, e.subject)
    BY <1>3 DEF Merged
  <2> QED BY <1>3, <2>1, <2>2, <2>3 DEF Blocks, MergedMembers, Members
<1> QED BY <1>1, <1>2, <1>3 DEF Blocks

\* The blocks that merge knew are still there, and none of them stands once it
\* has evaluated again.
Cleared(F, step, p, known) ==
  /\ step \in {"merge-reload", "merge-code"} => known \subseteq F
  /\ step = "merge-code" => known \cap Blocks(F, p) = {}

ClearedInv ==
  /\ ViewInv /\ seen = [a \in Actors |-> seen[a]]
  /\ \A a \in Actors : Cleared(facts[a], pc[a], cand[a], seen[a])

LEMMA ClearedKept ==
  ASSUME NEW F, NEW G, F \subseteq G, Lineal(F), Lineal(G), NEW step, NEW p, NEW known,
         step # "idle" => p \in Candidates(F), Cleared(F, step, p, known)
  PROVE  Cleared(G, step, p, known)
<1>1. step \in {"merge-reload", "merge-code"} => known \subseteq G
  BY DEF Cleared
<1>2. ASSUME step = "merge-code" PROVE known \cap Blocks(G, p) = {}
  <2>1. Blocks(G, p) \cap F \subseteq Blocks(F, p)
    BY <1>2, BlocksShrink
  <2> QED BY <1>2, <2>1 DEF Cleared
<1> QED BY <1>1, <1>2 DEF Cleared

\* What is enough for a step: views grow, and a command that comes to its reload
\* or its commit is cleared.
LEMMA ClearedStep ==
  ASSUME ClearedInv, ViewInv', seen' = [a \in Actors |-> seen'[a]],
         \A a \in Actors : facts[a] \subseteq facts'[a],
         \A a \in Actors :
           \/ pc'[a] = pc[a] /\ cand'[a] = cand[a] /\ seen'[a] = seen[a]
           \/ Cleared(facts'[a], pc'[a], cand'[a], seen'[a])
  PROVE  ClearedInv'
<1>1. ASSUME NEW a \in Actors PROVE Cleared(facts'[a], pc'[a], cand'[a], seen'[a])
  <2>1. Lineal(facts[a]) /\ Lineal(facts'[a]) /\ facts[a] \subseteq facts'[a]
    BY ViewsLineal, LinealNext DEF ClearedInv
  <2>2. pc[a] # "idle" => cand[a] \in Candidates(facts[a])
    BY DEF ClearedInv, ViewInv, CommandsSound, Sound
  <2>3. Cleared(facts[a], pc[a], cand[a], seen[a])
    BY DEF ClearedInv
  <2>4. Cleared(facts'[a], pc[a], cand[a], seen[a])
    BY <2>1, <2>2, <2>3, ClearedKept
  <2> QED BY <2>4
<1> QED BY <1>1 DEF ClearedInv

\* A step of one command that is neither at its reload nor at its commit after it.
LEMMA ElsewhereCleared ==
  ASSUME ClearedInv, ViewInv', NEW a \in Actors,
         \A b \in Actors : facts[b] \subseteq facts'[b],
         seen' = [b \in Actors |-> seen'[b]],
         \A b \in Actors : b # a => pc'[b] = pc[b] /\ cand'[b] = cand[b] /\ seen'[b] = seen[b],
         pc'[a] \notin {"merge-reload", "merge-code"}
  PROVE  ClearedInv'
<1>1. Cleared(facts'[a], pc'[a], cand'[a], seen'[a])
  BY DEF Cleared
<1> QED BY <1>1, ClearedStep

LEMMA IdleCleared ==
  ASSUME ClearedInv, ViewInv', UNCHANGED <<pc, cand, seen>>,
         \A b \in Actors : facts[b] \subseteq facts'[b]
  PROVE  ClearedInv'
<1>1. seen' = [a \in Actors |-> seen'[a]]
  BY DEF ClearedInv
<1> QED BY <1>1, ClearedStep

LEMMA ReloadedStep ==
  ASSUME Reloads, ClearedInv, [Next]_vars
  PROVE  ClearedInv'
<1>v. ViewInv /\ ViewInv' /\ ViewShape /\ seen = [a \in Actors |-> seen[a]]
  BY ViewStep DEF ClearedInv, ViewInv
<1>a. ASSUME NEW a \in Actors, NEW kind, NEW p, NEW verdict, NEW evidence,
             AppendEvent(a, kind, p, verdict, evidence)
      PROVE  \A b \in Actors : facts[b] \subseteq facts'[b]
  BY <1>v, <1>a, MergesSame
<1>r. ASSUME NEW a \in Actors, Return(a)
      PROVE  /\ seen' = [b \in Actors |-> seen'[b]] /\ pc'[a] = "idle"
             /\ \A b \in Actors : b # a => pc'[b] = pc[b] /\ cand'[b] = cand[b] /\ seen'[b] = seen[b]
  BY <1>v, <1>r DEF Return, ViewShape, Shape
<1>1. CASE UNCHANGED vars
  BY <1>1, <1>v, IdleCleared DEF vars, command
<1>2. ASSUME NEW a \in Actors, ProposalOpen(a) PROVE ClearedInv'
  BY <1>v, <1>a, <1>2, IdleCleared DEF ProposalOpen, command
<1>3. ASSUME NEW a \in Actors, NEW p, ProposalRevise(a, p) PROVE ClearedInv'
  BY <1>v, <1>a, <1>3, IdleCleared DEF ProposalRevise, command
<1>4. ASSUME NEW a \in Actors, NEW p, NEW v, Review(a, p, v) PROVE ClearedInv'
  BY <1>v, <1>a, <1>4, IdleCleared DEF Review, command
<1>5. ASSUME NEW a \in Actors, NEW p, NEW o, RunExecute(a, p, o) PROVE ClearedInv'
  BY <1>v, <1>a, <1>5, IdleCleared DEF RunExecute, command
<1>6. ASSUME NEW a \in Actors, NEW p, DecideReject(a, p) PROVE ClearedInv'
  BY <1>v, <1>a, <1>6, IdleCleared DEF DecideReject, command
<1>7. ASSUME NEW a \in Actors, NEW p, DecideAccept(a, p) \/ MergeEvaluate(a, p) PROVE ClearedInv'
  <2>1. PICK next \in {"decide-reload", "merge-inspect"} :
          /\ UNCHANGED <<facts, seen>> /\ pc' = [pc EXCEPT ![a] = next] /\ cand' = [cand EXCEPT ![a] = p]
    BY <1>7 DEF DecideAccept, MergeEvaluate
  <2>2. /\ pc'[a] = next /\ \A b \in Actors : facts[b] \subseteq facts'[b]
        /\ seen' = [b \in Actors |-> seen'[b]]
        /\ \A b \in Actors : b # a => pc'[b] = pc[b] /\ cand'[b] = cand[b] /\ seen'[b] = seen[b]
    BY <1>v, <2>1 DEF ViewShape, Shape
  <2> QED BY <1>v, <2>1, <2>2, ElsewhereCleared
<1>8. ASSUME NEW a \in Actors, DecideReload(a) \/ RepairReload(a) \/ MergeCode(a) PROVE ClearedInv'
  <2>1. PICK next \in {"decide-record", "merge-record"} :
          UNCHANGED <<facts, cand, seen>> /\ pc' = [pc EXCEPT ![a] = next]
    BY <1>8 DEF DecideReload, RepairReload, MergeCode
  <2>2. /\ pc'[a] = next /\ \A b \in Actors : facts[b] \subseteq facts'[b]
        /\ seen' = [b \in Actors |-> seen'[b]]
        /\ \A b \in Actors : b # a => pc'[b] = pc[b] /\ cand'[b] = cand[b] /\ seen'[b] = seen[b]
    BY <1>v, <2>1 DEF ViewShape, Shape
  <2> QED BY <1>v, <2>1, <2>2, ElsewhereCleared
<1>9. ASSUME NEW a \in Actors, DecideRecord(a) \/ MergeRecord(a) PROVE ClearedInv'
  <2>1. Return(a) /\ \A b \in Actors : facts[b] \subseteq facts'[b]
    BY <1>a, <1>9 DEF DecideRecord, MergeRecord
  <2> QED BY <1>v, <1>r, <2>1, ElsewhereCleared
<1>10. ASSUME NEW a \in Actors, MergeInspect(a) PROVE ClearedInv'
  <2>1. PICK next \in {"repair-reload", "merge-reload"} :
          /\ UNCHANGED <<facts, cand>> /\ pc' = [pc EXCEPT ![a] = next]
          /\ seen' = [seen EXCEPT ![a] = Blocks(facts[a], cand[a])]
    BY <1>10 DEF MergeInspect
  <2>2. /\ pc'[a] = next /\ seen'[a] = Blocks(facts[a], cand[a])
        /\ \A b \in Actors : facts[b] \subseteq facts'[b]
        /\ seen' = [b \in Actors |-> seen'[b]]
        /\ \A b \in Actors : b # a => pc'[b] = pc[b] /\ cand'[b] = cand[b] /\ seen'[b] = seen[b]
    BY <1>v, <2>1 DEF ViewShape, Shape
  <2>3. Blocks(facts[a], cand[a]) \subseteq facts[a]
    BY DEF Blocks, Decisions, Current, Successors
  <2>4. Cleared(facts'[a], pc'[a], cand'[a], seen'[a])
    BY <2>1, <2>2, <2>3 DEF Cleared
  <2> QED BY <1>v, <2>2, <2>4, ClearedStep
<1>11. ASSUME NEW a \in Actors, MergeReload(a) PROVE ClearedInv'
  <2>1. /\ UNCHANGED <<facts, cand, seen>> /\ pc[a] = "merge-reload" /\ Mergeable(facts[a], cand[a])
        /\ pc' = [pc EXCEPT ![a] = "merge-code"]
    BY <1>11 DEF MergeReload
  <2>2. /\ pc'[a] = "merge-code" /\ \A b \in Actors : facts[b] \subseteq facts'[b]
        /\ seen' = [b \in Actors |-> seen'[b]]
        /\ \A b \in Actors : b # a => pc'[b] = pc[b] /\ cand'[b] = cand[b] /\ seen'[b] = seen[b]
    BY <1>v, <2>1 DEF ViewShape, Shape
  <2>3. cand[a] \in Candidates(facts[a]) /\ Lineal(facts[a])
    BY <1>v, <2>1, ViewsLineal DEF ViewInv, CommandsSound, Sound
  <2>4. Blocks(facts[a], cand[a]) = {}
    BY <2>1, <2>3, MergeableAlone
  <2>5. Cleared(facts'[a], pc'[a], cand'[a], seen'[a])
    BY <2>1, <2>2, <2>4 DEF Cleared, ClearedInv
  <2> QED BY <1>v, <2>2, <2>5, ClearedStep
<1>12. ASSUME NEW a \in Actors, Refuse(a) \/ Fail(a) PROVE ClearedInv'
  <2>1. Return(a) /\ \A b \in Actors : facts[b] \subseteq facts'[b]
    BY <1>12 DEF Refuse, Fail
  <2> QED BY <1>v, <1>r, <2>1, ElsewhereCleared
<1>13. ASSUME NEW a \in Actors, NEW b \in Actors, Sync(a, b) PROVE ClearedInv'
  BY <1>v, <1>13, SyncMerges, IdleCleared DEF Sync, command
<1>14. ASSUME NEW a \in Actors, NEW b \in Actors, PullTarget(a, b) PROVE ClearedInv'
  BY <1>v, <1>14, IdleCleared DEF PullTarget, command
<1> QED
  BY <1>1, <1>2, <1>3, <1>4, <1>5, <1>6, <1>7, <1>8, <1>9, <1>10, <1>11, <1>12,
     <1>13, <1>14 DEF Next, Step

\* Under a policy with protected checks, the git merge of mergeProposal is never
\* over a rejection, a revision or a relative's merge that was known when it
\* inspected the target and still stands.  Without them there is no reload, and
\* this is what the run governance_plain_merge refutes.
THEOREM ReloadHonoursBlocks ==
  ASSUME Reloads
  PROVE  Spec => StandingBlockHonoured
<1>1. Init => ClearedInv
  BY FS_EmptySet DEF Init, ClearedInv, ViewInv, ViewShape, Shape, SignedOnce, CommandsSound, Sound,
      EveryViewValid, Own, Cleared
<1>2. ClearedInv /\ [Next]_vars => ClearedInv'
  BY ReloadedStep
<1>3. ClearedInv => (\A a \in Actors : pc[a] = "merge-code" /\ pc'[a] = "merge-record" =>
                       seen[a] \cap Blocks(facts[a], cand[a]) = {})
  BY DEF ClearedInv, Cleared
<1> QED BY <1>1, <1>2, <1>3, PTL DEF Spec, StandingBlockHonoured
=============================================================================

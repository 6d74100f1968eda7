----------------------------- MODULE Governance -----------------------------
(***************************************************************************)
(* Candidates from proposal to merge: hn proposal open and revise, review, *)
(* run results, decide and merge (proposal.go, lineage.go, policy.go,      *)
(* governance.go).                                                         *)
(*                                                                         *)
(* Every actor has a clone of its own, with the signed events it knows of, *)
(* the candidate code refs and a target branch.  hn sync runs beside the   *)
(* commands, so what a clone knows grows between two steps of a command.   *)
(* All candidates share one base policy.                                   *)
(***************************************************************************)
EXTENDS Naturals, FiniteSets

CONSTANTS
  Actors, Authors, Maintainers, TrustedReviewers, TrustedRunners,
  RequiredApprovals, RequiredResults, RequiredAccepts,
  AllowAuthorApproval,
  Reloads,     \* the policy has protected checks (none of the changed paths is)
  MaxSequence, \* bound: per actor, events signed
  MaxOpened,   \* bound: lineages an author opens
  MaxCrashes   \* bound: commands that die or fail part-way

ASSUME GovernanceAssumption ==
  /\ Authors \subseteq Actors /\ Maintainers \subseteq Actors
  /\ TrustedReviewers \subseteq Actors /\ TrustedRunners \subseteq Actors
  /\ RequiredApprovals \in Nat /\ RequiredResults \in Nat /\ RequiredAccepts \in Nat \ {0}
  /\ AllowAuthorApproval \in BOOLEAN /\ Reloads \in BOOLEAN
  /\ MaxSequence \in [Actors -> Nat] /\ MaxOpened \in Nat /\ MaxCrashes \in Nat

VARIABLES
  facts,   \* per clone, the signed events it knows of
  code,    \* per clone, the candidates whose code ref it has
  target,  \* per clone, the candidates merged into its target branch
  pc,      \* per actor, the next step of its decide or merge command
  cand,    \* the candidate of that command
  proof,   \* the evidence its evaluation found
  base,    \* the target branch merge inspected
  seen,    \* history: the blocks known when it inspected it
  crashes  \* bound: failures so far

command == <<pc, cand, proof, base, seen>>
vars    == <<facts, code, target, command, crashes>>

\* An event's id is its actor and sequence number.
Ids == UNION {{<<a, n>> : n \in 1..MaxSequence[a]} : a \in Actors}
NoId == <<"none", 0>>
Kinds == {"proposal.open", "proposal.revise", "review.submit", "run.result",
          "proposal.decision", "proposal.merged"}
Verdicts == {"none", "approve", "request-changes", "passed", "failed", "accept", "reject"}

Id(e) == <<e.actor, e.sequence>>

----------------------------------------------------------------------------
(* What a set of events says about a candidate (evaluateProposal).  F is    *)
(* always a set of events, p the id of a candidate.                         *)

IdsOf(F)      == {Id(e) : e \in F}
Proposals(F)  == {e \in F : e.kind \in {"proposal.open", "proposal.revise"}}
Candidates(F) == IdsOf(Proposals(F))

\* The last event of a kind that each actor signed on the candidate.
Current(F, kind, p) ==
  {e \in F : /\ e.kind = kind /\ e.subject = p
             /\ \A f \in F : f.kind = kind /\ f.subject = p /\ f.actor = e.actor
                               => f.sequence <= e.sequence}

MayApprove(a, p) == a \in TrustedReviewers /\ (AllowAuthorApproval \/ a # p[1])

Approvals(F, p) == {e \in Current(F, "review.submit", p) :
                      e.verdict = "approve" /\ MayApprove(e.actor, p)}
Passed(F, p)    == {e \in Current(F, "run.result", p) :
                      e.verdict = "passed" /\ e.actor \in TrustedRunners}

Decisions(F, p, v) == {e \in Current(F, "proposal.decision", p) :
                         e.verdict = v /\ e.actor \in Maintainers}
Rejected(F, p) == Decisions(F, p, "reject") # {}
Accepted(F, p) == ~Rejected(F, p) /\ Cardinality(Decisions(F, p, "accept")) >= RequiredAccepts
Merged(F, p)   == \E e \in F : e.kind = "proposal.merged" /\ e.subject = p
AcceptIds(F, p) == IdsOf(Decisions(F, p, "accept"))

\* Mutant: failed or missing pipeline results do not matter.
ReadyWithoutResults(F, C, p) == p \in C /\ Cardinality(Approvals(F, p)) >= RequiredApprovals

\* Code with its ref, enough approvals, enough passed results.
Ready(F, C, p) ==
  /\ p \in C
  /\ Cardinality(Approvals(F, p)) >= RequiredApprovals
  /\ Cardinality(Passed(F, p)) >= RequiredResults

Evidence(F, p) == IdsOf(Approvals(F, p) \cup Passed(F, p))

\* lineageIndex: a candidate's successors, its root and the members of its
\* lineage.
Successors(F, p) == {e \in F : e.kind = "proposal.revise" /\ e.subject = p}

\* The candidate and all it was revised from: what root and ancestors walk.
Ancestry(F, p) ==
  {q \in Candidates(F) : \A S \in SUBSET Candidates(F) :
     p \in S /\ (\A e \in Proposals(F) : e.kind = "proposal.revise" /\ Id(e) \in S => e.subject \in S)
       => q \in S}

Root(F, p) == CHOOSE q \in Ancestry(F, p) \cap IdsOf({e \in F : e.kind = "proposal.open"}) : TRUE

Members(F, p) == {q \in Candidates(F) : Root(F, q) = Root(F, p)}
MergedMembers(F, p) == {q \in Members(F, p) : Merged(F, q)}

\* Mutant: a merged relative does not close the lineage.
EligibleIfNewest(F, p) == Merged(F, p) \/ Successors(F, p) = {}

\* requireLineageTerminalEligibility: neither a merge conflict, nor superseded,
\* nor closed by the merge of another member.
Eligible(F, p) ==
  /\ Cardinality(MergedMembers(F, p)) <= 1
  /\ Merged(F, p) \/ Successors(F, p) = {}
  /\ MergedMembers(F, p) \subseteq {p}

\* The events that stand against the merge of a candidate.
Blocks(F, p) == Decisions(F, p, "reject") \cup Successors(F, p)
                \cup {e \in F : e.kind = "proposal.merged" /\ e.subject \in MergedMembers(F, p)}

\* What merge requires of the events it evaluates.
Mergeable(F, p) == Eligible(F, p) /\ ~Merged(F, p) /\ Accepted(F, p)

----------------------------------------------------------------------------
(* What readers require of a set of events (validateEventRelationships).    *)

Approvers(F, p, E) == {e.actor : e \in {f \in F : /\ Id(f) \in E /\ f.kind = "review.submit"
                                                  /\ f.subject = p /\ f.verdict = "approve"
                                                  /\ MayApprove(f.actor, p)}}
Runners(F, p, E) == {e.actor : e \in {f \in F : /\ Id(f) \in E /\ f.kind = "run.result"
                                                /\ f.subject = p /\ f.verdict = "passed"
                                                /\ f.actor \in TrustedRunners}}
Acceptors(F, p, E) == {e.actor : e \in {f \in F : /\ Id(f) \in E /\ f.kind = "proposal.decision"
                                                  /\ f.subject = p /\ f.verdict = "accept"
                                                  /\ f.actor \in Maintainers}}

ValidDecision(F, e) ==
  /\ e.actor \in Maintainers
  /\ e.verdict = "accept" =>
       /\ e.evidence \subseteq IdsOf(F)
       /\ Cardinality(Approvers(F, e.subject, e.evidence)) >= RequiredApprovals
       /\ Cardinality(Runners(F, e.subject, e.evidence)) >= RequiredResults

ValidMerge(F, e) ==
  /\ e.actor \in Maintainers
  /\ Cardinality(Acceptors(F, e.subject, e.evidence)) >= RequiredAccepts

ValidRelationship(F, e) ==
  /\ e.kind # "proposal.open" => e.subject \in Candidates(F)
  /\ e.kind = "proposal.revise" => e.subject[1] = e.actor
  /\ e.kind = "proposal.decision" => ValidDecision(F, e)
  /\ e.kind = "proposal.merged" => ValidMerge(F, e)

\* validateExactEventReferenceClosure: everything an event names is there.
Closed(F) == \A e \in F : /\ e.kind # "proposal.open" => e.subject \in IdsOf(F)
                          /\ e.evidence \subseteq IdsOf(F)

----------------------------------------------------------------------------
Init ==
  /\ facts = [a \in Actors |-> {}]
  /\ code = [a \in Actors |-> {}]
  /\ target = [a \in Actors |-> {}]
  /\ pc = [a \in Actors |-> "idle"]
  /\ cand = [a \in Actors |-> NoId]
  /\ proof = [a \in Actors |-> {}]
  /\ base = [a \in Actors |-> {}]
  /\ seen = [a \in Actors |-> {}]
  /\ crashes = 0

Own(a) == {e \in facts[a] : e.actor = a}
NextSequence(a) == Cardinality(Own(a)) + 1

\* appendEvent; see ActorLog for its compare-and-swap.
AppendEvent(a, kind, p, verdict, evidence) ==
  /\ NextSequence(a) <= MaxSequence[a]
  /\ facts' = [facts EXCEPT ![a] = @ \cup
       {[kind |-> kind, actor |-> a, sequence |-> NextSequence(a),
         subject |-> p, verdict |-> verdict, evidence |-> evidence]}]

Return(a) ==
  /\ pc' = [pc EXCEPT ![a] = "idle"]
  /\ cand' = [cand EXCEPT ![a] = NoId]
  /\ proof' = [proof EXCEPT ![a] = {}]
  /\ base' = [base EXCEPT ![a] = {}]
  /\ seen' = [seen EXCEPT ![a] = {}]

\* Mutant: the code ref is named after the sequence that follows.
CreateRefOfNext(a) ==
  \/ code' = [code EXCEPT ![a] = @ \cup {<<a, NextSequence(a) + 1>>}] /\ UNCHANGED crashes
  \/ crashes < MaxCrashes /\ crashes' = crashes + 1 /\ UNCHANGED code

\* The event is appended first, then the code ref is created; the command may
\* fail or die between the two.
CreateProposalRef(a) ==
  \/ code' = [code EXCEPT ![a] = @ \cup {<<a, NextSequence(a)>>}] /\ UNCHANGED crashes
  \/ crashes < MaxCrashes /\ crashes' = crashes + 1 /\ UNCHANGED code

ProposalOpen(a) ==
  /\ a \in Authors /\ pc[a] = "idle"
  /\ Cardinality({e \in Own(a) : e.kind = "proposal.open"}) < MaxOpened
  /\ AppendEvent(a, "proposal.open", NoId, "none", {})
  /\ CreateProposalRef(a)
  /\ UNCHANGED <<target, command>>

ProposalRevise(a, p) ==
  /\ pc[a] = "idle" /\ p \in Candidates(facts[a]) /\ p[1] = a
  /\ ~Merged(facts[a], p)
  /\ AppendEvent(a, "proposal.revise", p, "none", {})
  /\ CreateProposalRef(a)
  /\ UNCHANGED <<target, command>>

Review(a, p, verdict) ==
  /\ pc[a] = "idle" /\ p \in Candidates(facts[a]) /\ p \in code[a]
  /\ AppendEvent(a, "review.submit", p, verdict, {})
  /\ UNCHANGED <<code, target, command, crashes>>

\* A request and its result in one event; the run itself is a step of its own
\* in time, so the result may come when the candidate is no longer eligible.
RunExecute(a, p, outcome) ==
  /\ pc[a] = "idle" /\ p \in Candidates(facts[a]) /\ p \in code[a]
  /\ AppendEvent(a, "run.result", p, outcome, {})
  /\ UNCHANGED <<code, target, command, crashes>>

----------------------------------------------------------------------------
(* hn decide. *)

DecideReject(a, p) ==
  /\ pc[a] = "idle" /\ p \in Candidates(facts[a])
  /\ ~Merged(facts[a], p) /\ a \in Maintainers
  /\ AppendEvent(a, "proposal.decision", p, "reject", {})
  /\ UNCHANGED <<code, target, command, crashes>>

DecideAccept(a, p) ==
  /\ pc[a] = "idle" /\ p \in Candidates(facts[a])
  /\ Eligible(facts[a], p) /\ ~Merged(facts[a], p)
  /\ a \in Maintainers /\ Ready(facts[a], code[a], p)
  /\ pc' = [pc EXCEPT ![a] = "decide-reload"]
  /\ cand' = [cand EXCEPT ![a] = p]
  /\ UNCHANGED <<facts, code, target, proof, base, seen, crashes>>

\* The events are collected and evaluated again ...
DecideReload(a) ==
  /\ pc[a] = "decide-reload"
  /\ Eligible(facts[a], cand[a]) /\ Ready(facts[a], code[a], cand[a])
  /\ pc' = [pc EXCEPT ![a] = "decide-record"]
  /\ proof' = [proof EXCEPT ![a] = Evidence(facts[a], cand[a])]
  /\ UNCHANGED <<facts, code, target, cand, base, seen, crashes>>

\* ... and the decision names the evidence of that evaluation.
DecideRecord(a) ==
  /\ pc[a] = "decide-record"
  /\ AppendEvent(a, "proposal.decision", cand[a], "accept", proof[a])
  /\ Return(a)
  /\ UNCHANGED <<code, target, crashes>>

----------------------------------------------------------------------------
(* hn merge. *)

MergeEvaluate(a, p) ==
  /\ pc[a] = "idle" /\ p \in Candidates(facts[a])
  /\ Mergeable(facts[a], p) /\ p \in code[a] /\ a \in Maintainers
  /\ pc' = [pc EXCEPT ![a] = "merge-inspect"]
  /\ cand' = [cand EXCEPT ![a] = p]
  /\ proof' = [proof EXCEPT ![a] = AcceptIds(facts[a], p)]
  /\ UNCHANGED <<facts, code, target, base, seen, crashes>>

\* The target head is read; a candidate it contains is only recorded.
MergeInspect(a) ==
  /\ pc[a] = "merge-inspect"
  /\ base' = [base EXCEPT ![a] = target[a]]
  /\ seen' = [seen EXCEPT ![a] = Blocks(facts[a], cand[a])]
  /\ pc' = [pc EXCEPT ![a] = IF cand[a] \in target[a] THEN "repair-reload"
                             ELSE IF Reloads THEN "merge-reload" ELSE "merge-code"]
  /\ UNCHANGED <<facts, code, target, cand, proof, crashes>>

\* Mutant: the reloaded events are not evaluated.
MergeReloadBlindly(a) ==
  /\ pc[a] = "merge-reload"
  /\ pc' = [pc EXCEPT ![a] = "merge-code"]
  /\ proof' = [proof EXCEPT ![a] = AcceptIds(facts[a], cand[a])]
  /\ UNCHANGED <<facts, code, target, cand, base, seen, crashes>>

\* Only under protected checks: evaluate again.
MergeReload(a) ==
  /\ pc[a] = "merge-reload"
  /\ Mergeable(facts[a], cand[a]) /\ Ready(facts[a], code[a], cand[a])
  /\ pc' = [pc EXCEPT ![a] = "merge-code"]
  /\ proof' = [proof EXCEPT ![a] = AcceptIds(facts[a], cand[a])]
  /\ UNCHANGED <<facts, code, target, cand, base, seen, crashes>>

\* Mutant: a failed git merge goes on to the event.
MergeCodeFailed(a) ==
  /\ pc[a] = "merge-code" /\ target[a] = base[a]
  /\ pc' = [pc EXCEPT ![a] = "merge-record"]
  /\ UNCHANGED <<facts, code, target, cand, proof, base, seen, crashes>>

\* git merge --no-ff, if the target head has not moved since.
MergeCode(a) ==
  /\ pc[a] = "merge-code" /\ target[a] = base[a]
  /\ target' = [target EXCEPT ![a] = @ \cup {cand[a]}]
  /\ pc' = [pc EXCEPT ![a] = "merge-record"]
  /\ UNCHANGED <<facts, code, cand, proof, base, seen, crashes>>

\* appendProposalMergeEvent, with the accepting decisions of the evaluation.
MergeRecord(a) ==
  /\ pc[a] = "merge-record"
  /\ AppendEvent(a, "proposal.merged", cand[a], "none", proof[a])
  /\ Return(a)
  /\ UNCHANGED <<code, target, crashes>>

\* The code was merged without its event: the same gates, on reloaded events,
\* and readiness as well.
RepairReload(a) ==
  /\ pc[a] = "repair-reload"
  /\ Mergeable(facts[a], cand[a]) /\ Ready(facts[a], code[a], cand[a])
  /\ pc' = [pc EXCEPT ![a] = "merge-record"]
  /\ proof' = [proof EXCEPT ![a] = AcceptIds(facts[a], cand[a])]
  /\ UNCHANGED <<facts, code, target, cand, base, seen, crashes>>

\* A gate that a reload evaluates again refuses, or the target head moved: the
\* command returns an error.
Refuse(a) ==
  /\ \/ /\ pc[a] \in {"decide-reload", "merge-reload", "repair-reload"}
        /\ ~Ready(facts[a], code[a], cand[a])
     \/ pc[a] = "decide-reload" /\ ~Eligible(facts[a], cand[a])
     \/ pc[a] \in {"merge-reload", "repair-reload"} /\ ~Mergeable(facts[a], cand[a])
     \/ pc[a] = "merge-code" /\ target[a] # base[a]
  /\ Return(a)
  /\ UNCHANGED <<facts, code, target, crashes>>

\* A Git call fails or the process dies: the command ends where it is.
Fail(a) ==
  /\ pc[a] # "idle" /\ crashes < MaxCrashes
  /\ crashes' = crashes + 1
  /\ Return(a)
  /\ UNCHANGED <<facts, code, target>>

----------------------------------------------------------------------------
(* Other clones. *)

\* hn sync: a's clone accepts b's whole history when its references, and the
\* code of its candidates, are supplied (see Replication).
Sync(a, b) ==
  LET F == facts[a] \cup Own(b)
      C == code[a] \cup {p \in code[b] : p[1] = b}
  IN /\ a # b /\ Own(b) \ facts[a] # {}
     /\ Closed(F) /\ Candidates(F) \subseteq C
     /\ facts' = [facts EXCEPT ![a] = F]
     /\ code' = [code EXCEPT ![a] = C]
     /\ UNCHANGED <<target, command, crashes>>

\* An ordinary git pull of the target branch, as a fast-forward.
PullTarget(a, b) ==
  /\ target[a] # target[b] /\ target[a] \subseteq target[b]
  /\ target' = [target EXCEPT ![a] = target[b]]
  /\ UNCHANGED <<facts, code, command, crashes>>

Step(a) ==
  \/ DecideReload(a) \/ DecideRecord(a)
  \/ MergeInspect(a) \/ MergeReload(a) \/ MergeCode(a) \/ MergeRecord(a) \/ RepairReload(a)

Next ==
  \E a \in Actors :
    \/ ProposalOpen(a) \/ Step(a) \/ Refuse(a) \/ Fail(a)
    \/ \E p \in Candidates(facts[a]) :
         \/ ProposalRevise(a, p)
         \/ a \in TrustedReviewers /\ \E v \in {"approve", "request-changes"} : Review(a, p, v)
         \/ a \in TrustedRunners /\ \E o \in {"passed", "failed"} : RunExecute(a, p, o)
         \/ DecideReject(a, p) \/ DecideAccept(a, p) \/ MergeEvaluate(a, p)
    \/ \E b \in Actors : Sync(a, b) \/ PullTarget(a, b)

Spec == Init /\ [][Next]_vars

----------------------------------------------------------------------------
(* Properties. *)

Events == [kind : Kinds, actor : Actors, sequence : Nat, subject : Ids \cup {NoId},
           verdict : Verdicts, evidence : SUBSET Ids]
Steps == {"idle", "decide-reload", "decide-record", "merge-inspect", "merge-reload",
          "merge-code", "merge-record", "repair-reload"}

\* Every event a command signs is well formed, and every local has its type.
TypeOK ==
  /\ facts \in [Actors -> SUBSET Events] /\ proof \in [Actors -> SUBSET Ids]
  /\ seen \in [Actors -> SUBSET Events]
  /\ code \in [Actors -> SUBSET Ids] /\ target \in [Actors -> SUBSET Ids]
  /\ base \in [Actors -> SUBSET Ids]
  /\ pc \in [Actors -> Steps] /\ cand \in [Actors -> Ids \cup {NoId}]
  /\ crashes \in 0..MaxCrashes

\* What the commands write is what the readers accept: no clone ever holds a
\* set of events that validateEventRelationships refuses.  One refused event
\* would make collectEvents, and with it every command, fail in that clone.
EveryViewValid == \A a \in Actors : \A e \in facts[a] : ValidRelationship(facts[a], e)

\* A merge event never precedes its merge commit: mergeProposal may be
\* interrupted after the commit, never the other way round.
RecordedAfterCode ==
  \A a \in Actors : \A e \in Own(a) : e.kind = "proposal.merged" => e.subject \in target[a]

\* A maintainer never signs merges of two candidates of one lineage, however
\* revisions, decisions and merges of others arrive.
OneMergePerLineage ==
  \A a \in Actors : \A p \in Candidates(facts[a]) :
    Cardinality({q \in Members(facts[a], p) :
                   \E e \in Own(a) : e.kind = "proposal.merged" /\ e.subject = q}) <= 1

\* "Immediately before changing Git state, merge reloads facts, policy,
\* evidence, and lineage gates" (docs/governance-v0.md): a rejection, a
\* revision or the merge of a relative that was known when merge inspected its
\* target, and still stands, is not merged over.
StandingBlockHonoured ==
  [][\A a \in Actors : pc[a] = "merge-code" /\ pc'[a] = "merge-record" =>
       seen[a] \cap Blocks(facts[a], cand[a]) = {}]_vars
=============================================================================

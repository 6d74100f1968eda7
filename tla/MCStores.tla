------------------------------ MODULE MCStores ------------------------------
(***************************************************************************)
(* The stores and the exchanges with the outside: moderation, artifacts    *)
(* and opaque extension events, memories, the extension host and its       *)
(* requests, import from and export to a forge, and automerge.  One        *)
(* component moves in each behaviour (focus); the others keep one initial  *)
(* state, so that a state of the run is a state of one component.          *)
(***************************************************************************)
EXTENDS Moderation, ArtifactStore, Memory, ExtensionHost, ExtensionRequests,
        ForgeImport, ForgeExport, Automerge

VARIABLE focus

-----------------------------------------------------------------------------
(* Moderation: a topic, a reply by somebody else, and an edit of the topic  *)
(* that cites the reply.                                                    *)

MCFactOf(actor, root, op, parents, refs) ==
  [actor |-> actor, author |-> actor, root |-> root, op |-> op, parents |-> parents, refs |-> refs]
MCFact == [x \in {"t", "p", "e"} |->
  CASE x = "t" -> MCFactOf("m1", "t", "create", {}, {})
    [] x = "p" -> MCFactOf("bo", "p", "reply", {}, {[kind |-> "root", id |-> "t"]})
    [] x = "e" -> MCFactOf("m1", "t", "edit", {"t"}, {[kind |-> "revision", id |-> "p"]})]
MCMdTargets == {Target("actor", "bo"), Target("revision", "p"), Target("submission", "p")}
MCIdentity == [k \in {"k1", "k2", "k3"} |-> CASE k = "k1" -> "m1" [] k = "k2" -> "m2" [] k = "k3" -> "bo"]
MCOffers == [k \in {"k1", "k2", "k3"} |-> IF k = "k1" THEN {"p"} ELSE {}]
\* Anyone replies, one person and the maintainers edit, and nobody else writes.
MCRules == [o \in {"reply", "edit"} |->
  [actors |-> IF o = "edit" THEN {"bo"} ELSE {}, maintainers |-> o = "edit", automatic |-> TRUE]]
MCPolicies == {[revoked |-> {"m2"}, ratified |-> r, keep |-> TRUE] : r \in BOOLEAN}

(* Artifacts: two terminals of one clone and a peer. *)
MCArtKinds == [o \in {"a", "b"} |-> IF o = "a" THEN {"record.revise"}
                                    ELSE {"record.resolve", "record.convert"}]
MCArtPeer == [o \in {"c"} |-> {"record.revise", "type.publish"}]
MCArtWork == <<{"a", "push"}, {"a", "b", "fetch", "import", "push"}>>

(* Memories: two records, one of which cites an event that is not here yet, *)
(* under a policy that both commits share.                                  *)
MCExactMemory  == [anchor |-> 1, mode |-> "exact", cites |-> FALSE]
MCCitingMemory == [anchor |-> 1, mode |-> "descendants", cites |-> TRUE]
MCMemShapes == {MCExactMemory, MCCitingMemory}
MCMemHistory == <<MCCitingMemory, MCExactMemory>>
MCMemRequests == {[at |-> 1, all |-> FALSE, untrusted |-> FALSE], [at |-> 2, all |-> TRUE, untrusted |-> TRUE]}
MCMemPolicy == <<{"me"}, {"me"}>>

(* Extension host: a manager with a session of its own and one without. *)
MCExtManagers == <<TRUE, FALSE>>

-----------------------------------------------------------------------------
MCParts == {"moderation", "arrival", "artifact", "opaque", "memory", "host", "requests",
            "issues", "threads", "export", "automerge"}
MCInit ==
  /\ focus \in MCParts
  /\ ModerationInit /\ ArtifactInit /\ MemoryInit /\ ExtensionInit /\ RequestsInit
  /\ ForgeImportInit /\ ForgeExportInit /\ AutomergeInit
  \* one initial state of a component that does not move
  /\ focus # "export" => fxKind = (CHOOSE k \in FxKinds : TRUE) /\ fxSource = {} /\ fxLate
  /\ focus # "automerge" => amReady

MCNext ==
  /\ UNCHANGED focus
  /\ \/ /\ focus = "moderation" /\ ModerationNext
        \* two clones, whose decisions are named; one registers nothing
        /\ mdRetained'["k1"] = {}
        /\ UNCHANGED <<mdRecs["k3"], mdAdopted["k3"], mdRetained["k3"]>>
        /\ \A r \in UNION Range(mdRecs') : r.intent # <<Unnamed>>
        /\ Cardinality({r \in UNION Range(mdRecs') : r.kind = "decision"}) <= 2
        \* a second decision, or a ratified change of policy, or any change
        \* beside a registration
        /\ \/ \A n \in 2..Len(mdHistory') : ~mdHistory'[n].ratified /\ mdRetained'["k2"] = {}
           \/ Cardinality({r \in UNION Range(mdRecs') : r.kind = "decision"}) <= 1
        /\ UNCHANGED <<artifactVars, memoryVars, extensionVars, requestVars, forgeImportVars, forgeExportVars, automergeVars>>
     \/ /\ focus = "arrival" /\ ModerationNext
        \* only blocks and unblocks, which reach a third clone in any order
        /\ UNCHANGED mdHistory
        /\ \A r \in UNION Range(mdRecs') :
             r.kind = "decision" /\ r.intent = <<Unnamed>> /\ r.target.kind = "actor"
        /\ UNCHANGED <<artifactVars, memoryVars, extensionVars, requestVars, forgeImportVars, forgeExportVars, automergeVars>>
     \/ /\ \/ /\ focus = "artifact" /\ ArtifactNext
              \* a resolution or a crash here, or a type published there
              /\ (\E x \in Held(artThere') : OpOf(x)[1] = Peer /\ ~IsRecord(x)) =>
                   artCrashes' = 0 /\ \A x \in Held(artRefs') : x.req.kind # "record.resolve"
           \/ focus = "opaque" /\ OpaqueNext
        /\ UNCHANGED <<moderationVars, memoryVars, extensionVars, requestVars, forgeImportVars, forgeExportVars, automergeVars>>
     \/ /\ focus = "memory" /\ MemoryNext
        \* two appends at once, or a restored backup or rebuilt index
        /\ memDisturbed' = 0 \/ \E t \in MemTerminals : memTerm'[t].memory.op = "none"
        /\ UNCHANGED <<moderationVars, artifactVars, extensionVars, requestVars, forgeImportVars, forgeExportVars, automergeVars>>
     \/ /\ focus = "host" /\ ExtensionNext
        \* an edit beside two sessions, a fault and one session, or a registration again
        /\ extEdits' = 2 => extRegs' = 1
        /\ extEdits' = 2 /\ extFaults' > 0 => \E s \in ExtSessions : extSess'[s].pc = "new"
        /\ UNCHANGED <<moderationVars, artifactVars, memoryVars, requestVars, forgeImportVars, forgeExportVars, automergeVars>>
     \/ /\ focus = "requests" /\ RequestsNext
        /\ UNCHANGED <<moderationVars, artifactVars, memoryVars, extensionVars, forgeImportVars, forgeExportVars, automergeVars>>
     \/ /\ \/ focus = "issues" /\ IssueImportNext
           \/ focus = "threads" /\ ThreadImportNext
        /\ UNCHANGED <<moderationVars, artifactVars, memoryVars, extensionVars, requestVars, forgeExportVars, automergeVars>>
     \/ /\ focus = "export" /\ ForgeExportNext
        \* four edits of either side, or three of a record that is imported or finished last
        /\ \/ fxCounts'.native + fxCounts'.user < 4
           \/ fxSource = {} /\ (fxKind = "project" \/ ~fxLate)
        /\ UNCHANGED <<moderationVars, artifactVars, memoryVars, extensionVars, requestVars, forgeImportVars, automergeVars>>
     \/ /\ focus = "automerge" /\ AutomergeNext
        /\ UNCHANGED <<moderationVars, artifactVars, memoryVars, extensionVars, requestVars, forgeImportVars, forgeExportVars>>

MCSpec == MCInit /\ [][MCNext]_<<focus, moderationVars, artifactVars, memoryVars, extensionVars,
                                 requestVars, forgeImportVars, forgeExportVars, automergeVars>>
=============================================================================

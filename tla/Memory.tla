------------------------------- MODULE Memory -------------------------------
(***************************************************************************)
(* Signed memories: the local stream and its compare-and-swap append       *)
(* (memory_store.go), record and lifecycle commands and paged recall       *)
(* (memory_commands.go), the set projection (memory_projection.go) and the *)
(* private index file with its verification (memory_index.go).             *)
(*                                                                         *)
(* A memory's ID is its index in memOf; the order by signed timestamp and  *)
(* ID is the order of the IDs.  Commit 1 is the parent of commit 2.  A     *)
(* memory cites at most one event, which the clone may accept late.  Kind, *)
(* topic, subject, path and lexical filters narrow a selection the way the *)
(* lifecycle and trust filters do and are left out; the record and byte    *)
(* bounds of a page are a free choice of the row it ends with; of a page,  *)
(* that row and the set of its rows are kept, and of all pages the set of  *)
(* rows returned and of those returned again.                              *)
(***************************************************************************)
EXTENDS Integers, FiniteSets, Sequences, SequencesExt

CONSTANTS
  MemTerminals,   \* commands of the user that may append at the same time
  MemHistory,     \* the shapes the user has recorded before
  MemShapes,      \* what is recorded: [anchor, mode, cites]
  MemPolicy,      \* the actors that the policy of a commit qualifies
  MemRequests,    \* what is recalled: [at, all, untrusted]
  MemPage,        \* bound: rows on a page
  MaxMemories,    \* bound: memories signed
  MaxPeerMemories,\* bound: memories signed by the peer
  MaxMemDisturbances  \* bound: restored backups and rebuilt indexes

ASSUME MemoryAssumption ==
  /\ {MemPage, MaxMemories, MaxPeerMemories, MaxMemDisturbances} \subseteq Nat
  /\ MemPage > 0
  /\ MemShapes \subseteq [anchor : 1..2, mode : {"exact", "descendants"}, cites : BOOLEAN]
  /\ MemHistory \in Seq(MemShapes) /\ MemShapes # {}
  /\ MemRequests \subseteq [at : 1..2, all : BOOLEAN, untrusted : BOOLEAN]
  /\ MemPolicy \in [1..2 -> SUBSET {"me", "peer"}]

VARIABLES
  memOf,       \* every memory signed so far, by ID
  memLocal,    \* the user's own stream
  memMine,     \* the accepted remote copy of that stream
  memPeer,     \* the accepted stream of the peer
  memTheirs,   \* the stream of the peer at the peer
  memEvent,    \* the cited event is accepted here
  memIndex,    \* the private index file
  memTerm,     \* an append in progress per terminal
  memRecall,   \* the traversal under observation, page by page; any other is a rebuild
  memDisturbed

memoryVars == <<memOf, memLocal, memMine, memPeer, memTheirs, memEvent, memIndex,
                memTerm, memRecall, memDisturbed>>
streamVars == <<memOf, memLocal, memMine, memPeer, memTheirs, memEvent>>

\* A retraction or challenge records nothing; its shape is never read.
NoShape     == CHOOSE s \in MemShapes : TRUE
NoMemory    == [actor |-> "me", op |-> "none", target |-> 0]
NoIndex     == [fp |-> <<>>, rows |-> {}]
NoTraversal == [pc |-> "idle", req |-> [at |-> 1, all |-> FALSE, untrusted |-> FALSE], event |-> FALSE,
                digest |-> <<>>, last |-> 0, got |-> {}, again |-> {}, want |-> {}, now |-> {}]

Envelope(actor, op, i, shape) ==
  [actor |-> actor, op |-> op, target |-> i,
   anchor |-> shape.anchor, mode |-> shape.mode, cites |-> shape.cites]

MemoryInit ==
  /\ memOf = [k \in 1..Len(MemHistory) |-> Envelope("me", "record", 0, MemHistory[k])]
  /\ memLocal = [k \in 1..Len(MemHistory) |-> k]
  /\ memMine = <<>> /\ memPeer = <<>> /\ memTheirs = <<>>
  /\ memEvent = FALSE /\ memIndex = NoIndex /\ memDisturbed = 0
  /\ memTerm = [t \in MemTerminals |-> [head |-> <<>>, memory |-> NoMemory]]
  /\ memRecall = NoTraversal

-----------------------------------------------------------------------------
(* The projection of a set of verified memories. *)

memoryIndexSources == <<memLocal, memMine, memPeer>>
collectMemories == UNION {Range(s) : s \in Range(memoryIndexSources)}
memoryEnvelopeProducesRecord(i) == memOf[i].op \in {"record", "supersede"}

Missing(ids, i) == memOf[i].op # "record" /\ memOf[i].target \notin ids
\* The edges that count: the others are diagnostics.
Edges(ids, op, i) ==
  {e \in ids : /\ memOf[e].op = op /\ memOf[e].target = i
               /\ memoryEnvelopeProducesRecord(i)
               /\ (memOf[e].actor = memOf[i].actor) = (op # "challenge")}
Lifecycle(ids, i) ==
  CASE Missing(ids, i) -> "dependency-missing"
    [] ~Missing(ids, i) /\ Edges(ids, "retract", i) # {} -> "retracted"
    [] OTHER -> LET n == Cardinality(Edges(ids, "supersede", i))
                IN  IF n > 1 THEN "branching" ELSE IF n = 1 THEN "superseded" ELSE "active"
classifyMemoryApplicability(i, at) ==
  IF memOf[i].mode = "exact" THEN at = memOf[i].anchor ELSE memOf[i].anchor <= at
classifyMemoryEvidence(i, event) == memOf[i].cites => event
classifyMemoryTrust(i, at) == memOf[i].actor \in MemPolicy[at]
ProjectMemories(ids, at, event) ==
  {[id |-> i, life |-> Lifecycle(ids, i), applies |-> classifyMemoryApplicability(i, at),
    resolved |-> classifyMemoryEvidence(i, event), trusted |-> classifyMemoryTrust(i, at),
    challenged |-> Edges(ids, "challenge", i) # {}] :
      i \in {j \in ids : memoryEnvelopeProducesRecord(j)}}

-----------------------------------------------------------------------------
(* The index. *)

\* The fingerprint covers the policy and the heads, and not the commit, the
\* accepted events or the objects at hand.
memoryIndexSourceFingerprint(at) == <<MemPolicy[at], memoryIndexSources>>
deriveMemoryIndex(at, event) ==
  [fp |-> memoryIndexSourceFingerprint(at), rows |-> ProjectMemories(collectMemories, at, event)]
VerifiedByFingerprint(index, live) == index # NoIndex /\ index.fp = live.fp
verifyMemoryIndex(index, live) == index # NoIndex /\ index.fp = live.fp /\ index.rows = live.rows

queryMemoryIndex(index, req) ==
  {r \in index.rows : /\ r.applies /\ r.resolved
                      /\ req.all \/ r.life = "active"
                      /\ req.untrusted \/ r.trusted}
memoryIndexLifecycleRank(life) ==
  CASE life = "active" -> 0 [] life = "superseded" -> 1 [] life = "retracted" -> 2
    [] life = "branching" -> 3 [] OTHER -> 4
memoryIndexRecordLess(a, b) ==
  LET ra == memoryIndexLifecycleRank(a.life)  rb == memoryIndexLifecycleRank(b.life)
  IN  ra < rb \/ (ra = rb /\ a.id > b.id)
Ids(rows) == {r.id : r \in rows}

-----------------------------------------------------------------------------
(* Appending. *)

\* Supersede and retract are for the author, a challenge for the others.
MayTarget(actor, op, i) ==
  /\ i \in collectMemories /\ memoryEnvelopeProducesRecord(i)
  /\ (memOf[i].actor = actor) = (op # "challenge")
nextMemoryCommandPosition(t, envelope) ==
  /\ memTerm[t].memory.op = "none" /\ Len(memOf) < MaxMemories
  /\ memTerm' = [memTerm EXCEPT ![t] = [head |-> memLocal, memory |-> envelope]]
  /\ UNCHANGED <<streamVars, memIndex, memRecall, memDisturbed>>
cmdMemoryRecord(t) ==
  \E shape \in MemShapes, i \in 0..Len(memOf) :
    /\ i # 0 => MayTarget("me", "supersede", i)
    /\ nextMemoryCommandPosition(t, Envelope("me", IF i = 0 THEN "record" ELSE "supersede", i, shape))
cmdMemoryLifecycle(t) ==
  \E op \in {"retract", "challenge"}, i \in 1..Len(memOf) :
    /\ MayTarget("me", op, i)
    /\ nextMemoryCommandPosition(t, Envelope("me", op, i, NoShape))

ensureMemorySigningRoot(head) == IsPrefix(memMine, head)
\* update-ref with the head the command read; a refused append is the caller's.
appendMemoryAtHead(t) ==
  /\ memTerm[t].memory.op # "none"
  /\ IF ensureMemorySigningRoot(memTerm[t].head) /\ memLocal = memTerm[t].head /\ Len(memOf) < MaxMemories
     THEN /\ memOf' = Append(memOf, memTerm[t].memory)
          /\ memLocal' = Append(memLocal, Len(memOf) + 1)
     ELSE UNCHANGED <<memOf, memLocal>>
  /\ memTerm' = [memTerm EXCEPT ![t] = [head |-> <<>>, memory |-> NoMemory]]
  /\ UNCHANGED <<memMine, memPeer, memTheirs, memEvent, memIndex, memRecall, memDisturbed>>

\* A peer may sign any edge, one to a memory of somebody else included.
PeerAppends ==
  \E op \in {"record", "supersede", "retract", "challenge"}, shape \in MemShapes, i \in 0..Len(memOf) :
    /\ op \in {"retract", "challenge"} => shape = NoShape
    /\ Len(memOf) < MaxMemories /\ Len(memTheirs) < MaxPeerMemories
    /\ (op = "record") = (i = 0)
    /\ memOf' = Append(memOf, Envelope("peer", op, i, shape))
    /\ memTheirs' = Append(memTheirs, Len(memOf) + 1)
    /\ UNCHANGED <<memLocal, memMine, memPeer, memEvent, memIndex, memTerm, memRecall, memDisturbed>>

\* A sync publishes the own stream when it extends the accepted copy and
\* accepts what the peer published; it may bring the cited event.
SyncMemories ==
  /\ <<memMine, memPeer, memEvent>> # <<memLocal, memTheirs, TRUE>>
  /\ memMine' = IF IsPrefix(memMine, memLocal) THEN memLocal ELSE memMine
  /\ memPeer' = memTheirs /\ memEvent' \in {memEvent, TRUE}
  /\ UNCHANGED <<memOf, memLocal, memTheirs, memIndex, memTerm, memRecall, memDisturbed>>
\* An older copy of the local refs is put back.
RestoreBackup ==
  /\ memDisturbed < MaxMemDisturbances /\ memLocal # <<>>
  /\ memDisturbed' = memDisturbed + 1 /\ memLocal' = Front(memLocal)
  /\ UNCHANGED <<memOf, memMine, memPeer, memTheirs, memEvent, memIndex, memTerm, memRecall>>

-----------------------------------------------------------------------------
(* Rebuilding and recall. *)

\* The index of any commit is derived again and replaces the file, by the
\* rebuild command or by another recall.
rebuildMemoryIndex ==
  \E at \in 1..2 :
    /\ memDisturbed < MaxMemDisturbances /\ memDisturbed' = memDisturbed + 1
    /\ memIndex' = deriveMemoryIndex(at, memEvent)
    /\ UNCHANGED <<streamVars, memTerm, memRecall>>

\* A command, the first or one with a cursor, reads the accepted events first.
cmdMemoryRecall ==
  \/ \E req \in MemRequests :
       /\ memRecall.pc = "idle"
       /\ memRecall' = [NoTraversal EXCEPT !.pc = "read", !.req = req, !.event = memEvent]
       /\ UNCHANGED <<streamVars, memIndex, memTerm, memDisturbed>>
  \/ /\ memRecall.pc = "more"
     /\ memRecall' = [memRecall EXCEPT !.pc = "read", !.event = memEvent]
     /\ UNCHANGED <<streamVars, memIndex, memTerm, memDisturbed>>

memoryRecallQueryDigest(req, index) == <<req, index.fp>>
decodeMemoryRecallCursor(digest, rows) ==
  memRecall.digest = <<>> \/ (memRecall.digest = digest /\ memRecall.last \in Ids(rows))
\* The rows after the one the cursor names, and those of them up to a row.
RestOf(rows) == {r \in rows : \A c \in rows : c.id = memRecall.last => memoryIndexRecordLess(c, r)}
RowsUpTo(rest, row) == {r \in rest : r = row \/ memoryIndexRecordLess(r, row)}
TruePage(live) == Ids(queryMemoryIndex(live, memRecall.req))

ReturnPage(page, rest, last, digest, live) ==
  memRecall' = [memRecall EXCEPT
    !.pc     = IF page = rest THEN "done" ELSE "more",
    !.digest = digest,
    !.last   = last,
    !.got    = @ \cup Ids(page),
    !.again  = @ \cup (memRecall.got \cap Ids(page)),
    !.want   = IF memRecall.digest = <<>> THEN TruePage(live) ELSE @,
    !.now    = TruePage(live)]
\* A page is empty only when nothing is left.
buildMemorySearchEnvelope(rest, digest, live) ==
  \/ rest = {} /\ ReturnPage({}, rest, memRecall.last, digest, live)
  \/ \E row \in rest : /\ Cardinality(RowsUpTo(rest, row)) <= MemPage
                       /\ ReturnPage(RowsUpTo(rest, row), rest, row.id, digest, live)
loadMemoryRecallSelection ==
  /\ memRecall.pc = "read"
  /\ \E live \in {deriveMemoryIndex(memRecall.req.at, memRecall.event)} :
     \E index \in {IF verifyMemoryIndex(memIndex, live) THEN memIndex ELSE live} :
     \E rows \in {queryMemoryIndex(index, memRecall.req)} :
     \E digest \in {memoryRecallQueryDigest(memRecall.req, index)} :
       /\ memIndex' = index
       /\ IF decodeMemoryRecallCursor(digest, rows)
          THEN buildMemorySearchEnvelope(RestOf(rows), digest, live)
          ELSE memRecall' = [memRecall EXCEPT !.pc = "refused"]
  /\ UNCHANGED <<streamVars, memTerm, memDisturbed>>

\* The behaviour ends with the observed traversal.
MemoryNext ==
  /\ memRecall.pc \notin {"done", "refused"}
  /\ \/ \E t \in MemTerminals : cmdMemoryRecord(t) \/ cmdMemoryLifecycle(t) \/ appendMemoryAtHead(t)
     \/ PeerAppends \/ SyncMemories \/ RestoreBackup
     \/ rebuildMemoryIndex \/ cmdMemoryRecall \/ loadMemoryRecallSelection

MemorySpec == MemoryInit /\ [][MemoryNext]_memoryVars

-----------------------------------------------------------------------------
(* Properties. *)

\* A recall that was followed to its last page returned every memory that
\* matched when it began, none twice, and none that did not match at its end:
\* appends, syncs, rebuilds for other commits and late evidence between the
\* pages either leave the traversal one selection or make its cursor refuse
\* (loadMemoryRecallSelection, verifyMemoryIndexV0, buildMemorySearchEnvelope).
PagesAreOneSelection ==
  memRecall.pc = "done" =>
    memRecall.want \subseteq memRecall.got /\ memRecall.got \subseteq memRecall.now /\ memRecall.again = {}
=============================================================================

---------------------------- MODULE ArtifactStore ----------------------------
(***************************************************************************)
(* Custom artifacts: a clone signs types and records into its actor's      *)
(* chain through one private intent per operation key, accepts chains of   *)
(* others by fetch and by file import, and pushes its own                  *)
(* (artifact_store.go, artifact_revision.go, artifact_read.go,             *)
(* artifact_closure.go, artifact_exchange.go, artifact_replication.go).    *)
(*                                                                         *)
(* A commit is the chain that ends in it.  An artifact is [id, req]; id is *)
(* <<actor, operation, n>>, where n tells apart two signatures of one      *)
(* request (their timestamps differ), and req is the immutable request.    *)
(* Two processes work in the clone of Me; the clone of Peer is another     *)
(* repository.  A process may die before any durable write.  Schemas are   *)
(* abstracted to the type revision a record names.                         *)
(***************************************************************************)
EXTENDS Naturals, FiniteSets, Sequences, FiniteSetsExt, SequencesExt

CONSTANTS
  ArtWork,       \* process of the clone -> the operations and exchanges it may be asked for
  ArtKinds,      \* operation key of Me -> the kinds its client may ask for
  ArtPeerKinds,  \* operation key of Peer -> the kinds
  ArtOpaque,     \* raw objects a client may preserve
  ArtOpaqueMax,  \* how many the opaque index admits
  MaxArtCrashes  \* bound: deaths of a process

ASSUME ArtifactAssumption ==
  /\ {ArtOpaqueMax, MaxArtCrashes} \subseteq Nat /\ DOMAIN ArtKinds \cap DOMAIN ArtPeerKinds = {}
  /\ {"type", "open"} \cap DOMAIN ArtKinds = {}   \* the keys of what was signed before

VARIABLES
  artRefs,    \* refs of the clone: <<place, actor>> -> chain
  artThere,   \* refs of the peer's clone
  artIntent,  \* operation -> private intent
  artProc,    \* process -> what it is doing
  artBundle,  \* actor -> chain, the one exchange file the peer exports
  artIndex,   \* opaque public index
  artAnswers, \* [op, id, req]: what a client that asked for req was told
  artSigned,  \* operation -> signatures made for it
  artCrashes

artifactVars == <<artRefs, artThere, artIntent, artProc, artBundle, artIndex, artAnswers,
                  artSigned, artCrashes>>

Me       == "m"
Peer     == "y"
ArtActors == {Me, Peer}
ArtOps   == DOMAIN ArtKinds
ArtProcs == DOMAIN ArtWork
RefNames == {"own", "remote", "imported"} \X ArtActors
NoID     == <<>>
NoIntent == [stage |-> "none"]
NoWork   == [pc |-> "idle"]

Request(kind, rec, parents, typ, needs) ==
  [kind |-> kind, rec |-> rec, parents |-> parents, typ |-> typ, needs |-> needs]
Artifact(id, req) == [id |-> id, req |-> req]
OpOf(x) == <<x.id[1], x.id[2]>>

\* Both clones begin with a type and a record of Me, who signed them long ago.
FirstType == Artifact(<<Me, "type", 1>>, Request("type.publish", NoID, {}, NoID, {}))
FirstOpen == Artifact(<<Me, "open", 1>>, Request("record.open", NoID, {}, FirstType.id, {}))
Started   == <<FirstType, FirstOpen>>

ArtifactInit ==
  /\ artRefs  = [k \in RefNames |-> IF k = <<"own", Me>> THEN Started ELSE <<>>]
  /\ artThere = [k \in RefNames |-> IF k = <<"own", Me>> THEN Started ELSE <<>>]
  /\ artIntent = [o \in ArtOps |-> NoIntent]
  /\ artProc = [p \in ArtProcs |-> NoWork]
  /\ artBundle = [a \in ArtActors |-> <<>>]
  /\ artIndex = {} /\ artAnswers = {} /\ artCrashes = 0
  /\ artSigned = [o \in ArtOps |-> 0]

-----------------------------------------------------------------------------
(* Verified histories. *)

Refs(refs, a)    == {refs[k] : k \in {r \in RefNames : r[2] = a}}
Held(refs)       == UNION {ToSet(refs[k]) : k \in RefNames}
IDs(H)           == {x.id : x \in H}
TheArt(H, id)    == CHOOSE x \in H : x.id = id
IsRecord(x)      == x.req.kind # "type.publish"
Logical(x)       == IF x.req.kind = "record.open" THEN x.id ELSE x.req.rec
Heads(H, rec)    == IDs({x \in H : IsRecord(x) /\ Logical(x) = rec})
                    \ UNION {x.req.parents : x \in {y \in H : y.req.rec = rec}}

Dependencies(x) == x.req.parents \cup x.req.needs \cup ({x.req.rec, x.req.typ} \ {NoID})

\* One ref per actor and place, all of one actor on one line.
StreamsAgree(refs) ==
  \A a \in ArtActors : \A c, d \in Refs(refs, a) : Len(c) <= Len(d) => IsPrefix(c, d)
Stream(refs, a) == CHOOSE c \in Refs(refs, a) : \A d \in Refs(refs, a) : Len(d) <= Len(c)

\* Envelope and lineage rules of one artifact, given that its dependencies are held.
Lineage(H, x) ==
  LET q == x.req
      parents == {TheArt(H, i) : i \in q.parents}
  IN  CASE q.kind = "type.publish"   -> Cardinality(q.parents) <= 1 /\ \A y \in parents : ~IsRecord(y)
        [] q.kind = "record.open"    -> q.parents = {} /\ ~IsRecord(TheArt(H, q.typ))
        [] OTHER -> /\ \A y \in parents : IsRecord(y) /\ Logical(y) = q.rec
                    /\ q.kind = "record.revise" => \A y \in parents : y.req.typ = q.typ
                    /\ q.kind = "record.convert" => \A y \in parents : y.req.typ # q.typ
                    /\ q.kind # "record.resolve" => Cardinality(q.parents) = 1
                    /\ q.parents # {}

ValidHistory(H) ==
  /\ \A x, y \in H : OpOf(x) = OpOf(y) => x = y
  /\ \A x \in H : Dependencies(x) \subseteq IDs(H) /\ Lineage(H, x)

\* loadArtifactHistory finds a complete, undivided history.
Loads(refs) == StreamsAgree(refs) /\ ValidHistory(Held(refs))

-----------------------------------------------------------------------------
(* What a client may ask for, and what is checked before it is signed. *)

Types(H)    == {x.id : x \in {y \in H : ~IsRecord(y)}}
Openings(H) == {x.id : x \in {y \in H : y.req.kind = "record.open"}}

\* The targets are held and the lineage rules met.
CheckMutation(H, q) ==
  /\ q.parents \cup q.needs \cup ({q.rec, q.typ} \ {NoID}) \subseteq IDs(H)
  /\ Lineage(H, Artifact(NoID, q))
\* The parents are every current head, and only a resolution may have several.
CheckSuccessor(H, q) ==
  /\ q.rec \in Openings(H) /\ q.parents = Heads(H, q.rec)
  /\ q.kind # "record.resolve" => Cardinality(Heads(H, q.rec)) = 1
Admissible(H, q) == CheckMutation(H, q) /\ (q.rec # NoID => CheckSuccessor(H, q))

\* Requests clients form from what they see.
Asked(H, kinds) ==
  LET types == {Request("type.publish", NoID, {t}, NoID, {}) : t \in Types(H)}
      opens == {Request("record.open", NoID, {}, t, Openings(H)) : t \in Types(H)}
      next(k) == {Request(k, r, Heads(H, r), t, {}) : r \in Openings(H), t \in Types(H)}
  IN  {q \in types \cup opens \cup next("record.revise") \cup next("record.resolve")
               \cup next("record.convert") : q.kind \in kinds /\ Admissible(H, q)}

-----------------------------------------------------------------------------
(* One mutation: intent, signature, candidate, ref, acknowledgement. *)

Own           == <<"own", Me>>
Mutating      == {"prepare", "sign", "save", "check", "publish", "confirm"}
Locked(o)     == \E p \in ArtProcs : artProc[p].pc \in Mutating /\ artProc[p].op = o
Move(p, pc)   == artProc' = [artProc EXCEPT ![p].pc = pc]
Rest(p)       == artProc' = [artProc EXCEPT ![p] = NoWork]
artElse       == <<artThere, artBundle, artIndex, artCrashes>>

\* The artifact of the actor's stream that carries the operation key.
Public(refs, o) == {x \in ToSet(Stream(refs, Me)) : x.id[2] = o}

\* The ref is where the stream ends, and where the intent first saw it.
SigningRoot(refs) == refs[Own] = Stream(refs, Me)
Current(i, refs)  == i.stage \in {"none", "prepared", "publishing"}
                     /\ (i.stage # "none" => i.expected = refs[Own])

\* The private intent of the key, or the artifact published under it, is of another
\* request; a check of the published one only:
BindsPublicOther(o, q) == \E x \in Public(artRefs, o) : x.req # q
BindsOther(o, q) ==
  \/ artIntent[o].stage # "none" /\ artIntent[o].req # q
  \/ \E x \in Public(artRefs, o) : x.req # q

\* beginArtifactMutation under the key's lock, from one coherent reading.
Begin(p, o, q) ==
  /\ artProc[p].pc = "idle" /\ ~Locked(o) /\ ~BindsOther(o, q)
  /\ Loads(artRefs) /\ Public(artRefs, o) = {}
  /\ SigningRoot(artRefs) /\ Current(artIntent[o], artRefs)
  /\ Admissible(Held(artRefs), q)
  /\ artProc' = [artProc EXCEPT ![p] =
       [pc |-> "prepare", op |-> o, req |-> q, seen |-> artRefs, id |-> NoID]]
  /\ UNCHANGED <<artRefs, artIntent, artAnswers, artSigned, artElse>>

Settled(o, x) ==
  IF artIntent[o].stage = "none" THEN artIntent
  ELSE [artIntent EXCEPT ![o] =
          [stage |-> "published", req |-> @.req, expected |-> @.expected, cand |-> x.id]]

\* The operation is already in the stream: its intent is settled, its answer given.
Replay(p, o, q) ==
  /\ artProc[p].pc = "idle" /\ ~Locked(o) /\ ~BindsOther(o, q) /\ Loads(artRefs)
  /\ \E x \in Public(artRefs, o) :
       /\ artIntent' = Settled(o, x)
       /\ artAnswers' = artAnswers \cup {[op |-> o, id |-> x.id, req |-> q]}
  /\ UNCHANGED <<artRefs, artProc, artSigned, artElse>>

Prepare(p) ==
  LET w == artProc[p]
  IN  /\ w.pc = "prepare"
      /\ artIntent' = IF artIntent[w.op].stage # "none" THEN artIntent
           ELSE [artIntent EXCEPT ![w.op] =
                   [stage |-> "prepared", req |-> w.req, expected |-> w.seen[Own], cand |-> NoID]]
      /\ Move(p, IF artIntent[w.op].stage = "publishing" THEN "check" ELSE "sign")
      /\ UNCHANGED <<artRefs, artAnswers, artSigned, artElse>>

\* A candidate an earlier attempt recorded is never signed again.
Sign(p) ==
  LET w == artProc[p]
  IN  /\ w.pc = "sign" /\ artRefs = w.seen
      /\ artSigned' = [artSigned EXCEPT ![w.op] = @ + 1]
      /\ artProc' = [artProc EXCEPT ![p].pc = "save", ![p].id = <<Me, w.op, artSigned[w.op] + 1>>]
      /\ UNCHANGED <<artRefs, artIntent, artAnswers, artElse>>

SaveCandidate(p) ==
  LET w == artProc[p]
  IN  /\ w.pc = "save"
      /\ artIntent' = [artIntent EXCEPT ![w.op].stage = "publishing", ![w.op].cand = w.id]
      /\ Move(p, "check")
      /\ UNCHANGED <<artRefs, artAnswers, artSigned, artElse>>

\* artifactAttemptSources, then update-ref with the expected-old value.
CheckSources(p) ==
  /\ artProc[p].pc = "check" /\ artRefs = artProc[p].seen
  /\ Move(p, "publish")
  /\ UNCHANGED <<artRefs, artIntent, artAnswers, artSigned, artElse>>

Publish(p) ==
  LET w == artProc[p]
      i == artIntent[w.op]
  IN  /\ w.pc = "publish" /\ artRefs[Own] = i.expected
      /\ artRefs' = [artRefs EXCEPT ![Own] = Append(i.expected, Artifact(i.cand, i.req))]
      /\ Move(p, "confirm")
      /\ UNCHANGED <<artIntent, artAnswers, artSigned, artElse>>

Confirm(p) ==
  LET o == artProc[p].op
      q == artProc[p].req
  IN  /\ artProc[p].pc = "confirm" /\ Loads(artRefs)
      /\ \E x \in Held(artRefs) :
           /\ x.id = artIntent[o].cand
           /\ artIntent' = Settled(o, x)
           /\ artAnswers' = artAnswers \cup {[op |-> o, id |-> x.id, req |-> q]}
      /\ Rest(p)
      /\ UNCHANGED <<artRefs, artSigned, artElse>>

\* Sources changed under the attempt, or the ref did.
MutationRefused(p) ==
  LET w == artProc[p]
  IN  /\ \/ w.pc \in {"sign", "check"} /\ artRefs # w.seen
         \/ w.pc = "publish" /\ artRefs[Own] # artIntent[w.op].expected
         \/ w.pc = "confirm" /\ ~Loads(artRefs)
      /\ Rest(p)
      /\ UNCHANGED <<artRefs, artIntent, artAnswers, artSigned, artElse>>

-----------------------------------------------------------------------------
(* Closures, fetch, import and push. *)

\* Everything a selection needs: stream predecessors, lineage, types, required
\* targets and the current heads of logical ones.
Reaches(refs, x) ==
  LET H == Held(refs)
      s == Stream(refs, x.id[1])
  IN  {y \in H : \/ y.id \in Dependencies(x)
                 \/ \E n \in x.req.needs : y.id \in Heads(H, n)
                 \/ \E k \in 2..Len(s) : s[k] = x /\ y = s[k - 1]}
ClosureOf(refs, roots) ==
  LET step[n \in 0..Cardinality(Held(refs))] ==
        IF n = 0 THEN roots
        ELSE step[n - 1] \cup UNION {Reaches(refs, x) : x \in step[n - 1]}
  IN  step[Cardinality(Held(refs))]

\* Per actor the stream up to its last selected artifact.
Selection(refs, roots) ==
  LET c == ClosureOf(refs, roots)
  IN  [a \in ArtActors |->
         LET s == Stream(refs, a)
         IN  SubSeq(s, 1, Max({0} \cup {k \in DOMAIN s : s[k] \in c}))]
Sent(b) == {a \in ArtActors : b[a] # <<>>}

\* What is accepted at a place: the present refs overlaid by the incoming chains.
Projected(refs, place, b) ==
  [k \in RefNames |-> IF k[1] = place /\ k[2] \in Sent(b) THEN b[k[2]] ELSE refs[k]]
NoRewind(refs, place, b) == \A a \in Sent(b) : IsPrefix(refs[<<place, a>>], b[a])
\* Every selected ref still has the value the verification read; a promotion that
\* trusted its earlier reading:
NoLease(refs, w) == TRUE
Leased(refs, w)  == \A a \in Sent(w.take) : refs[<<w.place, a>>] = w.seen[<<w.place, a>>]
Alone(b) == [k \in RefNames |-> IF k[1] = "own" THEN b[k[2]] ELSE <<>>]

\* The incoming chains verify alone in quarantine, and the whole projected view
\* verifies, before a destination ref is touched.
Accept(p, place, b) ==
  /\ artProc[p].pc = "idle" /\ Sent(b) # {}
  /\ Loads(Alone(b)) /\ Loads(artRefs) /\ NoRewind(artRefs, place, b)
  /\ Loads(Projected(artRefs, place, b))
  /\ artProc' = [artProc EXCEPT ![p] =
       [pc |-> "promote", place |-> place, take |-> b, seen |-> artRefs]]
  /\ UNCHANGED <<artRefs, artIntent, artAnswers, artSigned, artElse>>

Fetch(p)  == /\ Loads(artThere)
             /\ \E x \in Held(artThere) \ Held(artRefs) :
                  Accept(p, "remote", Selection(artThere, {x}))
Import(p) == Accept(p, "imported", artBundle)

\* Expected-old values of the selected refs only.
Promote(p) ==
  LET w == artProc[p]
  IN  /\ w.pc = "promote"
      /\ artRefs' = IF Leased(artRefs, w) THEN Projected(artRefs, w.place, w.take) ELSE artRefs
      /\ Rest(p)
      /\ UNCHANGED <<artIntent, artAnswers, artSigned, artElse>>

PushList(p) ==
  /\ artProc[p].pc = "idle" /\ Loads(artRefs)
  /\ \E x \in ToSet(artRefs[Own]) \ Held(artThere) :
       LET b == Selection(artRefs, {x})
       IN  /\ NoRewind(artThere, "own", b)
           /\ artProc' = [artProc EXCEPT ![p] =
                [pc |-> "push", place |-> "own", take |-> b, seen |-> artThere]]
  /\ UNCHANGED <<artRefs, artIntent, artAnswers, artSigned, artElse>>

\* An atomic push under leases; what the client learns of it is not modelled.
PushSend(p) ==
  LET w == artProc[p]
  IN  /\ w.pc = "push"
      /\ artThere' = IF Leased(artThere, w) THEN Projected(artThere, "own", w.take) ELSE artThere
      /\ Rest(p)
      /\ UNCHANGED <<artRefs, artIntent, artAnswers, artSigned, artBundle, artIndex, artCrashes>>

\* The peer signs in its own clone, and exports a file.
PeerSigns(o) ==
  /\ Loads(artThere) /\ Public(artThere, o) = {}
  /\ \A x \in Held(artThere) : x.id[2] # o
  /\ \E q \in Asked(Held(artThere), ArtPeerKinds[o]) :
       artThere' = [artThere EXCEPT ![<<"own", Peer>>] = Append(@, Artifact(<<Peer, o, 1>>, q))]
  /\ UNCHANGED <<artRefs, artIntent, artProc, artBundle, artIndex, artAnswers, artSigned, artCrashes>>

Export ==
  /\ Loads(artThere) /\ Sent(artBundle) = {}
  /\ \E x \in ToSet(artThere[<<"own", Peer>>]) : artBundle' = Selection(artThere, {x})
  /\ UNCHANGED <<artRefs, artThere, artIntent, artProc, artIndex, artAnswers, artSigned, artCrashes>>

-----------------------------------------------------------------------------
(* The opaque index: read, merged and written under its own lock. *)

IndexFree == \A p \in ArtProcs : artProc[p].pc # "index"

PreserveRead(p, x) ==
  /\ artProc[p].pc = "idle" /\ IndexFree /\ x \notin artIndex
  /\ Cardinality(artIndex) < ArtOpaqueMax
  /\ artProc' = [artProc EXCEPT ![p] = [pc |-> "index", merged |-> artIndex \cup {x}]]
  /\ UNCHANGED <<artRefs, artIntent, artAnswers, artSigned, artElse>>

PreserveWrite(p) ==
  /\ artProc[p].pc = "index"
  /\ artIndex' = artProc[p].merged
  /\ Rest(p)
  /\ UNCHANGED <<artRefs, artThere, artIntent, artBundle, artAnswers, artSigned, artCrashes>>

-----------------------------------------------------------------------------

ArtifactCrash(p) ==
  /\ artProc[p].pc # "idle" /\ artCrashes < MaxArtCrashes
  /\ artCrashes' = artCrashes + 1
  /\ Rest(p)
  /\ UNCHANGED <<artRefs, artThere, artIntent, artBundle, artIndex, artAnswers, artSigned>>

ArtifactStep(p) ==
  \/ Prepare(p) \/ Sign(p) \/ SaveCandidate(p) \/ CheckSources(p) \/ Publish(p) \/ Confirm(p)
  \/ MutationRefused(p) \/ Promote(p) \/ PushSend(p)

\* A client repeats a request whose intent is not settled.
Retry(o) ==
  /\ artIntent[o].stage \in {"prepared", "publishing"}
  /\ \E p \in {r \in ArtProcs : o \in ArtWork[r]} :
       Begin(p, o, artIntent[o].req) \/ Replay(p, o, artIntent[o].req)

Ask(p, o) ==
  \E q \in Asked(Held(artRefs), ArtKinds[o]) : Begin(p, o, q) \/ Replay(p, o, q)

ArtifactNext ==
  \/ \E p \in ArtProcs :
       \/ \E o \in ArtWork[p] \cap ArtOps : Ask(p, o)
       \/ "fetch" \in ArtWork[p] /\ Fetch(p)
       \/ "import" \in ArtWork[p] /\ Import(p)
       \/ "push" \in ArtWork[p] /\ PushList(p)
       \/ ArtifactStep(p) \/ ArtifactCrash(p)
  \/ \E o \in ArtOps : Retry(o)
  \/ \E o \in DOMAIN ArtPeerKinds : PeerSigns(o)
  \/ Export

\* The index shares no state with the refs.
OpaqueNext ==
  \E p \in ArtProcs : PreserveWrite(p) \/ ArtifactCrash(p) \/ \E x \in ArtOpaque : PreserveRead(p, x)

ArtifactSpec == ArtifactInit /\ [][ArtifactNext \/ OpaqueNext]_artifactVars

-----------------------------------------------------------------------------
(* Properties. *)

ArtifactTypeOK ==
  /\ \A o \in ArtOps : artIntent[o].stage \in {"none", "prepared", "publishing", "published"}
  /\ artRefs[Own] \in Refs(artRefs, Me) /\ Cardinality(artIndex) <= ArtOpaqueMax

\* Whatever is interrupted, repeated or run beside it, an operation key stands for
\* one signed artifact: all answers given for it name the same one, it is in the
\* actor's stream and says what that client asked for, and the accepted view, which
\* would hold a second one against the actor, still loads (artifact_store.go
\* appendArtifact, artifact_read.go validate).
OneArtifactPerOperation ==
  /\ Loads(artRefs)
  /\ \A s, t \in artAnswers : s.op = t.op => s.id = t.id
  /\ \A s \in artAnswers :
       /\ Artifact(s.id, s.req) \in ToSet(artRefs[Own])
       /\ artIntent[s.op].stage = "published" /\ artIntent[s.op].cand = s.id

\* No accepted ref moves back or aside, here or at the peer, and the opaque index
\* forgets no object, although imports are verified against refs read earlier
\* (artifact_exchange.go importArtifactExchange, preserveArtifactExchange).
NothingAcceptedLost ==
  [][/\ \A k \in RefNames : IsPrefix(artRefs[k], artRefs'[k]) /\ IsPrefix(artThere[k], artThere'[k])
     /\ artIndex \subseteq artIndex']_artifactVars
=============================================================================

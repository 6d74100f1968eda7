------------------------------ MODULE ActorLog ------------------------------
(***************************************************************************)
(* One actor's signed event chain: appendEvent and its guards (store.go),  *)
(* and the chain's way through `hn sync` (commands.go).  memory_store.go   *)
(* follows the same protocol for a memory stream.                          *)
(*                                                                         *)
(* The actor's key is in the clones that run writer processes.  An event   *)
(* is signed with its predecessor's id, so an id stands for the chain up   *)
(* to it; the model keeps the chain.  Each event carries a fresh stamp.    *)
(***************************************************************************)
EXTENDS Naturals, Sequences

CONSTANTS
  Clones,      \* clones of the repository, with one common remote
  Writers,     \* processes that append events
  Home,        \* the clone each of them runs in
  Owner,       \* the clone whose history the abstract view follows
  Serial,      \* TRUE: commands of a clone run one at a time
  MaxEvents,   \* bound: events signed
  MaxRestores  \* bound: clones restored from a backup

ASSUME ActorLogAssumption ==
  /\ Home \in [Writers -> Clones] /\ Owner \in Clones
  /\ Serial \in BOOLEAN
  /\ MaxEvents \in Nat /\ MaxRestores \in Nat

VARIABLES
  log,      \* per clone, the chain at refs/hn/actors/<actor>
  accepted, \* per clone, the chain at refs/hn/remotes/<remote>/actors/<actor>
  pub,      \* the remote's chain
  signed,   \* stamps used so far
  pc,       \* per writer: "idle", "composed" or "checked"
  previous, \* per writer, the chain its event names as Previous
  head,     \* per writer, the chain appendEvent read from the ref
  sync,     \* per clone: "idle", "import" or "push"
  fetched,  \* per clone, the chain fetched and verified by this sync
  verified, \* per clone, the chain it promoted (<<>>: none)
  acked,    \* per clone, history: chains whose append was reported done
  restores  \* bound: restores so far

writers == <<pc, previous, head>>
syncing == <<sync, fetched, verified>>
vars    == <<log, accepted, pub, signed, writers, syncing, acked, restores>>

Stamps    == 1..MaxEvents
KeyHolder(c) == \E w \in Writers : Home[w] = c

\* requireSigningPrefix: the accepted chain agrees with the local one at every
\* sequence number, and is not longer.
SigningPrefix(local, chain) ==
  Len(chain) <= Len(local) /\ \A i \in 1..Len(chain) : local[i] = chain[i]

\* validateActorChains on the union of two chains: no conflicting sequence.
OneChain(s, t) == SigningPrefix(s, t) \/ SigningPrefix(t, s)

Idle(c) == sync[c] = "idle" /\ \A w \in Writers : Home[w] = c => pc[w] = "idle"
Alone(c) == Serial => Idle(c)

Init ==
  /\ log = [c \in Clones |-> <<>>]
  /\ accepted = [c \in Clones |-> <<>>]
  /\ pub = <<>>
  /\ signed = 0
  /\ pc = [w \in Writers |-> "idle"]
  /\ previous = [w \in Writers |-> <<>>]
  /\ head = [w \in Writers |-> <<>>]
  /\ sync = [c \in Clones |-> "idle"]
  /\ fetched = [c \in Clones |-> <<>>]
  /\ verified = [c \in Clones |-> <<>>]
  /\ acked = [c \in Clones |-> {}]
  /\ restores = 0

----------------------------------------------------------------------------
(* Appending. *)

\* The command returns, or is gone: its locals are forgotten.
Return(w) ==
  /\ pc' = [pc EXCEPT ![w] = "idle"]
  /\ previous' = [previous EXCEPT ![w] = <<>>]
  /\ head' = [head EXCEPT ![w] = <<>>]

\* nextEvent: the command composes an event on the head it reads.
NextEvent(w) ==
  /\ pc[w] = "idle" /\ Alone(Home[w])
  /\ pc' = [pc EXCEPT ![w] = "composed"]
  /\ previous' = [previous EXCEPT ![w] = log[Home[w]]]
  /\ UNCHANGED <<log, accepted, pub, signed, head, syncing, acked, restores>>

\* Mutant: the accepted copies of the signer's history are not consulted.
EnsureNoRoot(w) == TRUE

\* ensureActorSigningRoot: no accepted copy is ahead of the head, or off it.
EnsureActorSigningRoot(w) == SigningPrefix(log[Home[w]], accepted[Home[w]])

\* appendEvent reads the ref, checks the signing root and that the event still
\* names this head as its predecessor; otherwise the command is refused (see
\* Abandon).
CheckHead(w) ==
  /\ pc[w] = "composed"
  /\ EnsureActorSigningRoot(w) /\ previous[w] = log[Home[w]]
  /\ pc' = [pc EXCEPT ![w] = "checked"]
  /\ head' = [head EXCEPT ![w] = log[Home[w]]]
  /\ UNCHANGED <<log, accepted, pub, signed, previous, syncing, acked, restores>>

\* Mutant: the ref is updated whatever it holds by then.
UnmovedIgnored(w) == TRUE

\* The old value update-ref compares with.
HeadUnmoved(w) == log[Home[w]] = head[w]

\* Mutant: the first sequence number is 0.
UpdateRefFromZero(w) ==
  /\ pc[w] = "checked" /\ signed < MaxEvents
  /\ HeadUnmoved(w)
  /\ Return(w)
  /\ signed' = signed + 1
  /\ log' = [log EXCEPT ![Home[w]] = Append(head[w], signed)]
  /\ UNCHANGED <<accepted, pub, syncing, acked, restores>>

\* update-ref moves the ref to the new commit, whose parent is the head read.
UpdateRef(w) ==
  LET c == Home[w]
      new == Append(head[w], signed + 1)
  IN /\ pc[w] = "checked" /\ signed < MaxEvents
     /\ HeadUnmoved(w)
     /\ Return(w)
     /\ signed' = signed + 1
     /\ log' = [log EXCEPT ![c] = new]
     /\ acked' = [acked EXCEPT ![c] = @ \cup {new}]
     /\ UNCHANGED <<accepted, pub, syncing, restores>>

\* A check or the compare-and-swap is refused, or the command fails or dies
\* before it: objects it wrote are unreachable, no ref has moved.
Abandon(w) ==
  /\ pc[w] # "idle"
  /\ Return(w)
  /\ UNCHANGED <<log, accepted, pub, signed, syncing, acked, restores>>

----------------------------------------------------------------------------
(* hn sync: import, then publication, also when the import failed. *)

\* The advertised chain is fetched; an import that would put two events at one
\* sequence number is refused as a whole.
Fetch(c) ==
  /\ sync[c] = "idle" /\ Alone(c)
  /\ \/ /\ OneChain(log[c], pub) /\ OneChain(accepted[c], pub) /\ pub # <<>>
        /\ sync' = [sync EXCEPT ![c] = "import"]
        /\ fetched' = [fetched EXCEPT ![c] = pub]
        /\ UNCHANGED verified
     \/ /\ ~(OneChain(log[c], pub) /\ OneChain(accepted[c], pub) /\ pub # <<>>)
        /\ sync' = [sync EXCEPT ![c] = "push"]
        /\ UNCHANGED <<fetched, verified>>
  /\ UNCHANGED <<log, accepted, pub, signed, writers, acked, restores>>

\* The accepted ref is promoted.
Promote(c) ==
  /\ sync[c] = "import"
  /\ sync' = [sync EXCEPT ![c] = "push"]
  /\ accepted' = [accepted EXCEPT ![c] = fetched[c]]
  /\ verified' = [verified EXCEPT ![c] = fetched[c]]
  /\ UNCHANGED <<log, pub, signed, writers, fetched, acked, restores>>

\* Mutant: the ancestry test is the wrong way round.
CoveredReversed(c) == verified[c] # <<>> /\ SigningPrefix(log[c], verified[c])

\* actorPublicationCovered: the history promoted in this sync already holds
\* the local one.
PublicationCovered(c) == verified[c] # <<>> /\ SigningPrefix(verified[c], log[c])

\* Mutant: a forced push.
PushForced(c) == TRUE

\* The remote takes a push only as a fast-forward.
FastForward(c) == SigningPrefix(log[c], pub)

\* publishLocalFacts for this actor's ref, when the clone has one.
PublishLocalFacts(c) ==
  /\ sync[c] = "push"
  /\ sync' = [sync EXCEPT ![c] = "idle"]
  /\ pub' = IF log[c] # <<>> /\ ~PublicationCovered(c) /\ FastForward(c)
            THEN log[c] ELSE pub
  /\ fetched' = [fetched EXCEPT ![c] = <<>>]
  /\ verified' = [verified EXCEPT ![c] = <<>>]
  /\ UNCHANGED <<log, accepted, signed, writers, acked, restores>>

----------------------------------------------------------------------------
(* Recovery (docs/recovery.md). *)

Prefixes(s) == {SubSeq(s, 1, n) : n \in 0..Len(s)}

\* Environment: the clone is rebuilt from a backup of some age, its private
\* key included.
Restore(c) ==
  /\ KeyHolder(c) /\ Idle(c) /\ restores < MaxRestores
  /\ restores' = restores + 1
  /\ \E l \in Prefixes(log[c]), a \in Prefixes(accepted[c]) :
       /\ OneChain(l, a)
       /\ log' = [log EXCEPT ![c] = l]
       /\ accepted' = [accepted EXCEPT ![c] = a]
       /\ acked' = [acked EXCEPT ![c] = {s \in @ : SigningPrefix(l, s)}]
  /\ UNCHANGED <<pub, signed, writers, syncing>>

\* Environment: the operator restores signing ownership, moving the local ref
\* to the verified accepted head it is a prefix of, by compare-and-swap.
Adopt(c) ==
  /\ KeyHolder(c) /\ Alone(c)
  /\ log[c] # accepted[c] /\ SigningPrefix(accepted[c], log[c])
  /\ log' = [log EXCEPT ![c] = accepted[c]]
  /\ UNCHANGED <<accepted, pub, signed, writers, syncing, acked, restores>>

----------------------------------------------------------------------------
SyncStep(c) == Fetch(c) \/ Promote(c) \/ PublishLocalFacts(c)

Next ==
  \/ \E w \in Writers : NextEvent(w) \/ CheckHead(w) \/ UpdateRef(w) \/ Abandon(w)
  \/ \E c \in Clones : SyncStep(c) \/ Restore(c) \/ Adopt(c)

Spec == Init /\ [][Next]_vars

\* The operator, or the watching runner, keeps synchronizing.
FairSpec == Spec /\ \A c \in Clones : WF_vars(SyncStep(c))

----------------------------------------------------------------------------
(* Properties. *)

\* Chains are chains of stamps and program counters are in range (appendEvent
\* never stores an event that was not signed).
TypeOK ==
  /\ log \in [Clones -> Seq(Stamps)] /\ accepted \in [Clones -> Seq(Stamps)]
  /\ pub \in Seq(Stamps)
  /\ signed \in 0..MaxEvents /\ restores \in 0..MaxRestores
  /\ pc \in [Writers -> {"idle", "composed", "checked"}]
  /\ previous \in [Writers -> Seq(Stamps)] /\ head \in [Writers -> Seq(Stamps)]
  /\ sync \in [Clones -> {"idle", "import", "push"}]
  /\ fetched \in [Clones -> Seq(Stamps)] /\ verified \in [Clones -> Seq(Stamps)]
  /\ acked \in [Clones -> SUBSET Seq(Stamps)]

\* An append that was reported done is never lost to a concurrent writer of
\* the same clone (appendEventWithAttachments' compare-and-swap).
AckedAppendsKept == \A c \in Clones : \A s \in acked[c] : SigningPrefix(log[c], s)

\* "Common collaboration and memory writers refuse a missing, stale or
\* divergent signing root when conflicting accepted history is already known
\* locally" (docs/recovery.md): with one command at a time, a clone never
\* signs a fork of a history it has accepted, even after it was restored from
\* an old backup while another clone holds the same key.
NoKnownFork == \A c \in Clones : OneChain(log[c], accepted[c])

\* What the remote publishes is never rewritten: no sync takes an event that
\* was once public out of the history.
PublishedOnlyGrows == [][SigningPrefix(pub', pub)]_vars

\* With one writing clone, every event it signed is published in the end.
SignedIsPublished == \A n \in Stamps : Len(log[Owner]) >= n ~> Len(pub) >= n

\* The signer's clone and the remote, seen from outside, are one history that
\* its owner extends and whose earlier states it publishes.
Abstract == INSTANCE OwnedHistory WITH Events <- Stamps, owned <- log[Owner], published <- pub
ImplementsOwnedHistory == Abstract!Spec
=============================================================================

--------------------------- MODULE ActorLogProofs ---------------------------
(***************************************************************************)
(* For any number of clones, writers and events: concurrent writers never  *)
(* lose an acknowledged append, a clone that runs its commands one at a    *)
(* time never forks a history it accepted, a signer with one home          *)
(* implements OwnedHistory, and what was published stays published.        *)
(***************************************************************************)
EXTENDS ActorLog, TLAPS, SequenceTheorems

Chains == Seq(Stamps)

----------------------------------------------------------------------------
(* Prefixes. *)

\* A chain is a prefix of itself, and the empty chain of every chain.
LEMMA PrefixBasic ==
  ASSUME NEW s \in Chains
  PROVE  SigningPrefix(s, s) /\ SigningPrefix(s, <<>>)
BY DEF SigningPrefix, Chains

\* Appending keeps every prefix.
LEMMA PrefixAppend ==
  ASSUME NEW s \in Chains, NEW x \in Chains, NEW e \in Stamps, SigningPrefix(s, x)
  PROVE  SigningPrefix(Append(s, e), x)
BY DEF SigningPrefix, Chains

\* Prefixes of prefixes are prefixes.
LEMMA PrefixTransitive ==
  ASSUME NEW s \in Chains, NEW t \in Chains, NEW u \in Chains,
         SigningPrefix(s, t), SigningPrefix(t, u)
  PROVE  SigningPrefix(s, u)
BY DEF SigningPrefix, Chains

\* Chains that are prefixes of one another are equal.
LEMMA PrefixAntisymmetric ==
  ASSUME NEW s \in Chains, NEW t \in Chains, SigningPrefix(s, t), SigningPrefix(t, s)
  PROVE  s = t
<1>1. Len(s) = Len(t) /\ \A i \in 1..Len(s) : s[i] = t[i]
  BY DEF SigningPrefix, Chains
<1> QED
  BY <1>1, SeqEqual DEF Chains

\* An initial segment of a chain is one of its prefixes, and a chain.
LEMMA SegmentIsPrefix ==
  ASSUME NEW s \in Chains, NEW l \in Prefixes(s)
  PROVE  l \in Chains /\ SigningPrefix(s, l)
<1>1. PICK n \in 0..Len(s) : l = SubSeq(s, 1, n)
  BY DEF Prefixes
<1>2. l \in Chains /\ Len(l) = n
  BY <1>1, SubSeqProperties DEF Chains
<1>3. \A i \in 1..n : l[i] = s[i]
  BY <1>1, SubSeqProperties DEF Chains
<1> QED
  BY <1>2, <1>3 DEF SigningPrefix, Chains

----------------------------------------------------------------------------
(* The type invariant. *)

\* Every step of a writer, of a sync and of the operator keeps the types.
LEMMA TypeStep == TypeOK /\ [Next]_vars => TypeOK'
<1> SUFFICES ASSUME TypeOK, [Next]_vars PROVE TypeOK'
  OBVIOUS
<1> USE ActorLogAssumption DEF TypeOK, Return, writers, syncing
<1>1. ASSUME NEW w \in Writers, NextEvent(w) PROVE TypeOK'
  BY <1>1 DEF NextEvent
<1>2. ASSUME NEW w \in Writers, CheckHead(w) PROVE TypeOK'
  BY <1>2 DEF CheckHead
<1>3. ASSUME NEW w \in Writers, UpdateRef(w) PROVE TypeOK'
  <2>1. signed + 1 \in Stamps
    BY <1>3 DEF UpdateRef, Stamps
  <2> DEFINE new == Append(head[w], signed + 1)
  <2>2. new \in Seq(Stamps) /\ signed + 1 \in 0..MaxEvents /\ Home[w] \in Clones
    BY <2>1 DEF Stamps
  <2>3. /\ log' = [log EXCEPT ![Home[w]] = new]
        /\ acked' = [acked EXCEPT ![Home[w]] = @ \cup {new}]
        /\ signed' = signed + 1
        /\ Return(w) /\ UNCHANGED <<accepted, pub, syncing, restores>>
    BY <1>3 DEF UpdateRef
  <2> HIDE DEF new
  <2>4. acked' \in [Clones -> SUBSET Seq(Stamps)]
    BY <2>2, <2>3
  <2> QED
    BY <2>2, <2>3, <2>4
<1>4. ASSUME NEW w \in Writers, Abandon(w) PROVE TypeOK'
  BY <1>4 DEF Abandon
<1>5. ASSUME NEW c \in Clones, Fetch(c) PROVE TypeOK'
  <2>1. CASE sync' = [sync EXCEPT ![c] = "import"] /\ fetched' = [fetched EXCEPT ![c] = pub]
    BY <1>5, <2>1 DEF Fetch
  <2>2. CASE sync' = [sync EXCEPT ![c] = "push"] /\ UNCHANGED <<fetched, verified>>
    BY <1>5, <2>2 DEF Fetch
  <2> QED
    BY <1>5, <2>1, <2>2, Zenon DEF Fetch
<1>6. ASSUME NEW c \in Clones, Promote(c) PROVE TypeOK'
  BY <1>6 DEF Promote
<1>7. ASSUME NEW c \in Clones, PublishLocalFacts(c) PROVE TypeOK'
  BY <1>7 DEF PublishLocalFacts
<1>8. ASSUME NEW c \in Clones, Restore(c) PROVE TypeOK'
  <2>1. PICK l \in Prefixes(log[c]), a \in Prefixes(accepted[c]) :
          /\ log' = [log EXCEPT ![c] = l] /\ accepted' = [accepted EXCEPT ![c] = a]
          /\ acked' = [acked EXCEPT ![c] = {s \in @ : SigningPrefix(l, s)}]
    BY <1>8 DEF Restore
  <2>2. l \in Seq(Stamps) /\ a \in Seq(Stamps)
    BY SegmentIsPrefix DEF Chains
  <2> QED
    BY <1>8, <2>1, <2>2 DEF Restore
<1>9. ASSUME NEW c \in Clones, Adopt(c) PROVE TypeOK'
  BY <1>9 DEF Adopt
<1>10. CASE UNCHANGED vars
  BY <1>10 DEF vars
<1> HIDE DEF TypeOK, Return, writers, syncing
<1> QED
  BY <1>1, <1>2, <1>3, <1>4, <1>5, <1>6, <1>7, <1>8, <1>9, <1>10 DEF Next, SyncStep

\* Before the first event everything is empty.
LEMMA InitType == Init => TypeOK
BY ActorLogAssumption DEF Init, TypeOK

----------------------------------------------------------------------------
(* Acknowledged appends. *)

\* A step that leaves the local chain an extension of itself keeps every
\* acknowledged append.
LEMMA AckedStep == TypeOK /\ AckedAppendsKept /\ [Next]_vars => AckedAppendsKept'
<1> SUFFICES ASSUME TypeOK, AckedAppendsKept, [Next]_vars PROVE AckedAppendsKept'
  OBVIOUS
<1>a. ASSUME UNCHANGED <<log, acked>> PROVE AckedAppendsKept'
  BY <1>a DEF AckedAppendsKept
<1>1. ASSUME NEW w \in Writers, UpdateRef(w) PROVE AckedAppendsKept'
  <2> DEFINE c == Home[w]
             new == Append(log[c], signed + 1)
  <2>1. /\ c \in Clones /\ log[c] \in Chains /\ signed + 1 \in Stamps /\ new \in Chains
        /\ log' = [log EXCEPT ![c] = new]
        /\ acked' = [acked EXCEPT ![c] = @ \cup {new}]
    BY <1>1, ActorLogAssumption DEF UpdateRef, HeadUnmoved, TypeOK, Stamps, Chains
  <2>2. \A s \in acked[c] : s \in Chains /\ SigningPrefix(log[c], s)
    BY <2>1 DEF TypeOK, AckedAppendsKept, Chains
  <2>3. \A s \in acked[c] \cup {new} : SigningPrefix(new, s)
    BY <2>1, <2>2, PrefixAppend, PrefixBasic
  <2> HIDE DEF c, new
  <2> QED
    BY <2>1, <2>3 DEF TypeOK, AckedAppendsKept
<1>2. ASSUME NEW c \in Clones, Restore(c) PROVE AckedAppendsKept'
  <2>1. PICK l \in Prefixes(log[c]), a \in Prefixes(accepted[c]) :
          /\ log' = [log EXCEPT ![c] = l]
          /\ acked' = [acked EXCEPT ![c] = {s \in @ : SigningPrefix(l, s)}]
    BY <1>2 DEF Restore
  <2> QED
    BY <2>1 DEF TypeOK, AckedAppendsKept
<1>3. ASSUME NEW c \in Clones, Adopt(c) PROVE AckedAppendsKept'
  <2>1. /\ log' = [log EXCEPT ![c] = accepted[c]] /\ acked' = acked
        /\ SigningPrefix(accepted[c], log[c])
        /\ log[c] \in Chains /\ accepted[c] \in Chains
    BY <1>3 DEF Adopt, TypeOK, Chains
  <2>2. \A s \in acked[c] : SigningPrefix(accepted[c], s)
    BY <2>1, PrefixTransitive DEF TypeOK, AckedAppendsKept, Chains
  <2> QED
    BY <2>1, <2>2 DEF TypeOK, AckedAppendsKept
<1>4. ASSUME NEW w \in Writers, NextEvent(w) \/ CheckHead(w) \/ Abandon(w) PROVE AckedAppendsKept'
  BY <1>4, <1>a DEF NextEvent, CheckHead, Abandon
<1>5. ASSUME NEW c \in Clones, SyncStep(c) PROVE AckedAppendsKept'
  BY <1>5, <1>a DEF SyncStep, Fetch, Promote, PublishLocalFacts
<1>6. CASE UNCHANGED vars
  BY <1>6, <1>a DEF vars
<1> QED
  BY <1>1, <1>2, <1>3, <1>4, <1>5, <1>6 DEF Next

\* Whatever writers run at the same time in a clone, an append that was
\* reported done stays in the clone's history.
THEOREM AppendsKept == Spec => []AckedAppendsKept
<1>1. Init => TypeOK /\ AckedAppendsKept
  BY InitType DEF Init, AckedAppendsKept
<1>2. TypeOK /\ AckedAppendsKept /\ [Next]_vars => TypeOK' /\ AckedAppendsKept'
  BY TypeStep, AckedStep
<1> QED
  BY <1>1, <1>2, PTL DEF Spec

----------------------------------------------------------------------------
(* No fork of known history, when commands of a clone run one at a time.    *)
(* The signing root is checked before the ref is updated; what keeps the    *)
(* check good until then is that no other command of the clone runs.        *)

\* At most one command runs in a clone.
OneCommand ==
  /\ \A w \in Writers : pc[w] # "idle" => sync[Home[w]] = "idle"
  /\ \A v, w \in Writers : v # w /\ Home[v] = Home[w] /\ pc[v] # "idle" => pc[w] = "idle"

\* A checked writer still holds a root that covers the accepted history, and
\* a verified fetch still agrees with the local one.
RootsHeld ==
  /\ \A w \in Writers : pc[w] = "checked" =>
       SigningPrefix(log[Home[w]], accepted[Home[w]])
  /\ \A c \in Clones : sync[c] = "import" => OneChain(log[c], fetched[c])

ForkInv == TypeOK /\ NoKnownFork /\ OneCommand /\ RootsHeld

\* Every step keeps the invariant.
LEMMA ForkStep == ASSUME Serial = TRUE PROVE ForkInv /\ [Next]_vars => ForkInv'
<1> SUFFICES ASSUME ForkInv, [Next]_vars PROVE ForkInv'
  OBVIOUS
<1>t. TypeOK'
  BY TypeStep DEF ForkInv
<1> USE ActorLogAssumption DEF ForkInv, NoKnownFork, OneCommand, RootsHeld
<1>1. ASSUME NEW w \in Writers, NextEvent(w) PROVE ForkInv'
  BY <1>1, <1>t DEF NextEvent, Alone, Idle, TypeOK, syncing
<1>2. ASSUME NEW w \in Writers, CheckHead(w) PROVE ForkInv'
  BY <1>2, <1>t DEF CheckHead, EnsureActorSigningRoot, TypeOK, syncing
<1>3. ASSUME NEW w \in Writers, UpdateRef(w) PROVE ForkInv'
  <2> DEFINE c == Home[w]
             new == Append(log[c], signed + 1)
  <2>1. /\ c \in Clones /\ log[c] \in Chains /\ accepted[c] \in Chains /\ signed + 1 \in Stamps
        /\ log' = [log EXCEPT ![c] = new] /\ pc[w] = "checked"
        /\ pc' = [pc EXCEPT ![w] = "idle"]
        /\ UNCHANGED <<accepted, sync, fetched, verified>>
    BY <1>3 DEF UpdateRef, HeadUnmoved, TypeOK, Stamps, Chains, Return, syncing
  <2>2. OneChain(new, accepted[c])
    BY <2>1, PrefixAppend DEF OneChain
  <2>3. sync[c] = "idle" /\ \A v \in Writers : v # w /\ Home[v] = c => pc[v] = "idle"
    BY <2>1
  <2>4. NoKnownFork'
    BY <2>1, <2>2 DEF TypeOK
  <2>5. OneCommand'
    BY <2>1 DEF TypeOK
  <2>6. RootsHeld'
    <3>1. \A d \in Clones : d # c => log'[d] = log[d]
      BY <2>1 DEF TypeOK
    <3> HIDE DEF new, c
    <3>2. \A v \in Writers : pc'[v] = "checked" => Home[v] # c /\ pc[v] = "checked"
      BY <2>1, <2>3 DEF TypeOK
    <3> QED
      BY <2>1, <2>3, <3>1, <3>2 DEF TypeOK
  <2> QED
    BY <1>t, <2>4, <2>5, <2>6
<1>4. ASSUME NEW w \in Writers, Abandon(w) PROVE ForkInv'
  BY <1>4, <1>t DEF Abandon, Return, TypeOK, syncing
<1>5. ASSUME NEW c \in Clones, Fetch(c) PROVE ForkInv'
  <2>1. /\ Idle(c) /\ UNCHANGED <<log, accepted, pc>>
        /\ \/ /\ OneChain(log[c], pub)
              /\ sync' = [sync EXCEPT ![c] = "import"]
              /\ fetched' = [fetched EXCEPT ![c] = pub]
           \/ sync' = [sync EXCEPT ![c] = "push"] /\ fetched' = fetched
    BY <1>5 DEF Fetch, Alone, writers
  <2>2. \A w \in Writers : pc[w] # "idle" => Home[w] # c
    BY <2>1 DEF Idle
  <2>3. OneCommand' /\ NoKnownFork'
    BY <2>1, <2>2 DEF TypeOK
  <2>4. RootsHeld'
    BY <2>1 DEF TypeOK
  <2> QED
    BY <1>t, <2>3, <2>4
<1>6. ASSUME NEW c \in Clones, Promote(c) PROVE ForkInv'
  BY <1>6, <1>t DEF Promote, TypeOK, writers
<1>7. ASSUME NEW c \in Clones, PublishLocalFacts(c) PROVE ForkInv'
  <2>1. /\ UNCHANGED <<log, accepted, pc>>
        /\ sync' = [sync EXCEPT ![c] = "idle"]
        /\ fetched' = [fetched EXCEPT ![c] = <<>>]
    BY <1>7 DEF PublishLocalFacts, writers
  <2> QED
    BY <2>1, <1>t DEF TypeOK
<1>8. ASSUME NEW c \in Clones, Restore(c) PROVE ForkInv'
  <2>1. PICK l \in Prefixes(log[c]), a \in Prefixes(accepted[c]) :
          OneChain(l, a) /\ log' = [log EXCEPT ![c] = l] /\ accepted' = [accepted EXCEPT ![c] = a]
    BY <1>8 DEF Restore
  <2> QED
    BY <1>8, <2>1, <1>t DEF Restore, Idle, TypeOK, writers, syncing
<1>9. ASSUME NEW c \in Clones, Adopt(c) PROVE ForkInv'
  <2>1. OneChain(accepted[c], accepted[c])
    BY PrefixBasic DEF OneChain, TypeOK, Chains
  <2>2. Idle(c) /\ log' = [log EXCEPT ![c] = accepted[c]] /\ UNCHANGED <<accepted, writers, syncing>>
    BY <1>9 DEF Adopt, Alone
  <2> QED
    BY <2>1, <2>2, <1>t DEF Idle, TypeOK, writers, syncing
<1>10. CASE UNCHANGED vars
  BY <1>10, <1>t DEF vars, writers, syncing
<1> HIDE DEF ForkInv
<1> QED
  BY <1>1, <1>2, <1>3, <1>4, <1>5, <1>6, <1>7, <1>8, <1>9, <1>10 DEF Next, SyncStep

\* With one command at a time in each clone, no clone signs a fork of a
\* history it has accepted: not while other clones hold the same key, and not
\* after it was restored from an old backup.
THEOREM KnownHistoryNotForked == ASSUME Serial = TRUE PROVE Spec => []NoKnownFork
<1>1. Init => ForkInv
  <2>1. OneChain(<<>>, <<>>)
    BY DEF OneChain, SigningPrefix
  <2> QED
    BY <2>1, InitType DEF Init, ForkInv, NoKnownFork, OneCommand, RootsHeld
<1>2. ForkInv /\ [Next]_vars => ForkInv'
  BY ForkStep
<1>3. ForkInv => NoKnownFork
  BY DEF ForkInv
<1> QED
  BY <1>1, <1>2, <1>3, PTL DEF Spec

----------------------------------------------------------------------------
(* A signer with one home implements OwnedHistory. *)

Exclusive == MaxRestores = 0 /\ \A w \in Writers : Home[w] = Owner

\* Everything seen of the history elsewhere is an earlier state of it.
CopiesLag ==
  /\ \A c \in Clones : c # Owner => log[c] = <<>>
  /\ SigningPrefix(log[Owner], pub)
  /\ \A c \in Clones : SigningPrefix(pub, accepted[c]) /\ SigningPrefix(pub, fetched[c])

OwnedInv == TypeOK /\ CopiesLag

\* One step: the invariant is kept, and the step is a step of OwnedHistory.
LEMMA OwnedStep ==
  ASSUME Exclusive
  PROVE  OwnedInv /\ [Next]_vars => OwnedInv' /\ [Abstract!Next]_<<log[Owner], pub>>
<1> SUFFICES ASSUME OwnedInv, [Next]_vars PROVE OwnedInv' /\ [Abstract!Next]_<<log[Owner], pub>>
  OBVIOUS
<1>t. TypeOK'
  BY TypeStep DEF OwnedInv
<1> USE ActorLogAssumption DEF Exclusive, OwnedInv, CopiesLag
<1> DEFINE Step == OwnedInv' /\ [Abstract!Next]_<<log[Owner], pub>>
<1>c. log[Owner] \in Chains /\ pub \in Chains /\ \A c \in Clones : accepted[c] \in Chains /\ fetched[c] \in Chains
  BY DEF TypeOK, Chains
<1>a. ASSUME UNCHANGED <<log, accepted, pub, fetched>> PROVE Step
  BY <1>a, <1>t
<1>1. ASSUME NEW w \in Writers, UpdateRef(w) PROVE Step
  <2>1. /\ log' = [log EXCEPT ![Owner] = Append(log[Owner], signed + 1)]
        /\ signed + 1 \in Stamps /\ UNCHANGED <<accepted, pub, fetched>>
    <3>1. Home[w] = Owner /\ head[w] = log[Owner]
      BY <1>1 DEF UpdateRef, HeadUnmoved
    <3> QED
      BY <1>1, <3>1 DEF UpdateRef, TypeOK, Stamps, syncing
  <2>2. log'[Owner] = Append(log[Owner], signed + 1)
    BY <2>1 DEF TypeOK
  <2>3. Abstract!Sign
    BY <2>1, <2>2 DEF Abstract!Sign
  <2>4. SigningPrefix(log'[Owner], pub')
    BY <2>1, <2>2, <1>c, PrefixAppend
  <2> QED
    BY <1>t, <2>1, <2>3, <2>4 DEF TypeOK, Abstract!Next
<1>2. ASSUME NEW w \in Writers, NextEvent(w) \/ CheckHead(w) \/ Abandon(w) PROVE Step
  BY <1>2, <1>a DEF NextEvent, CheckHead, Abandon, syncing
<1>3. ASSUME NEW c \in Clones, Fetch(c) PROVE Step
  <2>1. /\ UNCHANGED <<log, accepted, pub>>
        /\ fetched' = [fetched EXCEPT ![c] = pub] \/ fetched' = fetched
    BY <1>3 DEF Fetch
  <2>2. SigningPrefix(pub, pub)
    BY <1>c, PrefixBasic
  <2> QED
    BY <1>t, <2>1, <2>2 DEF TypeOK
<1>4. ASSUME NEW c \in Clones, Promote(c) PROVE Step
  BY <1>4, <1>t DEF Promote, TypeOK
<1>5. ASSUME NEW c \in Clones, PublishLocalFacts(c) PROVE Step
  <2>1. /\ UNCHANGED <<log, accepted>> /\ fetched' = [fetched EXCEPT ![c] = <<>>]
        /\ pub' = pub \/ (c = Owner /\ pub' = log[c])
    BY <1>5 DEF PublishLocalFacts
  <2>2. pub' \in Chains /\ SigningPrefix(pub', <<>>) /\ SigningPrefix(pub', pub)
        /\ SigningPrefix(log[Owner], pub')
    BY <2>1, <1>c, PrefixBasic
  <2>3. \A d \in Clones : SigningPrefix(pub', accepted[d]) /\ SigningPrefix(pub', fetched[d])
    BY <2>2, <1>c, PrefixTransitive
  <2>4. [Abstract!Next]_<<log[Owner], pub>>
    BY <2>1 DEF Abstract!Next, Abstract!Publish
  <2> QED
    BY <1>t, <2>1, <2>2, <2>3, <2>4 DEF TypeOK
<1>6. ASSUME NEW c \in Clones, Restore(c) PROVE Step
  BY <1>6 DEF Restore, TypeOK
<1>7. ASSUME NEW c \in Clones, Adopt(c) PROVE Step
  \* Nothing accepted is ahead of the owner's chain, so there is nothing to adopt.
  <2>1. c = Owner /\ log[c] # accepted[c] /\ SigningPrefix(accepted[c], log[c])
    BY <1>7 DEF Adopt, KeyHolder
  <2>2. SigningPrefix(log[c], accepted[c])
    BY <2>1, <1>c, PrefixTransitive
  <2> QED
    BY <2>1, <2>2, <1>c, PrefixAntisymmetric
<1>8. CASE UNCHANGED vars
  BY <1>8, <1>a DEF vars, syncing
<1> QED
  BY <1>1, <1>2, <1>3, <1>4, <1>5, <1>6, <1>7, <1>8 DEF Next, SyncStep

\* A signer whose key has one home, with any number of concurrent writers and
\* of clones that synchronize, implements the history its readers expect.
THEOREM ExclusiveSignerRefines == ASSUME Exclusive PROVE Spec => ImplementsOwnedHistory
<1>1. Init => OwnedInv /\ Abstract!Init
  <2>1. SigningPrefix(<<>>, <<>>)
    BY DEF SigningPrefix
  <2> QED
    BY <2>1, InitType, ActorLogAssumption DEF Init, OwnedInv, CopiesLag, Abstract!Init
<1>2. OwnedInv /\ [Next]_vars => OwnedInv' /\ [Abstract!Next]_<<log[Owner], pub>>
  BY OwnedStep
<1> QED
  BY <1>1, <1>2, PTL DEF Spec, ImplementsOwnedHistory, Abstract!Spec

----------------------------------------------------------------------------
(* Publication. *)

\* No sync, restore or adoption of any clone takes an event out of the history
\* the remote publishes: publishLocalFacts pushes only fast-forwards.
THEOREM PublishedKept == Spec => PublishedOnlyGrows
<1>1. TypeOK /\ [Next]_vars => [SigningPrefix(pub', pub)]_vars
  <2> SUFFICES ASSUME TypeOK, Next PROVE SigningPrefix(pub', pub)
    BY Zenon
  <2>1. pub \in Chains
    BY DEF TypeOK, Chains
  <2>2. \/ pub' = pub
        \/ \E c \in Clones : FastForward(c) /\ pub' = log[c]
    BY DEF Next, SyncStep, NextEvent, CheckHead, UpdateRef, Abandon, Fetch, Promote,
        PublishLocalFacts, Restore, Adopt
  <2> QED
    BY <2>1, <2>2, PrefixBasic DEF FastForward
<1> QED
  BY <1>1, InitType, TypeStep, PTL DEF Spec, PublishedOnlyGrows
=============================================================================

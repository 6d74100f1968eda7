---------------------------- MODULE StoreProofs ----------------------------
(***************************************************************************)
(* The artifact store, for every number of processes, operations, kinds    *)
(* of requests and crashes; the reduction of contribution records, for     *)
(* every set of revisions, records and policies, and how a block ends; and *)
(* the pages of a recall, for every number of memories and pages.          *)
(***************************************************************************)
EXTENDS ArtifactStore, Moderation, Memory, FiniteSetTheorems, SequenceTheorems, WellFoundedInduction, TLAPS

----------------------------------------------------------------------------
(* Artifacts: what the refs only grow by. *)

\* A sequence of anything, and tables of them.
IsChain(s) == s \in Seq(ToSet(s))
Chains(refs, keys) == refs = [k \in keys |-> refs[k]] /\ \A k \in keys : IsChain(refs[k])

Working(w, pc) == [pc |-> pc, op |-> w.op, req |-> w.req, seen |-> w.seen, id |-> w.id]
Intended(i, stage, cand) == [stage |-> stage, req |-> i.req, expected |-> i.expected, cand |-> cand]
WorkRecord(w) == w.pc \in Mutating => w = Working(w, w.pc) /\ w.op \in ArtOps
IntentRecord(i) == i.stage # "none" => i = Intended(i, i.stage, i.cand)
ArtShape ==
  /\ Chains(artRefs, RefNames) /\ Chains(artThere, RefNames) /\ Chains(artBundle, ArtActors)
  /\ artProc = [p \in ArtProcs |-> artProc[p]] /\ artIntent = [o \in ArtOps |-> artIntent[o]]
  /\ \A p \in ArtProcs : WorkRecord(artProc[p])
  /\ \A o \in ArtOps : IntentRecord(artIntent[o])

\* A transfer extends what it read at its destination.
TakeExtends(w) ==
  w.pc \in {"promote", "push"} =>
    /\ Chains(w.take, ArtActors) /\ NoRewind(w.seen, w.place, w.take)
    /\ w.place \in IF w.pc = "push" THEN {"own"} ELSE {"remote", "imported"}
TakesExtend == \A p \in ArtProcs : TakeExtends(artProc[p])

\* The index is merged by one process at a time.
IndexHeld ==
  \A p \in ArtProcs : artProc[p].pc = "index" =>
    /\ artIndex \subseteq artProc[p].merged
    /\ \A q \in ArtProcs : artProc[q].pc = "index" => q = p

GrowInv == ArtShape /\ TakesExtend /\ IndexHeld

----------------------------------------------------------------------------
(* Artifacts: one source per actor, closed views, one artifact per key. *)

\* Where an actor signs; everything else of it is a copy.
Top(a) == IF a = Me THEN artRefs[Own] ELSE artThere[<<"own", Peer>>]
World  == ToSet(Top(Me)) \cup ToSet(Top(Peer))
Taken(b) == UNION {ToSet(b[a]) : a \in ArtActors}

OneSource ==
  /\ \A k \in RefNames : IsPrefix(artRefs[k], Top(k[2])) /\ IsPrefix(artThere[k], Top(k[2]))
  /\ \A a \in ArtActors :
       /\ IsPrefix(artBundle[a], Top(a))
       /\ \A p \in ArtProcs : artProc[p].pc \in {"promote", "push"} => IsPrefix(artProc[p].take[a], Top(a))

\* The signed artifacts are known by actor and operation key.
RequestOK(q) == q.kind = "record.open" => q.typ # NoID
KeyedBy(a, S) == \A x \in S : /\ x.id = <<x.id[1], x.id[2], x.id[3]>> /\ x.id[1] = a
                              /\ RequestOK(x.req)
                              /\ \A y \in S : y.id[2] = x.id[2] => y = x
Keyed == \A a \in ArtActors : KeyedBy(a, ToSet(Top(a)))

\* The views are closed, with every lineage rule met in the world.
Closed(W, S) == \A x \in S : Dependencies(x) \subseteq IDs(S) /\ Lineage(W, x)
ViewsClosed ==
  /\ Closed(World, Held(artRefs))
  /\ \A p \in ArtProcs : artProc[p].pc = "promote" => Closed(World, Taken(artProc[p].take))

\* Intents and what was published under their keys.
OwnID(i, o)  == i = <<Me, o, i[3]>>
IntentOK(S, o, i) ==
  /\ i.stage \in {"none", "prepared", "publishing", "published"}
  /\ i.stage # "none" => RequestOK(i.req)
  /\ i.stage = "publishing" => OwnID(i.cand, o)
  /\ \A x \in S : x.id[2] = o =>
       i.stage \in {"publishing", "published"} /\ x = Artifact(i.cand, i.req)
IntentsOK == \A o \in ArtOps : IntentOK(ToSet(artRefs[Own]), o, artIntent[o])

\* What a mutation knows at each of its steps.
Checked(W, H, q) ==
  /\ RequestOK(q) /\ Dependencies(Artifact(NoID, q)) \subseteq IDs(H)
  /\ Lineage(W, Artifact(NoID, q))
MutationOK(W, H, S, w, i) ==
  /\ w.pc = "prepare" => (i.stage # "none" =>
       i.stage \in {"prepared", "publishing"} /\ i.req = w.req /\ i.expected = w.seen[Own])
  /\ w.pc \in {"sign", "save", "check", "publish"} =>
       i.stage \in {"prepared", "publishing"} /\ i.req = w.req /\ i.expected = w.seen[Own]
  /\ w.pc = "save" => OwnID(w.id, w.op)
  /\ w.pc \in {"check", "publish"} => i.stage = "publishing"
  /\ w.pc \in {"prepare", "sign", "save", "check", "publish"} =>
       /\ Checked(W, H, w.req)
       /\ \A x \in S : x.id[2] # w.op
  /\ w.pc = "confirm" => i.stage = "publishing" /\ i.req = w.req /\ Artifact(i.cand, i.req) \in S
MutationsOK ==
  \A p \in ArtProcs : artProc[p].pc \in Mutating =>
    /\ \A q \in ArtProcs : (artProc[q].pc \in Mutating /\ artProc[q].op = artProc[p].op) => q = p
    /\ MutationOK(World, Held(artRefs), ToSet(artRefs[Own]), artProc[p], artIntent[artProc[p].op])

AnswersOK ==
  \A s \in artAnswers :
    /\ s.op \in ArtOps /\ s.id[2] = s.op /\ Artifact(s.id, s.req) \in ToSet(artRefs[Own])
    /\ artIntent[s.op].stage = "published" /\ artIntent[s.op].cand = s.id

OnceInv == OneSource /\ Keyed /\ ViewsClosed /\ IntentsOK /\ MutationsOK /\ AnswersOK
ArtInv  == GrowInv /\ OnceInv

----------------------------------------------------------------------------
(* Chains. *)

\* A set of natural numbers that has a member has a least one.
LEMMA LeastNumber ==
  ASSUME NEW T, T \subseteq Nat, T # {}
  PROVE  \E x \in T : \A y \in T : x <= y
<1>1. IsWellFoundedOn(OpToRel(<, Nat), Nat)
  BY NatLessThanWellFounded
<1>2. PICK x \in T : \A y \in T : ~(<<y, x>> \in OpToRel(<, Nat))
  BY <1>1, WFMin
<1>3. \A y \in T : ~(y < x)
  BY <1>2 DEF OpToRel
<1> QED
  BY <1>3

\* A set of numbers with a bound has a greatest one, which is its Max.
LEMMA MaxOf ==
  ASSUME NEW n \in Nat, NEW T, T \subseteq 0..n, T # {}
  PROVE  Max(T) \in T
<1> DEFINE B == {b \in Nat : \A t \in T : t <= b}
<1>1. PICK b \in B : \A c \in B : b <= c
  <2>1. n \in B /\ B \subseteq Nat
    OBVIOUS
  <2> HIDE DEF B
  <2> QED BY <2>1, LeastNumber
<1>2. b \in T
  <2> SUFFICES ASSUME b \notin T PROVE FALSE
    OBVIOUS
  <2>1. PICK t \in T : TRUE
    OBVIOUS
  <2>2. \A u \in T : u < b
    OBVIOUS
  <2>3. b - 1 \in B
    BY <2>1, <2>2
  <2> QED BY <1>1, <2>3
<1>3. b \in T /\ \A t \in T : b >= t
  BY <1>1, <1>2
<1> QED
  BY <1>3 DEF Max

LEMMA ChainParts ==
  ASSUME NEW s, IsChain(s)
  PROVE  /\ Len(s) \in Nat /\ DOMAIN s = 1..Len(s) /\ s = [i \in 1..Len(s) |-> s[i]]
         /\ ToSet(s) = {s[i] : i \in 1..Len(s)}
  BY DEF IsChain, ToSet

LEMMA ChainOf ==
  ASSUME NEW s, NEW R, s \in Seq(R)
  PROVE  IsChain(s)
<1>1. Len(s) \in Nat /\ s \in [1..Len(s) -> R] /\ DOMAIN s = 1..Len(s)
  BY LenProperties
<1>2. s \in [1..Len(s) -> ToSet(s)]
  BY <1>1 DEF ToSet
<1> QED
  BY <1>1, <1>2, SeqDef DEF IsChain

LEMMA PrefixPoint ==
  ASSUME NEW s, NEW t, IsChain(s), IsChain(t)
  PROVE  IsPrefix(s, t) <=> Len(s) <= Len(t) /\ \A i \in 1..Len(s) : s[i] = t[i]
<1>1. Len(s) \in Nat /\ Len(t) \in Nat
  BY ChainParts
<1>2. SubSeq(s, 1, Len(s)) = [i \in 1..Len(s) |-> s[i]]
  <2>1. SubSeq(s, 1, Len(s)) = s
    BY SubSeqFull DEF IsChain
  <2> QED BY <2>1, ChainParts
<1>3. ASSUME Len(s) <= Len(t)
      PROVE  SubSeq(t, 1, Len(s)) = [i \in 1..Len(s) |-> t[i]]
  <2> DEFINE u == SubSeq(t, 1, Len(s))
  <2>1. \A i \in 1..Len(s) : t[i] \in ToSet(t)
    BY <1>1, <1>3, ChainParts
  <2>2. /\ u \in Seq(ToSet(t)) /\ Len(u) = IF 1 <= Len(s) THEN Len(s) - 1 + 1 ELSE 0
        /\ \A i \in 1..(Len(s) - 1 + 1) : u[i] = t[1 + i - 1]
    BY <1>1, <2>1, SubSeqProperties
  <2> HIDE DEF u
  <2>3. Len(u) = Len(s) /\ \A i \in 1..Len(s) : u[i] = t[i]
    BY <1>1, <2>2
  <2>4. u = [i \in 1..Len(u) |-> u[i]]
    BY <2>2, LenProperties
  <2>5. u = [i \in 1..Len(s) |-> t[i]]
    BY <2>3, <2>4
  <2> QED BY <2>5 DEF u
<1>4. ASSUME [i \in 1..Len(s) |-> s[i]] = [i \in 1..Len(s) |-> t[i]], NEW i \in 1..Len(s)
      PROVE  s[i] = t[i]
  <2>1. [j \in 1..Len(s) |-> s[j]][i] = [j \in 1..Len(s) |-> t[j]][i]
    BY <1>4
  <2> QED BY <2>1
<1> QED
  BY <1>1, <1>2, <1>3, <1>4 DEF IsPrefix

LEMMA PrefixRefl ==
  ASSUME NEW s, IsChain(s)
  PROVE  IsPrefix(s, s)
  BY PrefixPoint, ChainParts

LEMMA PrefixTrans ==
  ASSUME NEW s, NEW t, NEW u, IsChain(s), IsChain(t), IsChain(u), IsPrefix(s, t), IsPrefix(t, u)
  PROVE  IsPrefix(s, u)
<1>1. Len(s) \in Nat /\ Len(t) \in Nat /\ Len(u) \in Nat
  BY ChainParts
<1> QED
  BY <1>1, PrefixPoint

LEMMA PrefixSame ==
  ASSUME NEW s, NEW t, IsChain(s), IsChain(t), IsPrefix(s, t), Len(t) <= Len(s)
  PROVE  s = t
<1>1. Len(s) = Len(t) /\ \A i \in 1..Len(s) : s[i] = t[i]
  BY PrefixPoint, ChainParts
<1> QED
  BY <1>1, ChainParts

\* Two beginnings of one chain are on one line.
LEMMA PrefixLine ==
  ASSUME NEW s, NEW t, NEW u, IsChain(s), IsChain(t), IsChain(u), IsPrefix(s, u), IsPrefix(t, u),
         Len(s) <= Len(t)
  PROVE  IsPrefix(s, t)
<1>1. Len(s) \in Nat /\ Len(t) \in Nat /\ Len(u) \in Nat
  BY ChainParts
<1> QED
  BY <1>1, PrefixPoint

LEMMA PrefixHolds ==
  ASSUME NEW s, NEW t, IsChain(s), IsChain(t), IsPrefix(s, t)
  PROVE  ToSet(s) \subseteq ToSet(t)
<1>1. Len(s) \in Nat /\ Len(t) \in Nat /\ Len(s) <= Len(t) /\ \A i \in 1..Len(s) : s[i] = t[i]
  BY PrefixPoint, ChainParts
<1> QED
  BY <1>1, ChainParts

LEMMA EmptyChain == IsChain(<<>>) /\ ToSet(<<>>) = {} /\ \A t : IsChain(t) => IsPrefix(<<>>, t)
<1>1. IsChain(<<>>) /\ ToSet(<<>>) = {} /\ Len(<<>>) = 0
  BY DEF IsChain, ToSet
<1> QED
  BY <1>1, PrefixPoint, ChainParts

LEMMA AppendChain ==
  ASSUME NEW s, IsChain(s), NEW x
  PROVE  /\ IsChain(Append(s, x)) /\ IsPrefix(s, Append(s, x))
         /\ ToSet(Append(s, x)) = ToSet(s) \cup {x}
<1> DEFINE R == ToSet(s) \cup {x}
           t == Append(s, x)
<1>1. Len(s) \in Nat /\ s \in Seq(R) /\ x \in R /\ DOMAIN s = 1..Len(s)
  <2>1. s \in Seq(R)
    BY SeqMonotonic DEF IsChain
  <2> QED BY <2>1, ChainParts
<1> HIDE DEF R
<1>2. /\ t \in Seq(R) /\ Len(t) = Len(s) + 1 /\ t[Len(s) + 1] = x
      /\ \A i \in 1..Len(s) : t[i] = s[i]
  BY <1>1, AppendProperties
<1>3. IsChain(t)
  BY <1>2, ChainOf
<1> HIDE DEF t
<1>4. IsPrefix(s, t)
  BY <1>1, <1>2, <1>3, PrefixPoint
<1>5. ToSet(t) = ToSet(s) \cup {x}
  <2>1. ToSet(t) = {t[i] : i \in 1..Len(t)} /\ ToSet(s) = {s[i] : i \in 1..Len(s)}
    BY <1>3, ChainParts
  <2> QED BY <1>1, <1>2, <2>1
<1> QED
  BY <1>3, <1>4, <1>5 DEF t

LEMMA BeginningChain ==
  ASSUME NEW s, IsChain(s), NEW n \in 0..Len(s)
  PROVE  IsChain(SubSeq(s, 1, n)) /\ IsPrefix(SubSeq(s, 1, n), s)
<1> DEFINE u == SubSeq(s, 1, n)
<1>1. Len(s) \in Nat /\ \A i \in 1..n : s[i] \in ToSet(s)
  BY ChainParts
<1>2. /\ u \in Seq(ToSet(s)) /\ Len(u) = IF 1 <= n THEN n - 1 + 1 ELSE 0
      /\ \A i \in 1..(n - 1 + 1) : u[i] = s[1 + i - 1]
  BY <1>1, SubSeqProperties
<1>3. IsChain(u)
  BY <1>2, ChainOf
<1> HIDE DEF u
<1>4. IsPrefix(u, s)
  BY <1>1, <1>2, <1>3, PrefixPoint
<1> QED
  BY <1>3, <1>4 DEF u

----------------------------------------------------------------------------
(* Streams and selections. *)

LEMMA RefsOf ==
  ASSUME NEW refs, NEW a \in ArtActors
  PROVE  Refs(refs, a) = {refs[<<"own", a>>], refs[<<"remote", a>>], refs[<<"imported", a>>]}
<1>1. {r \in RefNames : r[2] = a} = {<<"own", a>>, <<"remote", a>>, <<"imported", a>>}
  BY DEF RefNames
<1> QED
  BY <1>1 DEF Refs

LEMMA RefsChains ==
  ASSUME NEW refs, Chains(refs, RefNames), NEW a \in ArtActors
  PROVE  \A c \in Refs(refs, a) : IsChain(c)
<1>1. \A k \in {"own", "remote", "imported"} : <<k, a>> \in RefNames
  BY DEF RefNames
<1> QED
  BY <1>1, RefsOf DEF Chains

LEMMA StreamIs ==
  ASSUME NEW refs, Chains(refs, RefNames), NEW a \in ArtActors
  PROVE  /\ Stream(refs, a) \in Refs(refs, a) /\ IsChain(Stream(refs, a))
         /\ \A d \in Refs(refs, a) : Len(d) <= Len(Stream(refs, a))
<1> DEFINE R == Refs(refs, a)
<1>1. \A c \in R : Len(c) \in Nat
  BY RefsChains, ChainParts
<1>2. \E c \in R : \A d \in R : Len(d) <= Len(c)
  <2> DEFINE x == refs[<<"own", a>>]  y == refs[<<"remote", a>>]  z == refs[<<"imported", a>>]
  <2>1. R = {x, y, z}
    BY RefsOf
  <2> HIDE DEF x, y, z, R
  <2> QED BY <1>1, <2>1
<1>3. Stream(refs, a) \in R /\ \A d \in R : Len(d) <= Len(Stream(refs, a))
  BY <1>2 DEF Stream
<1> QED
  BY <1>3, RefsChains

LEMMA SelectionIs ==
  ASSUME NEW refs, Chains(refs, RefNames), NEW roots
  PROVE  /\ Chains(Selection(refs, roots), ArtActors)
         /\ \A a \in ArtActors : IsPrefix(Selection(refs, roots)[a], Stream(refs, a))
<1> DEFINE c == ClosureOf(refs, roots)
           cut(a) == Max({0} \cup {k \in DOMAIN Stream(refs, a) : Stream(refs, a)[k] \in c})
<1>1. Selection(refs, roots) = [a \in ArtActors |-> SubSeq(Stream(refs, a), 1, cut(a))]
  BY DEF Selection
<1> HIDE DEF c
<1>2. ASSUME NEW a \in ArtActors PROVE cut(a) \in 0..Len(Stream(refs, a))
  <2> DEFINE s == Stream(refs, a)
             T == {0} \cup {k \in DOMAIN s : s[k] \in c}
  <2>1. Len(s) \in Nat /\ DOMAIN s = 1..Len(s)
    BY StreamIs, ChainParts
  <2>2. T \subseteq 0..Len(s) /\ T # {}
    BY <2>1
  <2> HIDE DEF T
  <2>3. Max(T) \in T
    BY <2>1, <2>2, MaxOf
  <2> QED BY <2>2, <2>3 DEF T
<1> HIDE DEF cut
<1>3. \A a \in ArtActors : /\ IsChain(SubSeq(Stream(refs, a), 1, cut(a)))
                           /\ IsPrefix(SubSeq(Stream(refs, a), 1, cut(a)), Stream(refs, a))
  BY <1>2, StreamIs, BeginningChain
<1> QED
  BY <1>1, <1>3 DEF Chains

----------------------------------------------------------------------------
(* What a step makes of the processes. *)

ProcAt(p, w) == artProc' = [q \in ArtProcs |-> IF q = p THEN w ELSE artProc[q]]

LEMMA ProcMoves ==
  ASSUME ArtShape, NEW p \in ArtProcs
  PROVE  /\ \A w : artProc' = [artProc EXCEPT ![p] = w] => ProcAt(p, w)
         /\ Rest(p) => ProcAt(p, NoWork)
         /\ \A pc : artProc[p].pc \in Mutating /\ Move(p, pc) => ProcAt(p, Working(artProc[p], pc))
<1>1. artProc = [q \in ArtProcs |-> artProc[q]]
  BY DEF ArtShape
<1>2. \A w : artProc' = [artProc EXCEPT ![p] = w] => ProcAt(p, w)
  BY <1>1 DEF ProcAt
<1>3. ASSUME NEW pc, artProc[p].pc \in Mutating, Move(p, pc) PROVE ProcAt(p, Working(artProc[p], pc))
  <2>1. artProc[p] = Working(artProc[p], artProc[p].pc)
    BY <1>3 DEF ArtShape, WorkRecord
  <2>2. [artProc[p] EXCEPT !.pc = pc] = Working(artProc[p], pc)
    BY <2>1 DEF Working
  <2>3. artProc' = [artProc EXCEPT ![p] = [artProc[p] EXCEPT !.pc = pc]]
    BY <1>3 DEF Move
  <2> QED BY <1>2, <2>2, <2>3
<1> QED
  BY <1>2, <1>3 DEF Rest

LEMMA SignMoves ==
  ASSUME ArtShape, NEW p \in ArtProcs, Sign(p)
  PROVE  \E n : ProcAt(p, [pc |-> "save", op |-> artProc[p].op, req |-> artProc[p].req,
                           seen |-> artProc[p].seen, id |-> <<Me, artProc[p].op, n>>])
<1> DEFINE w == artProc[p]
           n == artSigned[w.op] + 1
           v == [pc |-> "save", op |-> w.op, req |-> w.req, seen |-> w.seen, id |-> <<Me, w.op, n>>]
<1>1. w.pc = "sign" /\ artProc' = [artProc EXCEPT ![p] = [w EXCEPT !.pc = "save", !.id = <<Me, w.op, n>>]]
  BY DEF Sign, ArtShape
<1>2. w = Working(w, w.pc)
  BY <1>1 DEF ArtShape, WorkRecord, Mutating
<1> HIDE DEF n
<1>3. [w EXCEPT !.pc = "save", !.id = <<Me, w.op, n>>] = v
  <2> DEFINE i == <<Me, w.op, n>>
             u == [w EXCEPT !.pc = "save"]
  <2>1. u = Working(w, "save")
    BY <1>2 DEF Working
  <2> HIDE DEF i, u
  <2>2. [u EXCEPT !.id = i] = [pc |-> "save", op |-> w.op, req |-> w.req, seen |-> w.seen, id |-> i]
    BY <2>1 DEF Working
  <2> QED BY <2>2 DEF i, u
<1> QED
  BY <1>1, <1>3, ProcMoves

----------------------------------------------------------------------------
(* Refs and index only grow. *)

Kept ==
  /\ \A k \in RefNames : IsPrefix(artRefs[k], artRefs'[k]) /\ IsPrefix(artThere[k], artThere'[k])
  /\ artIndex \subseteq artIndex'
TablesShape == Chains(artRefs, RefNames) /\ Chains(artThere, RefNames) /\ Chains(artBundle, ArtActors)
IntentsShape == /\ artIntent = [o \in ArtOps |-> artIntent[o]]
                /\ \A o \in ArtOps : IntentRecord(artIntent[o])

LEMMA ProjectedIs ==
  ASSUME NEW refs, Chains(refs, RefNames), NEW b, Chains(b, ArtActors), NEW place
  PROVE  Chains(Projected(refs, place, b), RefNames)
<1>1. \A k \in RefNames : k[2] \in ArtActors
  BY DEF RefNames
<1> QED
  BY <1>1 DEF Projected, Chains

LEMMA ProjectedExtends ==
  ASSUME NEW refs, Chains(refs, RefNames), NEW w, Leased(refs, w), NoRewind(w.seen, w.place, w.take),
         NEW k \in RefNames
  PROVE  IsPrefix(refs[k], Projected(refs, w.place, w.take)[k])
<1>1. k = <<k[1], k[2]>>
  BY DEF RefNames
<1>2. CASE k[1] = w.place /\ k[2] \in Sent(w.take)
  BY <1>1, <1>2 DEF Projected, Leased, NoRewind
<1>3. CASE ~(k[1] = w.place /\ k[2] \in Sent(w.take))
  BY <1>3, PrefixRefl DEF Projected, Chains
<1> QED
  BY <1>2, <1>3

LEMMA SameKept ==
  ASSUME ArtShape, UNCHANGED <<artRefs, artThere, artIndex>>
  PROVE  Kept
  BY PrefixRefl DEF Kept, ArtShape, Chains

\* The processes after a step hold records of their own, or the old ones.
ProcsMove ==
  /\ artProc' = [q \in ArtProcs |-> artProc'[q]]
  /\ \A q \in ArtProcs : \/ artProc'[q] = artProc[q]
                         \/ /\ WorkRecord(artProc'[q]) /\ TakeExtends(artProc'[q])
                            /\ artProc'[q].pc # "index"

LEMMA GrowKept ==
  ASSUME GrowInv, ProcsMove, TablesShape', IntentsShape', artIndex' = artIndex
  PROVE  GrowInv'
<1>1. ArtShape'
  BY DEF GrowInv, ArtShape, ProcsMove, TablesShape, IntentsShape
<1>2. TakesExtend'
  BY DEF GrowInv, TakesExtend, ProcsMove
<1>3. IndexHeld'
  BY DEF GrowInv, IndexHeld, ProcsMove
<1> QED
  BY <1>1, <1>2, <1>3 DEF GrowInv

LEMMA ProcsMoveAt ==
  ASSUME NEW p \in ArtProcs, NEW w, ProcAt(p, w), WorkRecord(w), TakeExtends(w), w.pc # "index"
  PROVE  ProcsMove
<1>1. artProc'[p] = w /\ \A q \in ArtProcs : q # p => artProc'[q] = artProc[q]
  BY DEF ProcAt
<1>2. artProc' = [q \in ArtProcs |-> artProc'[q]]
  BY DEF ProcAt
<1> QED
  BY <1>1, <1>2 DEF ProcsMove

LEMMA NoWorkOK == WorkRecord(NoWork) /\ TakeExtends(NoWork) /\ NoWork.pc # "index" /\ NoWork.pc = "idle"
  BY DEF WorkRecord, TakeExtends, NoWork, Mutating

LEMMA WorkingOK ==
  ASSUME NEW w, NEW pc, pc \in Mutating, w.op \in ArtOps
  PROVE  /\ WorkRecord(Working(w, pc)) /\ TakeExtends(Working(w, pc)) /\ Working(w, pc).pc # "index"
         /\ Working(w, pc).pc = pc /\ Working(w, pc).op = w.op /\ Working(w, pc).req = w.req
         /\ Working(w, pc).seen = w.seen /\ Working(w, pc).id = w.id
  BY DEF WorkRecord, TakeExtends, Working, Mutating

LEMMA IntentsSet ==
  ASSUME ArtShape, NEW o \in ArtOps, NEW i, IntentRecord(i), artIntent' = [artIntent EXCEPT ![o] = i]
  PROVE  /\ IntentsShape' /\ artIntent'[o] = i
         /\ \A q \in ArtOps : q # o => artIntent'[q] = artIntent[q]
<1>1. artIntent = [q \in ArtOps |-> artIntent[q]] /\ \A q \in ArtOps : IntentRecord(artIntent[q])
  BY DEF ArtShape
<1>2. artIntent' = [q \in ArtOps |-> artIntent'[q]] /\ artIntent'[o] = i
      /\ \A q \in ArtOps : q # o => artIntent'[q] = artIntent[q]
  BY <1>1
<1>3. \A q \in ArtOps : IntentRecord(artIntent'[q])
  BY <1>1, <1>2
<1> QED
  BY <1>2, <1>3 DEF IntentsShape

\* The steps of a mutation, in terms of the records they leave.
LEMMA BeginIs ==
  ASSUME ArtShape, NEW p \in ArtProcs, NEW o \in ArtOps, NEW q, Begin(p, o, q)
  PROVE  /\ ProcAt(p, [pc |-> "prepare", op |-> o, req |-> q, seen |-> artRefs, id |-> NoID])
         /\ UNCHANGED <<artRefs, artThere, artIntent, artBundle, artIndex, artAnswers>>
  BY ProcMoves DEF Begin, artElse

LEMMA SettledIs ==
  ASSUME ArtShape, NEW o \in ArtOps, NEW x, artIntent' = Settled(o, x)
  PROVE  /\ IntentsShape' /\ \A q \in ArtOps : q # o => artIntent'[q] = artIntent[q]
         /\ artIntent[o].stage = "none" => artIntent'[o] = artIntent[o]
         /\ artIntent[o].stage # "none" => artIntent'[o] = Intended(artIntent[o], "published", x.id)
<1>1. CASE artIntent[o].stage = "none"
  BY <1>1 DEF Settled, ArtShape, IntentsShape
<1>2. CASE artIntent[o].stage # "none"
  <2> DEFINE i == Intended(artIntent[o], "published", x.id)
  <2>1. artIntent' = [artIntent EXCEPT ![o] = i]
    BY <1>2 DEF Settled, Intended, ArtShape
  <2>2. IntentRecord(i)
    BY DEF IntentRecord, Intended
  <2> HIDE DEF i
  <2>3. IntentsShape' /\ artIntent'[o] = i /\ \A q \in ArtOps : q # o => artIntent'[q] = artIntent[q]
    BY <2>1, <2>2, IntentsSet
  <2> QED BY <1>2, <2>3 DEF i
<1> QED
  BY <1>1, <1>2

LEMMA PrepareIs ==
  ASSUME ArtShape, NEW p \in ArtProcs, Prepare(p)
  PROVE  LET w == artProc[p]
             i == artIntent[w.op]
         IN  /\ w.pc = "prepare" /\ w.op \in ArtOps
             /\ ProcAt(p, Working(w, IF i.stage = "publishing" THEN "check" ELSE "sign"))
             /\ IntentsShape' /\ \A q \in ArtOps : q # w.op => artIntent'[q] = artIntent[q]
             /\ artIntent'[w.op] = IF i.stage # "none" THEN i
                  ELSE [stage |-> "prepared", req |-> w.req, expected |-> w.seen[Own], cand |-> NoID]
             /\ UNCHANGED <<artRefs, artThere, artBundle, artIndex, artAnswers>>
<1> DEFINE w == artProc[p]
           i == artIntent[w.op]
           n == [stage |-> "prepared", req |-> w.req, expected |-> w.seen[Own], cand |-> NoID]
           pc == IF i.stage = "publishing" THEN "check" ELSE "sign"
<1>1. /\ w.pc = "prepare" /\ Move(p, pc) /\ UNCHANGED <<artRefs, artThere, artBundle, artIndex, artAnswers>>
      /\ artIntent' = IF i.stage # "none" THEN artIntent ELSE [artIntent EXCEPT ![w.op] = n]
  BY DEF Prepare, artElse
<1>2. w.pc \in Mutating /\ w.op \in ArtOps
  BY <1>1 DEF ArtShape, WorkRecord, Mutating
<1>3. ProcAt(p, Working(w, pc))
  BY <1>1, <1>2, ProcMoves
<1>4. IntentRecord(n)
  BY DEF IntentRecord, Intended
<1> HIDE DEF n, pc
<1>5. /\ IntentsShape' /\ \A q \in ArtOps : q # w.op => artIntent'[q] = artIntent[q]
      /\ artIntent'[w.op] = IF i.stage # "none" THEN i ELSE n
  <2>1. CASE i.stage # "none"
    BY <1>1, <2>1 DEF IntentsShape, ArtShape
  <2>2. CASE i.stage = "none"
    <3>1. artIntent' = [artIntent EXCEPT ![w.op] = n]
      BY <1>1, <2>2
    <3>2. /\ IntentsShape' /\ \A q \in ArtOps : q # w.op => artIntent'[q] = artIntent[q]
          /\ artIntent'[w.op] = n
      BY <1>2, <1>4, <3>1, IntentsSet
    <3> QED BY <2>2, <3>2
  <2> QED BY <2>1, <2>2
<1> QED
  BY <1>1, <1>2, <1>3, <1>5 DEF n, pc

LEMMA SaveIs ==
  ASSUME ArtShape, NEW p \in ArtProcs, SaveCandidate(p), artIntent[artProc[p].op].stage # "none"
  PROVE  LET w == artProc[p]
         IN  /\ w.pc = "save" /\ w.op \in ArtOps /\ ProcAt(p, Working(w, "check"))
             /\ IntentsShape' /\ \A q \in ArtOps : q # w.op => artIntent'[q] = artIntent[q]
             /\ artIntent'[w.op] = Intended(artIntent[w.op], "publishing", w.id)
             /\ UNCHANGED <<artRefs, artThere, artBundle, artIndex, artAnswers>>
<1> DEFINE w == artProc[p]
           i == artIntent[w.op]
<1>1. /\ w.pc = "save" /\ Move(p, "check") /\ UNCHANGED <<artRefs, artThere, artBundle, artIndex, artAnswers>>
      /\ artIntent' = [artIntent EXCEPT ![w.op].stage = "publishing", ![w.op].cand = w.id]
  BY DEF SaveCandidate, artElse
<1>2. w.pc \in Mutating /\ w.op \in ArtOps
  BY <1>1 DEF ArtShape, WorkRecord, Mutating
<1>3. ProcAt(p, Working(w, "check"))
  BY <1>1, <1>2, ProcMoves
<1>4. artIntent' = [artIntent EXCEPT ![w.op] = [[i EXCEPT !.stage = "publishing"] EXCEPT !.cand = w.id]]
  BY <1>1, <1>2 DEF ArtShape
<1>5. i = Intended(i, i.stage, i.cand)
  BY <1>2 DEF ArtShape, IntentRecord
<1> HIDE DEF i
<1>6. [[i EXCEPT !.stage = "publishing"] EXCEPT !.cand = w.id] = Intended(i, "publishing", w.id)
  <2> DEFINE u == [i EXCEPT !.stage = "publishing"]
  <2>1. u = Intended(i, "publishing", i.cand)
    BY <1>5 DEF Intended
  <2> HIDE DEF u
  <2>2. [u EXCEPT !.cand = w.id] = Intended(i, "publishing", w.id)
    BY <2>1 DEF Intended
  <2> QED BY <2>2 DEF u
<1>7. IntentRecord(Intended(i, "publishing", w.id))
  BY DEF IntentRecord, Intended
<1>8. /\ IntentsShape' /\ \A q \in ArtOps : q # w.op => artIntent'[q] = artIntent[q]
      /\ artIntent'[w.op] = Intended(i, "publishing", w.id)
  BY <1>2, <1>4, <1>6, <1>7, IntentsSet
<1> QED
  BY <1>1, <1>2, <1>3, <1>8 DEF i

\* A publication appends the candidate of the intent.
LEMMA PublishIs ==
  ASSUME ArtShape, NEW p \in ArtProcs, Publish(p)
  PROVE  LET w == artProc[p]
             i == artIntent[w.op]
         IN  /\ w.pc = "publish" /\ w.op \in ArtOps /\ ProcAt(p, Working(w, "confirm"))
             /\ artRefs[Own] = i.expected
             /\ artRefs' = [artRefs EXCEPT ![Own] = Append(artRefs[Own], Artifact(i.cand, i.req))]
             /\ UNCHANGED <<artIntent, artThere, artBundle, artIndex, artAnswers>>
             /\ TablesShape' /\ Kept
             /\ artRefs'[Own] = Append(artRefs[Own], Artifact(i.cand, i.req))
             /\ \A k \in RefNames : k # Own => artRefs'[k] = artRefs[k]
             /\ ToSet(artRefs'[Own]) = ToSet(artRefs[Own]) \cup {Artifact(i.cand, i.req)}
<1> DEFINE w == artProc[p]
           i == artIntent[w.op]
           x == Artifact(i.cand, i.req)
<1>1. /\ w.pc = "publish" /\ Move(p, "confirm") /\ artRefs[Own] = i.expected
      /\ UNCHANGED <<artIntent, artThere, artBundle, artIndex, artAnswers>>
      /\ artRefs' = [artRefs EXCEPT ![Own] = Append(artRefs[Own], x)]
  BY DEF Publish, artElse
<1>2. w.pc \in Mutating /\ w.op \in ArtOps
  BY <1>1 DEF ArtShape, WorkRecord, Mutating
<1>3. ProcAt(p, Working(w, "confirm"))
  BY <1>1, <1>2, ProcMoves
<1>4. Own \in RefNames
  BY DEF Own, RefNames, ArtActors
<1> HIDE DEF x
<1>5. /\ IsChain(Append(artRefs[Own], x)) /\ IsPrefix(artRefs[Own], Append(artRefs[Own], x))
      /\ ToSet(Append(artRefs[Own], x)) = ToSet(artRefs[Own]) \cup {x}
  BY <1>4, AppendChain DEF ArtShape, Chains
<1>6. /\ artRefs'[Own] = Append(artRefs[Own], x) /\ \A k \in RefNames : k # Own => artRefs'[k] = artRefs[k]
      /\ artRefs' = [k \in RefNames |-> artRefs'[k]]
  BY <1>1, <1>4 DEF ArtShape, Chains
<1>7. TablesShape'
  BY <1>1, <1>5, <1>6 DEF TablesShape, ArtShape, Chains
<1>8. Kept
  BY <1>1, <1>5, <1>6, PrefixRefl DEF Kept, ArtShape, Chains
<1> QED
  BY <1>1, <1>2, <1>3, <1>5, <1>6, <1>7, <1>8 DEF x

LEMMA ConfirmIs ==
  ASSUME ArtShape, NEW p \in ArtProcs, Confirm(p)
  PROVE  LET w == artProc[p]
         IN  /\ w.pc = "confirm" /\ w.op \in ArtOps /\ ProcAt(p, NoWork)
             /\ \E x \in Held(artRefs) :
                  /\ x.id = artIntent[w.op].cand /\ artIntent' = Settled(w.op, x)
                  /\ artAnswers' = artAnswers \cup {[op |-> w.op, id |-> x.id, req |-> w.req]}
             /\ UNCHANGED <<artRefs, artThere, artBundle, artIndex>>
<1>1. artProc[p].pc = "confirm" /\ Rest(p)
  BY DEF Confirm
<1>2. artProc[p].op \in ArtOps
  BY <1>1 DEF ArtShape, WorkRecord, Mutating
<1> QED
  BY <1>1, <1>2, ProcMoves DEF Confirm, artElse

LEMMA PromoteIs ==
  ASSUME GrowInv, NEW p \in ArtProcs, Promote(p)
  PROVE  LET w == artProc[p]
         IN  /\ w.pc = "promote" /\ w.place \in {"remote", "imported"} /\ Chains(w.take, ArtActors)
             /\ artRefs' = artRefs \/ artRefs' = Projected(artRefs, w.place, w.take)
             /\ ProcAt(p, NoWork) /\ TablesShape' /\ Kept
             /\ UNCHANGED <<artThere, artIntent, artBundle, artIndex, artAnswers>>
<1> DEFINE w == artProc[p]
<1>1. /\ w.pc = "promote" /\ Rest(p) /\ UNCHANGED <<artThere, artIntent, artBundle, artIndex, artAnswers>>
      /\ artRefs' = IF Leased(artRefs, w) THEN Projected(artRefs, w.place, w.take) ELSE artRefs
  BY DEF Promote, artElse
<1>2. /\ Chains(w.take, ArtActors) /\ NoRewind(w.seen, w.place, w.take)
      /\ w.place \in {"remote", "imported"}
  BY <1>1 DEF GrowInv, TakesExtend, TakeExtends
<1>3. ArtShape
  BY DEF GrowInv
<1>4. ProcAt(p, NoWork)
  BY <1>1, <1>3, ProcMoves
<1>5. TablesShape' /\ Kept
  <2>1. CASE Leased(artRefs, w)
    <3>1. artRefs' = Projected(artRefs, w.place, w.take)
      BY <1>1, <2>1
    <3>2. Chains(artRefs', RefNames) /\ \A k \in RefNames : IsPrefix(artRefs[k], artRefs'[k])
      BY <1>2, <1>3, <2>1, <3>1, ProjectedIs, ProjectedExtends DEF ArtShape
    <3> QED BY <1>1, <1>3, <3>2, PrefixRefl DEF TablesShape, Kept, ArtShape, Chains
  <2>2. CASE ~Leased(artRefs, w)
    <3>1. artRefs' = artRefs
      BY <1>1, <2>2
    <3> QED BY <1>1, <1>3, <3>1, SameKept DEF TablesShape, ArtShape, Chains
  <2> QED BY <2>1, <2>2
<1> QED
  BY <1>1, <1>2, <1>4, <1>5

LEMMA PushSendIs ==
  ASSUME GrowInv, NEW p \in ArtProcs, PushSend(p)
  PROVE  LET w == artProc[p]
         IN  /\ w.pc = "push" /\ Chains(w.take, ArtActors)
             /\ artThere' = artThere \/ artThere' = Projected(artThere, "own", w.take)
             /\ ProcAt(p, NoWork) /\ TablesShape' /\ Kept
             /\ UNCHANGED <<artRefs, artIntent, artBundle, artIndex, artAnswers>>
<1> DEFINE w == artProc[p]
<1>1. /\ w.pc = "push" /\ Rest(p) /\ UNCHANGED <<artRefs, artIntent, artBundle, artIndex, artAnswers>>
      /\ artThere' = IF Leased(artThere, w) THEN Projected(artThere, "own", w.take) ELSE artThere
  BY DEF PushSend
<1>2. /\ Chains(w.take, ArtActors) /\ NoRewind(w.seen, w.place, w.take) /\ w.place = "own"
  BY <1>1 DEF GrowInv, TakesExtend, TakeExtends
<1>3. ArtShape
  BY DEF GrowInv
<1>4. ProcAt(p, NoWork)
  BY <1>1, <1>3, ProcMoves
<1>5. TablesShape' /\ Kept
  <2>1. CASE Leased(artThere, w)
    <3>1. artThere' = Projected(artThere, w.place, w.take)
      BY <1>1, <1>2, <2>1
    <3>2. Chains(artThere', RefNames) /\ \A k \in RefNames : IsPrefix(artThere[k], artThere'[k])
      BY <1>2, <1>3, <2>1, <3>1, ProjectedIs, ProjectedExtends DEF ArtShape
    <3> QED BY <1>1, <1>3, <3>2, PrefixRefl DEF TablesShape, Kept, ArtShape, Chains
  <2>2. CASE ~Leased(artThere, w)
    <3>1. artThere' = artThere
      BY <1>1, <2>2
    <3> QED BY <1>1, <1>3, <3>1, SameKept DEF TablesShape, ArtShape, Chains
  <2> QED BY <2>1, <2>2
<1> QED
  BY <1>1, <1>2, <1>4, <1>5

\* A transfer begins with chains that extend what they are compared with.
LEMMA AcceptIs ==
  ASSUME ArtShape, NEW p \in ArtProcs, NEW place \in {"remote", "imported"}, NEW b,
         Chains(b, ArtActors), Accept(p, place, b)
  PROVE  LET w == [pc |-> "promote", place |-> place, take |-> b, seen |-> artRefs]
         IN  /\ ProcAt(p, w) /\ WorkRecord(w) /\ TakeExtends(w) /\ w.pc = "promote" /\ w.take = b
             /\ Loads(Alone(b))
             /\ UNCHANGED <<artRefs, artThere, artIntent, artBundle, artIndex, artAnswers>>
<1> DEFINE w == [pc |-> "promote", place |-> place, take |-> b, seen |-> artRefs]
<1>1. artProc' = [artProc EXCEPT ![p] = w] /\ NoRewind(artRefs, place, b) /\ Loads(Alone(b))
      /\ UNCHANGED <<artRefs, artThere, artIntent, artBundle, artIndex, artAnswers>>
  BY DEF Accept, artElse
<1>2. WorkRecord(w) /\ TakeExtends(w) /\ w.pc = "promote" /\ w.take = b
  BY <1>1 DEF WorkRecord, TakeExtends, Mutating
<1> QED
  BY <1>1, <1>2, ProcMoves

LEMMA PushListIs ==
  ASSUME ArtShape, NEW p \in ArtProcs, PushList(p)
  PROVE  \E x : LET w == [pc |-> "push", place |-> "own", take |-> Selection(artRefs, {x}), seen |-> artThere]
         IN  /\ ProcAt(p, w) /\ WorkRecord(w) /\ TakeExtends(w) /\ w.pc = "push"
             /\ w.take = Selection(artRefs, {x})
             /\ UNCHANGED <<artRefs, artThere, artIntent, artBundle, artIndex, artAnswers>>
<1>1. PICK x : /\ NoRewind(artThere, "own", Selection(artRefs, {x}))
               /\ artProc' = [artProc EXCEPT ![p] =
                    [pc |-> "push", place |-> "own", take |-> Selection(artRefs, {x}), seen |-> artThere]]
               /\ UNCHANGED <<artRefs, artThere, artIntent, artBundle, artIndex, artAnswers>>
  BY DEF PushList, artElse
<1> DEFINE b == Selection(artRefs, {x})
           w == [pc |-> "push", place |-> "own", take |-> b, seen |-> artThere]
<1>2. Chains(b, ArtActors)
  BY SelectionIs DEF ArtShape
<1> HIDE DEF b
<1>3. WorkRecord(w) /\ TakeExtends(w) /\ w.pc = "push" /\ w.take = b
  BY <1>1, <1>2 DEF WorkRecord, TakeExtends, Mutating, b
<1>4. ProcAt(p, w)
  BY <1>1, ProcMoves DEF b
<1> QED
  BY <1>1, <1>3, <1>4 DEF b

\* The peer signs at the end of its own ref.
LEMMA PeerSignsIs ==
  ASSUME ArtShape, NEW o, PeerSigns(o)
  PROVE  \E q \in Asked(Held(artThere), ArtPeerKinds[o]) :
         /\ \A x \in Held(artThere) : x.id[2] # o
         /\ artThere'[<<"own", Peer>>] = Append(artThere[<<"own", Peer>>], Artifact(<<Peer, o, 1>>, q))
         /\ ToSet(artThere'[<<"own", Peer>>]) = ToSet(artThere[<<"own", Peer>>]) \cup {Artifact(<<Peer, o, 1>>, q)}
         /\ \A k \in RefNames : k # <<"own", Peer>> => artThere'[k] = artThere[k]
         /\ TablesShape' /\ Kept
         /\ UNCHANGED <<artRefs, artIntent, artProc, artBundle, artIndex, artAnswers>>
<1> DEFINE e == <<"own", Peer>>
<1>1. PICK q \in Asked(Held(artThere), ArtPeerKinds[o]) :
             artThere' = [artThere EXCEPT ![e] = Append(artThere[e], Artifact(<<Peer, o, 1>>, q))]
  BY DEF PeerSigns, ArtShape
<1>2. e \in RefNames
  BY DEF RefNames, ArtActors
<1>3. UNCHANGED <<artRefs, artIntent, artProc, artBundle, artIndex, artAnswers>>
      /\ \A x \in Held(artThere) : x.id[2] # o
  BY DEF PeerSigns
<1> DEFINE y == Artifact(<<Peer, o, 1>>, q)
<1> HIDE DEF y, e
<1>4. /\ IsChain(Append(artThere[e], y)) /\ IsPrefix(artThere[e], Append(artThere[e], y))
      /\ ToSet(Append(artThere[e], y)) = ToSet(artThere[e]) \cup {y}
  BY <1>2, AppendChain DEF ArtShape, Chains
<1>5. /\ artThere'[e] = Append(artThere[e], y) /\ \A k \in RefNames : k # e => artThere'[k] = artThere[k]
      /\ artThere' = [k \in RefNames |-> artThere'[k]]
  BY <1>1, <1>2 DEF ArtShape, Chains, y
<1>6. TablesShape'
  BY <1>3, <1>4, <1>5 DEF TablesShape, ArtShape, Chains
<1>7. Kept
  BY <1>3, <1>4, <1>5, PrefixRefl DEF Kept, ArtShape, Chains
<1> QED
  BY <1>3, <1>4, <1>5, <1>6, <1>7 DEF y, e

LEMMA ExportIs ==
  ASSUME ArtShape, Export
  PROVE  /\ \E x : artBundle' = Selection(artThere, {x})
         /\ TablesShape' /\ Kept /\ UNCHANGED <<artRefs, artThere, artIntent, artProc, artIndex, artAnswers>>
<1>1. PICK x : artBundle' = Selection(artThere, {x})
  BY DEF Export
<1>2. UNCHANGED <<artRefs, artThere, artIntent, artProc, artIndex, artAnswers>>
  BY DEF Export
<1>3. Chains(Selection(artThere, {x}), ArtActors)
  BY SelectionIs DEF ArtShape
<1>4. TablesShape'
  BY <1>1, <1>2, <1>3 DEF TablesShape, ArtShape, Chains
<1> QED
  BY <1>1, <1>2, <1>4, SameKept

\* Nothing but what a process does at the moment moves.
LEMMA StillGrows ==
  ASSUME GrowInv, ProcsMove, UNCHANGED <<artRefs, artThere, artBundle, artIndex>>, IntentsShape'
  PROVE  GrowInv' /\ Kept
<1>1. TablesShape'
  BY DEF GrowInv, ArtShape, TablesShape, Chains
<1>2. ArtShape
  BY DEF GrowInv
<1> QED
  BY <1>1, <1>2, GrowKept, SameKept

LEMMA SameIntents ==
  ASSUME ArtShape, UNCHANGED artIntent
  PROVE  IntentsShape'
  BY DEF ArtShape, IntentsShape

LEMMA BeginGrows ==
  ASSUME GrowInv, NEW p \in ArtProcs, NEW o \in ArtOps, NEW q, Begin(p, o, q) \/ Replay(p, o, q)
  PROVE  GrowInv' /\ Kept
<1>1. ArtShape
  BY DEF GrowInv
<1>2. CASE Begin(p, o, q)
  <2> DEFINE w == [pc |-> "prepare", op |-> o, req |-> q, seen |-> artRefs, id |-> NoID]
  <2>1. ProcAt(p, w) /\ UNCHANGED <<artRefs, artThere, artIntent, artBundle, artIndex, artAnswers>>
    BY <1>1, <1>2, BeginIs
  <2>2. WorkRecord(w) /\ TakeExtends(w) /\ w.pc # "index"
    BY DEF WorkRecord, TakeExtends, Working, Mutating
  <2> HIDE DEF w
  <2> QED BY <1>1, <2>1, <2>2, ProcsMoveAt, StillGrows, SameIntents
<1>3. CASE Replay(p, o, q)
  <2>1. /\ UNCHANGED <<artRefs, artThere, artBundle, artIndex, artProc>>
        /\ \E x : artIntent' = Settled(o, x)
    BY <1>3 DEF Replay, artElse
  <2>2. IntentsShape'
    BY <1>1, <2>1, SettledIs
  <2>3. ProcsMove
    BY <1>1, <2>1 DEF ProcsMove, ArtShape
  <2> QED BY <2>1, <2>2, <2>3, StillGrows
<1> QED
  BY <1>2, <1>3

Saves == \A p \in ArtProcs : artProc[p].pc = "save" => artIntent[artProc[p].op].stage # "none"

LEMMA WorkGrows ==
  ASSUME GrowInv, Saves, NEW p \in ArtProcs, ArtifactStep(p) \/ ArtifactCrash(p)
  PROVE  GrowInv' /\ Kept
<1> DEFINE w == artProc[p]
<1>s. ArtShape
  BY DEF GrowInv
<1>r. ASSUME ProcAt(p, NoWork), UNCHANGED <<artRefs, artThere, artIntent, artBundle, artIndex>>
      PROVE  GrowInv' /\ Kept
  BY <1>r, <1>s, NoWorkOK, ProcsMoveAt, StillGrows, SameIntents
<1>w. ASSUME NEW pc \in Mutating, ProcAt(p, Working(w, pc)), w.op \in ArtOps,
             UNCHANGED <<artRefs, artThere, artBundle, artIndex>>, IntentsShape'
      PROVE  GrowInv' /\ Kept
  BY <1>w, WorkingOK, ProcsMoveAt, StillGrows
<1>1. CASE Prepare(p)
  <2>1. /\ w.op \in ArtOps /\ IntentsShape'
        /\ UNCHANGED <<artRefs, artThere, artBundle, artIndex, artAnswers>>
        /\ \/ ProcAt(p, Working(w, "check"))
           \/ ProcAt(p, Working(w, "sign"))
    BY <1>1, <1>s, PrepareIs
  <2>2. "check" \in Mutating /\ "sign" \in Mutating
    BY DEF Mutating
  <2> QED BY <2>1, <2>2, <1>w
<1>2. CASE Sign(p)
  <2>1. PICK n : ProcAt(p, [pc |-> "save", op |-> w.op, req |-> w.req, seen |-> w.seen, id |-> <<Me, w.op, n>>])
    BY <1>2, <1>s, SignMoves
  <2> DEFINE v == [pc |-> "save", op |-> w.op, req |-> w.req, seen |-> w.seen, id |-> <<Me, w.op, n>>]
  <2>2. w.op \in ArtOps /\ UNCHANGED <<artRefs, artThere, artIntent, artBundle, artIndex>>
    BY <1>2, <1>s DEF Sign, artElse, ArtShape, WorkRecord, Mutating
  <2>3. WorkRecord(v) /\ TakeExtends(v) /\ v.pc # "index"
    BY <2>2 DEF WorkRecord, TakeExtends, Working, Mutating
  <2> HIDE DEF v
  <2>4. ProcAt(p, v)
    BY <2>1 DEF v
  <2> QED BY <1>s, <2>2, <2>3, <2>4, ProcsMoveAt, StillGrows, SameIntents
<1>3. CASE SaveCandidate(p)
  <2>1. w.pc = "save"
    BY <1>3 DEF SaveCandidate
  <2>2. artIntent[w.op].stage # "none"
    BY <2>1 DEF Saves
  <2>3. /\ w.op \in ArtOps /\ ProcAt(p, Working(w, "check")) /\ IntentsShape'
        /\ UNCHANGED <<artRefs, artThere, artBundle, artIndex, artAnswers>>
    BY <1>3, <1>s, <2>2, SaveIs
  <2>4. "check" \in Mutating
    BY DEF Mutating
  <2> QED BY <2>3, <2>4, <1>w
<1>4. CASE CheckSources(p)
  <2>1. w.pc = "check" /\ Move(p, "publish") /\ UNCHANGED <<artRefs, artThere, artIntent, artBundle, artIndex>>
    BY <1>4 DEF CheckSources, artElse
  <2>2. w.pc \in Mutating /\ w.op \in ArtOps /\ "publish" \in Mutating
    BY <1>s, <2>1 DEF ArtShape, WorkRecord, Mutating
  <2>3. ProcAt(p, Working(w, "publish"))
    BY <1>s, <2>1, <2>2, ProcMoves
  <2> QED BY <1>s, <2>1, <2>2, <2>3, <1>w, SameIntents
<1>5. CASE Publish(p)
  <2>1. /\ w.op \in ArtOps /\ ProcAt(p, Working(w, "confirm")) /\ TablesShape' /\ Kept
        /\ UNCHANGED <<artIntent, artIndex>>
    BY <1>5, <1>s, PublishIs
  <2>2. "confirm" \in Mutating
    BY DEF Mutating
  <2> QED BY <1>s, <2>1, <2>2, WorkingOK, ProcsMoveAt, GrowKept, SameIntents
<1>6. CASE Confirm(p)
  <2>1. /\ w.op \in ArtOps /\ ProcAt(p, NoWork) /\ UNCHANGED <<artRefs, artThere, artBundle, artIndex>>
        /\ \E x : artIntent' = Settled(w.op, x)
    BY <1>6, <1>s, ConfirmIs
  <2>2. IntentsShape'
    BY <1>s, <2>1, SettledIs
  <2> QED BY <2>1, <2>2, NoWorkOK, ProcsMoveAt, StillGrows
<1>7. CASE MutationRefused(p)
  <2>1. Rest(p) /\ UNCHANGED <<artRefs, artThere, artIntent, artBundle, artIndex>>
    BY <1>7 DEF MutationRefused, artElse
  <2> QED BY <1>r, <1>s, <2>1, ProcMoves
<1>8. CASE Promote(p)
  <2>1. ProcAt(p, NoWork) /\ TablesShape' /\ Kept /\ UNCHANGED <<artIntent, artIndex>>
    BY <1>8, PromoteIs
  <2> QED BY <1>s, <2>1, NoWorkOK, ProcsMoveAt, GrowKept, SameIntents
<1>9. CASE PushSend(p)
  <2>1. ProcAt(p, NoWork) /\ TablesShape' /\ Kept /\ UNCHANGED <<artIntent, artIndex>>
    BY <1>9, PushSendIs
  <2> QED BY <1>s, <2>1, NoWorkOK, ProcsMoveAt, GrowKept, SameIntents
<1>10. CASE ArtifactCrash(p)
  <2>1. Rest(p) /\ UNCHANGED <<artRefs, artThere, artIntent, artBundle, artIndex>>
    BY <1>10 DEF ArtifactCrash
  <2> QED BY <1>r, <1>s, <2>1, ProcMoves
<1> QED
  BY <1>1, <1>2, <1>3, <1>4, <1>5, <1>6, <1>7, <1>8, <1>9, <1>10 DEF ArtifactStep

LEMMA TransferGrows ==
  ASSUME GrowInv, NEW p \in ArtProcs, Fetch(p) \/ Import(p) \/ PushList(p)
  PROVE  GrowInv' /\ Kept
<1>s. ArtShape
  BY DEF GrowInv
<1>a. ASSUME NEW place \in {"remote", "imported"}, NEW b, Chains(b, ArtActors), Accept(p, place, b)
      PROVE  GrowInv' /\ Kept
  <2> DEFINE w == [pc |-> "promote", place |-> place, take |-> b, seen |-> artRefs]
  <2>1. /\ ProcAt(p, w) /\ WorkRecord(w) /\ TakeExtends(w) /\ w.pc = "promote"
        /\ UNCHANGED <<artRefs, artThere, artIntent, artBundle, artIndex, artAnswers>>
    BY <1>s, <1>a, AcceptIs
  <2> HIDE DEF w
  <2> QED BY <1>s, <2>1, ProcsMoveAt, StillGrows, SameIntents
<1>1. CASE Fetch(p)
  <2>1. PICK x : Accept(p, "remote", Selection(artThere, {x}))
    BY <1>1 DEF Fetch
  <2>2. Chains(Selection(artThere, {x}), ArtActors)
    BY <1>s, SelectionIs DEF ArtShape
  <2> QED BY <1>a, <2>1, <2>2
<1>2. CASE Import(p)
  <2>1. Accept(p, "imported", artBundle) /\ Chains(artBundle, ArtActors)
    BY <1>2, <1>s DEF Import, ArtShape
  <2> QED BY <1>a, <2>1
<1>3. CASE PushList(p)
  <2>1. PICK w : /\ ProcAt(p, w) /\ WorkRecord(w) /\ TakeExtends(w) /\ w.pc = "push"
                 /\ UNCHANGED <<artRefs, artThere, artIntent, artBundle, artIndex, artAnswers>>
    BY <1>s, <1>3, PushListIs
  <2> QED BY <1>s, <2>1, ProcsMoveAt, StillGrows, SameIntents
<1> QED
  BY <1>1, <1>2, <1>3

LEMMA IndexGrows ==
  ASSUME GrowInv, NEW p \in ArtProcs, PreserveWrite(p) \/ \E x : PreserveRead(p, x)
  PROVE  GrowInv' /\ Kept
<1>s. ArtShape
  BY DEF GrowInv
<1>1. CASE PreserveWrite(p)
  <2>1. /\ artProc[p].pc = "index" /\ artIndex' = artProc[p].merged /\ Rest(p)
        /\ UNCHANGED <<artRefs, artThere, artIntent, artBundle>>
    BY <1>1 DEF PreserveWrite
  <2>2. ProcAt(p, NoWork)
    BY <1>s, <2>1, ProcMoves
  <2>3. artIndex \subseteq artIndex' /\ \A q \in ArtProcs : q # p => artProc[q].pc # "index"
    BY <2>1 DEF GrowInv, IndexHeld
  <2>4. /\ artProc'[p] = NoWork /\ \A q \in ArtProcs : q # p => artProc'[q] = artProc[q]
        /\ artProc' = [q \in ArtProcs |-> artProc'[q]]
    BY <2>2 DEF ProcAt
  <2>5. ArtShape'
    BY <1>s, <2>1, <2>2, <2>4, NoWorkOK DEF ArtShape, Chains, ProcAt
  <2>6. TakesExtend' /\ IndexHeld'
    BY <2>3, <2>4, NoWorkOK DEF GrowInv, TakesExtend, IndexHeld
  <2>7. Kept
    BY <1>s, <2>1, <2>3, PrefixRefl DEF Kept, ArtShape, Chains
  <2> QED BY <2>5, <2>6, <2>7 DEF GrowInv
<1>2. ASSUME NEW x, PreserveRead(p, x) PROVE GrowInv' /\ Kept
  <2> DEFINE w == [pc |-> "index", merged |-> artIndex \cup {x}]
  <2>1. /\ IndexFree /\ artProc' = [artProc EXCEPT ![p] = w]
        /\ UNCHANGED <<artRefs, artThere, artIntent, artBundle, artIndex>>
    BY <1>2 DEF PreserveRead, artElse
  <2>2. ProcAt(p, w)
    BY <1>s, <2>1, ProcMoves
  <2>3. WorkRecord(w) /\ TakeExtends(w) /\ w.pc = "index" /\ artIndex \subseteq w.merged
    BY DEF WorkRecord, TakeExtends, Mutating
  <2> HIDE DEF w
  <2>4. /\ artProc'[p] = w /\ \A q \in ArtProcs : q # p => artProc'[q] = artProc[q]
        /\ artProc' = [q \in ArtProcs |-> artProc'[q]]
    BY <2>2 DEF ProcAt
  <2>5. ArtShape'
    BY <1>s, <2>1, <2>3, <2>4 DEF ArtShape, Chains
  <2>6. TakesExtend'
    BY <2>3, <2>4 DEF GrowInv, TakesExtend
  <2>7. IndexHeld'
    BY <2>1, <2>3, <2>4 DEF GrowInv, IndexHeld, IndexFree
  <2> QED BY <1>s, <2>1, <2>5, <2>6, <2>7, SameKept DEF GrowInv
<1> QED
  BY <1>1, <1>2

LEMMA PeerGrows ==
  ASSUME GrowInv, Export \/ \E o : PeerSigns(o)
  PROVE  GrowInv' /\ Kept
<1>s. ArtShape
  BY DEF GrowInv
<1>1. TablesShape' /\ Kept /\ UNCHANGED <<artIntent, artProc, artIndex>>
  BY <1>s, PeerSignsIs, ExportIs
<1>2. ProcsMove
  BY <1>s, <1>1 DEF ProcsMove, ArtShape
<1> QED
  BY <1>s, <1>1, <1>2, GrowKept, SameIntents

\* Every action, by what it is done by.
LEMMA ArtifactCases ==
  ASSUME ArtifactNext \/ OpaqueNext
  PROVE  \/ \E p \in ArtProcs, o \in ArtOps : \E q \in Asked(Held(artRefs), ArtKinds[o]) :
              Begin(p, o, q) \/ Replay(p, o, q)
         \/ \E p \in ArtProcs, o \in ArtOps :
              /\ artIntent[o].stage # "none"
              /\ Begin(p, o, artIntent[o].req) \/ Replay(p, o, artIntent[o].req)
         \/ \E p \in ArtProcs : Fetch(p) \/ Import(p) \/ PushList(p)
         \/ \E p \in ArtProcs : ArtifactStep(p) \/ ArtifactCrash(p)
         \/ Export \/ \E o : PeerSigns(o)
         \/ \E p \in ArtProcs : PreserveWrite(p) \/ \E x : PreserveRead(p, x)
<1>1. CASE OpaqueNext
  BY <1>1 DEF OpaqueNext
<1>2. CASE \E o \in ArtOps : Retry(o)
  <2>1. PICK o \in ArtOps : Retry(o)
    BY <1>2
  <2>2. artIntent[o].stage # "none"
    BY <2>1 DEF Retry
  <2>3. \E p \in ArtProcs : Begin(p, o, artIntent[o].req) \/ Replay(p, o, artIntent[o].req)
    BY <2>1 DEF Retry
  <2> QED BY <2>2, <2>3
<1>3. ASSUME NEW p \in ArtProcs, NEW o \in ArtOps, Ask(p, o)
      PROVE  \E q \in Asked(Held(artRefs), ArtKinds[o]) : Begin(p, o, q) \/ Replay(p, o, q)
  BY <1>3 DEF Ask
<1>4. CASE ArtifactNext
  BY <1>2, <1>3, <1>4, Zenon DEF ArtifactNext
<1> QED
  BY <1>1, <1>4

LEMMA GrowStep ==
  ASSUME GrowInv, Saves, ArtifactNext \/ OpaqueNext
  PROVE  GrowInv' /\ Kept
  BY ArtifactCases, BeginGrows, TransferGrows, WorkGrows, PeerGrows, IndexGrows

LEMMA GrowStutter ==
  ASSUME GrowInv, UNCHANGED artifactVars
  PROVE  GrowInv' /\ Kept
<1>1. UNCHANGED <<artRefs, artThere, artIntent, artProc, artBundle, artIndex>>
  BY DEF artifactVars
<1>2. ArtShape /\ IntentsShape'
  BY <1>1, SameIntents DEF GrowInv
<1>3. ProcsMove
  BY <1>1, <1>2 DEF ProcsMove, ArtShape
<1> QED
  BY <1>1, <1>2, <1>3, StillGrows

----------------------------------------------------------------------------
(* Lineage rules do not depend on how much more is held. *)

OneID(W) == \A x, y \in W : OpOf(x) = OpOf(y) => x = y

LEMMA TheArtSame ==
  ASSUME NEW V, NEW W, V \subseteq W, OneID(W), NEW i \in IDs(V)
  PROVE  TheArt(V, i) = TheArt(W, i) /\ TheArt(V, i) \in V
<1>1. PICK x \in V : x.id = i
  BY DEF IDs
<1>2. \A y \in W : y.id = i => y = x
  BY <1>1 DEF OneID, OpOf
<1>3. TheArt(V, i) \in V /\ TheArt(V, i).id = i
  BY <1>1 DEF TheArt
<1>4. TheArt(W, i) \in W /\ TheArt(W, i).id = i
  BY <1>1 DEF TheArt
<1> QED
  BY <1>2, <1>3, <1>4

LEMMA LineageSame ==
  ASSUME NEW V, NEW W, V \subseteq W, OneID(W), NEW x, Dependencies(x) \subseteq IDs(V), RequestOK(x.req)
  PROVE  Lineage(V, x) <=> Lineage(W, x)
<1>1. x.req.parents \subseteq IDs(V) /\ (x.req.typ # NoID => x.req.typ \in IDs(V))
  BY DEF Dependencies
<1>2. {TheArt(V, i) : i \in x.req.parents} = {TheArt(W, i) : i \in x.req.parents}
  BY <1>1, TheArtSame
<1>3. x.req.kind = "record.open" => TheArt(V, x.req.typ) = TheArt(W, x.req.typ)
  BY <1>1, TheArtSame DEF RequestOK
<1> DEFINE P == {TheArt(V, i) : i \in x.req.parents}
           Q == {TheArt(W, i) : i \in x.req.parents}
<1>4. P = Q
  BY <1>2
<1> HIDE DEF P, Q
<1>5. CASE x.req.kind = "type.publish"
  BY <1>4, <1>5 DEF Lineage, P, Q
<1>6. CASE x.req.kind = "record.open"
  BY <1>3, <1>6 DEF Lineage
<1>7. CASE x.req.kind \notin {"type.publish", "record.open"}
  BY <1>4, <1>7 DEF Lineage, P, Q
<1> QED
  BY <1>5, <1>6, <1>7

LEMMA LineageOfRequest ==
  ASSUME NEW W, NEW q, NEW i, NEW j
  PROVE  /\ Lineage(W, Artifact(i, q)) <=> Lineage(W, Artifact(j, q))
         /\ Dependencies(Artifact(i, q)) = Dependencies(Artifact(j, q))
         /\ Dependencies(Artifact(i, q)) = q.parents \cup q.needs \cup ({q.rec, q.typ} \ {NoID})
         /\ Artifact(i, q).id = i /\ Artifact(i, q).req = q
<1>1. Artifact(i, q).req = q /\ Artifact(j, q).req = q /\ Artifact(i, q).id = i
  BY DEF Artifact
<1>2. Dependencies(Artifact(i, q)) = q.parents \cup q.needs \cup ({q.rec, q.typ} \ {NoID})
      /\ Dependencies(Artifact(j, q)) = q.parents \cup q.needs \cup ({q.rec, q.typ} \ {NoID})
  BY <1>1 DEF Dependencies
<1> DEFINE x == Artifact(i, q)  y == Artifact(j, q)
<1>3. x.req = y.req
  BY <1>1
<1> HIDE DEF x, y
<1>4. Lineage(W, x) <=> Lineage(W, y)
  BY <1>3 DEF Lineage
<1> QED
  BY <1>1, <1>2, <1>4 DEF x, y

LEMMA ClosedUnion ==
  ASSUME NEW W, NEW S, NEW T, Closed(W, S), Closed(W, T)
  PROVE  Closed(W, S \cup T)
  BY DEF Closed, IDs

LEMMA ClosedAmong ==
  ASSUME NEW V, NEW W, NEW S, S \subseteq V, V \subseteq W, OneID(W), \A x \in S : RequestOK(x.req)
  PROVE  Closed(V, S) <=> Closed(W, S)
<1>1. ASSUME NEW x \in S, Dependencies(x) \subseteq IDs(S) PROVE Lineage(V, x) <=> Lineage(W, x)
  <2>1. Dependencies(x) \subseteq IDs(V)
    BY <1>1 DEF IDs
  <2> QED BY <2>1, LineageSame
<1> QED
  BY <1>1 DEF Closed

LEMMA ClosedAdds ==
  ASSUME NEW W, NEW S, NEW x, Closed(W, S), Dependencies(x) \subseteq IDs(S), Lineage(W, x)
  PROVE  Closed(W, S \cup {x})
<1>1. IDs(S) \subseteq IDs(S \cup {x})
  BY DEF IDs
<1> QED
  BY <1>1 DEF Closed

\* A view of beginnings of the actors' chains loads when it is closed.
LEMMA LoadsWhenClosed ==
  ASSUME NEW refs, Chains(refs, RefNames), NEW top, \A a \in ArtActors : IsChain(top[a]),
         \A k \in RefNames : IsPrefix(refs[k], top[k[2]]),
         NEW W, OneID(W), Held(refs) \subseteq W, \A x \in W : RequestOK(x.req)
  PROVE  /\ StreamsAgree(refs)
         /\ Loads(refs) <=> Closed(W, Held(refs))
<1>1. StreamsAgree(refs)
  <2> SUFFICES ASSUME NEW a \in ArtActors, NEW c \in Refs(refs, a), NEW d \in Refs(refs, a), Len(c) <= Len(d)
               PROVE  IsPrefix(c, d)
    BY DEF StreamsAgree
  <2>1. IsChain(c) /\ IsChain(d)
    BY RefsChains
  <2>2. IsPrefix(c, top[a]) /\ IsPrefix(d, top[a])
    <3>1. \A k \in {r \in RefNames : r[2] = a} : IsPrefix(refs[k], top[a])
      OBVIOUS
    <3> QED BY <3>1 DEF Refs
  <2> QED BY <2>1, <2>2, PrefixLine
<1>2. \A x, y \in Held(refs) : OpOf(x) = OpOf(y) => x = y
  BY DEF OneID
<1>3. Closed(Held(refs), Held(refs)) <=> Closed(W, Held(refs))
  BY ClosedAmong
<1> QED
  BY <1>1, <1>2, <1>3 DEF Loads, ValidHistory, Closed

LEMMA AloneHolds ==
  ASSUME NEW b, Chains(b, ArtActors)
  PROVE  Held(Alone(b)) = Taken(b)
<1>1. \A k \in RefNames : Alone(b)[k] = IF k[1] = "own" THEN b[k[2]] ELSE <<>>
  BY DEF Alone
<1>2. ASSUME NEW a \in ArtActors PROVE ToSet(b[a]) \subseteq Held(Alone(b))
  <2>1. <<"own", a>> \in RefNames /\ Alone(b)[<<"own", a>>] = b[a]
    BY <1>1 DEF RefNames
  <2> QED BY <2>1 DEF Held
<1>3. ASSUME NEW k \in RefNames PROVE ToSet(Alone(b)[k]) \subseteq Taken(b)
  <2>1. k[2] \in ArtActors
    BY DEF RefNames
  <2>2. ToSet(<<>>) = {}
    BY EmptyChain
  <2> QED BY <1>1, <2>1, <2>2 DEF Taken
<1> QED
  BY <1>2, <1>3 DEF Held, Taken

----------------------------------------------------------------------------
(* The world of an invariant state. *)

LEMMA KeyedWorld ==
  ASSUME NEW S, NEW T, KeyedBy(Me, S), KeyedBy(Peer, T)
  PROVE  /\ OneID(S \cup T) /\ \A x \in S \cup T : RequestOK(x.req) /\ x.id # NoID
         /\ \A x \in S \cup T : x.id[1] = Me => x \in S
<1>1. Me # Peer
  BY DEF Me, Peer
<1>2. \A x \in S \cup T : RequestOK(x.req) /\ x.id # NoID
  BY DEF KeyedBy, NoID
<1>3. \A x \in S : x.id[1] = Me
  BY DEF KeyedBy
<1>4. \A x \in T : x.id[1] = Peer
  BY DEF KeyedBy
<1>5. ASSUME NEW x \in S \cup T, NEW y \in S \cup T, OpOf(x) = OpOf(y) PROVE x = y
  <2>1. x.id[1] = y.id[1] /\ x.id[2] = y.id[2]
    BY <1>5 DEF OpOf
  <2>2. (x \in S /\ y \in S) \/ (x \in T /\ y \in T)
    BY <1>1, <1>3, <1>4, <2>1
  <2> QED BY <2>1, <2>2 DEF KeyedBy
<1> QED
  BY <1>1, <1>2, <1>3, <1>4, <1>5 DEF OneID

LEMMA TopsChains ==
  ASSUME ArtShape
  PROVE  /\ Own \in RefNames /\ <<"own", Peer>> \in RefNames /\ <<"own", Peer>> # Own
         /\ \A a \in ArtActors : IsChain(Top(a))
         /\ Top(Me) = artRefs[Own] /\ Top(Peer) = artThere[<<"own", Peer>>]
<1>1. Own \in RefNames /\ <<"own", Peer>> \in RefNames /\ <<"own", Peer>> # Own /\ Me # Peer
  BY DEF RefNames, Own, ArtActors, Me, Peer
<1>2. Top(Me) = artRefs[Own] /\ Top(Peer) = artThere[<<"own", Peer>>]
  BY <1>1 DEF Top
<1>3. \A a \in ArtActors : a = Me \/ a = Peer
  BY DEF ArtActors
<1> QED
  BY <1>1, <1>2, <1>3 DEF ArtShape, Chains

LEMMA HeldWithin ==
  ASSUME NEW refs, Chains(refs, RefNames), NEW S, NEW T, IsChain(S), IsChain(T),
         \A k \in RefNames : IsPrefix(refs[k], IF k[2] = Me THEN S ELSE T)
  PROVE  Held(refs) \subseteq ToSet(S) \cup ToSet(T)
<1>1. ASSUME NEW k \in RefNames PROVE ToSet(refs[k]) \subseteq ToSet(S) \cup ToSet(T)
  <2>1. IsChain(refs[k])
    BY DEF Chains
  <2>2. CASE k[2] = Me
    BY <2>1, <2>2, PrefixHolds
  <2>3. CASE k[2] # Me
    BY <2>1, <2>3, PrefixHolds
  <2> QED BY <2>2, <2>3
<1> QED
  BY <1>1 DEF Held

LEMMA TakenWithin ==
  ASSUME NEW b, Chains(b, ArtActors), NEW S, NEW T, IsChain(S), IsChain(T),
         IsPrefix(b[Me], S), IsPrefix(b[Peer], T)
  PROVE  Taken(b) \subseteq ToSet(S) \cup ToSet(T)
<1>1. IsChain(b[Me]) /\ IsChain(b[Peer])
  BY DEF Chains, ArtActors
<1>2. ToSet(b[Me]) \subseteq ToSet(S) /\ ToSet(b[Peer]) \subseteq ToSet(T)
  BY <1>1, PrefixHolds
<1> QED
  BY <1>2 DEF Taken, ArtActors

LEMMA WorldFacts ==
  ASSUME ArtInv
  PROVE  /\ OneID(World) /\ \A x \in World : RequestOK(x.req) /\ x.id # NoID
         /\ \A x \in World : x.id[1] = Me => x \in ToSet(artRefs[Own])
         /\ Held(artRefs) \subseteq World /\ Held(artThere) \subseteq World
         /\ Loads(artRefs)
<1>s. ArtShape /\ OneSource /\ Keyed /\ ViewsClosed
  BY DEF ArtInv, GrowInv, OnceInv
<1>0. Me \in ArtActors /\ Peer \in ArtActors /\ Me # Peer
  BY DEF ArtActors, Me, Peer
<1>1. KeyedBy(Me, ToSet(Top(Me))) /\ KeyedBy(Peer, ToSet(Top(Peer)))
  BY <1>s, <1>0 DEF Keyed
<1>2. /\ OneID(World) /\ \A x \in World : RequestOK(x.req) /\ x.id # NoID
      /\ \A x \in World : x.id[1] = Me => x \in ToSet(Top(Me))
  BY <1>1, KeyedWorld DEF World
<1>3. \A k \in RefNames : k[2] \in {Me, Peer}
  BY DEF RefNames, ArtActors
<1>4. \A k \in RefNames : Top(k[2]) = IF k[2] = Me THEN Top(Me) ELSE Top(Peer)
  BY <1>0, <1>3
<1>5. Held(artRefs) \subseteq World /\ Held(artThere) \subseteq World
  BY <1>s, <1>0, <1>4, TopsChains, HeldWithin DEF World, OneSource, ArtShape
<1>6. Loads(artRefs)
  <2> DEFINE top == [a \in ArtActors |-> Top(a)]
  <2>1. \A a \in ArtActors : IsChain(top[a])
    BY <1>s, TopsChains
  <2>2. \A k \in RefNames : IsPrefix(artRefs[k], top[k[2]])
    BY <1>s, <1>0, <1>3 DEF OneSource
  <2> HIDE DEF top
  <2>3. Chains(artRefs, RefNames) /\ Closed(World, Held(artRefs))
    BY <1>s DEF ArtShape, ViewsClosed
  <2> QED BY <1>2, <1>5, <2>1, <2>2, <2>3, LoadsWhenClosed
<1> QED
  BY <1>s, <1>2, <1>5, <1>6, TopsChains

\* What an actor's stream ends in is a beginning of what the actor signed, and
\* in the actor's own clone all of it.
LEMMA StreamsOfWorld ==
  ASSUME ArtInv
  PROVE  /\ \A a \in ArtActors : /\ IsPrefix(Stream(artRefs, a), Top(a)) /\ IsPrefix(Stream(artThere, a), Top(a))
                                 /\ IsChain(Stream(artRefs, a)) /\ IsChain(Stream(artThere, a))
         /\ Stream(artRefs, Me) = artRefs[Own]
         /\ \A o : Public(artRefs, o) = {x \in ToSet(artRefs[Own]) : x.id[2] = o}
<1>s. ArtShape /\ OneSource
  BY DEF ArtInv, GrowInv, OnceInv
<1>1. ASSUME NEW a \in ArtActors, NEW refs, Chains(refs, RefNames),
             \A k \in RefNames : IsPrefix(refs[k], Top(k[2]))
      PROVE  IsPrefix(Stream(refs, a), Top(a)) /\ IsChain(Stream(refs, a))
  <2>1. Stream(refs, a) \in Refs(refs, a) /\ IsChain(Stream(refs, a))
    BY <1>1, StreamIs
  <2>2. \A c \in Refs(refs, a) : IsPrefix(c, Top(a))
    BY <1>1 DEF Refs
  <2> QED BY <2>1, <2>2
<1>2. \A a \in ArtActors : /\ IsPrefix(Stream(artRefs, a), Top(a)) /\ IsPrefix(Stream(artThere, a), Top(a))
                           /\ IsChain(Stream(artRefs, a)) /\ IsChain(Stream(artThere, a))
  BY <1>s, <1>1 DEF ArtShape, OneSource
<1>3. Stream(artRefs, Me) = artRefs[Own]
  <2>1. Me \in ArtActors /\ Top(Me) = artRefs[Own] /\ IsChain(artRefs[Own])
    BY <1>s, TopsChains DEF ArtActors, ArtShape, Chains
  <2>2. artRefs[Own] \in Refs(artRefs, Me)
    BY <2>1, RefsOf DEF Own
  <2>3. Len(artRefs[Own]) <= Len(Stream(artRefs, Me))
    BY <1>s, <2>1, <2>2, StreamIs DEF ArtShape
  <2> QED BY <1>2, <2>1, <2>3, PrefixSame
<1> QED
  BY <1>2, <1>3 DEF Public

----------------------------------------------------------------------------
(* What a step leaves true of the sources, the views and the mutations. *)

LEMMA TopGrows ==
  ASSUME ArtShape, ArtShape', Kept
  PROVE  /\ \A a \in ArtActors : IsPrefix(Top(a), Top(a)') /\ IsChain(Top(a)) /\ IsChain(Top(a)')
         /\ World \subseteq World'
<1>1. /\ Own \in RefNames /\ <<"own", Peer>> \in RefNames /\ \A a \in ArtActors : IsChain(Top(a))
      /\ Top(Me) = artRefs[Own] /\ Top(Peer) = artThere[<<"own", Peer>>]
  BY TopsChains
<1>2. /\ Top(Me)' = artRefs'[Own] /\ Top(Peer)' = artThere'[<<"own", Peer>>]
  BY DEF Top, Me, Peer
<1>3. ArtActors = {Me, Peer}
  BY DEF ArtActors
<1>4. IsChain(Top(Me)') /\ IsChain(Top(Peer)')
  BY <1>1, <1>2 DEF ArtShape, Chains
<1>5. IsPrefix(Top(Me), Top(Me)') /\ IsPrefix(Top(Peer), Top(Peer)')
  BY <1>1, <1>2 DEF Kept
<1>6. ToSet(Top(Me)) \subseteq ToSet(Top(Me)') /\ ToSet(Top(Peer)) \subseteq ToSet(Top(Peer)')
  BY <1>1, <1>3, <1>4, <1>5, PrefixHolds
<1>7. World' = ToSet(Top(Me)') \cup ToSet(Top(Peer)')
  BY DEF World
<1>8. \A a \in ArtActors : IsPrefix(Top(a), Top(a)') /\ IsChain(Top(a)')
  BY <1>3, <1>4, <1>5
<1> QED
  BY <1>1, <1>6, <1>7, <1>8 DEF World

\* Copies come from what was signed before, or are the source itself.
LEMMA OneSourceNext ==
  ASSUME GrowInv, GrowInv', Kept,
         \A k \in RefNames : IsPrefix(artRefs'[k], Top(k[2])) \/ artRefs'[k] = Top(k[2])',
         \A k \in RefNames : IsPrefix(artThere'[k], Top(k[2])) \/ artThere'[k] = Top(k[2])',
         \A a \in ArtActors : IsPrefix(artBundle'[a], Top(a)),
         \A p \in ArtProcs : artProc'[p].pc \in {"promote", "push"} =>
           \A a \in ArtActors : IsPrefix(artProc'[p].take[a], Top(a))
  PROVE  OneSource'
<1>1. \A a \in ArtActors : IsPrefix(Top(a), Top(a)') /\ IsChain(Top(a)) /\ IsChain(Top(a)')
  BY TopGrows DEF GrowInv
<1>2. ASSUME NEW a \in ArtActors, NEW c, IsChain(c), IsPrefix(c, Top(a)) \/ c = Top(a)'
      PROVE  IsPrefix(c, Top(a)')
  BY <1>1, <1>2, PrefixTrans, PrefixRefl
<1>3. \A k \in RefNames : k[2] \in ArtActors /\ IsChain(artRefs'[k]) /\ IsChain(artThere'[k])
  BY DEF GrowInv, ArtShape, Chains, RefNames
<1>4. \A a \in ArtActors : IsChain(artBundle'[a])
  BY DEF GrowInv, ArtShape, Chains
<1>5. \A p \in ArtProcs : artProc'[p].pc \in {"promote", "push"} =>
         \A a \in ArtActors : IsChain(artProc'[p].take[a])
  BY DEF GrowInv, TakesExtend, TakeExtends, Chains
<1>6. \A k \in RefNames : IsPrefix(artRefs'[k], Top(k[2])') /\ IsPrefix(artThere'[k], Top(k[2])')
  BY <1>2, <1>3
<1>7. \A a \in ArtActors :
        /\ IsPrefix(artBundle'[a], Top(a)')
        /\ \A p \in ArtProcs : artProc'[p].pc \in {"promote", "push"} => IsPrefix(artProc'[p].take[a], Top(a)')
  BY <1>2, <1>4, <1>5
<1> QED
  BY <1>6, <1>7 DEF OneSource

\* What holds in the world holds in a larger one.
LEMMA LargerWorld ==
  ASSUME ArtInv, NEW V, World \subseteq V, OneID(V)
  PROVE  /\ Closed(V, Held(artRefs))
         /\ \A p \in ArtProcs : artProc[p].pc = "promote" => Closed(V, Taken(artProc[p].take))
         /\ \A q : Checked(World, Held(artRefs), q) => Checked(V, Held(artRefs), q)
<1>s. ArtShape /\ OneSource /\ ViewsClosed /\ TakesExtend
  BY DEF ArtInv, GrowInv, OnceInv
<1>1. /\ Held(artRefs) \subseteq World /\ \A x \in World : RequestOK(x.req)
  BY WorldFacts
<1>2. Closed(V, Held(artRefs))
  <2>1. Closed(World, Held(artRefs)) /\ \A x \in Held(artRefs) : RequestOK(x.req)
    BY <1>s, <1>1 DEF ViewsClosed
  <2> QED BY <1>1, <2>1, ClosedAmong
<1>3. ASSUME NEW p \in ArtProcs, artProc[p].pc = "promote" PROVE Closed(V, Taken(artProc[p].take))
  <2> DEFINE b == artProc[p].take
  <2>1. Chains(b, ArtActors) /\ Closed(World, Taken(b)) /\ \A a \in ArtActors : IsPrefix(b[a], Top(a))
    BY <1>s, <1>3 DEF TakesExtend, TakeExtends, ViewsClosed, OneSource
  <2> HIDE DEF b
  <2>2. Me \in ArtActors /\ Peer \in ArtActors
    BY DEF ArtActors
  <2>3. Taken(b) \subseteq World
    BY <1>s, <2>1, <2>2, TopsChains, TakenWithin DEF World
  <2>4. Closed(V, Taken(b))
    BY <1>1, <2>1, <2>3, ClosedAmong
  <2> QED BY <2>4 DEF b
<1>4. ASSUME NEW q, Checked(World, Held(artRefs), q) PROVE Checked(V, Held(artRefs), q)
  <2> DEFINE x == Artifact(NoID, q)
  <2>1. x.req = q
    BY LineageOfRequest
  <2>2. RequestOK(q) /\ Dependencies(x) \subseteq IDs(Held(artRefs)) /\ Lineage(World, x)
    BY <1>4 DEF Checked
  <2> HIDE DEF x
  <2>3. Dependencies(x) \subseteq IDs(World)
    BY <1>1, <2>2 DEF IDs
  <2>4. Lineage(V, x)
    BY <2>1, <2>2, <2>3, LineageSame
  <2> QED BY <2>2, <2>4 DEF Checked, x
<1> QED
  BY <1>2, <1>3, <1>4

\* Nobody signs: copies move between the places.
LEMMA SameWorld ==
  ASSUME ArtInv, GrowInv', Kept, artRefs'[Own] = artRefs[Own],
         artThere'[<<"own", Peer>>] = artThere[<<"own", Peer>>],
         \A k \in RefNames : IsPrefix(artRefs'[k], Top(k[2])) /\ IsPrefix(artThere'[k], Top(k[2])),
         Closed(World, Held(artRefs')),
         \A a \in ArtActors : IsPrefix(artBundle'[a], Top(a)),
         \A p \in ArtProcs : \/ artProc'[p] = artProc[p]
                             \/ artProc'[p].pc \notin {"promote", "push"}
                             \/ /\ \A a \in ArtActors : IsPrefix(artProc'[p].take[a], Top(a))
                                /\ artProc'[p].pc = "promote" => Closed(World, Taken(artProc'[p].take))
  PROVE  World' = World /\ OneSource' /\ Keyed' /\ ViewsClosed'
<1>s. ArtShape /\ OneSource /\ ViewsClosed /\ Keyed /\ GrowInv
  BY DEF ArtInv, GrowInv, OnceInv
<1>1. \A a \in ArtActors : Top(a)' = Top(a)
  BY DEF Top
<1>2. Me \in ArtActors /\ Peer \in ArtActors
  BY DEF ArtActors
<1>3. World' = World
  BY <1>1, <1>2 DEF World
<1>4. OneSource'
  <2>1. \A p \in ArtProcs : artProc'[p].pc \in {"promote", "push"} =>
           \A a \in ArtActors : IsPrefix(artProc'[p].take[a], Top(a))
    BY <1>s DEF OneSource
  <2> QED BY <1>s, <2>1, OneSourceNext
<1>5. Keyed'
  BY <1>s, <1>1 DEF Keyed
<1>6. ViewsClosed'
  BY <1>s, <1>3 DEF ViewsClosed
<1> QED
  BY <1>3, <1>4, <1>5, <1>6

LEMMA HeldGrows ==
  ASSUME ArtShape, ArtShape', Kept
  PROVE  Held(artRefs) \subseteq Held(artRefs')
<1>1. ASSUME NEW k \in RefNames PROVE ToSet(artRefs[k]) \subseteq ToSet(artRefs'[k])
  BY PrefixHolds DEF ArtShape, Chains, Kept
<1> QED
  BY <1>1 DEF Held

\* A mutation keeps what it knows while others fetch, import, push or sign elsewhere.
LEMMA CheckedStays ==
  ASSUME NEW W, NEW H, NEW S, NEW J, NEW w, NEW i, MutationOK(W, H, S, w, i), H \subseteq J, NEW V,
         \A q : Checked(W, H, q) => Checked(V, H, q)
  PROVE  MutationOK(V, J, S, w, i)
<1>1. ASSUME NEW q, Checked(W, H, q) PROVE Checked(V, J, q)
  <2>1. Checked(V, H, q) /\ IDs(H) \subseteq IDs(J)
    BY <1>1 DEF IDs
  <2> QED BY <2>1 DEF Checked
<1> QED
  BY <1>1 DEF MutationOK

LEMMA MutationsStay ==
  ASSUME ArtInv, GrowInv', Kept, OneID(World'), UNCHANGED <<artIntent, artAnswers>>,
         artRefs'[Own] = artRefs[Own],
         \A p \in ArtProcs : artProc'[p] = artProc[p] \/ artProc'[p].pc \notin Mutating
  PROVE  IntentsOK' /\ MutationsOK' /\ AnswersOK'
<1>s. ArtShape /\ ArtShape' /\ IntentsOK /\ MutationsOK /\ AnswersOK
  BY DEF ArtInv, GrowInv, OnceInv
<1>1. World \subseteq World' /\ Held(artRefs) \subseteq Held(artRefs')
  BY <1>s, TopGrows, HeldGrows
<1>2. \A q : Checked(World, Held(artRefs), q) => Checked(World', Held(artRefs), q)
  BY <1>1, LargerWorld
<1>3. IntentsOK' /\ AnswersOK'
  BY <1>s DEF IntentsOK, AnswersOK
<1>4. ASSUME NEW p \in ArtProcs, artProc'[p].pc \in Mutating
      PROVE  /\ \A q \in ArtProcs : (artProc'[q].pc \in Mutating /\ artProc'[q].op = artProc'[p].op) => q = p
             /\ MutationOK(World', Held(artRefs'), ToSet(artRefs'[Own]), artProc'[p], artIntent'[artProc'[p].op])
  <2>1. artProc'[p] = artProc[p]
    BY <1>4
  <2>2. /\ \A q \in ArtProcs : (artProc[q].pc \in Mutating /\ artProc[q].op = artProc[p].op) => q = p
        /\ MutationOK(World, Held(artRefs), ToSet(artRefs[Own]), artProc[p], artIntent[artProc[p].op])
    BY <1>s, <1>4, <2>1 DEF MutationsOK
  <2>3. MutationOK(World', Held(artRefs'), ToSet(artRefs[Own]), artProc[p], artIntent[artProc[p].op])
    BY <1>1, <1>2, <2>2, CheckedStays
  <2> QED BY <2>1, <2>2, <2>3
<1> QED
  BY <1>3, <1>4 DEF MutationsOK

\* A step of a mutation moves the intent of its own key, which nobody else works on.
LEMMA MutationMoves ==
  ASSUME ArtInv, GrowInv', UNCHANGED <<artRefs, artThere, artBundle>>, NEW p \in ArtProcs, NEW o \in ArtOps, NEW w,
         ProcAt(p, w), w.pc \notin {"promote", "push"},
         \A q \in ArtProcs : q # p /\ artProc[q].pc \in Mutating => artProc[q].op # o,
         w.pc \in Mutating =>
           w.op = o /\ MutationOK(World, Held(artRefs), ToSet(artRefs[Own]), w, artIntent'[o]),
         \A x \in ArtOps : x # o => artIntent'[x] = artIntent[x],
         IntentOK(ToSet(artRefs[Own]), o, artIntent'[o]),
         AnswersOK'
  PROVE  OnceInv'
<1>s. /\ ArtShape /\ GrowInv /\ OneSource /\ ViewsClosed /\ IntentsOK /\ MutationsOK
  BY DEF ArtInv, GrowInv, OnceInv
<1>1. artProc'[p] = w /\ \A q \in ArtProcs : q # p => artProc'[q] = artProc[q]
  BY DEF ProcAt
<1>2. \A k \in RefNames : IsPrefix(artRefs[k], artRefs'[k]) /\ IsPrefix(artThere[k], artThere'[k])
  BY <1>s, PrefixRefl DEF ArtShape, Chains
<1>3. World' = World /\ OneSource' /\ Keyed' /\ ViewsClosed'
  BY <1>s, <1>1 DEF ArtInv, OnceInv, World, Top, OneSource, Keyed, ViewsClosed
<1>4. IntentsOK'
  BY <1>s DEF IntentsOK
<1>5. MutationsOK'
  <2> SUFFICES ASSUME NEW r \in ArtProcs, artProc'[r].pc \in Mutating
               PROVE  /\ \A q \in ArtProcs : (artProc'[q].pc \in Mutating /\ artProc'[q].op = artProc'[r].op) => q = r
                      /\ MutationOK(World, Held(artRefs), ToSet(artRefs[Own]), artProc'[r], artIntent'[artProc'[r].op])
    BY <1>3 DEF MutationsOK
  <2>1. CASE r = p
    BY <1>1, <2>1
  <2>2. CASE r # p
    <3>1. artProc'[r] = artProc[r] /\ artProc[r].op # o /\ artProc[r].op \in ArtOps
      BY <1>s, <1>1, <2>2 DEF ArtShape, WorkRecord
    <3>2. /\ \A q \in ArtProcs : (artProc[q].pc \in Mutating /\ artProc[q].op = artProc[r].op) => q = r
          /\ MutationOK(World, Held(artRefs), ToSet(artRefs[Own]), artProc[r], artIntent[artProc[r].op])
      BY <1>s, <3>1 DEF MutationsOK
    <3>3. ASSUME NEW q \in ArtProcs, artProc'[q].pc \in Mutating, artProc'[q].op = artProc'[r].op PROVE q = r
      BY <1>1, <3>1, <3>2, <3>3
    <3> QED BY <3>1, <3>2, <3>3
  <2> QED BY <2>1, <2>2
<1> QED
  BY <1>3, <1>4, <1>5 DEF OnceInv

\* Nothing was answered for a key that is still being worked on.
LEMMA NotAnswered ==
  ASSUME ArtInv, NEW p \in ArtProcs, artProc[p].pc \in Mutating
  PROVE  /\ \A s \in artAnswers : s.op # artProc[p].op
         /\ artProc[p].op \in ArtOps
         /\ \A q \in ArtProcs : q # p /\ artProc[q].pc \in Mutating => artProc[q].op # artProc[p].op
         /\ MutationOK(World, Held(artRefs), ToSet(artRefs[Own]), artProc[p], artIntent[artProc[p].op])
         /\ IntentOK(ToSet(artRefs[Own]), artProc[p].op, artIntent[artProc[p].op])
<1>s. ArtShape /\ MutationsOK /\ AnswersOK /\ IntentsOK
  BY DEF ArtInv, GrowInv, OnceInv
<1>1. artProc[p].op \in ArtOps
  BY <1>s DEF ArtShape, WorkRecord
<1>2. /\ \A q \in ArtProcs : q # p /\ artProc[q].pc \in Mutating => artProc[q].op # artProc[p].op
      /\ MutationOK(World, Held(artRefs), ToSet(artRefs[Own]), artProc[p], artIntent[artProc[p].op])
      /\ IntentOK(ToSet(artRefs[Own]), artProc[p].op, artIntent[artProc[p].op])
  BY <1>s, <1>1 DEF MutationsOK, IntentsOK
<1>3. ASSUME NEW s \in artAnswers, s.op = artProc[p].op PROVE FALSE
  <2> DEFINE x == Artifact(s.id, s.req)
  <2>1. x \in ToSet(artRefs[Own]) /\ x.id = s.id /\ s.id[2] = s.op /\ artIntent[s.op].stage = "published"
    BY <1>s DEF AnswersOK, Artifact
  <2> HIDE DEF x
  <2>2. artProc[p].pc = "confirm"
    BY <1>2, <1>3, <2>1 DEF MutationOK, Mutating
  <2> QED BY <1>2, <1>3, <2>1, <2>2 DEF MutationOK
<1> QED
  BY <1>1, <1>2, <1>3

LEMMA AnswersSame ==
  ASSUME ArtInv, NEW o \in ArtOps, \A s \in artAnswers : s.op # o, UNCHANGED <<artAnswers, artRefs>>,
         \A x \in ArtOps : x # o => artIntent'[x] = artIntent[x]
  PROVE  AnswersOK'
<1>1. AnswersOK
  BY DEF ArtInv, OnceInv
<1> QED
  BY <1>1 DEF AnswersOK

----------------------------------------------------------------------------
(* The actions keep one artifact per key. *)

LEMMA AskedOK ==
  ASSUME NEW H, \A x \in H : x.id # NoID, NEW kinds, NEW q \in Asked(H, kinds)
  PROVE  RequestOK(q)
<1>1. \A t \in Types(H) : t # NoID
  BY DEF Types
<1>2. CASE \E t \in Types(H) : q = Request("type.publish", NoID, {t}, NoID, {})
  BY <1>2 DEF RequestOK, Request
<1>3. CASE \E t \in Types(H) : q = Request("record.open", NoID, {}, t, Openings(H))
  BY <1>1, <1>3 DEF RequestOK, Request
<1>4. CASE \E r \in Openings(H), t \in Types(H), k \in {"record.revise", "record.resolve", "record.convert"} :
             q = Request(k, r, Heads(H, r), t, {})
  BY <1>4 DEF RequestOK, Request
<1> QED
  BY <1>2, <1>3, <1>4 DEF Asked

LEMMA BeginOnce ==
  ASSUME ArtInv, GrowInv', NEW p \in ArtProcs, NEW o \in ArtOps, NEW q, RequestOK(q), Begin(p, o, q)
  PROVE  OnceInv'
<1> DEFINE w == [pc |-> "prepare", op |-> o, req |-> q, seen |-> artRefs, id |-> NoID]
           H == Held(artRefs)
           S == ToSet(artRefs[Own])
           i == artIntent[o]
<1>s. ArtShape /\ IntentsOK /\ AnswersOK
  BY DEF ArtInv, GrowInv, OnceInv
<1>1. /\ ProcAt(p, w) /\ UNCHANGED <<artRefs, artThere, artIntent, artBundle, artIndex, artAnswers>>
  BY <1>s, BeginIs
<1>2. /\ ~Locked(o) /\ ~BindsOther(o, q) /\ Public(artRefs, o) = {} /\ Current(i, artRefs)
      /\ CheckMutation(H, q)
  BY DEF Begin, Admissible
<1>3. /\ w.pc = "prepare" /\ w.op = o /\ w.req = q /\ w.seen[Own] = artRefs[Own]
  OBVIOUS
<1>4. i.stage # "none" => i.stage \in {"prepared", "publishing"} /\ i.req = q /\ i.expected = artRefs[Own]
  BY <1>2 DEF Current, BindsOther
<1>5. \A x \in S : x.id[2] # o
  BY <1>2, StreamsOfWorld
<1>6. Checked(World, H, q)
  <2> DEFINE x == Artifact(NoID, q)
  <2>1. x.req = q /\ Dependencies(x) \subseteq IDs(H) /\ Lineage(H, x)
    BY <1>2, LineageOfRequest DEF CheckMutation
  <2> HIDE DEF x
  <2>2. Lineage(World, x)
    BY <2>1, WorldFacts, LineageSame
  <2> QED BY <2>1, <2>2 DEF Checked, x
<1> HIDE DEF w, H, S, i
<1>7. MutationOK(World, H, S, w, i)
  BY <1>3, <1>4, <1>5, <1>6 DEF MutationOK
<1>8. \A r \in ArtProcs : r # p /\ artProc[r].pc \in Mutating => artProc[r].op # o
  BY <1>2 DEF Locked
<1>9. w.pc \notin {"promote", "push"}
  BY <1>3
<1>10. AnswersOK'
  BY <1>s, <1>1 DEF AnswersOK
<1>11. IntentOK(S, o, i)
  BY <1>s DEF IntentsOK, S, i
<1>12. artIntent' = artIntent /\ UNCHANGED <<artRefs, artThere, artBundle>>
  BY <1>1
<1> QED
  BY <1>1, <1>3, <1>7, <1>8, <1>9, <1>10, <1>11, <1>12, MutationMoves DEF H, S, i

LEMMA ReplayOnce ==
  ASSUME ArtInv, GrowInv', NEW p \in ArtProcs, NEW o \in ArtOps, NEW q, Replay(p, o, q)
  PROVE  OnceInv'
<1> DEFINE S == ToSet(artRefs[Own])
           i == artIntent[o]
<1>s. ArtShape /\ IntentsOK /\ AnswersOK /\ Keyed
  BY DEF ArtInv, GrowInv, OnceInv
<1>1. PICK x \in Public(artRefs, o) :
        /\ artIntent' = Settled(o, x) /\ artAnswers' = artAnswers \cup {[op |-> o, id |-> x.id, req |-> q]}
  BY DEF Replay
<1>2. /\ artProc[p].pc = "idle" /\ ~Locked(o) /\ ~BindsOther(o, q)
      /\ UNCHANGED <<artRefs, artProc, artThere, artBundle>>
  BY DEF Replay, artElse
<1>3. x \in S /\ x.id[2] = o
  BY StreamsOfWorld
<1>4. IntentOK(S, o, i)
  BY <1>s DEF IntentsOK
<1>5. i.stage \in {"publishing", "published"} /\ x = Artifact(i.cand, i.req)
  BY <1>3, <1>4 DEF IntentOK
<1>6. x.id = i.cand /\ x.req = i.req
  BY <1>5 DEF Artifact
<1>7. x.req = q
  BY <1>2 DEF BindsOther
<1>8. /\ \A r \in ArtOps : r # o => artIntent'[r] = artIntent[r]
      /\ artIntent'[o] = Intended(i, "published", x.id)
  BY <1>s, <1>1, <1>5, SettledIs
<1> DEFINE j == artIntent'[o]
<1>9. j.stage = "published" /\ j.req = i.req /\ j.cand = i.cand
  BY <1>6, <1>8 DEF Intended
<1> HIDE DEF S, i, j
<1>10. IntentOK(S, o, j)
  BY <1>4, <1>5, <1>9 DEF IntentOK
<1>11. AnswersOK'
  <2> SUFFICES ASSUME NEW s \in artAnswers'
               PROVE  /\ s.op \in ArtOps /\ s.id[2] = s.op /\ Artifact(s.id, s.req) \in S
                      /\ artIntent'[s.op].stage = "published" /\ artIntent'[s.op].cand = s.id
    BY <1>2 DEF AnswersOK, S
  <2>1. CASE s \in artAnswers
    <3>1. /\ s.op \in ArtOps /\ s.id[2] = s.op /\ Artifact(s.id, s.req) \in S
          /\ artIntent[s.op].stage = "published" /\ artIntent[s.op].cand = s.id
      BY <1>s, <2>1 DEF AnswersOK, S
    <3>2. CASE s.op = o
      BY <1>9, <3>1, <3>2 DEF i, j
    <3>3. CASE s.op # o
      BY <1>8, <3>1, <3>3
    <3> QED BY <3>1, <3>2, <3>3
  <2>2. CASE s = [op |-> o, id |-> x.id, req |-> q]
    <3>1. s.op = o /\ s.id = i.cand /\ s.req = i.req
      BY <1>6, <1>7, <2>2
    <3> QED BY <1>3, <1>5, <1>6, <1>9, <3>1 DEF j
  <2> QED BY <1>1, <2>1, <2>2
<1>12. ProcAt(p, artProc[p])
  BY <1>s, <1>2 DEF ArtShape, ProcAt
<1>13. artProc[p].pc \notin Mutating /\ artProc[p].pc \notin {"promote", "push"}
  BY <1>2 DEF Mutating
<1>14. \A r \in ArtProcs : r # p /\ artProc[r].pc \in Mutating => artProc[r].op # o
  BY <1>2 DEF Locked
<1> QED
  BY <1>2, <1>8, <1>10, <1>11, <1>12, <1>13, <1>14, MutationMoves DEF S, j

LEMMA PrepareOnce ==
  ASSUME ArtInv, GrowInv', NEW p \in ArtProcs, Prepare(p)
  PROVE  OnceInv'
<1> DEFINE w == artProc[p]
           o == w.op
           S == ToSet(artRefs[Own])
           i == artIntent[o]
           j == artIntent'[o]
           pc == IF i.stage = "publishing" THEN "check" ELSE "sign"
           n == [stage |-> "prepared", req |-> w.req, expected |-> w.seen[Own], cand |-> NoID]
<1>s. ArtShape
  BY DEF ArtInv, GrowInv
<1>1. /\ w.pc = "prepare" /\ o \in ArtOps /\ ProcAt(p, Working(w, pc))
      /\ \A q \in ArtOps : q # o => artIntent'[q] = artIntent[q]
      /\ j = IF i.stage # "none" THEN i ELSE n
      /\ UNCHANGED <<artRefs, artThere, artBundle, artIndex, artAnswers>>
  BY <1>s, PrepareIs
<1>2. n.stage = "prepared" /\ n.req = w.req /\ n.expected = w.seen[Own]
  OBVIOUS
<1>3. w.pc \in Mutating /\ pc \in {"check", "sign"} /\ pc \in Mutating
  BY <1>1 DEF Mutating
<1>4. /\ MutationOK(World, Held(artRefs), S, w, i) /\ IntentOK(S, o, i)
      /\ \A s \in artAnswers : s.op # o
      /\ \A q \in ArtProcs : q # p /\ artProc[q].pc \in Mutating => artProc[q].op # o
  BY <1>3, NotAnswered
<1> DEFINE v == Working(w, pc)
<1>5. v.pc = pc /\ v.op = o /\ v.req = w.req /\ v.seen = w.seen
  BY <1>1, <1>3, WorkingOK
<1>6. pc = "check" <=> i.stage = "publishing"
  OBVIOUS
<1> HIDE DEF w, S, i, j, n, v, pc
<1>7. /\ j.stage \in {"prepared", "publishing"} /\ j.req = w.req /\ j.expected = w.seen[Own]
      /\ pc = "check" => j.stage = "publishing"
      /\ Checked(World, Held(artRefs), w.req) /\ \A x \in S : x.id[2] # o
  BY <1>1, <1>2, <1>4, <1>6 DEF MutationOK
<1>8. MutationOK(World, Held(artRefs), S, v, j)
  BY <1>3, <1>5, <1>7 DEF MutationOK
<1>9. IntentOK(S, o, j)
  <2>1. CASE i.stage # "none"
    BY <1>1, <1>4, <2>1
  <2>2. CASE i.stage = "none"
    BY <1>1, <1>2, <1>7, <2>2 DEF IntentOK, Checked
  <2> QED BY <2>1, <2>2
<1>10. AnswersOK'
  BY <1>1, <1>4, AnswersSame
<1>11. v.pc \notin {"promote", "push"} /\ ProcAt(p, v)
  BY <1>1, <1>3, <1>5 DEF v
<1> QED
  BY <1>1, <1>4, <1>5, <1>8, <1>9, <1>10, <1>11, MutationMoves DEF S, j

LEMMA SignOnce ==
  ASSUME ArtInv, GrowInv', NEW p \in ArtProcs, Sign(p)
  PROVE  OnceInv'
<1> DEFINE w == artProc[p]
           o == w.op
           S == ToSet(artRefs[Own])
           i == artIntent[o]
<1>s. ArtShape
  BY DEF ArtInv, GrowInv
<1>1. w.pc = "sign" /\ UNCHANGED <<artRefs, artThere, artBundle, artIntent, artAnswers>>
  BY DEF Sign, artElse
<1>2. PICK m : ProcAt(p, [pc |-> "save", op |-> w.op, req |-> w.req, seen |-> w.seen, id |-> <<Me, w.op, m>>])
  BY <1>s, SignMoves
<1> DEFINE v == [pc |-> "save", op |-> w.op, req |-> w.req, seen |-> w.seen, id |-> <<Me, w.op, m>>]
<1>3. v.pc = "save" /\ v.op = o /\ v.req = w.req /\ v.seen = w.seen /\ OwnID(v.id, o)
  BY DEF OwnID
<1>4. w.pc \in Mutating
  BY <1>1 DEF Mutating
<1>5. /\ MutationOK(World, Held(artRefs), S, w, i) /\ IntentOK(S, o, i) /\ o \in ArtOps
      /\ \A s \in artAnswers : s.op # o
      /\ \A q \in ArtProcs : q # p /\ artProc[q].pc \in Mutating => artProc[q].op # o
  BY <1>4, NotAnswered
<1>6. ProcAt(p, v)
  BY <1>2
<1> HIDE DEF w, S, i, v
<1>7. MutationOK(World, Held(artRefs), S, v, i)
  BY <1>1, <1>3, <1>5 DEF MutationOK
<1>8. AnswersOK'
  BY <1>1, <1>5, AnswersSame
<1>9. v.pc \notin {"promote", "push"}
  BY <1>3
<1> QED
  BY <1>1, <1>3, <1>5, <1>6, <1>7, <1>8, <1>9, MutationMoves DEF S, i

LEMMA SaveOnce ==
  ASSUME ArtInv, GrowInv', NEW p \in ArtProcs, SaveCandidate(p)
  PROVE  OnceInv'
<1> DEFINE w == artProc[p]
           o == w.op
           S == ToSet(artRefs[Own])
           i == artIntent[o]
           j == artIntent'[o]
           v == Working(w, "check")
<1>s. ArtShape
  BY DEF ArtInv, GrowInv
<1>1. w.pc = "save" /\ w.pc \in Mutating
  BY DEF SaveCandidate, Mutating
<1>2. /\ MutationOK(World, Held(artRefs), S, w, i) /\ IntentOK(S, o, i)
      /\ \A s \in artAnswers : s.op # o
      /\ \A q \in ArtProcs : q # p /\ artProc[q].pc \in Mutating => artProc[q].op # o
  BY <1>1, NotAnswered
<1>3. /\ i.stage \in {"prepared", "publishing"} /\ i.req = w.req /\ i.expected = w.seen[Own]
      /\ Checked(World, Held(artRefs), w.req) /\ (\A x \in S : x.id[2] # o) /\ OwnID(w.id, o)
  BY <1>1, <1>2 DEF MutationOK
<1>4. /\ o \in ArtOps /\ ProcAt(p, v)
      /\ \A q \in ArtOps : q # o => artIntent'[q] = artIntent[q]
      /\ j = Intended(i, "publishing", w.id)
      /\ UNCHANGED <<artRefs, artThere, artBundle, artIndex, artAnswers>>
  BY <1>s, <1>3, SaveIs
<1>5. j.stage = "publishing" /\ j.req = i.req /\ j.expected = i.expected /\ j.cand = w.id
  BY <1>4 DEF Intended
<1>6. v.pc = "check" /\ v.op = o /\ v.req = w.req /\ v.seen = w.seen
  BY DEF Working
<1> HIDE DEF w, S, i, j, v
<1>7. MutationOK(World, Held(artRefs), S, v, j)
  BY <1>3, <1>5, <1>6 DEF MutationOK
<1>8. IntentOK(S, o, j)
  BY <1>3, <1>5 DEF IntentOK, Checked
<1>9. AnswersOK'
  BY <1>2, <1>4, AnswersSame
<1>10. v.pc \notin {"promote", "push"}
  BY <1>6
<1> QED
  BY <1>2, <1>4, <1>6, <1>7, <1>8, <1>9, <1>10, MutationMoves DEF S, j

LEMMA CheckOnce ==
  ASSUME ArtInv, GrowInv', NEW p \in ArtProcs, CheckSources(p)
  PROVE  OnceInv'
<1> DEFINE w == artProc[p]
           o == w.op
           S == ToSet(artRefs[Own])
           i == artIntent[o]
           v == Working(w, "publish")
<1>s. ArtShape
  BY DEF ArtInv, GrowInv
<1>1. /\ w.pc = "check" /\ w.pc \in Mutating /\ Move(p, "publish")
      /\ UNCHANGED <<artRefs, artThere, artBundle, artIntent, artAnswers>>
  BY DEF CheckSources, Mutating, artElse
<1>2. /\ MutationOK(World, Held(artRefs), S, w, i) /\ IntentOK(S, o, i) /\ o \in ArtOps
      /\ \A s \in artAnswers : s.op # o
      /\ \A q \in ArtProcs : q # p /\ artProc[q].pc \in Mutating => artProc[q].op # o
  BY <1>1, NotAnswered
<1>3. ProcAt(p, v)
  BY <1>s, <1>1, ProcMoves
<1>4. v.pc = "publish" /\ v.op = o /\ v.req = w.req /\ v.seen = w.seen
  BY DEF Working
<1> HIDE DEF w, S, i, v
<1>5. MutationOK(World, Held(artRefs), S, v, i)
  BY <1>1, <1>2, <1>4 DEF MutationOK
<1>6. AnswersOK'
  BY <1>1, <1>2, AnswersSame
<1>7. v.pc \notin {"promote", "push"}
  BY <1>4
<1> QED
  BY <1>1, <1>2, <1>3, <1>4, <1>5, <1>6, <1>7, MutationMoves DEF S, i

LEMMA ConfirmOnce ==
  ASSUME ArtInv, GrowInv', NEW p \in ArtProcs, Confirm(p)
  PROVE  OnceInv'
<1> DEFINE w == artProc[p]
           o == w.op
           S == ToSet(artRefs[Own])
           i == artIntent[o]
           j == artIntent'[o]
<1>s. ArtShape /\ AnswersOK
  BY DEF ArtInv, GrowInv, OnceInv
<1>1. /\ w.pc = "confirm" /\ o \in ArtOps /\ ProcAt(p, NoWork)
      /\ UNCHANGED <<artRefs, artThere, artBundle, artIndex>>
  BY <1>s, ConfirmIs
<1>2. PICK x \in Held(artRefs) :
         /\ x.id = i.cand /\ artIntent' = Settled(o, x)
         /\ artAnswers' = artAnswers \cup {[op |-> o, id |-> x.id, req |-> w.req]}
  BY <1>s, ConfirmIs
<1>3. w.pc \in Mutating
  BY <1>1 DEF Mutating
<1>4. /\ MutationOK(World, Held(artRefs), S, w, i) /\ IntentOK(S, o, i)
      /\ \A s \in artAnswers : s.op # o
      /\ \A q \in ArtProcs : q # p /\ artProc[q].pc \in Mutating => artProc[q].op # o
  BY <1>3, NotAnswered
<1>5. i.stage = "publishing" /\ i.req = w.req /\ Artifact(i.cand, i.req) \in S
  BY <1>1, <1>4 DEF MutationOK
<1>6. i.cand[2] = o
  BY <1>4, <1>5 DEF IntentOK, OwnID
<1>7. /\ \A q \in ArtOps : q # o => artIntent'[q] = artIntent[q]
      /\ j = Intended(i, "published", x.id)
  BY <1>s, <1>1, <1>2, <1>5, SettledIs
<1>8. j.stage = "published" /\ j.req = i.req /\ j.cand = i.cand
  BY <1>2, <1>7 DEF Intended
<1> HIDE DEF w, S, i, j
<1>9. IntentOK(S, o, j)
  BY <1>4, <1>5, <1>8 DEF IntentOK
<1>10. AnswersOK'
  <2> SUFFICES ASSUME NEW s \in artAnswers'
               PROVE  /\ s.op \in ArtOps /\ s.id[2] = s.op /\ Artifact(s.id, s.req) \in S
                      /\ artIntent'[s.op].stage = "published" /\ artIntent'[s.op].cand = s.id
    BY <1>1 DEF AnswersOK, S
  <2>1. CASE s \in artAnswers
    <3>1. /\ s.op \in ArtOps /\ s.id[2] = s.op /\ Artifact(s.id, s.req) \in S
          /\ artIntent[s.op].stage = "published" /\ artIntent[s.op].cand = s.id
      BY <1>s, <2>1 DEF AnswersOK, S
    <3> QED BY <1>4, <1>7, <2>1, <3>1
  <2>2. CASE s = [op |-> o, id |-> x.id, req |-> w.req]
    <3>1. s.op = o /\ s.id = i.cand /\ s.req = i.req
      BY <1>2, <1>5, <2>2
    <3> QED BY <1>1, <1>5, <1>6, <1>8, <3>1 DEF j
  <2> QED BY <1>2, <2>1, <2>2
<1>11. NoWork.pc \notin Mutating /\ NoWork.pc \notin {"promote", "push"}
  BY DEF NoWork, Mutating
<1> QED
  BY <1>1, <1>4, <1>7, <1>9, <1>10, <1>11, MutationMoves DEF S, j

\* A process stops, or works on something that is no mutation.
LEMMA AsideOnce ==
  ASSUME ArtInv, GrowInv', Kept, UNCHANGED <<artRefs, artThere, artIntent, artAnswers>>,
         \A a \in ArtActors : IsPrefix(artBundle'[a], Top(a)),
         \A p \in ArtProcs :
           \/ artProc'[p] = artProc[p]
           \/ /\ artProc'[p].pc \notin Mutating
              /\ \/ artProc'[p].pc \notin {"promote", "push"}
                 \/ /\ \A a \in ArtActors : IsPrefix(artProc'[p].take[a], Top(a))
                    /\ artProc'[p].pc = "promote" => Closed(World, Taken(artProc'[p].take))
  PROVE  OnceInv'
<1>1. \A k \in RefNames : IsPrefix(artRefs'[k], Top(k[2])) /\ IsPrefix(artThere'[k], Top(k[2]))
  BY DEF ArtInv, OnceInv, OneSource
<1>2. Closed(World, Held(artRefs'))
  BY DEF ArtInv, OnceInv, ViewsClosed
<1>3. World' = World /\ OneSource' /\ Keyed' /\ ViewsClosed'
  BY <1>1, <1>2, SameWorld
<1>4. IntentsOK' /\ MutationsOK' /\ AnswersOK'
  BY <1>3, WorldFacts, MutationsStay
<1> QED
  BY <1>3, <1>4 DEF OnceInv

LEMMA RestOnce ==
  ASSUME ArtInv, GrowInv', Kept, UNCHANGED <<artRefs, artThere, artIntent, artAnswers, artBundle>>,
         NEW p \in ArtProcs, NEW w, ProcAt(p, w), w.pc \in {"idle", "index"}
  PROVE  OnceInv'
<1>1. artProc'[p] = w /\ \A q \in ArtProcs : q # p => artProc'[q] = artProc[q]
  BY DEF ProcAt
<1>2. w.pc \notin Mutating /\ w.pc \notin {"promote", "push"}
  BY DEF Mutating
<1>3. \A a \in ArtActors : IsPrefix(artBundle'[a], Top(a))
  BY DEF ArtInv, OnceInv, OneSource
<1> QED
  BY <1>1, <1>2, <1>3, AsideOnce

LEMMA SelectionOfWorld ==
  ASSUME ArtInv, NEW x, NEW refs \in {artRefs, artThere}
  PROVE  /\ Chains(Selection(refs, {x}), ArtActors)
         /\ \A a \in ArtActors : IsPrefix(Selection(refs, {x})[a], Top(a))
<1>s. ArtShape
  BY DEF ArtInv, GrowInv
<1>1. Chains(refs, RefNames)
  BY <1>s DEF ArtShape
<1> DEFINE b == Selection(refs, {x})
<1>2. Chains(b, ArtActors) /\ \A a \in ArtActors : IsPrefix(b[a], Stream(refs, a))
  BY <1>1, SelectionIs
<1>3. \A a \in ArtActors : /\ IsPrefix(Stream(refs, a), Top(a)) /\ IsChain(Stream(refs, a))
                           /\ IsChain(Top(a))
  BY <1>s, StreamsOfWorld, TopsChains
<1> HIDE DEF b
<1>4. \A a \in ArtActors : IsPrefix(b[a], Top(a))
  BY <1>2, <1>3, PrefixTrans DEF Chains
<1> QED
  BY <1>2, <1>4 DEF b

\* What loads alone in quarantine is closed in the world.
LEMMA QuarantineCloses ==
  ASSUME ArtInv, NEW b, Chains(b, ArtActors), \A a \in ArtActors : IsPrefix(b[a], Top(a)), Loads(Alone(b))
  PROVE  Closed(World, Taken(b))
<1>s. ArtShape
  BY DEF ArtInv, GrowInv
<1> DEFINE top == [a \in ArtActors |-> Top(a)]
           refs == Alone(b)
<1>1. \A a \in ArtActors : IsChain(top[a]) /\ top[a] = Top(a)
  BY <1>s, TopsChains
<1>2. \A k \in RefNames : refs[k] = (IF k[1] = "own" THEN b[k[2]] ELSE <<>>) /\ k[2] \in ArtActors
  BY DEF Alone, RefNames
<1>3. Chains(refs, RefNames)
  BY <1>2, EmptyChain DEF Chains, Alone
<1>4. \A k \in RefNames : IsPrefix(refs[k], top[k[2]])
  BY <1>1, <1>2, EmptyChain
<1>5. Held(refs) = Taken(b)
  BY AloneHolds
<1>6. Taken(b) \subseteq World
  <2>1. Me \in ArtActors /\ Peer \in ArtActors
    BY DEF ArtActors
  <2> QED BY <1>s, <2>1, TopsChains, TakenWithin DEF World
<1> HIDE DEF top, refs
<1>7. Loads(refs) <=> Closed(World, Held(refs))
  BY <1>1, <1>3, <1>4, <1>5, <1>6, WorldFacts, LoadsWhenClosed
<1> QED
  BY <1>5, <1>7 DEF refs

LEMMA TransferOnce ==
  ASSUME ArtInv, GrowInv', Kept, NEW p \in ArtProcs, Fetch(p) \/ Import(p) \/ PushList(p)
  PROVE  OnceInv'
<1>s. ArtShape /\ OneSource
  BY DEF ArtInv, GrowInv, OnceInv
<1>0. \A a \in ArtActors : IsPrefix(artBundle[a], Top(a))
  BY <1>s DEF OneSource
<1>w. ASSUME NEW w, ProcAt(p, w), w.pc \in {"promote", "push"},
             \A a \in ArtActors : IsPrefix(w.take[a], Top(a)),
             w.pc = "promote" => Closed(World, Taken(w.take)),
             UNCHANGED <<artRefs, artThere, artIntent, artBundle, artIndex, artAnswers>>
      PROVE  OnceInv'
  <2>1. artProc'[p] = w /\ \A q \in ArtProcs : q # p => artProc'[q] = artProc[q]
    BY <1>w DEF ProcAt
  <2>2. w.pc \notin Mutating
    BY <1>w DEF Mutating
  <2> QED BY <1>0, <1>w, <2>1, <2>2, AsideOnce
<1>a. ASSUME NEW place \in {"remote", "imported"}, NEW b, Chains(b, ArtActors), Accept(p, place, b),
             \A a \in ArtActors : IsPrefix(b[a], Top(a))
      PROVE  OnceInv'
  <2> DEFINE w == [pc |-> "promote", place |-> place, take |-> b, seen |-> artRefs]
  <2>1. /\ ProcAt(p, w) /\ w.pc = "promote" /\ w.take = b /\ Loads(Alone(b))
        /\ UNCHANGED <<artRefs, artThere, artIntent, artBundle, artIndex, artAnswers>>
    BY <1>s, <1>a, AcceptIs
  <2>2. Closed(World, Taken(b))
    BY <1>a, <2>1, QuarantineCloses
  <2> HIDE DEF w
  <2> QED BY <1>a, <1>w, <2>1, <2>2
<1>1. CASE Fetch(p)
  <2>1. PICK x : Accept(p, "remote", Selection(artThere, {x}))
    BY <1>1 DEF Fetch
  <2> DEFINE b == Selection(artThere, {x})
  <2>2. Chains(b, ArtActors) /\ \A a \in ArtActors : IsPrefix(b[a], Top(a))
    BY SelectionOfWorld
  <2> HIDE DEF b
  <2>3. Accept(p, "remote", b)
    BY <2>1 DEF b
  <2> QED BY <1>a, <2>2, <2>3
<1>2. CASE Import(p)
  <2>1. Accept(p, "imported", artBundle) /\ Chains(artBundle, ArtActors)
    BY <1>2, <1>s DEF Import, ArtShape
  <2> QED BY <1>0, <1>a, <2>1
<1>3. CASE PushList(p)
  <2>1. PICK x : LET w == [pc |-> "push", place |-> "own", take |-> Selection(artRefs, {x}), seen |-> artThere]
                 IN  /\ ProcAt(p, w) /\ w.pc = "push" /\ w.take = Selection(artRefs, {x})
                     /\ UNCHANGED <<artRefs, artThere, artIntent, artBundle, artIndex, artAnswers>>
    BY <1>s, <1>3, PushListIs
  <2> DEFINE b == Selection(artRefs, {x})
             w == [pc |-> "push", place |-> "own", take |-> b, seen |-> artThere]
  <2>2. \A a \in ArtActors : IsPrefix(b[a], Top(a))
    BY SelectionOfWorld
  <2>3. /\ ProcAt(p, w) /\ w.pc = "push" /\ w.take = b
        /\ UNCHANGED <<artRefs, artThere, artIntent, artBundle, artIndex, artAnswers>>
    BY <2>1
  <2> HIDE DEF b, w
  <2> QED BY <1>w, <2>2, <2>3
<1> QED
  BY <1>1, <1>2, <1>3

LEMMA ProjectedHolds ==
  ASSUME NEW refs, NEW b, Chains(b, ArtActors), NEW place \in {"own", "remote", "imported"},
         Held(refs) \subseteq Held(Projected(refs, place, b))
  PROVE  Held(Projected(refs, place, b)) = Held(refs) \cup Taken(b)
<1> DEFINE new == Projected(refs, place, b)
<1>1. \A k \in RefNames : new[k] = (IF k[1] = place /\ k[2] \in Sent(b) THEN b[k[2]] ELSE refs[k])
                          /\ k[2] \in ArtActors
  BY DEF Projected, RefNames
<1> HIDE DEF new
<1>2. Held(new) \subseteq Held(refs) \cup Taken(b)
  BY <1>1 DEF Held, Taken
<1>3. ASSUME NEW a \in ArtActors PROVE ToSet(b[a]) \subseteq Held(new)
  <2>1. CASE b[a] = <<>>
    BY <2>1, EmptyChain
  <2>2. CASE b[a] # <<>>
    <3>1. a \in Sent(b) /\ <<place, a>> \in RefNames
      BY <2>2 DEF Sent, RefNames
    <3>2. new[<<place, a>>] = b[a]
      BY <1>1, <3>1
    <3> QED BY <3>1, <3>2 DEF Held
  <2> QED BY <2>1, <2>2
<1> QED
  BY <1>2, <1>3 DEF Taken, new

LEMMA PromoteOnce ==
  ASSUME ArtInv, GrowInv', Kept, NEW p \in ArtProcs, Promote(p)
  PROVE  OnceInv'
<1> DEFINE w == artProc[p]
<1>s. ArtShape /\ ArtShape' /\ GrowInv /\ OneSource /\ ViewsClosed
  BY DEF ArtInv, GrowInv, OnceInv
<1>1. /\ w.pc = "promote" /\ w.place \in {"remote", "imported"} /\ Chains(w.take, ArtActors)
      /\ artRefs' = artRefs \/ artRefs' = Projected(artRefs, w.place, w.take)
      /\ ProcAt(p, NoWork) /\ UNCHANGED <<artThere, artIntent, artBundle, artIndex, artAnswers>>
  BY <1>s, PromoteIs
<1>2. CASE artRefs' = artRefs
  BY <1>1, <1>2, NoWorkOK, RestOnce
<1>3. CASE artRefs' = Projected(artRefs, w.place, w.take)
  <2>1. \A k \in RefNames : /\ artRefs'[k] = IF k[1] = w.place /\ k[2] \in Sent(w.take) THEN w.take[k[2]] ELSE artRefs[k]
                            /\ k[2] \in ArtActors
    BY <1>3 DEF Projected, RefNames
  <2>2. Own \in RefNames /\ Own[1] = "own"
    BY DEF Own, RefNames, ArtActors
  <2>3. artRefs'[Own] = artRefs[Own]
    BY <1>1, <2>1, <2>2
  <2>4. /\ \A a \in ArtActors : IsPrefix(w.take[a], Top(a)) /\ IsPrefix(artBundle'[a], Top(a))
        /\ \A k \in RefNames : IsPrefix(artRefs[k], Top(k[2])) /\ IsPrefix(artThere'[k], Top(k[2]))
    BY <1>s, <1>1 DEF OneSource
  <2>5. \A k \in RefNames : IsPrefix(artRefs'[k], Top(k[2]))
    BY <2>1, <2>4
  <2>6. Closed(World, Held(artRefs')) 
    <3>1. Held(artRefs) \subseteq Held(artRefs')
      BY <1>s, HeldGrows
    <3>2. Held(artRefs') = Held(artRefs) \cup Taken(w.take)
      BY <1>1, <1>3, <3>1, ProjectedHolds
    <3>3. Closed(World, Held(artRefs)) /\ Closed(World, Taken(w.take))
      BY <1>s, <1>1 DEF ViewsClosed
    <3> QED BY <3>2, <3>3, ClosedUnion
  <2>7. \A q \in ArtProcs : artProc'[q] = artProc[q] \/ artProc'[q].pc = "idle"
    BY <1>1, NoWorkOK DEF ProcAt
  <2>8. World' = World /\ OneSource' /\ Keyed' /\ ViewsClosed'
    BY <1>1, <2>3, <2>4, <2>5, <2>6, <2>7, SameWorld
  <2>9. IntentsOK' /\ MutationsOK' /\ AnswersOK'
    BY <1>1, <2>3, <2>7, <2>8, WorldFacts, MutationsStay DEF Mutating
  <2> QED BY <2>8, <2>9 DEF OnceInv
<1> QED
  BY <1>1, <1>2, <1>3

\* A push cannot reach past what the peer signed itself.
LEMMA PushSendOnce ==
  ASSUME ArtInv, GrowInv', Kept, NEW p \in ArtProcs, PushSend(p)
  PROVE  OnceInv'
<1> DEFINE w == artProc[p]
           e == <<"own", Peer>>
<1>s. ArtShape /\ ArtShape' /\ GrowInv /\ OneSource /\ ViewsClosed
  BY DEF ArtInv, GrowInv, OnceInv
<1>1. /\ w.pc = "push" /\ Chains(w.take, ArtActors)
      /\ artThere' = artThere \/ artThere' = Projected(artThere, "own", w.take)
      /\ ProcAt(p, NoWork) /\ UNCHANGED <<artRefs, artIntent, artBundle, artIndex, artAnswers>>
  BY <1>s, PushSendIs
<1>2. CASE artThere' = artThere
  BY <1>1, <1>2, NoWorkOK, RestOnce
<1>3. CASE artThere' = Projected(artThere, "own", w.take)
  <2>1. \A k \in RefNames : /\ artThere'[k] = IF k[1] = "own" /\ k[2] \in Sent(w.take) THEN w.take[k[2]] ELSE artThere[k]
                            /\ k[2] \in ArtActors
    BY <1>3 DEF Projected, RefNames
  <2>2. /\ \A a \in ArtActors : IsPrefix(w.take[a], Top(a)) /\ IsPrefix(artBundle'[a], Top(a))
        /\ \A k \in RefNames : IsPrefix(artRefs'[k], Top(k[2])) /\ IsPrefix(artThere[k], Top(k[2]))
    BY <1>s, <1>1 DEF OneSource
  <2>3. \A k \in RefNames : IsPrefix(artThere'[k], Top(k[2]))
    BY <2>1, <2>2
  <2>4. e \in RefNames /\ e[2] = Peer /\ Top(Peer) = artThere[e]
    BY <1>s, TopsChains
  <2>5. IsChain(artThere[e]) /\ IsChain(artThere'[e]) /\ IsPrefix(artThere[e], artThere'[e])
        /\ IsPrefix(artThere'[e], artThere[e])
    BY <1>s, <2>3, <2>4 DEF ArtShape, Chains, Kept
  <2>6. artThere'[e] = artThere[e]
    BY <2>5, PrefixPoint, PrefixSame
  <2>7. Closed(World, Held(artRefs')) 
    BY <1>s, <1>1 DEF ViewsClosed
  <2>8. \A q \in ArtProcs : artProc'[q] = artProc[q] \/ artProc'[q].pc = "idle"
    BY <1>1, NoWorkOK DEF ProcAt
  <2>9. World' = World /\ OneSource' /\ Keyed' /\ ViewsClosed'
    BY <1>1, <2>2, <2>3, <2>6, <2>7, <2>8, SameWorld
  <2>10. IntentsOK' /\ MutationsOK' /\ AnswersOK'
    BY <1>1, <2>8, <2>9, WorldFacts, MutationsStay DEF Mutating
  <2> QED BY <2>9, <2>10 DEF OnceInv
<1> QED
  BY <1>1, <1>2, <1>3

LEMMA ExportOnce ==
  ASSUME ArtInv, GrowInv', Kept, Export
  PROVE  OnceInv'
<1>s. ArtShape
  BY DEF ArtInv, GrowInv
<1>1. PICK x : artBundle' = Selection(artThere, {x})
  BY <1>s, ExportIs
<1>2. UNCHANGED <<artRefs, artThere, artIntent, artProc, artIndex, artAnswers>>
  BY <1>s, ExportIs
<1>3. \A a \in ArtActors : IsPrefix(artBundle'[a], Top(a))
  BY <1>1, SelectionOfWorld
<1> QED
  BY <1>2, <1>3, AsideOnce

LEMMA KeyedAdds ==
  ASSUME NEW a, NEW S, KeyedBy(a, S), NEW x, x.id = <<a, x.id[2], x.id[3]>>, RequestOK(x.req),
         \A y \in S : y.id[2] # x.id[2]
  PROVE  KeyedBy(a, S \cup {x})
<1>1. x.id[1] = a
  OBVIOUS
<1> QED
  BY <1>1 DEF KeyedBy

LEMMA PeerSignsOnce ==
  ASSUME ArtInv, GrowInv', Kept, NEW o, PeerSigns(o)
  PROVE  OnceInv'
<1> DEFINE e == <<"own", Peer>>
<1>s. ArtShape /\ ArtShape' /\ GrowInv /\ OneSource /\ ViewsClosed /\ Keyed
  BY DEF ArtInv, GrowInv, OnceInv
<1>1. PICK q \in Asked(Held(artThere), ArtPeerKinds[o]) :
         /\ \A x \in Held(artThere) : x.id[2] # o
         /\ ToSet(artThere'[e]) = ToSet(artThere[e]) \cup {Artifact(<<Peer, o, 1>>, q)}
         /\ \A k \in RefNames : k # e => artThere'[k] = artThere[k]
         /\ UNCHANGED <<artRefs, artIntent, artProc, artBundle, artIndex, artAnswers>>
  BY <1>s, PeerSignsIs
<1> DEFINE y == Artifact(<<Peer, o, 1>>, q)
<1>2. y.id = <<Peer, o, 1>> /\ y.req = q
  BY DEF Artifact
<1> HIDE DEF y
<1>3. RequestOK(q)
  <2>1. \A x \in Held(artThere) : x.id # NoID
    BY WorldFacts
  <2> QED BY <2>1, AskedOK
<1>4. /\ Own \in RefNames /\ e \in RefNames /\ Top(Me) = artRefs[Own] /\ Top(Peer) = artThere[e]
      /\ Me \in ArtActors /\ Peer \in ArtActors
  BY <1>s, TopsChains DEF ArtActors
<1>5. Top(Me)' = Top(Me) /\ Top(Peer)' = artThere'[e]
  BY <1>1, <1>4 DEF Top, Me, Peer
<1>6. KeyedBy(Me, ToSet(Top(Me)))
  BY <1>s, <1>4 DEF Keyed
<1>7. KeyedBy(Peer, ToSet(artThere'[e]))
  <2>1. \A x \in ToSet(artThere[e]) : x.id[2] # o
    BY <1>1, <1>4 DEF Held
  <2>2. KeyedBy(Peer, ToSet(artThere[e]))
    BY <1>s, <1>4 DEF Keyed
  <2>3. y.id[2] = o /\ y.id = <<Peer, y.id[2], y.id[3]>>
    BY <1>2
  <2>4. KeyedBy(Peer, ToSet(artThere[e]) \cup {y})
    BY <1>2, <1>3, <2>1, <2>2, <2>3, KeyedAdds
  <2> QED BY <1>1, <2>4 DEF y
<1>8. Keyed'
  BY <1>5, <1>6, <1>7 DEF Keyed, ArtActors
<1>9. OneID(World')
  <2>1. World' = ToSet(Top(Me)) \cup ToSet(artThere'[e])
    BY <1>5 DEF World
  <2> QED BY <1>6, <1>7, <2>1, KeyedWorld
<1>10. World \subseteq World'
  BY <1>s, TopGrows
<1>11. OneSource'
  <2>1. \A k \in RefNames : IsPrefix(artThere'[k], Top(k[2])) \/ artThere'[k] = Top(k[2])'
    <3>1. e[2] = Peer
      OBVIOUS
    <3> QED BY <1>s, <1>1, <1>5, <3>1 DEF OneSource
  <2> QED BY <1>s, <1>1, <2>1, OneSourceNext DEF OneSource
<1>12. ViewsClosed'
  BY <1>1, <1>9, <1>10, LargerWorld DEF ViewsClosed
<1>13. IntentsOK' /\ MutationsOK' /\ AnswersOK'
  BY <1>1, <1>9, MutationsStay
<1> QED
  BY <1>8, <1>11, <1>12, <1>13 DEF OnceInv

\* The candidate of an intent is published under a key nobody published under.
LEMMA PublishOnce ==
  ASSUME ArtInv, GrowInv', Kept, NEW p \in ArtProcs, Publish(p)
  PROVE  OnceInv'
<1> DEFINE w == artProc[p]
           o == w.op
           i == artIntent[o]
           S == ToSet(artRefs[Own])
           H == Held(artRefs)
           x == Artifact(i.cand, i.req)
           v == Working(w, "confirm")
<1>s. ArtShape /\ ArtShape' /\ GrowInv /\ OneSource /\ ViewsClosed /\ Keyed /\ IntentsOK /\ MutationsOK /\ AnswersOK
  BY DEF ArtInv, GrowInv, OnceInv
<1>1. /\ w.pc = "publish" /\ o \in ArtOps /\ ProcAt(p, v)
      /\ UNCHANGED <<artIntent, artThere, artBundle, artIndex, artAnswers>>
      /\ \A k \in RefNames : k # Own => artRefs'[k] = artRefs[k]
      /\ ToSet(artRefs'[Own]) = S \cup {x}
  BY <1>s, PublishIs
<1>2. w.pc \in Mutating
  BY <1>1 DEF Mutating
<1>3. /\ MutationOK(World, H, S, w, i) /\ IntentOK(S, o, i) /\ o \in ArtOps
      /\ \A s \in artAnswers : s.op # o
      /\ \A q \in ArtProcs : q # p /\ artProc[q].pc \in Mutating => artProc[q].op # o
  BY <1>2, NotAnswered
<1>4. i.stage = "publishing" /\ i.req = w.req /\ Checked(World, H, i.req) /\ \A y \in S : y.id[2] # o
  BY <1>1, <1>3 DEF MutationOK
<1>5. x.id = i.cand /\ x.req = i.req /\ x.id = <<Me, o, x.id[3]>> /\ x.id[2] = o
  <2>1. x.id = i.cand /\ x.req = i.req
    BY DEF Artifact
  <2>2. i.cand = <<Me, o, i.cand[3]>>
    BY <1>3, <1>4 DEF IntentOK, OwnID
  <2>3. i.cand[2] = o
    BY <2>2
  <2> QED BY <2>1, <2>2, <2>3
<1>6. v.pc = "confirm" /\ v.op = o /\ v.req = w.req
  BY DEF Working
<1>7. /\ Own \in RefNames /\ Top(Me) = artRefs[Own] /\ Top(Peer) = artThere[<<"own", Peer>>]
      /\ Me \in ArtActors /\ Peer \in ArtActors
  BY <1>s, TopsChains DEF ArtActors
<1>8. Top(Me)' = artRefs'[Own] /\ Top(Peer)' = Top(Peer)
  BY <1>1, <1>7 DEF Top, Me, Peer
<1>x. x = Artifact(i.cand, i.req)
  OBVIOUS
<1> HIDE DEF w, i, S, H, x, v
<1>9. KeyedBy(Me, ToSet(artRefs'[Own])) /\ KeyedBy(Peer, ToSet(Top(Peer)))
  <2>1. KeyedBy(Me, S) /\ KeyedBy(Peer, ToSet(Top(Peer)))
    BY <1>s, <1>7 DEF Keyed, S
  <2>2. KeyedBy(Me, S \cup {x})
    BY <1>4, <1>5, <2>1, KeyedAdds DEF Checked
  <2> QED BY <1>1, <2>1, <2>2
<1>10. Keyed'
  BY <1>8, <1>9 DEF Keyed, ArtActors
<1>11. OneID(World')
  <2>1. World' = ToSet(artRefs'[Own]) \cup ToSet(Top(Peer))
    BY <1>8 DEF World
  <2> QED BY <1>9, <2>1, KeyedWorld
<1>12. World \subseteq World' /\ H \subseteq Held(artRefs')
  BY <1>s, TopGrows, HeldGrows DEF H
<1>13. OneSource'
  <2>1. \A k \in RefNames : IsPrefix(artRefs'[k], Top(k[2])) \/ artRefs'[k] = Top(k[2])'
    <3>1. Own[2] = Me
      BY DEF Own
    <3> QED BY <1>s, <1>1, <1>8, <3>1 DEF OneSource
  <2>2. \A r \in ArtProcs : artProc'[r].pc \in {"promote", "push"} =>
           \A a \in ArtActors : IsPrefix(artProc'[r].take[a], Top(a))
    <3>1. \A r \in ArtProcs : artProc'[r].pc \in {"promote", "push"} => artProc'[r] = artProc[r]
      BY <1>1, <1>6 DEF ProcAt
    <3> QED BY <1>s, <3>1 DEF OneSource
  <2> QED BY <1>s, <1>1, <2>1, <2>2, OneSourceNext DEF OneSource
<1>14. /\ Closed(World', H) /\ Checked(World', H, i.req)
       /\ \A r \in ArtProcs : artProc[r].pc = "promote" => Closed(World', Taken(artProc[r].take))
       /\ \A q : Checked(World, H, q) => Checked(World', H, q)
  BY <1>4, <1>11, <1>12, LargerWorld DEF H
<1>15. Held(artRefs') = H \cup {x}
  <2>1. \A k \in RefNames : ToSet(artRefs'[k]) \subseteq H \cup {x}
    BY <1>1, <1>7 DEF H, S, Held
  <2>2. Held(artRefs') \subseteq H \cup {x}
    BY <2>1 DEF Held
  <2>3. x \in Held(artRefs')
    BY <1>1, <1>7 DEF Held
  <2> QED BY <1>12, <2>2, <2>3
<1>16. ViewsClosed'
  <2>1. Dependencies(x) \subseteq IDs(H) /\ Lineage(World', x)
    BY <1>14, <1>x, LineageOfRequest DEF Checked
  <2>2. Closed(World', Held(artRefs'))
    BY <1>14, <1>15, <2>1, ClosedAdds
  <2>3. \A r \in ArtProcs : artProc'[r].pc = "promote" => artProc'[r] = artProc[r]
    BY <1>1, <1>6 DEF ProcAt
  <2> QED BY <1>14, <2>2, <2>3 DEF ViewsClosed
<1>17. IntentsOK'
  <2> SUFFICES ASSUME NEW r \in ArtOps PROVE IntentOK(S \cup {x}, r, artIntent[r])
    BY <1>1 DEF IntentsOK
  <2>1. IntentOK(S, r, artIntent[r])
    BY <1>s DEF IntentsOK, S
  <2>2. CASE r = o
    BY <1>3, <1>4, <1>x, <2>2 DEF IntentOK, i
  <2>3. CASE r # o
    BY <1>5, <2>1, <2>3 DEF IntentOK
  <2> QED BY <2>2, <2>3
<1>18. MutationsOK'
  <2> SUFFICES ASSUME NEW r \in ArtProcs, artProc'[r].pc \in Mutating
               PROVE  /\ \A q \in ArtProcs : (artProc'[q].pc \in Mutating /\ artProc'[q].op = artProc'[r].op) => q = r
                      /\ MutationOK(World', Held(artRefs'), S \cup {x}, artProc'[r], artIntent[artProc'[r].op])
    BY <1>1 DEF MutationsOK
  <2>p. artProc'[p] = v /\ \A q \in ArtProcs : q # p => artProc'[q] = artProc[q]
    BY <1>1 DEF ProcAt
  <2>1. CASE r = p
    <3>1. MutationOK(World', Held(artRefs'), S \cup {x}, v, i)
      BY <1>4, <1>6, <1>x DEF MutationOK
    <3> QED BY <1>3, <1>6, <2>p, <2>1, <3>1 DEF i
  <2>2. CASE r # p
    <3>1. artProc'[r] = artProc[r] /\ artProc[r].op # o
      BY <1>3, <2>p, <2>2
    <3>2. /\ \A q \in ArtProcs : (artProc[q].pc \in Mutating /\ artProc[q].op = artProc[r].op) => q = r
          /\ MutationOK(World, H, S, artProc[r], artIntent[artProc[r].op])
      BY <1>s, <3>1 DEF MutationsOK, H, S
    <3>3. MutationOK(World', Held(artRefs'), S, artProc[r], artIntent[artProc[r].op])
      BY <1>12, <1>14, <3>2, CheckedStays
    <3>4. MutationOK(World', Held(artRefs'), S \cup {x}, artProc[r], artIntent[artProc[r].op])
      BY <1>5, <3>1, <3>3 DEF MutationOK
    <3>5. ASSUME NEW q \in ArtProcs, artProc'[q].pc \in Mutating, artProc'[q].op = artProc'[r].op PROVE q = r
      BY <1>6, <2>p, <3>1, <3>2, <3>5
    <3> QED BY <3>1, <3>4, <3>5
  <2> QED BY <2>1, <2>2
<1>19. AnswersOK'
  BY <1>s, <1>1 DEF AnswersOK, S
<1> QED
  BY <1>10, <1>13, <1>16, <1>17, <1>18, <1>19 DEF OnceInv

LEMMA OnceStep ==
  ASSUME ArtInv, GrowInv', Kept, ArtifactNext \/ OpaqueNext
  PROVE  OnceInv'
<1>s. ArtShape /\ IntentsOK
  BY DEF ArtInv, GrowInv, OnceInv
<1>1. ASSUME NEW p \in ArtProcs, NEW o \in ArtOps, NEW q, RequestOK(q), Begin(p, o, q) \/ Replay(p, o, q)
      PROVE  OnceInv'
  BY <1>1, BeginOnce, ReplayOnce
<1>2. ASSUME NEW p \in ArtProcs, NEW o \in ArtOps, NEW q \in Asked(Held(artRefs), ArtKinds[o]),
             Begin(p, o, q) \/ Replay(p, o, q)
      PROVE  OnceInv'
  <2>1. \A x \in Held(artRefs) : x.id # NoID
    BY WorldFacts
  <2> QED BY <1>1, <1>2, <2>1, AskedOK
<1>3. ASSUME NEW p \in ArtProcs, NEW o \in ArtOps, artIntent[o].stage # "none",
             Begin(p, o, artIntent[o].req) \/ Replay(p, o, artIntent[o].req)
      PROVE  OnceInv'
  <2>1. RequestOK(artIntent[o].req)
    BY <1>s, <1>3 DEF IntentsOK, IntentOK
  <2> QED BY <1>1, <1>3, <2>1
<1>4. ASSUME NEW p \in ArtProcs, MutationRefused(p) \/ ArtifactCrash(p) \/ PreserveWrite(p)
      PROVE  OnceInv'
  <2>1. Rest(p) /\ UNCHANGED <<artRefs, artThere, artIntent, artAnswers, artBundle>>
    BY <1>4 DEF MutationRefused, ArtifactCrash, PreserveWrite, artElse
  <2>2. ProcAt(p, NoWork) /\ NoWork.pc = "idle"
    BY <1>s, <2>1, ProcMoves, NoWorkOK
  <2> QED BY <2>1, <2>2, RestOnce
<1>5. ASSUME NEW p \in ArtProcs, NEW x, PreserveRead(p, x) PROVE OnceInv'
  <2> DEFINE w == [pc |-> "index", merged |-> artIndex \cup {x}]
  <2>1. artProc' = [artProc EXCEPT ![p] = w] /\ UNCHANGED <<artRefs, artThere, artIntent, artAnswers, artBundle>>
    BY <1>5 DEF PreserveRead, artElse
  <2>2. ProcAt(p, w) /\ w.pc = "index"
    BY <1>s, <2>1, ProcMoves
  <2> HIDE DEF w
  <2> QED BY <2>1, <2>2, RestOnce
<1>6. ASSUME NEW p \in ArtProcs, ArtifactStep(p) PROVE OnceInv'
  BY <1>4, <1>6, PrepareOnce, SignOnce, SaveOnce, CheckOnce, PublishOnce, ConfirmOnce, PromoteOnce, PushSendOnce
     DEF ArtifactStep
<1> QED
  BY <1>2, <1>3, <1>4, <1>5, <1>6, TransferOnce, ExportOnce, PeerSignsOnce, ArtifactCases

LEMMA OnceStutter ==
  ASSUME ArtInv, UNCHANGED artifactVars
  PROVE  OnceInv'
<1>1. UNCHANGED <<artRefs, artThere, artIntent, artProc, artBundle, artAnswers>>
  BY DEF artifactVars
<1> QED
  BY <1>1 DEF ArtInv, OnceInv, OneSource, Keyed, ViewsClosed, IntentsOK, MutationsOK, AnswersOK, World, Top

LEMMA StartedIs ==
  /\ IsChain(Started) /\ ToSet(Started) = {FirstType, FirstOpen} /\ FirstType # FirstOpen
  /\ FirstType.id = <<Me, "type", 1>> /\ FirstOpen.id = <<Me, "open", 1>>
  /\ RequestOK(FirstType.req) /\ RequestOK(FirstOpen.req)
  /\ Closed({FirstType, FirstOpen}, {FirstType, FirstOpen})
<1>1. IsChain(Started) /\ ToSet(Started) = {FirstType, FirstOpen}
  BY DEF Started, IsChain, ToSet
<1>2. FirstType.id = <<Me, "type", 1>> /\ FirstOpen.id = <<Me, "open", 1>>
  BY DEF FirstType, FirstOpen, Artifact
<1>3. /\ FirstType.req.kind = "type.publish" /\ FirstType.req.parents = {} /\ FirstType.req.needs = {}
      /\ FirstType.req.rec = NoID /\ FirstType.req.typ = NoID
  BY DEF FirstType, Artifact, Request
<1>4. /\ FirstOpen.req.kind = "record.open" /\ FirstOpen.req.parents = {} /\ FirstOpen.req.needs = {}
      /\ FirstOpen.req.rec = NoID /\ FirstOpen.req.typ = FirstType.id
  BY DEF FirstOpen, Artifact, Request
<1>5. FirstType.id # FirstOpen.id /\ FirstType.id # NoID
  BY <1>2 DEF NoID
<1>6. FirstType # FirstOpen /\ RequestOK(FirstType.req) /\ RequestOK(FirstOpen.req)
  BY <1>3, <1>4, <1>5 DEF RequestOK
<1> DEFINE W == {FirstType, FirstOpen}
<1>7. Dependencies(FirstType) = {} /\ Dependencies(FirstOpen) = {FirstType.id} /\ FirstType.id \in IDs(W)
  BY <1>3, <1>4, <1>5 DEF Dependencies, IDs
<1>8. TheArt(W, FirstType.id) = FirstType
  <2>1. \A x \in W : x.id = FirstType.id <=> x = FirstType
    BY <1>5
  <2> QED BY <2>1 DEF TheArt
<1>9. Lineage(W, FirstType)
  <2>1. Cardinality({}) = 0
    BY FS_EmptySet
  <2> QED BY <1>3, <2>1 DEF Lineage
<1>10. Lineage(W, FirstOpen)
  BY <1>3, <1>4, <1>8 DEF Lineage, IsRecord
<1>11. Closed(W, W)
  BY <1>7, <1>9, <1>10 DEF Closed
<1> QED
  BY <1>1, <1>2, <1>6, <1>11

LEMMA ArtifactStart ==
  ASSUME ArtifactInit
  PROVE  ArtInv
<1>1. /\ artRefs = [k \in RefNames |-> IF k = Own THEN Started ELSE <<>>] /\ artThere = artRefs
      /\ artBundle = [a \in ArtActors |-> <<>>]
  BY DEF ArtifactInit, Own
<1>2. artProc = [p \in ArtProcs |-> NoWork] /\ artIntent = [o \in ArtOps |-> NoIntent] /\ artAnswers = {}
  BY DEF ArtifactInit
<1>3. /\ Chains(artRefs, RefNames) /\ Chains(artThere, RefNames) /\ Chains(artBundle, ArtActors)
  BY <1>1, StartedIs, EmptyChain DEF Chains
<1>4. \A p \in ArtProcs : artProc[p] = NoWork /\ artProc[p].pc \notin {"promote", "push", "index"}
                          /\ artProc[p].pc \notin Mutating
  BY <1>2 DEF NoWork, Mutating
<1>5. \A o \in ArtOps : artIntent[o].stage = "none"
  BY <1>2 DEF NoIntent
<1>6. GrowInv
  <2>1. ArtShape
    BY <1>2, <1>3, <1>4, <1>5 DEF ArtShape, WorkRecord, IntentRecord
  <2> QED BY <1>4, <2>1 DEF GrowInv, TakesExtend, TakeExtends, IndexHeld
<1>7. Own \in RefNames /\ <<"own", Peer>> \in RefNames /\ <<"own", Peer>> # Own /\ Me # Peer
  BY DEF RefNames, Own, ArtActors, Me, Peer
<1>8. artRefs[Own] = Started /\ Top(Me) = Started /\ Top(Peer) = <<>>
  BY <1>1, <1>7 DEF Top
<1>9. OneSource
  <2>1. \A k \in RefNames : IsPrefix(artRefs[k], Top(k[2]))
    <3>1. \A k \in RefNames : k[2] \in {Me, Peer}
      BY DEF RefNames, ArtActors
    <3>2. Own[2] = Me
      BY DEF Own
    <3> QED BY <1>1, <1>8, <3>1, <3>2, StartedIs, EmptyChain, PrefixRefl
  <2>2. \A a \in ArtActors : IsPrefix(artBundle[a], Top(a))
    BY <1>1, <1>8, StartedIs, EmptyChain DEF ArtActors
  <2> QED BY <1>1, <1>4, <2>1, <2>2 DEF OneSource
<1>10. Keyed
  <2>1. KeyedBy(Me, ToSet(Started))
    <3>1. \A x \in ToSet(Started) : x = FirstType \/ x = FirstOpen
      BY StartedIs
    <3>2. FirstType.id[2] = "type" /\ FirstOpen.id[2] = "open" /\ FirstType.id[1] = Me /\ FirstOpen.id[1] = Me
          /\ FirstType.id = <<FirstType.id[1], FirstType.id[2], FirstType.id[3]>>
          /\ FirstOpen.id = <<FirstOpen.id[1], FirstOpen.id[2], FirstOpen.id[3]>>
      BY StartedIs
    <3> QED BY <3>1, <3>2, StartedIs DEF KeyedBy
  <2>2. KeyedBy(Peer, ToSet(<<>>))
    BY EmptyChain DEF KeyedBy
  <2> QED BY <1>8, <2>1, <2>2 DEF Keyed, ArtActors
<1>11. World = {FirstType, FirstOpen}
  BY <1>8, StartedIs, EmptyChain DEF World
<1>12. Held(artRefs) = {FirstType, FirstOpen}
  <2>1. \A k \in RefNames : ToSet(artRefs[k]) \subseteq {FirstType, FirstOpen}
    BY <1>1, StartedIs, EmptyChain
  <2>2. ToSet(artRefs[Own]) = {FirstType, FirstOpen}
    BY <1>8, StartedIs
  <2> QED BY <1>7, <2>1, <2>2 DEF Held
<1>13. ViewsClosed
  BY <1>4, <1>11, <1>12, StartedIs DEF ViewsClosed
<1>14. IntentsOK
  <2>1. \A x \in ToSet(artRefs[Own]) : x.id[2] \notin ArtOps
    <3>1. "type" \notin ArtOps /\ "open" \notin ArtOps
      BY ArtifactAssumption DEF ArtOps
    <3> QED BY <1>8, <3>1, StartedIs
  <2> QED BY <1>5, <2>1 DEF IntentsOK, IntentOK
<1>15. MutationsOK /\ AnswersOK
  BY <1>2, <1>4 DEF MutationsOK, AnswersOK
<1> QED
  BY <1>6, <1>9, <1>10, <1>13, <1>14, <1>15 DEF ArtInv, OnceInv

LEMMA SavesAlways ==
  ASSUME ArtInv
  PROVE  GrowInv /\ Saves
<1>1. ASSUME NEW p \in ArtProcs, artProc[p].pc = "save" PROVE artIntent[artProc[p].op].stage # "none"
  BY <1>1 DEF ArtInv, OnceInv, MutationsOK, MutationOK, Mutating
<1> QED
  BY <1>1 DEF Saves, ArtInv

LEMMA ArtifactKeeps ==
  ASSUME ArtInv, [ArtifactNext \/ OpaqueNext]_artifactVars
  PROVE  ArtInv' /\ Kept
<1>1. CASE ArtifactNext \/ OpaqueNext
  BY <1>1, SavesAlways, GrowStep, OnceStep DEF ArtInv
<1>2. CASE UNCHANGED artifactVars
  BY <1>2, SavesAlways, GrowStutter, OnceStutter DEF ArtInv
<1> QED
  BY <1>1, <1>2

\* Whatever processes do in the clone, however transfers interleave and wherever a
\* process dies, an operation key stands for one signed artifact and the accepted
\* view loads (artifact_store.go appendArtifact, artifact_read.go validate).
THEOREM KeyStandsForOne == ArtifactSpec => []OneArtifactPerOperation
<1>1. ArtifactInit => ArtInv
  BY ArtifactStart
<1>2. ArtInv /\ [ArtifactNext \/ OpaqueNext]_artifactVars => ArtInv'
  BY ArtifactKeeps
<1>3. ArtInv => OneArtifactPerOperation
  <2> SUFFICES ASSUME ArtInv PROVE OneArtifactPerOperation
    OBVIOUS
  <2>1. Loads(artRefs)
    BY WorldFacts
  <2>2. AnswersOK
    BY DEF ArtInv, OnceInv
  <2>3. \A s, t \in artAnswers : s.op = t.op => s.id = t.id
    BY <2>2 DEF AnswersOK
  <2> QED BY <2>1, <2>2, <2>3 DEF OneArtifactPerOperation, AnswersOK
<1> QED
  BY <1>1, <1>2, <1>3, PTL DEF ArtifactSpec

\* No ref of the clone or of the peer moves back or aside, and the opaque index
\* forgets nothing (artifact_exchange.go importArtifactExchange,
\* preserveArtifactExchange, artifact_replication.go).
THEOREM NothingLost == ArtifactSpec => NothingAcceptedLost
<1>1. ArtifactInit => ArtInv
  BY ArtifactStart
<1>2. ArtInv /\ [ArtifactNext \/ OpaqueNext]_artifactVars => ArtInv'
  BY ArtifactKeeps
<1>3. ArtInv /\ [ArtifactNext \/ OpaqueNext]_artifactVars
        => [/\ \A k \in RefNames : IsPrefix(artRefs[k], artRefs'[k]) /\ IsPrefix(artThere[k], artThere'[k])
            /\ artIndex \subseteq artIndex']_artifactVars
  BY ArtifactKeeps DEF Kept
<1> QED
  BY <1>1, <1>2, <1>3, PTL DEF ArtifactSpec, NothingAcceptedLost

----------------------------------------------------------------------------
(* Moderation: what the work list computes. *)

\* Steps from 0 to N, through a least number they do not reach.
LEMMA UpTo ==
  ASSUME NEW N \in Nat, NEW T, 0 \in T, \A n \in 0..N : n \in T /\ n < N => n + 1 \in T
  PROVE  \A n \in 0..N : n \in T
<1> DEFINE B == {n \in 0..N : n \notin T}
<1>1. SUFFICES ASSUME B # {} PROVE FALSE
  OBVIOUS
<1>2. B \subseteq Nat
  OBVIOUS
<1>3. PICK b \in B : \A c \in B : b <= c
  <2> HIDE DEF B
  <2> QED BY <1>1, <1>2, LeastNumber
<1>4. b \in 1..N /\ b - 1 \in 0..N /\ b - 1 < N
  BY <1>3
<1>5. b - 1 \in T
  BY <1>3, <1>4
<1>6. b - 1 + 1 \in T
  BY <1>4, <1>5
<1> QED
  BY <1>3, <1>4, <1>6

Spread(A, G) == {x \in A : DependsOnHidden(x, A, G)}
Spreading(g, A, H, n) ==
  g = [m \in 0..n |-> IF m = 0 THEN H ELSE g[m - 1] \cup Spread(A, g[m - 1])]

LEMMA SpreadingExists ==
  ASSUME NEW A, NEW H, NEW N \in Nat
  PROVE  \E g : Spreading(g, A, H, N)
<1> DEFINE T == {n \in 0..N : \E g : Spreading(g, A, H, n)}
<1>1. 0 \in T
  <2> DEFINE g == [m \in 0..0 |-> H]
  <2>1. g = [m \in 0..0 |-> IF m = 0 THEN H ELSE g[m - 1] \cup Spread(A, g[m - 1])]
    OBVIOUS
  <2>2. Spreading(g, A, H, 0)
    BY <2>1 DEF Spreading
  <2> HIDE DEF g
  <2> QED BY <2>2
<1>2. ASSUME NEW n \in 0..N, n \in T, n < N PROVE n + 1 \in T
  <2>1. PICK f : Spreading(f, A, H, n)
    BY <1>2
  <2> DEFINE g == [m \in 0..(n + 1) |-> IF m = 0 THEN H ELSE f[m - 1] \cup Spread(A, f[m - 1])]
  <2>2. \A m \in 0..n : f[m] = IF m = 0 THEN H ELSE f[m - 1] \cup Spread(A, f[m - 1])
    BY <2>1 DEF Spreading
  <2>3. \A m \in 0..(n + 1) : g[m] = IF m = 0 THEN H ELSE f[m - 1] \cup Spread(A, f[m - 1])
    OBVIOUS
  <2>4. \A m \in 0..n : g[m] = f[m]
    <3> HIDE DEF g
    <3>1. \A m \in 0..n : m \in 0..(n + 1)
      OBVIOUS
    <3>2. ASSUME NEW m \in 0..n PROVE g[m] = f[m]
      <4>1. g[m] = IF m = 0 THEN H ELSE f[m - 1] \cup Spread(A, f[m - 1])
        BY <2>3, <3>1
      <4> QED BY <2>2, <4>1
    <3> QED BY <3>2
  <2>5. \A m \in 1..(n + 1) : m - 1 \in 0..n
    OBVIOUS
  <2>6. \A m \in 0..(n + 1) : g[m] = IF m = 0 THEN H ELSE g[m - 1] \cup Spread(A, g[m - 1])
    <3> HIDE DEF g
    <3> SUFFICES ASSUME NEW m \in 0..(n + 1), m # 0 PROVE g[m] = g[m - 1] \cup Spread(A, g[m - 1])
      BY <2>3
    <3>1. g[m - 1] = f[m - 1]
      BY <2>4, <2>5
    <3> QED BY <2>3, <3>1
  <2>7. g = [m \in 0..(n + 1) |-> g[m]]
    OBVIOUS
  <2> HIDE DEF g
  <2>8. g = [m \in 0..(n + 1) |-> IF m = 0 THEN H ELSE g[m - 1] \cup Spread(A, g[m - 1])]
    BY <2>6, <2>7
  <2>9. Spreading(g, A, H, n + 1)
    BY <2>8 DEF Spreading
  <2>10. n + 1 \in 0..N
    BY <1>2
  <2> QED BY <2>9, <2>10
<1> HIDE DEF T
<1>3. N \in T
  BY <1>1, <1>2, UpTo
<1> QED
  BY <1>3 DEF T

\* The rounds of the work list.
Rounds(g, A, H, N) ==
  /\ Propagate(A, H) = g[N] /\ g[0] = H
  /\ \A n \in 1..N : g[n] = g[n - 1] \cup Spread(A, g[n - 1])

LEMMA PropagateIs ==
  ASSUME NEW A, NEW H, Cardinality(A) \in Nat
  PROVE  \E g : Rounds(g, A, H, Cardinality(A))
<1> DEFINE N == Cardinality(A)
           gone == CHOOSE g : g = [n \in 0..N |-> IF n = 0 THEN H
                     ELSE g[n - 1] \cup {x \in A : DependsOnHidden(x, A, g[n - 1])}]
<1>1. Propagate(A, H) = gone[N]
  BY DEF Propagate
<1>2. \E g : g = [n \in 0..N |-> IF n = 0 THEN H
                     ELSE g[n - 1] \cup {x \in A : DependsOnHidden(x, A, g[n - 1])}]
  <2>1. PICK g : Spreading(g, A, H, N)
    BY SpreadingExists
  <2>2. g = [n \in 0..N |-> IF n = 0 THEN H
                     ELSE g[n - 1] \cup {x \in A : DependsOnHidden(x, A, g[n - 1])}]
    BY <2>1 DEF Spreading, Spread
  <2> QED BY <2>2
<1>3. gone = [n \in 0..N |-> IF n = 0 THEN H
                     ELSE gone[n - 1] \cup {x \in A : DependsOnHidden(x, A, gone[n - 1])}]
  BY <1>2
<1> HIDE DEF gone
<1>4. gone = [n \in 0..N |-> IF n = 0 THEN H ELSE gone[n - 1] \cup Spread(A, gone[n - 1])]
  BY <1>3 DEF Spread
<1>5. gone[0] = H /\ \A n \in 1..N : gone[n] = gone[n - 1] \cup Spread(A, gone[n - 1])
  <2>1. \A n \in 0..N : gone[n] = IF n = 0 THEN H ELSE gone[n - 1] \cup Spread(A, gone[n - 1])
    BY <1>4
  <2>2. N \in Nat
    OBVIOUS
  <2> HIDE DEF N
  <2>3. 0 \in 0..N /\ \A n \in 1..N : n \in 0..N /\ n # 0
    BY <2>2
  <2> QED BY <2>1, <2>3
<1>6. Rounds(gone, A, H, N)
  BY <1>1, <1>5 DEF Rounds
<1> QED
  BY <1>6

LEMMA SpreadSettles ==
  ASSUME NEW A, IsFiniteSet(A), NEW H, H \subseteq A
  PROVE  LET G == Propagate(A, H)
         IN  /\ H \subseteq G /\ G \subseteq A /\ Spread(A, G) \subseteq G
             /\ \A S : S \cap H = {} /\ (\A U : S \cap U = {} => S \cap Spread(A, U) = {}) => S \cap G = {}
<1> DEFINE N == Cardinality(A)
<1>1. N \in Nat
  BY FS_CardinalityType
<1>r. PICK g : Rounds(g, A, H, N)
  BY <1>1, PropagateIs
<1>2. /\ Propagate(A, H) = g[N] /\ g[0] = H
      /\ \A n \in 1..N : g[n] = g[n - 1] \cup Spread(A, g[n - 1])
  BY <1>r DEF Rounds
<1> HIDE DEF N
<1>3. \A n \in 0..N : n < N => n + 1 \in 1..N /\ n + 1 - 1 = n
  BY <1>1
<1>4. \A n \in 0..N : n < N => g[n + 1] = g[n] \cup Spread(A, g[n])
  BY <1>2, <1>3
<1>5. \A U : Spread(A, U) \subseteq A
  BY DEF Spread
<1>6. \A n \in 0..N : H \subseteq g[n] /\ g[n] \subseteq A
  <2> DEFINE T == {n \in 0..N : H \subseteq g[n] /\ g[n] \subseteq A}
  <2>1. 0 \in T
    BY <1>1, <1>2
  <2>2. \A n \in 0..N : n \in T /\ n < N => n + 1 \in T
    BY <1>1, <1>4, <1>5
  <2> HIDE DEF T
  <2>3. \A n \in 0..N : n \in T
    BY <1>1, <2>1, <2>2, UpTo
  <2> QED BY <2>3 DEF T
<1>7. \A n \in 0..N : IsFiniteSet(g[n]) /\ Cardinality(g[n]) \in Nat
  BY <1>6, FS_Subset, FS_CardinalityType
<1>8. \A n \in 0..N : Spread(A, g[n]) \subseteq g[n] \/ Cardinality(g[n]) >= n
  <2> DEFINE T == {n \in 0..N : Spread(A, g[n]) \subseteq g[n] \/ Cardinality(g[n]) >= n}
  <2>1. 0 \in T
    BY <1>1, <1>7
  <2>2. ASSUME NEW n \in 0..N, n \in T, n < N PROVE n + 1 \in T
    <3>1. n + 1 \in 0..N /\ g[n + 1] = g[n] \cup Spread(A, g[n])
      BY <1>1, <1>4, <2>2
    <3>2. CASE Spread(A, g[n]) \subseteq g[n]
      <4>1. g[n + 1] = g[n]
        BY <3>1, <3>2
      <4> QED BY <3>1, <3>2, <4>1
    <3>3. CASE ~(Spread(A, g[n]) \subseteq g[n])
      <4>1. Cardinality(g[n]) >= n /\ g[n] \subseteq g[n + 1] /\ g[n] # g[n + 1]
        BY <2>2, <3>1, <3>3
      <4>2. Cardinality(g[n]) <= Cardinality(g[n + 1]) /\ (Cardinality(g[n]) = Cardinality(g[n + 1]) => g[n] = g[n + 1])
        BY <1>7, <3>1, <4>1, FS_Subset
      <4>3. Cardinality(g[n]) \in Nat /\ Cardinality(g[n + 1]) \in Nat
        BY <1>7, <3>1
      <4>4. Cardinality(g[n + 1]) >= n + 1
        BY <4>1, <4>2, <4>3
      <4> QED BY <3>1, <4>4
    <3> QED BY <3>2, <3>3
  <2> HIDE DEF T
  <2>3. \A n \in 0..N : n \in T
    BY <1>1, <2>1, <2>2, UpTo
  <2> QED BY <2>3 DEF T
<1> DEFINE G == g[N]
<1>9. N \in 0..N
  BY <1>1
<1>10. Spread(A, G) \subseteq G
  <2>1. CASE Cardinality(G) >= N
    <3>1. G \subseteq A /\ Cardinality(G) \in Nat
      BY <1>6, <1>7, <1>9
    <3>2. Cardinality(G) <= N /\ (Cardinality(G) = N => G = A)
      BY <3>1, FS_Subset DEF N
    <3>3. G = A
      BY <1>1, <2>1, <3>1, <3>2
    <3> QED BY <1>5, <3>3
  <2> QED BY <1>8, <1>9, <2>1
<1>11. ASSUME NEW S, S \cap H = {}, \A U : S \cap U = {} => S \cap Spread(A, U) = {}
       PROVE  S \cap G = {}
  <2> DEFINE T == {n \in 0..N : S \cap g[n] = {}}
  <2>1. 0 \in T
    BY <1>1, <1>2, <1>11
  <2>2. ASSUME NEW n \in 0..N, n \in T, n < N PROVE n + 1 \in T
    <3>1. n + 1 \in 0..N /\ g[n + 1] = g[n] \cup Spread(A, g[n])
      BY <1>1, <1>4, <2>2
    <3>2. S \cap g[n] = {} /\ S \cap Spread(A, g[n]) = {}
      BY <1>11, <2>2
    <3> QED BY <3>1, <3>2
  <2> HIDE DEF T
  <2>3. N \in T
    BY <1>1, <1>9, <2>1, <2>2, UpTo
  <2> QED BY <2>3 DEF T
<1>12. H \subseteq G /\ G \subseteq A
  BY <1>6, <1>9
<1> QED
  BY <1>2, <1>10, <1>11, <1>12

\* Of an admitted set closed under references.
LEMMA GreatestOf ==
  ASSUME NEW A, IsFiniteSet(A), NEW H, H \subseteq A,
         \A x \in A : \A q \in MdFact[x].refs : q.kind = "revision" => q.id \in A,
         NEW v, v.admitted = A, v.hidden = H, v.visible = A \ Propagate(A, H)
  PROVE  v.visible = UNION {S \in SUBSET v.admitted : SelfConsistent(v, S)}
<1> DEFINE G == Propagate(A, H)
<1>1. /\ H \subseteq G /\ G \subseteq A /\ Spread(A, G) \subseteq G
      /\ \A S : S \cap H = {} /\ (\A U : S \cap U = {} => S \cap Spread(A, U) = {}) => S \cap G = {}
  BY SpreadSettles
<1> HIDE DEF G
<1>2. SelfConsistent(v, A \ G)
  <2> SUFFICES ASSUME NEW x \in A \ G
               PROVE  /\ x \notin H
                      /\ \A q \in MdFact[x].refs :
                           IF q.kind = "revision" THEN q.id \in A \ G
                           ELSE RootHeads(A, q.id) # {} /\ RootHeads(A, q.id) \subseteq A \ G
    BY DEF SelfConsistent
  <2>1. x \notin H /\ ~DependsOnHidden(x, A, G)
    BY <1>1 DEF Spread
  <2>2. ASSUME NEW q \in MdFact[x].refs
        PROVE  IF q.kind = "revision" THEN q.id \in A \ G
               ELSE RootHeads(A, q.id) # {} /\ RootHeads(A, q.id) \subseteq A \ G
    <3>1. CASE q.kind = "revision"
      BY <2>1, <2>2, <3>1 DEF DependsOnHidden
    <3>2. CASE q.kind # "revision"
      <4>1. RootHeads(A, q.id) \cap G = {} /\ RootHeads(A, q.id) # {}
        BY <2>1, <2>2, <3>2 DEF DependsOnHidden
      <4>2. RootHeads(A, q.id) \subseteq A
        BY DEF RootHeads
      <4> QED BY <3>2, <4>1, <4>2
    <3> QED BY <3>1, <3>2
  <2> QED BY <2>1, <2>2
<1>3. ASSUME NEW S \in SUBSET A, SelfConsistent(v, S) PROVE S \subseteq A \ G
  <2>1. S \cap H = {}
    BY <1>3 DEF SelfConsistent
  <2>2. ASSUME NEW U, S \cap U = {}, NEW x \in S, x \in Spread(A, U) PROVE FALSE
    <3>1. PICK q \in MdFact[x].refs : IF q.kind = "revision" THEN q.id \in U
                                     ELSE RootHeads(A, q.id) \cap U # {} \/ RootHeads(A, q.id) = {}
      BY <2>2 DEF Spread, DependsOnHidden
    <3>2. IF q.kind = "revision" THEN q.id \in S
          ELSE RootHeads(A, q.id) # {} /\ RootHeads(A, q.id) \subseteq S
      BY <1>3, <2>2, <3>1 DEF SelfConsistent
    <3> QED BY <2>2, <3>1, <3>2
  <2>3. S \cap G = {}
    BY <1>1, <2>1, <2>2
  <2> QED BY <2>3
<1>4. v.visible = A \ G
  BY DEF G
<1> QED
  BY <1>2, <1>3, <1>4

LEMMA AdmittedCloses ==
  ASSUME NEW C, C \subseteq Revisions
  PROVE  /\ IsFiniteSet(AdmittedOf(C))
         /\ \A x \in AdmittedOf(C) : \A q \in MdFact[x].refs : q.id \in AdmittedOf(C)
<1>1. AdmittedOf(C) \subseteq C
  BY DEF AdmittedOf
<1>2. IsFiniteSet(AdmittedOf(C))
  BY <1>1, ModerationAssumption, FS_Subset DEF Revisions
<1>3. ASSUME NEW x \in AdmittedOf(C), NEW q \in MdFact[x].refs PROVE q.id \in AdmittedOf(C)
  <2>1. PICK T \in SUBSET C : x \in T /\ \A y \in T : Deps(y) \subseteq T
    BY DEF AdmittedOf
  <2>2. q.id \in Deps(x)
    BY DEF Deps, RefIDs
  <2>3. q.id \in T
    BY <2>1, <2>2
  <2> QED BY <2>1, <2>3 DEF AdmittedOf
<1> QED
  BY <1>2, <1>3

LEMMA ReduceIs ==
  ASSUME NEW R
  PROVE  \E C \in SUBSET Revisions : \E H \in SUBSET AdmittedOf(C) :
           /\ Reduce(R).admitted = AdmittedOf(C) /\ Reduce(R).hidden = H
           /\ Reduce(R).visible = AdmittedOf(C) \ Propagate(AdmittedOf(C), H)
<1>1. \A heads, blocked, received, A :
        LET H == {x \in A : Hides(On(heads, "revision", x))}
            v == WithAdmitted(heads, blocked, received, A)
        IN  v.admitted = A /\ v.hidden = H /\ v.visible = A \ Propagate(A, H)
  BY DEF WithAdmitted, ViewOf
<1>2. PICK heads, blocked, received, C :
         C \in SUBSET Revisions /\ Reduce(R) = WithAdmitted(heads, blocked, received, AdmittedOf(C))
  BY DEF Reduce, WithDecisions, WithReceipts, WithHeads, WithBlocked, Facts
<1> DEFINE H == {x \in AdmittedOf(C) : Hides(On(heads, "revision", x))}
<1>3. /\ Reduce(R).admitted = AdmittedOf(C) /\ Reduce(R).hidden = H
      /\ Reduce(R).visible = AdmittedOf(C) \ Propagate(AdmittedOf(C), H)
  BY <1>1, <1>2
<1>4. H \in SUBSET AdmittedOf(C)
  OBVIOUS
<1> HIDE DEF H
<1> QED
  BY <1>2, <1>3, <1>4

\* Whatever records a clone holds, in every state of the policy branch, what its
\* reduction shows is the greatest visibility fixed point (internal/contribution/
\* model.go Reduce).
THEOREM ShownIsGreatest == ModerationSpec => []VisibleIsGreatest
<1>1. VisibleIsGreatest
  <2> SUFFICES ASSUME NEW R
               PROVE  Reduce(R).visible = UNION {S \in SUBSET Reduce(R).admitted : SelfConsistent(Reduce(R), S)}
    BY DEF VisibleIsGreatest
  <2>1. PICK C \in SUBSET Revisions : \E H \in SUBSET AdmittedOf(C) :
           /\ Reduce(R).admitted = AdmittedOf(C) /\ Reduce(R).hidden = H
           /\ Reduce(R).visible = AdmittedOf(C) \ Propagate(AdmittedOf(C), H)
    BY ReduceIs
  <2> DEFINE A == AdmittedOf(C)
             v == Reduce(R)
  <2>2. PICK H \in SUBSET A : v.admitted = A /\ v.hidden = H /\ v.visible = A \ Propagate(A, H)
    BY <2>1
  <2>3. IsFiniteSet(A) /\ \A x \in A : \A q \in MdFact[x].refs : q.id \in A
    BY AdmittedCloses
  <2> HIDE DEF A, v
  <2>4. v.visible = UNION {S \in SUBSET v.admitted : SelfConsistent(v, S)}
    BY <2>2, <2>3, GreatestOf
  <2> QED BY <2>4 DEF v
<1> QED
  BY <1>1, PTL

----------------------------------------------------------------------------
(* Moderation: what ends a block.  Records only arrive; a decision that     *)
(* counts keeps counting, and among those that come to count one is under   *)
(* no other.                                                                *)

AllDecisions == UNION {Decisions_(mdRecs[k]) : k \in MdClones}

\* Decisions are signed over decisions that are there, so no set of them is all
\* parents of its own members.
Grounded(A) ==
  /\ \A d \in A : d.parents \subseteq A /\ d.action \in ActionsOn(d.target.kind)
  /\ \A S \in SUBSET A : S # {} => \E d \in S : \A e \in S : d \notin e.parents

ModerationInv ==
  /\ mdRecs = [c \in MdClones |-> mdRecs[c]]
  /\ Grounded(AllDecisions)

LEMMA GroundedAdds ==
  ASSUME NEW A, Grounded(A), NEW d, d \notin A, d.parents \subseteq A,
         d.action \in ActionsOn(d.target.kind)
  PROVE  Grounded(A \cup {d})
<1>1. \A e \in A \cup {d} : e.parents \subseteq A /\ e.action \in ActionsOn(e.target.kind)
  BY DEF Grounded
<1>2. ASSUME NEW S \in SUBSET (A \cup {d}), S # {}
      PROVE  \E f \in S : \A e \in S : f \notin e.parents
  <2>1. CASE d \in S
    BY <1>1, <2>1
  <2>2. CASE d \notin S
    <3>1. S \in SUBSET A
      BY <2>2
    <3> QED BY <1>2, <3>1 DEF Grounded
  <2> QED BY <2>1, <2>2
<1> QED BY <1>1, <1>2 DEF Grounded

\* What the reduction of R says of blocks: the effective decisions on an actor,
\* and the heads among them.
OnActor(R, a) == {d \in ValidDecisions(R) : Effective(d) /\ d.target = Target("actor", a)}
ActorHeads(R, a) == OnActor(R, a) \ UNION {d.parents : d \in OnActor(R, a)}

\* A decision that counts has the decisions it was signed over, on its target.
LEMMA ParentsCount ==
  ASSUME NEW R, NEW d \in ValidDecisions(R), NEW p \in d.parents
  PROVE  p \in ValidDecisions(R) /\ p.target = d.target
<1>1. PICK T \in SUBSET SoundDecisions(R) : d \in T /\ \A e \in T : e.parents \subseteq T
  BY DEF ValidDecisions
<1>2. p \in T /\ p \in SoundDecisions(R)
  BY <1>1
<1>3. p \in ValidDecisions(R)
  BY <1>1, <1>2 DEF ValidDecisions
<1>4. Sound(R, d)
  BY <1>1 DEF SoundDecisions
<1> QED BY <1>3, <1>4 DEF Sound

LEMMA BlockedIs ==
  ASSUME NEW R
  PROVE  /\ Reduce(R).blocked = {a \in MdActors : Blocks(ActorHeads(R, a))}
         /\ \A d \in Reduce(R).heads : d \in ValidDecisions(R)
<1> DEFINE valid == ValidDecisions(R)
           received == {r \in ValidReceipts(R, valid) : Effective(r)}
           group == Group(valid, received)
           heads == HeadsOf(group)
<1>1. \A h, b, r, A : WithAdmitted(h, b, r, A).blocked = b /\ WithAdmitted(h, b, r, A).heads = h
  BY DEF WithAdmitted, ViewOf
<1>2. /\ Reduce(R).blocked = {a \in MdActors : Blocks(On(heads, "actor", a))}
      /\ Reduce(R).heads = heads
  BY <1>1 DEF Reduce, WithDecisions, WithReceipts, WithHeads, WithBlocked
<1>3. group \subseteq valid
  BY DEF Group
<1>4. \A a : OnActor(R, a) = {d \in group : d.target = Target("actor", a)}
  BY DEF OnActor, Group, Target
<1>5. \A d \in group : \A p \in d.parents : p.target = d.target
  BY <1>3, ParentsCount
<1> HIDE DEF group
<1>6. \A a : On(heads, "actor", a) = ActorHeads(R, a)
  BY <1>4, <1>5 DEF On, HeadsOf, ActorHeads
<1>7. heads \subseteq valid
  BY <1>3 DEF HeadsOf
<1> HIDE DEF heads
<1> QED BY <1>2, <1>6, <1>7

\* Without a clash, what counts among fewer records counts among more.
LEMMA CountingKept ==
  ASSUME NEW R, NEW S, R \subseteq S, IntentClash(R) = IntentClash(S)
  PROVE  ValidDecisions(R) \subseteq ValidDecisions(S)
<1>1. Submitted(R) \subseteq Submitted(S)
  BY DEF Submitted, ValidSubmissions, OfKind
<1>2. ASSUME NEW d \in SoundDecisions(R) PROVE d \in SoundDecisions(S)
  <2>1. d \in Decisions_(R) /\ d \notin IntentClash(R) /\ Sound(R, d)
    BY DEF SoundDecisions
  <2>2. TargetKnown(R, d.target) => TargetKnown(S, d.target)
    BY <1>1 DEF TargetKnown
  <2>3. d \in Decisions_(S)
    BY <2>1 DEF Decisions_, OfKind
  <2>4. TargetKnown(S, d.target)
    BY <2>1, <2>2 DEF Sound
  <2>5. Sound(S, d)
    BY <2>1, <2>4 DEF Sound
  <2> QED BY <2>1, <2>3, <2>5 DEF SoundDecisions
<1> QED BY <1>2 DEF ValidDecisions

\* The end of a block, over any two sets of records.
LEMMA BlockEnds ==
  ASSUME NEW R, NEW S, R \subseteq S, IntentClash(R) = IntentClash(S),
         NEW A, Grounded(A), Decisions_(S) \subseteq A,
         NEW a \in Reduce(R).blocked, a \notin Reduce(S).blocked
  PROVE  \E d \in ValidDecisions(S) \ ValidDecisions(R) :
           d.action = "unblock" /\ d.target = Target("actor", a)
<1>1. a \in MdActors /\ Blocks(ActorHeads(R, a)) /\ ~Blocks(ActorHeads(S, a))
  BY BlockedIs
<1>2. ValidDecisions(R) \subseteq ValidDecisions(S)
  BY CountingKept
<1> DEFINE new == OnActor(S, a) \ OnActor(R, a)
<1>3. OnActor(R, a) \subseteq OnActor(S, a)
  BY <1>2 DEF OnActor
<1>4. new # {}
  <2> SUFFICES ASSUME new = {} PROVE FALSE
    OBVIOUS
  <2>1. OnActor(S, a) = OnActor(R, a)
    BY <1>3
  <2> QED BY <1>1, <2>1 DEF ActorHeads
<1>5. new \in SUBSET A
  BY DEF OnActor, ValidDecisions, SoundDecisions
<1>6. PICK d \in new : \A e \in new : d \notin e.parents
  <2> HIDE DEF new
  <2> QED BY <1>4, <1>5 DEF Grounded
<1>7. d \in ValidDecisions(S) /\ d \notin ValidDecisions(R) /\ Effective(d) /\ d.target = Target("actor", a)
  BY <1>6 DEF OnActor
<1>8. \A e \in OnActor(R, a) : d \notin e.parents
  BY <1>7, ParentsCount DEF OnActor
<1>9. d \in ActorHeads(S, a)
  BY <1>6, <1>8 DEF ActorHeads
<1>10. d.action # "block"
  BY <1>1, <1>9 DEF Blocks, Says
<1>11. d.action \in ActionsOn(d.target.kind) /\ d.target.kind = "actor"
  BY <1>5, <1>6, <1>7 DEF Grounded, Target
<1>12. d.action = "unblock"
  BY <1>10, <1>11 DEF ActionsOn
<1> QED BY <1>7, <1>12

\* What enters a clone's records: none but these become decisions somewhere.
LEMMA StoreAdds ==
  ASSUME ModerationInv, NEW c \in MdClones, NEW recs, Store(c, recs)
  PROVE  /\ mdRecs' = [k \in MdClones |-> mdRecs'[k]]
         /\ \A k \in MdClones : mdRecs[k] \subseteq mdRecs'[k]
         /\ AllDecisions' = AllDecisions \cup Decisions_(recs)
<1>1. mdRecs' = [k \in MdClones |-> IF k = c THEN mdRecs[k] \cup recs ELSE mdRecs[k]]
  BY DEF Store, ModerationInv
<1>2. \A X, Y : Decisions_(X \cup Y) = Decisions_(X) \cup Decisions_(Y)
  BY DEF Decisions_, OfKind
<1>3. mdRecs'[c] = mdRecs[c] \cup recs /\ \A k \in MdClones : k # c => mdRecs'[k] = mdRecs[k]
  BY <1>1
<1>4. Decisions_(mdRecs'[c]) = Decisions_(mdRecs[c]) \cup Decisions_(recs)
  BY <1>2, <1>3
<1>5. AllDecisions' = UNION {Decisions_(mdRecs'[k]) : k \in MdClones}
  BY DEF AllDecisions, Decisions_, OfKind
<1>6. AllDecisions' = AllDecisions \cup Decisions_(recs)
  <2>1. ASSUME NEW d PROVE d \in AllDecisions' <=> d \in AllDecisions \cup Decisions_(recs)
    <3>1. d \in AllDecisions' <=> \E k \in MdClones : d \in Decisions_(mdRecs'[k])
      BY <1>5
    <3>2. d \in AllDecisions <=> \E k \in MdClones : d \in Decisions_(mdRecs[k])
      BY DEF AllDecisions
    <3> QED BY <1>3, <1>4, <3>1, <3>2
  <2> QED BY <2>1
<1> QED BY <1>1, <1>3, <1>6

\* Submissions and receipts are no decisions, and what another clone holds is
\* signed already.
LEMMA StoreGrounded ==
  ASSUME ModerationInv, NEW c \in MdClones, NEW recs, Store(c, recs),
         Decisions_(recs) \subseteq AllDecisions
  PROVE  ModerationInv'
<1>1. mdRecs' = [k \in MdClones |-> mdRecs'[k]] /\ AllDecisions' = AllDecisions
  BY StoreAdds
<1> QED BY <1>1 DEF ModerationInv

LEMMA DecideGrounded ==
  ASSUME ModerationInv, NEW c \in MdClones, NEW v, v = Reduce(mdRecs[c]), NEW t, NEW i,
         NEW action \in ActionsOn(t.kind), Decide(c, v, action, t, i)
  PROVE  ModerationInv'
<1> DEFINE d == Decision(MdIdentity[c], action, t, Now, On(v.heads, t.kind, t.id), i)
<1>1. Store(c, {d})
  BY DEF Decide
<1>2. d.parents = On(v.heads, t.kind, t.id) /\ d.action = action /\ d.target = t /\ d.kind = "decision"
  BY DEF Decision
<1> HIDE DEF d
<1>3. v.heads \subseteq ValidDecisions(mdRecs[c])
  BY BlockedIs
<1>4. d.parents \subseteq AllDecisions
  BY <1>2, <1>3 DEF On, AllDecisions, ValidDecisions, SoundDecisions
<1>5. Decisions_({d}) = {d}
  BY <1>2 DEF Decisions_, OfKind
<1>6. mdRecs' = [k \in MdClones |-> mdRecs'[k]] /\ AllDecisions' = AllDecisions \cup {d}
  BY <1>1, <1>5, StoreAdds
<1>7. CASE d \in AllDecisions
  BY <1>6, <1>7 DEF ModerationInv
<1>8. CASE d \notin AllDecisions
  BY <1>2, <1>4, <1>6, <1>8, GroundedAdds DEF ModerationInv
<1> QED BY <1>7, <1>8

LEMMA ModerationKeeps ==
  ASSUME ModerationInv, ModerationNext
  PROVE  ModerationInv' /\ \A k \in MdClones : mdRecs[k] \subseteq mdRecs'[k]
<1>r. ASSUME NEW m, NEW v, NEW x
      PROVE  Decisions_({Submission(x)}) = {} /\ Decisions_({NewReceipt(v, m, x)}) = {}
             /\ Decisions_({Submission(x), NewReceipt(v, m, x)}) = {}
  BY DEF Decisions_, OfKind, Submission, NewReceipt, Receipt
<1>1. ASSUME NEW c \in MdClones, NEW x, NEW v,
             Retain(c, x) \/ SignReceipt(c, v, x) \/ LocalWrite(c, v, x)
      PROVE  ModerationInv' /\ \A k \in MdClones : mdRecs[k] \subseteq mdRecs'[k]
  <2>1. PICK recs : Store(c, recs) /\ Decisions_(recs) = {}
    BY <1>r, <1>1 DEF Retain, SignReceipt, LocalWrite
  <2> QED BY <2>1, StoreAdds, StoreGrounded
<1>2. ASSUME NEW c \in MdClones, NEW v, v = Reduce(mdRecs[c]), NEW t, NEW i,
             NEW action \in ActionsOn(t.kind), Decide(c, v, action, t, i)
      PROVE  ModerationInv' /\ \A k \in MdClones : mdRecs[k] \subseteq mdRecs'[k]
  <2>1. ModerationInv'
    BY <1>2, DecideGrounded
  <2>2. PICK recs : Store(c, recs)
    BY <1>2 DEF Decide
  <2> QED BY <2>1, <2>2, StoreAdds
<1>3. ASSUME NEW c \in MdClones, NEW d \in MdClones, NEW a, AdmitRecords(c, d, a)
      PROVE  ModerationInv' /\ \A k \in MdClones : mdRecs[k] \subseteq mdRecs'[k]
  <2>1. PICK recs \in SUBSET mdRecs[c] : Store(d, recs)
    BY <1>3 DEF AdmitRecords
  <2>2. Decisions_(recs) \subseteq AllDecisions
    BY DEF Decisions_, OfKind, AllDecisions
  <2> QED BY <2>1, <2>2, StoreAdds, StoreGrounded
<1>4. ASSUME UNCHANGED mdRecs
      PROVE  ModerationInv' /\ \A k \in MdClones : mdRecs[k] \subseteq mdRecs'[k]
  BY <1>4 DEF ModerationInv, AllDecisions
<1>5. ASSUME NEW c \in MdClones, NEW v, v = Reduce(mdRecs[c]), AtClone(c, v)
      PROVE  ModerationInv' /\ \A k \in MdClones : mdRecs[k] \subseteq mdRecs'[k]
  BY <1>1, <1>2, <1>4, <1>5 DEF AtClone, Readopt, RegisterRetained
<1> QED BY <1>3, <1>4, <1>5 DEF ModerationNext, PolicyChange

\* Under one policy a block ends only by an unblock that comes to count, for any
\* moderators, clones and order of arrival: Reduce takes only the heads among
\* valid decisions, and a decision becomes valid with its parents.
THEOREM UnblockEndsBlock == ModerationSpec => BlockEndsByUnblock
<1>1. ModerationInit => ModerationInv
  <2> SUFFICES ASSUME ModerationInit PROVE ModerationInv
    OBVIOUS
  <2>1. mdRecs = [c \in MdClones |-> {}]
    BY DEF ModerationInit
  <2>2. AllDecisions = {}
    BY <2>1 DEF AllDecisions, Decisions_, OfKind
  <2> QED BY <2>1, <2>2 DEF ModerationInv, Grounded
<1>2. ModerationInv /\ [ModerationNext]_moderationVars => ModerationInv'
  <2>1. ModerationInv /\ UNCHANGED moderationVars => ModerationInv'
    BY DEF ModerationInv, AllDecisions, moderationVars
  <2> QED BY <2>1, ModerationKeeps
<1>3. ASSUME ModerationInv, ModerationNext, mdHistory' = mdHistory,
             NEW c \in MdClones, NEW a \in Reduce(mdRecs[c]).blocked \ Reduce(mdRecs'[c]).blocked
      PROVE  \/ \E d \in ValidDecisions(mdRecs'[c]) \ ValidDecisions(mdRecs[c]) :
                  d.action = "unblock" /\ d.target = Target("actor", a)
             \/ IntentClash(mdRecs'[c]) # IntentClash(mdRecs[c])
  <2>1. ModerationInv' /\ mdRecs[c] \subseteq mdRecs'[c]
    BY <1>3, ModerationKeeps
  <2>2. Grounded(AllDecisions')
    BY <2>1 DEF ModerationInv, Grounded, ActionsOn
  <2>3. Decisions_(mdRecs'[c]) \subseteq AllDecisions'
    BY DEF AllDecisions, Decisions_, OfKind
  <2> QED BY <1>3, <2>1, <2>2, <2>3, BlockEnds
<1>4. ModerationInv /\ [ModerationNext]_moderationVars =>
        [mdHistory' = mdHistory =>
           \A c \in {k \in MdClones : mdRecs'[k] # mdRecs[k]} :
             \A a \in Reduce(mdRecs[c]).blocked \ Reduce(mdRecs'[c]).blocked :
               \/ \E d \in ValidDecisions(mdRecs'[c]) \ ValidDecisions(mdRecs[c]) :
                    d.action = "unblock" /\ d.target = Target("actor", a)
               \/ IntentClash(mdRecs'[c]) # IntentClash(mdRecs[c])]_moderationVars
  BY <1>3, Zenon
<1> QED BY <1>1, <1>2, <1>4, PTL DEF ModerationSpec, BlockEndsByUnblock
-----------------------------------------------------------------------------
(* Memories: a traversal of pages. *)

\* What a request selects among the memories of some streams, and their order.
SourceIds(D) == UNION {Range(s) : s \in Range(D)}
Matches(ids, req, event) ==
  {i \in ids : /\ memoryEnvelopeProducesRecord(i) /\ classifyMemoryApplicability(i, req.at)
               /\ classifyMemoryEvidence(i, event)
               /\ req.all \/ Lifecycle(ids, i) = "active"
               /\ req.untrusted \/ classifyMemoryTrust(i, req.at)}
RankOf(ids, i) == memoryIndexLifecycleRank(Lifecycle(ids, i))
Precedes(ids, i, j) ==
  \/ RankOf(ids, i) < RankOf(ids, j)
  \/ RankOf(ids, i) = RankOf(ids, j) /\ i > j
NotAfter(ids, i, j) == i = j \/ Precedes(ids, i, j)

\* A traversal stands at its last row: it returned only what it has passed, and
\* all it has passed of what matched when it began.
Passed(ids, r) ==
  /\ r.got \cup r.want \cup {r.last} \subseteq Matches(ids, r.req, r.event)
  /\ \A i \in r.got : NotAfter(ids, i, r.last)
  /\ \A i \in r.want : NotAfter(ids, i, r.last) => i \in r.got
TraversalOK(r) ==
  /\ r.digest = <<>> => r.got = {} /\ r.last = 0
  /\ r.pc \in {"read", "more"} /\ r.digest # <<>> =>
       \E D : /\ r.digest = <<r.req, <<MemPolicy[r.req.at], D>>>>
              /\ SourceIds(D) \subseteq DOMAIN memOf /\ Passed(SourceIds(D), r)
  /\ r.pc = "done" => r.want \subseteq r.got /\ r.got \subseteq r.now
  /\ r.again = {}
StreamsOK ==
  /\ \E S : memOf \in Seq(S)
  /\ {memLocal, memMine, memPeer, memTheirs} \subseteq Seq(1..Len(memOf))
RecallShape(r) ==
  r = [pc |-> r.pc, req |-> r.req, event |-> r.event, digest |-> r.digest, last |-> r.last,
       got |-> r.got, again |-> r.again, want |-> r.want, now |-> r.now]
MemoryInv ==
  /\ StreamsOK /\ RecallShape(memRecall) /\ TraversalOK(memRecall)
  /\ memEvent \in BOOLEAN /\ memRecall.event \in BOOLEAN /\ (memRecall.event => memEvent)
  /\ memRecall.pc = "idle" => memRecall.digest = <<>>

\* The memories of a set of signed ones, looked at again after more was signed.
LEMMA MatchesKept ==
  ASSUME NEW ids, \A i \in ids : memOf'[i] = memOf[i]
  PROVE  /\ \A i \in ids : RankOf(ids, i)' = RankOf(ids, i)
         /\ \A req, event : Matches(ids, req, event)' = Matches(ids, req, event)
<1>1. \A i \in ids : memoryEnvelopeProducesRecord(i)' = memoryEnvelopeProducesRecord(i)
  BY DEF memoryEnvelopeProducesRecord
<1>2. \A i \in ids : \A op : Edges(ids, op, i)' = Edges(ids, op, i)
  BY DEF Edges, memoryEnvelopeProducesRecord
<1>3. \A i \in ids : Missing(ids, i)' = Missing(ids, i)
  BY DEF Missing
<1>4. \A i \in ids : Lifecycle(ids, i)' = Lifecycle(ids, i)
  BY <1>2, <1>3 DEF Lifecycle
<1>5. \A i \in ids : RankOf(ids, i)' = RankOf(ids, i)
  BY <1>4 DEF RankOf, memoryIndexLifecycleRank
<1>6. \A req, event : Matches(ids, req, event)' = Matches(ids, req, event)
  BY <1>1, <1>4 DEF Matches, classifyMemoryApplicability, classifyMemoryEvidence, classifyMemoryTrust
<1> QED BY <1>5, <1>6

\* Late evidence only adds to what matches.
LEMMA MatchesGrow ==
  ASSUME NEW ids, NEW req, NEW e \in BOOLEAN, NEW f \in BOOLEAN, e => f
  PROVE  Matches(ids, req, e) \subseteq Matches(ids, req, f)
BY DEF Matches, classifyMemoryEvidence

LEMMA RankIs ==
  ASSUME NEW ids, NEW i
  PROVE  RankOf(ids, i) \in Nat
BY DEF RankOf, memoryIndexLifecycleRank

\* The order of the rows is total.
LEMMA OrderOf ==
  ASSUME NEW ids, NEW i \in Int, NEW j \in Int, NEW k \in Int
  PROVE  /\ Precedes(ids, i, j) /\ Precedes(ids, j, k) => Precedes(ids, i, k)
         /\ ~(Precedes(ids, i, j) /\ NotAfter(ids, j, i))
         /\ NotAfter(ids, i, j) \/ Precedes(ids, j, i)
<1>1. RankOf(ids, i) \in Nat /\ RankOf(ids, j) \in Nat /\ RankOf(ids, k) \in Nat
  BY RankIs
<1> QED BY <1>1 DEF Precedes, NotAfter

\* Rows that stand for the memories of a set, in their order.
RowsAre(Q, ids, M) ==
  /\ \A r \in Q : r.id \in M
  /\ \A i \in M : \E r \in Q : r.id = i
  /\ \A r, q \in Q : r.id = q.id => r = q
  /\ \A r, q \in Q : memoryIndexRecordLess(r, q) <=> Precedes(ids, r.id, q.id)
  /\ Ids(Q) = M

\* The rows of a query are the matching memories.
LEMMA QueryIs ==
  ASSUME NEW ids, NEW req, NEW event, NEW index, index.rows = ProjectMemories(ids, req.at, event)
  PROVE  RowsAre(queryMemoryIndex(index, req), ids, Matches(ids, req, event))
<1> DEFINE Row(i) == [id |-> i, life |-> Lifecycle(ids, i), applies |-> classifyMemoryApplicability(i, req.at),
                      resolved |-> classifyMemoryEvidence(i, event), trusted |-> classifyMemoryTrust(i, req.at),
                      challenged |-> Edges(ids, "challenge", i) # {}]
           Q == queryMemoryIndex(index, req)
<1>1. \A r \in Q : \E i \in ids : memoryEnvelopeProducesRecord(i) /\ r = Row(i)
  BY DEF queryMemoryIndex, ProjectMemories
<1>2. \A i : /\ Row(i).id = i /\ Row(i).life = Lifecycle(ids, i)
             /\ Row(i).applies = classifyMemoryApplicability(i, req.at)
             /\ Row(i).resolved = classifyMemoryEvidence(i, event)
             /\ Row(i).trusted = classifyMemoryTrust(i, req.at)
  OBVIOUS
<1>3. \A i \in ids : memoryEnvelopeProducesRecord(i) => Row(i) \in index.rows
  BY DEF ProjectMemories
<1> HIDE DEF Row
<1>4. \A r \in Q : r.id \in Matches(ids, req, event) /\ r.life = Lifecycle(ids, r.id) /\ r = Row(r.id)
  BY <1>1, <1>2 DEF queryMemoryIndex, Matches
<1>5. \A i \in Matches(ids, req, event) : Row(i) \in Q
  BY <1>2, <1>3 DEF queryMemoryIndex, Matches
<1>6. \A r, q \in Q : memoryIndexRecordLess(r, q) <=> Precedes(ids, r.id, q.id)
  BY <1>4 DEF memoryIndexRecordLess, Precedes, RankOf
<1>7. Ids(Q) = Matches(ids, req, event)
  BY <1>2, <1>4, <1>5 DEF Ids
<1> QED BY <1>2, <1>4, <1>5, <1>6, <1>7 DEF RowsAre

\* What is left after the cursor, and what a page takes of it.
RestAfter(ids, M, last) == {i \in M : last \in M => Precedes(ids, last, i)}
LEMMA RestIs ==
  ASSUME NEW Q, NEW ids, NEW M, RowsAre(Q, ids, M)
  PROVE  /\ Ids(RestOf(Q)) = RestAfter(ids, M, memRecall.last)
         /\ \A row \in RestOf(Q) : Ids(RowsUpTo(RestOf(Q), row)) = {i \in Ids(RestOf(Q)) : NotAfter(ids, i, row.id)}
<1> DEFINE rest == RestOf(Q)
<1>1. /\ \A r \in Q : r.id \in M
      /\ \A i \in M : \E r \in Q : r.id = i
      /\ \A r, q \in Q : r.id = q.id => r = q
      /\ \A r, q \in Q : memoryIndexRecordLess(r, q) <=> Precedes(ids, r.id, q.id)
  BY DEF RowsAre
<1>2. rest = {r \in Q : \A c \in Q : c.id = memRecall.last => memoryIndexRecordLess(c, r)}
  BY DEF RestOf
<1> HIDE DEF rest
<1>3. Ids(rest) = {i \in M : memRecall.last \in M => Precedes(ids, memRecall.last, i)}
  <2>1. \A r \in rest : r.id \in M /\ (memRecall.last \in M => Precedes(ids, memRecall.last, r.id))
    BY <1>1, <1>2
  <2>2. \A i \in M : (memRecall.last \in M => Precedes(ids, memRecall.last, i)) => \E r \in rest : r.id = i
    BY <1>1, <1>2
  <2> QED BY <2>1, <2>2 DEF Ids
<1>4. \A row \in rest : Ids(RowsUpTo(rest, row)) = {i \in Ids(rest) : NotAfter(ids, i, row.id)}
  BY <1>1, <1>2 DEF Ids, RowsUpTo, NotAfter
<1> QED BY <1>3, <1>4 DEF rest, RestAfter

\* The sources, and what is collected from them.
LEMMA SourcesIn ==
  ASSUME StreamsOK
  PROVE  /\ collectMemories = SourceIds(memoryIndexSources)
         /\ collectMemories \subseteq DOMAIN memOf /\ collectMemories \subseteq Nat \ {0}
<1>1. Len(memOf) \in Nat /\ DOMAIN memOf = 1..Len(memOf)
  BY DEF StreamsOK
<1>2. \A s \in Range(memoryIndexSources) : s \in Seq(1..Len(memOf))
  BY DEF StreamsOK, memoryIndexSources, Range
<1>3. \A s \in Seq(1..Len(memOf)) : Range(s) \subseteq 1..Len(memOf)
  BY DEF Range
<1>4. collectMemories \subseteq 1..Len(memOf)
  BY <1>2, <1>3 DEF collectMemories
<1> QED BY <1>1, <1>4 DEF collectMemories, SourceIds

\* A step that leaves the traversal alone and rewrites no memory.
LEMMA TraversalKept ==
  ASSUME MemoryInv, StreamsOK', UNCHANGED memRecall, memEvent' \in {memEvent, TRUE},
         DOMAIN memOf \subseteq DOMAIN memOf', \A i \in DOMAIN memOf : memOf'[i] = memOf[i]
  PROVE  MemoryInv'
<1>1. TraversalOK(memRecall)'
  <2>1. ASSUME NEW D, SourceIds(D) \subseteq DOMAIN memOf, Passed(SourceIds(D), memRecall)
        PROVE  Passed(SourceIds(D), memRecall)'
    <3> DEFINE ids == SourceIds(D)
    <3>1. /\ \A i \in ids : RankOf(ids, i)' = RankOf(ids, i)
          /\ \A req, event : Matches(ids, req, event)' = Matches(ids, req, event)
      <4> HIDE DEF ids
      <4> QED BY <2>1, MatchesKept DEF ids
    <3>2. Matches(ids, memRecall.req, memRecall.event) \subseteq ids
      BY DEF Matches
    <3> HIDE DEF ids
    <3>3. \A i, j \in ids : NotAfter(ids, i, j)' <=> NotAfter(ids, i, j)
      BY <3>1 DEF NotAfter, Precedes
    <3> QED BY <2>1, <3>1, <3>2, <3>3 DEF Passed, ids
  <2> QED BY <2>1 DEF MemoryInv, TraversalOK
<1> QED BY <1>1 DEF MemoryInv, RecallShape

\* The streams after the commands of the user, of the peer and of a sync.
LEMMA StreamsStep ==
  ASSUME StreamsOK,
         \/ UNCHANGED streamVars
         \/ \E t \in MemTerminals : appendMemoryAtHead(t)
         \/ PeerAppends \/ SyncMemories \/ RestoreBackup
  PROVE  /\ StreamsOK' /\ DOMAIN memOf \subseteq DOMAIN memOf'
         /\ \A i \in DOMAIN memOf : memOf'[i] = memOf[i]
<1>0. PICK S : memOf \in Seq(S)
  BY DEF StreamsOK
<1>1. Len(memOf) \in Nat /\ DOMAIN memOf = 1..Len(memOf)
  BY <1>0
<1>2. /\ memLocal \in Seq(1..Len(memOf)) /\ memMine \in Seq(1..Len(memOf))
      /\ memPeer \in Seq(1..Len(memOf)) /\ memTheirs \in Seq(1..Len(memOf))
  BY DEF StreamsOK
<1>3. ASSUME NEW x, memOf' = Append(memOf, x)
      PROVE  /\ memOf' \in Seq(S \cup {x}) /\ Len(memOf') = Len(memOf) + 1
             /\ DOMAIN memOf \subseteq DOMAIN memOf' /\ \A i \in DOMAIN memOf : memOf'[i] = memOf[i]
             /\ \A s \in Seq(1..Len(memOf)) : s \in Seq(1..Len(memOf')) /\ Append(s, Len(memOf) + 1) \in Seq(1..Len(memOf'))
  <2>1. memOf \in Seq(S \cup {x})
    BY <1>0
  <2>2. memOf' \in Seq(S \cup {x}) /\ Len(memOf') = Len(memOf) + 1
    BY <1>3, <2>1
  <2>3. DOMAIN memOf \subseteq DOMAIN memOf' /\ \A i \in DOMAIN memOf : memOf'[i] = memOf[i]
    BY <1>1, <1>3, <2>1, <2>2
  <2>4. 1..Len(memOf) \subseteq 1..Len(memOf') /\ Len(memOf) + 1 \in 1..Len(memOf')
    BY <1>1, <2>2
  <2>5. \A s \in Seq(1..Len(memOf)) : s \in Seq(1..Len(memOf'))
    BY <2>4
  <2>6. \A s \in Seq(1..Len(memOf')) : Append(s, Len(memOf) + 1) \in Seq(1..Len(memOf'))
    BY <2>4
  <2> QED BY <2>2, <2>3, <2>5, <2>6
<1>4. CASE UNCHANGED streamVars
  BY <1>4 DEF streamVars, StreamsOK
<1>5. CASE \E t \in MemTerminals : appendMemoryAtHead(t)
  <2>1. PICK t \in MemTerminals : appendMemoryAtHead(t)
    BY <1>5
  <2>2. CASE memOf' = Append(memOf, memTerm[t].memory) /\ memLocal' = Append(memLocal, Len(memOf) + 1)
    BY <1>2, <1>3, <2>1, <2>2 DEF appendMemoryAtHead, StreamsOK
  <2>3. CASE UNCHANGED <<memOf, memLocal>>
    BY <2>1, <2>3 DEF appendMemoryAtHead, StreamsOK
  <2> QED BY <2>1, <2>2, <2>3 DEF appendMemoryAtHead
<1>6. CASE PeerAppends
  <2>1. PICK x : memOf' = Append(memOf, x)
    BY <1>6 DEF PeerAppends
  <2>2. memTheirs' = Append(memTheirs, Len(memOf) + 1) /\ UNCHANGED <<memLocal, memMine, memPeer>>
    BY <1>6 DEF PeerAppends
  <2> QED BY <1>2, <1>3, <2>1, <2>2 DEF StreamsOK
<1>7. CASE SyncMemories
  BY <1>7 DEF SyncMemories, StreamsOK
<1>8. CASE RestoreBackup
  <2>1. memLocal # <<>> /\ memLocal' = Front(memLocal) /\ UNCHANGED <<memOf, memMine, memPeer, memTheirs>>
    BY <1>8 DEF RestoreBackup
  <2>2. Front(memLocal) \in Seq(1..Len(memOf))
    <3>1. Len(memLocal) \in Nat
      BY <1>2
    <3>2. \A i \in 1..(Len(memLocal) - 1) : memLocal[i] \in 1..Len(memOf)
      BY <1>2, <3>1
    <3> QED BY <1>2, <3>1, <3>2 DEF Front
  <2> QED BY <2>1, <2>2 DEF StreamsOK
<1> QED BY <1>4, <1>5, <1>6, <1>7, <1>8

LEMMA MemoryInitially ==
  ASSUME MemoryInit
  PROVE  MemoryInv
<1>1. Len(MemHistory) \in Nat
  BY MemoryAssumption
<1>2. StreamsOK
  <2> DEFINE E == [k \in 1..Len(MemHistory) |-> Envelope("me", "record", 0, MemHistory[k])]
             S == {E[k] : k \in 1..Len(MemHistory)}
             I == [k \in 1..Len(MemHistory) |-> k]
  <2>1. E \in Seq(S) /\ Len(E) = Len(MemHistory)
    <3>1. E \in [1..Len(MemHistory) -> S]
      OBVIOUS
    <3> HIDE DEF E, S
    <3> QED BY <1>1, <3>1
  <2>2. I \in Seq(1..Len(MemHistory))
    BY <1>1
  <2>3. memOf = E /\ memLocal = I /\ memMine = <<>> /\ memPeer = <<>> /\ memTheirs = <<>>
    BY DEF MemoryInit
  <2> HIDE DEF E, S, I
  <2> QED BY <2>1, <2>2, <2>3 DEF StreamsOK
<1>3. memRecall = NoTraversal /\ memEvent = FALSE
  BY DEF MemoryInit
<1> QED BY <1>2, <1>3 DEF MemoryInv, NoTraversal, RecallShape, TraversalOK

\* A command reads the accepted events before its page.
LEMMA RecallBegins ==
  ASSUME MemoryInv, cmdMemoryRecall
  PROVE  MemoryInv'
<1>1. UNCHANGED streamVars
  BY DEF cmdMemoryRecall
<1>2. StreamsOK'
  BY <1>1, StreamsStep DEF MemoryInv
<1>3. CASE \E req \in MemRequests : memRecall' = [NoTraversal EXCEPT !.pc = "read", !.req = req, !.event = memEvent]
  <2>1. PICK req : memRecall' = [NoTraversal EXCEPT !.pc = "read", !.req = req, !.event = memEvent]
    BY <1>3
  <2>2. memRecall' = [pc |-> "read", req |-> req, event |-> memEvent, digest |-> <<>>, last |-> 0,
                      got |-> {}, again |-> {}, want |-> {}, now |-> {}]
    BY <2>1 DEF NoTraversal
  <2> QED BY <1>1, <1>2, <2>2 DEF MemoryInv, RecallShape, TraversalOK, streamVars
<1>4. CASE memRecall.pc = "more" /\ memRecall' = [memRecall EXCEPT !.pc = "read", !.event = memEvent]
  <2> DEFINE r == memRecall
  <2>1. r = [pc |-> r.pc, req |-> r.req, event |-> r.event, digest |-> r.digest, last |-> r.last,
             got |-> r.got, again |-> r.again, want |-> r.want, now |-> r.now]
    BY DEF MemoryInv, RecallShape
  <2>2. memRecall' = [pc |-> "read", req |-> r.req, event |-> memEvent, digest |-> r.digest, last |-> r.last,
             got |-> r.got, again |-> r.again, want |-> r.want, now |-> r.now]
    BY <1>4, <2>1
  <2>3. RecallShape(memRecall)' /\ memRecall'.pc = "read" /\ memRecall'.req = r.req /\ memRecall'.event = memEvent
        /\ memRecall'.digest = r.digest /\ memRecall'.last = r.last /\ memRecall'.got = r.got
        /\ memRecall'.again = r.again /\ memRecall'.want = r.want
    BY <2>2 DEF RecallShape
  <2>4. TraversalOK(memRecall)'
    <3>1. ASSUME NEW D, Passed(SourceIds(D), r) PROVE Passed(SourceIds(D), memRecall)'
      <4>1. Matches(SourceIds(D), r.req, r.event) \subseteq Matches(SourceIds(D), r.req, memEvent)
        BY MatchesGrow DEF MemoryInv
      <4>2. \A req, e : Matches(SourceIds(D), req, e)' = Matches(SourceIds(D), req, e)
        BY <1>1, MatchesKept DEF streamVars
      <4>3. \A i, j : NotAfter(SourceIds(D), i, j)' <=> NotAfter(SourceIds(D), i, j)
        BY <1>1 DEF streamVars, NotAfter, Precedes, RankOf, Lifecycle, Edges, Missing, memoryEnvelopeProducesRecord
      <4> QED BY <2>3, <3>1, <4>1, <4>2, <4>3 DEF Passed
    <3> QED BY <1>1, <1>4, <2>3, <3>1 DEF MemoryInv, TraversalOK, streamVars
  <2> QED BY <1>1, <1>2, <2>3, <2>4 DEF MemoryInv, streamVars
<1> QED BY <1>3, <1>4 DEF cmdMemoryRecall

\* What was returned before a page: what was passed, if the cursor names a row.
StandsAt(ids, M, last, got, want) ==
  /\ got \subseteq M /\ want \subseteq M /\ (last \notin M => got = {})
  /\ last \in M => /\ \A i \in got : NotAfter(ids, i, last)
                   /\ \A i \in want : NotAfter(ids, i, last) => i \in got
\* What is returned with the page that ends at a row of the rest.
PassedTo(ids, M, got, want, R, row) ==
  LET page == {i \in R : NotAfter(ids, i, row)}
  IN  /\ got \cup page \subseteq M /\ got \cap page = {} /\ row \in page
      /\ \A i \in got \cup page : NotAfter(ids, i, row)
      /\ \A i \in want : NotAfter(ids, i, row) => i \in got \cup page

\* One page further, over the memories of a selection.
LEMMA PagePassed ==
  ASSUME NEW ids, NEW M, M \subseteq ids, ids \subseteq Int, NEW last, NEW got, NEW want,
         StandsAt(ids, M, last, got, want)
  PROVE  /\ want \subseteq got \cup RestAfter(ids, M, last)
         /\ \A row \in RestAfter(ids, M, last) : PassedTo(ids, M, got, want, RestAfter(ids, M, last), row)
<1> DEFINE R == RestAfter(ids, M, last)
<1> USE DEF StandsAt, RestAfter
<1>1. want \subseteq got \cup R
  <2> SUFFICES ASSUME NEW i \in want, i \notin got PROVE i \in R
    OBVIOUS
  <2>1. CASE last \in M
    <3>1. i \in Int /\ last \in Int /\ ~NotAfter(ids, i, last)
      BY <2>1
    <3> QED BY <2>1, <3>1, OrderOf
  <2> QED BY <2>1
<1>2. ASSUME NEW row \in R
      PROVE  PassedTo(ids, M, got, want, R, row)
  <2> DEFINE page == {i \in R : NotAfter(ids, i, row)}
  <2>1. page \subseteq M /\ row \in page
    BY DEF NotAfter
  <2>2. got \cap page = {}
    <3> SUFFICES ASSUME NEW i \in got, i \in R PROVE FALSE
      OBVIOUS
    <3>1. last \in M /\ NotAfter(ids, i, last) /\ Precedes(ids, last, i) /\ i \in Int /\ last \in Int
      OBVIOUS
    <3> QED BY <3>1, OrderOf
  <2>3. \A i \in got : NotAfter(ids, i, row)
    <3> TAKE i \in got
    <3>1. last \in M /\ NotAfter(ids, i, last) /\ Precedes(ids, last, row) /\ i \in Int /\ last \in Int /\ row \in Int
      OBVIOUS
    <3> QED BY <3>1, OrderOf DEF NotAfter
  <2>4. \A i \in want : NotAfter(ids, i, row) => i \in got \cup page
    BY <1>1
  <2> QED BY <2>1, <2>2, <2>3, <2>4 DEF PassedTo
<1> QED BY <1>1, <1>2

LEMMA RecallLoads ==
  ASSUME MemoryInv, loadMemoryRecallSelection
  PROVE  MemoryInv'
<1> DEFINE r == memRecall
           ids == collectMemories
           req == r.req
           M == Matches(ids, req, r.event)
<1>1. PICK index, rows, digest, live :
        /\ live = deriveMemoryIndex(req.at, r.event)
        /\ index = IF verifyMemoryIndex(memIndex, live) THEN memIndex ELSE live
        /\ rows = queryMemoryIndex(index, req)
        /\ digest = memoryRecallQueryDigest(req, index)
        /\ IF decodeMemoryRecallCursor(digest, rows)
           THEN buildMemorySearchEnvelope(RestOf(rows), digest, live)
           ELSE memRecall' = [memRecall EXCEPT !.pc = "refused"]
  BY DEF loadMemoryRecallSelection
<1>2. r.pc = "read" /\ UNCHANGED streamVars
  BY DEF loadMemoryRecallSelection
<1>3. StreamsOK' /\ memEvent' = memEvent
  BY <1>2, StreamsStep DEF MemoryInv, streamVars
<1>4. /\ ids = SourceIds(memoryIndexSources) /\ ids \subseteq DOMAIN memOf /\ ids \subseteq Nat \ {0}
      /\ M \subseteq ids
  BY SourcesIn DEF MemoryInv, Matches
<1>5. /\ live.rows = ProjectMemories(ids, req.at, r.event) /\ index.rows = live.rows
      /\ index.fp = <<MemPolicy[req.at], memoryIndexSources>>
  BY <1>1 DEF deriveMemoryIndex, verifyMemoryIndex, memoryIndexSourceFingerprint
<1>6. digest = <<req, <<MemPolicy[req.at], memoryIndexSources>>>> /\ digest # <<>>
  BY <1>1, <1>5 DEF memoryRecallQueryDigest
<1>7. TruePage(live) = M /\ Ids(rows) = M /\ RowsAre(rows, ids, M)
  <2>1. RowsAre(rows, ids, M) /\ RowsAre(queryMemoryIndex(live, req), ids, M)
    BY <1>1, <1>5, QueryIs
  <2> QED BY <2>1 DEF TruePage, RowsAre
<1>8. RecallShape(r) /\ TraversalOK(r) /\ r.event \in BOOLEAN /\ (r.event => memEvent) /\ memEvent \in BOOLEAN
  BY DEF MemoryInv
<1>9. CASE ~decodeMemoryRecallCursor(digest, rows)
  <2>1. memRecall' = [memRecall EXCEPT !.pc = "refused"]
    BY <1>1, <1>9
  <2>2. memRecall' = [pc |-> "refused", req |-> r.req, event |-> r.event, digest |-> r.digest, last |-> r.last,
             got |-> r.got, again |-> r.again, want |-> r.want, now |-> r.now]
    BY <1>8, <2>1 DEF RecallShape
  <2> QED BY <1>3, <1>8, <2>2 DEF MemoryInv, RecallShape, TraversalOK
<1>10. CASE decodeMemoryRecallCursor(digest, rows)
  <2> DEFINE want == IF r.digest = <<>> THEN M ELSE r.want
             rest == RestOf(rows)
             R == RestAfter(ids, M, r.last)
  <2>1. StandsAt(ids, M, r.last, r.got, want)
    <3>1. CASE r.digest = <<>>
      <4>1. r.got = {} /\ r.last = 0
        BY <1>8, <3>1 DEF TraversalOK
      <4>2. 0 \notin M
        BY <1>4
      <4> QED BY <3>1, <4>1, <4>2 DEF StandsAt
    <3>2. CASE r.digest # <<>>
      <4>1. PICK D : r.digest = <<r.req, <<MemPolicy[r.req.at], D>>>> /\ Passed(SourceIds(D), r)
        BY <1>2, <1>8, <3>2 DEF TraversalOK
      <4>2. r.digest = digest /\ r.last \in M
        BY <1>7, <1>10, <3>2 DEF decodeMemoryRecallCursor
      <4>3. D = memoryIndexSources
        BY <1>6, <4>1, <4>2
      <4>4. Passed(ids, r)
        BY <1>4, <4>1, <4>3
      <4> QED BY <3>2, <4>2, <4>4 DEF Passed, StandsAt
    <3> QED BY <3>1, <3>2
  <2>2. ids \subseteq Int
    BY <1>4
  <2>3. want \subseteq r.got \cup R /\ \A row \in R : PassedTo(ids, M, r.got, want, R, row)
    <3> HIDE DEF ids, M, want, r
    <3> QED BY <1>4, <2>1, <2>2, PagePassed
  <2>4. buildMemorySearchEnvelope(rest, digest, live)
    BY <1>1, <1>10
  <2>5. r = [pc |-> r.pc, req |-> r.req, event |-> r.event, digest |-> r.digest, last |-> r.last,
             got |-> r.got, again |-> r.again, want |-> r.want, now |-> r.now] /\ r.again = {}
    BY <1>8 DEF RecallShape, TraversalOK
  <2>6. ASSUME NEW page, NEW last, ReturnPage(page, rest, last, digest, live)
        PROVE  memRecall' = [pc |-> IF page = rest THEN "done" ELSE "more", req |-> req, event |-> r.event,
                             digest |-> digest, last |-> last, got |-> r.got \cup Ids(page),
                             again |-> r.got \cap Ids(page), want |-> want, now |-> M]
    <3>1. memRecall' = [r EXCEPT !.pc = IF page = rest THEN "done" ELSE "more", !.digest = digest, !.last = last,
                          !.got = r.got \cup Ids(page), !.again = r.got \cap Ids(page), !.want = want, !.now = M]
      BY <1>7, <2>5, <2>6 DEF ReturnPage
    <3> QED BY <2>5, <3>1
  <2>7. /\ Ids(rest) = R
        /\ \A row \in rest : row.id \in R /\ Ids(RowsUpTo(rest, row)) = {i \in R : NotAfter(ids, i, row.id)}
    <3>1. /\ Ids(rest) = R
          /\ \A row \in rest : Ids(RowsUpTo(rest, row)) = {i \in Ids(rest) : NotAfter(ids, i, row.id)}
      BY <1>1, <1>7, RestIs
    <3> QED BY <3>1 DEF Ids
  <2>8. CASE rest = {} /\ ReturnPage({}, rest, r.last, digest, live)
    <3>1. Ids({}) = {}
      BY DEF Ids
    <3>2. want \subseteq r.got
      BY <2>3, <2>7, <2>8, <3>1
    <3>3. memRecall' = [pc |-> "done", req |-> req, event |-> r.event, digest |-> digest, last |-> r.last,
                        got |-> r.got, again |-> {}, want |-> want, now |-> M]
      BY <2>6, <2>8, <3>1
    <3> HIDE DEF M, want
    <3> QED BY <1>3, <1>6, <1>8, <2>1, <3>2, <3>3 DEF MemoryInv, RecallShape, TraversalOK, StandsAt
  <2>9. CASE \E row \in rest : ReturnPage(RowsUpTo(rest, row), rest, row.id, digest, live)
    <3>1. PICK row \in rest : ReturnPage(RowsUpTo(rest, row), rest, row.id, digest, live)
      BY <2>9
    <3> DEFINE page == Ids(RowsUpTo(rest, row))
               got == r.got \cup page
               pc == IF RowsUpTo(rest, row) = rest THEN "done" ELSE "more"
    <3>2. row.id \in R /\ page = {i \in R : NotAfter(ids, i, row.id)}
      BY <2>7
    <3>3. /\ got \subseteq M /\ r.got \cap page = {} /\ row.id \in page
          /\ \A i \in got : NotAfter(ids, i, row.id)
          /\ \A i \in want : NotAfter(ids, i, row.id) => i \in got
      <4> HIDE DEF M, want, R, ids, page, rest
      <4> QED BY <2>3, <3>2 DEF PassedTo
    <3>4. memRecall' = [pc |-> pc, req |-> req, event |-> r.event, digest |-> digest, last |-> row.id,
                        got |-> got, again |-> {}, want |-> want, now |-> M]
      BY <2>6, <3>1, <3>3
    <3>5. pc = "done" => want \subseteq got
      BY <2>3, <2>7
    <3>6. pc \in {"done", "more"} /\ got \cup want \cup {row.id} \subseteq M
      BY <2>1, <3>3 DEF StandsAt, RestAfter
    <3> HIDE DEF pc, got, want, page
    <3>7. /\ memRecall'.pc = pc /\ memRecall'.req = req /\ memRecall'.event = r.event /\ memRecall'.digest = digest
          /\ memRecall'.last = row.id /\ memRecall'.got = got /\ memRecall'.again = {} /\ memRecall'.want = want
          /\ memRecall'.now = M /\ RecallShape(memRecall)'
      BY <3>4 DEF RecallShape
    <3>8. Passed(ids, memRecall')
      BY <3>3, <3>6, <3>7 DEF Passed
    <3>9. memOf' = memOf
      BY <1>2 DEF streamVars
    <3>10. \E D : /\ memRecall'.digest = <<memRecall'.req, <<MemPolicy[memRecall'.req.at], D>>>>
                  /\ SourceIds(D) \subseteq DOMAIN memOf /\ Passed(SourceIds(D), memRecall')
      BY <1>4, <1>6, <3>7, <3>8
    <3>11. PICK D : /\ memRecall'.digest = <<memRecall'.req, <<MemPolicy[memRecall'.req.at], D>>>>
                    /\ SourceIds(D) \subseteq DOMAIN memOf /\ Passed(SourceIds(D), memRecall')
      BY <3>10
    <3>12. Passed(SourceIds(D), memRecall)'
      <4>1. \A q, e : Matches(SourceIds(D), q, e)' = Matches(SourceIds(D), q, e)
        BY <3>9, MatchesKept
      <4>2. \A i, j : NotAfter(SourceIds(D), i, j)' <=> NotAfter(SourceIds(D), i, j)
        BY <3>9 DEF NotAfter, Precedes, RankOf, Lifecycle, Edges, Missing, memoryEnvelopeProducesRecord
      <4> QED BY <3>11, <4>1, <4>2 DEF Passed
    <3>13. TraversalOK(memRecall)'
      BY <1>6, <3>3, <3>5, <3>7, <3>9, <3>11, <3>12 DEF TraversalOK
    <3> QED BY <1>3, <1>8, <3>6, <3>7, <3>13 DEF MemoryInv
  <2> QED BY <2>4, <2>8, <2>9 DEF buildMemorySearchEnvelope
<1> QED BY <1>9, <1>10

LEMMA MemoryStepKeeps ==
  ASSUME MemoryInv, [MemoryNext]_memoryVars
  PROVE  MemoryInv'
<1>1. CASE \/ \E t \in MemTerminals : cmdMemoryRecord(t) \/ cmdMemoryLifecycle(t)
           \/ rebuildMemoryIndex \/ UNCHANGED memoryVars
  <2>1. UNCHANGED streamVars /\ UNCHANGED memRecall
    BY <1>1 DEF cmdMemoryRecord, cmdMemoryLifecycle, nextMemoryCommandPosition, rebuildMemoryIndex, memoryVars, streamVars
  <2>2. /\ StreamsOK' /\ DOMAIN memOf \subseteq DOMAIN memOf'
        /\ \A i \in DOMAIN memOf : memOf'[i] = memOf[i]
    BY <2>1, StreamsStep DEF MemoryInv
  <2>3. memEvent' \in {memEvent, TRUE}
    BY <2>1 DEF streamVars
  <2> QED BY <2>1, <2>2, <2>3, TraversalKept
<1>2. CASE (\E t \in MemTerminals : appendMemoryAtHead(t)) \/ PeerAppends \/ SyncMemories \/ RestoreBackup
  <2>1. UNCHANGED memRecall /\ memEvent' \in {memEvent, TRUE}
    BY <1>2 DEF appendMemoryAtHead, PeerAppends, SyncMemories, RestoreBackup
  <2>2. /\ StreamsOK' /\ DOMAIN memOf \subseteq DOMAIN memOf'
        /\ \A i \in DOMAIN memOf : memOf'[i] = memOf[i]
    BY <1>2, StreamsStep DEF MemoryInv
  <2> QED BY <2>1, <2>2, TraversalKept
<1>3. CASE cmdMemoryRecall
  BY <1>3, RecallBegins
<1>4. CASE loadMemoryRecallSelection
  BY <1>4, RecallLoads
<1> QED BY <1>1, <1>2, <1>3, <1>4 DEF MemoryNext

\* A recall followed to its last page returned everything that matched when it
\* began, nothing twice and nothing that does not match at its end, for every
\* number of memories, pages, policies and kinds of request, and whatever is
\* signed, synchronised, restored and rebuilt between two pages.
THEOREM OneSelection == MemorySpec => []PagesAreOneSelection
<1>1. MemoryInv => PagesAreOneSelection
  BY DEF MemoryInv, TraversalOK, PagesAreOneSelection
<1>2. MemoryInv /\ [MemoryNext]_memoryVars => MemoryInv'
  BY MemoryStepKeeps
<1> QED BY <1>1, <1>2, MemoryInitially, PTL DEF MemorySpec
=============================================================================

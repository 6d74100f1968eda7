----------------------------- MODULE ForgeProofs -----------------------------
(***************************************************************************)
(* The exchanges with a forge, for every number of edits on either side,   *)
(* interruptions and repetitions: an export never writes over what a user  *)
(* of the forge had put there before it last looked (ForgeExport); an      *)
(* import copies an issue once, and neither an import of issues nor one of *)
(* discussions discards a native edit (ForgeImport).                       *)
(***************************************************************************)
EXTENDS ForgeExport, ForgeImport, FiniteSetTheorems, SequenceTheorems, TLAPS

\* Texts of the native record, and with what is shown until the last write all
\* that an overwrite may replace.
NativeText == 0..(MaxFxNative + 1)
OwnText    == 0..(MaxFxNative + 2)

FxTicket == [id : Nat \ {0}, text : Nat, proof : BOOLEAN, names : Nat, snap : [FxParts -> NativeText]]
FxStep   == [act : {"create", "update"}, part : FxParts]
FxIntent == [phase : {"prepared", "in_flight", "confirmed"}, rest : OwnText, id : Nat]
FxRequest == [act : {"create", "update"}, part : FxParts, target : Nat, text : OwnText, mark : BOOLEAN,
              names : Nat, snap : [FxParts -> NativeText], over : OwnText]
FxCheckpoint == [found : BOOLEAN, snap : [FxParts -> NativeText], prev : [FxParts -> Nat],
                 base : [FxParts -> OwnText], bind : [FxParts -> Nat], steps : Seq(FxStep),
                 next : Nat \ {0}, pend : {NothingPending} \cup FxIntent]

\* The tickets of a part have ids of their own, given out so far.
TicketsOK(T, ids) ==
  /\ T \in [FxParts -> SUBSET FxTicket]
  /\ \A p \in FxParts : \A t \in T[p] : t.id <= ids /\ \A u \in T[p] : u.id = t.id => u = t

\* The steps left to do: what is not bound yet starts with the creation of its
\* root, and what is created is not bound before.
PlanOK(steps, next, bind) ==
  /\ next <= Len(steps) /\ bind["root"] = 0 => steps[next] = Write("create", "root")
  /\ \A k \in next..Len(steps) : steps[k].act = "create" =>
       /\ bind[steps[k].part] = 0
       /\ \A j \in next..(k - 1) : steps[j].part # steps[k].part

CheckpointOK(cp) ==
  /\ cp \in FxCheckpoint
  /\ cp.pend # NothingPending => cp.next <= Len(cp.steps)
  /\ cp.pend # NothingPending /\ cp.pend.phase = "confirmed" => cp.pend.id # 0
  /\ cp.snap = Nothing => cp.steps = <<>>
  /\ PlanOK(cp.steps, cp.next, cp.bind)

\* What a running export holds.
ProcOK(kind, cp, proc) ==
  /\ proc.pc \in {"idle", "work", "send", "wait", "confirmed"}
  /\ proc.pc \in {"send", "wait", "confirmed"} => cp.pend # NothingPending
  /\ proc.pc = "send" /\ kind = "discussion" => proc.over \in OwnText
  /\ proc.pc = "wait" => proc = [pc |-> "wait", answer |-> proc.answer] /\ proc.answer \in Nat
  /\ proc.pc = "confirmed" => proc.id \in Nat \ {0} /\ proc.seen \in [FxParts -> OwnText]

NativeOK(native, counts) ==
  /\ counts \in [ids : Nat, native : 0..MaxFxNative, user : Nat, stops : Nat]
  /\ native \in [FxParts -> 0..(counts.native + 1)] /\ native["root"] # 0

ExportInv ==
  /\ fxKind \in {"issue", "discussion", "project"} /\ fxSource \in SUBSET FxParts /\ fxLate \in BOOLEAN
  /\ NativeOK(fxNative, fxCounts)
  /\ TicketsOK(fxTickets, fxCounts.ids)
  /\ CheckpointOK(fxCp)
  /\ ProcOK(fxKind, fxCp, fxProc)
  /\ fxWire = NoRequest \/ fxWire \in FxRequest

----------------------------------------------------------------------------
(* What the forge shows. *)

LEMMA TextsOrdered ==
  /\ MaxFxNative \in Nat /\ NativeText \subseteq OwnText /\ OwnText \subseteq Nat
  /\ Interim \in OwnText /\ 0 \in NativeText
  /\ \A x \in OwnText : x < FirstUser
  BY ForgeExportAssumption DEF NativeText, OwnText, Interim, FirstUser

\* A ticket shows its text; what is not bound shows nothing.
LEMMA TextIs ==
  ASSUME NEW ids, TicketsOK(fxTickets, ids), NEW p \in FxParts
  PROVE  /\ \A t \in fxTickets[p] : TextOf(p, t.id) = t.text
         /\ TextOf(p, 0) = 0
         /\ \A id : TextOf(p, id) \in Nat
<1>1. \A t \in fxTickets[p] : t \in FxTicket /\ t.id # 0 /\ t.text \in Nat
  BY DEF TicketsOK, FxTicket
<1>2. \A t, u \in fxTickets[p] : u.id = t.id => u = t
  BY DEF TicketsOK
<1>3. ASSUME NEW t \in fxTickets[p] PROVE TextOf(p, t.id) = t.text
  <2>1. (CHOOSE u \in fxTickets[p] : u.id = t.id) \in fxTickets[p]
        /\ (CHOOSE u \in fxTickets[p] : u.id = t.id).id = t.id
    OBVIOUS
  <2>2. (CHOOSE u \in fxTickets[p] : u.id = t.id) = t
    BY <1>2, <2>1
  <2> QED BY <2>2 DEF TextOf
<1>4. TextOf(p, 0) = 0
  BY <1>1 DEF TextOf
<1>5. ASSUME NEW id PROVE TextOf(p, id) \in Nat
  <2>1. CASE \E t \in fxTickets[p] : t.id = id
    BY <1>1, <1>3, <2>1
  <2>2. CASE ~\E t \in fxTickets[p] : t.id = id
    BY <2>2 DEF TextOf
  <2> QED BY <2>1, <2>2
<1> QED BY <1>3, <1>4, <1>5

\* A board is shown part by part.
LEMMA ShownIs ==
  ASSUME NEW ids, TicketsOK(fxTickets, ids), NEW bind
  PROVE  /\ Shown(bind) \in [FxParts -> Nat]
         /\ \A p \in FxParts : Shown(bind)[p] = TextOf(p, bind[p])
<1>1. \A p \in FxParts : TextOf(p, bind[p]) \in Nat
  BY TextIs
<1> QED BY <1>1 DEF Shown

----------------------------------------------------------------------------
(* Plans. *)

\* Steps of the plan of one part.
LEMMA WritesIs ==
  ASSUME NEW cp, NEW p \in FxParts
  PROVE  \/ Writes(cp, p) = <<>>
         \/ /\ PartPlan(cp, p) \in {"create", "update"}
            /\ Writes(cp, p) = <<Write(PartPlan(cp, p), p)>>
            /\ Write(PartPlan(cp, p), p) \in FxStep
            /\ Write(PartPlan(cp, p), p).act = PartPlan(cp, p)
            /\ Write(PartPlan(cp, p), p).part = p
  BY DEF Writes, Write, FxStep

LEMMA PartPlanIs ==
  ASSUME fxKind \in {"issue", "discussion", "project"}, NEW cp, NEW p \in FxParts
  PROVE  /\ PartPlan(cp, p) = "create" => cp.bind[p] = 0
         /\ p = "root" /\ fxNative["root"] # 0 /\ cp.bind["root"] = 0 => PartPlan(cp, p) = "create"
<1>1. CASE fxKind = "issue" /\ p = "root"
  BY <1>1 DEF PartPlan, IssueRoot
<1>2. CASE fxKind = "issue" /\ p # "root"
  BY <1>2 DEF PartPlan, IssueComment, FxParts
<1>3. CASE fxKind = "discussion"
  BY <1>3 DEF PartPlan, DiscussionPart
<1>4. CASE fxKind = "project"
  BY <1>4 DEF PartPlan, ProjectPart
<1> QED BY <1>1, <1>2, <1>3, <1>4

\* A step that creates only what is not bound, and one that may follow another.
NewStep(x, bind) == x \in FxStep /\ (x.act = "create" => bind[x.part] = 0)
Follows(x, y) == y.act = "create" => y.part # x.part
AtMostOne(s, bind) == s = <<>> \/ \E x \in FxStep : s = <<x>> /\ NewStep(x, bind)
InOrder(s, t) == s # <<>> /\ t # <<>> => Follows(s[1], t[1])

LEMMA ShortPlans ==
  ASSUME NEW bind, NEW x, NewStep(x, bind), bind["root"] = 0 => x = Write("create", "root"),
         NEW y, NewStep(y, bind), NEW z, NewStep(z, bind)
  PROVE  /\ PlanOK(<<x>>, 1, bind) /\ <<x>> \in Seq(FxStep)
         /\ Follows(x, y) => PlanOK(<<x, y>>, 1, bind) /\ <<x, y>> \in Seq(FxStep)
         /\ Follows(x, y) /\ Follows(x, z) /\ Follows(y, z) =>
              PlanOK(<<x, y, z>>, 1, bind) /\ <<x, y, z>> \in Seq(FxStep)
<1>1. PlanOK(<<x>>, 1, bind) /\ <<x>> \in Seq(FxStep)
  BY DEF PlanOK, NewStep
<1>2. ASSUME Follows(x, y) PROVE PlanOK(<<x, y>>, 1, bind) /\ <<x, y>> \in Seq(FxStep)
  BY <1>2 DEF PlanOK, NewStep, Follows
<1>3. ASSUME Follows(x, y), Follows(x, z), Follows(y, z)
      PROVE  PlanOK(<<x, y, z>>, 1, bind) /\ <<x, y, z>> \in Seq(FxStep)
  BY <1>3 DEF PlanOK, NewStep, Follows
<1> QED BY <1>1, <1>2, <1>3

LEMMA JoinOnes ==
  ASSUME NEW x \in FxStep, NEW y \in FxStep, NEW z \in FxStep
  PROVE  <<x>> \o <<y>> = <<x, y>> /\ <<x, y>> \o <<z>> = <<x, y, z>>
<1>1. <<x>> \in Seq(FxStep) /\ <<y>> \in Seq(FxStep) /\ <<z>> \in Seq(FxStep) /\ <<x, y>> \in Seq(FxStep)
      /\ <<x, y, z>> \in Seq(FxStep)
  OBVIOUS
<1>2. <<x>> \o <<y>> = <<x, y>>
  <2>1. <<x>> \o <<y>> \in Seq(FxStep) /\ Len(<<x>> \o <<y>>) = 2
        /\ \A k \in 1..2 : (<<x>> \o <<y>>)[k] = IF k <= 1 THEN <<x>>[k] ELSE <<y>>[k - 1]
    BY <1>1, ConcatProperties
  <2>2. \A k \in 1..2 : (<<x>> \o <<y>>)[k] = <<x, y>>[k]
    BY <2>1
  <2> QED BY <1>1, <2>1, <2>2, SeqEqual
<1>3. <<x, y>> \o <<z>> = <<x, y, z>>
  <2>1. <<x, y>> \o <<z>> \in Seq(FxStep) /\ Len(<<x, y>> \o <<z>>) = 3
        /\ \A k \in 1..3 : (<<x, y>> \o <<z>>)[k] = IF k <= 2 THEN <<x, y>>[k] ELSE <<z>>[k - 2]
    BY <1>1, ConcatProperties
  <2>2. \A k \in 1..3 : (<<x, y>> \o <<z>>)[k] = <<x, y, z>>[k]
    BY <2>1
  <2> QED BY <1>1, <2>1, <2>2, SeqEqual
<1> QED BY <1>2, <1>3

LEMMA JoinedPlan ==
  ASSUME NEW bind, NEW s, NEW t, NEW u, AtMostOne(s, bind), AtMostOne(t, bind), AtMostOne(u, bind),
         InOrder(s, t), InOrder(s, u), InOrder(t, u),
         bind["root"] = 0 => s = <<Write("create", "root")>>
  PROVE  s \o t \o u \in Seq(FxStep) /\ PlanOK(s \o t \o u, 1, bind)
<1> DEFINE Good(r) == r \in Seq(FxStep) /\ PlanOK(r, 1, bind)
<1>1. \A x : <<x>> # <<>> /\ <<x>>[1] = x
  OBVIOUS
<1>2. \A r \in Seq(FxStep) : <<>> \o r = r /\ r \o <<>> = r
  BY ConcatEmptySeq
<1>3. \A x \in FxStep : <<x>> \in Seq(FxStep)
  OBVIOUS
<1>4. <<>> \o <<>> = <<>> /\ <<>> \in Seq(FxStep)
  BY <1>2
<1>5. bind["root"] = 0 => s # <<>>
  BY <1>1
<1>6. CASE s = <<>>
  <2>1. bind["root"] # 0
    BY <1>5, <1>6
  <2>2. CASE t = <<>>
    <3>1. CASE u = <<>>
      <4>1. s \o t \o u = <<>>
        BY <1>4, <1>6, <2>2, <3>1
      <4> QED BY <1>4, <4>1 DEF PlanOK
    <3>2. CASE u # <<>>
      <4>1. PICK z \in FxStep : u = <<z>> /\ NewStep(z, bind)
        BY <3>2 DEF AtMostOne
      <4>2. s \o t \o u = <<z>>
        BY <1>2, <1>3, <1>4, <1>6, <2>2, <4>1
      <4> QED BY <2>1, <4>1, <4>2, ShortPlans
    <3> QED BY <3>1, <3>2
  <2>3. CASE t # <<>>
    <3>0. PICK y \in FxStep : t = <<y>> /\ NewStep(y, bind)
      BY <2>3 DEF AtMostOne
    <3>1. CASE u = <<>>
      <4>1. s \o t \o u = <<y>>
        BY <1>2, <1>3, <1>6, <3>0, <3>1
      <4> QED BY <2>1, <3>0, <4>1, ShortPlans
    <3>2. CASE u # <<>>
      <4>1. PICK z \in FxStep : u = <<z>> /\ NewStep(z, bind)
        BY <3>2 DEF AtMostOne
      <4>2. s \o t \o u = <<y, z>>
        BY <1>2, <1>3, <1>6, <3>0, <4>1, JoinOnes
      <4>3. Follows(y, z)
        BY <1>1, <3>0, <4>1 DEF InOrder
      <4> QED BY <2>1, <3>0, <4>1, <4>2, <4>3, ShortPlans
    <3> QED BY <3>1, <3>2
  <2> QED BY <2>2, <2>3
<1>7. CASE s # <<>>
  <2>0. PICK x \in FxStep : s = <<x>> /\ NewStep(x, bind)
    BY <1>7 DEF AtMostOne
  <2>1. bind["root"] = 0 => x = Write("create", "root")
    BY <1>1, <2>0
  <2>2. CASE t = <<>>
    <3>1. CASE u = <<>>
      <4>1. s \o t \o u = <<x>>
        BY <1>2, <1>3, <2>0, <2>2, <3>1
      <4> QED BY <2>0, <2>1, <4>1, ShortPlans
    <3>2. CASE u # <<>>
      <4>1. PICK z \in FxStep : u = <<z>> /\ NewStep(z, bind)
        BY <3>2 DEF AtMostOne
      <4>2. s \o t \o u = <<x, z>>
        BY <1>2, <1>3, <2>0, <2>2, <4>1, JoinOnes
      <4>3. Follows(x, z)
        BY <1>1, <2>0, <4>1 DEF InOrder
      <4> QED BY <2>0, <2>1, <4>1, <4>2, <4>3, ShortPlans
    <3> QED BY <3>1, <3>2
  <2>3. CASE t # <<>>
    <3>0. PICK y \in FxStep : t = <<y>> /\ NewStep(y, bind)
      BY <2>3 DEF AtMostOne
    <3>4. <<x, y>> \in Seq(FxStep)
      OBVIOUS
    <3>3. Follows(x, y) /\ s \o t = <<x, y>>
      BY <1>1, <2>0, <3>0, JoinOnes DEF InOrder
    <3>1. CASE u = <<>>
      <4>1. s \o t \o u = <<x, y>>
        BY <1>2, <3>1, <3>3, <3>4
      <4> QED BY <2>0, <2>1, <3>0, <3>3, <4>1, ShortPlans
    <3>2. CASE u # <<>>
      <4>1. PICK z \in FxStep : u = <<z>> /\ NewStep(z, bind)
        BY <3>2 DEF AtMostOne
      <4>2. s \o t \o u = <<x, y, z>>
        BY <3>3, <4>1, JoinOnes
      <4>3. Follows(x, z) /\ Follows(y, z)
        BY <1>1, <2>0, <3>0, <4>1 DEF InOrder
      <4> QED BY <2>0, <2>1, <3>0, <3>3, <4>1, <4>2, <4>3, ShortPlans
    <3> QED BY <3>1, <3>2
  <2> QED BY <2>2, <2>3
<1> QED BY <1>6, <1>7

LEMMA PlanBuilt ==
  ASSUME fxKind \in {"issue", "discussion", "project"}, fxNative["root"] # 0, NEW cp
  PROVE  BuildPlan(cp) \in Seq(FxStep) /\ PlanOK(BuildPlan(cp), 1, cp.bind)
<1> DEFINE s == Writes(cp, "root")
           t == Writes(cp, "leaf")
           u == Finish(cp)
<1>1. AtMostOne(s, cp.bind) /\ (s # <<>> => s[1].part = "root")
  BY WritesIs, PartPlanIs DEF FxParts, AtMostOne, NewStep
<1>2. AtMostOne(t, cp.bind) /\ (t # <<>> => t[1].part = "leaf")
  BY WritesIs, PartPlanIs DEF FxParts, AtMostOne, NewStep
<1>3. AtMostOne(u, cp.bind) /\ (u # <<>> => u[1].part = "root" /\ u[1].act = "update")
  BY DEF Finish, Write, FxStep, FxParts, AtMostOne, NewStep
<1>4. cp.bind["root"] = 0 => s = <<Write("create", "root")>>
  BY PartPlanIs DEF Writes, FxParts
<1>5. AtMostOne(<<>>, cp.bind) /\ \A r : InOrder(r, <<>>)
  BY DEF AtMostOne, InOrder
<1> HIDE DEF s, t, u
<1>6. InOrder(s, t) /\ InOrder(s, u) /\ InOrder(t, u) /\ InOrder(u, t) /\ InOrder(t, s)
  BY <1>1, <1>2, <1>3 DEF InOrder, Follows
<1>7. CASE fxKind = "issue"
  <2>1. BuildPlan(cp) = s \o u \o t
    BY <1>7 DEF BuildPlan, s, t, u
  <2> QED BY <1>1, <1>2, <1>3, <1>4, <1>6, <2>1, JoinedPlan
<1>8. CASE fxKind = "project" /\ cp.bind["root"] # 0
  <2>1. BuildPlan(cp) = t \o s
    BY <1>8 DEF BuildPlan, s, t
  <2>2. t \o s \in Seq(FxStep) /\ t \o s \o <<>> = t \o s
    <3>0. <<>> \in Seq(FxStep) /\ \A x \in FxStep : <<x>> \in Seq(FxStep)
      OBVIOUS
    <3>1. t \in Seq(FxStep) /\ s \in Seq(FxStep)
      BY <1>1, <1>2, <3>0 DEF AtMostOne
    <3> QED BY <3>1, ConcatProperties, ConcatEmptySeq
  <2>3. PlanOK(t \o s \o <<>>, 1, cp.bind)
    BY <1>1, <1>2, <1>5, <1>6, <1>8, JoinedPlan
  <2> QED BY <2>1, <2>2, <2>3
<1>9. CASE fxKind # "issue" /\ ~(fxKind = "project" /\ cp.bind["root"] # 0)
  <2>1. BuildPlan(cp) = s \o t \o u
    BY <1>9 DEF BuildPlan, s, t, u
  <2> QED BY <1>1, <1>2, <1>3, <1>4, <1>6, <2>1, JoinedPlan
<1> QED BY <1>7, <1>8, <1>9

----------------------------------------------------------------------------
(* What an export starts from and writes over. *)

\* A checkpoint read off the forge, field by field.
DiscoveredText(p) == IF fxKind # "project" /\ p \in fxSource THEN 1 ELSE TextOf(p, FoundBinding(p))
LEMMA DiscoveredIs ==
  ASSUME NEW ids, TicketsOK(fxTickets, ids)
  PROVE  /\ Discovered = [found |-> TRUE, snap |-> Nothing, prev |-> Discovered.base,
                          base |-> Discovered.base, bind |-> Discovered.bind,
                          steps |-> <<>>, next |-> 1, pend |-> NothingPending]
         /\ Discovered.bind \in [FxParts -> Nat]
         /\ \A p \in FxParts : Discovered.bind[p] = FoundBinding(p)
         /\ Discovered.base = [p \in FxParts |-> DiscoveredText(p)]
<1> DEFINE bind == [p \in FxParts |-> FoundBinding(p)]
           text == [p \in FxParts |-> IF fxKind # "project" /\ p \in fxSource THEN 1 ELSE TextOf(p, bind[p])]
<1>1. Discovered = [found |-> TRUE, snap |-> Nothing, prev |-> text, base |-> text, bind |-> bind,
                    steps |-> <<>>, next |-> 1, pend |-> NothingPending]
  <2>1. Discovered = [NewCheckpoint EXCEPT !.found = TRUE, !.bind = bind, !.base = text, !.prev = text]
    BY DEF Discovered
  <2> HIDE DEF bind, text
  <2> QED BY <2>1 DEF NewCheckpoint
<1>2. Discovered.bind = bind /\ Discovered.base = text
  <2> HIDE DEF bind, text
  <2> QED BY <1>1
<1>3. \A p \in FxParts : Marks(p) # {} => FoundTicket(p) \in Marks(p) /\ FoundTicket(p) \in FxTicket
  <2>1. \A p \in FxParts : Marks(p) \subseteq FxTicket
    BY DEF TicketsOK, Marks
  <2>2. \A p \in FxParts : Marks(p) # {} => FoundTicket(p) \in Marks(p)
    BY DEF FoundTicket
  <2> QED BY <2>1, <2>2
<1>4. \A p \in FxParts : Marks(p) # {} => FoundTicket(p).id \in Nat /\ FoundTicket(p).names \in Nat
  BY <1>3 DEF FxTicket
<1>5. \A p \in FxParts : FoundBinding(p) \in Nat
  BY <1>4 DEF FoundBinding, SourceId, FxParts
<1>6. bind \in [FxParts -> Nat] /\ \A p \in FxParts : bind[p] = FoundBinding(p)
  BY <1>5
<1>7. text = [p \in FxParts |-> DiscoveredText(p)]
  BY <1>6 DEF DiscoveredText
<1> HIDE DEF bind, text
<1> QED BY <1>1, <1>2, <1>6, <1>7

\* A native text is a text of the project.
LEMMA NativeIs ==
  ASSUME NativeOK(fxNative, fxCounts)
  PROVE  /\ fxNative \in [FxParts -> NativeText] /\ fxNative \in [FxParts -> OwnText]
         /\ fxNative["root"] # 0
<1>1. fxCounts.native \in 0..MaxFxNative
  BY DEF NativeOK
<1>2. 0..(fxCounts.native + 1) \subseteq NativeText /\ NativeText \subseteq OwnText
  BY <1>1, TextsOrdered DEF NativeText
<1>3. fxNative \in [FxParts -> 0..(fxCounts.native + 1)] /\ fxNative["root"] # 0
  BY DEF NativeOK
<1> QED BY <1>2, <1>3

\* What the forge shows of an earlier export, when it is taken over, is text of
\* the project.
LEMMA KnownOK ==
  ASSUME ExportInv, fxCp.snap = Nothing, ~PlanRefused(Known)
  PROVE  Known \in FxCheckpoint /\ Known.pend = NothingPending
<1>1. TicketsOK(fxTickets, fxCounts.ids) /\ NativeOK(fxNative, fxCounts) /\ CheckpointOK(fxCp)
      /\ fxKind \in {"issue", "discussion", "project"}
  BY DEF ExportInv
<1>2. CASE fxCp.found
  <2>1. fxCp \in FxCheckpoint /\ fxCp.steps = <<>> /\ (fxCp.pend # NothingPending => fxCp.next <= Len(fxCp.steps))
    BY <1>1 DEF CheckpointOK
  <2>2. fxCp.next \in Nat \ {0} /\ Len(fxCp.steps) = 0
    BY <2>1 DEF FxCheckpoint
  <2>3. Known = fxCp
    BY <1>2 DEF Known
  <2> QED BY <2>1, <2>2, <2>3
<1>3. CASE ~fxCp.found
  <2>1. Known = Discovered /\ ~Unrecoverable
    BY <1>3 DEF Known, PlanRefused
  <2> DEFINE bind == Discovered.bind
             base == Discovered.base
  <2>2. bind \in [FxParts -> Nat] /\ \A p \in FxParts : bind[p] = FoundBinding(p)
    BY <1>1, DiscoveredIs
  <2>3. base = [p \in FxParts |-> DiscoveredText(p)]
    BY <1>1, DiscoveredIs
  <2>4. \A p \in FxParts : DiscoveredText(p) \in OwnText
    <3>1. CASE fxKind = "project"
      <4>1. \A p \in FxParts : DiscoveredText(p) = Shown(bind)[p]
        BY <1>1, <2>2, <3>1, ShownIs DEF DiscoveredText
      <4>2. ASSUME NEW text \in [FxParts -> OwnText], BoardShows(text)
            PROVE  \A p \in FxParts : Shown(bind)[p] \in OwnText
        <5>1. \A x : [Discovered EXCEPT !.base = x].bind = Discovered.bind
                     /\ ("base" \in DOMAIN Discovered => [Discovered EXCEPT !.base = x].base = x)
          OBVIOUS
        <5>0. \A a, b : "base" \in DOMAIN [found |-> TRUE, snap |-> Nothing, prev |-> a, base |-> a, bind |-> b,
                                           steps |-> <<>>, next |-> 1, pend |-> NothingPending]
          OBVIOUS
        <5>2. "base" \in DOMAIN Discovered
          BY <1>1, <5>0, DiscoveredIs
        <5>3. Shown(bind) = text
          BY <4>2, <5>1, <5>2 DEF BoardShows, SameBoard
        <5> QED BY <4>2, <5>3
      <4>3. CASE fxSource = {} /\ Marks("root") = {}
        <5>1. \A p \in FxParts : FoundBinding(p) = 0
          BY <4>3 DEF FoundBinding
        <5> QED BY <1>1, <3>1, <5>1, TextIs, TextsOrdered DEF DiscoveredText
      <4>4. CASE fxSource = {} /\ Marks("root") # {}
        <5>1. PICK t \in Marks("root") : TRUE
          BY <4>4
        <5>2. t.snap \in [FxParts -> OwnText]
          <6>1. t \in FxTicket
            BY <1>1, <5>1 DEF TicketsOK, Marks, FxParts
          <6>2. t.snap \in [FxParts -> NativeText]
            BY <6>1 DEF FxTicket
          <6> QED BY <6>2, TextsOrdered
        <5>3. BoardShows(t.snap)
          BY <2>1, <3>1, <4>4, <5>1 DEF Unrecoverable
        <5> QED BY <4>1, <4>2, <5>2, <5>3
      <4>5. CASE fxSource # {}
        <5>1. BoardShows(ImportedText) \/ BoardShows(fxNative)
          BY <1>3, <2>1, <3>1, <4>5 DEF Unrecoverable
        <5>2. ImportedText \in [FxParts -> OwnText] /\ fxNative \in [FxParts -> OwnText]
          <6>1. 0 \in OwnText /\ 1 \in OwnText
            BY TextsOrdered DEF OwnText
          <6> QED BY <1>1, <6>1, NativeIs DEF ImportedText
        <5> QED BY <4>1, <4>2, <5>1, <5>2
      <4> QED BY <4>3, <4>4, <4>5
    <3>2. CASE fxKind # "project"
      <4> SUFFICES ASSUME NEW p \in FxParts PROVE DiscoveredText(p) \in OwnText
        OBVIOUS
      <4>1. CASE p \in fxSource
        <5>1. 1 \in OwnText
          BY TextsOrdered DEF OwnText
        <5> QED BY <3>2, <4>1, <5>1 DEF DiscoveredText
      <4>2. CASE p \notin fxSource /\ FoundBinding(p) = 0
        BY <1>1, <4>2, TextIs, TextsOrdered DEF DiscoveredText
      <4>3. CASE p \notin fxSource /\ FoundBinding(p) # 0
        <5>1. Marks(p) # {} /\ FoundBinding(p) = FoundTicket(p).id
          BY <3>2, <4>3 DEF FoundBinding
        <5>2. FoundTicket(p) \in Marks(p) /\ FoundTicket(p) \in fxTickets[p]
          BY <5>1 DEF FoundTicket, Marks
        <5>3. FoundTicket(p).text = fxNative[p]
          BY <1>3, <2>1, <3>2, <4>3, <5>1, <5>2 DEF Unrecoverable
        <5>4. DiscoveredText(p) = FoundTicket(p).text
          BY <1>1, <4>3, <5>1, <5>2, TextIs DEF DiscoveredText
        <5> QED BY <1>1, <5>3, <5>4, NativeIs
      <4> QED BY <4>1, <4>2, <4>3
    <3> QED BY <3>1, <3>2
  <2>5. base \in [FxParts -> OwnText] /\ base \in [FxParts -> Nat]
    BY <2>3, <2>4, TextsOrdered
  <2>6. Discovered = [found |-> TRUE, snap |-> Nothing, prev |-> base, base |-> base,
                      bind |-> bind, steps |-> <<>>, next |-> 1, pend |-> NothingPending]
    BY <1>1, DiscoveredIs
  <2>7. Nothing \in [FxParts -> NativeText] /\ <<>> \in Seq(FxStep)
    BY TextsOrdered DEF Nothing
  <2> HIDE DEF bind, base
  <2>8. Discovered \in FxCheckpoint /\ Discovered.pend = NothingPending
    BY <2>2, <2>5, <2>6, <2>7 DEF FxCheckpoint
  <2> QED BY <2>1, <2>8
<1> QED BY <1>2, <1>3

\* The step an export is at, and what it wants to write.
LEMMA StepIs ==
  ASSUME CheckpointOK(fxCp), fxCp.next <= Len(fxCp.steps)
  PROVE  /\ fxCp.next \in 1..Len(fxCp.steps) /\ fxCp.steps \in Seq(FxStep)
         /\ TheStep \in FxStep /\ TheStep.part \in FxParts /\ TheStep.act \in {"create", "update"}
         /\ Want(TheStep) \in OwnText
<1>1. fxCp.steps \in Seq(FxStep) /\ fxCp.next \in Nat \ {0} /\ fxCp.snap \in [FxParts -> NativeText]
  BY DEF CheckpointOK, FxCheckpoint
<1>2. fxCp.next \in 1..Len(fxCp.steps)
  BY <1>1
<1>3. TheStep \in FxStep
  BY <1>1, <1>2 DEF TheStep
<1>4. TheStep.part \in FxParts /\ TheStep.act \in {"create", "update"}
  BY <1>3 DEF FxStep
<1>5. fxCp.snap[TheStep.part] \in OwnText
  BY <1>1, <1>4, TextsOrdered
<1>6. Want(TheStep) \in OwnText
  BY <1>5, TextsOrdered DEF Want
<1> QED BY <1>1, <1>2, <1>3, <1>4, <1>6

\* What has not moved since the export looked is text of the project.
LEMMA OverIsOurs ==
  ASSUME TicketsOK(fxTickets, fxCounts.ids), CheckpointOK(fxCp),
         fxCp.next <= Len(fxCp.steps), Unmoved(fxCp, TheStep)
  PROVE  TextOf(TheStep.part, fxCp.bind[TheStep.part]) \in OwnText
<1>1. fxCp.base \in [FxParts -> OwnText]
  BY DEF CheckpointOK, FxCheckpoint
<1>2. TheStep.part \in FxParts /\ TheStep.act \in {"create", "update"} /\ fxCp.next \in 1..Len(fxCp.steps)
  BY StepIs
<1>3. PlanOK(fxCp.steps, fxCp.next, fxCp.bind)
  BY DEF CheckpointOK
<1>4. TextOf(TheStep.part, 0) = 0 /\ 0 \in OwnText
  BY <1>2, TextIs, TextsOrdered
<1>5. CASE fxKind = "project"
  <2>1. CASE fxCp.bind["root"] = 0
    <3>1. TheStep.part = "root"
      BY <1>3, <2>1 DEF PlanOK, TheStep, Write
    <3> QED BY <1>4, <2>1, <3>1
  <2>2. CASE fxCp.bind["root"] # 0
    <3>1. Shown(fxCp.bind) = fxCp.base
      BY <1>5, <2>2 DEF Unmoved, SameBoard
    <3>2. Shown(fxCp.bind)[TheStep.part] = TextOf(TheStep.part, fxCp.bind[TheStep.part])
      BY <1>2, ShownIs
    <3> QED BY <1>1, <1>2, <3>1, <3>2
  <2> QED BY <2>1, <2>2
<1>6. CASE fxKind # "project" /\ TheStep.act = "create"
  <2>1. fxCp.bind[TheStep.part] = 0
    <3>1. fxCp.next \in fxCp.next..Len(fxCp.steps)
      BY <1>2
    <3> QED BY <1>3, <1>6, <3>1 DEF PlanOK, TheStep
  <2> QED BY <1>4, <2>1
<1>7. CASE fxKind # "project" /\ TheStep.act # "create"
  <2>1. TextOf(TheStep.part, fxCp.bind[TheStep.part]) = fxCp.base[TheStep.part]
    BY <1>7 DEF Unmoved
  <2> QED BY <1>1, <1>2, <2>1
<1> QED BY <1>5, <1>6, <1>7

----------------------------------------------------------------------------
(* Plans and checkpoints as they advance. *)

\* A step done: its part is bound, the rest of the plan stands.
LEMMA PlanAdvances ==
  ASSUME NEW steps \in Seq(FxStep), NEW next \in 1..Len(steps), NEW bind \in [FxParts -> Nat],
         PlanOK(steps, next, bind), NEW id \in Nat \ {0}
  PROVE  PlanOK(steps, next + 1, [bind EXCEPT ![steps[next].part] = id])
<1> DEFINE b == [bind EXCEPT ![steps[next].part] = id]
<1>0. \A k \in 1..Len(steps) : steps[k] \in FxStep
  OBVIOUS
<1>1. steps[next].part \in FxParts
  BY <1>0 DEF FxStep
<1>2. b[steps[next].part] = id /\ \A p \in FxParts : p # steps[next].part => b[p] = bind[p]
  BY <1>1
<1>3. \A k \in (next + 1)..Len(steps) : k \in next..Len(steps) /\ k # next
  OBVIOUS
<1>4. \A k \in 1..Len(steps) : steps[k].part \in FxParts
  BY <1>0 DEF FxStep
<1> HIDE DEF b
<1>5. b["root"] # 0
  <2>1. bind["root"] = 0 => steps[next].part = "root"
    BY DEF PlanOK, Write
  <2>2. bind["root"] = 0 => b["root"] = id
    BY <1>2, <2>1
  <2>3. bind["root"] # 0 => b["root"] # 0
    BY <1>2 DEF FxParts
  <2> QED BY <2>2, <2>3
<1>6. ASSUME NEW k \in (next + 1)..Len(steps), steps[k].act = "create"
      PROVE  b[steps[k].part] = 0 /\ \A j \in (next + 1)..(k - 1) : steps[j].part # steps[k].part
  <2>1. next \in next..(k - 1) /\ k \in next..Len(steps) /\ k \in 1..Len(steps)
        /\ \A j \in (next + 1)..(k - 1) : j \in next..(k - 1)
    OBVIOUS
  <2>2. bind[steps[k].part] = 0 /\ \A j \in next..(k - 1) : steps[j].part # steps[k].part
    BY <1>6, <2>1 DEF PlanOK
  <2>3. b[steps[k].part] = bind[steps[k].part]
    BY <1>2, <1>4, <2>1, <2>2
  <2> QED BY <2>1, <2>2, <2>3
<1>7. PlanOK(steps, next + 1, b)
  BY <1>3, <1>5, <1>6 DEF PlanOK
<1> QED BY <1>7 DEF b

\* A step skipped: what it would have written was bound already.
LEMMA PlanSkips ==
  ASSUME NEW steps \in Seq(FxStep), NEW next \in 1..Len(steps), NEW bind \in [FxParts -> Nat],
         PlanOK(steps, next, bind), bind["root"] # 0
  PROVE  PlanOK(steps, next + 1, bind)
<1>1. \A k \in (next + 1)..Len(steps) :
        k \in next..Len(steps) /\ \A j \in (next + 1)..(k - 1) : j \in next..(k - 1)
  OBVIOUS
<1> QED BY <1>1 DEF PlanOK

\* The fields of a checkpoint.
LEMMA FieldsIs ==
  ASSUME NEW cp \in FxCheckpoint
  PROVE  /\ cp.found \in BOOLEAN /\ cp.snap \in [FxParts -> NativeText] /\ cp.prev \in [FxParts -> Nat]
         /\ cp.base \in [FxParts -> OwnText] /\ cp.bind \in [FxParts -> Nat] /\ cp.steps \in Seq(FxStep)
         /\ cp.next \in Nat \ {0} /\ cp.pend \in {NothingPending} \cup FxIntent
  BY DEF FxCheckpoint

\* An export that starts freezes its snapshot and its plan.
LEMMA Starts ==
  ASSUME NEW cp \in FxCheckpoint, cp.pend = NothingPending,
         NEW snap \in [FxParts -> NativeText], NEW steps \in Seq(FxStep), snap # Nothing,
         PlanOK(steps, 1, cp.bind)
  PROVE  CheckpointOK([cp EXCEPT !.snap = snap, !.steps = steps, !.next = 1])
<1> DEFINE new == [cp EXCEPT !.snap = snap, !.steps = steps, !.next = 1]
<1>1. /\ new.pend = cp.pend /\ new.snap = snap /\ new.steps = steps /\ new.next = 1
      /\ new.bind = cp.bind
  BY DEF FxCheckpoint
<1>2. new \in FxCheckpoint
  <2>1. \A n \in Nat \ {0} : [cp EXCEPT !.snap = snap, !.steps = steps, !.next = n] \in FxCheckpoint
    BY DEF FxCheckpoint
  <2>2. 1 \in Nat \ {0}
    OBVIOUS
  <2> QED BY <2>1, <2>2
<1> HIDE DEF new
<1>3. CheckpointOK(new)
  BY <1>1, <1>2 DEF CheckpointOK
<1> QED BY <1>3 DEF new

\* A baseline taken over from what the forge shows, the step skipped.
LEMMA Skips ==
  ASSUME NEW cp, CheckpointOK(cp), cp.next <= Len(cp.steps), cp.pend = NothingPending,
         NEW text \in OwnText, cp.bind["root"] # 0
  PROVE  CheckpointOK([cp EXCEPT !.base["root"] = text, !.next = @ + 1])
<1> DEFINE new == [cp EXCEPT !.base["root"] = text, !.next = @ + 1]
<1>0. cp \in FxCheckpoint
  BY DEF CheckpointOK
<1>1. /\ new.pend = cp.pend /\ new.snap = cp.snap /\ new.steps = cp.steps /\ new.next = cp.next + 1
      /\ new.bind = cp.bind
  BY <1>0 DEF FxCheckpoint
<1>2. new \in FxCheckpoint
  <2>0. cp.base \in [FxParts -> OwnText] /\ cp.next \in Nat \ {0}
    BY <1>0, FieldsIs
  <2>1. cp.next + 1 \in Nat \ {0}
    BY <2>0
  <2>2. [cp.base EXCEPT !["root"] = text] \in [FxParts -> OwnText]
    BY <2>0
  <2>3. \A b, n : b \in [FxParts -> OwnText] /\ n \in Nat \ {0} => [cp EXCEPT !.base = b, !.next = n] \in FxCheckpoint
    BY <1>0 DEF FxCheckpoint
  <2>4. new = [cp EXCEPT !.base = [cp.base EXCEPT !["root"] = text], !.next = cp.next + 1]
    BY <1>0 DEF FxCheckpoint
  <2> QED BY <2>1, <2>2, <2>3, <2>4
<1>3. PlanOK(cp.steps, cp.next + 1, cp.bind)
  <2>1. cp.steps \in Seq(FxStep) /\ cp.next \in 1..Len(cp.steps) /\ cp.bind \in [FxParts -> Nat]
    BY <1>0, FieldsIs
  <2>2. PlanOK(cp.steps, cp.next, cp.bind)
    BY DEF CheckpointOK
  <2> QED BY <2>1, <2>2, PlanSkips
<1>4. cp.snap = Nothing => cp.steps = <<>>
  BY DEF CheckpointOK
<1> HIDE DEF new
<1>5. CheckpointOK(new)
  BY <1>1, <1>2, <1>3, <1>4 DEF CheckpointOK
<1> QED BY <1>5 DEF new

\* An intent written down, or taken to its next phase.
LEMMA Intends ==
  ASSUME NEW cp, CheckpointOK(cp), cp.next <= Len(cp.steps),
         NEW pend \in FxIntent, pend.phase = "confirmed" => pend.id # 0
  PROVE  CheckpointOK([cp EXCEPT !.pend = pend])
<1> DEFINE new == [cp EXCEPT !.pend = pend]
<1>0. cp \in FxCheckpoint
  BY DEF CheckpointOK
<1>1. /\ new.pend = pend /\ new.snap = cp.snap /\ new.steps = cp.steps /\ new.next = cp.next
      /\ new.bind = cp.bind
  BY <1>0 DEF FxCheckpoint
<1>2. new \in FxCheckpoint
  BY <1>0 DEF FxCheckpoint
<1>3. (cp.snap = Nothing => cp.steps = <<>>) /\ PlanOK(cp.steps, cp.next, cp.bind)
  BY DEF CheckpointOK
<1> HIDE DEF new
<1>4. CheckpointOK(new)
  BY <1>1, <1>2, <1>3 DEF CheckpointOK
<1> QED BY <1>4 DEF new

\* A confirmed write becomes the baseline and its ticket the one bound.
LEMMA Progresses ==
  ASSUME NEW cp, CheckpointOK(cp), cp.next <= Len(cp.steps),
         NEW id \in Nat \ {0}, NEW seen \in [FxParts -> OwnText]
  PROVE  CheckpointOK([cp EXCEPT !.bind[cp.steps[cp.next].part] = id, !.base = seen, !.next = @ + 1,
                                       !.pend = NothingPending, !.found = TRUE])
<1> DEFINE p == cp.steps[cp.next].part
           bind == [cp.bind EXCEPT ![p] = id]
           new == [cp EXCEPT !.bind[p] = id, !.base = seen, !.next = @ + 1, !.pend = NothingPending, !.found = TRUE]
           same == [cp EXCEPT !.bind = bind, !.base = seen, !.next = cp.next + 1, !.pend = NothingPending, !.found = TRUE]
<1>0. cp \in FxCheckpoint
  BY DEF CheckpointOK
<1>1. bind \in [FxParts -> Nat] /\ cp.next + 1 \in Nat \ {0}
  <2>1. cp.bind \in [FxParts -> Nat] /\ cp.next \in Nat \ {0}
    BY <1>0, FieldsIs
  <2>2. bind \in [FxParts -> Nat]
    BY <2>1
  <2> QED BY <2>1, <2>2
<1>2. PlanOK(cp.steps, cp.next + 1, bind)
  <2>1. cp.steps \in Seq(FxStep) /\ cp.next \in 1..Len(cp.steps) /\ cp.bind \in [FxParts -> Nat]
    BY <1>0, FieldsIs
  <2>2. PlanOK(cp.steps, cp.next, cp.bind)
    BY DEF CheckpointOK
  <2> QED BY <2>1, <2>2, PlanAdvances
<1>3. new = same
  BY <1>0 DEF FxCheckpoint
<1> HIDE DEF bind
<1>4. /\ same.pend = NothingPending /\ same.snap = cp.snap /\ same.steps = cp.steps /\ same.next = cp.next + 1
      /\ same.bind = bind
  BY <1>0 DEF FxCheckpoint
<1>5. same \in FxCheckpoint
  BY <1>0, <1>1 DEF FxCheckpoint
<1>6. cp.snap = Nothing => cp.steps = <<>>
  BY DEF CheckpointOK
<1> HIDE DEF same
<1>7. CheckpointOK(same)
  BY <1>2, <1>4, <1>5, <1>6 DEF CheckpointOK
<1> QED BY <1>3, <1>7 DEF new

\* A finished export forgets its snapshot and its plan.
LEMMA Completes ==
  ASSUME NEW cp, CheckpointOK(cp), cp.next > Len(cp.steps)
  PROVE  CheckpointOK([cp EXCEPT !.prev = cp.snap, !.snap = Nothing, !.steps = <<>>, !.next = 1])
<1> DEFINE new == [cp EXCEPT !.prev = cp.snap, !.snap = Nothing, !.steps = <<>>, !.next = 1]
<1>0. cp \in FxCheckpoint
  BY DEF CheckpointOK
<1>1. /\ new.pend = cp.pend /\ new.snap = Nothing /\ new.steps = <<>> /\ new.next = 1
      /\ new.bind = cp.bind
  BY <1>0 DEF FxCheckpoint
<1>2. cp.pend = NothingPending
  <2>1. cp.pend # NothingPending => cp.next <= Len(cp.steps)
    BY DEF CheckpointOK
  <2>2. cp.next \in Nat /\ cp.steps \in Seq(FxStep)
    BY <1>0, FieldsIs
  <2> QED BY <2>1, <2>2
<1>3. new \in FxCheckpoint
  <2>1. cp.snap \in [FxParts -> Nat] /\ Nothing \in [FxParts -> NativeText]
    <3>1. cp.snap \in [FxParts -> NativeText] /\ NativeText \subseteq Nat
      BY <1>0, FieldsIs, TextsOrdered
    <3> QED BY <3>1, TextsOrdered DEF Nothing
  <2>2. \A n \in Nat \ {0}, steps \in Seq(FxStep) :
          [cp EXCEPT !.prev = cp.snap, !.snap = Nothing, !.steps = steps, !.next = n] \in FxCheckpoint
    BY <1>0, <2>1 DEF FxCheckpoint
  <2>3. 1 \in Nat \ {0} /\ <<>> \in Seq(FxStep)
    OBVIOUS
  <2> QED BY <2>2, <2>3
<1> HIDE DEF new
<1>4. PlanOK(<<>>, 1, new.bind)
  BY DEF PlanOK
<1>5. CheckpointOK(new)
  BY <1>1, <1>2, <1>3, <1>4 DEF CheckpointOK
<1> QED BY <1>5 DEF new

----------------------------------------------------------------------------
(* One lemma per step. *)

LEMMA StartKeeps ==
  ASSUME ExportInv, StartExport
  PROVE  ExportInv'
<1>1. /\ fxKind \in {"issue", "discussion", "project"} /\ NativeOK(fxNative, fxCounts)
      /\ TicketsOK(fxTickets, fxCounts.ids)
  BY DEF ExportInv
<1>2. Known \in FxCheckpoint /\ Known.pend = NothingPending
  BY KnownOK DEF StartExport
<1>3. fxNative \in [FxParts -> NativeText] /\ fxNative \in [FxParts -> OwnText] /\ fxNative["root"] # 0
  BY <1>1, NativeIs
<1> DEFINE from == Rebased(Known)
<1>4. from \in FxCheckpoint /\ from.bind = Known.bind /\ from.pend = Known.pend
  <2> DEFINE cp == Known
             b == [cp.base EXCEPT !["root"] = fxNative["root"]]
  <2>1. b \in [FxParts -> OwnText]
    <3>1. cp.base \in [FxParts -> OwnText] /\ fxNative["root"] \in OwnText
      BY <1>2, <1>3, FieldsIs DEF FxParts
    <3> QED BY <3>1
  <2>2. from = cp \/ from = [cp EXCEPT !.base["root"] = fxNative["root"]]
    BY DEF Rebased
  <2>3. cp \in FxCheckpoint
    BY <1>2
  <2> HIDE DEF cp, from
  <2>4. [cp EXCEPT !.base["root"] = fxNative["root"]] = [cp EXCEPT !.base = b]
    BY <2>3 DEF FxCheckpoint
  <2> HIDE DEF b
  <2>5. [cp EXCEPT !.base = b] \in FxCheckpoint /\ [cp EXCEPT !.base = b].bind = cp.bind
        /\ [cp EXCEPT !.base = b].pend = cp.pend
    BY <2>1, <2>3 DEF FxCheckpoint
  <2>6. from \in FxCheckpoint /\ from.bind = cp.bind /\ from.pend = cp.pend
    BY <2>2, <2>3, <2>4, <2>5
  <2> QED BY <2>6 DEF cp, from
<1>5. CurrentSnapshot \in [FxParts -> NativeText] /\ CurrentSnapshot # Nothing
  <2>1. \A p \in FxParts : fxNative[p] \in NativeText
    BY <1>3
  <2>2. CurrentSnapshot["root"] # 0 /\ Nothing["root"] = 0
    BY <1>3 DEF CurrentSnapshot, Nothing, FxParts
  <2> QED BY <2>1, <2>2 DEF CurrentSnapshot
<1>6. BuildPlan(Known) \in Seq(FxStep) /\ PlanOK(BuildPlan(Known), 1, Known.bind)
  BY <1>1, <1>3, PlanBuilt
<1>7. fxCp' = [from EXCEPT !.snap = CurrentSnapshot, !.steps = BuildPlan(Known), !.next = 1]
      /\ fxProc' = [pc |-> "work", fresh |-> FALSE] /\ UNCHANGED <<fxKind, fxSource, fxLate, fxNative, fxTickets, fxWire, fxCounts>>
  BY DEF StartExport, SaveCp
<1> HIDE DEF from
<1>8. CheckpointOK(fxCp')
  BY <1>2, <1>4, <1>5, <1>6, <1>7, Starts
<1>9. ProcOK(fxKind, fxCp', fxProc')
  BY <1>7 DEF ProcOK
<1> QED BY <1>7, <1>8, <1>9 DEF ExportInv

\* A step that leaves the checkpoint alone and ends or resumes the command.
LEMMA RestKeeps ==
  ASSUME ExportInv, UNCHANGED <<fxKind, fxSource, fxLate, fxNative, fxTickets, fxCp, fxWire>>,
         fxProc' = Resting \/ fxProc' = [pc |-> "work", fresh |-> TRUE] \/ UNCHANGED fxProc,
         UNCHANGED fxCounts \/ fxCounts' = [fxCounts EXCEPT !.stops = @ + 1]
  PROVE  ExportInv'
<1>1. ProcOK(fxKind, fxCp, fxProc)
  BY DEF ExportInv
<1>2. ProcOK(fxKind, fxCp, fxProc')
  BY <1>1 DEF ProcOK, Resting
<1>3. NativeOK(fxNative, fxCounts)
  BY DEF ExportInv
<1>4. NativeOK(fxNative, fxCounts') /\ fxCounts'.ids = fxCounts.ids
  <2>1. fxCounts \in [ids : Nat, native : 0..MaxFxNative, user : Nat, stops : Nat]
    BY <1>3 DEF NativeOK
  <2>2. fxCounts' \in [ids : Nat, native : 0..MaxFxNative, user : Nat, stops : Nat]
        /\ fxCounts'.ids = fxCounts.ids /\ fxCounts'.native = fxCounts.native
    BY <2>1
  <2> QED BY <1>3, <2>2 DEF NativeOK
<1> QED BY <1>2, <1>4 DEF ExportInv

LEMMA PrepareKeeps ==
  ASSUME ExportInv, PrepareIntent
  PROVE  ExportInv'
<1>1. /\ fxProc.pc = "work" /\ fxCp.next <= Len(fxCp.steps) /\ fxCp.pend = NothingPending
      /\ UNCHANGED <<fxKind, fxSource, fxLate, fxNative, fxTickets, fxWire, fxCounts>>
  BY DEF PrepareIntent, FxAt
<1>2. CheckpointOK(fxCp) /\ fxCp \in FxCheckpoint /\ PlanOK(fxCp.steps, fxCp.next, fxCp.bind)
  BY DEF ExportInv, CheckpointOK
<1>3. TheStep \in FxStep /\ TheStep.part \in FxParts /\ Want(TheStep) \in OwnText /\ fxCp.next \in 1..Len(fxCp.steps)
  BY <1>1, <1>2, StepIs
<1>4. CASE /\ fxKind = "issue" /\ TheStep = Write("update", "root")
           /\ fxCp' = [fxCp EXCEPT !.base["root"] = Want(TheStep), !.next = @ + 1] /\ UNCHANGED fxProc
  <2>1. fxCp.bind["root"] # 0
    <3>1. TheStep # Write("create", "root")
      BY <1>4 DEF Write
    <3> QED BY <1>1, <1>2, <3>1 DEF PlanOK, TheStep
  <2>2. CheckpointOK(fxCp')
    BY <1>1, <1>2, <1>3, <1>4, <2>1, Skips
  <2>3. ProcOK(fxKind, fxCp', fxProc')
    BY <1>1, <1>4 DEF ProcOK
  <2> QED BY <1>1, <2>2, <2>3 DEF ExportInv
<1>5. CASE /\ fxCp' = [fxCp EXCEPT !.pend = [phase |-> "prepared", rest |-> fxCp.base[OtherPart(TheStep.part)], id |-> 0]]
           /\ UNCHANGED fxProc
  <2> DEFINE pend == [phase |-> "prepared", rest |-> fxCp.base[OtherPart(TheStep.part)], id |-> 0]
  <2>1. fxCp.base[OtherPart(TheStep.part)] \in OwnText
    <3>1. OtherPart(TheStep.part) \in FxParts
      BY DEF OtherPart, FxParts
    <3>2. fxCp.base \in [FxParts -> OwnText]
      BY <1>2, FieldsIs
    <3> QED BY <3>1, <3>2
  <2>2. pend \in FxIntent /\ pend.phase # "confirmed"
    BY <2>1 DEF FxIntent
  <2> HIDE DEF pend
  <2>3. CheckpointOK([fxCp EXCEPT !.pend = pend])
    BY <1>1, <1>2, <2>2, Intends
  <2>4. CheckpointOK(fxCp')
    BY <1>5, <2>3 DEF pend
  <2>5. ProcOK(fxKind, fxCp', fxProc')
    BY <1>1, <1>5 DEF ProcOK
  <2> QED BY <1>1, <2>4, <2>5 DEF ExportInv
<1>6. CASE fxProc' = Resting /\ UNCHANGED fxCp
  BY <1>1, <1>6, RestKeeps
<1> QED BY <1>4, <1>5, <1>6 DEF PrepareIntent, SaveCp, EndExport

\* An intent that is written down.
LEMMA PendingIs ==
  ASSUME CheckpointOK(fxCp), fxCp.pend # NothingPending
  PROVE  fxCp.pend \in FxIntent /\ fxCp.next <= Len(fxCp.steps) /\ fxCp \in FxCheckpoint
<1>1. fxCp \in FxCheckpoint /\ fxCp.next <= Len(fxCp.steps)
  BY DEF CheckpointOK
<1> QED BY <1>1, FieldsIs

LEMMA MarkKeeps ==
  ASSUME ExportInv, MarkInFlight
  PROVE  ExportInv'
<1>1. /\ fxCp.pend.phase = "prepared" /\ UNCHANGED <<fxKind, fxSource, fxLate, fxNative, fxTickets, fxWire, fxCounts>>
  BY DEF MarkInFlight
<1>2. CheckpointOK(fxCp) /\ TicketsOK(fxTickets, fxCounts.ids) /\ fxKind \in {"issue", "discussion", "project"}
  BY DEF ExportInv
<1>3. fxCp.pend # NothingPending
  BY <1>1 DEF NothingPending
<1>4. fxCp.pend \in FxIntent /\ fxCp.next <= Len(fxCp.steps) /\ fxCp \in FxCheckpoint
  BY <1>2, <1>3, PendingIs
<1>5. CASE fxProc' = Resting /\ UNCHANGED fxCp
  BY <1>1, <1>5, RestKeeps
<1>6. CASE /\ ~(fxKind = "discussion" /\ ~Unmoved(fxCp, TheStep))
           /\ fxCp' = [fxCp EXCEPT !.pend.phase = "in_flight"]
           /\ fxProc' = [pc |-> "send", over |-> TextOf(TheStep.part, fxCp.bind[TheStep.part])]
  <2> DEFINE pend == [fxCp.pend EXCEPT !.phase = "in_flight"]
  <2>1. pend \in FxIntent /\ pend.phase = "in_flight"
    BY <1>4 DEF FxIntent
  <2>2. fxCp' = [fxCp EXCEPT !.pend = pend]
    BY <1>4, <1>6 DEF FxCheckpoint
  <2> HIDE DEF pend
  <2>3. CheckpointOK(fxCp')
    BY <1>2, <1>4, <2>1, <2>2, Intends
  <2>4. fxCp'.pend # NothingPending
    <3>1. fxCp'.pend = pend
      BY <1>4, <2>2 DEF FxCheckpoint
    <3> QED BY <2>1, <3>1 DEF NothingPending
  <2>5. fxKind = "discussion" => TextOf(TheStep.part, fxCp.bind[TheStep.part]) \in OwnText
    BY <1>2, <1>4, <1>6, OverIsOurs
  <2>6. ProcOK(fxKind, fxCp', fxProc')
    BY <1>6, <2>4, <2>5 DEF ProcOK
  <2> QED BY <1>1, <2>3, <2>6 DEF ExportInv
<1> QED BY <1>5, <1>6 DEF MarkInFlight, SaveCp, EndExport

LEMMA SendKeeps ==
  ASSUME ExportInv, SendMutation
  PROVE  ExportInv'
<1>1. /\ fxProc.pc = "send" /\ UNCHANGED <<fxKind, fxSource, fxLate, fxNative, fxTickets, fxCp, fxCounts>>
  BY DEF SendMutation, FxAt
<1>2. /\ CheckpointOK(fxCp) /\ TicketsOK(fxTickets, fxCounts.ids) /\ ProcOK(fxKind, fxCp, fxProc)
      /\ fxKind \in {"issue", "discussion", "project"}
  BY DEF ExportInv
<1>3. fxCp.pend # NothingPending
  BY <1>1, <1>2 DEF ProcOK
<1>4. fxCp.pend \in FxIntent /\ fxCp.next <= Len(fxCp.steps) /\ fxCp \in FxCheckpoint
  BY <1>2, <1>3, PendingIs
<1>5. TheStep.part \in FxParts /\ TheStep.act \in {"create", "update"} /\ Want(TheStep) \in OwnText
  BY <1>2, <1>4, StepIs
<1>6. fxCp.bind \in [FxParts -> Nat] /\ fxCp.snap \in [FxParts -> NativeText]
  BY <1>4, FieldsIs
<1>7. CASE fxProc' = Resting /\ UNCHANGED fxWire
  BY <1>1, <1>7, RestKeeps
<1>8. CASE ~(fxKind # "discussion" /\ ~Unmoved(fxCp, TheStep)) /\ fxProc' = [pc |-> "wait", answer |-> 0]
  <2> DEFINE names == IF Reads /\ TheStep.part = "root" THEN fxCp.bind["leaf"] ELSE 0
             over == IF fxKind = "discussion" THEN fxProc.over ELSE TextOf(TheStep.part, fxCp.bind[TheStep.part])
             mark == TheStep.part \notin fxSource /\ (Reads => Want(TheStep) # Interim)
             wire == [act |-> TheStep.act, part |-> TheStep.part, target |-> fxCp.bind[TheStep.part],
                      text |-> Want(TheStep), mark |-> mark, names |-> names, snap |-> fxCp.snap, over |-> over]
  <2>1. fxWire' = wire
    BY <1>8, <1>1 DEF SendMutation, EndExport, Resting
  <2>2. names \in Nat /\ fxCp.bind[TheStep.part] \in Nat
    BY <1>5, <1>6 DEF FxParts
  <2>3. over \in OwnText
    <3>1. CASE fxKind = "discussion"
      BY <1>1, <1>2, <3>1 DEF ProcOK
    <3>2. CASE fxKind # "discussion"
      <4>1. TextOf(TheStep.part, fxCp.bind[TheStep.part]) \in OwnText
        BY <1>2, <1>4, <1>8, <3>2, OverIsOurs
      <4> QED BY <3>2, <4>1
    <3> QED BY <3>1, <3>2
  <2>4. mark \in BOOLEAN
    OBVIOUS
  <2> HIDE DEF names, over, mark
  <2>5. wire \in FxRequest
    BY <1>5, <1>6, <2>2, <2>3, <2>4 DEF FxRequest
  <2>6. ProcOK(fxKind, fxCp', fxProc')
    BY <1>1, <1>3, <1>8 DEF ProcOK
  <2> QED BY <1>1, <2>1, <2>5, <2>6 DEF ExportInv
<1> QED BY <1>7, <1>8 DEF SendMutation, EndExport

----------------------------------------------------------------------------
(* The forge carries a request out. *)

LEMMA MaxOfTwo ==
  ASSUME NEW a \in Nat, NEW b \in Nat
  PROVE  Max({a, b}) \in Nat /\ Max({a, b}) >= a /\ Max({a, b}) >= b
<1>1. \E x \in {a, b} : \A y \in {a, b} : x >= y
  OBVIOUS
<1>2. Max({a, b}) \in {a, b} /\ \A y \in {a, b} : Max({a, b}) >= y
  BY <1>1 DEF Max
<1> QED BY <1>2

\* A ticket, and the others of its part.
LEMMA TicketIs ==
  ASSUME NEW T, NEW ids, TicketsOK(T, ids), NEW p \in FxParts, NEW t \in T[p]
  PROVE  t \in FxTicket /\ t.id \in Nat \ {0} /\ t.id <= ids /\ \A u \in T[p] : u.id = t.id => u = t
<1>1. t \in FxTicket
  BY DEF TicketsOK
<1>2. t.id \in Nat \ {0}
  BY <1>1 DEF FxTicket
<1> QED BY <1>1, <1>2 DEF TicketsOK

\* The tickets of one part replaced.
LEMMA PartReplaced ==
  ASSUME NEW T, NEW a \in Nat, TicketsOK(T, a), NEW p \in FxParts, NEW N, NEW ids \in Nat, ids >= a,
         \A t \in N : t \in FxTicket /\ t.id <= ids, \A t, u \in N : u.id = t.id => u = t
  PROVE  TicketsOK([T EXCEPT ![p] = N], ids)
<1> DEFINE new == [T EXCEPT ![p] = N]
<1>1. T \in [FxParts -> SUBSET FxTicket]
  BY DEF TicketsOK
<1>2. new[p] = N /\ \A q \in FxParts : q # p => new[q] = T[q]
  BY <1>1
<1>3. new \in [FxParts -> SUBSET FxTicket]
  <2>1. N \in SUBSET FxTicket
    OBVIOUS
  <2> QED BY <1>1, <2>1
<1> HIDE DEF new
<1>4. ASSUME NEW q \in FxParts, NEW t \in new[q]
      PROVE  t.id <= ids /\ \A u \in new[q] : u.id = t.id => u = t
  <2>1. CASE q = p
    BY <1>2, <2>1
  <2>2. CASE q # p
    <3>1. t \in T[q] /\ new[q] = T[q]
      BY <1>2, <2>2
    <3>2. t.id \in Nat /\ t.id <= a /\ \A u \in T[q] : u.id = t.id => u = t
      BY <3>1, TicketIs
    <3> QED BY <3>1, <3>2
  <2> QED BY <2>1, <2>2
<1>5. TicketsOK(new, ids)
  BY <1>3, <1>4 DEF TicketsOK
<1> QED BY <1>5 DEF new

LEMMA LandKeeps ==
  ASSUME ExportInv, LandRequest
  PROVE  ExportInv'
<1>1. /\ fxWire \in FxRequest /\ fxWire' = NoRequest /\ UNCHANGED <<fxKind, fxSource, fxLate, fxNative, fxCp>>
  BY DEF ExportInv, LandRequest
<1>2. /\ CheckpointOK(fxCp) /\ TicketsOK(fxTickets, fxCounts.ids) /\ ProcOK(fxKind, fxCp, fxProc)
      /\ NativeOK(fxNative, fxCounts)
  BY DEF ExportInv
<1>3. /\ fxWire.act \in {"create", "update"} /\ fxWire.part \in FxParts /\ fxWire.target \in Nat
      /\ fxWire.text \in Nat /\ fxWire.mark \in BOOLEAN /\ fxWire.names \in Nat
      /\ fxWire.snap \in [FxParts -> NativeText]
  BY <1>1, TextsOrdered DEF FxRequest
<1>4. fxCounts \in [ids : Nat, native : 0..MaxFxNative, user : Nat, stops : Nat] /\ fxCounts.ids \in Nat
  BY <1>2 DEF NativeOK
<1> DEFINE id == IF fxWire.act = "create" THEN fxCounts.ids + 1 ELSE fxWire.target
           p == fxWire.part
           T == fxTickets
           ids == Max({fxCounts.ids, id})
<1>5. /\ fxTickets' = [T EXCEPT ![p] = IF fxWire.act = "create" THEN @ \cup {Landed(id)}
                                       ELSE {IF t.id = id THEN Landed(id) ELSE t : t \in @}]
      /\ fxCounts' = [fxCounts EXCEPT !.ids = ids]
      /\ fxProc' = IF FxAt("wait") THEN [fxProc EXCEPT !.answer = id] ELSE fxProc
  <2>1. PICK i \in {id} :
          /\ fxTickets' = [T EXCEPT ![p] = IF fxWire.act = "create" THEN @ \cup {Landed(i)}
                                           ELSE {IF t.id = i THEN Landed(i) ELSE t : t \in @}]
          /\ fxCounts' = [fxCounts EXCEPT !.ids = Max({@, i})]
          /\ fxProc' = IF FxAt("wait") THEN [fxProc EXCEPT !.answer = i] ELSE fxProc
    BY Zenon DEF LandRequest
  <2>2. i = id
    BY <2>1
  <2> QED BY <2>1, <2>2, Zenon
<1>6. id \in Nat /\ (fxWire.act = "create" => id = fxCounts.ids + 1)
  BY <1>3, <1>4
<1>7. /\ Landed(id).id = id
      /\ id # 0 => Landed(id) \in FxTicket
  BY <1>3, <1>6 DEF Landed, FxTicket
<1> DEFINE new == Landed(id)
<1> HIDE DEF id, ids, new
<1>8. ids \in Nat /\ ids >= fxCounts.ids /\ ids >= id
  BY <1>4, <1>6, MaxOfTwo DEF ids
<1>9. NativeOK(fxNative, fxCounts') /\ fxCounts'.ids = ids
  <2>1. fxCounts' \in [ids : Nat, native : 0..MaxFxNative, user : Nat, stops : Nat]
        /\ fxCounts'.native = fxCounts.native /\ fxCounts'.ids = ids
    BY <1>4, <1>5, <1>8
  <2> QED BY <1>2, <2>1 DEF NativeOK
<1>10. ProcOK(fxKind, fxCp, fxProc')
  <2>1. CASE FxAt("wait")
    <3>1. fxProc = [pc |-> "wait", answer |-> fxProc.answer] /\ fxCp.pend # NothingPending
      BY <1>2, <2>1 DEF ProcOK, FxAt
    <3>2. fxProc' = [pc |-> "wait", answer |-> id]
      BY <1>5, <2>1, <3>1
    <3> QED BY <1>6, <3>1, <3>2 DEF ProcOK
  <2>2. CASE ~FxAt("wait")
    BY <1>2, <1>5, <2>2
  <2> QED BY <2>1, <2>2
<1>11. TicketsOK(fxTickets', ids)
  <2>1. p \in FxParts
    BY <1>3
  <2>2. \A t \in T[p] : t \in FxTicket /\ t.id \in Nat \ {0} /\ t.id <= fxCounts.ids
                       /\ \A u \in T[p] : u.id = t.id => u = t
    BY <1>2, <2>1, TicketIs
  <2>3. CASE fxWire.act = "create"
    <3> DEFINE N == T[p] \cup {new}
    <3>1. fxTickets' = [T EXCEPT ![p] = N]
      BY <1>5, <2>3 DEF new
    <3>2. id = fxCounts.ids + 1 /\ id # 0 /\ new \in FxTicket /\ new.id = id
      BY <1>4, <1>6, <1>7, <2>3 DEF new
    <3>3. N \subseteq FxTicket
      BY <2>2, <3>2
    <3>4. \A t \in T[p] : t.id # id /\ t.id <= ids
      BY <1>4, <1>8, <2>2, <3>2
    <3>5. \A t \in N : t.id <= ids
      BY <1>6, <1>8, <3>2, <3>4
    <3>6. \A t, u \in N : u.id = t.id => u = t
      BY <2>2, <3>2, <3>4
    <3> HIDE DEF N
    <3> QED BY <1>2, <1>4, <1>8, <2>1, <3>1, <3>3, <3>5, <3>6, PartReplaced
  <2>4. CASE fxWire.act # "create"
    <3> DEFINE N == {IF t.id = id THEN new ELSE t : t \in T[p]}
    <3>1. fxTickets' = [T EXCEPT ![p] = N]
      BY <1>5, <2>4 DEF new
    <3>2. \A x \in N : \E t \in T[p] : x = (IF t.id = id THEN new ELSE t) /\ x.id = t.id
      BY <1>7 DEF new
    <3>3. ASSUME NEW x \in N PROVE x \in FxTicket /\ x.id <= ids
      <4>1. PICK t \in T[p] : x = (IF t.id = id THEN new ELSE t) /\ x.id = t.id
        BY <3>2
      <4>2. t \in FxTicket /\ t.id \in Nat \ {0} /\ t.id <= fxCounts.ids
        BY <2>2
      <4>3. x.id <= ids
        BY <1>4, <1>8, <4>1, <4>2
      <4>4. t.id = id => new \in FxTicket
        BY <1>7, <4>2 DEF new
      <4> QED BY <4>1, <4>2, <4>3, <4>4
    <3>4. \A t, u \in N : u.id = t.id => u = t
      BY <2>2, <3>2
    <3> HIDE DEF N
    <3> QED BY <1>2, <1>4, <1>8, <2>1, <3>1, <3>3, <3>4, PartReplaced
  <2> QED BY <2>3, <2>4
<1>12. TicketsOK(fxTickets', fxCounts'.ids)
  BY <1>9, <1>11
<1> QED BY <1>1, <1>2, <1>9, <1>10, <1>12 DEF ExportInv

LEMMA DropKeeps ==
  ASSUME ExportInv, DropRequest
  PROVE  ExportInv'
  BY DEF ExportInv, DropRequest

----------------------------------------------------------------------------
(* Confirmation and progress. *)

\* What an exact observation proves of a board.
LEMMA ProofShows ==
  ASSUME TicketsOK(fxTickets, fxCounts.ids), CheckpointOK(fxCp), fxCp.pend # NothingPending,
         NEW t \in Proofs(TheStep)
  PROVE  /\ t.id \in Nat \ {0} /\ TextOf(TheStep.part, t.id) \in OwnText
         /\ fxKind = "project" => TextOf(OtherPart(TheStep.part), fxCp.bind[OtherPart(TheStep.part)]) \in OwnText
<1>1. fxCp.pend \in FxIntent /\ fxCp.next <= Len(fxCp.steps)
  BY PendingIs
<1>2. TheStep.part \in FxParts /\ Want(TheStep) \in OwnText
  BY <1>1, StepIs
<1>3. t \in fxTickets[TheStep.part] /\ t.text = Want(TheStep) /\ RestUnmoved(TheStep)
  BY DEF Proofs, Candidates, Marks
<1>4. t.id \in Nat \ {0}
  BY <1>2, <1>3, TicketIs
<1>5. TextOf(TheStep.part, t.id) = t.text
  BY <1>2, <1>3, TextIs
<1>6. fxCp.pend.rest \in OwnText
  BY <1>1 DEF FxIntent
<1> QED BY <1>2, <1>3, <1>4, <1>5, <1>6 DEF RestUnmoved

LEMMA ConfirmKeeps ==
  ASSUME ExportInv, NEW id \in Nat \ {0}, ConfirmIntent(id), fxCp.pend # NothingPending,
         UNCHANGED <<fxKind, fxSource, fxLate, fxNative, fxTickets, fxWire, fxCounts>>,
         fxKind = "project" => \E t \in Proofs(TheStep) : t.id = id
  PROVE  ExportInv'
<1>1. CheckpointOK(fxCp) /\ TicketsOK(fxTickets, fxCounts.ids)
  BY DEF ExportInv
<1>2. fxCp.pend \in FxIntent /\ fxCp.next <= Len(fxCp.steps) /\ fxCp \in FxCheckpoint
  BY <1>1, PendingIs
<1>3. TheStep.part \in FxParts /\ Want(TheStep) \in OwnText
  BY <1>1, <1>2, StepIs
<1>4. fxCp.bind \in [FxParts -> Nat] /\ fxCp.base \in [FxParts -> OwnText]
  BY <1>2, FieldsIs
<1> DEFINE pend == [fxCp.pend EXCEPT !.phase = "confirmed", !.id = id]
           seen == IF Reads THEN Shown([fxCp.bind EXCEPT ![TheStep.part] = id])
                   ELSE [fxCp.base EXCEPT ![TheStep.part] = Want(TheStep)]
<1>5. pend \in FxIntent /\ pend.phase = "confirmed" /\ pend.id = id
  BY <1>2 DEF FxIntent
<1>6. fxCp' = [fxCp EXCEPT !.pend = pend]
  <2>1. fxCp' = [fxCp EXCEPT !.pend.phase = "confirmed", !.pend.id = id]
    BY DEF ConfirmIntent, SaveCp
  <2> QED BY <1>2, <2>1 DEF FxCheckpoint, FxIntent
<1>7. fxProc' = [pc |-> "confirmed", id |-> id, seen |-> seen]
  BY DEF ConfirmIntent
<1>8. seen \in [FxParts -> OwnText]
  <2>1. CASE fxKind = "project"
    <3> DEFINE bind == [fxCp.bind EXCEPT ![TheStep.part] = id]
    <3>1. PICK t \in Proofs(TheStep) : t.id = id
      BY <2>1
    <3>2. /\ TextOf(TheStep.part, id) \in OwnText
          /\ TextOf(OtherPart(TheStep.part), fxCp.bind[OtherPart(TheStep.part)]) \in OwnText
      BY <1>1, <2>1, <3>1, ProofShows
    <3>3. bind[TheStep.part] = id /\ \A q \in FxParts : q # TheStep.part => bind[q] = fxCp.bind[q]
      BY <1>3, <1>4
    <3>4. \A q \in FxParts : q # TheStep.part => q = OtherPart(TheStep.part)
      <4>1. \A q, r \in FxParts : q # r => q = OtherPart(r)
        BY DEF FxParts, OtherPart
      <4> QED BY <1>3, <4>1
    <3> HIDE DEF bind
    <3>5. \A q \in FxParts : TextOf(q, bind[q]) \in OwnText
      BY <3>2, <3>3, <3>4
    <3>6. Shown(bind) \in [FxParts -> OwnText]
      BY <3>5 DEF Shown
    <3>7. seen = Shown(bind)
      BY <2>1 DEF Reads, bind
    <3> QED BY <3>6, <3>7
  <2>2. CASE fxKind # "project"
    <3>1. seen = [fxCp.base EXCEPT ![TheStep.part] = Want(TheStep)]
      BY <2>2 DEF Reads
    <3> QED BY <1>3, <1>4, <3>1
  <2> QED BY <2>1, <2>2
<1> HIDE DEF pend, seen
<1>9. CheckpointOK(fxCp')
  BY <1>1, <1>2, <1>5, <1>6, Intends
<1>10. fxCp'.pend # NothingPending
  <2>1. fxCp'.pend = pend
    BY <1>2, <1>6 DEF FxCheckpoint
  <2> QED BY <1>5, <2>1 DEF NothingPending
<1>11. ProcOK(fxKind, fxCp', fxProc')
  BY <1>7, <1>8, <1>10 DEF ProcOK
<1> QED BY <1>9, <1>11 DEF ExportInv

LEMMA ReceiveKeeps ==
  ASSUME ExportInv, ReceiveAnswer
  PROVE  ExportInv'
<1>1. /\ fxProc.pc = "wait" /\ fxProc.answer # 0 /\ UNCHANGED <<fxKind, fxSource, fxLate, fxNative, fxTickets, fxWire, fxCounts>>
  BY DEF ReceiveAnswer, FxAt
<1>2. fxCp.pend # NothingPending /\ fxProc.answer \in Nat
  BY <1>1 DEF ExportInv, ProcOK
<1>3. CASE fxProc' = Resting /\ UNCHANGED fxCp
  BY <1>1, <1>3, RestKeeps
<1>4. CASE ~(Reads /\ \A t \in Proofs(TheStep) : t.id # fxProc.answer) /\ ConfirmIntent(fxProc.answer)
  <2>1. fxProc.answer \in Nat \ {0}
    BY <1>1, <1>2
  <2>2. fxKind = "project" => \E t \in Proofs(TheStep) : t.id = fxProc.answer
    BY <1>4 DEF Reads
  <2> QED BY <1>1, <1>2, <1>4, <2>1, <2>2, ConfirmKeeps
<1> QED BY <1>3, <1>4 DEF ReceiveAnswer, EndExport

LEMMA ReconcileKeeps ==
  ASSUME ExportInv, Reconcile
  PROVE  ExportInv'
<1>1. /\ fxCp.pend.phase \in {"in_flight", "confirmed"} /\ UNCHANGED <<fxKind, fxSource, fxLate, fxNative, fxTickets, fxWire, fxCounts>>
  BY DEF Reconcile
<1>2. fxCp.pend # NothingPending
  BY <1>1 DEF NothingPending
<1>3. CheckpointOK(fxCp) /\ TicketsOK(fxTickets, fxCounts.ids)
  BY DEF ExportInv
<1>4. CASE fxKind = "issue" /\ fxCp.pend.phase = "confirmed" /\ ConfirmIntent(fxCp.pend.id)
  <2>1. fxCp.pend \in FxIntent
    BY <1>2, <1>3, PendingIs
  <2>2. fxCp.pend.id \in Nat \ {0}
    BY <1>2, <1>3, <1>4, <2>1 DEF CheckpointOK, FxIntent
  <2> QED BY <1>1, <1>2, <1>4, <2>2, ConfirmKeeps
<1>5. CASE fxProc' = Resting /\ UNCHANGED fxCp
  BY <1>1, <1>5, RestKeeps
<1>6. CASE Proofs(TheStep) # {} /\ ConfirmIntent((CHOOSE t \in Proofs(TheStep) : TRUE).id)
  <2> DEFINE t == CHOOSE u \in Proofs(TheStep) : TRUE
  <2>1. t \in Proofs(TheStep)
    BY <1>6
  <2>2. ConfirmIntent(t.id)
    BY <1>6
  <2> HIDE DEF t
  <2>3. t.id \in Nat \ {0}
    BY <1>2, <1>3, <2>1, ProofShows
  <2> QED BY <1>1, <1>2, <2>1, <2>2, <2>3, ConfirmKeeps
<1> QED BY <1>4, <1>5, <1>6 DEF Reconcile, EndExport

LEMMA ProgressKeeps ==
  ASSUME ExportInv, SaveProgress
  PROVE  ExportInv'
<1>1. /\ fxProc.pc = "confirmed" /\ UNCHANGED <<fxKind, fxSource, fxLate, fxNative, fxTickets, fxWire, fxCounts>>
      /\ fxProc' = [pc |-> "work", fresh |-> FALSE]
      /\ fxCp' = [fxCp EXCEPT !.bind[fxCp.steps[fxCp.next].part] = fxProc.id, !.base = fxProc.seen, !.next = @ + 1,
                              !.pend = NothingPending, !.found = TRUE]
  BY DEF SaveProgress, FxAt, SaveCp, TheStep, StepDone
<1>2. fxCp.pend # NothingPending /\ fxProc.id \in Nat \ {0} /\ fxProc.seen \in [FxParts -> OwnText]
      /\ CheckpointOK(fxCp)
  BY <1>1 DEF ExportInv, ProcOK
<1>3. fxCp.next <= Len(fxCp.steps)
  BY <1>2, PendingIs
<1>4. CheckpointOK(fxCp')
  BY <1>1, <1>2, <1>3, Progresses
<1>5. ProcOK(fxKind, fxCp', fxProc')
  BY <1>1 DEF ProcOK
<1> QED BY <1>1, <1>4, <1>5 DEF ExportInv

LEMMA AdoptKeeps ==
  ASSUME ExportInv, AdoptComment
  PROVE  ExportInv'
<1>1. /\ fxProc.pc = "work" /\ fxCp.next <= Len(fxCp.steps) /\ CommentClaimed
      /\ UNCHANGED <<fxKind, fxSource, fxLate, fxNative, fxTickets, fxWire, fxCounts>>
  BY DEF AdoptComment, FxAt
<1>2. CheckpointOK(fxCp) /\ TicketsOK(fxTickets, fxCounts.ids)
  BY DEF ExportInv
<1>3. CASE fxProc' = Resting /\ UNCHANGED fxCp
  BY <1>1, <1>3, RestKeeps
<1>4. CASE /\ fxCp' = StepDone(FoundTicket("leaf").id, [fxCp.base EXCEPT !["leaf"] = Want(TheStep)])
           /\ UNCHANGED fxProc
  <2> DEFINE id == FoundTicket("leaf").id
             seen == [fxCp.base EXCEPT !["leaf"] = Want(TheStep)]
  <2>1. id \in Nat \ {0}
    <3>1. FoundTicket("leaf") \in fxTickets["leaf"] /\ "leaf" \in FxParts
      BY <1>1 DEF CommentClaimed, FoundTicket, Marks, FxParts
    <3> QED BY <1>2, <3>1, TicketIs
  <2>2. seen \in [FxParts -> OwnText]
    <3>1. fxCp.base \in [FxParts -> OwnText] /\ Want(TheStep) \in OwnText
      BY <1>1, <1>2, StepIs, FieldsIs DEF CheckpointOK
    <3> QED BY <3>1
  <2>3. fxCp' = [fxCp EXCEPT !.bind[fxCp.steps[fxCp.next].part] = id, !.base = seen, !.next = @ + 1,
                             !.pend = NothingPending, !.found = TRUE]
    BY <1>4 DEF StepDone, TheStep
  <2> HIDE DEF id, seen
  <2>4. CheckpointOK(fxCp')
    BY <1>1, <1>2, <2>1, <2>2, <2>3, Progresses
  <2>5. ProcOK(fxKind, fxCp', fxProc')
    BY <1>1, <1>4 DEF ProcOK
  <2> QED BY <1>1, <2>4, <2>5 DEF ExportInv
<1> QED BY <1>3, <1>4 DEF AdoptComment, SaveCp, EndExport

LEMMA CompleteKeeps ==
  ASSUME ExportInv, CompleteExport
  PROVE  ExportInv'
<1>1. /\ fxCp.next > Len(fxCp.steps) /\ UNCHANGED <<fxKind, fxSource, fxLate, fxNative, fxTickets, fxWire, fxCounts>>
      /\ fxProc' = Resting
  BY DEF CompleteExport, EndExport
<1>2. CASE UNCHANGED fxCp
  BY <1>1, <1>2, RestKeeps
<1>3. CASE fxCp' = [fxCp EXCEPT !.prev = fxCp.snap, !.snap = Nothing, !.steps = <<>>, !.next = 1]
  <2>1. CheckpointOK(fxCp')
    BY <1>1, <1>3, Completes DEF ExportInv
  <2>2. ProcOK(fxKind, fxCp', fxProc')
    BY <1>1 DEF ProcOK, Resting
  <2> QED BY <1>1, <2>1, <2>2 DEF ExportInv
<1> QED BY <1>2, <1>3 DEF CompleteExport, SaveCp

----------------------------------------------------------------------------
(* The rest of the world. *)

LEMMA FreshCheckpoint == CheckpointOK(NewCheckpoint)
<1>1. Nothing \in [FxParts -> NativeText] /\ Nothing \in [FxParts -> Nat] /\ Nothing \in [FxParts -> OwnText]
  BY TextsOrdered DEF Nothing
<1>2. <<>> \in Seq(FxStep) /\ 1 \in Nat \ {0}
  OBVIOUS
<1>3. NewCheckpoint \in FxCheckpoint
  <2>1. \A no, steps, n : no \in [FxParts -> NativeText] /\ no \in [FxParts -> Nat] /\ no \in [FxParts -> OwnText]
           /\ steps \in Seq(FxStep) /\ n \in Nat \ {0} =>
           [found |-> FALSE, snap |-> no, prev |-> no, base |-> no, bind |-> no, steps |-> steps, next |-> n,
            pend |-> NothingPending] \in FxCheckpoint
    BY DEF FxCheckpoint
  <2> QED BY <1>1, <1>2, <2>1 DEF NewCheckpoint
<1>4. PlanOK(<<>>, 1, Nothing)
  BY DEF PlanOK
<1> QED BY <1>3, <1>4 DEF CheckpointOK, NewCheckpoint

LEMMA CloneKeeps ==
  ASSUME ExportInv, FreshClone
  PROVE  ExportInv'
<1>1. /\ fxProc.pc = "idle" /\ fxCp' = NewCheckpoint /\ fxCounts' = [fxCounts EXCEPT !.stops = @ + 1]
      /\ UNCHANGED <<fxKind, fxSource, fxLate, fxNative, fxTickets, fxProc, fxWire>>
  BY DEF FreshClone, FxAt, SaveCp
<1>2. CheckpointOK(fxCp')
  BY <1>1, FreshCheckpoint
<1>3. ProcOK(fxKind, fxCp', fxProc')
  BY <1>1 DEF ProcOK
<1>4. NativeOK(fxNative, fxCounts') /\ fxCounts'.ids = fxCounts.ids
  <2>1. NativeOK(fxNative, fxCounts)
    BY DEF ExportInv
  <2>2. fxCounts \in [ids : Nat, native : 0..MaxFxNative, user : Nat, stops : Nat]
    BY <2>1 DEF NativeOK
  <2>3. fxCounts' \in [ids : Nat, native : 0..MaxFxNative, user : Nat, stops : Nat]
        /\ fxCounts'.ids = fxCounts.ids /\ fxCounts'.native = fxCounts.native
    BY <1>1, <2>2
  <2> QED BY <2>1, <2>3 DEF NativeOK
<1> QED BY <1>1, <1>2, <1>3, <1>4 DEF ExportInv

LEMMA EditKeeps ==
  ASSUME ExportInv, NEW p \in FxParts, EditNativePart(p)
  PROVE  ExportInv'
<1>1. /\ fxCounts.native < MaxFxNative /\ fxNative' = [fxNative EXCEPT ![p] = @ + 1]
      /\ fxCounts' = [fxCounts EXCEPT !.native = @ + 1]
      /\ UNCHANGED <<fxKind, fxSource, fxLate, fxTickets, fxCp, fxProc, fxWire>>
  BY DEF EditNativePart
<1>2. /\ fxCounts \in [ids : Nat, native : 0..MaxFxNative, user : Nat, stops : Nat]
      /\ fxNative \in [FxParts -> 0..(fxCounts.native + 1)] /\ fxNative["root"] # 0
  BY DEF ExportInv, NativeOK
<1> DEFINE n == fxCounts.native
<1>3. n \in Nat /\ n + 1 \in 0..MaxFxNative /\ MaxFxNative \in Nat
  BY <1>1, <1>2, TextsOrdered
<1>4. /\ fxCounts' \in [ids : Nat, native : 0..MaxFxNative, user : Nat, stops : Nat]
      /\ fxCounts'.ids = fxCounts.ids /\ fxCounts'.native = n + 1
  BY <1>1, <1>2, <1>3
<1>5. \A q \in FxParts : fxNative[q] \in Nat /\ fxNative[q] <= n + 1
  BY <1>2, <1>3
<1>6. fxNative' \in [FxParts -> 0..(n + 2)]
  <2>1. fxNative' = [q \in FxParts |-> IF q = p THEN fxNative[q] + 1 ELSE fxNative[q]]
    BY <1>1, <1>2
  <2>2. \A q \in FxParts : (IF q = p THEN fxNative[q] + 1 ELSE fxNative[q]) \in 0..(n + 2)
    BY <1>3, <1>5
  <2> QED BY <2>1, <2>2
<1>7. fxNative'["root"] # 0
  <2>1. fxNative["root"] \in Nat /\ "root" \in FxParts
    BY <1>5 DEF FxParts
  <2>2. fxNative'["root"] = fxNative["root"] \/ fxNative'["root"] = fxNative["root"] + 1
    BY <1>1, <1>2, <2>1
  <2> QED BY <1>2, <2>1, <2>2
<1>8. NativeOK(fxNative', fxCounts')
  <2>1. fxCounts'.native + 1 = n + 2
    BY <1>3, <1>4
  <2> QED BY <1>4, <1>6, <1>7, <2>1 DEF NativeOK
<1> QED BY <1>1, <1>4, <1>8 DEF ExportInv

LEMMA UserKeeps ==
  ASSUME ExportInv, NEW p \in FxParts, NEW t \in fxTickets[p], UserEdit(p, t)
  PROVE  ExportInv'
<1>1. /\ fxCounts' = [fxCounts EXCEPT !.user = @ + 1] /\ UNCHANGED <<fxKind, fxSource, fxLate, fxNative, fxCp, fxProc, fxWire>>
  BY DEF UserEdit
<1>2. TicketsOK(fxTickets, fxCounts.ids) /\ NativeOK(fxNative, fxCounts)
  BY DEF ExportInv
<1>3. fxCounts \in [ids : Nat, native : 0..MaxFxNative, user : Nat, stops : Nat]
  BY <1>2 DEF NativeOK
<1>4. NativeOK(fxNative, fxCounts') /\ fxCounts'.ids = fxCounts.ids
  <2>1. fxCounts' \in [ids : Nat, native : 0..MaxFxNative, user : Nat, stops : Nat]
        /\ fxCounts'.ids = fxCounts.ids /\ fxCounts'.native = fxCounts.native
    BY <1>1, <1>3
  <2> QED BY <1>2, <2>1 DEF NativeOK
<1>5. PICK keep, gone \in {TRUE, FALSE}, text \in {FirstUser + fxCounts.user, fxNative[p]} :
        fxTickets' = [fxTickets EXCEPT ![p] = (@ \ {t}) \cup
          IF gone THEN {} ELSE {[t EXCEPT !.text = text, !.proof = @ /\ keep]}]
  BY DEF UserEdit
<1> DEFINE edited == [t EXCEPT !.text = text, !.proof = @ /\ keep]
           N == (fxTickets[p] \ {t}) \cup IF gone THEN {} ELSE {edited}
<1>6. text \in Nat
  <2>1. fxNative[p] \in Nat
    BY <1>2, NativeIs, TextsOrdered
  <2>2. FirstUser \in Nat /\ fxCounts.user \in Nat
    BY <1>3, TextsOrdered DEF FirstUser
  <2> QED BY <2>1, <2>2
<1>7. t \in FxTicket /\ t.id <= fxCounts.ids
  BY <1>2, TicketIs
<1>8. edited \in FxTicket /\ edited.id = t.id
  <2>1. (t.proof /\ keep) \in BOOLEAN
    OBVIOUS
  <2>2. \A b \in BOOLEAN : [t EXCEPT !.text = text, !.proof = b] \in FxTicket /\ [t EXCEPT !.text = text, !.proof = b].id = t.id
    BY <1>6, <1>7 DEF FxTicket
  <2> QED BY <2>1, <2>2
<1>9. \A u \in fxTickets[p] : u \in FxTicket /\ u.id <= fxCounts.ids /\ \A v \in fxTickets[p] : v.id = u.id => v = u
  BY <1>2, TicketIs
<1>10. \A u \in N : (u \in fxTickets[p] /\ u # t) \/ u = edited
  OBVIOUS
<1>11. fxTickets' = [fxTickets EXCEPT ![p] = N]
  BY <1>5
<1> HIDE DEF N, edited
<1>12. \A u \in N : u \in FxTicket /\ u.id <= fxCounts.ids
  BY <1>7, <1>8, <1>9, <1>10
<1>13. \A u, v \in N : v.id = u.id => v = u
  BY <1>8, <1>9, <1>10
<1>14. TicketsOK(fxTickets', fxCounts'.ids)
  <2>1. fxCounts.ids \in Nat
    BY <1>3
  <2>2. TicketsOK([fxTickets EXCEPT ![p] = N], fxCounts.ids)
    <3> DEFINE ids == fxCounts.ids
    <3>1. ids \in Nat /\ ids >= ids
      BY <2>1
    <3> QED BY <1>2, <1>12, <1>13, <3>1, PartReplaced
  <2> QED BY <1>4, <1>11, <2>2
<1> QED BY <1>1, <1>4, <1>14 DEF ExportInv

----------------------------------------------------------------------------
(* The theorem. *)

LEMMA ExportInit ==
  ASSUME ForgeExportInit
  PROVE  ExportInv
<1>1. fxKind \in {"issue", "discussion", "project"} /\ fxSource \in SUBSET FxParts /\ fxLate \in BOOLEAN
  BY ForgeExportAssumption DEF ForgeExportInit, FxParts
<1> DEFINE ids == IF fxSource = {} THEN 0 ELSE 2
<1>2. fxCounts = [ids |-> ids, native |-> 0, user |-> 0, stops |-> 0] /\ ids \in Nat
  BY DEF ForgeExportInit
<1> HIDE DEF ids
<1>3. NativeOK(fxNative, fxCounts) /\ fxCounts.ids = ids
  <2>1. fxNative = [p \in FxParts |-> IF p = "root" \/ p \in fxSource THEN 1 ELSE 0]
    BY DEF ForgeExportInit, ImportedText
  <2>2. /\ fxCounts \in [ids : Nat, native : 0..MaxFxNative, user : Nat, stops : Nat]
        /\ fxCounts.native = 0 /\ fxCounts.ids = ids
    <3>1. 0 \in Nat /\ 0 \in 0..MaxFxNative
      BY TextsOrdered
    <3> QED BY <1>2, <3>1
  <2>3. fxNative \in [FxParts -> 0..(0 + 1)]
    BY <2>1
  <2>4. fxNative["root"] = 1
    BY <2>1 DEF FxParts
  <2> QED BY <2>2, <2>3, <2>4 DEF NativeOK
<1>4. TicketsOK(fxTickets, ids)
  <2>1. fxTickets = [p \in FxParts |-> IF p \in fxSource THEN {SourceTicket(p)} ELSE {}]
    BY DEF ForgeExportInit
  <2>2. ASSUME NEW p \in FxParts, p \in fxSource
        PROVE  SourceTicket(p) \in FxTicket /\ SourceTicket(p).id <= ids
    <3>1. SourceId(p) \in Nat \ {0} /\ SourceId(p) <= ids
      BY <2>2 DEF SourceId, ids
    <3>2. Nothing \in [FxParts -> NativeText]
      BY TextsOrdered DEF Nothing
    <3>3. \A n \in Nat : [id |-> SourceId(p), text |-> n, proof |-> FALSE, names |-> 0, snap |-> Nothing] \in FxTicket
      BY <3>1, <3>2 DEF FxTicket
    <3> QED BY <3>1, <3>3 DEF SourceTicket
  <2>3. \A p \in FxParts : \A t \in fxTickets[p] : p \in fxSource /\ t = SourceTicket(p)
    BY <2>1
  <2>4. \A p \in FxParts : fxTickets[p] \in SUBSET FxTicket
    BY <2>2, <2>3
  <2>5. fxTickets \in [FxParts -> SUBSET FxTicket]
    BY <2>1, <2>4
  <2> QED BY <2>2, <2>3, <2>5 DEF TicketsOK
<1>5. CheckpointOK(fxCp)
  BY FreshCheckpoint DEF ForgeExportInit
<1>6. ProcOK(fxKind, fxCp, fxProc) /\ fxWire = NoRequest
  BY DEF ForgeExportInit, ProcOK, Resting
<1> QED BY <1>1, <1>3, <1>4, <1>5, <1>6 DEF ExportInv

LEMMA ExportStep ==
  ASSUME ExportInv, [ForgeExportNext]_forgeExportVars
  PROVE  ExportInv'
<1>1. CASE StartExport \/ ResumeExport \/ AdoptComment \/ PrepareIntent \/ MarkInFlight \/ SendMutation
  <2>1. CASE ResumeExport
    BY <2>1, RestKeeps DEF ResumeExport
  <2> QED BY <1>1, <2>1, StartKeeps, AdoptKeeps, PrepareKeeps, MarkKeeps, SendKeeps
<1>2. CASE LandRequest \/ DropRequest \/ ReceiveAnswer \/ Reconcile \/ SaveProgress \/ CompleteExport
  BY <1>2, LandKeeps, DropKeeps, ReceiveKeeps, ReconcileKeeps, ProgressKeeps, CompleteKeeps
<1>3. CASE StopExport \/ FreshClone
  <2>1. CASE StopExport
    BY <2>1, RestKeeps DEF StopExport, EndExport
  <2> QED BY <1>3, <2>1, CloneKeeps
<1>4. CASE \E p \in FxParts : EditNativePart(p) \/ \E t \in fxTickets[p] : UserEdit(p, t)
  BY <1>4, EditKeeps, UserKeeps
<1>5. CASE UNCHANGED forgeExportVars
  <2>1. UNCHANGED <<fxKind, fxSource, fxLate, fxNative, fxTickets, fxCp, fxWire>> /\ UNCHANGED fxProc /\ UNCHANGED fxCounts
    BY <1>5 DEF forgeExportVars
  <2> QED BY <2>1, RestKeeps
<1> QED BY <1>1, <1>2, <1>3, <1>4, <1>5 DEF ForgeExportNext

\* No export, however often it is interrupted, resumed or started over from a
\* fresh clone, sends a write over text that was typed at the forge before the
\* export looked for the last time and that the native record has never held:
\* what it replaces is a revision of the native record, published there or
\* imported from there, the text shown until a last write, or nothing.
THEOREM ForgeTextKept == ForgeExportSpec => []UserEditsKept
<1>1. ExportInv => UserEditsKept
  <2> SUFFICES ASSUME ExportInv, fxWire # NoRequest PROVE fxWire.over < FirstUser
    BY DEF UserEditsKept
  <2>1. fxWire.over \in OwnText
    BY DEF ExportInv, FxRequest
  <2> QED BY <2>1, TextsOrdered
<1>2. ExportInv /\ [ForgeExportNext]_forgeExportVars => ExportInv'
  BY ExportStep
<1> QED BY <1>1, <1>2, ExportInit, PTL DEF ForgeExportSpec

----------------------------------------------------------------------------
(* Imports. *)

\* A finite sequence, whatever its elements.
IsLog(s) == Len(s) \in Nat /\ s = [k \in 1..Len(s) |-> s[k]]

\* A revision of an import may replace what its parents held.
Keeps(H, m) ==
  \A q \in m.expected : q \in DOMAIN H /\ H[q].m.state.managed \in {H[q].m.state.base, m.state.managed}

\* Operation keys are used once by this actor, a source is claimed once, and
\* every revision an import signed kept the edits of its parents.
IssueLogOK(H) ==
  /\ \A k \in DOMAIN H :
       /\ H[k].m.intent \in {"open", "comment"} => H[k].actor = "me" /\ H[k].m.op # NoOperation
       /\ Imported(H[k]) /\ H[k].m.intent = "revise" => Keeps(H, H[k].m)
  /\ \A k, q \in DOMAIN H :
       H[k].actor = "me" /\ H[q].actor = "me" /\ H[k].m.op # NoOperation /\ H[k].m.op = H[q].m.op => k = q
  /\ \A k, q \in Claims(H, "i") : k = q

\* A saved intent: a claim that exists already is its own.
IntentOK(H, m) ==
  /\ m.intent \in {"open", "comment"} => m.op # NoOperation
  /\ m.intent = "open" => \A r \in Claims(H, "i") : H[r].actor = "me" /\ H[r].m = m
  /\ m.intent = "revise" => Keeps(H, m)

IssueProcOK(H, file, proc) ==
  /\ proc.pc \in {"idle", "load", "list", "listed", "next", "mutate", "append", "settle"}
  /\ proc.pc # "idle" => proc.scope \in FiIssueScopes
  /\ proc.pc = "listed" => proc.n \in 0..Len(H) /\ Claims(H, "i") \subseteq 1..proc.n
  /\ proc.pc = "next" /\ proc.todo # <<>> => IntentOK(H, Head(proc.todo))
  /\ proc.pc \in {"mutate", "append"} => file # NoFile /\ proc.m = file.m
  /\ proc.pc = "append" => proc.n \in 0..Len(H) /\ proc.own = OwnLength(SubSeq(H, 1, proc.n))

IssueInv ==
  /\ IsLog(fiLog) /\ IssueLogOK(fiLog)
  /\ DOMAIN fiFiles = FileNames
  /\ fiFiles["native-intent"] = NoFile \/ IntentOK(fiLog, fiFiles["native-intent"].m)
  /\ IssueProcOK(fiLog, fiFiles["native-intent"], fiProc)

\* A log read up to an event, and one more event.
LEMMA LogIs ==
  ASSUME NEW s, IsLog(s)
  PROVE  /\ DOMAIN s = 1..Len(s) /\ Len(s) \in Nat
         /\ s \in Seq({s[k] : k \in 1..Len(s)})
<1> DEFINE n == Len(s)
           S == {s[k] : k \in 1..n}
<1>1. n \in Nat /\ s = [k \in 1..n |-> s[k]]
  BY DEF IsLog
<1> HIDE DEF n
<1>2. DOMAIN s = 1..n
  BY <1>1
<1>3. s \in [1..n -> S]
  BY <1>1
<1>4. s \in Seq(S)
  BY <1>1, <1>3, SeqDef
<1> QED BY <1>1, <1>2, <1>4 DEF n

LEMMA LogOf ==
  ASSUME NEW S, NEW s \in Seq(S)
  PROVE  IsLog(s)
<1>1. Len(s) \in Nat /\ DOMAIN s = 1..Len(s)
  OBVIOUS
<1>2. s = [k \in DOMAIN s |-> s[k]]
  OBVIOUS
<1> QED BY <1>1, <1>2 DEF IsLog

LEMMA LogGrows ==
  ASSUME NEW s, IsLog(s), NEW e
  PROVE  /\ IsLog(Append(s, e)) /\ Len(Append(s, e)) = Len(s) + 1 /\ Len(s) \in Nat
         /\ DOMAIN Append(s, e) = DOMAIN s \cup {Len(s) + 1} /\ Len(s) + 1 \notin DOMAIN s
         /\ \A k \in DOMAIN s : Append(s, e)[k] = s[k]
         /\ Append(s, e)[Len(s) + 1] = e
<1> DEFINE S == {s[k] : k \in 1..Len(s)} \cup {e}
<1>1. DOMAIN s = 1..Len(s) /\ Len(s) \in Nat /\ s \in Seq({s[k] : k \in 1..Len(s)})
  BY LogIs
<1>2. s \in Seq(S) /\ e \in S
  BY <1>1, SeqMonotonic
<1> HIDE DEF S
<1>3. Append(s, e) \in Seq(S) /\ Len(Append(s, e)) = Len(s) + 1
      /\ \A k \in 1..Len(s) : Append(s, e)[k] = s[k]
  BY <1>2, AppendProperties
<1>4. Append(s, e)[Len(s) + 1] = e
  BY <1>2, AppendProperties
<1>5. IsLog(Append(s, e))
  BY <1>3, LogOf
<1>6. DOMAIN Append(s, e) = 1..(Len(s) + 1)
  BY <1>3
<1> QED BY <1>1, <1>3, <1>4, <1>5, <1>6

LEMMA LogUpTo ==
  ASSUME NEW s, IsLog(s), NEW n \in 0..Len(s)
  PROVE  /\ IsLog(SubSeq(s, 1, n)) /\ Len(SubSeq(s, 1, n)) = n /\ DOMAIN SubSeq(s, 1, n) = 1..n
         /\ \A k \in 1..n : k \in DOMAIN s /\ SubSeq(s, 1, n)[k] = s[k]
<1> DEFINE S == {s[k] : k \in 1..Len(s)}
<1>1. DOMAIN s = 1..Len(s) /\ Len(s) \in Nat /\ s \in Seq(S)
  BY LogIs
<1>2. n \in Int /\ \A i \in 1..n : s[i] \in S /\ i \in DOMAIN s
  BY <1>1
<1> HIDE DEF S
<1>3. SubSeq(s, 1, n) \in Seq(S) /\ Len(SubSeq(s, 1, n)) = n
      /\ \A i \in 1..n : SubSeq(s, 1, n)[i] = s[i]
  <2>1. /\ SubSeq(s, 1, n) \in Seq(S) /\ Len(SubSeq(s, 1, n)) = IF 1 <= n THEN n - 1 + 1 ELSE 0
        /\ \A i \in 1..(n - 1 + 1) : SubSeq(s, 1, n)[i] = s[1 + i - 1]
    BY <1>2, SubSeqProperties
  <2> QED BY <1>1, <2>1
<1>4. IsLog(SubSeq(s, 1, n))
  BY <1>3, LogOf
<1>5. DOMAIN SubSeq(s, 1, n) = 1..n
  BY <1>3
<1> QED BY <1>2, <1>3, <1>4, <1>5

\* The events of this actor up to n are all there are, if there are as many.
LEMMA OwnIs ==
  ASSUME NEW H, IsLog(H), NEW n \in 0..Len(H), OwnLength(H) = OwnLength(SubSeq(H, 1, n))
  PROVE  \A k \in DOMAIN H : H[k].actor = "me" => k \in 1..n
<1> DEFINE A == {k \in DOMAIN H : H[k].actor = "me"}
           P == SubSeq(H, 1, n)
           B == {k \in DOMAIN P : P[k].actor = "me"}
<1>1. DOMAIN H = 1..Len(H) /\ Len(H) \in Nat
  BY LogIs
<1>2. IsFiniteSet(A)
  <2>1. IsFiniteSet(1..Len(H))
    BY <1>1, FS_Interval
  <2> QED BY <1>1, <2>1, FS_Subset
<1>3. DOMAIN P = 1..n /\ \A k \in 1..n : k \in DOMAIN H /\ P[k] = H[k]
  BY LogUpTo
<1>4. B \in SUBSET A /\ B \subseteq 1..n
  BY <1>3
<1>5. Cardinality(A) = Cardinality(B)
  BY DEF OwnLength
<1>6. A = B
  <2> HIDE DEF A, B
  <2> QED BY <1>2, <1>4, <1>5, FS_Subset
<1> QED BY <1>4, <1>6

\* The past of a log does not change.
LEMMA PastKept ==
  ASSUME NEW H, IsLog(H), NEW e
  PROVE  LET N == Append(H, e) IN
         /\ \A n \in 0..Len(H) : OwnLength(SubSeq(N, 1, n)) = OwnLength(SubSeq(H, 1, n)) /\ n \in 0..Len(N)
         /\ \A m : Keeps(H, m) => Keeps(N, m)
         /\ ~(e.m.intent = "open" /\ e.m.kind = "i" /\ e.m.state.src = "i") => Claims(N, "i") = Claims(H, "i")
         /\ Claims(N, "i") \subseteq Claims(H, "i") \cup {Len(H) + 1} /\ Claims(H, "i") \subseteq DOMAIN H
<1> DEFINE N == Append(H, e)
<1>1. /\ IsLog(N) /\ Len(N) = Len(H) + 1 /\ Len(H) \in Nat
      /\ DOMAIN N = DOMAIN H \cup {Len(H) + 1} /\ Len(H) + 1 \notin DOMAIN H
      /\ \A k \in DOMAIN H : N[k] = H[k]
      /\ N[Len(H) + 1] = e
  BY LogGrows
<1> HIDE DEF N
<1>2. ASSUME NEW n \in 0..Len(H) PROVE OwnLength(SubSeq(N, 1, n)) = OwnLength(SubSeq(H, 1, n)) /\ n \in 0..Len(N)
  <2>1. n \in 0..Len(N)
    BY <1>1
  <2>2. DOMAIN SubSeq(N, 1, n) = 1..n /\ \A k \in 1..n : SubSeq(N, 1, n)[k] = N[k]
    BY <1>1, <2>1, LogUpTo
  <2>3. DOMAIN SubSeq(H, 1, n) = 1..n /\ \A k \in 1..n : k \in DOMAIN H /\ SubSeq(H, 1, n)[k] = H[k]
    BY LogUpTo
  <2>4. {k \in DOMAIN SubSeq(N, 1, n) : SubSeq(N, 1, n)[k].actor = "me"}
        = {k \in DOMAIN SubSeq(H, 1, n) : SubSeq(H, 1, n)[k].actor = "me"}
    BY <1>1, <2>2, <2>3
  <2> QED BY <2>1, <2>4 DEF OwnLength
<1>3. ASSUME NEW m, Keeps(H, m) PROVE Keeps(N, m)
  BY <1>1, <1>3 DEF Keeps
<1>4. /\ ~(e.m.intent = "open" /\ e.m.kind = "i" /\ e.m.state.src = "i") => Claims(N, "i") = Claims(H, "i")
      /\ Claims(N, "i") \subseteq Claims(H, "i") \cup {Len(H) + 1} /\ Claims(H, "i") \subseteq DOMAIN H
  BY <1>1 DEF Claims, Roots
<1> QED BY <1>2, <1>3, <1>4 DEF N

----------------------------------------------------------------------------
(* The log of issues as it grows. *)

\* An edit of a user or a peer, beside a running import.
LEMMA EditGrows ==
  ASSUME NEW H, IsLog(H), IssueLogOK(H), NEW e, e.m.intent \in {"revise", "resolve"}, e.m.op = NoOperation
  PROVE  /\ IsLog(Append(H, e)) /\ IssueLogOK(Append(H, e))
         /\ \A m : IntentOK(H, m) => IntentOK(Append(H, e), m)
         /\ \A file, proc : IssueProcOK(H, file, proc) => IssueProcOK(Append(H, e), file, proc)
<1> DEFINE N == Append(H, e)
<1>1. /\ IsLog(N) /\ Len(N) = Len(H) + 1 /\ Len(H) \in Nat
      /\ DOMAIN N = DOMAIN H \cup {Len(H) + 1} /\ Len(H) + 1 \notin DOMAIN H
      /\ \A k \in DOMAIN H : N[k] = H[k]
      /\ N[Len(H) + 1] = e
  BY LogGrows
<1>2. /\ \A n \in 0..Len(H) : OwnLength(SubSeq(N, 1, n)) = OwnLength(SubSeq(H, 1, n)) /\ n \in 0..Len(N)
      /\ \A m : Keeps(H, m) => Keeps(N, m)
      /\ Claims(N, "i") = Claims(H, "i") /\ Claims(H, "i") \subseteq DOMAIN H
  BY PastKept
<1> HIDE DEF N
<1>3. IssueLogOK(N)
  BY <1>1, <1>2 DEF IssueLogOK, Imported
<1>4. ASSUME NEW m, IntentOK(H, m) PROVE IntentOK(N, m)
  BY <1>1, <1>2, <1>4 DEF IntentOK
<1>5. ASSUME NEW file, NEW proc, IssueProcOK(H, file, proc) PROVE IssueProcOK(N, file, proc)
  <2>1. proc.pc = "listed" => proc.n \in 0..Len(N) /\ Claims(N, "i") \subseteq 1..proc.n
    BY <1>2, <1>5 DEF IssueProcOK
  <2>2. proc.pc = "append" => proc.n \in 0..Len(N) /\ proc.own = OwnLength(SubSeq(N, 1, proc.n))
    BY <1>2, <1>5 DEF IssueProcOK
  <2> QED BY <1>4, <1>5, <2>1, <2>2 DEF IssueProcOK
<1> QED BY <1>1, <1>3, <1>4, <1>5 DEF N

\* An event an import signs under a key that was not used.
LEMMA ImportGrows ==
  ASSUME NEW H, IsLog(H), IssueLogOK(H), NEW m, IntentOK(H, m),
         \A k \in DOMAIN H : ~(H[k].actor = "me" /\ m.op # NoOperation /\ H[k].m.op = m.op)
  PROVE  LET N == Append(H, NativeEvent("me", m)) IN IsLog(N) /\ IssueLogOK(N) /\ IntentOK(N, m)
<1> DEFINE e == NativeEvent("me", m)
           N == Append(H, e)
<1>0. e.actor = "me" /\ e.m = m
  BY DEF NativeEvent
<1> HIDE DEF e
<1>1. /\ IsLog(N) /\ Len(N) = Len(H) + 1 /\ Len(H) \in Nat
      /\ DOMAIN N = DOMAIN H \cup {Len(H) + 1} /\ Len(H) + 1 \notin DOMAIN H
      /\ \A k \in DOMAIN H : N[k] = H[k]
      /\ N[Len(H) + 1] = e
  BY LogGrows
<1>2. /\ \A x : Keeps(H, x) => Keeps(N, x)
      /\ Claims(N, "i") \subseteq Claims(H, "i") \cup {Len(H) + 1} /\ Claims(H, "i") \subseteq DOMAIN H
  BY PastKept
<1>3. m.intent # "open" => Claims(N, "i") = Claims(H, "i")
  BY <1>0, PastKept
<1> HIDE DEF N
<1>4. m.intent = "open" => Claims(N, "i") \subseteq {Len(H) + 1}
  BY <1>2 DEF IntentOK
<1>5. \A k, q \in Claims(N, "i") : k = q
  BY <1>3, <1>4 DEF IssueLogOK
<1>6. \A k, q \in DOMAIN N :
        N[k].actor = "me" /\ N[q].actor = "me" /\ N[k].m.op # NoOperation /\ N[k].m.op = N[q].m.op => k = q
  BY <1>0, <1>1 DEF IssueLogOK
<1>7. \A k \in DOMAIN N :
        /\ N[k].m.intent \in {"open", "comment"} => N[k].actor = "me" /\ N[k].m.op # NoOperation
        /\ Imported(N[k]) /\ N[k].m.intent = "revise" => Keeps(N, N[k].m)
  BY <1>0, <1>1, <1>2 DEF IssueLogOK, IntentOK, Imported
<1>8. IntentOK(N, m)
  <2>1. m.intent = "open" => \A r \in Claims(N, "i") : N[r].actor = "me" /\ N[r].m = m
    BY <1>0, <1>1, <1>4
  <2>2. m.intent = "revise" => Keeps(N, m)
    BY <1>2 DEF IntentOK
  <2> QED BY <2>1, <2>2 DEF IntentOK
<1>9. IsLog(N) /\ IssueLogOK(N) /\ IntentOK(N, m)
  BY <1>1, <1>5, <1>6, <1>7, <1>8 DEF IssueLogOK
<1> QED BY <1>9 DEF N, e

----------------------------------------------------------------------------
(* The plan of an issue import. *)

\* A set of at most one number, and its maximum.
LEMMA OnlyOne ==
  ASSUME NEW S, IsFiniteSet(S), ~(Cardinality(S) > 1), NEW x \in S, x \in Int
  PROVE  S = {x} /\ Max(S) = x
<1>1. IsFiniteSet({x}) /\ Cardinality({x}) = 1 /\ {x} \in SUBSET S
  BY FS_Singleton
<1>2. Cardinality({x}) <= Cardinality(S) /\ (Cardinality(S) = Cardinality({x}) => S = {x})
  BY <1>1, FS_Subset
<1>3. Cardinality(S) \in Nat
  BY FS_CardinalityType
<1>4. S = {x}
  BY <1>1, <1>2, <1>3
<1>5. \E y \in {x} : \A z \in {x} : y >= z
  OBVIOUS
<1>6. Max({x}) \in {x}
  BY <1>5 DEF Max
<1> QED BY <1>4, <1>6

\* The one head of a record that is not in conflict.
LEMMA HeadIs ==
  ASSUME NEW H, IsLog(H), NEW r, ~Conflicted(H, r), NEW q \in NativeHeads(H, r)
  PROVE  q \in DOMAIN H /\ HeadState(H, r) = H[q].m.state
<1>1. DOMAIN H = 1..Len(H) /\ Len(H) \in Nat
  BY LogIs
<1>2. IsFiniteSet(1..Len(H))
  BY <1>1, FS_Interval
<1>3. NativeHeads(H, r) \in SUBSET (1..Len(H))
  BY <1>1 DEF NativeHeads, RevisionsOf
<1>4. IsFiniteSet(NativeHeads(H, r)) /\ q \in Int
  BY <1>1, <1>2, <1>3, FS_Subset
<1>5. Max(NativeHeads(H, r)) = q
  BY <1>4, OnlyOne DEF Conflicted
<1> QED BY <1>1, <1>3, <1>5 DEF HeadState

\* The first mutation of a plan that is not blocked.
LEMMA PlannedOK ==
  ASSUME IsLog(fiLog), NEW n \in 0..Len(fiLog), Claims(fiLog, "i") \subseteq 1..n, NEW p,
         ~IssueBlocked(SubSeq(fiLog, 1, n), fiLog, p),
         RootMutations(SubSeq(fiLog, 1, n), fiLog, p) # <<>>
  PROVE  IntentOK(fiLog, Head(RootMutations(SubSeq(fiLog, 1, n), fiLog, p)))
<1> DEFINE H == SubSeq(fiLog, 1, n)
<1>1. DOMAIN H = 1..n /\ \A k \in 1..n : k \in DOMAIN fiLog /\ H[k] = fiLog[k]
  BY LogUpTo
<1> HIDE DEF H
<1>2. Claims(fiLog, "i") \subseteq Claims(H, "i")
  BY <1>1 DEF Claims, Roots
<1>3. CASE ~Claimed(H, "i")
  <2> DEFINE s == NativeState(IssueBaseline(p), "i", IssueBaseline(p), IssueObservation(p))
             m == IssueMutation("open", 0, {}, s)
  <2>1. Head(RootMutations(H, fiLog, p)) = m
    BY <1>3 DEF RootMutations
  <2> HIDE DEF s
  <2>2. m.intent = "open" /\ m.op = <<"open", s.base>>
    BY DEF IssueMutation, Mutation, IssueOperation
  <2>3. m.op # NoOperation
    BY <2>2 DEF NoOperation
  <2>4. Claims(fiLog, "i") = {}
    BY <1>2, <1>3 DEF Claimed
  <2> HIDE DEF m
  <2> QED BY <2>1, <2>2, <2>3, <2>4 DEF IntentOK, H
<1>4. CASE Claimed(H, "i")
  <2> DEFINE r == TheRoot(H, "i")
             s0 == HeadState(H, r)
             s == MergedState(s0, p)
             m == IssueMutation("revise", r, NativeHeads(fiLog, r), s)
  <2>1. Head(RootMutations(H, fiLog, p)) = m
    BY <1>4 DEF RootMutations, H
  <2>2. r \in Claims(H, "i")
    <3>1. PICK x \in Claims(H, "i") : TRUE
      BY <1>4 DEF Claimed
    <3>2. Claims(H, "i") \in SUBSET (1..n) /\ n \in Nat /\ 1 \in Int /\ n \in Int
      <4>1. Len(fiLog) \in Nat
        BY LogIs
      <4> QED BY <1>1, <4>1 DEF Claims, Roots
    <3>3. IsFiniteSet(Claims(H, "i")) /\ x \in Int
      BY <3>1, <3>2, FS_Interval, FS_Subset
    <3>4. ~(Cardinality(Claims(H, "i")) > 1)
      BY DEF IssueBlocked, H
    <3>5. Max(Claims(H, "i")) = x
      BY <3>1, <3>3, <3>4, OnlyOne
    <3> QED BY <3>1, <3>5 DEF TheRoot
  <2>3. ~Conflicted(fiLog, r) /\ HeadState(fiLog, r) = s0 /\ ~BothChanged(s0, p)
    <3> HIDE DEF r
    <3>1. ~(~IssueWitnessOK(fiLog, r) \/ Conflicted(H, r) \/ StateMoved(H, fiLog, r) \/ BothChanged(HeadState(H, r), p))
      BY <2>2 DEF IssueBlocked, H
    <3> QED BY <3>1 DEF IssueWitnessOK, StateMoved
  <2> HIDE DEF r
  <2>4. m.intent = "revise" /\ m.expected = NativeHeads(fiLog, r) /\ m.state = s
    <3> HIDE DEF s
    <3> QED BY DEF IssueMutation, Mutation
  <2>5. s.managed = IF IssueBaseline(p) = s0.base THEN s0.managed ELSE IssueBaseline(p)
    <3> HIDE DEF s0
    <3> QED BY DEF MergedState, NativeState
  <2>6. \A q \in NativeHeads(fiLog, r) : q \in DOMAIN fiLog /\ fiLog[q].m.state = s0
    BY <2>3, HeadIs
  <2> HIDE DEF m, s, s0
  <2>7. s0.managed \in {s0.base, s.managed}
    BY <2>3, <2>5 DEF BothChanged
  <2>8. Keeps(fiLog, m)
    BY <2>4, <2>6, <2>7 DEF Keeps
  <2> QED BY <2>1, <2>4, <2>8 DEF IntentOK, H
<1> QED BY <1>3, <1>4

----------------------------------------------------------------------------
(* One lemma per step of an issue import. *)

\* The intent of every issue selection is the one file.
LEMMA IntentFileIs ==
  ASSUME DOMAIN fiFiles = FileNames, fiProc.scope \in FiIssueScopes
  PROVE  /\ MyFile = fiFiles["native-intent"]
         /\ fiProc.scope \notin FiThreadScopes
         /\ \A x : SaveFile(x) => DOMAIN fiFiles' = FileNames /\ fiFiles'["native-intent"] = x
<1>1. IntentFile(fiProc.scope) = "native-intent"
  BY DEF IntentFile
<1>2. "native-intent" \in FileNames
  BY DEF FileNames
<1> QED BY <1>1, <1>2, ForgeImportAssumption DEF MyFile, SaveFile

\* A step that changes neither the log nor the files.
LEMMA IssueMoves ==
  ASSUME IssueInv, UNCHANGED <<fiLog, fiFiles>>, IssueProcOK(fiLog, fiFiles["native-intent"], fiProc')
  PROVE  IssueInv'
  BY DEF IssueInv

LEMMA IssueIdles ==
  ASSUME IssueInv, UNCHANGED <<fiLog, fiFiles>>, fiProc' = Idle \/ UNCHANGED fiProc
  PROVE  IssueInv'
<1>1. IssueProcOK(fiLog, fiFiles["native-intent"], fiProc)
  BY DEF IssueInv
<1>2. IssueProcOK(fiLog, fiFiles["native-intent"], fiProc')
  BY <1>1 DEF IssueProcOK, Idle
<1> QED BY <1>2, IssueMoves

LEMMA BeginKeeps ==
  ASSUME IssueInv, NEW scope \in FiIssueScopes, BeginImport(scope)
  PROVE  IssueInv'
<1>1. IssueProcOK(fiLog, fiFiles["native-intent"], fiProc')
  BY DEF BeginImport, IssueProcOK
<1> QED BY <1>1, IssueMoves DEF BeginImport

LEMMA NativeKeeps ==
  ASSUME IssueInv, ResumeNative
  PROVE  IssueInv'
<1>1. fiProc.scope \in FiIssueScopes /\ UNCHANGED <<fiLog, fiFiles>>
  BY DEF ResumeNative
<1>2. MyFile = fiFiles["native-intent"]
  BY <1>1, IntentFileIs DEF IssueInv
<1>3. CASE Goto("list")
  <2>1. IssueProcOK(fiLog, fiFiles["native-intent"], fiProc')
    BY <1>1, <1>3 DEF Goto, Continue, IssueProcOK
  <2> QED BY <1>1, <2>1, IssueMoves
<1>4. CASE EndImport
  BY <1>1, <1>4, IssueIdles DEF EndImport
<1>5. CASE MyFile # NoFile /\ Mutate(MyFile.m, NoPlan)
  <2>1. IssueProcOK(fiLog, fiFiles["native-intent"], fiProc')
    BY <1>1, <1>2, <1>5 DEF Mutate, Continue, IssueProcOK
  <2> QED BY <1>1, <2>1, IssueMoves
<1> QED BY <1>3, <1>4, <1>5 DEF ResumeNative

LEMMA ListingKeeps ==
  ASSUME IssueInv, ReadIssues
  PROVE  IssueInv'
<1>1. fiProc.scope \in FiIssueScopes
  BY DEF ReadIssues, ImportAt, IssueInv, IssueProcOK
<1>2. DOMAIN fiLog = 1..Len(fiLog) /\ Len(fiLog) \in Nat
  BY LogIs DEF IssueInv
<1>3. Claims(fiLog, "i") \subseteq 1..Len(fiLog) /\ Len(fiLog) \in 0..Len(fiLog)
  BY <1>2 DEF Claims, Roots
<1>4. IssueProcOK(fiLog, fiFiles["native-intent"], fiProc')
  BY <1>1, <1>3 DEF ReadIssues, Continue, IssueProcOK
<1> QED BY <1>4, IssueMoves DEF ReadIssues

LEMMA PlanKeeps ==
  ASSUME IssueInv, PlanIssue
  PROVE  IssueInv'
<1> DEFINE H == SubSeq(fiLog, 1, fiProc.n)
<1>1. /\ fiProc.pc = "listed" /\ fiProc.scope \in FiIssueScopes /\ UNCHANGED <<fiLog, fiFiles>>
      /\ fiProc.n \in 0..Len(fiLog) /\ Claims(fiLog, "i") \subseteq 1..fiProc.n /\ IsLog(fiLog)
  BY DEF PlanIssue, ImportAt, IssueInv, IssueProcOK
<1>2. CASE EndImport
  BY <1>1, <1>2, IssueIdles DEF EndImport
<1>3. CASE ~IssueBlocked(H, fiLog, fiProc.p) /\ ~EndImport
  <2>1. fiProc'.pc = "next" /\ fiProc'.scope = fiProc.scope /\ fiProc'.todo = RootMutations(H, fiLog, fiProc.p)
    BY <1>3 DEF PlanIssue, Continue
  <2>2. fiProc'.todo # <<>> => IntentOK(fiLog, Head(fiProc'.todo))
    BY <1>1, <1>3, <2>1, PlannedOK
  <2>3. IssueProcOK(fiLog, fiFiles["native-intent"], fiProc')
    BY <1>1, <2>1, <2>2 DEF IssueProcOK
  <2> QED BY <1>1, <2>3, IssueMoves
<1> QED BY <1>2, <1>3 DEF PlanIssue

LEMMA CommentOK ==
  ASSUME NEW H, NEW root, NEW version
  PROVE  IntentOK(H, CommentMutation(root, version))
<1> DEFINE s == NativeState(<<version[1], 0>>, "none", <<0, 0>>, version)
           m == CommentMutation(root, version)
<1>1. m = IssueMutation("comment", root, {}, s)
  BY DEF CommentMutation
<1> HIDE DEF s, m
<1>2. m.intent = "comment" /\ m.op = <<"comment", s.obs>>
  BY <1>1 DEF IssueMutation, Mutation, IssueOperation
<1>3. m.op # NoOperation
  BY <1>2 DEF NoOperation
<1>4. IntentOK(H, m)
  BY <1>2, <1>3 DEF IntentOK
<1> QED BY <1>4 DEF m

LEMMA RunKeeps ==
  ASSUME IssueInv, RunNative
  PROVE  IssueInv'
<1>1. /\ fiProc.pc = "next" /\ fiProc.scope \in FiIssueScopes /\ UNCHANGED fiLog
      /\ fiProc.todo # <<>> => IntentOK(fiLog, Head(fiProc.todo))
  BY DEF RunNative, ImportAt, IssueInv, IssueProcOK
<1>2. CASE EndImport /\ UNCHANGED fiFiles
  BY <1>1, <1>2, IssueIdles DEF EndImport
<1>3. CASE \E m \in {IF fiProc.todo # <<>> THEN Head(fiProc.todo) ELSE CommentMutation(fiProc.root, Head(fiProc.texts))} :
             SaveFile(Intent(m)) /\ Mutate(m, [texts |-> fiProc.texts])
  <2>1. PICK m \in {IF fiProc.todo # <<>> THEN Head(fiProc.todo) ELSE CommentMutation(fiProc.root, Head(fiProc.texts))} :
             SaveFile(Intent(m)) /\ Mutate(m, [texts |-> fiProc.texts])
    BY <1>3
  <2>2. IntentOK(fiLog, m)
    BY <1>1, <2>1, CommentOK
  <2> DEFINE file == Intent(m)
  <2>3. file # NoFile /\ file.m = m
    BY DEF NoFile, Intent
  <2>4. DOMAIN fiFiles' = FileNames /\ fiFiles'["native-intent"] = file
    BY <1>1, <2>1, IntentFileIs DEF IssueInv
  <2>5. fiProc'.pc = "mutate" /\ fiProc'.scope = fiProc.scope /\ fiProc'.m = m
    BY <2>1 DEF Mutate, Continue
  <2> HIDE DEF file
  <2>6. IssueProcOK(fiLog, file, fiProc')
    BY <1>1, <2>3, <2>5 DEF IssueProcOK
  <2> QED BY <1>1, <2>2, <2>3, <2>4, <2>6 DEF IssueInv
<1> QED BY <1>2, <1>3 DEF RunNative

LEMMA CollectKeeps ==
  ASSUME IssueInv, CollectEvents
  PROVE  IssueInv'
<1>1. /\ fiProc.pc = "mutate" /\ fiProc.scope \in FiIssueScopes /\ UNCHANGED <<fiLog, fiFiles>> /\ IsLog(fiLog)
      /\ fiFiles["native-intent"] # NoFile /\ fiProc.m = fiFiles["native-intent"].m
  BY DEF CollectEvents, ImportAt, IssueInv, IssueProcOK
<1>2. /\ fiProc'.pc = "append" /\ fiProc'.scope = fiProc.scope /\ fiProc'.m = fiProc.m
      /\ fiProc'.own = OwnLength(fiLog) /\ fiProc'.n = Len(fiLog)
  BY DEF CollectEvents, Continue
<1>3. Len(fiLog) \in 0..Len(fiLog) /\ SubSeq(fiLog, 1, Len(fiLog)) = fiLog
  <2>1. Len(fiLog) \in Nat /\ DOMAIN fiLog = 1..Len(fiLog)
    BY <1>1, LogIs
  <2>2. Len(fiLog) \in 0..Len(fiLog)
    BY <2>1
  <2>3. /\ IsLog(SubSeq(fiLog, 1, Len(fiLog))) /\ Len(SubSeq(fiLog, 1, Len(fiLog))) = Len(fiLog)
        /\ \A k \in 1..Len(fiLog) : SubSeq(fiLog, 1, Len(fiLog))[k] = fiLog[k]
    BY <1>1, <2>2, LogUpTo
  <2> QED BY <1>1, <2>2, <2>3 DEF IsLog
<1>4. IssueProcOK(fiLog, fiFiles["native-intent"], fiProc')
  BY <1>1, <1>2, <1>3 DEF IssueProcOK
<1> QED BY <1>1, <1>4, IssueMoves

LEMMA AppendKeeps ==
  ASSUME IssueInv, AppendNative
  PROVE  IssueInv'
<1> DEFINE H == SubSeq(fiLog, 1, fiProc.n)
           m == fiProc.m
           file == fiFiles["native-intent"]
<1>1. /\ fiProc.pc = "append" /\ fiProc.scope \in FiIssueScopes /\ UNCHANGED fiFiles /\ IsLog(fiLog) /\ IssueLogOK(fiLog)
      /\ file # NoFile /\ m = file.m /\ IntentOK(fiLog, m)
      /\ fiProc.n \in 0..Len(fiLog) /\ fiProc.own = OwnLength(H)
  BY DEF AppendNative, ImportAt, IssueInv, IssueProcOK
<1>2. CASE EndImport /\ UNCHANGED fiLog
  BY <1>1, <1>2, IssueIdles DEF EndImport
<1>3. CASE UNCHANGED fiLog /\ Settle(Max(WithOperation(H, m.op)))
  <2>1. IssueProcOK(fiLog, file, fiProc')
    BY <1>1, <1>3 DEF Settle, Continue, IssueProcOK
  <2> QED BY <1>1, <1>3, <2>1, IssueMoves
<1>4. CASE /\ WithOperation(H, m.op) = {} /\ OwnLength(fiLog) = fiProc.own
           /\ fiLog' = Append(fiLog, NativeEvent("me", m)) /\ (EndImport \/ Settle(Len(fiLog) + 1))
  <2>1. \A k \in DOMAIN fiLog : fiLog[k].actor = "me" => k \in 1..fiProc.n
    BY <1>1, <1>4, OwnIs
  <2>2. DOMAIN H = 1..fiProc.n /\ \A k \in 1..fiProc.n : H[k] = fiLog[k]
    BY <1>1, LogUpTo
  <2> HIDE DEF H, m, file
  <2>3. \A k \in DOMAIN fiLog : ~(fiLog[k].actor = "me" /\ m.op # NoOperation /\ fiLog[k].m.op = m.op)
    BY <1>4, <2>1, <2>2 DEF WithOperation
  <2>4. IsLog(fiLog') /\ IssueLogOK(fiLog') /\ IntentOK(fiLog', m)
    BY <1>1, <1>4, <2>3, ImportGrows
  <2>5. IssueProcOK(fiLog', file, fiProc')
    <3>1. CASE EndImport
      BY <1>1, <3>1 DEF EndImport, Idle, IssueProcOK
    <3>2. CASE Settle(Len(fiLog) + 1)
      BY <1>1, <3>2 DEF Settle, Continue, IssueProcOK
    <3> QED BY <1>4, <3>1, <3>2
  <2>6. file' = file
    BY <1>1 DEF file
  <2> QED BY <1>1, <2>4, <2>5, <2>6 DEF IssueInv, file
<1> QED BY <1>2, <1>3, <1>4 DEF AppendNative

LEMMA SettleKeeps ==
  ASSUME IssueInv, SettleIntent
  PROVE  IssueInv'
<1>1. /\ fiProc.scope \in FiIssueScopes /\ UNCHANGED fiLog /\ SaveFile(NoFile)
  BY DEF SettleIntent, RemoveFile
<1>2. DOMAIN fiFiles' = FileNames /\ fiFiles'["native-intent"] = NoFile
  BY <1>1, IntentFileIs DEF IssueInv
<1>3. \/ fiProc'.pc = "list" /\ fiProc'.scope = fiProc.scope
      \/ fiProc'.pc = "next" /\ fiProc'.scope = fiProc.scope /\ fiProc'.todo = <<>>
  BY DEF SettleIntent, Goto, Continue
<1>4. IssueProcOK(fiLog, NoFile, fiProc')
  BY <1>1, <1>3 DEF IssueProcOK
<1> QED BY <1>1, <1>2, <1>4 DEF IssueInv

\* The user and the peers edit a native issue.
LEMMA IssueEdited ==
  ASSUME IssueInv, NEW actor, NEW r, NEW parents, NEW text, UNCHANGED <<fiFiles, fiProc>>,
         fiLog' = Append(fiLog, NativeEvent(actor, NativeMutation(r, parents, text)))
  PROVE  IssueInv'
<1> DEFINE m == NativeMutation(r, parents, text)
           e == NativeEvent(actor, m)
<1>1. m.intent \in {"revise", "resolve"} /\ m.op = NoOperation
  BY DEF NativeMutation, Mutation
<1> HIDE DEF m
<1>2. e.m.intent \in {"revise", "resolve"} /\ e.m.op = NoOperation /\ fiLog' = Append(fiLog, e)
  BY <1>1 DEF NativeEvent, m
<1> HIDE DEF e
<1>3. IsLog(fiLog) /\ IssueLogOK(fiLog)
  BY DEF IssueInv
<1>4. /\ IsLog(fiLog') /\ IssueLogOK(fiLog')
      /\ \A x : IntentOK(fiLog, x) => IntentOK(fiLog', x)
      /\ \A file, proc : IssueProcOK(fiLog, file, proc) => IssueProcOK(fiLog', file, proc)
  BY <1>2, <1>3, EditGrows
<1> QED BY <1>4 DEF IssueInv

LEMMA IssueWorldKeeps ==
  ASSUME IssueInv, NEW nodes, WorldStep(nodes)
  PROVE  IssueInv'
<1>1. CASE \E n \in nodes : EditSource(n)
  BY <1>1, IssueIdles DEF EditSource
<1>2. CASE \E kind \in nodes \ {"c", "ans"} : \E r \in Roots(fiLog, kind), text \in NativeTexts(kind) :
             EditNative(r, text) \/ \E parent \in RevisionsOf(fiLog, r) : AcceptPeerEdit(r, parent, text)
  BY <1>2, IssueEdited DEF EditNative, AcceptPeerEdit
<1> QED BY <1>1, <1>2 DEF WorldStep

LEMMA IssueStepKeeps ==
  ASSUME IssueInv, [IssueImportNext]_forgeImportVars
  PROVE  IssueInv'
<1>0. /\ DOMAIN fiFiles = FileNames /\ fiProc.pc # "run"
      /\ fiProc.pc # "idle" => fiProc.scope \in FiIssueScopes /\ fiProc.scope \notin FiThreadScopes
  BY IntentFileIs DEF IssueInv, IssueProcOK
<1>1. CASE \E s \in FiIssueScopes : BeginImport(s)
  BY <1>1, BeginKeeps
<1>2. CASE LoadJournal \/ PlanThread \/ RunStep \/ SettleStep
  BY <1>0, <1>2 DEF LoadJournal, PlanThread, RunStep, SettleStep, ImportAt
<1>3. CASE ResumeNative \/ ReadIssues \/ StaleListing \/ PlanIssue \/ RunNative \/ IssueDone \/ SettleIntent
  <2>1. CASE StaleListing \/ IssueDone
    BY <2>1, IssueIdles DEF StaleListing, IssueDone, EndImport
  <2> QED BY <1>3, <2>1, NativeKeeps, ListingKeeps, PlanKeeps, RunKeeps, SettleKeeps
<1>4. CASE CollectEvents \/ AppendNative
  BY <1>4, CollectKeeps, AppendKeeps
<1>5. CASE StopImport \/ RemoveStaleLock
  BY <1>5, IssueIdles DEF StopImport, RemoveStaleLock
<1>6. CASE WorldStep({"i", "c"})
  BY <1>6, IssueWorldKeeps
<1>7. CASE UNCHANGED forgeImportVars
  BY <1>7, IssueIdles DEF forgeImportVars
<1> QED BY <1>1, <1>2, <1>3, <1>4, <1>5, <1>6, <1>7 DEF IssueImportNext, ImportStep

LEMMA IssueInitially ==
  ASSUME ForgeImportInit
  PROVE  IssueInv
<1>1. fiLog = <<>> /\ fiFiles = [f \in FileNames |-> NoFile] /\ fiProc = Idle
  BY DEF ForgeImportInit
<1>2. IsLog(fiLog) /\ DOMAIN fiLog = {}
  BY <1>1 DEF IsLog
<1>3. IssueLogOK(fiLog)
  BY <1>2 DEF IssueLogOK, Claims, Roots
<1>4. DOMAIN fiFiles = FileNames /\ fiFiles["native-intent"] = NoFile
  BY <1>1 DEF FileNames
<1>5. IssueProcOK(fiLog, fiFiles["native-intent"], fiProc)
  BY <1>1 DEF IssueProcOK, Idle
<1> QED BY <1>2, <1>3, <1>4, <1>5 DEF IssueInv

LEMMA IssueInvHolds == IssueImportSpec => []IssueInv
<1>1. IssueInv /\ [IssueImportNext]_forgeImportVars => IssueInv'
  BY IssueStepKeeps
<1> QED BY <1>1, IssueInitially, PTL DEF IssueImportSpec

\* However often imports of an issue are interrupted, resumed and repeated, under
\* whichever selections, it is opened natively at most once and a version of its
\* comment is copied at most once.
THEOREM IssueImportedOnce == IssueImportSpec => []IssueCopiedOnce
<1>1. IssueInv => IssueCopiedOnce
  <2> SUFFICES ASSUME IssueInv PROVE IssueCopiedOnce
    OBVIOUS
  <2>1. IssueLogOK(fiLog) /\ IsLog(fiLog)
    BY DEF IssueInv
  <2> DEFINE C == Claims(fiLog, "i")
  <2>2. Cardinality(C) <= 1
    <3>1. CASE C = {}
      BY <3>1, FS_EmptySet
    <3>2. CASE C # {}
      <4>1. PICK x \in C : TRUE
        BY <3>2
      <4>2. C = {x}
        BY <2>1, <4>1 DEF IssueLogOK
      <4> QED BY <4>2, FS_Singleton
    <3> QED BY <3>1, <3>2
  <2>3. ASSUME NEW k \in DOMAIN fiLog, NEW q \in DOMAIN fiLog,
               fiLog[k].m.intent = "comment", fiLog[q].m = fiLog[k].m
        PROVE  q = k
    BY <2>1, <2>3 DEF IssueLogOK
  <2> QED BY <2>2, <2>3 DEF IssueCopiedOnce
<1> QED BY <1>1, IssueInvHolds, PTL

\* No revision an import of issues signs discards a native edit.
THEOREM IssueEditsKept == IssueImportSpec => []NativeEditsKept
<1>1. IssueInv => NativeEditsKept
  BY DEF IssueInv, IssueLogOK, NativeEditsKept, Keeps
<1> QED BY <1>1, IssueInvHolds, PTL

----------------------------------------------------------------------------
(* Imports of discussions. *)

\* Managed fields, with a revision or nothing pinned, and import metadata.
StateShape(s) ==
  /\ s = NativeState(s.managed, s.src, s.base, s.obs)
  /\ s.managed = <<s.managed[1], s.managed[2]>> /\ s.managed[2] \in Nat

\* Parents precede, and revisions an import signed kept the edits of theirs.
ThreadLogOK(H) ==
  \A k \in DOMAIN H :
    /\ H[k].m.expected \subseteq 1..(k - 1) /\ StateShape(H[k].m.state)
    /\ Imported(H[k]) /\ H[k].m.intent = "revise" => Keeps(H, H[k].m)

\* A step at place k of a plan: previews stand for earlier steps, and the heads
\* it replaces hold imported content, or what it would write itself.
PinOK(k, pin) == pin \in Int /\ (pin < 0 => 0 - pin \in 1..(k - 1))
PlannedStepOK(H, g, k, s) ==
  /\ PinOK(k, s.pin) /\ s.id \in Int
  /\ s.id = 0 => s.expected = {}
  /\ s.id < 0 => s.id = -1 /\ s.expected = {-1} /\ k > 1
  /\ s.id > 0 => \A q \in s.expected :
       q \in DOMAIN H /\ H[q].m.state.managed \in {H[q].m.state.base, Desired(g, s)}

\* A saved journal: its plan, and the events that its first steps signed.
JournalOK(H, j) ==
  /\ j = [file |-> "journal", graph |-> j.graph, anchor |-> j.anchor, next |-> j.next,
          steps |-> j.steps, bound |-> j.bound, pending |-> j.pending]
  /\ IsLog(j.steps) /\ IsLog(j.bound) /\ j.next \in Nat \ {0} /\ Len(j.bound) = j.next - 1
  /\ \A k \in DOMAIN j.steps : PlannedStepOK(H, j.graph, k, j.steps[k])
  /\ \A k \in DOMAIN j.bound :
       j.bound[k] \in DOMAIN H /\ H[j.bound[k]].m.state.managed = H[j.bound[k]].m.state.base

\* A mutation a journal is about to sign.
SignOK(H, m) ==
  /\ m.expected \subseteq DOMAIN H /\ StateShape(m.state) /\ m.state.managed = m.state.base
  /\ m.intent = "revise" => Keeps(H, m)

ThreadProcOK(H, files, proc) ==
  /\ proc.pc \in {"idle", "load", "run", "mutate", "append", "settle"}
  /\ proc.pc # "idle" => proc.scope \in FiThreadScopes
  /\ proc.pc \in {"run", "mutate", "append", "settle"} => files[proc.scope] # NoFile
  /\ proc.pc \in {"mutate", "append", "settle"} => SignOK(H, proc.m)
  /\ proc.pc = "append" => proc.n \in 0..Len(H)
  /\ proc.pc = "settle" => proc.k \in DOMAIN H

ThreadInv ==
  /\ fiSource \in [d : Nat, r : Nat, i : Nat, c : Nat, ans : {0, 1}]
  /\ IsLog(fiLog) /\ ThreadLogOK(fiLog)
  /\ DOMAIN fiFiles = FileNames
  /\ \A f \in FiThreadScopes : fiFiles[f] # NoFile => JournalOK(fiLog, fiFiles[f])
  /\ ThreadProcOK(fiLog, fiFiles, fiProc)

----------------------------------------------------------------------------
(* Claims, heads and witnesses of a thread. *)

\* A set of natural numbers that has a member has a least one.
LEMMA LeastNumber ==
  ASSUME NEW T, T \subseteq Nat, T # {}
  PROVE  \E x \in T : \A y \in T : x <= y
<1>1. IsWellFoundedOn(OpToRel(<, Nat), Nat)
  BY NatLessThanWellFounded
<1>2. PICK x \in T : \A y \in T : ~(<<y, x>> \in OpToRel(<, Nat))
  BY <1>1, WFMin
<1>3. \A y \in T : ~(y < x)
  BY <1>2 DEF OpToRel
<1> QED
  BY <1>3

\* A set of numbers with a bound has a greatest one, which is its Max.
LEMMA MaxOf ==
  ASSUME NEW n \in Nat, NEW T, T \subseteq 0..n, T # {}
  PROVE  Max(T) \in T /\ \A y \in T : Max(T) >= y
<1> DEFINE B == {b \in Nat : \A t \in T : t <= b}
<1>1. PICK b \in B : \A c \in B : b <= c
  <2>1. n \in B /\ B \subseteq Nat
    OBVIOUS
  <2> HIDE DEF B
  <2> QED BY <2>1, LeastNumber
<1>2. b \in T
  <2> SUFFICES ASSUME b \notin T PROVE FALSE
    OBVIOUS
  <2>1. PICK t \in T : TRUE
    OBVIOUS
  <2>2. \A u \in T : u < b
    OBVIOUS
  <2>3. b - 1 \in B
    BY <2>1, <2>2
  <2> QED BY <1>1, <2>3
<1>3. \A t \in T : b >= t
  BY <1>1
<1> QED BY <1>2, <1>3 DEF Max

\* A record that was opened has a head.
LEMMA HasHead ==
  ASSUME NEW H, IsLog(H), ThreadLogOK(H), NEW kind, NEW r \in Roots(H, kind)
  PROVE  NativeHeads(H, r) # {} /\ NativeHeads(H, r) \subseteq DOMAIN H
<1> DEFINE R == RevisionsOf(H, r)
<1>1. DOMAIN H = 1..Len(H) /\ Len(H) \in Nat
  BY LogIs
<1>2. r \in R /\ R \subseteq 0..Len(H)
  BY <1>1 DEF Roots, RevisionsOf, RootOf
<1>3. Max(R) \in R /\ \A y \in R : Max(R) >= y
  <2> HIDE DEF R
  <2> QED BY <1>1, <1>2, MaxOf
<1>4. ASSUME NEW q \in R PROVE Max(R) \notin H[q].m.expected
  <2>1. H[q].m.expected \subseteq 1..(q - 1) /\ q \in Nat
    BY <1>1 DEF RevisionsOf, ThreadLogOK
  <2>2. Max(R) >= q /\ Max(R) \in Nat
    BY <1>2, <1>3
  <2> QED BY <2>1, <2>2
<1>5. Max(R) \in NativeHeads(H, r)
  BY <1>3, <1>4 DEF NativeHeads
<1> QED BY <1>5 DEF NativeHeads, RevisionsOf

\* The one opening that claims a part of the source.
LEMMA RootIs ==
  ASSUME NEW H, IsLog(H), ThreadMappingsOK(H), NEW n \in {"d", "r"}, Claimed(H, n)
  PROVE  /\ TheRoot(H, n) \in Claims(H, n) /\ TheRoot(H, n) \in DOMAIN H /\ TheRoot(H, n) \in Nat \ {0}
         /\ ~Conflicted(H, TheRoot(H, n))
         /\ Witness(H, TheRoot(H, n)) \in DOMAIN H
<1>1. DOMAIN H = 1..Len(H) /\ Len(H) \in Nat
  BY LogIs
<1>2. Claims(H, n) \subseteq 0..Len(H) /\ Claims(H, n) \subseteq DOMAIN H /\ Claims(H, n) # {}
  BY <1>1 DEF Claims, Roots, Claimed
<1>3. TheRoot(H, n) \in Claims(H, n)
  BY <1>1, <1>2, MaxOf DEF TheRoot
<1> DEFINE r == TheRoot(H, n)
           W == NearestImports(H, Max(NativeHeads(H, r)))
<1>4. WitnessOK(H, r)
  BY <1>3 DEF ThreadMappingsOK
<1>5. ~Conflicted(H, r) /\ Cardinality(W) = 1
  BY <1>4 DEF WitnessOK
<1>6. W \subseteq DOMAIN H /\ W \subseteq 0..Len(H)
  BY <1>1 DEF NearestImports
<1>7. W # {}
  <2> HIDE DEF W
  <2> QED BY <1>5, FS_EmptySet
<1>8. Max(W) \in W
  <2> HIDE DEF W
  <2> QED BY <1>1, <1>6, <1>7, MaxOf
<1>9. Witness(H, r) = Max(W)
  BY DEF Witness
<1> QED BY <1>1, <1>2, <1>3, <1>5, <1>6, <1>8, <1>9

----------------------------------------------------------------------------
(* The plan of a discussion import. *)

\* How a step of a plan is built.
StepForm(H, k, s) ==
  \/ s = Step("d", TRUE, 0, {}, 0)
  \/ \E n \in {"d", "r"} : \E pin \in Int : s = StepFor(H, n, pin) /\ PinOK(k, pin)
  \/ k > 1 /\ \E pin \in Int : s = Step("d", FALSE, -1, {-1}, pin) /\ PinOK(k, pin)

LEMMA FormAppended ==
  ASSUME NEW H, NEW s, IsLog(s), \A k \in DOMAIN s : StepForm(H, k, s[k]), NEW x, StepForm(H, Len(s) + 1, x)
  PROVE  IsLog(Append(s, x)) /\ \A k \in DOMAIN Append(s, x) : StepForm(H, k, Append(s, x)[k])
<1>1. /\ IsLog(Append(s, x)) /\ DOMAIN Append(s, x) = DOMAIN s \cup {Len(s) + 1}
      /\ \A k \in DOMAIN s : Append(s, x)[k] = s[k]
      /\ Append(s, x)[Len(s) + 1] = x
  BY LogGrows
<1> QED BY <1>1

LEMMA PlanForm ==
  ASSUME NEW H, IsLog(H), ThreadMappingsOK(H), NEW g \in [d : Nat, r : Nat, i : Nat, c : Nat, ans : {0, 1}]
  PROVE  /\ IsLog(BuildResourcePlan(H, g))
         /\ \A k \in DOMAIN BuildResourcePlan(H, g) : StepForm(H, k, BuildResourcePlan(H, g)[k])
<1> DEFINE s1 == Containers(H)
           s2 == WithReplies(H, g, s1)
           pin == AnswerPin(H, g, s2)
           s3 == WithAnswers(H, g, s2, pin)
<1>1. BuildResourcePlan(H, g) = s3
  BY DEF BuildResourcePlan
<1>2. IsLog(s1) /\ (\A k \in DOMAIN s1 : StepForm(H, k, s1[k])) /\ (~Claimed(H, "d") => Len(s1) = 1)
  <2>1. CASE Claimed(H, "d")
    <3>1. s1 = <<>>
      BY <2>1 DEF Containers
    <3> QED BY <2>1, <3>1 DEF IsLog
  <2>2. CASE ~Claimed(H, "d")
    <3> DEFINE x == Step("d", TRUE, 0, {}, 0)
    <3>1. s1 = <<x>>
      BY <2>2 DEF Containers
    <3>2. StepForm(H, 1, x)
      BY DEF StepForm
    <3> HIDE DEF x, s1
    <3>3. Len(s1) = 1 /\ DOMAIN s1 = {1} /\ s1[1] = x /\ s1 \in Seq({x})
      BY <3>1
    <3>4. IsLog(s1)
      BY <3>3, LogOf
    <3> QED BY <3>2, <3>3, <3>4
  <2> QED BY <2>1, <2>2
<1> HIDE DEF s1
<1>3. Len(s1) \in Nat
  BY <1>2, LogIs
<1>4. /\ IsLog(s2) /\ \A k \in DOMAIN s2 : StepForm(H, k, s2[k])
      /\ ~Claimed(H, "d") => Len(s2) >= 1
      /\ s2 = s1 => g.r = 0 \/ Claimed(H, "r")
  <2>1. CASE g.r = 0 \/ (Claimed(H, "r") /\ Observed(H, g, "r"))
    <3>1. s2 = s1 /\ (g.r = 0 \/ Claimed(H, "r"))
      BY <2>1 DEF WithReplies
    <3> HIDE DEF s2
    <3> QED BY <1>2, <1>3, <3>1
  <2>2. CASE ~(g.r = 0 \/ (Claimed(H, "r") /\ Observed(H, g, "r")))
    <3> DEFINE x == StepFor(H, "r", 0)
    <3>1. s2 = Append(s1, x)
      BY <2>2 DEF WithReplies
    <3>2. StepForm(H, Len(s1) + 1, x)
      <4>1. PinOK(Len(s1) + 1, 0) /\ 0 \in Int /\ x = StepFor(H, "r", 0)
        BY DEF PinOK
      <4> HIDE DEF x
      <4>2. \E n \in {"d", "r"} : \E q \in Int : x = StepFor(H, n, q) /\ PinOK(Len(s1) + 1, q)
        BY <4>1
      <4> QED BY <4>2 DEF StepForm
    <3> HIDE DEF x, s2
    <3>3. IsLog(s2) /\ \A k \in DOMAIN s2 : StepForm(H, k, s2[k])
      BY <1>2, <3>1, <3>2, FormAppended
    <3>4. Len(s2) = Len(s1) + 1
      BY <1>2, <3>1, LogGrows
    <3>5. Len(s2) >= 1 /\ s2 # s1
      BY <1>3, <3>4
    <3> QED BY <3>3, <3>5
  <2> QED BY <2>1, <2>2
<1>5. s2 # s1 => \E k \in DOMAIN s2 : s2[k].node = "r"
  <2> DEFINE x == StepFor(H, "r", 0)
  <2>1. x.node = "r"
    BY DEF StepFor, Step
  <2> HIDE DEF x
  <2>2. s2 # s1 => s2 = Append(s1, x)
    BY DEF WithReplies, x
  <2>3. s2 # s1 => Len(s1) + 1 \in DOMAIN s2 /\ s2[Len(s1) + 1] = x
    <3> HIDE DEF s2
    <3> QED BY <1>2, <2>2, LogGrows
  <2> QED BY <2>1, <2>3
<1> HIDE DEF s2
<1>6. Len(s2) \in Nat /\ DOMAIN s2 = 1..Len(s2)
  BY <1>4, LogIs
<1>7. pin \in Int /\ PinOK(Len(s2) + 1, pin)
  <2>1. CASE g.ans * g.r = 0
    <3>1. pin = 0
      BY <2>1 DEF AnswerPin
    <3> QED BY <3>1 DEF PinOK
  <2>2. CASE g.ans * g.r # 0 /\ \E k \in DOMAIN s2 : s2[k].node = "r"
    <3>1. pin = 0 - Len(s2) /\ Len(s2) >= 1
      BY <1>6, <2>2 DEF AnswerPin
    <3> HIDE DEF pin
    <3>2. 0 - pin = Len(s2) /\ pin \in Int
      <4>1. \A n \in Nat : 0 - (0 - n) = n /\ 0 - n \in Int
        OBVIOUS
      <4> QED BY <1>6, <3>1, <4>1
    <3>3. 0 - pin \in 1..(Len(s2) + 1 - 1)
      BY <1>6, <3>1, <3>2
    <3> QED BY <3>2, <3>3 DEF PinOK
  <2>3. CASE g.ans * g.r # 0 /\ ~\E k \in DOMAIN s2 : s2[k].node = "r"
    <3>1. pin = Witness(H, TheRoot(H, "r"))
      BY <2>3 DEF AnswerPin
    <3>2. g.r # 0
      <4>1. g.ans \in Int /\ g.r \in Int
        OBVIOUS
      <4>2. CASE g.r = 0
        <5>1. g.ans * 0 = 0
          BY <4>1
        <5> QED BY <2>3, <4>2, <5>1
      <4> QED BY <4>2
    <3>3. Claimed(H, "r")
      BY <1>4, <1>5, <2>3, <3>2
    <3>4. Witness(H, TheRoot(H, "r")) \in DOMAIN H
      BY <3>3, RootIs
    <3>5. DOMAIN H = 1..Len(H) /\ Len(H) \in Nat
      BY LogIs
    <3> HIDE DEF pin
    <3>6. pin \in Nat
      BY <3>1, <3>4, <3>5
    <3> QED BY <3>6 DEF PinOK
  <2> QED BY <2>1, <2>2, <2>3
<1> HIDE DEF pin
<1>8. IsLog(s3) /\ \A k \in DOMAIN s3 : StepForm(H, k, s3[k])
  <2>1. CASE s3 = s2
    BY <1>4, <2>1
  <2>2. CASE ~Claimed(H, "d") /\ s3 = Append(s2, Step("d", FALSE, -1, {-1}, pin))
    <3> DEFINE x == Step("d", FALSE, -1, {-1}, pin)
    <3>1. Len(s2) + 1 > 1
      BY <1>4, <1>6, <2>2
    <3>2. StepForm(H, Len(s2) + 1, x)
      BY <1>7, <3>1 DEF StepForm
    <3> HIDE DEF x, s3
    <3> QED BY <1>4, <2>2, <3>2, FormAppended DEF x
  <2>3. CASE s3 = Append(s2, StepFor(H, "d", pin))
    <3> DEFINE x == StepFor(H, "d", pin)
    <3>1. StepForm(H, Len(s2) + 1, x)
      BY <1>7 DEF StepForm
    <3> HIDE DEF x, s3
    <3> QED BY <1>4, <2>3, <3>1, FormAppended DEF x
  <2> QED BY <2>1, <2>2, <2>3 DEF WithAnswers
<1> HIDE DEF s3
<1> QED BY <1>1, <1>8

\* A plan that is not blocked.
LEMMA PlanStepsOK ==
  ASSUME NEW H, IsLog(H), NEW g \in [d : Nat, r : Nat, i : Nat, c : Nat, ans : {0, 1}], ~PlanBlocked(H, g)
  PROVE  /\ IsLog(BuildResourcePlan(H, g))
         /\ \A k \in DOMAIN BuildResourcePlan(H, g) : PlannedStepOK(H, g, k, BuildResourcePlan(H, g)[k])
<1> DEFINE P == BuildResourcePlan(H, g)
<1>1. ThreadMappingsOK(H) /\ \A k \in DOMAIN P : ~Competing(H, g, P[k])
  BY DEF PlanBlocked
<1>2. IsLog(P) /\ \A k \in DOMAIN P : StepForm(H, k, P[k])
  BY <1>1, PlanForm
<1>3. DOMAIN P = 1..Len(P) /\ Len(P) \in Nat
  BY <1>2, LogIs
<1> HIDE DEF P
<1>4. ASSUME NEW k \in DOMAIN P PROVE PlannedStepOK(H, g, k, P[k])
  <2> DEFINE s == P[k]
  <2>1. StepForm(H, k, s) /\ ~Competing(H, g, s) /\ k \in Nat \ {0}
    BY <1>1, <1>2, <1>3
  <2> HIDE DEF s
  <2>2. CASE s = Step("d", TRUE, 0, {}, 0)
    <3>1. s.pin = 0 /\ s.id = 0 /\ s.expected = {}
      BY <2>2 DEF Step
    <3> QED BY <3>1 DEF PlannedStepOK, PinOK, s
  <2>3. CASE \E n \in {"d", "r"} : \E pin \in Int : s = StepFor(H, n, pin) /\ PinOK(k, pin)
    <3>1. PICK n \in {"d", "r"}, pin \in Int : s = StepFor(H, n, pin) /\ PinOK(k, pin)
      BY <2>3
    <3>2. CASE ~Claimed(H, n)
      <4>1. s.pin = pin /\ s.id = 0 /\ s.expected = {}
        BY <3>1, <3>2 DEF StepFor, Step
      <4> QED BY <3>1, <4>1 DEF PlannedStepOK, s
    <3>3. CASE Claimed(H, n)
      <4> DEFINE r == TheRoot(H, n)
      <4>1. s.pin = pin /\ s.id = r /\ s.expected = NativeHeads(H, r)
        BY <3>1, <3>3 DEF StepFor, Step
      <4>2. r \in Nat \ {0} /\ ~Conflicted(H, r)
        BY <1>1, <3>3, RootIs
      <4> HIDE DEF r
      <4>3. HeadState(H, r).managed \in {HeadState(H, r).base, Desired(g, s)}
        BY <2>1, <4>1, <4>2 DEF Competing
      <4>4. \A q \in NativeHeads(H, r) : q \in DOMAIN H /\ HeadState(H, r) = H[q].m.state
        BY <4>2, HeadIs
      <4>5. \A q \in s.expected : q \in DOMAIN H /\ H[q].m.state.managed \in {H[q].m.state.base, Desired(g, s)}
        BY <4>1, <4>3, <4>4
      <4>6. s.id \in Int /\ ~(s.id = 0) /\ ~(s.id < 0)
        BY <4>1, <4>2
      <4> QED BY <3>1, <4>1, <4>5, <4>6 DEF PlannedStepOK, s
    <3> QED BY <3>2, <3>3
  <2>4. CASE k > 1 /\ \E pin \in Int : s = Step("d", FALSE, -1, {-1}, pin) /\ PinOK(k, pin)
    <3>1. PICK pin \in Int : s = Step("d", FALSE, -1, {-1}, pin) /\ PinOK(k, pin)
      BY <2>4
    <3>2. s.pin = pin /\ s.id = -1 /\ s.expected = {-1}
      BY <3>1 DEF Step
    <3>3. s.id \in Int /\ s.id # 0 /\ ~(s.id > 0)
      BY <3>2
    <3> QED BY <2>4, <3>1, <3>2, <3>3 DEF PlannedStepOK, s
  <2> QED BY <2>1, <2>2, <2>3, <2>4 DEF StepForm
<1> QED BY <1>2, <1>4 DEF P

----------------------------------------------------------------------------
(* The mutation of a step. *)

\* What a resolved state looks like.
LEMMA StateOf ==
  ASSUME NEW a, NEW b \in Nat, NEW src, NEW obs
  PROVE  LET s == NativeState(<<a, b>>, src, <<a, b>>, obs) IN
         StateShape(s) /\ s.managed = <<a, b>> /\ s.base = <<a, b>>
<1> DEFINE v == <<a, b>>
           s == NativeState(v, src, v, obs)
<1>1. v[1] = a /\ v[2] = b /\ v = <<v[1], v[2]>>
  OBVIOUS
<1> HIDE DEF v
<1>2. s.managed = v /\ s.base = v /\ s.src = src /\ s.obs = obs
  BY DEF NativeState
<1>3. s = NativeState(s.managed, s.src, s.base, s.obs)
  BY <1>2
<1> HIDE DEF s
<1>4. StateShape(s)
  BY <1>1, <1>2, <1>3 DEF StateShape
<1> QED BY <1>2, <1>4 DEF s, v

LEMMA StepSignOK ==
  ASSUME NEW H, IsLog(H), ThreadLogOK(H), NEW j, JournalOK(H, j), j.next <= Len(j.steps)
  PROVE  SignOK(H, StepMutation(j, j.next))
<1> DEFINE k == j.next
           s == j.steps[k]
           pinned == Resolve(s.pin, j.bound)
           managed == IF s.node = "r" THEN <<j.graph.r, 0>> ELSE <<j.graph.d, pinned>>
           obs == <<RemoteDigest(j.graph, s.node, s.noAnswer), GraphDigest(j.graph)>>
           state == NativeState(managed, s.node, managed, obs)
           parents == {Resolve(e, j.bound) : e \in s.expected}
           m == StepMutation(j, k)
<1>1. /\ IsLog(j.steps) /\ IsLog(j.bound) /\ k \in Nat \ {0} /\ Len(j.bound) = k - 1
      /\ \A q \in DOMAIN j.bound :
           j.bound[q] \in DOMAIN H /\ H[j.bound[q]].m.state.managed = H[j.bound[q]].m.state.base
  BY DEF JournalOK
<1>2. /\ DOMAIN H = 1..Len(H) /\ Len(H) \in Nat /\ DOMAIN j.steps = 1..Len(j.steps) /\ Len(j.steps) \in Nat
      /\ DOMAIN j.bound = 1..(k - 1)
  BY <1>1, LogIs
<1>3. PlannedStepOK(H, j.graph, k, s)
  <2>1. k \in DOMAIN j.steps
    BY <1>1, <1>2
  <2> QED BY <2>1 DEF JournalOK
<1>4. m.intent = (IF s.id = 0 THEN "open" ELSE "revise") /\ m.expected = parents /\ m.state = state
  <2> HIDE DEF s, state, parents
  <2>1. \A kind, intent, root, expected, st, op, new :
          LET x == Mutation(kind, intent, root, expected, st, op)
              y == [x EXCEPT !.op = new]
          IN y.intent = intent /\ y.expected = expected /\ y.state = st
    BY DEF Mutation
  <2> QED BY <2>1 DEF StepMutation, s, state, parents
<1> HIDE DEF s, m
<1>5. pinned \in Nat /\ (s.pin >= 0 => pinned = s.pin)
  <2>1. s.pin \in Int /\ (s.pin < 0 => 0 - s.pin \in 1..(k - 1))
    BY <1>3 DEF PlannedStepOK, PinOK
  <2>2. CASE s.pin < 0
    <3>1. pinned = j.bound[0 - s.pin]
      BY <2>2 DEF Resolve
    <3>2. j.bound[0 - s.pin] \in DOMAIN H
      BY <1>1, <1>2, <2>1, <2>2
    <3> HIDE DEF pinned
    <3> QED BY <1>2, <2>1, <2>2, <3>1, <3>2
  <2>3. CASE ~(s.pin < 0)
    <3>1. pinned = s.pin
      BY <2>3 DEF Resolve
    <3> HIDE DEF pinned
    <3> QED BY <2>1, <2>3, <3>1
  <2> QED BY <2>2, <2>3
<1> HIDE DEF pinned
<1>6. \E a : \E b \in Nat : managed = <<a, b>>
  BY <1>5
<1> HIDE DEF managed, obs
<1>7. StateShape(state) /\ state.managed = managed /\ state.base = managed
  BY <1>6, StateOf
<1> HIDE DEF state
<1>8. s.id = 0 => parents = {}
  BY <1>3 DEF PlannedStepOK
<1>9. s.id < 0 => parents = {j.bound[1]} /\ 1 \in DOMAIN j.bound
  <2>1. s.id < 0 => s.expected = {-1} /\ k > 1
    BY <1>3 DEF PlannedStepOK
  <2>2. Resolve(-1, j.bound) = j.bound[1]
    BY DEF Resolve
  <2>3. s.expected = {-1} => parents = {Resolve(-1, j.bound)}
    OBVIOUS
  <2> HIDE DEF parents
  <2> QED BY <1>1, <1>2, <2>1, <2>2, <2>3
<1>10. s.id > 0 => parents = s.expected /\ \A q \in s.expected :
         q \in DOMAIN H /\ H[q].m.state.managed \in {H[q].m.state.base, Desired(j.graph, s)}
  <2>1. s.id > 0 => \A q \in s.expected :
         q \in DOMAIN H /\ H[q].m.state.managed \in {H[q].m.state.base, Desired(j.graph, s)}
    BY <1>3 DEF PlannedStepOK
  <2>2. \A q \in DOMAIN H : Resolve(q, j.bound) = q
    BY <1>2 DEF Resolve
  <2> QED BY <2>1, <2>2
<1>11. s.id \in Int
  BY <1>3 DEF PlannedStepOK
<1> HIDE DEF parents
<1>12. \A q \in parents : q \in DOMAIN H /\ H[q].m.state.managed \in {H[q].m.state.base, managed}
  <2>1. CASE s.id = 0
    BY <1>8, <2>1
  <2>2. CASE s.id < 0
    BY <1>1, <1>9, <2>2
  <2>3. CASE s.id > 0
    <3> SUFFICES ASSUME NEW q \in parents
                 PROVE  q \in DOMAIN H /\ H[q].m.state.managed \in {H[q].m.state.base, managed}
      OBVIOUS
    <3>1. q \in DOMAIN H /\ H[q].m.state.managed \in {H[q].m.state.base, Desired(j.graph, s)}
      BY <1>10, <2>3
    <3>2. StateShape(H[q].m.state)
      BY <3>1 DEF ThreadLogOK
    <3>3. H[q].m.state.managed[2] \in Nat
      BY <3>2 DEF StateShape
    <3>4. CASE s.node = "r"
      BY <3>1, <3>4 DEF Desired, managed
    <3>5. CASE s.node # "r" /\ s.pin >= 0
      BY <1>5, <3>1, <3>5 DEF Desired, managed
    <3>6. CASE s.node # "r" /\ ~(s.pin >= 0)
      <4>1. s.pin \in Int
        BY <1>3 DEF PlannedStepOK, PinOK
      <4>2. Desired(j.graph, s) = <<j.graph.d, s.pin>>
        BY <3>6 DEF Desired
      <4>3. Desired(j.graph, s)[2] = s.pin
        BY <4>2
      <4> QED BY <3>1, <3>3, <3>6, <4>1, <4>3
    <3> QED BY <3>4, <3>5, <3>6
  <2> QED BY <1>11, <2>1, <2>2, <2>3
<1>13. SignOK(H, m)
  BY <1>4, <1>7, <1>12 DEF SignOK, Keeps
<1> QED BY <1>13 DEF m

----------------------------------------------------------------------------
(* The log of discussions as it grows. *)

LEMMA ThreadGrows ==
  ASSUME NEW H, IsLog(H), ThreadLogOK(H), NEW e, e.m.expected \subseteq DOMAIN H, StateShape(e.m.state),
         Imported(e) /\ e.m.intent = "revise" => Keeps(H, e.m)
  PROVE  LET N == Append(H, e) IN
         /\ IsLog(N) /\ ThreadLogOK(N) /\ Len(H) + 1 \in DOMAIN N
         /\ \A j : JournalOK(H, j) => JournalOK(N, j)
         /\ \A m : SignOK(H, m) => SignOK(N, m)
         /\ \A files, proc : ThreadProcOK(H, files, proc) => ThreadProcOK(N, files, proc)
<1> DEFINE N == Append(H, e)
<1>1. /\ IsLog(N) /\ Len(N) = Len(H) + 1 /\ Len(H) \in Nat
      /\ DOMAIN N = DOMAIN H \cup {Len(H) + 1} /\ Len(H) + 1 \notin DOMAIN H
      /\ \A k \in DOMAIN H : N[k] = H[k]
      /\ N[Len(H) + 1] = e
  BY LogGrows
<1>2. DOMAIN H = 1..Len(H)
  BY LogIs
<1>3. \A m : Keeps(H, m) => Keeps(N, m)
  BY PastKept
<1> HIDE DEF N
<1>4. ThreadLogOK(N)
  <2> SUFFICES ASSUME NEW k \in DOMAIN N
               PROVE  /\ N[k].m.expected \subseteq 1..(k - 1) /\ StateShape(N[k].m.state)
                      /\ Imported(N[k]) /\ N[k].m.intent = "revise" => Keeps(N, N[k].m)
    BY DEF ThreadLogOK
  <2>1. CASE k \in DOMAIN H
    BY <1>1, <1>3, <2>1 DEF ThreadLogOK
  <2>2. CASE k = Len(H) + 1
    BY <1>1, <1>2, <1>3, <2>2
  <2> QED BY <1>1, <2>1, <2>2
<1>5. ASSUME NEW g, NEW k, NEW s, PlannedStepOK(H, g, k, s) PROVE PlannedStepOK(N, g, k, s)
  BY <1>1, <1>5 DEF PlannedStepOK
<1>6. ASSUME NEW j, JournalOK(H, j) PROVE JournalOK(N, j)
  BY <1>1, <1>5, <1>6 DEF JournalOK
<1>7. ASSUME NEW m, SignOK(H, m) PROVE SignOK(N, m)
  BY <1>1, <1>3, <1>7 DEF SignOK
<1>8. ASSUME NEW files, NEW proc, ThreadProcOK(H, files, proc) PROVE ThreadProcOK(N, files, proc)
  <2>1. proc.pc = "append" => proc.n \in 0..Len(N)
    BY <1>1, <1>8 DEF ThreadProcOK
  <2> QED BY <1>1, <1>7, <1>8, <2>1 DEF ThreadProcOK
<1> QED BY <1>1, <1>4, <1>6, <1>7, <1>8 DEF N

----------------------------------------------------------------------------
(* One lemma per step of a discussion import. *)

\* A journal of its own for every selection.
LEMMA JournalFileIs ==
  ASSUME ThreadInv, fiProc.scope \in FiThreadScopes
  PROVE  /\ MyFile = fiFiles[fiProc.scope] /\ fiProc.scope \notin FiIssueScopes
         /\ \A x : SaveFile(x) =>
              /\ DOMAIN fiFiles' = FileNames /\ fiFiles'[fiProc.scope] = x
              /\ \A f \in FiThreadScopes : f # fiProc.scope => fiFiles'[f] = fiFiles[f]
<1>1. IntentFile(fiProc.scope) = fiProc.scope /\ fiProc.scope \notin FiIssueScopes
  BY ForgeImportAssumption DEF IntentFile
<1>2. FiThreadScopes \subseteq FileNames /\ DOMAIN fiFiles = FileNames
  BY DEF FileNames, FiScopes, ThreadInv
<1> QED BY <1>1, <1>2 DEF MyFile, SaveFile

LEMMA ThreadMoves ==
  ASSUME ThreadInv, UNCHANGED <<fiSource, fiLog, fiFiles>>, ThreadProcOK(fiLog, fiFiles, fiProc')
  PROVE  ThreadInv'
  BY DEF ThreadInv

LEMMA ThreadSaves ==
  ASSUME ThreadInv, UNCHANGED <<fiSource, fiLog>>, fiProc.scope \in FiThreadScopes, NEW x, SaveFile(x),
         x # NoFile => JournalOK(fiLog, x), ThreadProcOK(fiLog, fiFiles', fiProc')
  PROVE  ThreadInv'
<1>1. /\ DOMAIN fiFiles' = FileNames /\ fiFiles'[fiProc.scope] = x
      /\ \A f \in FiThreadScopes : f # fiProc.scope => fiFiles'[f] = fiFiles[f]
  BY JournalFileIs
<1>2. \A f \in FiThreadScopes : fiFiles'[f] # NoFile => JournalOK(fiLog, fiFiles'[f])
  BY <1>1 DEF ThreadInv
<1> QED BY <1>1, <1>2 DEF ThreadInv

LEMMA ThreadIdles ==
  ASSUME ThreadInv, UNCHANGED <<fiSource, fiLog, fiFiles>>, fiProc' = Idle \/ UNCHANGED fiProc
  PROVE  ThreadInv'
<1>1. ThreadProcOK(fiLog, fiFiles, fiProc)
  BY DEF ThreadInv
<1>2. ThreadProcOK(fiLog, fiFiles, fiProc')
  BY <1>1 DEF ThreadProcOK, Idle
<1> QED BY <1>2, ThreadMoves

LEMMA ThreadBegins ==
  ASSUME ThreadInv, NEW scope \in FiThreadScopes, BeginImport(scope)
  PROVE  ThreadInv'
<1>1. ThreadProcOK(fiLog, fiFiles, fiProc')
  BY DEF BeginImport, ThreadProcOK
<1> QED BY <1>1, ThreadMoves DEF BeginImport

LEMMA LoadKeeps ==
  ASSUME ThreadInv, LoadJournal
  PROVE  ThreadInv'
<1>1. fiProc.scope \in FiThreadScopes /\ MyFile # NoFile /\ UNCHANGED <<fiSource, fiLog, fiFiles>>
  BY DEF LoadJournal
<1>2. MyFile = fiFiles[fiProc.scope]
  BY <1>1, JournalFileIs
<1>3. CASE EndImport
  BY <1>1, <1>3, ThreadIdles DEF EndImport
<1>4. CASE Goto("run")
  <2>1. ThreadProcOK(fiLog, fiFiles, fiProc')
    BY <1>1, <1>2, <1>4 DEF Goto, Continue, ThreadProcOK
  <2> QED BY <1>1, <2>1, ThreadMoves
<1> QED BY <1>3, <1>4 DEF LoadJournal

LEMMA ThreadPlanned ==
  ASSUME ThreadInv, PlanThread
  PROVE  ThreadInv'
<1>1. fiProc.scope \in FiThreadScopes /\ UNCHANGED <<fiSource, fiLog>>
  BY DEF PlanThread
<1>2. CASE EndImport /\ UNCHANGED fiFiles
  BY <1>1, <1>2, ThreadIdles DEF EndImport
<1> DEFINE P == BuildResourcePlan(fiLog, ReadGraph)
           j == [file |-> "journal", graph |-> ReadGraph, anchor |-> Len(fiLog), next |-> 1,
                 steps |-> P, bound |-> <<>>, pending |-> FALSE]
<1>3. CASE ~PlanBlocked(fiLog, ReadGraph) /\ SaveFile(j) /\ Goto("run")
  <2>1. IsLog(fiLog) /\ ReadGraph \in [d : Nat, r : Nat, i : Nat, c : Nat, ans : {0, 1}]
    BY DEF ThreadInv, ReadGraph
  <2>2. IsLog(P) /\ \A k \in DOMAIN P : PlannedStepOK(fiLog, ReadGraph, k, P[k])
    BY <1>3, <2>1, PlanStepsOK
  <2>3. SaveFile(j)
    BY <1>3
  <2> HIDE DEF P
  <2>4. /\ j.file = "journal" /\ j.graph = ReadGraph /\ j.next = 1 /\ j.steps = P /\ j.bound = <<>>
        /\ j = [file |-> "journal", graph |-> j.graph, anchor |-> j.anchor, next |-> j.next,
                steps |-> j.steps, bound |-> j.bound, pending |-> j.pending]
    OBVIOUS
  <2> HIDE DEF j
  <2>5. IsLog(<<>>) /\ Len(<<>>) = 1 - 1 /\ DOMAIN <<>> = {} /\ 1 \in Nat \ {0}
    BY DEF IsLog
  <2>6. JournalOK(fiLog, j)
    BY <2>2, <2>4, <2>5 DEF JournalOK
  <2>7. j # NoFile
    BY <2>4 DEF NoFile
  <2>8. fiFiles'[fiProc.scope] = j
    BY <1>1, <2>3, JournalFileIs
  <2>9. ThreadProcOK(fiLog, fiFiles', fiProc')
    BY <1>1, <1>3, <2>7, <2>8 DEF Goto, Continue, ThreadProcOK
  <2> QED BY <1>1, <2>3, <2>6, <2>9, ThreadSaves
<1> QED BY <1>2, <1>3 DEF PlanThread

\* One field of a journal changed, its pending mark set, and a journal one
\* step further.
LEMMA JournalField ==
  ASSUME NEW g, NEW a, NEW n, NEW s, NEW b, NEW p, NEW j, NEW v,
         j = [file |-> "journal", graph |-> g, anchor |-> a, next |-> n, steps |-> s, bound |-> b, pending |-> p]
  PROVE  /\ [j EXCEPT !.pending = v] =
              [file |-> "journal", graph |-> g, anchor |-> a, next |-> n, steps |-> s, bound |-> b, pending |-> v]
         /\ [j EXCEPT !.bound = v] =
              [file |-> "journal", graph |-> g, anchor |-> a, next |-> n, steps |-> s, bound |-> v, pending |-> p]
         /\ [j EXCEPT !.next = v] =
              [file |-> "journal", graph |-> g, anchor |-> a, next |-> v, steps |-> s, bound |-> b, pending |-> p]
<1>1. [j EXCEPT !.pending = v] =
        [file |-> "journal", graph |-> g, anchor |-> a, next |-> n, steps |-> s, bound |-> b, pending |-> v]
  OBVIOUS
<1>2. [j EXCEPT !.bound = v] =
        [file |-> "journal", graph |-> g, anchor |-> a, next |-> n, steps |-> s, bound |-> v, pending |-> p]
  OBVIOUS
<1>3. [j EXCEPT !.next = v] =
        [file |-> "journal", graph |-> g, anchor |-> a, next |-> v, steps |-> s, bound |-> b, pending |-> p]
  OBVIOUS
<1> QED BY <1>1, <1>2, <1>3

LEMMA JournalMarked ==
  ASSUME NEW g, NEW a, NEW n, NEW s, NEW b, NEW p, NEW j,
         j = [file |-> "journal", graph |-> g, anchor |-> a, next |-> n, steps |-> s, bound |-> b, pending |-> p]
  PROVE  [j EXCEPT !.pending = TRUE] =
           [file |-> "journal", graph |-> g, anchor |-> a, next |-> n, steps |-> s, bound |-> b, pending |-> TRUE]
<1>1. \A v : [j EXCEPT !.pending = v] =
        [file |-> "journal", graph |-> g, anchor |-> a, next |-> n, steps |-> s, bound |-> b, pending |-> v]
  OBVIOUS
<1> QED BY <1>1

LEMMA JournalAdvanced ==
  ASSUME NEW g, NEW a, NEW n, NEW s, NEW b, NEW p, NEW k, NEW j,
         j = [file |-> "journal", graph |-> g, anchor |-> a, next |-> n, steps |-> s, bound |-> b, pending |-> p]
  PROVE  [j EXCEPT !.next = @ + 1, !.bound = Append(@, k), !.pending = FALSE] =
           [file |-> "journal", graph |-> g, anchor |-> a, next |-> n + 1, steps |-> s,
            bound |-> Append(b, k), pending |-> FALSE]
<1> DEFINE x == n + 1
           y == Append(b, k)
<1>1. j.next = n /\ j.bound = b
  OBVIOUS
<1>2. [j EXCEPT !.next = @ + 1, !.bound = Append(@, k), !.pending = FALSE]
        = [[[j EXCEPT !.next = x] EXCEPT !.bound = y] EXCEPT !.pending = FALSE]
  BY <1>1
<1> HIDE DEF x, y
<1>3. PICK j1 : j1 = [j EXCEPT !.next = x]
  OBVIOUS
<1>4. j1 = [file |-> "journal", graph |-> g, anchor |-> a, next |-> x, steps |-> s, bound |-> b, pending |-> p]
  BY <1>3, JournalField
<1>5. PICK j2 : j2 = [j1 EXCEPT !.bound = y]
  OBVIOUS
<1>6. j2 = [file |-> "journal", graph |-> g, anchor |-> a, next |-> x, steps |-> s, bound |-> y, pending |-> p]
  BY <1>4, <1>5, JournalField
<1>7. \A v : [j2 EXCEPT !.pending = v] =
        [file |-> "journal", graph |-> g, anchor |-> a, next |-> x, steps |-> s, bound |-> y, pending |-> v]
  <2> TAKE v
  <2>1. PICK j3 : j3 = [j2 EXCEPT !.pending = v]
    OBVIOUS
  <2>2. j3 = [file |-> "journal", graph |-> g, anchor |-> a, next |-> x, steps |-> s, bound |-> y, pending |-> v]
    BY <1>6, <2>1, JournalField
  <2> QED BY <2>1, <2>2
<1>8. [j2 EXCEPT !.pending = FALSE] =
        [file |-> "journal", graph |-> g, anchor |-> a, next |-> x, steps |-> s, bound |-> y, pending |-> FALSE]
  BY <1>7
<1> QED BY <1>2, <1>3, <1>5, <1>8 DEF x, y

LEMMA ThreadRuns ==
  ASSUME ThreadInv, RunStep
  PROVE  ThreadInv'
<1>1. fiProc.pc = "run" /\ fiProc.scope \in FiThreadScopes /\ fiFiles[fiProc.scope] # NoFile
      /\ UNCHANGED <<fiSource, fiLog>>
  BY DEF RunStep, ImportAt, ThreadInv, ThreadProcOK
<1> DEFINE j == fiFiles[fiProc.scope]
<1>2. MyFile = j
  BY <1>1, JournalFileIs
<1>3. JournalOK(fiLog, j) /\ j # NoFile
  BY <1>1 DEF ThreadInv
<1>4. CASE RemoveFile /\ EndImport
  <2>1. ThreadProcOK(fiLog, fiFiles', fiProc')
    BY <1>4 DEF EndImport, Idle, ThreadProcOK
  <2> QED BY <1>1, <1>4, <2>1, ThreadSaves DEF RemoveFile
<1>5. CASE /\ ~(j.next > Len(j.steps)) /\ SaveFile([j EXCEPT !.pending = TRUE])
           /\ Mutate(StepMutation(j, j.next), NoPlan)
  <2> DEFINE new == [j EXCEPT !.pending = TRUE]
             m == StepMutation(j, j.next)
  <2>1. j.next <= Len(j.steps)
    <3>1. j.next \in Nat /\ IsLog(j.steps)
      BY <1>3 DEF JournalOK
    <3>2. Len(j.steps) \in Nat
      BY <3>1, LogIs
    <3> QED BY <1>5, <3>1, <3>2
  <2>2. SignOK(fiLog, m)
    BY <1>3, <2>1, StepSignOK DEF ThreadInv
  <2> HIDE DEF m
  <2>3. j = [file |-> "journal", graph |-> j.graph, anchor |-> j.anchor, next |-> j.next,
             steps |-> j.steps, bound |-> j.bound, pending |-> j.pending]
    BY <1>3 DEF JournalOK
  <2>4. SaveFile(new)
    BY <1>5
  <2> HIDE DEF j
  <2>5. new = [file |-> "journal", graph |-> j.graph, anchor |-> j.anchor, next |-> j.next,
             steps |-> j.steps, bound |-> j.bound, pending |-> TRUE]
    BY <2>3, JournalMarked
  <2> HIDE DEF new
  <2>6. /\ new.graph = j.graph /\ new.next = j.next /\ new.steps = j.steps /\ new.bound = j.bound /\ new.file = "journal"
        /\ new = [file |-> "journal", graph |-> new.graph, anchor |-> new.anchor, next |-> new.next,
                  steps |-> new.steps, bound |-> new.bound, pending |-> new.pending]
    BY <2>5
  <2>7. JournalOK(fiLog, new)
    BY <1>3, <2>6 DEF JournalOK
  <2>8. new # NoFile
    BY <2>6 DEF NoFile
  <2>9. fiFiles'[fiProc.scope] = new
    BY <1>1, <2>4, JournalFileIs
  <2>10. fiProc'.pc = "mutate" /\ fiProc'.scope = fiProc.scope /\ fiProc'.m = m
    BY <1>5 DEF Mutate, Continue, m, j
  <2>11. ThreadProcOK(fiLog, fiFiles', fiProc')
    BY <1>1, <2>2, <2>8, <2>9, <2>10 DEF ThreadProcOK
  <2> QED BY <1>1, <2>4, <2>7, <2>11, ThreadSaves
<1>6. \/ RemoveFile /\ EndImport
      \/ /\ ~(j.next > Len(j.steps)) /\ SaveFile([j EXCEPT !.pending = TRUE])
         /\ Mutate(StepMutation(j, j.next), NoPlan)
  <2> HIDE DEF j
  <2> QED BY <1>2 DEF RunStep
<1> QED BY <1>4, <1>5, <1>6

LEMMA ThreadCollects ==
  ASSUME ThreadInv, CollectEvents
  PROVE  ThreadInv'
<1>1. /\ fiProc.pc = "mutate" /\ fiProc.scope \in FiThreadScopes /\ UNCHANGED <<fiSource, fiLog, fiFiles>>
      /\ fiFiles[fiProc.scope] # NoFile /\ SignOK(fiLog, fiProc.m)
  BY DEF CollectEvents, ImportAt, ThreadInv, ThreadProcOK
<1>2. /\ fiProc'.pc = "append" /\ fiProc'.scope = fiProc.scope /\ fiProc'.m = fiProc.m /\ fiProc'.n = Len(fiLog)
  BY DEF CollectEvents, Continue
<1>3. Len(fiLog) \in 0..Len(fiLog)
  <2>1. Len(fiLog) \in Nat
    BY LogIs DEF ThreadInv
  <2> QED BY <2>1
<1>4. ThreadProcOK(fiLog, fiFiles, fiProc')
  BY <1>1, <1>2, <1>3 DEF ThreadProcOK
<1> QED BY <1>1, <1>4, ThreadMoves

LEMMA ThreadAppends ==
  ASSUME ThreadInv, AppendNative
  PROVE  ThreadInv'
<1> DEFINE H == SubSeq(fiLog, 1, fiProc.n)
           m == fiProc.m
           prior == WithOperation(H, m.op)
<1>1. /\ fiProc.pc = "append" /\ fiProc.scope \in FiThreadScopes /\ UNCHANGED <<fiSource, fiFiles>>
      /\ fiFiles[fiProc.scope] # NoFile /\ SignOK(fiLog, m) /\ fiProc.n \in 0..Len(fiLog)
      /\ IsLog(fiLog) /\ ThreadLogOK(fiLog)
  BY DEF AppendNative, ImportAt, ThreadInv, ThreadProcOK
<1>2. CASE EndImport /\ UNCHANGED fiLog
  BY <1>1, <1>2, ThreadIdles DEF EndImport
<1>3. CASE prior # {} /\ UNCHANGED fiLog /\ Settle(Max(prior))
  <2>1. DOMAIN H = 1..fiProc.n /\ \A k \in 1..fiProc.n : k \in DOMAIN fiLog
    BY <1>1, LogUpTo
  <2>2. fiProc.n \in Nat /\ prior \subseteq 0..fiProc.n /\ prior \subseteq DOMAIN fiLog
    <3>1. Len(fiLog) \in Nat
      BY <1>1, LogIs
    <3>2. fiProc.n \in Nat
      BY <1>1, <3>1
    <3>3. prior \subseteq DOMAIN H
      BY DEF WithOperation
    <3> HIDE DEF prior, H
    <3> QED BY <2>1, <3>2, <3>3
  <2> HIDE DEF prior
  <2>3. Max(prior) \in DOMAIN fiLog
    BY <1>3, <2>2, MaxOf
  <2>4. fiProc'.pc = "settle" /\ fiProc'.scope = fiProc.scope /\ fiProc'.m = m /\ fiProc'.k = Max(prior)
    BY <1>3 DEF Settle, Continue
  <2>5. ThreadProcOK(fiLog, fiFiles, fiProc')
    BY <1>1, <2>3, <2>4 DEF ThreadProcOK
  <2> QED BY <1>1, <1>3, <2>5, ThreadMoves
<1>4. CASE fiLog' = Append(fiLog, NativeEvent("me", m)) /\ (EndImport \/ Settle(Len(fiLog) + 1))
  <2> DEFINE e == NativeEvent("me", m)
  <2>1. e.m = m
    BY DEF NativeEvent
  <2>2. fiLog' = Append(fiLog, e)
    BY <1>4
  <2> HIDE DEF e, m
  <2>3. e.m.expected \subseteq DOMAIN fiLog /\ StateShape(e.m.state) /\ (e.m.intent = "revise" => Keeps(fiLog, e.m))
    BY <1>1, <2>1 DEF SignOK
  <2>4. /\ IsLog(fiLog') /\ ThreadLogOK(fiLog') /\ Len(fiLog) + 1 \in DOMAIN fiLog'
        /\ \A j : JournalOK(fiLog, j) => JournalOK(fiLog', j)
        /\ \A x : SignOK(fiLog, x) => SignOK(fiLog', x)
    BY <1>1, <2>2, <2>3, ThreadGrows
  <2>5. CASE EndImport
    BY <1>1, <2>4, <2>5 DEF EndImport, Idle, ThreadInv, ThreadProcOK
  <2>6. CASE Settle(Len(fiLog) + 1)
    <3>1. fiProc'.pc = "settle" /\ fiProc'.scope = fiProc.scope /\ fiProc'.m = m /\ fiProc'.k = Len(fiLog) + 1
      BY <2>6 DEF Settle, Continue, m
    <3>2. ThreadProcOK(fiLog', fiFiles', fiProc')
      BY <1>1, <2>4, <3>1 DEF ThreadProcOK
    <3>3. \A f \in FiThreadScopes : fiFiles'[f] # NoFile => JournalOK(fiLog', fiFiles'[f])
      BY <1>1, <2>4 DEF ThreadInv
    <3> QED BY <1>1, <2>4, <3>2, <3>3 DEF ThreadInv
  <2> QED BY <1>4, <2>5, <2>6
<1> QED BY <1>2, <1>3, <1>4 DEF AppendNative

LEMMA ThreadSettles ==
  ASSUME ThreadInv, SettleStep
  PROVE  ThreadInv'
<1>1. /\ fiProc.pc = "settle" /\ fiProc.scope \in FiThreadScopes /\ UNCHANGED <<fiSource, fiLog>>
      /\ fiFiles[fiProc.scope] # NoFile /\ SignOK(fiLog, fiProc.m) /\ fiProc.k \in DOMAIN fiLog
  BY DEF SettleStep, ImportAt, ThreadInv, ThreadProcOK
<1> DEFINE j == fiFiles[fiProc.scope]
           k == fiProc.k
<1>2. MyFile = j
  BY <1>1, JournalFileIs
<1>3. JournalOK(fiLog, j)
  BY <1>1 DEF ThreadInv
<1>4. CASE EndImport /\ UNCHANGED fiFiles
  BY <1>1, <1>4, ThreadIdles DEF EndImport
<1> DEFINE new == [j EXCEPT !.next = @ + 1, !.bound = Append(@, k), !.pending = FALSE]
<1>5. CASE fiLog[k].m = fiProc.m /\ SaveFile(new) /\ Goto("run")
  <2>1. j = [file |-> "journal", graph |-> j.graph, anchor |-> j.anchor, next |-> j.next,
             steps |-> j.steps, bound |-> j.bound, pending |-> j.pending]
    BY <1>3 DEF JournalOK
  <2>2. SaveFile(new)
    BY <1>5
  <2>3. fiLog[k].m.state.managed = fiLog[k].m.state.base /\ k \in DOMAIN fiLog
    BY <1>1, <1>5 DEF SignOK
  <2> HIDE DEF j, k
  <2> DEFINE bound == Append(j.bound, k)
             next == j.next + 1
  <2>4. new = [file |-> "journal", graph |-> j.graph, anchor |-> j.anchor, next |-> next,
               steps |-> j.steps, bound |-> bound, pending |-> FALSE]
    <3>1. PICK g, a, n, s, b, p :
            j = [file |-> "journal", graph |-> g, anchor |-> a, next |-> n, steps |-> s, bound |-> b, pending |-> p]
      BY <2>1
    <3>2. j.graph = g /\ j.anchor = a /\ j.next = n /\ j.steps = s /\ j.bound = b
      BY <3>1
    <3>3. PICK old : old = j
      OBVIOUS
    <3>4. PICK step : step = [old EXCEPT !.next = @ + 1, !.bound = Append(@, k), !.pending = FALSE]
      OBVIOUS
    <3>5. old = [file |-> "journal", graph |-> g, anchor |-> a, next |-> n, steps |-> s, bound |-> b, pending |-> p]
      BY <3>1, <3>3
    <3>6. step = [file |-> "journal", graph |-> g, anchor |-> a, next |-> n + 1, steps |-> s,
                  bound |-> Append(b, k), pending |-> FALSE]
      BY <3>4, <3>5, JournalAdvanced
    <3>7. new = step
      BY <3>3, <3>4
    <3> QED BY <3>2, <3>6, <3>7
  <2> HIDE DEF new
  <2>5. IsLog(j.bound) /\ j.next \in Nat \ {0} /\ Len(j.bound) = j.next - 1
    BY <1>3 DEF JournalOK
  <2>6. /\ IsLog(bound) /\ Len(bound) = Len(j.bound) + 1 /\ DOMAIN bound = DOMAIN j.bound \cup {Len(j.bound) + 1}
        /\ \A q \in DOMAIN j.bound : bound[q] = j.bound[q]
        /\ bound[Len(j.bound) + 1] = k
    BY <2>5, LogGrows
  <2>7. next \in Nat \ {0} /\ Len(bound) = next - 1
    BY <2>5, <2>6
  <2> HIDE DEF bound, next
  <2>8. /\ new.graph = j.graph /\ new.next = next /\ new.steps = j.steps /\ new.bound = bound /\ new.file = "journal"
        /\ new = [file |-> "journal", graph |-> new.graph, anchor |-> new.anchor, next |-> new.next,
                  steps |-> new.steps, bound |-> new.bound, pending |-> new.pending]
    BY <2>4
  <2>9. \A q \in DOMAIN bound :
          bound[q] \in DOMAIN fiLog /\ fiLog[bound[q]].m.state.managed = fiLog[bound[q]].m.state.base
    BY <1>3, <2>3, <2>6 DEF JournalOK
  <2>10. JournalOK(fiLog, new)
    BY <1>3, <2>6, <2>7, <2>8, <2>9 DEF JournalOK
  <2>11. new # NoFile
    BY <2>8 DEF NoFile
  <2>12. fiFiles'[fiProc.scope] = new
    BY <1>1, <2>2, JournalFileIs
  <2>13. ThreadProcOK(fiLog, fiFiles', fiProc')
    BY <1>1, <1>5, <2>11, <2>12 DEF Goto, Continue, ThreadProcOK
  <2> QED BY <1>1, <2>2, <2>10, <2>13, ThreadSaves
<1>6. (fiLog[k].m = fiProc.m /\ SaveFile(new) /\ Goto("run")) \/ (EndImport /\ UNCHANGED fiFiles)
  <2> HIDE DEF j
  <2> QED BY <1>2 DEF SettleStep
<1> QED BY <1>4, <1>5, <1>6

\* The user and the peers edit the thread.
LEMMA ThreadEdited ==
  ASSUME ThreadInv, NEW actor, NEW r, NEW parents, parents # {}, parents \subseteq DOMAIN fiLog, NEW text,
         UNCHANGED <<fiSource, fiFiles, fiProc>>,
         fiLog' = Append(fiLog, NativeEvent(actor, NativeMutation(r, parents, text)))
  PROVE  ThreadInv'
<1> DEFINE s == fiLog[Max(parents)].m.state
           new == [s EXCEPT !.managed = <<text, @[2]>>]
           m == NativeMutation(r, parents, text)
           e == NativeEvent(actor, m)
<1>1. IsLog(fiLog) /\ ThreadLogOK(fiLog)
  BY DEF ThreadInv
<1>2. Max(parents) \in DOMAIN fiLog
  <2>1. DOMAIN fiLog = 1..Len(fiLog) /\ Len(fiLog) \in Nat
    BY <1>1, LogIs
  <2>2. parents \subseteq 0..Len(fiLog)
    BY <2>1
  <2> QED BY <2>1, <2>2, MaxOf
<1>3. StateShape(s)
  BY <1>1, <1>2 DEF ThreadLogOK
<1>4. m.expected = parents /\ m.state = new /\ m.op = NoOperation
  <2> HIDE DEF new
  <2> QED BY DEF NativeMutation, Mutation, new
<1> HIDE DEF s, m
<1>5. StateShape(new)
  <2> DEFINE v == <<text, s.managed[2]>>
  <2>1. s = NativeState(s.managed, s.src, s.base, s.obs) /\ s.managed[2] \in Nat
    BY <1>3 DEF StateShape
  <2>2. v[2] \in Nat /\ v = <<v[1], v[2]>>
    BY <2>1
  <2>3. new = [s EXCEPT !.managed = v]
    OBVIOUS
  <2> HIDE DEF v, new
  <2>4. new = NativeState(v, s.src, s.base, s.obs)
    BY <2>1, <2>3 DEF NativeState
  <2>5. new.managed = v /\ new.src = s.src /\ new.base = s.base /\ new.obs = s.obs
    BY <2>4 DEF NativeState
  <2> QED BY <2>2, <2>4, <2>5 DEF StateShape
<1> HIDE DEF new
<1>6. e.m = m /\ fiLog' = Append(fiLog, e)
  BY DEF NativeEvent, m
<1> HIDE DEF e
<1>7. e.m.expected \subseteq DOMAIN fiLog /\ StateShape(e.m.state) /\ ~Imported(e)
  BY <1>4, <1>5, <1>6 DEF Imported
<1>8. /\ IsLog(fiLog') /\ ThreadLogOK(fiLog')
      /\ \A j : JournalOK(fiLog, j) => JournalOK(fiLog', j)
      /\ \A files, proc : ThreadProcOK(fiLog, files, proc) => ThreadProcOK(fiLog', files, proc)
  BY <1>1, <1>6, <1>7, ThreadGrows
<1> QED BY <1>8 DEF ThreadInv

LEMMA ThreadSource ==
  ASSUME ThreadInv, NEW n \in {"d", "r", "ans"}, EditSource(n)
  PROVE  ThreadInv'
<1>1. /\ fiSource' = [fiSource EXCEPT ![n] = IF n = "ans" THEN 1 - @ ELSE @ + 1]
      /\ UNCHANGED <<fiLog, fiFiles, fiProc>>
  BY DEF EditSource
<1>2. fiSource \in [d : Nat, r : Nat, i : Nat, c : Nat, ans : {0, 1}]
  BY DEF ThreadInv
<1>3. fiSource' \in [d : Nat, r : Nat, i : Nat, c : Nat, ans : {0, 1}]
  <2>1. CASE n = "d"
    <3>1. fiSource' = [fiSource EXCEPT !.d = @ + 1]
      BY <1>1, <2>1
    <3> QED BY <1>2, <3>1
  <2>2. CASE n = "r"
    <3>1. fiSource' = [fiSource EXCEPT !.r = @ + 1]
      BY <1>1, <2>2
    <3> QED BY <1>2, <3>1
  <2>3. CASE n = "ans"
    <3>1. fiSource' = [fiSource EXCEPT !.ans = 1 - @]
      BY <1>1, <2>3
    <3>2. 1 - fiSource.ans \in {0, 1}
      BY <1>2
    <3> QED BY <1>2, <3>1, <3>2
  <2> QED BY <2>1, <2>2, <2>3
<1> QED BY <1>1, <1>3 DEF ThreadInv

LEMMA ThreadWorldKeeps ==
  ASSUME ThreadInv, WorldStep({"d", "r", "ans"})
  PROVE  ThreadInv'
<1>0. IsLog(fiLog) /\ ThreadLogOK(fiLog)
  BY DEF ThreadInv
<1>1. CASE \E n \in {"d", "r", "ans"} : EditSource(n)
  BY <1>1, ThreadSource
<1>2. CASE \E kind : \E r \in Roots(fiLog, kind) : \E text : EditNative(r, text)
  <2>a. PICK kind : \E r \in Roots(fiLog, kind) : \E text : EditNative(r, text)
    BY <1>2
  <2>b. PICK r \in Roots(fiLog, kind) : \E text : EditNative(r, text)
    BY <2>a
  <2>1. PICK text : EditNative(r, text)
    BY <2>b
  <2>2. NativeHeads(fiLog, r) # {} /\ NativeHeads(fiLog, r) \subseteq DOMAIN fiLog
    BY <1>0, <2>1, HasHead
  <2> QED BY <2>1, <2>2, ThreadEdited DEF EditNative
<1>3. CASE \E r, text : \E parent \in RevisionsOf(fiLog, r) : AcceptPeerEdit(r, parent, text)
  <2>a. PICK r, text : \E parent \in RevisionsOf(fiLog, r) : AcceptPeerEdit(r, parent, text)
    BY <1>3
  <2>1. PICK parent \in RevisionsOf(fiLog, r) : AcceptPeerEdit(r, parent, text)
    BY <2>a
  <2>2. {parent} # {} /\ {parent} \subseteq DOMAIN fiLog
    BY <2>1 DEF RevisionsOf
  <2> QED BY <2>1, <2>2, ThreadEdited DEF AcceptPeerEdit
<1> QED BY <1>1, <1>2, <1>3 DEF WorldStep

LEMMA ThreadStepKeeps ==
  ASSUME ThreadInv, [ThreadImportNext]_forgeImportVars
  PROVE  ThreadInv'
<1>0. /\ fiProc.pc \notin {"list", "listed", "next"}
      /\ fiProc.pc # "idle" => fiProc.scope \in FiThreadScopes /\ fiProc.scope \notin FiIssueScopes
  BY JournalFileIs DEF ThreadInv, ThreadProcOK
<1>1. CASE \E s \in FiThreadScopes : BeginImport(s)
  BY <1>1, ThreadBegins
<1>2. CASE LoadJournal \/ PlanThread \/ RunStep \/ SettleStep
  BY <1>2, LoadKeeps, ThreadPlanned, ThreadRuns, ThreadSettles
<1>3. CASE ResumeNative \/ ReadIssues \/ StaleListing \/ PlanIssue \/ RunNative \/ IssueDone \/ SettleIntent
  BY <1>0, <1>3 DEF ResumeNative, ReadIssues, StaleListing, PlanIssue, RunNative, IssueDone, SettleIntent, ImportAt
<1>4. CASE CollectEvents \/ AppendNative
  BY <1>4, ThreadCollects, ThreadAppends
<1>5. CASE StopImport \/ RemoveStaleLock
  BY <1>5, ThreadIdles DEF StopImport, RemoveStaleLock
<1>6. CASE WorldStep({"d", "r", "ans"})
  BY <1>6, ThreadWorldKeeps
<1>7. CASE UNCHANGED forgeImportVars
  BY <1>7, ThreadIdles DEF forgeImportVars
<1> QED BY <1>1, <1>2, <1>3, <1>4, <1>5, <1>6, <1>7 DEF ThreadImportNext, ImportStep

LEMMA ThreadInitially ==
  ASSUME ForgeImportInit
  PROVE  ThreadInv
<1>1. /\ fiLog = <<>> /\ fiFiles = [f \in FileNames |-> NoFile] /\ fiProc = Idle
      /\ fiSource = [d |-> 1, r |-> 0, i |-> 1, c |-> 0, ans |-> 0]
  BY DEF ForgeImportInit
<1>2. IsLog(fiLog) /\ DOMAIN fiLog = {}
  BY <1>1 DEF IsLog
<1>3. ThreadLogOK(fiLog)
  BY <1>2 DEF ThreadLogOK
<1>4. DOMAIN fiFiles = FileNames /\ \A f \in FiThreadScopes : fiFiles[f] = NoFile
  BY <1>1 DEF FileNames, FiScopes
<1>5. ThreadProcOK(fiLog, fiFiles, fiProc)
  BY <1>1 DEF ThreadProcOK, Idle
<1>6. fiSource \in [d : Nat, r : Nat, i : Nat, c : Nat, ans : {0, 1}]
  BY <1>1
<1> QED BY <1>2, <1>3, <1>4, <1>5, <1>6 DEF ThreadInv

\* No revision an import of discussions signs discards a native edit, whatever
\* was edited between its plan, an interruption, the resumed journal and the
\* signature, and whatever its previews turned out to be.
THEOREM ThreadEditsKept == ThreadImportSpec => []NativeEditsKept
<1>1. ThreadInv => NativeEditsKept
  BY DEF ThreadInv, ThreadLogOK, NativeEditsKept, Keeps
<1>2. ThreadInv /\ [ThreadImportNext]_forgeImportVars => ThreadInv'
  BY ThreadStepKeeps
<1> QED BY <1>1, <1>2, ThreadInitially, PTL DEF ThreadImportSpec
=============================================================================

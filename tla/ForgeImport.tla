----------------------------- MODULE ForgeImport -----------------------------
(***************************************************************************)
(* Import of issues and of discussion threads from a forge into signed     *)
(* native facts (github_import.go, resource_transfer.go), on top of the    *)
(* native mutation engines (issue_commands.go, resource_engine.go).        *)
(*                                                                         *)
(* The source holds a discussion "d" with an optional reply "r" that may   *)
(* be its accepted answer, and an issue "i" with an optional comment "c".  *)
(* A native event is known by its place in fiLog, the order in which this  *)
(* clone accepted it; text is a version number, at most FirstLocal for     *)
(* text of the source.  One import runs at a time (transfer.lock), beside  *)
(* the user's own commands and the edits of peers a sync accepts.          *)
(***************************************************************************)
EXTENDS Integers, FiniteSets, Sequences, FiniteSetsExt, SequencesExt

CONSTANTS
  FiIssueScopes,  \* selections under which issues are imported: all, or one key
  FiThreadScopes, \* selections under which discussions are imported
  MaxFiSource,    \* bound: edits at the source
  MaxFiNative,    \* bound: native edits
  MaxFiCrashes    \* bound: deaths of the import

ASSUME ForgeImportAssumption ==
  {MaxFiSource, MaxFiNative, MaxFiCrashes} \subseteq Nat /\ FiIssueScopes \cap FiThreadScopes = {}

VARIABLES
  fiSource,  \* what the forge holds: [d, r, i, c: version, ans: 0 or 1]
  fiLog,     \* accepted native events
  fiFiles,   \* private checkpoints: file name -> content
  fiLock,    \* transfer.lock exists
  fiProc,    \* the running import
  fiEdits    \* [source, native, crashes]: how many happened

forgeImportVars == <<fiSource, fiLog, fiFiles, fiLock, fiProc, fiEdits>>

FirstLocal == 10
NoFile == [file |-> "none"]
Idle   == [pc |-> "idle"]
FiScopes == FiIssueScopes \cup FiThreadScopes

IntentFilePerScope(scope) == scope
\* The checkpoint of a command: one for all issue imports, one per discussion scope.
IntentFile(scope) == IF scope \in FiIssueScopes THEN "native-intent" ELSE scope
FileNames == FiScopes \cup {"native-intent"}

-----------------------------------------------------------------------------
(* Native events and their projection. *)

\* Managed fields <<text, pinned reply revision>>, and the import metadata.
NativeState(managed, src, base, obs) == [managed |-> managed, src |-> src, base |-> base, obs |-> obs]
Mutation(kind, intent, root, expected, state, op) ==
  [kind |-> kind, intent |-> intent, root |-> root, expected |-> expected, state |-> state, op |-> op]
NoOperation == <<"none">>
NativeEvent(actor, m) == [actor |-> actor, m |-> m]

RootOf(H, k)    == IF H[k].m.intent = "open" THEN k ELSE H[k].m.root
Roots(H, kind)  == {k \in DOMAIN H : H[k].m.intent = "open" /\ H[k].m.kind = kind}
RevisionsOf(H, r) == {k \in DOMAIN H : RootOf(H, k) = r /\ H[k].m.intent # "comment"}
Comments(H, r)  == {k \in DOMAIN H : RootOf(H, k) = r /\ H[k].m.intent = "comment"}
NativeHeads(H, r) == {k \in RevisionsOf(H, r) : \A q \in RevisionsOf(H, r) : k \notin H[q].m.expected}
Conflicted(H, r)  == Cardinality(NativeHeads(H, r)) > 1
HeadState(H, r)   == H[Max(NativeHeads(H, r))].m.state

\* Stored events of this actor under an operation key.
WithOperation(H, op) == {k \in DOMAIN H : H[k].actor = "me" /\ op # NoOperation /\ H[k].m.op = op}

\* The references of a candidate exist and have the right family.
ReferencesHold(H, m) ==
  /\ m.intent # "open" => m.root \in Roots(H, m.kind)
  /\ m.expected \subseteq RevisionsOf(H, m.root)
  /\ m.state.managed[2] # 0 => (m.state.managed[2] \in DOMAIN H /\ H[m.state.managed[2]].m.kind = "r")

\* What a mutation command answers on the events it collected.
ExpectationsMet(H, m) ==
  CASE m.intent \in {"open", "comment"} -> TRUE
    [] m.intent = "revise"  -> ~Conflicted(H, m.root) /\ m.expected = NativeHeads(H, m.root)
    [] m.intent = "resolve" -> m.expected = NativeHeads(H, m.root)
MayApply(H, m) == ReferencesHold(H, m) /\ ExpectationsMet(H, m)
MayReplay(H, m) == \E k \in WithOperation(H, m.op) : H[k].m = m

OwnLength(H) == Cardinality({k \in DOMAIN H : H[k].actor = "me"})

-----------------------------------------------------------------------------
(* Operation keys of an import, and the signed witness of the last one. *)

ResourceOperation(m) == <<"resource", m.kind, m.intent, m.root, m.expected, m.state>>
IssueOperation(m) ==
  CASE m.intent = "open"    -> <<"open", m.state.base>>
    [] m.intent = "revise"  -> <<"revise", m.expected, m.state>>
    [] m.intent = "comment" -> <<"comment", m.state.obs>>
Imported(e) == e.m.op # NoOperation

\* Import events met first on every path back from the head: what every set
\* contains that holds the head and, with an event no import signed, its parents.
NearestImports(H, h) ==
  {k \in DOMAIN H : Imported(H[k]) /\
     \A back \in SUBSET DOMAIN H :
       (h \in back /\ \A q \in back : ~Imported(H[q]) => H[q].m.expected \subseteq back) => k \in back}
ImportMetadata(s) == <<s.src, s.base, s.obs>>
Witness(H, r) == Max(NearestImports(H, Max(NativeHeads(H, r))))
WitnessOK(H, r) ==
  /\ ~Conflicted(H, r)
  /\ Cardinality(NearestImports(H, Max(NativeHeads(H, r)))) = 1
  /\ ImportMetadata(HeadState(H, r)) = ImportMetadata(H[Witness(H, r)].m.state)

\* Openings that claim a source, and whether the claims are unique.
Claims(H, n)  == {r \in Roots(H, n) : H[r].m.state.src = n}
Claimed(H, n)  == Claims(H, n) # {}
TheRoot(H, n) == Max(Claims(H, n))
ThreadMappingsOK(H) ==
  \A n \in {"d", "r"} : Cardinality(Claims(H, n)) <= 1 /\ \A r \in Claims(H, n) : WitnessOK(H, r)

-----------------------------------------------------------------------------
(* The plan of a discussion import. *)

\* The thread as the provider returns it.
ReadGraph == fiSource
\* The managed content of a node at the source; an answer names the reply's revision.
RemoteDigest(g, n, noAnswer) ==
  IF n = "r" THEN <<g.r, 0>> ELSE <<g.d, IF noAnswer THEN 0 ELSE g.ans * g.r>>
GraphDigest(g) == <<g.d, g.ans, g.r>>

\* A negative number is a preview: the event the step of that number will sign.
Step(n, noAnswer, id, expected, pin) ==
  [node |-> n, noAnswer |-> noAnswer, id |-> id, expected |-> expected, pin |-> pin]

Observed(H, g, n) == HeadState(H, TheRoot(H, n)).obs[1] = RemoteDigest(g, n, FALSE)
Desired(g, s)     == IF s.node = "r" THEN <<g.r, 0>> ELSE <<g.d, s.pin>>
Competing(H, g, s) ==
  /\ s.id > 0
  /\ HeadState(H, s.id).managed \notin {HeadState(H, s.id).base, Desired(g, s)}
StepFor(H, n, pin) ==
  IF Claimed(H, n) THEN Step(n, FALSE, TheRoot(H, n), NativeHeads(H, TheRoot(H, n)), pin)
                  ELSE Step(n, FALSE, 0, {}, pin)

Containers(H) == IF Claimed(H, "d") THEN <<>> ELSE <<Step("d", TRUE, 0, {}, 0)>>
WithReplies(H, g, steps) ==
  IF g.r = 0 \/ (Claimed(H, "r") /\ Observed(H, g, "r")) THEN steps
  ELSE Append(steps, StepFor(H, "r", 0))
\* The revision of the reply an answer pins: the one to be signed, or the last import.
AnswerPin(H, g, steps) ==
  CASE g.ans * g.r = 0 -> 0
    [] g.ans * g.r # 0 /\ \E k \in DOMAIN steps : steps[k].node = "r" -> 0 - Len(steps)
    [] OTHER -> Witness(H, TheRoot(H, "r"))
WithAnswers(H, g, steps, pin) ==
  IF ~Claimed(H, "d")
  THEN IF g.ans * g.r = 0 THEN steps ELSE Append(steps, Step("d", FALSE, -1, {-1}, pin))
  ELSE IF Observed(H, g, "d") THEN steps ELSE Append(steps, StepFor(H, "d", pin))

BuildResourcePlan(H, g) ==
  LET s == WithReplies(H, g, Containers(H)) IN WithAnswers(H, g, s, AnswerPin(H, g, s))
PlanBlocked(H, g) ==
  \/ ~ThreadMappingsOK(H)
  \/ \E k \in DOMAIN BuildResourcePlan(H, g) : Competing(H, g, BuildResourcePlan(H, g)[k])

Resolve(id, bound) == IF id < 0 THEN bound[0 - id] ELSE id
\* The exact mutation of a step, once the events its previews stand for are signed.
StepMutation(j, k) ==
  LET s == j.steps[k]
      managed == IF s.node = "r" THEN <<j.graph.r, 0>> ELSE <<j.graph.d, Resolve(s.pin, j.bound)>>
      state == NativeState(managed, s.node, managed,
                           <<RemoteDigest(j.graph, s.node, s.noAnswer), GraphDigest(j.graph)>>)
      m == Mutation(s.node, IF s.id = 0 THEN "open" ELSE "revise", Resolve(s.id, j.bound),
                    {Resolve(e, j.bound) : e \in s.expected}, state, NoOperation)
  IN [m EXCEPT !.op = ResourceOperation(m)]
\* A resumed journal must be the plan of its anchored snapshot, its progress signed.
JournalHolds(j) ==
  /\ j.steps = BuildResourcePlan(SubSeq(fiLog, 1, j.anchor), j.graph)
  /\ \A k \in 1..(j.next - 1) :
       fiLog[j.bound[k]].actor = "me" /\ fiLog[j.bound[k]].m = StepMutation([j EXCEPT !.next = k], k)

-----------------------------------------------------------------------------
(* The plan of an issue import. *)

\* What was read: the issue, its last update (a comment moves it) and its comment.
IssueBaseline(p)    == <<p.i, 0>>
IssueObservation(p) == <<p.i, p.c>>
SourceComment(p)    == IF p.c = 0 THEN <<>> ELSE <<<<p.c>>>>

IssueWitnessOK(H, r) ==
  /\ ~Conflicted(H, r)
  /\ {ImportMetadata(H[k].m.state) : k \in NearestImports(H, Max(NativeHeads(H, r)))}
       = {ImportMetadata(HeadState(H, r))}
BothChanged(s, p) == IssueBaseline(p) # s.base /\ s.managed \notin {s.base, IssueBaseline(p)}
MergedState(s, p) ==
  NativeState(IF IssueBaseline(p) = s.base THEN s.managed ELSE IssueBaseline(p),
              s.src, IssueBaseline(p), IssueObservation(p))

\* The issue was edited between the listing and the read of its heads.
StateTrusted(H, now, r) == FALSE
StateMoved(H, now, r)   == HeadState(H, r) # HeadState(now, r)

\* The mapping is read from a listing, the heads from a later read of the issue.
IssueBlocked(H, now, p) ==
  \/ Cardinality(Claims(H, "i")) > 1
  \/ \E r \in Claims(H, "i") :
       \/ ~IssueWitnessOK(now, r)
       \/ Conflicted(H, r)
       \/ StateMoved(H, now, r)
       \/ BothChanged(HeadState(H, r), p)
IssueMutation(intent, root, expected, state) ==
  LET m == Mutation("i", intent, root, expected, state, NoOperation) IN [m EXCEPT !.op = IssueOperation(m)]
RootMutations(H, now, p) ==
  IF ~Claimed(H, "i")
  THEN <<IssueMutation("open", 0, {}, NativeState(IssueBaseline(p), "i", IssueBaseline(p), IssueObservation(p)))>>
  ELSE LET r == TheRoot(H, "i")
           s == MergedState(HeadState(H, r), p)
       IN IF s = HeadState(H, r) THEN <<>> ELSE <<IssueMutation("revise", r, NativeHeads(now, r), s)>>
KnownComments(H) == UNION {{H[k].m.state.obs : k \in Comments(H, r)} : r \in Claims(H, "i")}
CommentMutation(root, version) ==
  IssueMutation("comment", root, {}, NativeState(<<version[1], 0>>, "none", <<0, 0>>, version))

-----------------------------------------------------------------------------
(* One import command. *)

ForgeImportInit ==
  /\ fiSource = [d |-> 1, r |-> 0, i |-> 1, c |-> 0, ans |-> 0]
  /\ fiLog = <<>>
  /\ fiFiles = [f \in FileNames |-> NoFile]
  /\ fiLock = FALSE /\ fiProc = Idle
  /\ fiEdits = [source |-> 0, native |-> 0, crashes |-> 0]

ImportAt(pc)       == fiProc.pc = pc
MyFile       == fiFiles[IntentFile(fiProc.scope)]
SaveFile(x)  == fiFiles' = [fiFiles EXCEPT ![IntentFile(fiProc.scope)] = x]
RemoveFile   == SaveFile(NoFile)
EndImport    == fiProc' = Idle /\ fiLock' = FALSE
Continue(record) == fiProc' = record /\ UNCHANGED fiLock
Goto(pc)     == Continue([pc |-> pc, scope |-> fiProc.scope])
\* A mutation in the hands of the engine, and the rest of the issue plan it is
\* part of; a journal or a resumed intent has none.
NoPlan          == [plan |-> "none"]
Mutate(m, rest) == Continue([pc |-> "mutate", scope |-> fiProc.scope, m |-> m, rest |-> rest])
Settle(k)       == Continue([pc |-> "settle", scope |-> fiProc.scope, m |-> fiProc.m, rest |-> fiProc.rest, k |-> k])

BeginImport(scope) ==
  /\ ImportAt("idle") /\ ~fiLock
  /\ fiLock' = TRUE /\ fiProc' = [pc |-> "load", scope |-> scope]
  /\ UNCHANGED <<fiSource, fiLog, fiFiles, fiEdits>>

\* A saved journal is resumed before anything is read from the source.
LoadJournal ==
  /\ ImportAt("load") /\ fiProc.scope \in FiThreadScopes /\ MyFile # NoFile
  /\ IF JournalHolds(MyFile) THEN Goto("run") ELSE EndImport
  /\ UNCHANGED <<fiSource, fiLog, fiFiles, fiEdits>>
PlanThread ==
  /\ ImportAt("load") /\ fiProc.scope \in FiThreadScopes /\ MyFile = NoFile
  /\ IF PlanBlocked(fiLog, ReadGraph) \/ BuildResourcePlan(fiLog, ReadGraph) = <<>>
     THEN EndImport /\ UNCHANGED fiFiles
     ELSE /\ SaveFile([file |-> "journal", graph |-> ReadGraph, anchor |-> Len(fiLog), next |-> 1,
                       steps |-> BuildResourcePlan(fiLog, ReadGraph), bound |-> <<>>, pending |-> FALSE])
          /\ Goto("run")
  /\ UNCHANGED <<fiSource, fiLog, fiEdits>>
\* The exact mutation is saved before it is attempted; after the last step the file goes.
RunStep ==
  /\ ImportAt("run")
  /\ IF MyFile.next > Len(MyFile.steps) THEN RemoveFile /\ EndImport
     ELSE /\ SaveFile([MyFile EXCEPT !.pending = TRUE])
          /\ Mutate(StepMutation(MyFile, MyFile.next), NoPlan)
  /\ UNCHANGED <<fiSource, fiLog, fiEdits>>

\* A pending issue intent of another selection refuses the command.
ResumeNative ==
  /\ ImportAt("load") /\ fiProc.scope \in FiIssueScopes
  /\ CASE MyFile = NoFile -> Goto("list")
       [] MyFile # NoFile /\ MyFile.scope # fiProc.scope -> EndImport
       [] OTHER -> Mutate(MyFile.m, NoPlan)
  /\ UNCHANGED <<fiSource, fiLog, fiFiles, fiEdits>>
ReadIssues ==
  /\ ImportAt("list")
  /\ Continue([pc |-> "listed", scope |-> fiProc.scope, n |-> Len(fiLog), p |-> fiSource])
  /\ UNCHANGED <<fiSource, fiLog, fiFiles, fiEdits>>
\* Pages of a listing are bound to its snapshot: a listing that outlives it is refused.
StaleListing ==
  /\ ImportAt("listed") /\ Len(fiLog) > fiProc.n
  /\ EndImport /\ UNCHANGED <<fiSource, fiLog, fiFiles, fiEdits>>
PlanIssue ==
  /\ ImportAt("listed")
  /\ LET H == SubSeq(fiLog, 1, fiProc.n) IN
       IF IssueBlocked(H, fiLog, fiProc.p) THEN EndImport
       ELSE Continue([pc |-> "next", scope |-> fiProc.scope, todo |-> RootMutations(H, fiLog, fiProc.p),
                      texts |-> SelectSeq(SourceComment(fiProc.p), LAMBDA v : v \notin KnownComments(H)),
                      root |-> IF Claimed(H, "i") THEN TheRoot(H, "i") ELSE 0])
  /\ UNCHANGED <<fiSource, fiLog, fiFiles, fiEdits>>
\* The root first, then each comment, one saved intent at a time; another pending
\* intent stops the import.
Intent(m) == [file |-> "intent", scope |-> fiProc.scope, m |-> m]
RunNative ==
  /\ ImportAt("next") /\ fiProc.todo \o fiProc.texts # <<>>
  /\ \E m \in {IF fiProc.todo # <<>> THEN Head(fiProc.todo)
               ELSE CommentMutation(fiProc.root, Head(fiProc.texts))} :
       IF MyFile \in {NoFile, Intent(m)}
       THEN SaveFile(Intent(m)) /\ Mutate(m, [texts |-> fiProc.texts])
       ELSE EndImport /\ UNCHANGED fiFiles
  /\ UNCHANGED <<fiSource, fiLog, fiEdits>>
IssueDone ==
  /\ ImportAt("next") /\ fiProc.todo \o fiProc.texts = <<>>
  /\ EndImport /\ UNCHANGED <<fiSource, fiLog, fiFiles, fiEdits>>

\* The engine captures its actor's next event, then collects the accepted events.
CollectEvents ==
  /\ ImportAt("mutate")
  /\ Continue([pc |-> "append", scope |-> fiProc.scope, m |-> fiProc.m, rest |-> fiProc.rest,
               own |-> OwnLength(fiLog), n |-> Len(fiLog)])
  /\ UNCHANGED <<fiSource, fiLog, fiFiles, fiEdits>>
\* A replay answers for the event it finds: for an issue the operation is queried
\* first and no conflict is looked at; the engine of discussions reports one.
Answered(H, k) == fiProc.scope \in FiIssueScopes \/ ~Conflicted(H, RootOf(H, k))
\* A comment may be signed on an issue with concurrent heads: its import then
\* stops, and its intent stays until a rerun replays it.
Concurrent(H, m) == m.intent = "comment" /\ Conflicted(H, m.root)
AppendNative ==
  /\ ImportAt("append")
  /\ LET H == SubSeq(fiLog, 1, fiProc.n)
         m == fiProc.m
         prior == WithOperation(H, m.op)
     IN IF prior # {}
        THEN /\ IF MayReplay(H, m) /\ Answered(H, Max(prior)) THEN Settle(Max(prior)) ELSE EndImport
             /\ UNCHANGED fiLog
        ELSE IF MayApply(H, m) /\ OwnLength(fiLog) = fiProc.own
        THEN /\ fiLog' = Append(fiLog, NativeEvent("me", m))
             /\ IF Concurrent(H, m) THEN EndImport ELSE Settle(Len(fiLog) + 1)
        ELSE EndImport /\ UNCHANGED fiLog
  /\ UNCHANGED <<fiSource, fiFiles, fiEdits>>

\* The signed result is observed again before progress is saved.
SettleStep ==
  /\ ImportAt("settle") /\ fiProc.scope \in FiThreadScopes
  /\ IF fiLog[fiProc.k].m = fiProc.m
     THEN /\ SaveFile([MyFile EXCEPT !.next = @ + 1, !.bound = Append(@, fiProc.k), !.pending = FALSE])
          /\ Goto("run")
     ELSE EndImport /\ UNCHANGED fiFiles
  /\ UNCHANGED <<fiSource, fiLog, fiEdits>>
SettleIntent ==
  /\ ImportAt("settle") /\ fiProc.scope \in FiIssueScopes
  /\ RemoveFile
  /\ IF fiProc.rest = NoPlan THEN Goto("list")
     ELSE Continue([pc |-> "next", scope |-> fiProc.scope, todo |-> <<>>, root |-> RootOf(fiLog, fiProc.k),
                    texts |-> IF fiProc.m.intent = "comment" THEN Tail(fiProc.rest.texts) ELSE fiProc.rest.texts])
  /\ UNCHANGED <<fiSource, fiLog, fiEdits>>

\* The command dies and leaves its lock, or stops with an error at any step.
StopImport ==
  /\ ~ImportAt("idle") /\ fiEdits.crashes < MaxFiCrashes
  /\ fiEdits' = [fiEdits EXCEPT !.crashes = @ + 1]
  /\ fiProc' = Idle /\ fiLock' \in BOOLEAN
  /\ UNCHANGED <<fiSource, fiLog, fiFiles>>
RemoveStaleLock ==
  /\ ImportAt("idle") /\ fiLock /\ fiLock' = FALSE
  /\ UNCHANGED <<fiSource, fiLog, fiFiles, fiProc, fiEdits>>

-----------------------------------------------------------------------------
(* The rest of the world. *)

EditSource(n) ==
  /\ fiEdits.source < MaxFiSource
  /\ fiEdits' = [fiEdits EXCEPT !.source = @ + 1]
  /\ fiSource' = [fiSource EXCEPT ![n] = IF n = "ans" THEN 1 - @ ELSE @ + 1]
  /\ UNCHANGED <<fiLog, fiFiles, fiLock, fiProc>>

\* A native edit keeps the import metadata; its text is new, or what the source says.
NativeTexts(kind) == {FirstLocal + fiEdits.native, fiSource[kind]}
NativeMutation(r, parents, text) ==
  LET s == fiLog[Max(parents)].m.state IN
  Mutation(fiLog[r].m.kind, IF Cardinality(parents) = 1 THEN "revise" ELSE "resolve", r, parents,
           [s EXCEPT !.managed = <<text, @[2]>>], NoOperation)
EditNative(r, text) ==
  /\ fiEdits.native < MaxFiNative
  /\ fiEdits' = [fiEdits EXCEPT !.native = @ + 1]
  /\ fiLog' = Append(fiLog, NativeEvent("me", NativeMutation(r, NativeHeads(fiLog, r), text)))
  /\ UNCHANGED <<fiSource, fiFiles, fiLock, fiProc>>
\* A sync accepts a peer's edit of any revision that peer had.
AcceptPeerEdit(r, parent, text) ==
  /\ fiEdits.native < MaxFiNative
  /\ fiEdits' = [fiEdits EXCEPT !.native = @ + 1]
  /\ fiLog' = Append(fiLog, NativeEvent("peer", NativeMutation(r, {parent}, text)))
  /\ UNCHANGED <<fiSource, fiFiles, fiLock, fiProc>>

ImportStep(scopes) ==
  \/ \E s \in scopes : BeginImport(s)
  \/ LoadJournal \/ PlanThread \/ RunStep \/ SettleStep
  \/ ResumeNative \/ ReadIssues \/ StaleListing \/ PlanIssue \/ RunNative \/ IssueDone \/ SettleIntent
  \/ CollectEvents \/ AppendNative
  \/ StopImport \/ RemoveStaleLock
WorldStep(nodes) ==
  \/ \E n \in nodes : EditSource(n)
  \/ \E kind \in nodes \ {"c", "ans"} : \E r \in Roots(fiLog, kind), text \in NativeTexts(kind) :
       \/ EditNative(r, text)
       \/ \E parent \in RevisionsOf(fiLog, r) : AcceptPeerEdit(r, parent, text)

\* Issues and discussions share no native record: each is run on its own.
IssueImportNext  == ImportStep(FiIssueScopes) \/ WorldStep({"i", "c"})
ThreadImportNext == ImportStep(FiThreadScopes) \/ WorldStep({"d", "r", "ans"})

IssueImportSpec  == ForgeImportInit /\ [][IssueImportNext]_forgeImportVars
ThreadImportSpec == ForgeImportInit /\ [][ThreadImportNext]_forgeImportVars

-----------------------------------------------------------------------------
(* Properties. *)

\* However imports under different selections are interrupted, repeated and
\* resumed, a source issue is opened natively once and each version of its
\* comment is copied once (github_import.go, forgeResumeNative, forgeRunNative):
\* a second opening would refuse every later import as a duplicate claim.
IssueCopiedOnce ==
  /\ Cardinality(Claims(fiLog, "i")) <= 1
  /\ \A k, q \in DOMAIN fiLog :
       (fiLog[k].m.intent = "comment" /\ fiLog[q].m = fiLog[k].m) => q = k

\* No import step discards a native edit: a revision an import signs replaces
\* managed fields only if the revision it names as parent still held the last
\* imported content, whatever was edited between plan, interruption, resume and
\* signature (resource_transfer.go, add; github_import.go, forgeApplyImport).
NativeEditsKept ==
  \A k \in DOMAIN fiLog :
    (Imported(fiLog[k]) /\ fiLog[k].m.intent = "revise") =>
      \A q \in fiLog[k].m.expected :
        fiLog[q].m.state.managed \in {fiLog[q].m.state.base, fiLog[k].m.state.managed}
=============================================================================

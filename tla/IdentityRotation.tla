-------------------------- MODULE IdentityRotation --------------------------
(***************************************************************************)
(* The private keyring (identity_keyring.go) and `hn identity`             *)
(* (identity.go, identity_continuity.go): creating an identity, moving a   *)
(* legacy key file into the keyring, authorising and accepting another     *)
(* key, and the planned rotation, whose two journals, key record, two      *)
(* signed events and active pointer are separate durable writes.           *)
(*                                                                         *)
(* An actor is a number standing for its key pair (actors are fingerprints *)
(* of keys); an event's id is its place in idEvents.  One hn process runs  *)
(* at a time and may die between any two writes.                           *)
(***************************************************************************)
EXTENDS Naturals, FiniteSets, Sequences

CONSTANTS
  MaxKeys,        \* bound: key pairs ever generated
  MaxIdCrashes,   \* bound: deaths of the process
  MaxIdManual     \* bound: authorisations and acceptances issued by hand

ASSUME IdentityAssumption ==
  MaxKeys \in Nat \ {0} /\ MaxIdCrashes \in Nat /\ MaxIdManual \in Nat

VARIABLES
  idLegacy,   \* the actor of the legacy key file, or NoKey
  idRecords,  \* actors whose key record is stored
  idActive,   \* the active pointer, or NoKey
  idCommand,  \* rotation-command.json: a rotation state with the target's key
  idRotation, \* rotation.json: a rotation state
  idEvents,   \* the signed identity events, in order
  idTodo,     \* the writes the running command still has to make
  idState,    \* the rotation state the running command holds
  idKeys,     \* key pairs generated so far
  idFormer,   \* history: actors the active pointer has left
  idCrashes, idManual

identityVars == <<idLegacy, idRecords, idActive, idCommand, idRotation,
  idEvents, idTodo, idState, idKeys, idFormer, idCrashes, idManual>>

idFiles == <<idLegacy, idRecords, idActive, idCommand, idRotation>>

NoKey     == 0
NoJournal == [pred |-> NoKey, target |-> NoKey, auth |-> 0, acc |-> 0]
IdActors  == 1..MaxKeys
PeerKey   == MaxKeys + 1    \* a key on another device, whose events arrive by sync

-----------------------------------------------------------------------------
(* The signed events and their public projection. *)

AuthorizeEvent(a, rel, t, hand) ==
  [kind |-> "identity.authorize", actor |-> a, rel |-> rel, target |-> t,
   subject |-> 0, hand |-> hand]
AcceptEvent(a, id, hand) ==
  [kind |-> "identity.accept", actor |-> a, rel |-> "none", target |-> NoKey,
   subject |-> id, hand |-> hand]

\* The legacy key may already be the accepted successor of another device's key.
PeerSucceeded ==
  <<AuthorizeEvent(PeerKey, "successor", 1, TRUE), AcceptEvent(1, 1, TRUE)>>

IdentityInit ==
  /\ idLegacy \in {NoKey, 1}
  /\ idKeys = (IF idLegacy = NoKey THEN 0 ELSE 1)
  /\ idRecords = {} /\ idActive = NoKey
  /\ idCommand = NoJournal /\ idRotation = NoJournal
  /\ idEvents \in (IF idLegacy = NoKey THEN {<<>>} ELSE {<<>>, PeerSucceeded})
  /\ idTodo = <<>> /\ idState = NoJournal
  /\ idFormer = {} /\ idCrashes = 0 /\ idManual = 0

Authorizations(es) == {i \in DOMAIN es : es[i].kind = "identity.authorize"}

\* Acceptances of authorisation i signed by its exact target; an acceptance by
\* another actor is a conflict and does not count.
AcceptanceIDs(es, i) ==
  {j \in DOMAIN es : es[j].kind = "identity.accept" /\ es[j].subject = i
                       /\ es[j].actor = es[i].target}

AcceptedEdges(es) == {i \in Authorizations(es) : AcceptanceIDs(es, i) # {}}
AcceptedOfAnyKind(es, a) == {i \in AcceptedEdges(es) : es[i].actor = a}
AcceptedSuccessors(es, a) ==
  {i \in AcceptedEdges(es) : es[i].actor = a /\ es[i].rel = "successor"}

\* Successor edges inside a strongly connected component of several actors: the
\* authorising actor is reachable again from the target.
SuccessorCycleIDs(es) ==
  LET succ == {i \in AcceptedEdges(es) : es[i].rel = "successor"}
      from[n \in 0..Cardinality(succ)] ==     \* edges at most n steps after each edge
        IF n = 0 THEN [i \in succ |-> {i}]
        ELSE LET prev == from[n - 1]
             IN  [i \in succ |-> prev[i] \cup
                    {k \in succ : \E j \in prev[i] : es[j].target = es[k].actor}]
      reached == from[Cardinality(succ)]
  IN  {i \in succ : \E j \in reached[i] : es[j].target = es[i].actor}

Ambiguous(es, a) ==
  \/ Cardinality(AcceptedSuccessors(es, a)) > 1
  \/ \E i \in SuccessorCycleIDs(es) : es[i].actor = a

ActorState(es, a) ==
  CASE Ambiguous(es, a) -> "ambiguous"
    [] Cardinality(AcceptedSuccessors(es, a)) = 1 -> "retired"
    [] OTHER -> "active"

\* What `hn identity list` says of a stored key.
ListedAs(a) ==
  CASE a = idActive -> "active"
    [] ActorState(idEvents, a) = "retired" -> "retired"
    [] OTHER -> "stored"

-----------------------------------------------------------------------------
(* Reading and validating the journals. *)

Rotating(s) == s # NoJournal

\* validateRotationState
RotationShape(s, complete) ==
  /\ s.pred # s.target
  /\ (s.acc # 0 => s.auth # 0)
  /\ (complete => s.auth # 0 /\ s.acc # 0)

\* The journal's event ids name exactly the events of this rotation.
ValidProgress(s, complete) ==
  /\ RotationShape(s, complete)
  /\ s.auth # 0 =>
       /\ s.auth \in Authorizations(idEvents)
       /\ idEvents[s.auth].actor = s.pred /\ idEvents[s.auth].rel = "successor"
       /\ idEvents[s.auth].target = s.target
  /\ s.acc # 0 => s.acc \in AcceptanceIDs(idEvents, s.auth)

Reconcilable(l, r) ==
  /\ l.pred = r.pred /\ l.target = r.target
  /\ (l.auth = 0 \/ r.auth = 0 \/ l.auth = r.auth)
  /\ (l.acc = 0 \/ r.acc = 0 \/ l.acc = r.acc)

Reconciled(l, r) ==
  [l EXCEPT !.auth = IF @ = 0 THEN r.auth ELSE @, !.acc = IF @ = 0 THEN r.acc ELSE @]

SwitchEarly(s) ==
  (IF s.auth = 0 THEN <<"authorize", "rotation", "command">> ELSE <<>>)
    \o <<"switch">> \o (IF s.acc = 0 THEN <<"accept", "rotation", "command">> ELSE <<>>)
    \o <<"unrotate", "discard">>

\* The writes a rotation still has to make from state s on.
Progress(s) ==
  (IF s.auth = 0 THEN <<"authorize", "rotation", "command">> ELSE <<>>)
    \o (IF s.acc = 0 THEN <<"accept", "rotation", "command">> ELSE <<>>)
    \o <<"switch", "unrotate", "discard">>

-----------------------------------------------------------------------------
(* Creating an identity and adopting the legacy key: record, then pointer. *)

IdIdle == idTodo = <<>>

CreateIdentity ==
  /\ IdIdle /\ idActive = NoKey /\ idLegacy = NoKey /\ idKeys < MaxKeys
  /\ idKeys' = idKeys + 1
  /\ idState' = [NoJournal EXCEPT !.target = idKeys + 1]
  /\ idTodo' = <<"record", "pointer">>
  /\ UNCHANGED <<idFiles, idEvents, idFormer, idCrashes, idManual>>

\* loadActiveIdentity, called by every command that signs.
AdoptLegacy ==
  /\ IdIdle /\ idActive = NoKey /\ idLegacy # NoKey
  /\ idState' = [NoJournal EXCEPT !.target = idLegacy]
  /\ idTodo' = <<"record", "pointer">>
  /\ UNCHANGED <<idFiles, idEvents, idKeys, idFormer, idCrashes, idManual>>

InitializeActive ==
  /\ ~IdIdle /\ Head(idTodo) = "pointer"
  /\ idState.target \in idRecords
  /\ idActive' = (IF idActive = NoKey THEN idState.target ELSE idActive)
  /\ idTodo' = Tail(idTodo)
  /\ UNCHANGED <<idLegacy, idRecords, idCommand, idRotation, idEvents, idState,
                 idKeys, idFormer, idCrashes, idManual>>

-----------------------------------------------------------------------------
(* Relationships issued by hand. *)

SignIdEvent(e) == idEvents' = Append(idEvents, e)

IdentityAuthorize(rel, t) ==
  /\ IdIdle /\ idActive # NoKey /\ idManual < MaxIdManual
  /\ t # idActive
  /\ SignIdEvent(AuthorizeEvent(idActive, rel, t, TRUE))
  /\ idManual' = idManual + 1
  /\ UNCHANGED <<idFiles, idTodo, idState, idKeys, idFormer, idCrashes>>

IdentityAccept(i) ==
  /\ IdIdle /\ idActive # NoKey /\ idManual < MaxIdManual
  /\ i \in Authorizations(idEvents)
  /\ idEvents[i].target = idActive
  /\ SignIdEvent(AcceptEvent(idActive, i, TRUE))
  /\ idManual' = idManual + 1
  /\ UNCHANGED <<idFiles, idTodo, idState, idKeys, idFormer, idCrashes>>

\* Signed events of another device; verification bounds their shape only, so an
\* acceptance may come from an actor the authorisation does not name.
PeerEvent ==
  /\ IdIdle /\ idManual < MaxIdManual
  /\ \/ \E t \in 1..idKeys : SignIdEvent(AuthorizeEvent(PeerKey, "successor", t, TRUE))
     \/ \E i \in Authorizations(idEvents) : SignIdEvent(AcceptEvent(PeerKey, i, TRUE))
  /\ idManual' = idManual + 1
  /\ UNCHANGED <<idFiles, idTodo, idState, idKeys, idFormer, idCrashes>>

-----------------------------------------------------------------------------
(* `hn identity rotate`: prepareIdentityRotation decides, by what is on    *)
(* disk, which writes are left; a failed check ends the command with       *)
(* nothing written, so such a start is no step.                            *)

Resume(s, todo) ==
  /\ idState' = s /\ idTodo' = todo
  /\ UNCHANGED <<idFiles, idEvents, idKeys, idFormer, idCrashes, idManual>>

\* The command journal exists.
ResumeFromCommand ==
  LET s == IF Rotating(idRotation) THEN Reconciled(idCommand, idRotation) ELSE idCommand
      record == IF s.target \in idRecords THEN <<>> ELSE <<"record">>
  IN  /\ IdIdle /\ Rotating(idCommand)
      /\ Rotating(idRotation) => Reconcilable(idCommand, idRotation)
      /\ s.pred \in idRecords
      /\ idActive \in {s.pred, s.target}
      /\ ValidProgress(s, idActive = s.target)
      /\ Resume(s, IF Rotating(idRotation) THEN record \o <<"command">> \o Progress(s)
                   ELSE IF idActive = s.target THEN record \o <<"discard">>
                   ELSE record \o <<"rotation">> \o Progress(s))

\* Only rotation.json exists.
ResumeFromRotation ==
  /\ IdIdle /\ ~Rotating(idCommand) /\ Rotating(idRotation)
  /\ {idRotation.pred, idRotation.target} \subseteq idRecords
  /\ idActive \in {idRotation.pred, idRotation.target}
  /\ ValidProgress(idRotation, idActive = idRotation.target)
  /\ Resume(idRotation, <<"command">> \o Progress(idRotation))

BeginRotation ==
  /\ IdIdle /\ ~Rotating(idCommand) /\ ~Rotating(idRotation)
  /\ idActive # NoKey /\ idKeys < MaxKeys
  /\ idKeys' = idKeys + 1
  /\ idState' = [pred |-> idActive, target |-> idKeys + 1, auth |-> 0, acc |-> 0]
  /\ idTodo' = <<"command", "record", "rotation">> \o Progress(idState')
  /\ UNCHANGED <<idFiles, idEvents, idFormer, idCrashes, idManual>>

\* storeIdentityRecord writes the record or finds the same one.
StoreRecord ==
  /\ ~IdIdle /\ Head(idTodo) = "record"
  /\ idRecords' = idRecords \cup {idState.target}
  /\ idTodo' = Tail(idTodo)
  /\ UNCHANGED <<idLegacy, idActive, idCommand, idRotation, idEvents, idState,
                 idKeys, idFormer, idCrashes, idManual>>

\* updateIdentityRotationCommand merges with the journal on disk.
UpdateCommand ==
  /\ ~IdIdle /\ Head(idTodo) = "command"
  /\ RotationShape(idState, FALSE)
  /\ IF Rotating(idCommand)
     THEN Reconcilable(idCommand, idState) /\ idCommand' = Reconciled(idCommand, idState)
     ELSE idCommand' = idState
  /\ idTodo' = Tail(idTodo)
  /\ UNCHANGED <<idLegacy, idRecords, idActive, idRotation, idEvents, idState,
                 idKeys, idFormer, idCrashes, idManual>>

StoreRotation ==
  /\ ~IdIdle /\ Head(idTodo) = "rotation"
  /\ RotationShape(idState, FALSE)
  /\ {idState.pred, idState.target} \subseteq idRecords
  /\ IF Rotating(idRotation)
     THEN Reconcilable(idRotation, idState) /\ idRotation' = Reconciled(idState, idRotation)
     ELSE idRotation' = idState
  /\ idTodo' = Tail(idTodo)
  /\ UNCHANGED <<idLegacy, idRecords, idActive, idCommand, idEvents, idState,
                 idKeys, idFormer, idCrashes, idManual>>

NoMatchingAuthorizations == {}

\* Events that a rerun takes for the one it would sign.
MatchingAuthorizations ==
  {i \in Authorizations(idEvents) :
     idEvents[i] = AuthorizeEvent(idState.pred, "successor", idState.target, idEvents[i].hand)}

FindOrAppendAuthorization ==
  /\ ~IdIdle /\ Head(idTodo) = "authorize"
  /\ Cardinality(MatchingAuthorizations) <= 1
  /\ IF MatchingAuthorizations # {}
     THEN /\ idState' = [idState EXCEPT !.auth = CHOOSE i \in MatchingAuthorizations : TRUE]
          /\ UNCHANGED idEvents
     ELSE /\ SignIdEvent(AuthorizeEvent(idState.pred, "successor", idState.target, FALSE))
          /\ idState' = [idState EXCEPT !.auth = Len(idEvents) + 1]
  /\ idTodo' = Tail(idTodo)
  /\ UNCHANGED <<idFiles, idKeys, idFormer, idCrashes, idManual>>

MatchingAcceptances == AcceptanceIDs(idEvents, idState.auth)

FindOrAppendAcceptance ==
  /\ ~IdIdle /\ Head(idTodo) = "accept"
  /\ Cardinality(MatchingAcceptances) <= 1
  /\ IF MatchingAcceptances # {}
     THEN /\ idState' = [idState EXCEPT !.acc = CHOOSE i \in MatchingAcceptances : TRUE]
          /\ UNCHANGED idEvents
     ELSE /\ SignIdEvent(AcceptEvent(idState.target, idState.auth, FALSE))
          /\ idState' = [idState EXCEPT !.acc = Len(idEvents) + 1]
  /\ idTodo' = Tail(idTodo)
  /\ UNCHANGED <<idFiles, idKeys, idFormer, idCrashes, idManual>>

\* switchActiveIdentity up to the write of the pointer.
SwitchActive ==
  /\ ~IdIdle /\ Head(idTodo) = "switch"
  /\ ValidProgress(idState, TRUE)
  /\ idState.target \in idRecords
  /\ idRotation = idState
  /\ idActive \in {idState.pred, idState.target}
  /\ idActive' = idState.target
  /\ idFormer' = idFormer \cup ({idActive} \ {idState.target})
  /\ idTodo' = Tail(idTodo)
  /\ UNCHANGED <<idLegacy, idRecords, idCommand, idRotation, idEvents, idState,
                 idKeys, idCrashes, idManual>>

RemoveRotation ==
  /\ ~IdIdle /\ Head(idTodo) = "unrotate"
  /\ idRotation = idState
  /\ idRotation' = NoJournal
  /\ idTodo' = Tail(idTodo)
  /\ UNCHANGED <<idLegacy, idRecords, idActive, idCommand, idEvents, idState,
                 idKeys, idFormer, idCrashes, idManual>>

DiscardCommand ==
  /\ ~IdIdle /\ Head(idTodo) = "discard"
  /\ idCommand' = NoJournal
  /\ idTodo' = Tail(idTodo)
  /\ UNCHANGED <<idLegacy, idRecords, idActive, idRotation, idEvents, idState,
                 idKeys, idFormer, idCrashes, idManual>>

\* A check before the next write fails: the command reports it and ends.
RotationRefused ==
  /\ ~IdIdle /\ Head(idTodo) \in {"authorize", "accept"}
  /\ Cardinality(IF Head(idTodo) = "authorize" THEN MatchingAuthorizations
                 ELSE MatchingAcceptances) > 1
  /\ idTodo' = <<>>
  /\ UNCHANGED <<idFiles, idEvents, idState, idKeys, idFormer, idCrashes, idManual>>

\* The process dies between two writes; only the files and the events survive.
IdCrash ==
  /\ ~IdIdle /\ idCrashes < MaxIdCrashes
  /\ idTodo' = <<>> /\ idCrashes' = idCrashes + 1
  /\ UNCHANGED <<idFiles, idEvents, idState, idKeys, idFormer, idManual>>

\* rotation-command.json is removed between two commands.
CommandLost ==
  /\ IdIdle /\ Rotating(idCommand) /\ Rotating(idRotation)
  /\ idCommand' = NoJournal
  /\ UNCHANGED <<idLegacy, idRecords, idActive, idRotation, idEvents, idState, idTodo,
                 idKeys, idFormer, idCrashes, idManual>>

RotateWrite ==
  \/ StoreRecord \/ UpdateCommand \/ StoreRotation \/ FindOrAppendAuthorization
  \/ FindOrAppendAcceptance \/ SwitchActive \/ RemoveRotation \/ DiscardCommand
  \/ InitializeActive \/ RotationRefused

RerunRotation == ResumeFromCommand \/ ResumeFromRotation

IdentityNext ==
  \/ CreateIdentity \/ AdoptLegacy
  \/ \E t \in 1..idKeys \cup {PeerKey}, rel \in {"device", "successor"} : IdentityAuthorize(rel, t)
  \/ \E i \in DOMAIN idEvents : IdentityAccept(i)
  \/ PeerEvent
  \/ RerunRotation \/ BeginRotation \/ RotateWrite \/ IdCrash \/ CommandLost

\* The owner repeats a command that did not complete.
IdentityFairness == WF_identityVars(RotateWrite) /\ WF_identityVars(RerunRotation)

IdentitySpec == IdentityInit /\ [][IdentityNext]_identityVars

-----------------------------------------------------------------------------
(* Properties. *)

JournalType == [pred : 0..MaxKeys, target : 0..MaxKeys, auth : Nat, acc : Nat]

\* Shape of the state.
IdentityTypeOK ==
  /\ idLegacy \in 0..MaxKeys /\ idActive \in 0..MaxKeys /\ idRecords \subseteq IdActors
  /\ {idCommand, idRotation, idState} \subseteq JournalType
  /\ \A i \in DOMAIN idEvents :
       /\ idEvents[i].actor \in IdActors \cup {PeerKey}
       /\ idEvents[i].kind = "identity.accept" =>
            idEvents[i].subject \in 1..(i - 1)
  /\ idActive # NoKey => idActive \in idRecords

\* However often `hn identity rotate` is interrupted and repeated, it signs at
\* most one successor authorisation per predecessor and one acceptance of it:
\* a rerun completes the same rotation and never starts a competing one.
RotationIsOne ==
  \A i, j \in DOMAIN idEvents :
    (/\ ~idEvents[i].hand /\ ~idEvents[j].hand
     /\ idEvents[i].kind = idEvents[j].kind
     /\ idEvents[i].actor = idEvents[j].actor
     /\ idEvents[i].subject = idEvents[j].subject) => i = j

\* An actor the pointer has left stays publicly left: its signed events show an
\* accepted successor (retired, or ambiguous when somebody also issued another
\* one by hand), so `identity list` never shows a replaced key as merely stored
\* without such a conflict.
FormerIsRetired ==
  \A a \in idFormer \ {idActive} :
    \/ ListedAs(a) = "retired"
    \/ \E i \in AcceptedEdges(idEvents) :
         idEvents[i].actor = a /\ idEvents[i].rel = "successor" /\ idEvents[i].hand
    \/ SuccessorCycleIDs(idEvents) # {}

\* A rotation that has begun completes under reruns: the pointer reaches the
\* target and both journals are gone, unless its own owner also authorised the
\* same successor by hand, so that two events match the one the rotation is to
\* sign (identity_continuity.go, findOrAppendRotationAuthorization refuses to choose).
\* Other events signed by hand or received, acceptances among them, never stop it.
\* The target's key is newer than its predecessor's.
RotationCompletes ==
  \A t \in IdActors : \A p \in 1..(t - 1) :
    (Rotating(idCommand) /\ idCommand.pred = p /\ idCommand.target = t) ~>
      \/ idActive = t /\ ~Rotating(idCommand) /\ ~Rotating(idRotation)
      \/ \E i, j \in Authorizations(idEvents) :
           /\ i # j /\ idEvents[i].hand
           /\ \A k \in {i, j} : idEvents[k].actor = p /\ idEvents[k].rel = "successor" /\ idEvents[k].target = t
=============================================================================

---------------------------- MODULE ExtensionHost ----------------------------
(***************************************************************************)
(* Extension modules: registration, per-repository enablement, and the     *)
(* sessions that run a module's process (internal/extension/registration.go,*)
(* grants.go, process.go and session.go; extension_enablement.go,          *)
(* extension_host_command.go).  One module; a registration is the number   *)
(* of its instance and an enablement epoch is the number of the edit that  *)
(* made it, where the code draws both at random.                           *)
(*                                                                         *)
(* Sessions run in one repository.  Managers run `enable`, `disable` and   *)
(* `remove`; some of them in that repository, the others elsewhere, where  *)
(* only the registry is shared.  What a session does with the requests of  *)
(* its module is in ExtensionRequests; here a request is a call that       *)
(* begins, has its effect and ends.                                        *)
(***************************************************************************)
EXTENDS Naturals, FiniteSets

CONSTANTS
  ExtSessions,   \* runs of the module, each with its own session id
  ExtManagers,   \* manager -> whether it works in the sessions' repository
  ExtSlots,      \* session slots of the repository (SessionLimit)
  MaxExtRegs,    \* bound: registrations
  MaxExtEdits,   \* bound: enablement edits
  MaxExtFaults   \* bound: hosts that die, children that cannot be stopped

ASSUME ExtensionAssumption ==
  /\ {ExtSlots, MaxExtRegs, MaxExtEdits, MaxExtFaults} \subseteq Nat
  /\ MaxExtRegs # 0 /\ 0 \notin ExtSessions   \* 0 stands for no session

VARIABLES
  extReg,      \* registration the registry holds, 0 when none
  extRegs,     \* registrations made
  extIntact,   \* the executable is the registered one
  extEntry,    \* registration -> enablement entry of the repository
  extEdits,    \* enablement edits made
  extRevoked,  \* registrations whose removal has begun (the control file's mark)
  extSlot,     \* slot -> [by, id]: the session that locks it, the owner written in it
  extOwner,    \* session -> its registration-owner file
  extSess,     \* session -> its host
  extMgr,      \* manager -> the command it runs
  extReports,  \* successes reported: [kind, reg, epoch]
  extFaults

extensionVars == <<extReg, extRegs, extIntact, extEntry, extEdits, extRevoked, extSlot, extOwner,
                   extSess, extMgr, extReports, extFaults>>

ExtGrants == {"read", "write"}
Methods   == {"capabilities.list", "resource.read", "resource.mutate"}
NoEntry   == [epoch |-> 0, enabled |-> FALSE, grants |-> {}]
NoBody    == 0
NoHost    == [pc |-> "new", reg |-> 0, epoch |-> 0, slot |-> 0, child |-> FALSE, call |-> FALSE]
NoCommand == [pc |-> "idle", reg |-> 0, epoch |-> 0, at |-> 0, busy |-> FALSE, kind |-> "none"]
OwnerID(s, reg, epoch, cleanup) == [session |-> s, reg |-> reg, epoch |-> epoch, cleanup |-> cleanup]
NoOwnerID == OwnerID(NoBody, 0, 0, "verified")

ExtensionInit ==
  /\ extReg = 1 /\ extRegs = 1 /\ extIntact = TRUE
  /\ extEntry = [r \in 1..MaxExtRegs |->
       IF r = 1 THEN [epoch |-> 1, enabled |-> TRUE, grants |-> ExtGrants] ELSE NoEntry]
  /\ extEdits = 1 /\ extRevoked = {}
  /\ extSlot = [i \in 1..ExtSlots |-> [by |-> NoBody, id |-> NoOwnerID]]
  /\ extOwner = [s \in ExtSessions |-> [held |-> FALSE, cleanup |-> "none", reg |-> 0]]
  /\ extSess = [s \in ExtSessions |-> NoHost]
  /\ extMgr = [m \in DOMAIN ExtManagers |-> NoCommand]
  /\ extReports = {} /\ extFaults = 0

-----------------------------------------------------------------------------
(* The binding a session was started under. *)

\* What a method asks of the grants; the manifest declares every method here.
MethodAllows(method) == CASE method = "resource.read"   -> {"read"}
                          [] method = "resource.mutate" -> {"write"}
                          [] OTHER -> {}
Authorize(entry, epoch, method) ==
  /\ entry.enabled /\ entry.epoch = epoch
  /\ MethodAllows(method) \subseteq entry.grants

\* extensionRun's recheck: the registry still holds this registration, the entry
\* this epoch, and the executable is the registered one.
Availability == extIntact
Recheck(reg, epoch) ==
  /\ extReg = reg /\ reg # 0 /\ Authorize(extEntry[reg], epoch, "capabilities.list") /\ Availability
OwnerCheck(s)   == extSess[s].reg \notin extRevoked
StillBound(s)   == OwnerCheck(s) /\ Recheck(extSess[s].reg, extSess[s].epoch)

At(s, pc)       == extSess[s].pc = pc
Goes(s, pc)     == extSess' = [extSess EXCEPT ![s].pc = pc]
extRegistry     == <<extReg, extRegs, extIntact, extEntry, extEdits, extRevoked>>
extManaged      == <<extMgr, extReports>>

-----------------------------------------------------------------------------
(* A session. *)

\* Run reads the entry and checks the binding.
StartSession(s) ==
  /\ At(s, "new") /\ extReg # 0 /\ extEntry[extReg].epoch # 0
  /\ Recheck(extReg, extEntry[extReg].epoch)
  /\ extSess' = [extSess EXCEPT ![s] =
       [NoHost EXCEPT !.pc = "bound", !.reg = extReg, !.epoch = extEntry[extReg].epoch]]
  /\ UNCHANGED <<extRegistry, extSlot, extOwner, extManaged, extFaults>>

\* The first slot nobody locks; one whose last owner did not verify its cleanup
\* refuses the session, and so do slots that are all locked.
FreeSlots    == {i \in 1..ExtSlots : extSlot[i].by = NoBody}
FirstFree(i) == i \in FreeSlots /\ \A j \in FreeSlots : i <= j
AcquireSlot(s) ==
  /\ At(s, "bound")
  /\ \/ \E i \in 1..ExtSlots :
          /\ FirstFree(i) /\ extSlot[i].id.cleanup = "verified"
          /\ extSlot' = [extSlot EXCEPT ![i].by = s]
          /\ extSess' = [extSess EXCEPT ![s].pc = "locked", ![s].slot = i]
     \/ /\ \A i \in 1..ExtSlots : FirstFree(i) => extSlot[i].id.cleanup # "verified"
        /\ Goes(s, "ended") /\ UNCHANGED extSlot
  /\ UNCHANGED <<extRegistry, extOwner, extManaged, extFaults>>

\* The owner is written after the lock was taken.
WriteOwner(s) ==
  /\ At(s, "locked")
  /\ extSlot' = [extSlot EXCEPT ![extSess[s].slot].id =
                   OwnerID(s, extSess[s].reg, extSess[s].epoch, "owned")]
  /\ Goes(s, "slot")
  /\ UNCHANGED <<extRegistry, extOwner, extManaged, extFaults>>

\* Under the control file's lock: a revoked registration takes no more owners.
AcquireRegistrationOwner(s) ==
  /\ At(s, "slot")
  /\ IF OwnerCheck(s)
     THEN /\ extOwner' = [extOwner EXCEPT ![s] =
                            [held |-> TRUE, cleanup |-> "owned", reg |-> extSess[s].reg]]
          /\ Goes(s, "owner")
     ELSE Goes(s, "release") /\ UNCHANGED extOwner
  /\ UNCHANGED <<extRegistry, extSlot, extManaged, extFaults>>

\* The check repeated once ownership is visible; one that was not repeated:
RecheckedOnce(s) == TRUE
RecheckOwned(s)  == Recheck(extSess[s].reg, extSess[s].epoch)
RecheckAgain(s) ==
  /\ At(s, "owner")
  /\ IF RecheckOwned(s)
     THEN Goes(s, "launch") ELSE Goes(s, "release-owner")
  /\ UNCHANGED <<extRegistry, extSlot, extOwner, extManaged, extFaults>>

StartChild(s) ==
  /\ At(s, "launch")
  /\ extSess' = [extSess EXCEPT ![s].pc = "run", ![s].child = TRUE]
  /\ UNCHANGED <<extRegistry, extSlot, extOwner, extManaged, extFaults>>

\* The module cannot be launched: its owner and its slot are given back.
LaunchFails(s) ==
  /\ At(s, "launch") /\ Goes(s, "release-owner")
  /\ UNCHANGED <<extRegistry, extSlot, extOwner, extManaged, extFaults>>

\* A request of the module: checked, dispatched, and synchronous.
Dispatch(s, method) ==
  /\ At(s, "run") /\ StillBound(s)
  /\ Authorize(extEntry[extSess[s].reg], extSess[s].epoch, method)
  /\ extSess' = [extSess EXCEPT ![s].pc = "calling", ![s].call = TRUE]
  /\ UNCHANGED <<extRegistry, extSlot, extOwner, extManaged, extFaults>>

CallReturns(s) ==
  /\ At(s, "calling") \/ At(s, "aborting")
  /\ extSess' = [extSess EXCEPT ![s].pc = IF @ = "calling" THEN "run" ELSE "stopping",
                               ![s].call = FALSE]
  /\ UNCHANGED <<extRegistry, extSlot, extOwner, extManaged, extFaults>>

\* The monitor's tick, a cancelled host, the module's end or a broken protocol: the
\* call in progress is joined before the child is stopped.
SessionAborts(s) ==
  /\ \/ At(s, "run") /\ Goes(s, "stopping")
     \/ At(s, "calling") /\ Goes(s, "aborting")
  /\ UNCHANGED <<extRegistry, extSlot, extOwner, extManaged, extFaults>>
MonitorTick(s) == ~StillBound(s) /\ SessionAborts(s)

\* childProcess.close stops the process group; it may fail to see it end.
CloseChild(s) ==
  /\ At(s, "stopping")
  /\ \/ /\ extSess' = [extSess EXCEPT ![s].pc = "release-owner", ![s].child = FALSE]
        /\ UNCHANGED extFaults
     \/ /\ extFaults < MaxExtFaults /\ extFaults' = extFaults + 1
        /\ Goes(s, "release-owner")
  /\ UNCHANGED <<extRegistry, extSlot, extOwner, extManaged>>

Verified(s) == IF extSess[s].child THEN "failed" ELSE "verified"
ReleaseOwner(s) ==
  /\ At(s, "release-owner")
  /\ extOwner' = [extOwner EXCEPT ![s].held = FALSE,
                                  ![s].cleanup = IF extSess[s].child THEN "failed" ELSE "none"]
  /\ Goes(s, "release")
  /\ UNCHANGED <<extRegistry, extSlot, extManaged, extFaults>>
ReleaseSlot(s) ==
  /\ At(s, "release")
  /\ extSlot' = [extSlot EXCEPT ![extSess[s].slot] =
                   [by |-> NoBody, id |-> [@.id EXCEPT !.cleanup = Verified(s)]]]
  /\ Goes(s, "ended")
  /\ UNCHANGED <<extRegistry, extOwner, extManaged, extFaults>>

\* The host process dies: its locks are gone, what it wrote and its child are not.
HostDies(s) ==
  /\ extSess[s].pc \notin {"new", "ended", "died"} /\ extFaults < MaxExtFaults
  /\ extFaults' = extFaults + 1
  /\ extSess' = [extSess EXCEPT ![s].pc = "died", ![s].call = FALSE]
  /\ extOwner' = [extOwner EXCEPT ![s].held = FALSE]
  /\ extSlot' = [i \in 1..ExtSlots |-> IF extSlot[i].by = s THEN [extSlot[i] EXCEPT !.by = NoBody]
                                       ELSE extSlot[i]]
  /\ UNCHANGED <<extRegistry, extManaged>>

-----------------------------------------------------------------------------
(* Management. *)

Register ==
  /\ extReg = 0 /\ extRegs < MaxExtRegs
  /\ extRegs' = extRegs + 1 /\ extReg' = extRegs + 1
  /\ UNCHANGED <<extIntact, extEntry, extEdits, extRevoked, extSlot, extOwner, extSess, extManaged, extFaults>>

ExecutableChanges ==
  /\ extIntact' = ~extIntact /\ extFaults < MaxExtFaults /\ extFaults' = extFaults + 1
  /\ UNCHANGED <<extReg, extRegs, extEntry, extEdits, extRevoked, extSlot, extOwner, extSess, extManaged>>

\* EnablementStore.Set: a fresh epoch whatever is set.
SetEntry(reg, enabled, grants) ==
  /\ extEdits < MaxExtEdits /\ extEdits' = extEdits + 1
  /\ extEntry' = [extEntry EXCEPT ![reg] =
                    [epoch |-> extEdits + 1, enabled |-> enabled, grants |-> grants]]
Waits(m, kind) ==
  extMgr' = [extMgr EXCEPT ![m] = [pc |-> "wait", reg |-> extReg, epoch |-> extEdits + 1,
                                   at |-> 1, busy |-> FALSE, kind |-> kind]]
Enable(m, grants) ==
  /\ extMgr[m].pc = "idle" /\ ExtManagers[m] /\ extReg # 0 /\ Availability
  /\ SetEntry(extReg, TRUE, grants) /\ Waits(m, "enable")
  /\ UNCHANGED <<extReg, extRegs, extIntact, extRevoked, extSlot, extOwner, extSess, extReports, extFaults>>
Disable(m) ==
  /\ extMgr[m].pc = "idle" /\ ExtManagers[m] /\ extReg # 0
  /\ SetEntry(extReg, FALSE, extEntry[extReg].grants) /\ Waits(m, "disable")
  /\ UNCHANGED <<extReg, extRegs, extIntact, extRevoked, extSlot, extOwner, extSess, extReports, extFaults>>

Reports(m, kind) ==
  /\ extReports' = extReports \cup {[kind |-> kind, reg |-> extMgr[m].reg, epoch |-> extMgr[m].epoch]}
  /\ extMgr' = [extMgr EXCEPT ![m] = NoCommand]
GivesUp(m) ==
  /\ extMgr[m].pc # "idle" /\ extMgr' = [extMgr EXCEPT ![m] = NoCommand]
  /\ UNCHANGED <<extRegistry, extSlot, extOwner, extSess, extReports, extFaults>>

\* One slot of WaitRetired's pass: a locked one counts by the owner written in it,
\* one nobody locks must have been cleaned up.
Older(m, id)    == id.reg = extMgr[m].reg /\ id.epoch # extMgr[m].epoch
LeftBehind(m, id) == Older(m, id) /\ id.cleanup # "verified"
WaitStep(m) ==
  LET w == extMgr[m]
      slot == extSlot[w.at]
  IN  /\ w.pc = "wait" /\ w.at <= ExtSlots
      /\ CASE slot.by = NoBody /\ LeftBehind(m, slot.id) -> extMgr' = [extMgr EXCEPT ![m] = NoCommand]
           [] slot.by # NoBody /\ Older(m, slot.id) ->
                extMgr' = [extMgr EXCEPT ![m].at = @ + 1, ![m].busy = TRUE]
           [] OTHER -> extMgr' = [extMgr EXCEPT ![m].at = @ + 1]
      /\ UNCHANGED <<extRegistry, extSlot, extOwner, extSess, extReports, extFaults>>
WaitPassEnds(m) ==
  LET w == extMgr[m]
  IN  /\ w.pc = "wait" /\ w.at > ExtSlots
      /\ IF w.busy THEN extMgr' = [extMgr EXCEPT ![m].at = 1, ![m].busy = FALSE] /\ UNCHANGED extReports
         ELSE Reports(m, w.kind)
      /\ UNCHANGED <<extRegistry, extSlot, extOwner, extSess, extFaults>>

\* RetireRegistration marks the registration, then waits for its owners everywhere.
Retire(m) ==
  /\ extMgr[m].pc = "idle" /\ extReg # 0
  /\ extRevoked' = extRevoked \cup {extReg}
  /\ extMgr' = [extMgr EXCEPT ![m] = [NoCommand EXCEPT !.pc = "retire", !.reg = extReg]]
  /\ UNCHANGED <<extReg, extRegs, extIntact, extEntry, extEdits, extSlot, extOwner, extSess, extReports, extFaults>>
OwnersOf(reg) == {s \in ExtSessions : extOwner[s].reg = reg /\ extOwner[s].cleanup # "none"}
RetireWaits(m) ==
  LET owners == OwnersOf(extMgr[m].reg)
  IN  /\ extMgr[m].pc = "retire" /\ \A s \in owners : ~extOwner[s].held
      /\ extMgr' = [extMgr EXCEPT ![m] = IF owners = {} THEN [@ EXCEPT !.pc = "unset"] ELSE NoCommand]
      /\ UNCHANGED <<extRegistry, extSlot, extOwner, extSess, extReports, extFaults>>

\* The entry of the manager's own repository is disabled, then the registry edited
\* by module: what it removes may be another registration by then.
Unset(m) ==
  /\ extMgr[m].pc = "unset"
  /\ IF ExtManagers[m] /\ extEntry[extMgr[m].reg].epoch # 0
     THEN SetEntry(extMgr[m].reg, FALSE, extEntry[extMgr[m].reg].grants)
     ELSE UNCHANGED <<extEntry, extEdits>>
  /\ extMgr' = [extMgr EXCEPT ![m].pc = "edit"]
  /\ UNCHANGED <<extReg, extRegs, extIntact, extRevoked, extSlot, extOwner, extSess, extReports, extFaults>>
RemoveRegistration(m) ==
  /\ extMgr[m].pc = "edit"
  /\ extReg' = 0
  /\ IF extReg = extMgr[m].reg THEN Reports(m, "remove")
     ELSE extMgr' = [extMgr EXCEPT ![m] = NoCommand] /\ UNCHANGED extReports
  /\ UNCHANGED <<extRegs, extIntact, extEntry, extEdits, extRevoked, extSlot, extOwner, extSess, extFaults>>

-----------------------------------------------------------------------------

SessionStep(s) ==
  \/ StartSession(s) \/ AcquireSlot(s) \/ WriteOwner(s) \/ AcquireRegistrationOwner(s)
  \/ RecheckAgain(s) \/ StartChild(s) \/ LaunchFails(s) \/ (\E method \in Methods : Dispatch(s, method))
  \/ CallReturns(s) \/ MonitorTick(s) \/ SessionAborts(s)
  \/ CloseChild(s) \/ ReleaseOwner(s) \/ ReleaseSlot(s) \/ HostDies(s)

ManagerStep(m) ==
  \/ (\E g \in {{"read"}, ExtGrants} : Enable(m, g)) \/ Disable(m) \/ Retire(m)
  \/ WaitStep(m) \/ WaitPassEnds(m) \/ RetireWaits(m) \/ Unset(m) \/ RemoveRegistration(m) \/ GivesUp(m)

ExtensionNext ==
  \/ \E s \in ExtSessions : SessionStep(s)
  \/ Register \/ ExecutableChanges
  \/ \E m \in DOMAIN ExtManagers : ManagerStep(m)

ExtensionSpec == ExtensionInit /\ [][ExtensionNext]_extensionVars

-----------------------------------------------------------------------------
(* Properties. *)

Busy(s) == extSess[s].child \/ extSess[s].call

\* A success a manager reported is the end of what it took back: once `disable` or
\* a narrower `enable` returned, no process or call of an older epoch of that
\* registration remains, and once `remove` returned, none of that registration
\* remains or can begin, although the host of one may have died or failed to stop
\* it ("A failed cleanup is a failure", docs/extensions.md; WaitRetired,
\* RetireRegistration).
RetiredMeansStopped ==
  \A r \in extReports : \A s \in ExtSessions :
    (extSess[s].reg = r.reg /\ Busy(s)) => (r.kind # "remove" /\ extSess[s].epoch >= r.epoch)
=============================================================================

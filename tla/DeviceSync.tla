----------------------------- MODULE DeviceSync -----------------------------
(***************************************************************************)
(* The device sync of one organization (integrations/entra/sync.ts): runs  *)
(* of the scheduled job and of the manual trigger, each of which claims    *)
(* the organization's lease, lists the tenant's devices, checks that it    *)
(* still owns the lease, and then records the listed devices as            *)
(* configuration items and retires the others.                             *)
(***************************************************************************)
EXTENDS Naturals, FiniteSets, FiniteSetsExt

CONSTANTS Devices,
          Runs,        \* the scheduled job and manual triggers
          Job,         \* the run that the schedule starts for ever
          GuardFloor,  \* RETIRE_GUARD_FLOOR
          MaxMoves,    \* bound on the changes of the tenant
          MaxSyncFaults \* bound on failed writes, lapsed heartbeats and crashes

NoOwner == "no owner"
Crashed == "a run that crashed"   \* an owner id no later run carries

ASSUME SyncAssumption ==
  /\ IsFiniteSet(Devices) /\ Job \in Runs /\ Runs \cap {NoOwner, Crashed} = {}
  /\ {GuardFloor, MaxMoves, MaxSyncFaults} \subseteq Nat

(* "unkeyed" is a device whose row carries no usable id: it is returned,   *)
(* and cannot be recorded.                                                 *)
Presence == {"absent", "corporate", "personal", "unkeyed"}

VARIABLES enabled,    \* whether the integration is enabled
          tenant,     \* what the tenant says of each device
          moves,      \* changes of the tenant so far: the age of a list
          ci,         \* each device's configuration item: none, active, retired
          lease,      \* [owner, running]: running until sync_lease_until
          sync,       \* each run: [pc, found, excluded, unkeyed, age, todo]
          newest,     \* the age of the list last written from
          syncFaults

syncVars == <<enabled, tenant, moves, ci, lease, sync, newest, syncFaults>>

NotRunning == [pc |-> "idle", found |-> {}, excluded |-> 0, unkeyed |-> 0, age |-> 0, todo |-> {}]
NoLease == [owner |-> NoOwner, running |-> FALSE]

SyncInit ==
  /\ enabled \in BOOLEAN
  /\ tenant = [d \in Devices |-> "corporate"] /\ moves = 0
  /\ ci = [d \in Devices |-> "none"]
  /\ lease = NoLease /\ sync = [r \in Runs |-> NotRunning]
  /\ newest = 0 /\ syncFaults = 0

Active == {d \in Devices : ci[d] = "active"}
In(presence) == {d \in Devices : tenant[d] = presence}

-----------------------------------------------------------------------------
(* Mutant of IsClaimable: an expired lease is not claimable. *)
IsClaimableOnceReleased == lease.owner = NoOwner

(* claimSyncLease: one UPDATE tests the lease and takes it.                *)
IsClaimable == lease.owner = NoOwner \/ ~lease.running

Claim(r) ==
  /\ enabled /\ sync[r].pc = "idle" /\ IsClaimable
  /\ lease' = [owner |-> r, running |-> TRUE]
  /\ sync' = [sync EXCEPT ![r].pc = "listing"]
  /\ UNCHANGED <<enabled, tenant, moves, ci, newest, syncFaults>>

(* Mutant of StillOurs: whoever renews believes to own the lease. *)
StillOursAlways(r) == r \in Runs

(* renewSyncLease, from the heartbeat: only the owner is looked at.        *)
StillOurs(r) == lease.owner = r

Heartbeat(r) ==
  /\ sync[r].pc \in {"listing", "listed"} /\ StillOurs(r) /\ ~lease.running
  /\ lease' = [lease EXCEPT !.running = TRUE]
  /\ UNCHANGED <<enabled, tenant, moves, ci, sync, newest, syncFaults>>

(* No renewal came in time: the owner crashed, or its heartbeats failed    *)
(* for as long as a lease runs.  A run that has just passed Recheck has a  *)
(* full lease ahead of it, and its writes take less.                       *)
LeaseExpires ==
  /\ lease.running
  /\ \/ lease.owner = Crashed /\ UNCHANGED syncFaults
     \/ /\ syncFaults < MaxSyncFaults /\ syncFaults' = syncFaults + 1
        /\ \E r \in Runs : lease.owner = r /\ sync[r].pc \in {"listing", "listed"}
  /\ lease' = [lease EXCEPT !.running = FALSE]
  /\ UNCHANGED <<enabled, tenant, moves, ci, sync, newest>>

(* releaseSyncLease, in `finally'.                                         *)
EndRun(r) ==
  /\ sync' = [sync EXCEPT ![r] = NotRunning]
  /\ lease' = IF lease.owner = r THEN NoLease ELSE lease

(* fetchOrgDevices answers with every page, or throws.  Of the rows it     *)
(* returns, the first loop of applyDeviceSync counts and leaves out the    *)
(* personal devices, passes over the rows without a usable id, and records *)
(* the others.  (A device returned twice is recorded twice, and counts     *)
(* twice where it matters only whether the count is zero.)                 *)
List(r) ==
  /\ sync[r].pc = "listing"
  /\ sync' = [sync EXCEPT ![r] = [pc |-> "listed", age |-> moves, todo |-> {}, found |-> In("corporate"),
                                  excluded |-> Cardinality(In("personal")),
                                  unkeyed |-> Cardinality(In("unkeyed"))]]
  /\ UNCHANGED <<enabled, tenant, moves, ci, lease, newest, syncFaults>>

ListFails(r) ==
  /\ sync[r].pc = "listing"
  /\ EndRun(r)
  /\ UNCHANGED <<enabled, tenant, moves, ci, newest, syncFaults>>

(* The second look at the lease, before the writes.                        *)
Recheck(r) ==
  /\ sync[r].pc = "listed" /\ StillOurs(r)
  /\ lease' = [lease EXCEPT !.running = TRUE]
  /\ sync' = [sync EXCEPT ![r] = [sync[r] EXCEPT !.pc = "recording", !.todo = sync[r].found]]
  /\ newest' = sync[r].age
  /\ UNCHANGED <<enabled, tenant, moves, ci, syncFaults>>

StopsAsBusy(r) ==
  /\ sync[r].pc = "listed" /\ ~StillOurs(r)
  /\ EndRun(r)
  /\ UNCHANGED <<enabled, tenant, moves, ci, newest, syncFaults>>

-----------------------------------------------------------------------------
(* applyDeviceSync: no transaction, one statement per device.              *)
Upsert(r, d) ==
  /\ sync[r].pc = "recording" /\ d \in sync[r].todo
  /\ ci' = [ci EXCEPT ![d] = "active"]
  /\ sync' = [sync EXCEPT ![r].todo = @ \ {d}]
  /\ newest' = sync[r].age
  /\ UNCHANGED <<enabled, tenant, moves, lease, syncFaults>>

(* retirementSkipReason, of the syncable devices returned, the active      *)
(* items and those a pass would retire.                                    *)
RetirementSkipped(returned, active, gone) ==
  /\ active > 0
  /\ \/ returned = 0
     \/ active >= GuardFloor /\ 2 * gone > active

(* devices.length *)
Returned(run) == Cardinality(run.found) + run.excluded + run.unkeyed

(* Mutant of Syncable: every row the tenant returned counts. *)
SyncableRaw(run) == Returned(run)

(* `returned' as its caller counts it: devices.length - excludedPersonal.  *)
Syncable(run) == Returned(run) - run.excluded

PlanRetirements(found) == Active \ found

Plan(r) ==
  /\ sync[r].pc = "recording" /\ sync[r].todo = {}
  /\ LET gone == PlanRetirements(sync[r].found)
         refused == RetirementSkipped(Syncable(sync[r]), Cardinality(Active), Cardinality(gone)) IN
       sync' = [sync EXCEPT ![r] = [sync[r] EXCEPT !.pc = "retiring", !.todo = IF refused THEN {} ELSE gone]]
  /\ UNCHANGED <<enabled, tenant, moves, ci, lease, newest, syncFaults>>

Retire(r, d) ==
  /\ sync[r].pc = "retiring" /\ d \in sync[r].todo
  /\ ci' = [ci EXCEPT ![d] = "retired"]
  /\ sync' = [sync EXCEPT ![r].todo = @ \ {d}]
  /\ newest' = sync[r].age
  /\ UNCHANGED <<enabled, tenant, moves, lease, syncFaults>>

Finish(r) ==
  /\ sync[r].pc = "retiring" /\ sync[r].todo = {}
  /\ EndRun(r)
  /\ UNCHANGED <<enabled, tenant, moves, ci, newest, syncFaults>>

(* A statement throws: the run is recorded as failed and the lease freed.  *)
WriteFails(r) ==
  /\ sync[r].pc \in {"recording", "retiring"} /\ syncFaults < MaxSyncFaults
  /\ EndRun(r)
  /\ syncFaults' = syncFaults + 1
  /\ UNCHANGED <<enabled, tenant, moves, ci, newest>>

(* The process stops: nobody releases its lease.                           *)
RunDies(r) ==
  /\ sync[r].pc # "idle" /\ syncFaults < MaxSyncFaults
  /\ sync' = [sync EXCEPT ![r] = NotRunning]
  /\ lease' = IF lease.owner = r THEN [lease EXCEPT !.owner = Crashed] ELSE lease
  /\ syncFaults' = syncFaults + 1
  /\ UNCHANGED <<enabled, tenant, moves, ci, newest>>

(* A device joins, leaves or changes hands.                                *)
TenantMoves(d) ==
  /\ moves < MaxMoves /\ moves' = moves + 1
  /\ \E p \in Presence \ {tenant[d]} : tenant' = [tenant EXCEPT ![d] = p]
  /\ UNCHANGED <<enabled, ci, lease, sync, newest, syncFaults>>

RunStep(r) ==
  \/ Recheck(r) \/ StopsAsBusy(r) \/ Plan(r) \/ Finish(r)
  \/ \E d \in Devices : Upsert(r, d) \/ Retire(r, d)

SyncNext ==
  \/ \E r \in Runs : \/ Claim(r) \/ Heartbeat(r) \/ List(r) \/ ListFails(r)
                     \/ RunStep(r) \/ WriteFails(r) \/ RunDies(r)
  \/ LeaseExpires
  \/ \E d \in Devices : TenantMoves(d)

(* The schedule keeps starting the job; a started run goes on; a lease     *)
(* nobody renews expires; a tenant asked again and again answers.          *)
SyncFairness ==
  /\ WF_syncVars(Claim(Job))
  /\ WF_syncVars(LeaseExpires /\ lease.owner = Crashed)
  /\ \A r \in Runs : /\ WF_syncVars(RunStep(r))
                     /\ WF_syncVars(List(r) \/ ListFails(r))
                     /\ SF_syncVars(List(r))

SyncSpec == SyncInit /\ [][SyncNext]_syncVars /\ SyncFairness

-----------------------------------------------------------------------------
(* A list is never written over a newer one: no item changes on the word   *)
(* of a list older than one already written (syncOne, "retiring against    *)
(* our now-stale device list is precisely the interleaving damage the      *)
(* lease exists to prevent").                                              *)
NeverOlderList == [][newest' >= newest]_syncVars

(* A fleet is not retired as a whole, whatever the tenant returned,        *)
(* wherever a run stopped and whoever took over from it (applyDeviceSync,  *)
(* "retiring a customer's device inventory on that ambiguity is the worst  *)
(* outcome this feature can produce"): neither is its last active item     *)
(* retired, nor does a run set out to retire them all.  Save for a list    *)
(* that has rows and none with a usable id, which the zero guard takes for *)
(* devices, in a fleet too small for the collapse guard.                   *)
NoneUsable(run) == run.found = {} /\ run.unkeyed > 0

SetsOutForAll(r) ==
  /\ sync[r].pc = "recording" /\ sync'[r].pc = "retiring"
  /\ Active # {} /\ Active \subseteq sync'[r].todo

FleetIsSpared ==
  [][/\ Active # {} /\ Active' = {} => \E r \in Runs : sync[r].pc = "retiring" /\ NoneUsable(sync[r])
     /\ \A r \in Runs : SetsOutForAll(r) => NoneUsable(sync[r]) /\ Cardinality(Active) < GuardFloor]_syncVars

(* A crashed run does not wedge the organization: once the tenant stays as *)
(* it is, the items come to agree with it, or a guard asks for a human.    *)
Agrees ==
  LET gone == PlanRetirements(In("corporate"))
      syncable == Cardinality(In("corporate") \cup In("unkeyed")) IN
    /\ In("corporate") \subseteq Active
    /\ gone = {} \/ RetirementSkipped(syncable, Cardinality(Active), Cardinality(gone))

SyncCatchesUp == <>[](enabled => Agrees)
=============================================================================

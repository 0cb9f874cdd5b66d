--------------------------- MODULE Platform_proofs ---------------------------
(***************************************************************************)
(* Proofs about what every tenant relies on: the audit trail, for every    *)
(* number of handlers, nested ones and connections, the device sync, for   *)
(* every number of devices, runs, changes of the tenant and faults, the    *)
(* calendar of the clocks, and the two planes of accounts.                 *)
(***************************************************************************)
EXTENDS Platform, SequenceTheorems, FiniteSetTheorems, TLAPS

-----------------------------------------------------------------------------
(* The audit trail *)

Critical == {"locked", "read", "inserted"}
Places == {"idle", "outerWait", "outer", "auditWait", "open", "closing",
           "posting", "accepted", "refused"} \cup Critical \cup Ended

(* The part of the type invariant that the chain rests on.                 *)
ChainTypeOK ==
  /\ at \in [Handlers -> Places]
  /\ last \in [Handlers -> Handlers \cup {NoHash}]
  /\ log \in Seq([by : Handlers, prev : Handlers \cup {NoHash}])
  /\ waiting \in Seq(Handlers)

(* Who is between its lock and its commit holds the lock of the chain.     *)
LockGuardsChain == \A h \in Handlers : at[h] \in Critical => chainLock = h

(* What it has read is still the last hash.                                *)
LastIsFresh == \A h \in Handlers : at[h] \in {"read", "inserted"} => last[h] = LastHash

ChainIInv == ChainTypeOK /\ LockGuardsChain /\ LastIsFresh /\ ChainNeverForks

(* Appending a row that names the last one keeps the chain: the step of    *)
(* verifyChain's loop.                                                     *)
LEMMA AppendKeepsChain ==
  ASSUME NEW S, NEW rows \in Seq([by : S, prev : S \cup {NoHash}]), NEW h \in S, NEW p,
         VerifyChain(rows), p = IF rows = <<>> THEN NoHash ELSE rows[Len(rows)].by
  PROVE  VerifyChain(Append(rows, [by |-> h, prev |-> p]))
<1> DEFINE new == Append(rows, [by |-> h, prev |-> p])
<1> SUFFICES ASSUME NEW i \in DOMAIN new
             PROVE  new[i].prev = IF i = 1 THEN NoHash ELSE new[i - 1].by
  BY DEF VerifyChain
<1>1. /\ Len(new) = Len(rows) + 1 /\ i \in 1 .. Len(rows) + 1
      /\ \A j \in 1 .. Len(rows) : new[j] = rows[j]
      /\ new[Len(rows) + 1] = [by |-> h, prev |-> p]
  OBVIOUS
<1>2. CASE i = Len(rows) + 1
  <2>1. CASE rows = <<>>
    BY <1>1, <1>2, <2>1
  <2>2. CASE rows # <<>>
    <3>1. Len(rows) \in Nat \ {0}
      BY <2>2
    <3>2. new[i - 1] = rows[Len(rows)] /\ i # 1
      BY <1>1, <1>2, <3>1
    <3> QED  BY <1>1, <1>2, <2>2, <3>2
  <2> QED  BY <2>1, <2>2
<1>3. CASE i # Len(rows) + 1
  <2>1. i \in 1 .. Len(rows) /\ (i # 1 => i - 1 \in 1 .. Len(rows))
    BY <1>1, <1>3
  <2>2. rows[i].prev = IF i = 1 THEN NoHash ELSE rows[i - 1].by
    BY <2>1 DEF VerifyChain
  <2>3. new[i] = rows[i] /\ (i # 1 => new[i - 1] = rows[i - 1])
    BY <1>1, <2>1
  <2> QED  BY <2>2, <2>3
<1> QED  BY <1>2, <1>3

LEMMA ChainInit == AuditInit => ChainIInv
<1> SUFFICES ASSUME AuditInit PROVE ChainIInv
  OBVIOUS
<1> QED  BY DEF AuditInit, ChainIInv, ChainTypeOK, LockGuardsChain, LastIsFresh, ChainNeverForks,
               VerifyChain, Places, Critical, Ended

(* Steps outside the transaction: no lock, no hash and no row changes, and *)
(* nobody enters or leaves the critical places.                            *)
LEMMA OutsideKeeps ==
  ASSUME ChainIInv, at' \in [Handlers -> Places], waiting' \in Seq(Handlers),
         UNCHANGED <<chainLock, last, log>>,
         \A h \in Handlers : at'[h] \in Critical => at'[h] = at[h]
  PROVE  ChainIInv'
BY DEF ChainIInv, ChainTypeOK, LockGuardsChain, LastIsFresh, LastHash, ChainNeverForks, Critical

(* Handlers that hold a connection and leave the chain alone.              *)
Aside(h) == Close(h) \/ RecordDelivery(h) \/ Post(h) \/ RecordResult(h)

LEMMA AsideKeeps == ASSUME ChainIInv, NEW h \in Handlers, Aside(h) PROVE ChainIInv'
<1>1. \E place \in Places \ Critical : GoTo(h, place)
  BY DEF Aside, Close, RecordDelivery, Post, RecordResult, Places, Critical, Ended
<1>2. at' \in [Handlers -> Places] /\ (\A g \in Handlers : at'[g] \in Critical => at'[g] = at[g])
  BY <1>1 DEF GoTo, ChainIInv, ChainTypeOK
<1>3. UNCHANGED <<waiting, chainVars>>
  BY DEF Aside, Close, RecordDelivery, Post, RecordResult
<1> QED  BY <1>2, <1>3, OutsideKeeps DEF chainVars, ChainIInv, ChainTypeOK

LEMMA ChainStep == ChainIInv /\ [AuditNext]_auditVars => ChainIInv'
<1> SUFFICES ASSUME ChainIInv, [AuditNext]_auditVars PROVE ChainIInv'
  OBVIOUS
<1> USE DEF ChainIInv
<1>1. CASE PoolServes
  <2> DEFINE h == Head(waiting)
  <2>1. h \in Handlers /\ Tail(waiting) \in Seq(Handlers)
    BY <1>1 DEF PoolServes, ChainTypeOK
  <2>2. at' \in [Handlers -> Places] /\ (\A g \in Handlers : at'[g] \in Critical => at'[g] = at[g])
    BY <1>1, <2>1 DEF PoolServes, GoTo, ChainTypeOK, Places, Critical
  <2> QED  BY <1>1, <2>1, <2>2, OutsideKeeps DEF PoolServes, chainVars
<1>2. ASSUME NEW h \in Handlers, HandlerStarts(h) \/ CallAudit(h) PROVE ChainIInv'
  <2>1. waiting' = Append(waiting, h) /\ UNCHANGED <<chainLock, last, log>>
    BY <1>2 DEF HandlerStarts, CallAudit, Connect, chainVars
  <2>3. waiting' \in Seq(Handlers)
    BY <2>1 DEF ChainTypeOK
  <2>2. at' \in [Handlers -> Places] /\ (\A g \in Handlers : at'[g] \in Critical => at'[g] = at[g])
    BY <1>2 DEF HandlerStarts, CallAudit, Connect, GoTo, ChainTypeOK, Places, Critical
  <2> QED  BY <2>1, <2>2, <2>3, OutsideKeeps
<1>3. ASSUME NEW h \in Handlers, Aside(h) PROVE ChainIInv'
  BY <1>3, AsideKeeps
<1>4. ASSUME NEW h \in Handlers, LockChain(h) PROVE ChainIInv'
  <2>1. \A g \in Handlers : at[g] \notin Critical
    BY <1>4, AuditAssumption DEF LockChain, LockGuardsChain
  <2> QED  BY <1>4, <2>1 DEF LockChain, GoTo, ChainTypeOK, LockGuardsChain, LastIsFresh, LastHash,
                            ChainNeverForks, Places, Critical
<1>5. ASSUME NEW h \in Handlers, ReadLast(h) PROVE ChainIInv'
  <2>1. LastHash \in Handlers \cup {NoHash}
    <3>1. CASE log = <<>>
      BY <3>1 DEF LastHash
    <3>2. CASE log # <<>>
      <4>1. Len(log) \in 1 .. Len(log)
        BY <3>2 DEF ChainTypeOK
      <4>2. log[Len(log)] \in [by : Handlers, prev : Handlers \cup {NoHash}]
        BY <4>1, ElementOfSeq DEF ChainTypeOK
      <4> QED  BY <3>2, <4>2 DEF LastHash
    <3> QED  BY <3>1, <3>2
  <2> QED  BY <1>5, <2>1 DEF ReadLast, GoTo, ChainTypeOK, LockGuardsChain, LastIsFresh, LastHash,
                            ChainNeverForks, Places, Critical
<1>6. ASSUME NEW h \in Handlers, InsertRow(h) PROVE ChainIInv'
  BY <1>6 DEF InsertRow, GoTo, chainVars, ChainTypeOK, LockGuardsChain, LastIsFresh, LastHash,
              ChainNeverForks, Places, Critical
<1>7. ASSUME NEW h \in Handlers, CommitRow(h) PROVE ChainIInv'
  <2> USE <1>7 DEF CommitRow
  <2>1. \A g \in Handlers \ {h} : at'[g] \notin Critical
    BY DEF GoTo, ChainTypeOK, LockGuardsChain, Critical
  <2>2. at'[h] \notin Critical /\ at' \in [Handlers -> Places]
    BY DEF GoTo, ChainTypeOK, Critical, Places, Ended
  <2>3. last[h] = LastHash
    BY DEF LastIsFresh
  <2>4. ChainNeverForks'
    BY <2>3, AppendKeepsChain DEF ChainTypeOK, ChainNeverForks, LastHash
  <2>5. ChainTypeOK'
    BY <2>2 DEF ChainTypeOK
  <2> QED  BY <2>1, <2>2, <2>4, <2>5 DEF LockGuardsChain, LastIsFresh, Critical
<1>8. ASSUME NEW h \in Handlers, AuditFails(h) PROVE ChainIInv'
  <2>1. \A g \in Handlers : at'[g] \in Critical => g # h /\ at'[g] = at[g] /\ chainLock' = g
    BY <1>8 DEF AuditFails, GoTo, Unlocked, ChainTypeOK, LockGuardsChain, Critical
  <2> QED  BY <1>8, <2>1 DEF AuditFails, GoTo, ChainTypeOK, LockGuardsChain, LastIsFresh, LastHash,
                            ChainNeverForks, Places, Critical, Ended
<1>9. CASE UNCHANGED auditVars
  BY <1>9, OutsideKeeps DEF auditVars, chainVars, ChainTypeOK
<1> QED  BY <1>1, <1>2, <1>3, <1>4, <1>5, <1>6, <1>7, <1>8, <1>9 DEF AuditNext, HandlerStep, Aside

(* The audit trail is one chain at every moment, for any number of         *)
(* handlers that append at once and fail anywhere (audit).                 *)
THEOREM AuditChain == AuditSpec => []ChainNeverForks
<1>1. ChainIInv => ChainNeverForks
  BY DEF ChainIInv
<1> QED  BY <1>1, ChainInit, ChainStep, PTL DEF AuditSpec

-----------------------------------------------------------------------------
(* The device sync *)

Writing == {"recording", "retiring"}
Runnings == [pc : {"idle", "listing", "listed"} \cup Writing, found : SUBSET Devices,
             excluded : Nat, unkeyed : Nat, age : Nat, todo : SUBSET Devices]

SyncTypeOK ==
  /\ tenant \in [Devices -> Presence] /\ ci \in [Devices -> {"none", "active", "retired"}]
  /\ lease \in [owner : Runs \cup {NoOwner, Crashed}, running : BOOLEAN]
  /\ sync \in [Runs -> Runnings] /\ moves \in Nat /\ newest \in Nat

(* Only the owner of a running lease writes, and from the newest list.     *)
WriterOwns == \A r \in Runs : sync[r].pc \in Writing =>
                /\ lease = [owner |-> r, running |-> TRUE]
                /\ newest = sync[r].age

(* While a run has kept the lease, nothing newer than its list was written. *)
OwnListIsNewest ==
  /\ newest <= moves
  /\ \A r \in Runs : sync[r].pc = "listed" /\ lease.owner = r => newest <= sync[r].age

(* What a list names is active once recorded, and a pass that retires      *)
(* anything has recorded something, or was returned nothing usable.        *)
RecordedFirst ==
  \A r \in Runs :
    /\ sync[r].pc = "recording" => sync[r].todo \subseteq sync[r].found /\ sync[r].found \ sync[r].todo \subseteq Active
    /\ sync[r].pc = "retiring" => /\ sync[r].found \subseteq Active /\ sync[r].todo \cap sync[r].found = {}
                                  /\ sync[r].todo # {} => sync[r].found # {} \/ NoneUsable(sync[r])

AgesBounded == \A r \in Runs : sync[r].age <= moves

SyncIInv == SyncTypeOK /\ WriterOwns /\ OwnListIsNewest /\ AgesBounded /\ RecordedFirst

LEMMA SyncInitOK == SyncInit => SyncIInv
BY DEF SyncInit, SyncIInv, SyncTypeOK, WriterOwns, OwnListIsNewest, AgesBounded, RecordedFirst,
       NotRunning, NoLease, Runnings, Writing, Presence, Active

(* There is one writer at most: the owner of the lease.                    *)
LEMMA OneWriter ==
  ASSUME SyncIInv, NEW r \in Runs, NEW s \in Runs, sync[r].pc \in Writing, sync[s].pc \in Writing
  PROVE  r = s
BY DEF SyncIInv, WriterOwns

(* A pass that the guards let retire was returned a device, and is not for *)
(* all the items of a fleet that has grown to the floor.                   *)
LEMMA RetiringSawRows ==
  ASSUME NEW run \in Runnings, NEW active \in SUBSET Devices, NEW gone \in SUBSET active, gone # {},
         ~RetirementSkipped(Syncable(run), Cardinality(active), Cardinality(gone))
  PROVE  /\ run.found # {} \/ NoneUsable(run)
         /\ gone = active => Cardinality(active) < GuardFloor
<1>1. IsFiniteSet(active) /\ active # {} /\ run.found \in SUBSET Devices /\ run.excluded \in Nat /\ run.unkeyed \in Nat
  BY SyncAssumption, FS_Subset DEF Runnings
<1>2. Cardinality(active) \in Nat /\ Cardinality(active) # 0 /\ Cardinality(run.found) \in Nat
  BY <1>1, SyncAssumption, FS_Subset, FS_CardinalityType, FS_EmptySet
<1>3. Cardinality(run.found) + run.unkeyed # 0
  BY <1>1, <1>2 DEF RetirementSkipped, Syncable, Returned
<1>4. run.found = {} => run.unkeyed > 0
  BY <1>1, <1>3, FS_EmptySet
<1>5. gone = active => Cardinality(active) < GuardFloor
  BY <1>2, SyncAssumption DEF RetirementSkipped
<1> QED  BY <1>4, <1>5 DEF NoneUsable

(* Steps that leave the items and the writers alone.                       *)
LEMMA NotWriting ==
  ASSUME SyncIInv, SyncTypeOK', UNCHANGED <<ci, newest>>, moves' >= moves,
         OwnListIsNewest', AgesBounded',
         \A r \in Runs : sync'[r].pc \in Writing => sync'[r] = sync[r] /\ lease' = lease
  PROVE  SyncIInv'
<1>1. WriterOwns' /\ RecordedFirst'
  BY DEF SyncIInv, WriterOwns, RecordedFirst, NoneUsable, Writing, Active
<1> QED  BY <1>1 DEF SyncIInv

(* A run that ends, or dies, drops out of every part of the invariant.     *)
LEMMA EndingKeeps ==
  ASSUME SyncIInv, NEW r \in Runs, UNCHANGED <<tenant, moves, ci, newest>>,
         sync' = [sync EXCEPT ![r] = NotRunning],
         NEW owner \in {NoOwner, Crashed}, NEW running \in BOOLEAN,
         lease' = IF lease.owner = r THEN [owner |-> owner, running |-> running] ELSE lease
  PROVE  SyncIInv'
<1> USE DEF SyncIInv
<1>1. NotRunning \in Runnings /\ NotRunning.pc = "idle" /\ NotRunning.age = 0
  BY DEF NotRunning, Runnings
<1>2. SyncTypeOK'
  BY <1>1 DEF SyncTypeOK
<1>3. sync'[r].pc = "idle" /\ sync'[r].age = 0 /\ \A s \in Runs \ {r} : sync'[s] = sync[s]
  BY <1>1 DEF SyncTypeOK
<1>4. \A s \in Runs \ {r} : lease'.owner = s => lease' = lease
  BY SyncAssumption DEF SyncTypeOK
<1>5. OwnListIsNewest' /\ AgesBounded'
  BY <1>3, <1>4 DEF SyncTypeOK, OwnListIsNewest, AgesBounded
<1>6. \A s \in Runs : sync'[s].pc \in Writing => sync'[s] = sync[s] /\ lease' = lease
  <2> SUFFICES ASSUME NEW s \in Runs, sync'[s].pc \in Writing PROVE sync'[s] = sync[s] /\ lease' = lease
    OBVIOUS
  <2>1. s # r /\ sync'[s] = sync[s]
    BY <1>3 DEF Writing
  <2>2. lease.owner = s
    BY <2>1 DEF WriterOwns
  <2> QED  BY <2>1, <2>2
<1> QED  BY <1>2, <1>5, <1>6, NotWriting DEF SyncTypeOK

LEMMA SyncStep == SyncIInv /\ [SyncNext]_syncVars => SyncIInv'
<1> SUFFICES ASSUME SyncIInv, [SyncNext]_syncVars PROVE SyncIInv'
  OBVIOUS
<1> USE DEF SyncIInv
<1>1. ASSUME NEW r \in Runs, Claim(r) PROVE SyncIInv'
  <2>1. \A s \in Runs : sync[s].pc \notin Writing
    BY <1>1, SyncAssumption DEF Claim, IsClaimable, WriterOwns
  <2>2. SyncTypeOK'
    BY <1>1 DEF Claim, SyncTypeOK, Runnings
  <2>3. /\ sync'[r].pc = "listing" /\ sync'[r].age = sync[r].age /\ lease'.owner = r
        /\ \A s \in Runs \ {r} : sync'[s] = sync[s]
    BY <1>1 DEF Claim, SyncTypeOK, Runnings
  <2>4. \A s \in Runs : sync'[s].pc \notin Writing
    BY <2>1, <2>3 DEF Writing
  <2>5. OwnListIsNewest' /\ AgesBounded'
    BY <1>1, <2>3 DEF Claim, SyncTypeOK, OwnListIsNewest, AgesBounded
  <2> QED  BY <1>1, <2>2, <2>4, <2>5, NotWriting DEF Claim, SyncTypeOK
<1>2. ASSUME NEW r \in Runs, Heartbeat(r) PROVE SyncIInv'
  <2>1. SyncTypeOK' /\ lease'.owner = lease.owner
    BY <1>2 DEF Heartbeat, SyncTypeOK
  <2>2. \A s \in Runs : sync[s].pc \notin Writing
    BY <1>2 DEF Heartbeat, WriterOwns
  <2>3. OwnListIsNewest' /\ AgesBounded'
    BY <1>2, <2>1 DEF Heartbeat, SyncTypeOK, OwnListIsNewest, AgesBounded
  <2> QED  BY <1>2, <2>1, <2>2, <2>3, NotWriting DEF Heartbeat, SyncTypeOK
<1>3. CASE LeaseExpires
  <2>1. SyncTypeOK' /\ lease'.owner = lease.owner
    BY <1>3 DEF LeaseExpires, SyncTypeOK
  <2>2. \A s \in Runs : sync[s].pc \notin Writing
    BY <1>3, SyncAssumption DEF LeaseExpires, WriterOwns, Writing
  <2>3. OwnListIsNewest' /\ AgesBounded'
    BY <1>3, <2>1 DEF LeaseExpires, SyncTypeOK, OwnListIsNewest, AgesBounded
  <2> QED  BY <1>3, <2>1, <2>2, <2>3, NotWriting DEF LeaseExpires, SyncTypeOK
<1>4. ASSUME NEW r \in Runs, List(r) PROVE SyncIInv'
  <2>1. Cardinality(In("personal")) \in Nat /\ Cardinality(In("unkeyed")) \in Nat
    BY SyncAssumption, FS_Subset, FS_CardinalityType DEF In
  <2>2. /\ sync'[r].pc = "listed" /\ sync'[r].age = moves
        /\ \A s \in Runs \ {r} : sync'[s] = sync[s]
    BY <1>4 DEF List, SyncTypeOK, Runnings
  <2>3. SyncTypeOK'
    <3>1. [pc |-> "listed", age |-> moves, todo |-> {}, found |-> In("corporate"),
           excluded |-> Cardinality(In("personal")), unkeyed |-> Cardinality(In("unkeyed"))] \in Runnings
      BY <2>1 DEF SyncTypeOK, Runnings, In
    <3> QED  BY <1>4, <3>1 DEF List, SyncTypeOK
  <2>4. OwnListIsNewest' /\ AgesBounded'
    BY <1>4, <2>2 DEF List, SyncTypeOK, OwnListIsNewest, AgesBounded
  <2>5. \A s \in Runs : sync'[s].pc \in Writing => sync'[s] = sync[s] /\ lease' = lease
    BY <1>4, <2>2 DEF List, Writing
  <2> QED  BY <1>4, <2>3, <2>4, <2>5, NotWriting DEF List, SyncTypeOK
<1>5. ASSUME NEW r \in Runs, ListFails(r) \/ StopsAsBusy(r) \/ Finish(r) \/ WriteFails(r) PROVE SyncIInv'
  BY <1>5, EndingKeeps DEF ListFails, StopsAsBusy, Finish, WriteFails, EndRun, NoLease
<1>6. ASSUME NEW r \in Runs, RunDies(r) PROVE SyncIInv'
  <2>1. lease.running \in BOOLEAN /\ [lease EXCEPT !.owner = Crashed] = [owner |-> Crashed, running |-> lease.running]
    BY DEF SyncTypeOK
  <2> QED  BY <1>6, <2>1, EndingKeeps DEF RunDies
<1>7. ASSUME NEW r \in Runs, Recheck(r) PROVE SyncIInv'
  <2> USE <1>7 DEF Recheck, StillOurs
  <2>1. \A s \in Runs \ {r} : sync[s].pc \notin Writing
    BY DEF WriterOwns, Writing
  <2>2. /\ sync'[r].pc = "recording" /\ sync'[r].found = sync[r].found /\ sync'[r].todo = sync[r].found
        /\ sync'[r].age = sync[r].age /\ newest' = sync'[r].age
        /\ lease' = [owner |-> r, running |-> TRUE]
        /\ \A s \in Runs \ {r} : sync'[s] = sync[s]
    BY DEF SyncTypeOK, Runnings
  <2>3. SyncTypeOK'
    <3>1. [sync[r] EXCEPT !.pc = "recording", !.todo = sync[r].found] \in Runnings
      <4>1. sync[r] \in Runnings /\ sync[r].found \in SUBSET Devices
        BY DEF SyncTypeOK, Runnings
      <4>2. \A run \in Runnings, todo \in SUBSET Devices :
               [run EXCEPT !.pc = "recording", !.todo = todo] \in Runnings
        BY DEF Runnings, Writing
      <4> QED  BY <4>1, <4>2
    <3>2. sync' \in [Runs -> Runnings] /\ newest' \in Nat /\ lease' = [owner |-> r, running |-> TRUE]
      BY <2>2, <3>1 DEF SyncTypeOK, Runnings
    <3> QED  BY <3>2 DEF SyncTypeOK
  <2>4. WriterOwns'
    BY <2>1, <2>2 DEF WriterOwns
  <2>9. RecordedFirst'
    BY <2>1, <2>2 DEF RecordedFirst, Writing
  <2>5. OwnListIsNewest' /\ AgesBounded'
    BY <2>2 DEF SyncTypeOK, OwnListIsNewest, AgesBounded
  <2> QED  BY <2>3, <2>4, <2>5, <2>9
<1>8. ASSUME NEW r \in Runs, NEW d \in Devices, Upsert(r, d) PROVE SyncIInv'
  <2> USE <1>8 DEF Upsert
  <2>1. \A s \in Runs \ {r} : sync[s].pc \notin Writing
    BY OneWriter DEF Writing
  <2>2. newest' = newest /\ newest' = sync[r].age
    BY DEF WriterOwns, Writing
  <2>3. /\ sync'[r].pc = "recording" /\ sync'[r].found = sync[r].found /\ sync'[r].todo = sync[r].todo \ {d}
        /\ sync'[r].age = sync[r].age /\ \A s \in Runs \ {r} : sync'[s] = sync[s]
    BY DEF SyncTypeOK, Runnings
  <2>4. Active' = Active \cup {d}
    BY DEF SyncTypeOK, Active
  <2>5. SyncTypeOK'
    BY <2>2 DEF SyncTypeOK, Runnings
  <2>6. WriterOwns' /\ RecordedFirst'
    BY <2>1, <2>2, <2>3, <2>4 DEF WriterOwns, RecordedFirst, Writing
  <2>7. OwnListIsNewest' /\ AgesBounded'
    BY <2>2, <2>3 DEF SyncTypeOK, OwnListIsNewest, AgesBounded
  <2> QED  BY <2>5, <2>6, <2>7
<1>9. ASSUME NEW r \in Runs, Plan(r) PROVE SyncIInv'
  <2> USE <1>9 DEF Plan
  <2> DEFINE gone == PlanRetirements(sync[r].found)
  <2>1. gone \in SUBSET Active /\ Active \in SUBSET Devices /\ gone \cap sync[r].found = {}
    BY DEF PlanRetirements, Active
  <2>2. /\ sync'[r].pc = "retiring" /\ sync'[r].found = sync[r].found /\ sync'[r].age = sync[r].age
        /\ sync'[r].unkeyed = sync[r].unkeyed
        /\ \/ sync'[r].todo = {}
           \/ /\ sync'[r].todo = gone
              /\ ~RetirementSkipped(Syncable(sync[r]), Cardinality(Active), Cardinality(gone))
        /\ \A s \in Runs \ {r} : sync'[s] = sync[s]
    BY <2>1 DEF SyncTypeOK, Runnings
  <2>3. sync[r] \in Runnings /\ sync[r].found \subseteq Active
    BY DEF SyncTypeOK, RecordedFirst
  <2>4. sync'[r].todo # {} => sync'[r].found # {} \/ NoneUsable(sync'[r])
    BY <2>1, <2>2, <2>3, RetiringSawRows DEF NoneUsable
  <2>5. SyncTypeOK'
    <3>1. [sync[r] EXCEPT !.pc = "retiring", !.todo = {}] \in Runnings
          /\ [sync[r] EXCEPT !.pc = "retiring", !.todo = gone] \in Runnings
      BY <2>1 DEF SyncTypeOK, Runnings, Writing
    <3> QED  BY <3>1 DEF SyncTypeOK
  <2>6. \A s \in Runs \ {r} : sync[s].pc \notin Writing
    BY OneWriter DEF Writing
  <2>7. WriterOwns'
    BY <2>2, <2>6 DEF WriterOwns, Writing
  <2>8. RecordedFirst'
    <3>1. Active' = Active
      BY DEF Active
    <3>2. sync'[r].todo \cap sync'[r].found = {}
      BY <2>1, <2>2
    <3> QED  BY <2>2, <2>3, <2>4, <2>6, <3>1, <3>2 DEF RecordedFirst, Writing
  <2>9. OwnListIsNewest' /\ AgesBounded'
    BY <2>2 DEF SyncTypeOK, OwnListIsNewest, AgesBounded
  <2> QED  BY <2>5, <2>7, <2>8, <2>9
<1>10. ASSUME NEW r \in Runs, NEW d \in Devices, Retire(r, d) PROVE SyncIInv'
  <2> USE <1>10 DEF Retire
  <2>1. \A s \in Runs \ {r} : sync[s].pc \notin Writing
    BY OneWriter DEF Writing
  <2>2. newest' = newest /\ newest' = sync[r].age
    BY DEF WriterOwns, Writing
  <2>3. /\ sync'[r].pc = "retiring" /\ sync'[r].found = sync[r].found /\ sync'[r].todo = sync[r].todo \ {d}
        /\ sync'[r].unkeyed = sync[r].unkeyed /\ sync'[r].age = sync[r].age /\ \A s \in Runs \ {r} : sync'[s] = sync[s]
    BY DEF SyncTypeOK, Runnings
  <2>4. Active' = Active \ {d}
    BY DEF SyncTypeOK, Active
  <2>5. sync[r].found \subseteq Active' /\ (sync[r].found # {} \/ NoneUsable(sync'[r]))
    BY <2>3, <2>4 DEF RecordedFirst, NoneUsable
  <2>6. SyncTypeOK'
    BY <2>2 DEF SyncTypeOK, Runnings
  <2>7. WriterOwns' /\ RecordedFirst'
    <3>1. WriterOwns'
      BY <2>1, <2>2, <2>3 DEF WriterOwns, Writing
    <3>2. sync'[r].todo \cap sync'[r].found = {}
      BY <2>3 DEF RecordedFirst
    <3>3. \A s \in Runs \ {r} : sync'[s].pc \notin Writing
      BY <2>1, <2>3
    <3> QED  BY <2>3, <2>5, <3>1, <3>2, <3>3 DEF RecordedFirst, Writing
  <2>8. OwnListIsNewest' /\ AgesBounded'
    BY <2>2, <2>3 DEF SyncTypeOK, OwnListIsNewest, AgesBounded
  <2> QED  BY <2>6, <2>7, <2>8
<1>11. ASSUME NEW d \in Devices, TenantMoves(d) PROVE SyncIInv'
  <2>1. SyncTypeOK' /\ OwnListIsNewest' /\ AgesBounded' /\ moves' >= moves
    BY <1>11 DEF TenantMoves, SyncTypeOK, OwnListIsNewest, AgesBounded, Runnings
  <2> QED  BY <1>11, <2>1, NotWriting DEF TenantMoves
<1>12. CASE UNCHANGED syncVars
  BY <1>12, NotWriting DEF syncVars, SyncTypeOK, OwnListIsNewest, AgesBounded
<1> QED  BY <1>1, <1>2, <1>3, <1>4, <1>5, <1>6, <1>7, <1>8, <1>9, <1>10, <1>11, <1>12
         DEF SyncNext, RunStep

(* However runs overlap, stop and start, and whatever the tenant returns:  *)
(* a fleet is not retired as a whole, save one below the floor on the word *)
(* of a list whose rows have no usable id (applyDeviceSync).               *)
THEOREM FleetIsNotRetired == SyncSpec => FleetIsSpared
<1> DEFINE Spared ==
      /\ Active # {} /\ Active' = {} => \E r \in Runs : sync[r].pc = "retiring" /\ NoneUsable(sync[r])
      /\ \A r \in Runs : SetsOutForAll(r) => NoneUsable(sync[r]) /\ Cardinality(Active) < GuardFloor
<1>1. SyncIInv /\ [SyncNext]_syncVars => [Spared]_syncVars
  <2> SUFFICES ASSUME SyncIInv, SyncNext PROVE Spared
    BY DEF syncVars
  <2> USE DEF SyncIInv
  <2>1. ASSUME Active # {}, Active' = {} PROVE \E r \in Runs : sync[r].pc = "retiring" /\ NoneUsable(sync[r])
    <3>1. ASSUME NEW r \in Runs, NEW d \in Devices, Upsert(r, d) PROVE FALSE
      BY <2>1, <3>1 DEF Upsert, SyncTypeOK, Active
    <3>2. ASSUME NEW r \in Runs, NEW d \in Devices, Retire(r, d) PROVE sync[r].pc = "retiring" /\ NoneUsable(sync[r])
      <4>1. /\ sync[r].pc = "retiring" /\ sync[r].todo # {} /\ d \notin sync[r].found /\ sync[r].found \subseteq Active
            /\ Active' = Active \ {d}
        BY <3>2 DEF Retire, RecordedFirst, SyncTypeOK, Active
      <4> QED  BY <2>1, <4>1 DEF RecordedFirst
    <3>3. CASE UNCHANGED ci
      BY <2>1, <3>3 DEF Active
    <3> QED  BY <3>1, <3>2, <3>3 DEF SyncNext, RunStep, Claim, Heartbeat, LeaseExpires, List, ListFails, Recheck,
             StopsAsBusy, Plan, Finish, WriteFails, RunDies, TenantMoves
  <2>2. ASSUME NEW r \in Runs, SetsOutForAll(r) PROVE NoneUsable(sync[r]) /\ Cardinality(Active) < GuardFloor
    <3>1. \A s \in Runs : sync' = [sync EXCEPT ![s] = NotRunning] => sync'[r].pc = "idle" \/ sync'[r] = sync[r]
      BY DEF SyncTypeOK, NotRunning
    <3>2. Plan(r)
      <4>1. ASSUME NEW s \in Runs, Claim(s) \/ Heartbeat(s) \/ List(s) \/ Recheck(s) PROVE FALSE
        BY <2>2, <4>1 DEF Claim, Heartbeat, List, Recheck, SetsOutForAll, SyncTypeOK
      <4>2. ASSUME NEW s \in Runs, ListFails(s) \/ StopsAsBusy(s) \/ Finish(s) \/ WriteFails(s) \/ RunDies(s) PROVE FALSE
        BY <2>2, <3>1, <4>2 DEF ListFails, StopsAsBusy, Finish, WriteFails, RunDies, EndRun, SetsOutForAll
      <4>3. ASSUME NEW s \in Runs, NEW d \in Devices, Upsert(s, d) \/ Retire(s, d) PROVE FALSE
        BY <2>2, <4>3 DEF Upsert, Retire, SetsOutForAll, SyncTypeOK, Runnings
      <4>4. ASSUME NEW s \in Runs, s # r, Plan(s) PROVE FALSE
        BY <2>2, <4>4 DEF Plan, SetsOutForAll, SyncTypeOK
      <4>5. CASE UNCHANGED sync
        BY <2>2, <4>5 DEF SetsOutForAll
      <4> QED  BY <4>1, <4>2, <4>3, <4>4, <4>5 DEF SyncNext, RunStep, LeaseExpires, TenantMoves
    <3> DEFINE gone == PlanRetirements(sync[r].found)
    <3>3. /\ sync[r] \in Runnings /\ sync[r].found \subseteq Active /\ Active \in SUBSET Devices
          /\ gone \in SUBSET Active /\ gone \cap sync[r].found = {}
      BY <3>2 DEF Plan, SyncTypeOK, RecordedFirst, Active, PlanRetirements
    <3>4. \/ sync'[r].todo = {}
          \/ /\ sync'[r].todo = gone
             /\ ~RetirementSkipped(Syncable(sync[r]), Cardinality(Active), Cardinality(gone))
      BY <3>2, <3>3 DEF Plan, SyncTypeOK, Runnings
    <3>5. /\ gone = Active /\ gone # {} /\ sync[r].found = {}
          /\ ~RetirementSkipped(Syncable(sync[r]), Cardinality(Active), Cardinality(gone))
      BY <2>2, <3>3, <3>4 DEF SetsOutForAll
    <3> HIDE DEF gone
    <3> QED  BY <3>3, <3>5, RetiringSawRows
  <2> QED  BY <2>1, <2>2
<1>2. FleetIsSpared <=> [][Spared]_syncVars
  BY PTL DEF FleetIsSpared
<1> QED  BY <1>1, <1>2, SyncInitOK, SyncStep, PTL DEF SyncSpec

(* No list is written over a newer one (syncOne and its lease).            *)
THEOREM ListsInOrder == SyncSpec => NeverOlderList
<1>1. SyncIInv /\ [SyncNext]_syncVars => [newest' >= newest]_syncVars
  <2> SUFFICES ASSUME SyncIInv, SyncNext PROVE newest' >= newest
    BY DEF syncVars
  <2>1. newest \in Nat /\ (newest' = newest => newest' >= newest)
    BY DEF SyncIInv, SyncTypeOK
  <2>2. ASSUME NEW r \in Runs, Recheck(r) PROVE newest' >= newest
    BY <2>2 DEF Recheck, StillOurs, SyncIInv, SyncTypeOK, Runnings, OwnListIsNewest
  <2>3. ASSUME NEW r \in Runs, NEW d \in Devices, Upsert(r, d) \/ Retire(r, d) PROVE newest' = newest
    BY <2>3 DEF Upsert, Retire, SyncIInv, WriterOwns, Writing
  <2> QED  BY <2>1, <2>2, <2>3 DEF SyncNext, RunStep, Claim, Heartbeat, LeaseExpires, List, ListFails,
           StopsAsBusy, Plan, Finish, WriteFails, RunDies, TenantMoves
<1> QED  BY <1>1, SyncInitOK, SyncStep, PTL DEF SyncSpec, NeverOlderList

-----------------------------------------------------------------------------
(* SlaCalendar: the due time is exact.                                     *)

(* The hours of a day lie in it, and days follow one another.              *)
LEMMA HoursOfDay ==
  /\ TicksPerMinute \in Nat \ {0} /\ DayTicks \in Nat \ {0}
  /\ Opens * TicksPerMinute \in Nat /\ Closes * TicksPerMinute \in Nat
  /\ Opens * TicksPerMinute < Closes * TicksPerMinute /\ Closes * TicksPerMinute < DayTicks
<1> DEFINE T == TicksPerMinute
<1>1. T \in Nat \ {0} /\ DayMinutes \in Nat \ {0} /\ Opens \in Nat /\ Closes \in Nat /\ Opens < Closes /\ Closes < DayMinutes
  BY CalendarAssumption
<1>2. \A a, b \in Nat : a < b => a * T \in Nat /\ a * T < b * T
  BY <1>1
<1> QED  BY <1>1, <1>2 DEF DayTicks

LEMMA DayIs ==
  ASSUME NEW d \in Nat, NEW x \in Int, d * DayTicks <= x, x < d * DayTicks + DayTicks
  PROVE  Day(x) = d
<1>1. DayTicks \in Nat \ {0}
  BY HoursOfDay
<1> QED  BY <1>1 DEF Day

LEMMA DayBounds ==
  ASSUME NEW x \in Nat
  PROVE  Day(x) \in Nat /\ Day(x) * DayTicks \in Nat /\ Day(x) * DayTicks <= x /\ x < Day(x) * DayTicks + DayTicks
<1>1. DayTicks \in Nat \ {0}
  BY HoursOfDay
<1> QED  BY <1>1 DEF Day

LEMMA OpeningOfNext ==
  ASSUME NEW d \in Nat
  PROVE  /\ d * DayTicks \in Nat
         /\ Opening(d + 1) = d * DayTicks + DayTicks + Opens * TicksPerMinute
         /\ \E k \in Nat : Opening(d) = k * TicksPerMinute
         /\ \E k \in Nat : Closing(d) = k * TicksPerMinute
<1> DEFINE T == TicksPerMinute
<1>1. T \in Nat /\ DayMinutes \in Nat /\ Opens \in Nat /\ Closes \in Nat /\ DayTicks \in Nat
  BY CalendarAssumption DEF DayTicks
<1>2. (d + 1) * DayTicks = d * DayTicks + DayTicks /\ d * DayTicks \in Nat
  BY <1>1
<1>3. \A n \in Nat : d * DayTicks + n * T = (d * DayMinutes + n) * T /\ d * DayMinutes + n \in Nat
  BY <1>1 DEF DayTicks
<1> HIDE DEF T
<1> QED  BY <1>1, <1>2, <1>3 DEF Opening, Closing, T

-----------------------------------------------------------------------------
(* Business time adds up, and where a stretch has all or nothing of it, it *)
(* is as long as the stretch or none.                                      *)
LEMMA BusinessSplits ==
  ASSUME NEW a \in Nat, NEW b \in Nat, NEW c \in Nat, a <= b, b <= c
  PROVE  /\ BusinessTicks(a, b) \in Nat
         /\ BusinessTicks(a, c) = BusinessTicks(a, b) + BusinessTicks(b, c)
<1> DEFINE S == {x \in a .. b - 1 : IsBusiness(x)}
           R == {x \in b .. c - 1 : IsBusiness(x)}
           W == {x \in a .. c - 1 : IsBusiness(x)}
<1>1. IsFiniteSet(a .. b - 1) /\ IsFiniteSet(b .. c - 1)
  BY FS_Interval
<1>2. IsFiniteSet(S) /\ IsFiniteSet(R)
  BY <1>1, FS_Subset
<1>3. W = S \cup R /\ S \cap R = {}
  OBVIOUS
<1>4. Cardinality(S) \in Nat /\ Cardinality(R) \in Nat /\ Cardinality(S \cap R) = 0
  BY <1>2, <1>3, FS_CardinalityType, FS_EmptySet
<1>5. Cardinality(S \cup R) = Cardinality(S) + Cardinality(R) - Cardinality(S \cap R)
  BY <1>2, FS_Union
<1>6. Cardinality(W) = Cardinality(S) + Cardinality(R)
  <2> HIDE DEF S, R, W
  <2> QED  BY <1>3, <1>4, <1>5
<1> QED  BY <1>4, <1>6 DEF BusinessTicks

LEMMA AllBusiness ==
  ASSUME NEW a \in Nat, NEW b \in Nat, a <= b, \A x \in a .. b - 1 : IsBusiness(x)
  PROVE  BusinessTicks(a, b) = b - a
<1>1. {x \in a .. b - 1 : IsBusiness(x)} = a .. b - 1
  OBVIOUS
<1>2. b - 1 \in Int /\ (a > b - 1 => b - a = 0) /\ b - 1 - a + 1 = b - a
  OBVIOUS
<1>3. Cardinality(a .. b - 1) = IF a > b - 1 THEN 0 ELSE b - 1 - a + 1
  BY <1>2, FS_Interval
<1> QED  BY <1>1, <1>2, <1>3 DEF BusinessTicks

LEMMA NoBusiness ==
  ASSUME NEW a, NEW b, \A x \in a .. b - 1 : ~IsBusiness(x)
  PROVE  BusinessTicks(a, b) = 0
<1>1. {x \in a .. b - 1 : IsBusiness(x)} = {}
  OBVIOUS
<1> QED  BY <1>1, FS_EmptySet DEF BusinessTicks

-----------------------------------------------------------------------------
(* The walk: of the business time it has gone past, all is used but for    *)
(* less than a minute, and that can only have been lost before the cursor  *)
(* came to a whole minute; what is used up was used up at a moment of      *)
(* business.                                                               *)
CalendarTypeOK ==
  /\ coverage \in {"8x5", "24x7"} /\ start \in Nat /\ minutes \in Nat
  /\ cursor \in Nat /\ start <= cursor /\ remaining \in 0 .. minutes

Unused == BusinessTicks(start, cursor) - (minutes - remaining) * TicksPerMinute
OnTheMinute == \E k \in Nat : cursor = k * TicksPerMinute

WalkInv ==
  /\ CalendarTypeOK
  /\ Unused \in 0 .. TicksPerMinute - 1 /\ (Unused = 0 \/ OnTheMinute)
  /\ remaining = 0 /\ minutes > 0 => IsBusiness(cursor - 1)

LEMMA WalkInvInit == CalendarInit => WalkInv
<1> SUFFICES ASSUME CalendarInit PROVE WalkInv
  OBVIOUS
<1>1. CalendarTypeOK /\ TicksPerMinute \in Nat \ {0} /\ remaining = minutes /\ cursor = start
  BY CalendarAssumption DEF CalendarInit, CalendarTypeOK
<1>2. BusinessTicks(start, cursor) = 0
  BY <1>1, NoBusiness DEF CalendarTypeOK
<1>3. (minutes - remaining) * TicksPerMinute = 0
  BY <1>1 DEF CalendarTypeOK
<1>4. Unused = 0
  BY <1>2, <1>3 DEF Unused
<1> QED  BY <1>1, <1>4 DEF WalkInv, CalendarTypeOK

(* The hours of a calendar stay, and business time with them.              *)
LEMMA HoursStay ==
  ASSUME UNCHANGED <<coverage, holidays>>
  PROVE  /\ \A x : IsBusiness(x)' <=> IsBusiness(x)
         /\ \A a, b : BusinessTicks(a, b)' = BusinessTicks(a, b)
<1>1. \A x : IsBusiness(x)' <=> IsBusiness(x)
  BY DEF IsBusiness, IsFree
<1> QED  BY <1>1 DEF BusinessTicks

(* A stretch of the walk in business time or out of it.                    *)
LEMMA WalkPasses ==
  ASSUME WalkInv, UNCHANGED <<coverage, holidays, start, minutes>>,
         NEW b \in Nat, cursor <= b, cursor' = b, NEW used \in Nat, remaining' = remaining - used,
         NEW lost \in 0 .. TicksPerMinute - 1,
         BusinessTicks(cursor, b) = used * TicksPerMinute + lost,
         OnTheMinute => lost = 0,
         lost # 0 => OnTheMinute',
         remaining' \in Nat, OnTheMinute => OnTheMinute' \/ Unused = 0,
         remaining' = 0 /\ minutes > 0 => IsBusiness(b - 1)
  PROVE  WalkInv'
<1> DEFINE T == TicksPerMinute
           used0 == minutes - remaining
<1>1. CalendarTypeOK'
  BY DEF WalkInv, CalendarTypeOK
<1>2. BusinessTicks(start, cursor)' = BusinessTicks(start, cursor) + BusinessTicks(cursor, b)
  BY BusinessSplits, HoursStay DEF WalkInv, CalendarTypeOK
<1>3. (used0 + used) * T = used0 * T + used * T /\ minutes - remaining' = used0 + used /\ used0 \in Nat /\ T \in Nat
  BY HoursOfDay DEF WalkInv, CalendarTypeOK
<1>4. Unused' = Unused + lost
  <2>1. BusinessTicks(start, cursor) \in Nat
    BY BusinessSplits DEF WalkInv, CalendarTypeOK
  <2>2. used0 * T \in Nat /\ used * T \in Nat
    BY <1>3
  <2> QED  BY <1>2, <1>3, <2>1, <2>2 DEF Unused
<1>5. Unused' \in 0 .. T - 1 /\ (Unused' = 0 \/ OnTheMinute')
  BY <1>3, <1>4 DEF WalkInv
<1>6. IsBusiness(b - 1)' <=> IsBusiness(b - 1)
  BY HoursStay
<1> QED  BY <1>1, <1>5, <1>6 DEF WalkInv

(* The day of the cursor, and what of it and of the night is business.     *)
LEMMA DayOfCursor ==
  ASSUME CalendarTypeOK, coverage = "8x5", NEW d, d = Day(cursor)
  PROVE  /\ d \in Nat /\ Opening(d) \in Nat /\ Closing(d) \in Nat /\ Opening(d + 1) \in Nat
         /\ Opening(d) < Closing(d) /\ Closing(d) < Opening(d + 1) /\ cursor < Opening(d + 1)
         /\ \A x \in Nat : cursor <= x /\ x < Opening(d + 1) =>
              (IsBusiness(x) <=> ~IsFree(d) /\ Opening(d) <= x /\ x < Closing(d))
<1> DEFINE o == Opens * TicksPerMinute
           c == Closes * TicksPerMinute
           m == d * DayTicks
<1>1. o \in Nat /\ c \in Nat /\ o < c /\ c < DayTicks /\ DayTicks \in Nat
  BY HoursOfDay
<1>2. d \in Nat /\ m \in Nat /\ m <= cursor /\ cursor < m + DayTicks /\ cursor \in Nat
  BY DayBounds DEF CalendarTypeOK
<1>3. Opening(d) = m + o /\ Closing(d) = m + c /\ Opening(d + 1) = m + DayTicks + o
  BY <1>2, OpeningOfNext DEF Opening, Closing
<1>4. ASSUME NEW x \in Nat, cursor <= x, x < Opening(d + 1)
      PROVE  IsBusiness(x) <=> ~IsFree(d) /\ Opening(d) <= x /\ x < Closing(d)
  <2>1. CASE x < m + DayTicks
    <3>1. m <= x
      BY <1>1, <1>2, <1>4, <2>1
    <3>2. Day(x) = d
      BY <1>2, <2>1, <3>1, DayIs
    <3> QED  BY <3>2 DEF IsBusiness
  <2>2. CASE m + DayTicks <= x
    <3>1. (d + 1) * DayTicks = m + DayTicks
      BY <1>1, <1>2
    <3>2. x < m + DayTicks + DayTicks
      BY <1>1, <1>2, <1>3, <1>4
    <3>3. Day(x) = d + 1
      BY <1>2, <2>2, <3>1, <3>2, DayIs
    <3>4. x < Opening(Day(x)) /\ ~(x < Closing(d))
      BY <1>1, <1>2, <1>3, <1>4, <2>2, <3>3
    <3> QED  BY <3>3, <3>4, <1>1, <1>2, <1>3 DEF IsBusiness
  <2> QED  BY <1>1, <1>2, <2>1, <2>2
<1> HIDE DEF o, c, m
<1> QED  BY <1>1, <1>2, <1>3, <1>4

LEMMA AddMinutesKeeps == WalkInv /\ AddMinutes => WalkInv'
<1> SUFFICES ASSUME WalkInv, AddMinutes PROVE WalkInv'
  OBVIOUS
<1> DEFINE T == TicksPerMinute
           b == cursor + remaining * T
<1>1. T \in Nat \ {0} /\ CalendarTypeOK /\ remaining \in Nat /\ remaining > 0 /\ remaining * T \in Nat /\ remaining * T > 0
  BY HoursOfDay DEF WalkInv, CalendarTypeOK, AddMinutes
<1>2. b \in Nat /\ cursor <= b /\ b - cursor = remaining * T /\ cursor \in Nat
  BY <1>1 DEF CalendarTypeOK
<1>3. \A x : IsBusiness(x)
  BY DEF AddMinutes, IsBusiness
<1>4. BusinessTicks(cursor, b) = remaining * T + 0
  BY <1>1, <1>2, <1>3, AllBusiness
<1>5. OnTheMinute => OnTheMinute'
  <2> SUFFICES ASSUME NEW k \in Nat, cursor = k * T PROVE OnTheMinute'
    BY DEF OnTheMinute
  <2>1. b = (k + remaining) * T /\ k + remaining \in Nat
    BY <1>1
  <2> QED  BY <2>1 DEF OnTheMinute, AddMinutes
<1>6. remaining' = remaining - remaining /\ remaining' = 0 /\ cursor' = b /\ UNCHANGED <<coverage, holidays, start, minutes>>
  BY <1>1 DEF AddMinutes
<1>7. 0 \in 0 .. T - 1 /\ remaining' \in Nat /\ IsBusiness(b - 1)
  BY <1>1, <1>3, <1>6
<1> HIDE DEF b
<1> QED  BY <1>1, <1>2, <1>4, <1>5, <1>6, <1>7, WalkPasses

LEMMA PassOverKeeps == WalkInv /\ PassOver => WalkInv'
<1> SUFFICES ASSUME WalkInv, PassOver PROVE WalkInv'
  OBVIOUS
<1> DEFINE d == Day(cursor)
           b == IF IsFree(d) \/ cursor >= Closing(d) THEN Opening(d + 1) ELSE Opening(d)
<1>1. CalendarTypeOK /\ cursor \in Nat /\ remaining \in Nat /\ remaining > 0 /\ coverage = "8x5"
  BY DEF WalkInv, CalendarTypeOK, PassOver
<1>2. /\ d \in Nat /\ Opening(d) \in Nat /\ Closing(d) \in Nat /\ Opening(d + 1) \in Nat
      /\ Opening(d) < Closing(d) /\ Closing(d) < Opening(d + 1) /\ cursor < Opening(d + 1)
  BY <1>1, DayOfCursor
<1>3. b \in Nat /\ cursor <= b /\ cursor' = b
  BY <1>1, <1>2 DEF PassOver, NextOpening
<1>4. ASSUME NEW x \in cursor .. b - 1 PROVE ~IsBusiness(x)
  <2>1. x \in Nat /\ cursor <= x /\ x < b /\ x < Opening(d + 1)
    BY <1>1, <1>2, <1>3
  <2>2. IsBusiness(x) <=> ~IsFree(d) /\ Opening(d) <= x /\ x < Closing(d)
    BY <1>1, <2>1, DayOfCursor
  <2> QED  BY <1>1, <1>2, <2>1, <2>2
<1>5. BusinessTicks(cursor, b) = 0 * TicksPerMinute + 0
  BY <1>4, NoBusiness, HoursOfDay
<1>6. OnTheMinute'
  <2>1. \E k \in Nat : b = k * TicksPerMinute
    BY <1>2, OpeningOfNext
  <2> QED  BY <1>3, <2>1 DEF OnTheMinute
<1>7. remaining' = remaining - 0 /\ remaining' \in Nat /\ remaining' # 0 /\ UNCHANGED <<coverage, holidays, start, minutes>>
  BY <1>1 DEF PassOver
<1>8. 0 \in 0 .. TicksPerMinute - 1
  BY HoursOfDay
<1> HIDE DEF b, d
<1> QED  BY <1>3, <1>5, <1>6, <1>7, <1>8, WalkPasses

LEMMA MinOfTwo ==
  ASSUME NEW a \in Int, NEW b \in Int
  PROVE  Min({a, b}) = IF a <= b THEN a ELSE b
BY DEF Min

LEMMA DivMod ==
  ASSUME NEW a \in Nat, NEW t \in Nat \ {0}
  PROVE  a \div t \in Nat /\ a % t \in 0 .. t - 1 /\ a = (a \div t) * t + (a % t)
OBVIOUS

(* What the day has is what is left of it, in whole minutes.               *)
LEMMA RestOfDay ==
  ASSUME CalendarTypeOK, NEW d, d = Day(cursor), Opening(d) <= cursor, cursor < Closing(d)
  PROVE  /\ AvailableToday \in Nat
         /\ \E r \in 0 .. TicksPerMinute - 1 :
              /\ Closing(d) - cursor = AvailableToday * TicksPerMinute + r
              /\ OnTheMinute => r = 0
<1> DEFINE T == TicksPerMinute
           left == Closing(d) - cursor
           q == left \div T
           r == left % T
           hours == Closes - Opens
<1>1. /\ T \in Nat \ {0} /\ Opens \in Nat /\ Closes \in Nat /\ hours \in Nat /\ cursor \in Nat
      /\ d \in Nat /\ d * DayTicks \in Nat /\ Closes * T \in Nat /\ Opens * T \in Nat
  <2>1. T \in Nat \ {0} /\ Opens \in Nat /\ Closes \in Nat /\ hours \in Nat
    BY CalendarAssumption
  <2>2. cursor \in Nat /\ d \in Nat /\ d * DayTicks \in Nat
    BY DayBounds DEF CalendarTypeOK
  <2>3. Closes * T \in Nat /\ Opens * T \in Nat
    BY HoursOfDay
  <2> QED  BY <2>1, <2>2, <2>3
<1>2. left \in Nat /\ left <= Closes * T - Opens * T
  BY <1>1 DEF Opening, Closing
<1>3. q \in Nat /\ r \in 0 .. T - 1 /\ left = q * T + r
  <2> HIDE DEF left
  <2> QED  BY <1>1, <1>2, DivMod
<1>4. q <= hours
  <2>1. hours * T = Closes * T - Opens * T
    BY <1>1
  <2>2. q > hours => q * T >= hours * T + T
    <3> SUFFICES ASSUME q > hours PROVE q * T >= hours * T + T
      OBVIOUS
    <3>1. \E n \in Nat : q = hours + 1 + n
      <4>1. q - hours - 1 \in Nat /\ q = hours + 1 + (q - hours - 1)
        BY <1>1, <1>3
      <4> HIDE DEF q, hours
      <4> QED  BY <4>1
    <3>2. PICK n \in Nat : q = hours + 1 + n
      BY <3>1
    <3>3. (hours + 1 + n) * T = hours * T + T + n * T /\ n * T \in Nat /\ hours * T \in Nat
      BY <1>1
    <3> HIDE DEF q, hours
    <3> QED  BY <1>1, <3>2, <3>3
  <2>3. q * T \in Nat
    BY <1>1, <1>3
  <2> HIDE DEF q, left, hours, r
  <2> QED  BY <1>1, <1>2, <1>3, <2>1, <2>2, <2>3
<1>5. AvailableToday = q
  <2>1. Min({hours, q}) = q
    <3> HIDE DEF q, hours
    <3> QED  BY <1>1, <1>3, <1>4, MinOfTwo
  <2> QED  BY <2>1 DEF AvailableToday
<1>6. OnTheMinute => r = 0
  <2> SUFFICES ASSUME NEW k \in Nat, cursor = k * T PROVE r = 0
    BY DEF OnTheMinute
  <2>1. PICK j \in Nat : Closing(d) = j * T
    BY <1>1, OpeningOfNext
  <2>2. left = (j - k) * T /\ j - k \in Int
    BY <1>1, <2>1
  <2>3. r = (j - k - q) * T /\ j - k - q \in Int
    <3> HIDE DEF q, r, left
    <3>1. ((j - k) - q) * T = (j - k) * T - q * T /\ (j - k) * T \in Int /\ q * T \in Int
      BY <1>1, <1>3
    <3> QED  BY <1>1, <1>3, <2>2, <3>1
  <2>4. \A n \in Int : n > 0 => n * T >= T
    BY <1>1
  <2>5. \A n \in Int : n < 0 => n * T < 0
    BY <1>1
  <2> HIDE DEF r, q
  <2> QED  BY <1>1, <1>3, <2>3, <2>4, <2>5
<1> HIDE DEF q, r, left
<1> QED  BY <1>1, <1>3, <1>5, <1>6 DEF left

LEMMA UseDayKeeps == WalkInv /\ UseDay => WalkInv'
<1> SUFFICES ASSUME WalkInv, UseDay PROVE WalkInv'
  OBVIOUS
<1> DEFINE T == TicksPerMinute
           d == Day(cursor)
           q == AvailableToday
<1>1. /\ CalendarTypeOK /\ cursor \in Nat /\ remaining \in Nat /\ remaining > 0 /\ minutes \in Nat
      /\ coverage = "8x5" /\ T \in Nat \ {0}
  BY HoursOfDay DEF WalkInv, CalendarTypeOK, UseDay
<1>2. /\ d \in Nat /\ Opening(d) \in Nat /\ Closing(d) \in Nat /\ Opening(d + 1) \in Nat
      /\ Opening(d) <= cursor /\ cursor < Closing(d) /\ Closing(d) < Opening(d + 1) /\ ~IsFree(d)
  BY <1>1, DayOfCursor DEF UseDay
<1>3. PICK r \in 0 .. T - 1 : Closing(d) - cursor = q * T + r /\ (OnTheMinute => r = 0)
  BY <1>1, <1>2, RestOfDay
<1>4. q \in Nat /\ q * T \in Nat /\ r \in Nat
  <2>1. q \in Nat
    BY <1>1, <1>2, RestOfDay
  <2> QED  BY <1>1, <2>1
<1>5. ASSUME NEW x \in Nat, cursor <= x, x < Opening(d + 1) PROVE IsBusiness(x) <=> x < Closing(d)
  BY <1>1, <1>2, <1>5, DayOfCursor
<1>6. UNCHANGED <<coverage, holidays, start, minutes>>
  BY DEF UseDay
<1>7. Min({remaining, q}) = IF remaining <= q THEN remaining ELSE q
  <2> HIDE DEF q
  <2> QED  BY <1>1, <1>4, MinOfTwo
<1>8. CASE remaining <= q
  <2> DEFINE b == cursor + remaining * T
  <2>1. remaining' = remaining - remaining /\ remaining' = 0 /\ cursor' = b
    BY <1>1, <1>7, <1>8 DEF UseDay
  <2>2. remaining * T \in Nat /\ remaining * T > 0 /\ remaining * T <= q * T
    <3> HIDE DEF q
    <3> QED  BY <1>1, <1>4, <1>8
  <2>3. b \in Nat /\ cursor <= b /\ b - cursor = remaining * T /\ b - 1 \in Nat /\ cursor <= b - 1 /\ b <= Closing(d)
    <3> HIDE DEF q, d
    <3> QED  BY <1>1, <1>2, <1>3, <1>4, <2>2
  <2>4. ASSUME NEW x \in cursor .. b - 1 PROVE IsBusiness(x)
    <3>1. x \in Nat /\ cursor <= x /\ x < Closing(d) /\ x < Opening(d + 1)
      BY <1>1, <1>2, <2>3
    <3> QED  BY <1>5, <3>1
  <2>5. BusinessTicks(cursor, b) = remaining * T + 0
    BY <1>1, <2>2, <2>3, <2>4, AllBusiness
  <2>6. IsBusiness(b - 1)
    BY <1>1, <2>3, <2>4
  <2>7. OnTheMinute => OnTheMinute'
    <3> SUFFICES ASSUME NEW k \in Nat, cursor = k * T PROVE OnTheMinute'
      BY DEF OnTheMinute
    <3>1. b = (k + remaining) * T /\ k + remaining \in Nat
      BY <1>1
    <3> QED  BY <2>1, <3>1 DEF OnTheMinute
  <2>8. 0 \in 0 .. T - 1 /\ remaining' \in Nat
    BY <1>1, <2>1
  <2> HIDE DEF b
  <2> QED  BY <1>1, <1>6, <2>1, <2>3, <2>5, <2>6, <2>7, <2>8, WalkPasses
<1>9. CASE remaining > q
  <2> DEFINE b == Opening(d + 1)
             c == Closing(d)
  <2>1. remaining' = remaining - q /\ remaining' \in Nat /\ remaining' # 0 /\ cursor' = b
    <3>1. Min({remaining, q}) = q /\ remaining - q > 0
      <4> HIDE DEF q
      <4> QED  BY <1>1, <1>4, <1>7, <1>9
    <3>2. remaining' = remaining - q
      BY <3>1 DEF UseDay
    <3>3. cursor' = b
      BY <3>1, <3>2 DEF UseDay, NextOpening
    <3> HIDE DEF q
    <3> QED  BY <1>1, <1>4, <3>1, <3>2, <3>3
  <2>2. BusinessTicks(cursor, c) = c - cursor
    <3>1. \A x \in cursor .. c - 1 : x \in Nat /\ cursor <= x /\ x < c /\ x < b
      BY <1>1, <1>2
    <3> QED  BY <1>1, <1>2, <1>5, <3>1, AllBusiness
  <2>3. BusinessTicks(c, b) = 0
    <3>1. \A x \in c .. b - 1 : x \in Nat /\ cursor <= x /\ ~(x < c) /\ x < b
      BY <1>1, <1>2
    <3> QED  BY <1>5, <3>1, NoBusiness
  <2>4. BusinessTicks(cursor, b) = BusinessTicks(cursor, c) + BusinessTicks(c, b)
    BY <1>1, <1>2, BusinessSplits
  <2>5. BusinessTicks(cursor, b) = q * T + r
    <3> HIDE DEF q, b, c
    <3> QED  BY <1>1, <1>2, <1>3, <1>4, <2>2, <2>3, <2>4 DEF b, c
  <2>6. OnTheMinute'
    <3>1. \E k \in Nat : b = k * TicksPerMinute
      BY <1>2, OpeningOfNext
    <3> QED  BY <2>1, <3>1 DEF OnTheMinute
  <2>7. b \in Nat /\ cursor <= b
    BY <1>1, <1>2
  <2> HIDE DEF b, c, d, q
  <2> QED  BY <1>3, <1>4, <1>6, <2>1, <2>5, <2>6, <2>7, WalkPasses
<1> HIDE DEF q
<1> QED  BY <1>1, <1>4, <1>8, <1>9

LEMMA WalkInvStep == WalkInv /\ [CalendarNext]_calendarVars => WalkInv'
<1>1. WalkInv /\ UNCHANGED calendarVars => WalkInv'
  BY DEF calendarVars, WalkInv, CalendarTypeOK, Unused, OnTheMinute, BusinessTicks, IsBusiness, IsFree
<1> QED  BY <1>1, AddMinutesKeeps, PassOverKeeps, UseDayKeeps DEF CalendarNext

(* The due time of a clock that has been found is the one promised, for   *)
(* every calendar, start and target (addBusinessMinutes): a walk that has  *)
(* used its minutes has gone past that much business time, less than a     *)
(* minute more, and ends at a moment of business.                          *)
THEOREM DueIsExact == CalendarSpec => [](remaining = 0 => Due)
<1>1. WalkInv => (remaining = 0 => Due)
  <2> SUFFICES ASSUME WalkInv, remaining = 0 PROVE Due
    OBVIOUS
  <2>1. Unused = BusinessTicks(start, cursor) - minutes * TicksPerMinute
    BY DEF WalkInv, CalendarTypeOK, Unused
  <2> QED  BY <2>1 DEF WalkInv, Due
<1> QED  BY <1>1, WalkInvInit, WalkInvStep, PTL DEF CalendarSpec

-----------------------------------------------------------------------------
(* Identity: staff who are in have their identity on the staff row.        *)
EntryPcs == {"idle", "reading", "found", "twin", "released", "written", "in"}
EntryRecords == [pc : EntryPcs, kind : {"none", "sign-in", "create"}, found : BOOLEAN, linked : BOOLEAN,
                 twin : {"none", "own", "unlinked"}]

IdentityTypeOK ==
  /\ staff \in [there : BOOLEAN, oid : {"none", "own"}]
  /\ customer \in [at : {"none", "home", "away"}, oid : {"none", "own"}]
  /\ entry \in [StaffCalls -> EntryRecords]
  /\ \A c \in StaffCalls : entry[c].pc # "idle" => entry[c].kind # "none"

(* An identity is on one row at most.                                      *)
OnOneRow == staff.oid = "own" => customer.oid = "none"

(* A call that has written the staff row is alone in that; a sign-in has   *)
(* put its identity there, and then the customer row is free of it or      *)
(* will be at the same COMMIT.                                             *)
OneWrites == \A c, d \in StaffCalls : HoldsStaff(c) /\ HoldsStaff(d) => c = d

WrittenIsFree ==
  \A c \in StaffCalls : HoldsStaff(c) =>
    /\ entry[c].kind = "sign-in" => entry[c].linked
    /\ entry[c].linked /\ entry[c].twin = "none" => customer.oid = "none"

IdentityIInv == IdentityTypeOK /\ OnOneRow /\ OneWrites /\ WrittenIsFree /\ WhoIsInIsLinked

LEMMA IdentityInitOK == IdentityInit => IdentityIInv
BY DEF IdentityInit, IdentityIInv, IdentityTypeOK, OnOneRow, OneWrites, WrittenIsFree, WhoIsInIsLinked, HoldsStaff,
       NoEntry, EntryRecords, EntryPcs

(* A call that moves on without a row being written.                       *)
LEMMA EntryMoves ==
  ASSUME IdentityIInv, NEW c \in StaffCalls, NEW to \in EntryRecords, Entering(c, to), UNCHANGED rowVars,
         to.pc # "idle" => to.kind # "none",
         to.pc = "written" =>
           /\ \A d \in StaffCalls : ~HoldsStaff(d)
           /\ to.kind = "sign-in" => to.linked
           /\ to.linked /\ to.twin = "none" => customer.oid = "none",
         to.pc = "in" => staff.oid = "own"
  PROVE  IdentityIInv'
<1>1. \A d \in StaffCalls : entry'[d] = IF d = c THEN to ELSE entry[d]
  BY DEF Entering, IdentityIInv, IdentityTypeOK
<1>2. IdentityTypeOK'
  BY <1>1 DEF Entering, rowVars, IdentityIInv, IdentityTypeOK
<1> QED  BY <1>1, <1>2 DEF IdentityIInv, rowVars, OnOneRow, OneWrites, WrittenIsFree, WhoIsInIsLinked, HoldsStaff

(* A customer sign-in or an import that writes its row, which waits for    *)
(* whoever holds one.                                                      *)
LEMMA CustomerMoves ==
  ASSUME IdentityIInv, RowsFree, Link \/ Insert, UNCHANGED <<staff, entry>>
  PROVE  IdentityIInv'
BY DEF RowsFree, Link, Insert, Unowned, IdentityIInv, IdentityTypeOK, OnOneRow, OneWrites, WrittenIsFree, WhoIsInIsLinked,
       HoldsStaff

LEMMA IdentityStep == IdentityIInv /\ [IdentityNext]_identityVars => IdentityIInv'
<1> SUFFICES ASSUME IdentityIInv, [IdentityNext]_identityVars PROVE IdentityIInv'
  OBVIOUS
<1> USE DEF EntryRecords, EntryPcs
<1>1. entry \in [StaffCalls -> EntryRecords] /\ NoEntry \in EntryRecords
  BY DEF IdentityIInv, IdentityTypeOK, NoEntry
<1>2. ASSUME UNCHANGED <<rowVars, entry>> PROVE IdentityIInv'
  BY <1>2 DEF rowVars, IdentityIInv, IdentityTypeOK, OnOneRow, OneWrites, WrittenIsFree, WhoIsInIsLinked, HoldsStaff
<1>3. ASSUME NEW c \in StaffCalls, BeginEntry(c) \/ EntryFails(c) PROVE IdentityIInv'
  <2>1. PICK kind \in {"sign-in", "create"} : Entering(c, [NoEntry EXCEPT !.pc = "reading", !.kind = kind])
    BY <1>1, <1>3 DEF BeginEntry, EntryFails, IdentityIInv, IdentityTypeOK
  <2> DEFINE to == [NoEntry EXCEPT !.pc = "reading", !.kind = kind]
  <2>2. to \in EntryRecords /\ to.pc = "reading" /\ to.kind # "none"
    BY DEF NoEntry
  <2>3. UNCHANGED rowVars
    BY <1>3 DEF BeginEntry, EntryFails
  <2> HIDE DEF to
  <2> QED  BY <2>1, <2>2, <2>3, EntryMoves DEF to
<1>4. ASSUME NEW c \in StaffCalls, FindStaff(c) PROVE IdentityIInv'
  <2> DEFINE to == CASE entry[c].kind = "create" /\ staff.there -> NoEntry
                     [] entry[c].kind = "sign-in" /\ staff.oid = "own" -> [entry[c] EXCEPT !.pc = "in"]
                     [] OTHER -> [entry[c] EXCEPT !.pc = "found", !.found = staff.there]
  <2>1. Entering(c, to) /\ UNCHANGED rowVars
    BY <1>4 DEF FindStaff
  <2>2. to \in EntryRecords /\ to.pc # "written" /\ (to.pc = "in" => staff.oid = "own") /\ (to.pc # "idle" => to.kind # "none")
    BY <1>1, <1>4 DEF IdentityIInv, IdentityTypeOK, NoEntry, FindStaff
  <2> HIDE DEF to
  <2> QED  BY <2>1, <2>2, EntryMoves
<1>5. ASSUME NEW c \in StaffCalls, ReadTwin(c) PROVE IdentityIInv'
  <2> DEFINE to == [entry[c] EXCEPT !.pc = "twin", !.twin = TwinOf(entry[c].kind)]
  <2>1. Entering(c, to) /\ UNCHANGED rowVars
    BY <1>5 DEF ReadTwin
  <2>2. to \in EntryRecords /\ to.pc = "twin" /\ to.kind # "none"
    BY <1>1, <1>5 DEF TwinOf, ReadTwin, IdentityIInv, IdentityTypeOK
  <2> HIDE DEF to
  <2> QED  BY <2>1, <2>2, EntryMoves
<1>6. ASSUME NEW c \in StaffCalls, ReleaseTwin(c) PROVE IdentityIInv'
  <2> DEFINE to == [entry[c] EXCEPT !.pc = "released"]
  <2>1. Entering(c, to) /\ UNCHANGED rowVars
    BY <1>6 DEF ReleaseTwin
  <2>2. to \in EntryRecords /\ to.pc = "released" /\ to.kind # "none"
    BY <1>1, <1>6 DEF ReleaseTwin, IdentityIInv, IdentityTypeOK
  <2> HIDE DEF to
  <2> QED  BY <2>1, <2>2, EntryMoves
<1>7. ASSUME NEW c \in StaffCalls, WriteStaff(c) PROVE IdentityIInv'
  <2> DEFINE to == IF SecondRow(c) THEN [NoEntry EXCEPT !.pc = "reading", !.kind = entry[c].kind]
                   ELSE [entry[c] EXCEPT !.pc = "written", !.linked = Linked(c)]
  <2>1. Entering(c, to) /\ UNCHANGED rowVars /\ \A d \in StaffCalls : ~HoldsStaff(d)
    BY <1>7 DEF WriteStaff
  <2>2. Linked(c) \in BOOLEAN
    BY DEF Linked
  <2>3. to \in EntryRecords /\ to.pc \in {"reading", "written"} /\ to.kind # "none"
    BY <1>1, <1>7, <2>2 DEF NoEntry, WriteStaff, IdentityIInv, IdentityTypeOK
  <2>4. to.pc = "written" => ~SecondRow(c) /\ to.linked = Linked(c) /\ to.kind = entry[c].kind /\ to.twin = entry[c].twin
    BY <1>1 DEF NoEntry
  <2>5. ~SecondRow(c) /\ Linked(c) /\ entry[c].twin = "none" => customer.oid = "none"
    BY DEF SecondRow, IdentityIInv, IdentityTypeOK, OnOneRow
  <2>6. entry[c].kind = "sign-in" => Linked(c)
    BY DEF Linked
  <2> HIDE DEF to
  <2> QED  BY <2>1, <2>3, <2>4, <2>5, <2>6, EntryMoves
<1>8. ASSUME NEW c \in StaffCalls, CommitStaff(c) PROVE IdentityIInv'
  <2> DEFINE to == IF entry[c].kind = "create" THEN NoEntry ELSE [entry[c] EXCEPT !.pc = "in"]
  <2>1. /\ to \in EntryRecords /\ to.pc \in {"idle", "in"} /\ HoldsStaff(c)
        /\ \A d \in StaffCalls : entry'[d] = IF d = c THEN to ELSE entry[d]
    BY <1>1, <1>8 DEF CommitStaff, NoEntry, Entering, HoldsStaff
  <2>2. /\ to.pc = "in" => entry[c].linked /\ to.kind # "none"
        /\ entry[c].linked /\ entry[c].twin = "none" => customer.oid = "none"
    BY <1>1, <2>1 DEF HoldsStaff, NoEntry, IdentityIInv, IdentityTypeOK, WrittenIsFree
  <2>3. /\ staff' = [there |-> TRUE, oid |-> IF entry[c].linked THEN "own" ELSE staff.oid]
        /\ customer' = IF entry[c].twin = "none" THEN customer ELSE [customer EXCEPT !.oid = "none"]
        /\ entry' = [entry EXCEPT ![c] = to]
    BY <1>8 DEF CommitStaff, Entering
  <2>4. /\ staff'.oid = (IF entry[c].linked THEN "own" ELSE staff.oid)
        /\ customer'.oid = (IF entry[c].twin = "none" THEN customer.oid ELSE "none")
        /\ staff' \in [there : BOOLEAN, oid : {"none", "own"}]
        /\ customer' \in [at : {"none", "home", "away"}, oid : {"none", "own"}]
    BY <2>3 DEF IdentityIInv, IdentityTypeOK
  <2> HIDE DEF to
  <2>5. IdentityTypeOK' /\ \A d \in StaffCalls : ~HoldsStaff(d)'
    BY <2>1, <2>2, <2>3, <2>4 DEF IdentityIInv, IdentityTypeOK, OneWrites, HoldsStaff
  <2>6. OnOneRow' /\ WhoIsInIsLinked'
    BY <2>1, <2>2, <2>4 DEF IdentityIInv, IdentityTypeOK, OnOneRow, WhoIsInIsLinked
  <2> QED  BY <2>5, <2>6 DEF IdentityIInv, OneWrites, WrittenIsFree
<1>9. ASSUME NEW g \in GuestCalls, GuestWrites(g) PROVE IdentityIInv'
  BY <1>9, CustomerMoves DEF GuestWrites
<1>10. ASSUME NEW i \in Imports, ImportWrites(i) PROVE IdentityIInv'
  BY <1>10, CustomerMoves DEF ImportWrites
<1> QED  BY <1>2, <1>3, <1>4, <1>5, <1>6, <1>7, <1>8, <1>9, <1>10
         DEF IdentityNext, identityVars, EntryStep, ImportStep, BeginGuest, GuestFails, BeginImport, ImportLookup, ImportCollides

(* Whoever of the staff is in, has the identity on the staff row, and no   *)
(* import or customer sign-in has or takes it (loginOrProvisionAgentOidc,  *)
(* releaseCustomerTwin, applyUserSync).                                    *)
THEOREM StaffAreLinked == IdentitySpec => []WhoIsInIsLinked
<1>1. IdentityIInv => WhoIsInIsLinked
  BY DEF IdentityIInv
<1> QED  BY <1>1, IdentityInitOK, IdentityStep, PTL DEF IdentitySpec

-----------------------------------------------------------------------------
(* The parts together: a step of one is a step of it or leaves it alone.   *)

LEMMA StepsOfParts ==
  [PlatformNext]_platformVars =>
    [AuditNext]_auditVars /\ [SyncNext]_syncVars /\ [CalendarNext]_calendarVars /\ [IdentityNext]_identityVars
BY DEF PlatformNext, ServiceNext, platformVars, serviceVars

LEMMA PartsBehave == PlatformSpec => AuditSpec /\ SyncSpec /\ CalendarSpec /\ IdentitySpec
<1>1. PlatformInit => AuditInit /\ SyncInit /\ CalendarInit /\ IdentityInit
  BY DEF PlatformInit
<1> QED  BY <1>1, StepsOfParts, PTL DEF PlatformSpec, AuditSpec, SyncSpec, CalendarSpec, IdentitySpec

(* What the parts keep they keep in the platform.                          *)
THEOREM PlatformIsSound ==
  PlatformSpec => /\ [](ChainNeverForks /\ WhoIsInIsLinked /\ (remaining = 0 => Due))
                  /\ FleetIsSpared /\ NeverOlderList
<1>1. PlatformSpec => []ChainNeverForks
  BY PartsBehave, AuditChain
<1>2. PlatformSpec => FleetIsSpared /\ NeverOlderList
  BY PartsBehave, FleetIsNotRetired, ListsInOrder
<1>3. PlatformSpec => [](remaining = 0 => Due)
  BY PartsBehave, DueIsExact
<1>4. PlatformSpec => []WhoIsInIsLinked
  BY PartsBehave, StaffAreLinked
<1> QED  BY <1>1, <1>2, <1>3, <1>4, PTL
=============================================================================

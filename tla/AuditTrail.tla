----------------------------- MODULE AuditTrail -----------------------------
(***************************************************************************)
(* The hash-chained audit trail (modules/audit.ts) and the admin pool its  *)
(* connections come from (db/pool.ts).  A handler calls audit() once; a    *)
(* Nested one (requestElevation, approveElevation) calls it while it holds *)
(* an admin connection of its own; a dispatcher of webhooks                *)
(* (modules/webhooks.ts) holds one while it posts an event, again and      *)
(* again, to a slow endpoint.  A row's hash is the row: it is made of its  *)
(* writer's payload and of the hash before it.                             *)
(***************************************************************************)
EXTENDS Naturals, Sequences, FiniteSets, Functions

CONSTANTS Handlers,     \* calls in flight
          Nested,       \* those that call audit inside withSystemContext
          Dispatchers,  \* those that post an event to an endpoint instead
          AdminMax,     \* connections of the admin pool
          MaxAttempts   \* posts of one event

NoHash == "none"
Nobody == "nobody"

ASSUME AuditAssumption ==
  /\ IsFiniteSet(Handlers) /\ Nested \subseteq Handlers /\ Nobody \notin Handlers
  /\ Dispatchers \subseteq Handlers \ Nested
  /\ AdminMax \in Nat /\ Cardinality(Nested) < AdminMax
  /\ MaxAttempts \in Nat \ {0}

VARIABLES at,          \* where each handler is
          held,        \* admin connections each one holds
          waiting,     \* the pool's queue: served first come, first served
          chainLock,   \* who holds the advisory lock of the chain
          last,        \* the hash each handler read as the last one
          log,         \* the committed rows of audit_logs: [by, prev]
          posts,       \* how often each dispatcher has posted its event
          delivery     \* its webhook_deliveries row

chainVars == <<chainLock, last, log>>
webhookVars == <<posts, delivery>>
auditVars == <<at, held, waiting, chainVars, webhookVars>>

Ended == {"done", "failed"}

AuditInit ==
  /\ at = [h \in Handlers |-> "idle"] /\ held = [h \in Handlers |-> 0]
  /\ waiting = <<>> /\ chainLock = Nobody
  /\ last = [h \in Handlers |-> NoHash] /\ log = <<>>
  /\ posts = [d \in Dispatchers |-> 0] /\ delivery = [d \in Dispatchers |-> "none"]

LastHash == IF log = <<>> THEN NoHash ELSE log[Len(log)].by

GoTo(h, place) == at' = [at EXCEPT ![h] = place]

(* pool.connect(): the handler queues; it goes on when it is served.       *)
Connect(h, place) ==
  /\ GoTo(h, place)
  /\ waiting' = Append(waiting, h)

HandlerStarts(h) ==
  /\ at[h] = "idle"
  /\ Connect(h, IF h \in Nested \cup Dispatchers THEN "outerWait" ELSE "auditWait")
  /\ UNCHANGED <<held, chainVars, webhookVars>>

FreeConnections == AdminMax - FoldFunction(+, 0, held)

PoolServes ==
  /\ waiting # <<>> /\ FreeConnections > 0
  /\ LET h == Head(waiting) IN
       /\ held' = [held EXCEPT ![h] = @ + 1]
       /\ GoTo(h, IF at[h] = "outerWait" THEN "outer" ELSE "open")
  /\ waiting' = Tail(waiting)
  /\ UNCHANGED <<chainVars, webhookVars>>

(* The handler's own statements are done and it calls audit().             *)
CallAudit(h) ==
  /\ at[h] = "outer" /\ h \in Nested
  /\ Connect(h, "auditWait")
  /\ UNCHANGED <<held, chainVars, webhookVars>>

(* Mutant of LockChain: no BEGIN, the lock is gone when its statement ends. *)
LockChainForStatement(h) ==
  /\ at[h] = "open" /\ chainLock = Nobody
  /\ GoTo(h, "locked")
  /\ UNCHANGED <<held, waiting, chainVars, webhookVars>>

(* BEGIN and pg_advisory_xact_lock: held until COMMIT or ROLLBACK.         *)
LockChain(h) ==
  /\ at[h] = "open" /\ chainLock = Nobody
  /\ chainLock' = h /\ GoTo(h, "locked")
  /\ UNCHANGED <<held, waiting, last, log, webhookVars>>

ReadLast(h) ==
  /\ at[h] = "locked"
  /\ last' = [last EXCEPT ![h] = LastHash]
  /\ GoTo(h, "read")
  /\ UNCHANGED <<held, waiting, chainLock, log, webhookVars>>

(* The row is in the table, and nobody sees it before the commit.          *)
InsertRow(h) ==
  /\ at[h] = "read"
  /\ GoTo(h, "inserted")
  /\ UNCHANGED <<held, waiting, chainVars, webhookVars>>

Unlocked(h) == IF chainLock = h THEN Nobody ELSE chainLock

CommitRow(h) ==
  /\ at[h] = "inserted"
  /\ log' = Append(log, [by |-> h, prev |-> last[h]])
  /\ chainLock' = Unlocked(h)
  /\ held' = [held EXCEPT ![h] = @ - 1]
  /\ GoTo(h, IF h \in Nested THEN "closing" ELSE "done")
  /\ UNCHANGED <<waiting, last, webhookVars>>

(* Mutant of AuditFails: a failure keeps its connection. *)
AuditFailsAndKeeps(h) ==
  /\ at[h] \in {"outer", "open", "locked", "read", "inserted", "accepted", "refused"}
  /\ chainLock' = Unlocked(h)
  /\ GoTo(h, "failed")
  /\ UNCHANGED <<held, waiting, last, log, webhookVars>>

(* A statement fails: ROLLBACK, and `finally' releases the connection; the *)
(* error passes through the nested handler, which releases its own.        *)
AuditFails(h) ==
  /\ at[h] \in {"outer", "open", "locked", "read", "inserted", "accepted", "refused"}
  /\ chainLock' = Unlocked(h)
  /\ held' = [held EXCEPT ![h] = 0]
  /\ GoTo(h, "failed")
  /\ UNCHANGED <<waiting, last, log, webhookVars>>

(* dispatch: a delivery is recorded as pending, if any endpoint listens, ... *)
RecordDelivery(d) ==
  /\ at[d] = "outer" /\ d \in Dispatchers
  /\ \/ GoTo(d, "posting") /\ delivery' = [delivery EXCEPT ![d] = "pending"]
     \/ GoTo(d, "closing") /\ UNCHANGED delivery
  /\ UNCHANGED <<held, waiting, chainVars, posts>>

(* ... posted until the endpoint accepts it or the attempts are used up; a *)
(* post that gets no answer is given up in time, and counts; ...           *)
Post(d) ==
  /\ at[d] = "posting"
  /\ posts' = [posts EXCEPT ![d] = @ + 1]
  /\ \/ GoTo(d, "accepted")
     \/ GoTo(d, IF posts'[d] < MaxAttempts THEN "posting" ELSE "refused")
  /\ UNCHANGED <<held, waiting, chainVars, delivery>>

(* ... and the outcome is recorded.                                        *)
RecordResult(d) ==
  /\ at[d] \in {"accepted", "refused"}
  /\ delivery' = [delivery EXCEPT ![d] = IF at[d] = "accepted" THEN "delivered" ELSE "failed"]
  /\ GoTo(d, "closing")
  /\ UNCHANGED <<held, waiting, chainVars, posts>>

(* The outer callback returns, and gives its connection back.              *)
Close(h) ==
  /\ at[h] = "closing"
  /\ held' = [held EXCEPT ![h] = @ - 1]
  /\ GoTo(h, "done")
  /\ UNCHANGED <<waiting, chainVars, webhookVars>>

HandlerStep(h) ==
  \/ CallAudit(h) \/ LockChain(h) \/ ReadLast(h) \/ InsertRow(h) \/ CommitRow(h)
  \/ RecordDelivery(h) \/ Post(h) \/ RecordResult(h) \/ Close(h)

AuditNext == PoolServes \/ \E h \in Handlers : HandlerStarts(h) \/ HandlerStep(h) \/ AuditFails(h)

(* The database answers every statement, and the pool serves its queue.    *)
AuditFairness ==
  /\ WF_auditVars(PoolServes)
  /\ \A h \in Handlers : WF_auditVars(HandlerStep(h))

AuditSpec == AuditInit /\ [][AuditNext]_auditVars /\ AuditFairness

-----------------------------------------------------------------------------
(* verifyChain: every row continues the one before it.                     *)
VerifyChain(rows) ==
  \A i \in DOMAIN rows : rows[i].prev = IF i = 1 THEN NoHash ELSE rows[i - 1].by

(* The chain never forks, however many handlers append at once and         *)
(* whichever of them fail half way: verifyChain accepts the trail at every *)
(* moment (audit.ts, "concurrent writers read the same prev_hash and FORK  *)
(* the chain").                                                            *)
ChainNeverForks == VerifyChain(log)

(* A handler that calls audit() always returns: the pool is neither        *)
(* drained by failures, nor held for ever by dispatchers whose endpoints   *)
(* never answer, nor by handlers that wait for one another, while fewer of *)
(* them nest than it has connections.  (Each handler calls once, so that   *)
(* in the end nobody is left under way.)                                   *)
AuditReturns == <>[](\A h \in Handlers : at[h] \in {"idle"} \cup Ended)
=============================================================================

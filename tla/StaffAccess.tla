---------------------------- MODULE StaffAccess -----------------------------
(***************************************************************************)
(* The administration of staff accounts (modules/platform-users.ts): what  *)
(* a member of staff may do is the set of rows that role_assignments has   *)
(* for the account, and a change of access rewrites them all.  Every       *)
(* operation is a READ COMMITTED transaction that loads its target without *)
(* a lock; its writes are seen when it commits.  A row is its role: the    *)
(* organizations it holds for are left out.                                *)
(***************************************************************************)
CONSTANTS Staff,       \* accounts
          Bystanders,  \* active SuperAdmins whom no operation is about
          Admins,      \* operations that may overlap
          Roles, Super

ASSUME StaffAssumption == Super \in Roles

Operations == {"access", "suspend", "activate", "delete"}

VARIABLES account,   \* each account: none, active, suspended, deleted (a tombstone), gone
          named,     \* whether the account still has its email and its sign-in
          grants,    \* its rows of role_assignments
          op         \* each operation: [pc, kind, of, access, cleared, hard]

staffVars == <<account, named, grants, op>>

NoOp == [pc |-> "idle", kind |-> "none", of |-> "none", access |-> {}, cleared |-> {}, hard |-> FALSE]

Live == {s \in Staff : account[s] \in {"active", "suspended"}}
IsSuper(s) == Super \in grants[s]

(* What the dialog may send: a role at least, at an organization at least  *)
(* (assertValidScope), and the role SuperAdmin from a SuperAdmin only.     *)
Accesses(superAdmin) == (SUBSET (IF superAdmin THEN Roles ELSE Roles \ {Super})) \ {{}}

StaffInit ==
  /\ account \in [Staff -> {"none", "active"}]
  /\ named = [s \in Staff |-> TRUE]
  /\ grants = [s \in Staff |-> IF account[s] = "active" THEN {Super} ELSE {}]
  /\ op = [a \in Admins |-> NoOp]

-----------------------------------------------------------------------------
(* createPlatformUser: the account and its access commit together.         *)
CreateStaff(s) ==
  /\ account[s] = "none"
  /\ account' = [account EXCEPT ![s] = "active"]
  /\ \E access \in Accesses(TRUE) : grants' = [grants EXCEPT ![s] = access]
  /\ UNCHANGED <<named, op>>

(* loginOrProvisionAgentOidc adds the roles of the token.                  *)
SignInGrants(s) ==
  /\ s \in Live /\ named[s]
  /\ \E r \in Roles : grants' = [grants EXCEPT ![s] = @ \cup {r}]
  /\ UNCHANGED <<account, named, op>>

(* assertNotLastSuperAdmin                                                 *)
NotLastSuper(s) ==
  (IsSuper(s) /\ account[s] = "active") =>
    Bystanders # {} \/ \E other \in Staff \ {s} : account[other] = "active" /\ IsSuper(other)

(* loadTarget and the checks on it: a delegated administrator touches no   *)
(* SuperAdmin.                                                             *)
LoadTarget(a, s) ==
  /\ op[a].pc = "idle" /\ s \in Live
  /\ \E kind \in Operations, superAdmin \in BOOLEAN :
     \E access \in IF kind = "access" THEN Accesses(superAdmin) ELSE {{}} :
       /\ superAdmin \/ ~IsSuper(s)
       /\ \/ kind = "activate"
          \/ kind = "suspend" /\ account[s] = "suspended"
          \/ kind = "access" /\ (IsSuper(s) => Super \in access)
          \/ NotLastSuper(s)
       /\ op' = [op EXCEPT ![a] = [NoOp EXCEPT !.pc = "loaded", !.kind = kind, !.of = s, !.access = access]]
  /\ UNCHANGED <<account, named, grants>>

Beside(a) == {b \in Admins \ {a} : op[b].of = op[a].of}

(* updatePlatformUser: by id, when no other operation holds the row.       *)
SetStatus(a) ==
  /\ op[a].pc = "loaded" /\ op[a].kind \in {"suspend", "activate"}
  /\ \A b \in Beside(a) : op[b].pc # "removed"
  /\ account' = [account EXCEPT ![op[a].of] =
                   IF @ = "gone" THEN @ ELSE [suspend |-> "suspended", activate |-> "active"][op[a].kind]]
  /\ op' = [op EXCEPT ![a] = NoOp]
  /\ UNCHANGED <<named, grants>>

(* applyScope and deletePlatformUser begin with a DELETE of the rows of    *)
(* the account: those its snapshot shows, ...                              *)
BeginClear(a) ==
  /\ op[a].pc = "loaded" /\ op[a].kind \in {"access", "delete"}
  /\ op' = [op EXCEPT ![a].pc = "clearing", ![a].cleared = grants[op[a].of]]
  /\ UNCHANGED <<account, named, grants>>

(* Mutant of EndClear: outside a transaction the DELETE commits at once. *)
EndClearForGood(a) ==
  /\ op[a].pc = "clearing"
  /\ grants' = [grants EXCEPT ![op[a].of] = @ \ op[a].cleared]
  /\ op' = [op EXCEPT ![a].pc = "cleared"]
  /\ UNCHANGED <<account, named>>

(* ... once no other operation has deleted them first; rows that one has   *)
(* inserted meanwhile are not touched.                                     *)
EndClear(a) ==
  /\ op[a].pc = "clearing"
  /\ \A b \in Beside(a) : op[b].pc \in {"cleared", "inserted", "removed"} => op[b].cleared \cap op[a].cleared = {}
  /\ op' = [op EXCEPT ![a].pc = "cleared", ![a].cleared = @ \cap grants[op[a].of]]
  /\ UNCHANGED <<account, named, grants>>

(* The new rows refer to the account: they wait for a deletion of it, and  *)
(* fail if it is gone (AdminFails).                                        *)
InsertGrants(a) ==
  /\ op[a].pc = "cleared" /\ op[a].kind = "access" /\ account[op[a].of] # "gone"
  /\ \A b \in Beside(a) : op[b].pc # "removed"
  /\ op' = [op EXCEPT ![a].pc = "inserted"]
  /\ UNCHANGED <<account, named, grants>>

(* An account with a history cannot be deleted and is tombstoned; either   *)
(* waits for rows that refer to it.                                        *)
RemoveAccount(a) ==
  /\ op[a].pc = "cleared" /\ op[a].kind = "delete"
  /\ \A b \in Beside(a) : op[b].pc \notin {"inserted", "removed"}
  /\ \E hard \in BOOLEAN : op' = [op EXCEPT ![a].pc = "removed", ![a].hard = hard]
  /\ UNCHANGED <<account, named, grants>>

CommitAccess(a) ==
  /\ op[a].pc = "inserted"
  /\ grants' = [grants EXCEPT ![op[a].of] = (@ \ op[a].cleared) \cup op[a].access]
  /\ op' = [op EXCEPT ![a] = NoOp]
  /\ UNCHANGED <<account, named>>

(* Rows of an account that is gone go with it (ON DELETE CASCADE).         *)
CommitRemoval(a) ==
  LET s == op[a].of IN
  /\ op[a].pc = "removed"
  /\ account' = [account EXCEPT ![s] = IF @ = "gone" \/ op[a].hard THEN "gone" ELSE "deleted"]
  /\ named' = [named EXCEPT ![s] = FALSE]
  /\ grants' = [grants EXCEPT ![s] = IF account'[s] = "gone" THEN {} ELSE @ \ op[a].cleared]
  /\ op' = [op EXCEPT ![a] = NoOp]

(* A statement fails, or the process stops: ROLLBACK.                      *)
AdminFails(a) ==
  /\ op[a].pc # "idle"
  /\ op' = [op EXCEPT ![a] = NoOp]
  /\ UNCHANGED <<account, named, grants>>

StaffNext ==
  \/ \E s \in Staff : CreateStaff(s) \/ SignInGrants(s) \/ \E a \in Admins : LoadTarget(a, s)
  \/ \E a \in Admins : \/ SetStatus(a) \/ BeginClear(a) \/ EndClear(a) \/ InsertGrants(a)
                       \/ RemoveAccount(a) \/ CommitAccess(a) \/ CommitRemoval(a) \/ AdminFails(a)

StaffSpec == StaffInit /\ [][StaffNext]_staffVars

-----------------------------------------------------------------------------
(* No account that was not deleted is ever without a role, however changes *)
(* of access, suspensions and deletions overlap and wherever they fail     *)
(* ("a failure part-way through a role rewrite must not leave the user     *)
(* with no role assignments").                                             *)
AccessNeverLost == \A s \in Staff : s \in Live /\ named[s] => grants[s] # {}
=============================================================================

------------------------------ MODULE Identity ------------------------------
(***************************************************************************)
(* One person who works for the operator and is known to a customer's      *)
(* tenant too: a staff row and a customer row of users, with one email and *)
(* one Entra identity between them, and the three ways in: the sign-in of  *)
(* staff and of customers (modules/accounts.ts, with releaseCustomerTwin   *)
(* and createPlatformUser of platform-users.ts) and the import of a roster *)
(* (integrations/entra/user-sync.ts).  An identity is on one row at most   *)
(* (the unique index on external_id), and a plane has an email once.       *)
(* Left out: an identity that is created anew in Entra, and the status of  *)
(* the rows (a released or missing customer is suspended).                 *)
(***************************************************************************)
EXTENDS Naturals

CONSTANTS StaffCalls,   \* staff sign-ins and creations of a staff account: transactions
          GuestCalls,   \* customer sign-ins: every statement commits by itself
          Imports,      \* runs of the import, likewise
          MaxIdFaults   \* bound on failures that no row explains

VARIABLES staff,      \* the staff row: [there, oid]
          customer,   \* the customer row: [at, oid]; at: none, home (the tenant's), away
          entry,      \* each staff call: [pc, kind, found, linked, twin]
          guest,      \* each customer call: idle, linking, inserting
          import,     \* each import: idle, lookup, linking, inserting, done
          idFaults

rowVars == <<staff, customer>>
identityVars == <<rowVars, entry, guest, import, idFaults>>

NoEntry == [pc |-> "idle", kind |-> "none", found |-> FALSE, linked |-> FALSE, twin |-> "none"]
Entering(c, to) == entry' = [entry EXCEPT ![c] = to]

(* The identity is "own", or on no row.                                    *)
IdentityInit ==
  /\ staff \in [there : BOOLEAN, oid : {"none"}]
  /\ customer \in [at : {"none", "home", "away"}, oid : {"none", "own"}]
  /\ customer.at = "none" => customer.oid = "none"
  /\ entry = [c \in StaffCalls |-> NoEntry]
  /\ guest = [c \in GuestCalls |-> "idle"]
  /\ import = [i \in Imports |-> "idle"]
  /\ idFaults = 0

(* Rows a transaction has written and not committed: others wait for it.   *)
HoldsTwin(c) == entry[c].pc \in {"released", "written"} /\ entry[c].twin # "none"
HoldsStaff(c) == entry[c].pc = "written"

-----------------------------------------------------------------------------
(* A member of staff signs in, or an administrator creates the account.    *)
BeginEntry(c) ==
  /\ entry[c].pc \in {"idle", "in"}
  /\ \E kind \in {"sign-in", "create"} : Entering(c, [NoEntry EXCEPT !.pc = "reading", !.kind = kind])
  /\ UNCHANGED <<rowVars, guest, import, idFaults>>

(* By identity, then by email; a creation of what exists is refused.       *)
FindStaff(c) ==
  /\ entry[c].pc = "reading"
  /\ Entering(c, CASE entry[c].kind = "create" /\ staff.there -> NoEntry
                   [] entry[c].kind = "sign-in" /\ staff.oid = "own" -> [entry[c] EXCEPT !.pc = "in"]
                   [] OTHER -> [entry[c] EXCEPT !.pc = "found", !.found = staff.there])
  /\ UNCHANGED <<rowVars, guest, import, idFaults>>

(* Mutant of TwinOf: nobody looks for the customer row. *)
TwinOfNobody(kind) == "none"

(* releaseCustomerTwin looks for the customer row, by identity for a       *)
(* sign-in and by email for a creation, and returns its identity.          *)
TwinOf(kind) ==
  IF customer.oid = "own" THEN "own"
  ELSE IF kind = "create" /\ customer.at # "none" THEN "unlinked" ELSE "none"

ReadTwin(c) ==
  /\ entry[c].pc = "found"
  /\ Entering(c, [entry[c] EXCEPT !.pc = "twin", !.twin = TwinOf(entry[c].kind)])
  /\ UNCHANGED <<rowVars, guest, import, idFaults>>

ReleaseTwin(c) ==
  /\ entry[c].pc = "twin"
  /\ entry[c].twin # "none" => \A d \in StaffCalls : ~HoldsTwin(d)
  /\ Entering(c, [entry[c] EXCEPT !.pc = "released"])
  /\ UNCHANGED <<rowVars, guest, import, idFaults>>

(* Mutant of Linked: an account found by email keeps what it has. *)
LinkedIfNew(c) == IF entry[c].found THEN FALSE ELSE entry[c].kind = "sign-in" \/ entry[c].twin = "own"

(* A sign-in puts its identity on the row, a creation the twin's.          *)
Linked(c) == entry[c].kind = "sign-in" \/ entry[c].twin = "own"

(* Of two rows with one email or one identity the second fails, and its    *)
(* transaction with it: the person tries again.                            *)
SecondRow(c) ==
  \/ ~entry[c].found /\ staff.there
  \/ Linked(c) /\ ~(entry[c].found /\ staff.oid = "own")
       /\ (staff.oid = "own" \/ (customer.oid = "own" /\ entry[c].twin = "none"))

WriteStaff(c) ==
  /\ entry[c].pc = "released"
  /\ \A d \in StaffCalls : ~HoldsStaff(d)
  /\ Entering(c, IF SecondRow(c) THEN [NoEntry EXCEPT !.pc = "reading", !.kind = entry[c].kind]
                 ELSE [entry[c] EXCEPT !.pc = "written", !.linked = Linked(c)])
  /\ UNCHANGED <<rowVars, guest, import, idFaults>>

CommitStaff(c) ==
  /\ entry[c].pc = "written"
  /\ staff' = [there |-> TRUE, oid |-> IF entry[c].linked THEN "own" ELSE staff.oid]
  /\ customer' = IF entry[c].twin = "none" THEN customer
                 ELSE [customer EXCEPT !.oid = "none"]
  /\ Entering(c, IF entry[c].kind = "create" THEN NoEntry ELSE [entry[c] EXCEPT !.pc = "in"])
  /\ UNCHANGED <<guest, import, idFaults>>

EntryFails(c) ==
  /\ entry[c].pc \notin {"idle", "in"} /\ idFaults < MaxIdFaults
  /\ idFaults' = idFaults + 1
  /\ Entering(c, [NoEntry EXCEPT !.pc = "reading", !.kind = entry[c].kind])
  /\ UNCHANGED <<rowVars, guest, import>>

-----------------------------------------------------------------------------
(* What a customer sign-in or an import may write to the customer row: the *)
(* link, or a new row; either waits for transactions that hold a row.      *)
RowsFree == \A c \in StaffCalls : ~HoldsTwin(c) /\ ~HoldsStaff(c)
Unowned == staff.oid = "none" /\ customer.oid = "none"

Link == customer.at = "home" /\ Unowned /\ customer' = [customer EXCEPT !.oid = "own"]
Insert ==
  /\ customer.at = "none" /\ Unowned
  /\ customer' = [at |-> "home", oid |-> "own"]

(* loginOrProvisionCustomerOidc: by identity, then by email in the         *)
(* tenant's organization, else a new account.                              *)
BeginGuest(g) ==
  /\ guest[g] = "idle" /\ customer.oid # "own"
  /\ guest' = [guest EXCEPT ![g] = IF customer.at = "home" THEN "linking" ELSE "inserting"]
  /\ UNCHANGED <<rowVars, entry, import, idFaults>>

GuestWrites(g) ==
  /\ RowsFree
  /\ \/ guest[g] = "linking" /\ Link
     \/ guest[g] = "inserting" /\ Insert
  /\ guest' = [guest EXCEPT ![g] = "idle"]
  /\ UNCHANGED <<staff, entry, import, idFaults>>

GuestFails(g) ==
  /\ guest[g] # "idle"
  /\ guest' = [guest EXCEPT ![g] = "idle"]
  /\ UNCHANGED <<rowVars, entry, import, idFaults>>

-----------------------------------------------------------------------------
Importing(i, pc) == import' = [import EXCEPT ![i] = pc]

(* applyUserSync, for the person if the tenant has listed them.            *)
BeginImport(i) ==
  /\ import[i] \in {"idle", "done"}
  /\ Importing(i, "lookup")
  /\ UNCHANGED <<rowVars, entry, guest, idFaults>>

(* Mutant of KnownIdentity: the lookup is for the organization's rows. *)
KnownIdentityOfOrganization == customer.oid = "own" /\ customer.at = "home"

(* The identity may be on any row, of staff or of another organization.    *)
KnownIdentity == "own" \in {staff.oid, customer.oid}

ImportLookup(i) ==
  /\ import[i] = "lookup"
  /\ Importing(i, CASE KnownIdentity -> "done"
                    [] ~KnownIdentity /\ customer.at = "home" -> IF customer.oid = "none" THEN "linking" ELSE "done"
                    [] OTHER -> "inserting")
  /\ UNCHANGED <<rowVars, entry, guest, idFaults>>

ImportWrites(i) ==
  /\ RowsFree
  /\ \/ import[i] = "linking" /\ Link
     \/ import[i] = "inserting" /\ Insert
  /\ Importing(i, "done")
  /\ UNCHANGED <<staff, entry, guest, idFaults>>

(* A collision stops the run; it is started again.                         *)
ImportCollides(i) ==
  /\ RowsFree
  /\ \/ import[i] \in {"linking", "inserting"} /\ ~Unowned
     \/ import[i] = "inserting" /\ customer.at # "none"
  /\ Importing(i, "lookup")
  /\ UNCHANGED <<rowVars, entry, guest, idFaults>>

EntryStep(c) == FindStaff(c) \/ ReadTwin(c) \/ ReleaseTwin(c) \/ WriteStaff(c) \/ CommitStaff(c)
ImportStep(i) == ImportLookup(i) \/ ImportWrites(i) \/ ImportCollides(i)

IdentityNext ==
  \/ \E c \in StaffCalls : BeginEntry(c) \/ EntryStep(c) \/ EntryFails(c)
  \/ \E g \in GuestCalls : BeginGuest(g) \/ GuestWrites(g) \/ GuestFails(g)
  \/ \E i \in Imports : BeginImport(i) \/ ImportStep(i)

(* A request and a run that have begun go on, and whoever fails tries      *)
(* again.  Nobody must sign in, and nobody must import.                    *)
IdentityFairness ==
  /\ \A c \in StaffCalls : WF_identityVars(EntryStep(c))
  /\ \A i \in Imports : WF_identityVars(ImportStep(i))

IdentitySpec == IdentityInit /\ [][IdentityNext]_identityVars /\ IdentityFairness

-----------------------------------------------------------------------------
(* Who is in, is in on a staff row that carries the identity, and the      *)
(* customer row does not (releaseCustomerTwin, the index on external_id).  *)
WhoIsInIsLinked ==
  \A c \in StaffCalls : entry[c].pc = "in" => staff.oid = "own" /\ customer.oid = "none"

(* Staff sign-in wins: a member of staff who signs in gets in, with the    *)
(* Entra identity on the staff row for good, whatever imports and customer *)
(* sign-ins do with the customer row meanwhile; and no import is stopped   *)
(* for ever by an identity that is elsewhere, unless the email belongs to  *)
(* a customer account of another organization (loginOrProvisionAgentOidc,  *)
(* releaseCustomerTwin, applyUserSync).                                    *)
StaffGetIn ==
  /\ []WhoIsInIsLinked
  /\ \A c \in StaffCalls :
       (entry[c].pc = "reading" /\ entry[c].kind = "sign-in") ~> (entry[c].pc = "in")
  /\ \A i \in Imports :
       (import[i] = "lookup" /\ customer.at # "away") ~> (import[i] = "done")
=============================================================================

------------------------------ MODULE Platform ------------------------------
(***************************************************************************)
(* What every tenant relies on and nobody watches: how the audit trail     *)
(* grows, how devices are synchronized, how a due time is found, how staff *)
(* and customers get in, and how an overdue vote of the change board is    *)
(* escalated.  These parts take their steps on rows of their own, so a     *)
(* behaviour of all is one behaviour of each: `part' says which of them a  *)
(* behaviour shows, and the others rest in an initial state.               *)
(***************************************************************************)
EXTENDS AuditTrail, DeviceSync, SlaCalendar, Identity, CabDeadlineSweeper

VARIABLE part

serviceVars == <<auditVars, syncVars, calendarVars, identityVars>>
platformVars == <<serviceVars, sysVars, part>>

PlatformInit ==
  /\ part \in {"audit", "devices", "calendar", "identity", "sweeper"}
  /\ AuditInit /\ SyncInit /\ CalendarInit /\ IdentityInit /\ SysInit
  /\ enabled <=> part = "devices"
  /\ part # "calendar" => coverage = "24x7" /\ holidays = {} /\ start = 0 /\ minutes = 0
  /\ part # "identity" => ~staff.there /\ customer.at = "none"

ServiceNext ==
  \/ part = "audit"    /\ AuditNext    /\ UNCHANGED <<syncVars, calendarVars, identityVars>>
  \/ part = "devices"  /\ SyncNext     /\ UNCHANGED <<auditVars, calendarVars, identityVars>>
  \/ part = "calendar" /\ CalendarNext /\ UNCHANGED <<auditVars, syncVars, identityVars>>
  \/ part = "identity" /\ IdentityNext /\ UNCHANGED <<auditVars, syncVars, calendarVars>>

PlatformNext ==
  /\ UNCHANGED part
  /\ \/ ServiceNext /\ UNCHANGED sysVars
     \/ part = "sweeper" /\ SysNext /\ UNCHANGED serviceVars

(* A part at rest has no step that must be taken: nobody has called audit, *)
(* a tenant whose integration is disabled is not synchronized, nothing is  *)
(* left of a promise of no minutes, nobody signs in, and no vote is open.  *)
PlatformSpec ==
  /\ PlatformInit /\ [][PlatformNext]_platformVars
  /\ AuditFairness /\ SyncFairness /\ CalendarFairness /\ IdentityFairness /\ SweepFairness
=============================================================================

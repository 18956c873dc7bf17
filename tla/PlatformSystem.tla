--------------------------- MODULE PlatformSystem ---------------------------
(***************************************************************************)
(* The Platform as a whole: sessions, administration and the recovery of   *)
(* Tenants share people, credentials and authority.  Each transaction is   *)
(* of one of them.                                                         *)
(***************************************************************************)
EXTENDS PlatformAdministration, TenantAdminRecovery

SystemInit == Init /\ RecoveryInit

SystemNext ==
  \/ Next /\ UNCHANGED recoveryVars
  \/ RecoveryNext /\ UNCHANGED <<platformVars, adminVars>>

systemVars == <<vars, recoveryVars>>
SystemSpec == SystemInit /\ [][SystemNext]_systemVars
=============================================================================

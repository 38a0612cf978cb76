----------------------------- MODULE BackOffice ----------------------------
(***************************************************************************)
(* The three registers side by side: a session serves one request of each. *)
(* They share no row; they are one specification so that a small instance  *)
(* checks them together.                                                   *)
(***************************************************************************)
EXTENDS Deals, Cabling, Maintenance

officeVars == <<dealVars, cablingVars, logVars>>

OfficeInit == DealsInit /\ CablingInit /\ LogInit

OfficeNext ==
  \/ DealStep /\ UNCHANGED <<cablingVars, logVars>>
  \/ CablingStep /\ UNCHANGED <<dealVars, logVars>>
  \/ LogStep /\ UNCHANGED <<dealVars, cablingVars>>

OfficeSpec == OfficeInit /\ [][OfficeNext]_officeVars

\* The rows and the requests of the three registers are of their types.
OfficeTypeOK == DealsTypeOK /\ CablingTypeOK /\ LogTypeOK
=============================================================================

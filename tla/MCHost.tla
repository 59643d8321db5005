------------------------------- MODULE MCHost -------------------------------
(***************************************************************************)
(* Five components of the host that share no state: pairing, the life of   *)
(* the endpoint, the audit log, the tabs and the opening of the database.  *)
(* A behaviour is one of them, chosen at the start; the others stay in an  *)
(* initial state.                                                          *)
(***************************************************************************)
EXTENDS Pairing, RemoteAccess, AuditLog, TabLifecycle, Database

VARIABLE part

all_vars == <<pairing_vars, access_vars, audit_vars, vars, database_vars, part>>

\* A later build has dropped a built-in agent.
MCBuiltIns(b) == IF b = 7 THEN {"x"} ELSE {"x", "y"}

MCInit ==
  /\ part \in {"pairing", "access", "audit", "tabs", "database"}
  /\ PairingInit /\ AccessInit /\ AuditInit /\ Init /\ DatabaseInit
  /\ part # "database" => legacy /\ version = 0

PairingSteps == part = "pairing" /\ PairingNext /\ UNCHANGED <<access_vars, audit_vars, vars, database_vars, part>>
AccessSteps == part = "access" /\ AccessNext /\ UNCHANGED <<pairing_vars, audit_vars, vars, database_vars, part>>
AuditSteps == part = "audit" /\ AuditNext /\ UNCHANGED <<pairing_vars, access_vars, vars, database_vars, part>>
TabSteps == part = "tabs" /\ Next /\ UNCHANGED <<pairing_vars, access_vars, audit_vars, database_vars, part>>
DatabaseSteps == part = "database" /\ DatabaseNext /\ UNCHANGED <<pairing_vars, access_vars, audit_vars, vars, part>>

MCNext == PairingSteps \/ AccessSteps \/ AuditSteps \/ TabSteps \/ DatabaseSteps

\* A component at rest in its initial state has no fair action enabled.
MCSpec == MCInit /\ [][MCNext]_all_vars /\ PairingFairness /\ Fairness
=============================================================================

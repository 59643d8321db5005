------------------------------ MODULE MCClient ------------------------------
(***************************************************************************)
(* The remote client in parts that share no state: its snapshot of the     *)
(* host, its pairing and stored credentials, its terminals and its uploads *)
(* with what the host does for them.  A behaviour is one of them, chosen at*)
(* the start; the others stay in an initial state.                         *)
(***************************************************************************)
EXTENDS SnapshotSync, WebSession, WebTerminals, Uploads

VARIABLE part

all_vars == <<vars, web_vars, webterm_vars, upload_vars, part>>

\* A guest shell's files go where its agent's do.
MCPlaceOf(t) == "box"

MCInit ==
  /\ part \in {"sync", "session", "terminals", "uploads"}
  /\ Init /\ WebInit /\ WebTermInit /\ UploadsInit
  /\ part # "session" => pairedHost = NoHost
  /\ part # "terminals" => host_tabs = Nothing
  /\ part # "uploads" => \A u \in UploadIds : upload[u].tab = "agent"

SyncSteps == part = "sync" /\ Next /\ UNCHANGED <<web_vars, webterm_vars, upload_vars, part>>
SessionSteps == part = "session" /\ WebNext /\ UNCHANGED <<vars, webterm_vars, upload_vars, part>>
TerminalSteps == part = "terminals" /\ WebTermNext /\ UNCHANGED <<vars, web_vars, upload_vars, part>>
UploadSteps == part = "uploads" /\ UploadsNext /\ UNCHANGED <<vars, web_vars, webterm_vars, part>>

MCNext == SyncSteps \/ SessionSteps \/ TerminalSteps \/ UploadSteps

MCSpec ==
  /\ MCInit /\ [][MCNext]_all_vars
  /\ Fairness /\ WebFairness
=============================================================================

---------------------------- MODULE RemoteAccess ----------------------------
(***************************************************************************)
(* The life of the host's endpoint: RemoteAccess start, stop and rotate,   *)
(* the stored secret its id is derived from, the id the handler uses in    *)
(* proofs, and the paired devices, whose proofs are bound to that id.      *)
(*                                                                         *)
(* The main thread runs one of its operations at a time; what it hands to  *)
(* the async runtime (a shutdown after stop, a pairing that was approved)  *)
(* goes on beside it, also while it is blocked in a rotation.  A secret is *)
(* a number, and so is the endpoint of one start.                          *)
(***************************************************************************)
EXTENDS Naturals, FiniteSets

CONSTANTS MaxStarts,  \* bound: endpoints ever bound
          MaxSecrets  \* bound: secrets ever generated

ASSUME StartsAssumption == {MaxStarts, MaxSecrets} \subseteq Nat

VARIABLES server,        \* RemoteAccess.server: an endpoint, 0 for none
          endpoint,      \* per endpoint: its state
          key,           \* per endpoint: its secret
          secret,        \* remote_endpoint_identity: a secret, 0 for no row
          generated,     \* how many secrets there ever were
          host_node_id,  \* the handler's, 0 before the first start
          rotation,      \* where rotate_endpoint_secret is
          old,           \* the endpoint it took down and restarts, 0 for none
          enabled,       \* settings.remote_control_enabled
          issuing,       \* secrets of endpoints on which an approved pairing is unfinished
          devices        \* paired_devices: the secret each device paired with

rotate == <<rotation, old>>
identity == <<secret, generated>>
pairings == <<issuing, devices>>
access_vars == <<server, endpoint, key, identity, host_node_id, rotate, enabled, pairings>>

Endpoints == 1 .. MaxStarts
Secrets == 1 .. MaxSecrets

AccessTypeOK ==
  /\ server \in 0 .. MaxStarts
  /\ endpoint \in [Endpoints -> {"none", "bound", "closing", "closed"}]
  /\ key \in [Endpoints -> 0 .. MaxSecrets]
  /\ {secret, generated, host_node_id} \subseteq 0 .. MaxSecrets
  /\ rotation \in {"none", "shutdown", "clear", "delete", "start"}
  /\ old \in 0 .. MaxStarts /\ enabled \in BOOLEAN
  /\ {issuing, devices} \subseteq SUBSET Secrets

AccessInit ==
  /\ server = 0 /\ host_node_id = 0
  /\ endpoint = [e \in Endpoints |-> "none"] /\ key = [e \in Endpoints |-> 0]
  /\ secret = 0 /\ generated = 0
  /\ rotation = "none" /\ old = 0 /\ enabled = FALSE
  /\ issuing = {} /\ devices = {}

-----------------------------------------------------------------------------
Fresh == CHOOSE e \in Endpoints : endpoint[e] = "none" /\ \A f \in 1 .. e - 1 : endpoint[f] # "none"

LoadOrGenerateSecret ==
  IF secret # 0 THEN UNCHANGED identity
  ELSE generated < MaxSecrets /\ generated' = generated + 1 /\ secret' = generated'

Starts ==
  /\ \E e \in Endpoints : endpoint[e] = "none"
  /\ LoadOrGenerateSecret
  /\ endpoint' = [endpoint EXCEPT ![Fresh] = "bound"]
  /\ key' = [key EXCEPT ![Fresh] = secret']
  /\ server' = Fresh
  /\ host_node_id' = secret'

\* The endpoint does not bind; the secret may have been generated by then.
StartFails ==
  /\ LoadOrGenerateSecret
  /\ UNCHANGED <<server, endpoint, key, host_node_id>>

Idle == rotation = "none"

\* The row may fail to be written; the server runs all the same.
Enable ==
  /\ Idle /\ server = 0
  /\ \/ Starts /\ enabled' \in {TRUE, enabled}
     \/ StartFails /\ UNCHANGED enabled
  /\ UNCHANGED <<rotate, pairings>>

Stop ==
  /\ endpoint' = [endpoint EXCEPT ![server] = "closing"]
  /\ server' = 0

Disable ==
  /\ Idle /\ server # 0
  /\ Stop
  /\ enabled' \in {FALSE, enabled}
  /\ UNCHANGED <<key, identity, host_node_id, rotate, pairings>>

\* The shutdown that stop() left to the runtime; its error is only logged.
ShutdownCompletes(e) ==
  /\ endpoint[e] = "closing"
  /\ endpoint' = [endpoint EXCEPT ![e] = "closed"]
  /\ UNCHANGED <<server, key, identity, host_node_id, rotate, enabled, pairings>>

\* The program ends, at any moment, and starts again.
AccessRestart ==
  /\ endpoint' = [e \in Endpoints |-> IF endpoint[e] = "none" THEN "none" ELSE "closed"]
  /\ server' = 0 /\ host_node_id' = 0
  /\ rotation' = "none" /\ old' = 0 /\ issuing' = {}
  /\ UNCHANGED <<key, identity, enabled, devices>>

\* What the program does with the setting when it starts.
StartIfEnabled ==
  /\ Idle /\ server = 0 /\ enabled
  /\ Starts \/ StartFails
  /\ UNCHANGED <<rotate, enabled, pairings>>

-----------------------------------------------------------------------------
RotateHostId ==
  /\ Idle
  /\ old' = server
  /\ IF server = 0
     THEN rotation' = "clear" /\ UNCHANGED <<server, endpoint>>
     ELSE /\ rotation' = "shutdown" /\ Stop
  /\ UNCHANGED <<key, identity, host_node_id, enabled, pairings>>

\* Blocked on its own endpoint; an error aborts the rotation.
RotateAwaitsShutdown ==
  /\ rotation = "shutdown"
  /\ \/ endpoint[old] = "closed" /\ rotation' = "clear"
     \/ rotation' = "none"
  /\ UNCHANGED <<server, endpoint, key, identity, host_node_id, old, enabled, pairings>>

\* Each row is removed by itself, and one that cannot be is skipped.
ClearAll ==
  /\ rotation = "clear"
  /\ devices' \in SUBSET devices /\ rotation' = "delete"
  /\ UNCHANGED <<server, endpoint, key, identity, host_node_id, old, enabled, issuing>>

\* Mistaken: the secret is kept until the new server runs.
DeleteLater ==
  /\ rotation = "delete" /\ \E e \in Endpoints : endpoint[e] = "none"
  /\ endpoint' = [endpoint EXCEPT ![Fresh] = "bound"] /\ key' = [key EXCEPT ![Fresh] = secret]
  /\ server' = Fresh /\ host_node_id' = secret
  /\ secret' = 0 /\ rotation' = "none"
  /\ UNCHANGED <<generated, old, enabled, pairings>>

DeleteSecret ==
  /\ rotation = "delete"
  /\ \/ secret' = 0 /\ rotation' = IF old # 0 THEN "start" ELSE "none"
     \/ secret' = secret /\ rotation' = "none"
  /\ UNCHANGED <<server, endpoint, key, generated, host_node_id, old, enabled, pairings>>

RotateStarts ==
  /\ rotation = "start"
  /\ Starts \/ StartFails
  /\ rotation' = "none"
  /\ UNCHANGED <<old, enabled, pairings>>

-----------------------------------------------------------------------------
\* The user approves a pairing that came in over the running endpoint.
Approves ==
  /\ Idle /\ server # 0
  /\ issuing' = issuing \cup {key[server]}
  /\ UNCHANGED <<server, endpoint, key, identity, host_node_id, rotate, enabled, devices>>

\* The handler's task stores the device, whatever has become of its endpoint.
IssuesCredential(k) ==
  /\ k \in issuing
  /\ issuing' = issuing \ {k} /\ devices' = devices \cup {k}
  /\ UNCHANGED <<server, endpoint, key, identity, host_node_id, rotate, enabled>>

AccessNext ==
  \/ Enable \/ Disable \/ AccessRestart \/ StartIfEnabled
  \/ RotateHostId \/ RotateAwaitsShutdown \/ ClearAll \/ DeleteSecret \/ RotateStarts
  \/ Approves
  \/ \E e \in Endpoints : ShutdownCompletes(e)
  \/ \E k \in Secrets : IssuesCredential(k)

AccessSpec == AccessInit /\ [][AccessNext]_access_vars

-----------------------------------------------------------------------------
\* The running server's id is the one in the database and the one the handler
\* verifies proofs against, so that it survives a restart, and no other endpoint
\* is left bound, whatever was aborted, killed or failed on the way (mod.rs,
\* load_or_generate_secret: "Pinning the key ..."; start, set_host_node_id).
ServerHasStoredSecret ==
  /\ server # 0 => key[server] = secret /\ host_node_id = secret
  /\ \A e \in Endpoints : endpoint[e] = "bound" <=> server = e

\* What follows is said of the code, and the code does not keep it (README, section 7).

\* "the old endpoint must be fully shut down before the new one starts and
\* before any secrets are wiped" (mod.rs 188).
OldEndpointGoneFirst ==
  rotation \in {"clear", "delete", "start"} => \A e \in Endpoints : endpoint[e] \in {"none", "closed"}
=============================================================================

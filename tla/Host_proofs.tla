------------------------------ MODULE Host_proofs ------------------------------
(***************************************************************************)
(* Proofs about the host: its endpoint, for any number of starts and       *)
(* secrets; pairing, for any number of attempts; the audit log, for any    *)
(* number and size of backups; the database, for any builds and their      *)
(* agents and any number of launches; and the size aggregator of a PTY and *)
(* the remote handlers that use it, for any devices, viewers and sizes:    *)
(* the handlers use the bus only through its operations, and a viewer that *)
(* is alone on its device keeps its hold on the size of the PTY.           *)
(***************************************************************************)
EXTENDS RemoteAccess, Pairing, AuditLog, Database, PtyAttach, Induction, TLAPS, SequenceTheorems

-----------------------------------------------------------------------------
(* RemoteAccess                                                            *)

\* A start takes an endpoint that was never bound.
LEMMA FreshIsNew ==
  ASSUME AccessTypeOK, \E e \in Endpoints : endpoint[e] = "none"
  PROVE  Fresh \in Endpoints /\ endpoint[Fresh] = "none"
<1>. DEFINE new == {e \in Endpoints : endpoint[e] = "none"}
<1>1. new \subseteq Nat /\ new # {}
  BY StartsAssumption DEF Endpoints
<1>2. PICK e \in new : \A f \in new : e <= f
  <2>. HIDE DEF new
  <2>. QED
    BY <1>1, HasLeast
<1>3. \A f \in 1 .. e - 1 : endpoint[f] # "none"
  <2> SUFFICES ASSUME NEW f \in 1 .. e - 1, endpoint[f] = "none" PROVE FALSE
    OBVIOUS
  <2>1. e \in 1 .. MaxStarts /\ MaxStarts \in Nat
    BY StartsAssumption DEF Endpoints
  <2>2. f \in new /\ f < e /\ f \in Nat /\ e \in Nat
    BY <2>1 DEF Endpoints
  <2>. QED
    BY <2>2, <1>2
<1>. QED
  BY <1>3 DEF Fresh

\* A rotation has taken the server out before it touches the secret.
RotatesWithoutServer == rotation # "none" => server = 0

\* A running server's secret is a stored one, not the missing row.
RunsWithSecret == server # 0 => secret # 0

AccessInv == AccessTypeOK /\ RotatesWithoutServer /\ RunsWithSecret /\ ServerHasStoredSecret

\* A start binds an endpoint with the stored secret when no server runs.
LEMMA StartsKeeps ==
  ASSUME AccessInv, server = 0, Starts,
         rotation' = "none", old' = old, enabled' \in BOOLEAN, UNCHANGED pairings
  PROVE  AccessInv'
<1>. USE StartsAssumption
<1>1. Fresh \in Endpoints /\ endpoint[Fresh] = "none" /\ Fresh # 0
  BY FreshIsNew DEF Starts, AccessInv, Endpoints
<1>2. secret' \in 0 .. MaxSecrets /\ generated' \in 0 .. MaxSecrets
  BY DEF AccessInv, AccessTypeOK, Starts, LoadOrGenerateSecret, identity
<1>3. AccessTypeOK'
  BY <1>1, <1>2 DEF AccessInv, AccessTypeOK, Starts, Endpoints, Secrets, pairings
<1>4. ServerHasStoredSecret'
  BY <1>1 DEF AccessInv, AccessTypeOK, ServerHasStoredSecret, Starts, Endpoints
<1>5. RunsWithSecret'
  BY DEF AccessInv, AccessTypeOK, RunsWithSecret, Starts, LoadOrGenerateSecret, identity
<1>. QED
  BY <1>3, <1>4, <1>5 DEF AccessInv, RotatesWithoutServer

\* A start that fails binds nothing and leaves the stored secret as it was.
LEMMA StartFailsKeeps ==
  ASSUME AccessInv, server = 0, StartFails,
         rotation' = "none", old' = old, enabled' \in BOOLEAN, UNCHANGED pairings
  PROVE  AccessInv'
<1>1. secret' \in 0 .. MaxSecrets /\ generated' \in 0 .. MaxSecrets
  BY StartsAssumption DEF AccessInv, AccessTypeOK, StartFails, LoadOrGenerateSecret, identity
<1>. QED
  BY <1>1 DEF AccessInv, AccessTypeOK, RotatesWithoutServer, RunsWithSecret, ServerHasStoredSecret, StartFails,
              Endpoints, Secrets, pairings

\* A stop leaves no bound endpoint.
LEMMA StopKeeps ==
  ASSUME AccessInv, server # 0, Stop
  PROVE  /\ endpoint' \in [Endpoints -> {"none", "bound", "closing", "closed"}]
         /\ server' = 0 /\ \A e \in Endpoints : endpoint'[e] # "bound"
BY StartsAssumption DEF AccessInv, AccessTypeOK, ServerHasStoredSecret, Stop, Endpoints

\* The server runs under the stored secret and is the only endpoint, for every number
\* of starts, secrets, rotations, failures and kills.
THEOREM ServerKeepsStoredSecret == AccessSpec => [](AccessTypeOK /\ ServerHasStoredSecret)
<1>1. AccessInit => AccessInv
  <2> SUFFICES ASSUME AccessInit PROVE AccessInv
    OBVIOUS
  <2>1. AccessTypeOK
    <3>1. MaxStarts \in Nat /\ MaxSecrets \in Nat
      BY StartsAssumption
    <3>2. issuing \in SUBSET Secrets /\ devices \in SUBSET Secrets
      BY DEF AccessInit
    <3>3. endpoint \in [Endpoints -> {"none", "bound", "closing", "closed"}] /\ key \in [Endpoints -> 0 .. MaxSecrets]
      BY <3>1 DEF AccessInit
    <3>4. {issuing, devices} \subseteq SUBSET Secrets
      BY <3>2
    <3>5. {secret, generated, host_node_id} \subseteq 0 .. MaxSecrets
      BY <3>1 DEF AccessInit
    <3>6. server \in 0 .. MaxStarts /\ old \in 0 .. MaxStarts
      BY <3>1 DEF AccessInit
    <3>7. enabled \in BOOLEAN
      BY DEF AccessInit
    <3>. QED
      BY <3>3, <3>4, <3>5, <3>6, <3>7 DEF AccessInit, AccessTypeOK
  <2>2. ServerHasStoredSecret
    BY StartsAssumption DEF AccessInit, ServerHasStoredSecret, Endpoints
  <2>. QED
    BY <2>1, <2>2 DEF AccessInit, AccessInv, RotatesWithoutServer, RunsWithSecret
<1>2. AccessInv /\ [AccessNext]_access_vars => AccessInv'
  <2> SUFFICES ASSUME AccessInv, [AccessNext]_access_vars PROVE AccessInv'
    OBVIOUS
  <2>. USE StartsAssumption
  <2>1. CASE Enable
    <3>1. enabled' \in BOOLEAN /\ rotation' = "none" /\ old' = old /\ UNCHANGED pairings /\ server = 0
      BY <2>1 DEF Enable, Idle, rotate, AccessInv, AccessTypeOK
    <3>. QED
      BY <2>1, <3>1, StartsKeeps, StartFailsKeeps DEF Enable
  <2>2. CASE Disable
    <3>1. enabled' \in BOOLEAN
      BY <2>2 DEF Disable, AccessInv, AccessTypeOK
    <3>. QED
      BY <2>2, <3>1, StopKeeps
         DEF Disable, identity, rotate, pairings, AccessInv, AccessTypeOK, RotatesWithoutServer, RunsWithSecret, ServerHasStoredSecret, Endpoints
  <2>3. CASE AccessRestart
    BY <2>3 DEF AccessRestart, identity, AccessInv, AccessTypeOK, RotatesWithoutServer, RunsWithSecret, ServerHasStoredSecret, Endpoints, Secrets
  <2>4. CASE StartIfEnabled
    <3>1. enabled' \in BOOLEAN /\ rotation' = "none" /\ old' = old /\ UNCHANGED pairings /\ server = 0
      BY <2>4 DEF StartIfEnabled, Idle, rotate, AccessInv, AccessTypeOK
    <3>. QED
      BY <2>4, <3>1, StartsKeeps, StartFailsKeeps DEF StartIfEnabled
  <2>5. CASE RotateHostId
    <3>1. CASE server = 0
      BY <2>5, <3>1 DEF RotateHostId, identity, pairings, AccessInv, AccessTypeOK, RotatesWithoutServer, RunsWithSecret, ServerHasStoredSecret
    <3>2. CASE server # 0
      BY <2>5, <3>2, StopKeeps
         DEF RotateHostId, identity, pairings, AccessInv, AccessTypeOK, RotatesWithoutServer, RunsWithSecret, ServerHasStoredSecret, Endpoints
    <3>. QED BY <3>1, <3>2
  <2>6. CASE RotateAwaitsShutdown
    BY <2>6 DEF RotateAwaitsShutdown, identity, pairings, AccessInv, AccessTypeOK, RotatesWithoutServer, RunsWithSecret, ServerHasStoredSecret
  <2>7. CASE ClearAll
    BY <2>7 DEF ClearAll, identity, AccessInv, AccessTypeOK, RotatesWithoutServer, RunsWithSecret, ServerHasStoredSecret
  <2>8. CASE DeleteSecret
    BY <2>8 DEF DeleteSecret, pairings, AccessInv, AccessTypeOK, RotatesWithoutServer, RunsWithSecret, ServerHasStoredSecret
  <2>9. CASE RotateStarts
    <3>1. enabled' \in BOOLEAN /\ rotation' = "none" /\ old' = old /\ UNCHANGED pairings /\ server = 0
      BY <2>9 DEF RotateStarts, AccessInv, AccessTypeOK, RotatesWithoutServer
    <3>. QED
      BY <2>9, <3>1, StartsKeeps, StartFailsKeeps DEF RotateStarts
  <2>10. CASE Approves
    <3>1. key[server] \in Secrets
      BY <2>10 DEF Approves, AccessInv, AccessTypeOK, RunsWithSecret, ServerHasStoredSecret, Secrets
    <3>. QED
      BY <2>10, <3>1 DEF Approves, identity, rotate, AccessInv, AccessTypeOK, RotatesWithoutServer, RunsWithSecret, ServerHasStoredSecret
  <2>11. CASE \E e \in Endpoints : ShutdownCompletes(e)
    BY <2>11 DEF ShutdownCompletes, identity, rotate, pairings, AccessInv, AccessTypeOK, RotatesWithoutServer, RunsWithSecret, ServerHasStoredSecret
  <2>12. CASE \E k \in Secrets : IssuesCredential(k)
    BY <2>12 DEF IssuesCredential, identity, rotate, AccessInv, AccessTypeOK, RotatesWithoutServer, RunsWithSecret, ServerHasStoredSecret
  <2>13. CASE UNCHANGED access_vars
    BY <2>13 DEF access_vars, identity, rotate, pairings, AccessInv, AccessTypeOK, RotatesWithoutServer, RunsWithSecret, ServerHasStoredSecret
  <2>. QED
    BY <2>1, <2>2, <2>3, <2>4, <2>5, <2>6, <2>7, <2>8, <2>9, <2>10, <2>11, <2>12, <2>13 DEF AccessNext
<1>3. AccessInv => AccessTypeOK /\ ServerHasStoredSecret
  BY DEF AccessInv
<1>. QED
  BY <1>1, <1>2, <1>3, PTL DEF AccessSpec

-----------------------------------------------------------------------------
(* Pairing                                                                 *)

\* A credential on its way, and one the page is about to store, has its row.
AnswerHasRow == \A a \in Attempt :
  answer[a] = "credential" \/ ask[a] = "passkey" => device[a] # "none"

PairingInv == PairingTypeOK /\ AnswerHasRow /\ PairingIsHonest

\* A step that leaves the requests, the dialog and the queue alone.
LEMMA WaitingUntouched ==
  ASSUME WaitingIsShown, UNCHANGED <<request, pending_pairing, approvals>>
  PROVE  WaitingIsShown'
BY DEF WaitingIsShown

\* Closing the connection the ref holds keeps the types.
LEMMA FinallyTypes ==
  ASSUME PairingTypeOK, Finally
  PROVE  conn' \in [Attempt -> {"none", "open", "closed", "seen closed"}] /\ ref' = "none"
BY DEF PairingTypeOK, Finally, Closed

\* The page's steps: what it stores has been issued.
LEMMA PageKeeps ==
  ASSUME PairingInv, NEW a \in Attempt,
         \/ RunPair(a) \/ Connected(a) \/ PairFails(a) \/ PairSucceeds(a) \/ SaveCredential(a)
  PROVE  PairingInv'
<1>. USE DEF PairingInv, PairingIsHonest
<1>1. CASE RunPair(a)
  <2>1. PairingTypeOK'
    BY <1>1 DEF RunPair, PairingTypeOK, desk
  <2>2. AnswerHasRow' /\ CredentialKnown'
    BY <1>1 DEF RunPair, PairingTypeOK, AnswerHasRow, CredentialKnown, desk
  <2>. QED
    BY <1>1, <2>1, <2>2, WaitingUntouched DEF RunPair, desk
<1>2. CASE Connected(a)
  <2>1. PairingTypeOK'
    BY <1>2 DEF Connected, PairingTypeOK, desk
  <2>2. AnswerHasRow' /\ CredentialKnown'
    BY <1>2 DEF Connected, PairingTypeOK, AnswerHasRow, CredentialKnown, desk
  <2>3. WaitingIsShown'
    BY <1>2 DEF Connected, PairingTypeOK, WaitingIsShown, desk
  <2>. QED
    BY <2>1, <2>2, <2>3
<1>3. CASE PairFails(a)
  <2>1. PairingTypeOK'
    BY <1>3, FinallyTypes DEF PairFails, Shows, PairingTypeOK, desk
  <2>2. AnswerHasRow' /\ CredentialKnown'
    BY <1>3 DEF PairFails, PairingTypeOK, AnswerHasRow, CredentialKnown, desk
  <2>. QED
    BY <1>3, <2>1, <2>2, WaitingUntouched DEF PairFails, desk
<1>4. CASE PairSucceeds(a)
  <2>1. PairingTypeOK'
    BY <1>4, FinallyTypes DEF PairSucceeds, Shows, PairingTypeOK, desk
  <2>2. AnswerHasRow' /\ CredentialKnown'
    BY <1>4 DEF PairSucceeds, PairingTypeOK, AnswerHasRow, CredentialKnown, desk
  <2>. QED
    BY <1>4, <2>1, <2>2, WaitingUntouched DEF PairSucceeds, desk
<1>5. CASE SaveCredential(a)
  <2>1. PairingTypeOK'
    BY <1>5 DEF SaveCredential, Shows, PairingTypeOK, desk
  <2>2. AnswerHasRow' /\ CredentialKnown'
    BY <1>5 DEF SaveCredential, PairingTypeOK, AnswerHasRow, CredentialKnown, desk
  <2>. QED
    BY <1>5, <2>1, <2>2, WaitingUntouched DEF SaveCredential, desk
<1>. QED
  BY <1>1, <1>2, <1>3, <1>4, <1>5

\* The handler's steps: a credential goes out with its row.
LEMMA HandlerKeeps ==
  ASSUME PairingInv, NEW a \in Attempt,
         RequestApproval(a) \/ HostSeesClose(a) \/ Rejects(a) \/ IssueCredentials(a) \/ Revoke(a)
  PROVE  PairingInv'
<1>. USE DEF PairingInv, PairingIsHonest
<1>1. CASE RequestApproval(a)
  <2>1. approvals' \in Seq(Attempt) /\ Len(approvals') = Len(approvals) + 1
        /\ approvals'[Len(approvals) + 1] = a /\ \A i \in DOMAIN approvals : approvals'[i] = approvals[i]
    <3>1. approvals \in Seq(Attempt) /\ approvals' = Append(approvals, a)
      BY <1>1 DEF RequestApproval, PairingTypeOK
    <3>. QED
      BY <3>1, AppendProperties, LenProperties
  <2>2. PairingTypeOK'
    BY <1>1, <2>1 DEF RequestApproval, PairingTypeOK, page
  <2>3. AnswerHasRow' /\ CredentialKnown'
    BY <1>1 DEF RequestApproval, PairingTypeOK, AnswerHasRow, CredentialKnown, page
  <2>4. WaitingIsShown'
    <3> SUFFICES ASSUME NEW b \in Attempt, request'[b] = "waiting"
                 PROVE  b = pending_pairing' \/ \E i \in DOMAIN approvals' : approvals'[i] = b
      BY DEF WaitingIsShown
    <3>1. DOMAIN approvals = 1 .. Len(approvals) /\ DOMAIN approvals' = 1 .. Len(approvals') /\ Len(approvals) \in Nat
      BY <2>1, LenProperties DEF PairingTypeOK
    <3>2. CASE b = a
      BY <2>1, <3>1, <3>2
    <3>3. CASE b # a
      <4>1. request[b] = "waiting" /\ pending_pairing' = pending_pairing
        BY <1>1, <3>3 DEF RequestApproval, PairingTypeOK
      <4>2. \A i \in DOMAIN approvals : i \in DOMAIN approvals'
        BY <2>1, <3>1
      <4>. QED
        BY <2>1, <4>1, <4>2 DEF WaitingIsShown
    <3>. QED
      BY <3>2, <3>3
  <2>. QED
    BY <2>2, <2>3, <2>4
<1>2. CASE HostSeesClose(a)
  <2>1. PairingTypeOK' /\ AnswerHasRow' /\ CredentialKnown'
    BY <1>2 DEF HostSeesClose, PairingTypeOK, AnswerHasRow, CredentialKnown, page, desk
  <2>. QED
    BY <1>2, <2>1, WaitingUntouched DEF HostSeesClose, page, desk
<1>3. CASE Rejects(a)
  <2>1. PairingTypeOK'
    BY <1>3 DEF Rejects, Answers, PairingTypeOK, page, desk
  <2>2. AnswerHasRow' /\ CredentialKnown'
    BY <1>3 DEF Rejects, Answers, PairingTypeOK, AnswerHasRow, CredentialKnown, page, desk
  <2>3. WaitingIsShown'
    BY <1>3 DEF Rejects, Answers, PairingTypeOK, WaitingIsShown, desk
  <2>. QED
    BY <2>1, <2>2, <2>3
<1>4. CASE IssueCredentials(a)
  <2>1. PairingTypeOK'
    <3>1. device' \in [Attempt -> {"none", "stored", "not saved", "revoked"}]
      BY <1>4 DEF IssueCredentials, PairingTypeOK
    <3>. QED
      BY <1>4, <3>1 DEF IssueCredentials, Answers, PairingTypeOK, page, desk
  <2>2. AnswerHasRow' /\ CredentialKnown'
    BY <1>4, ZenonT(30) DEF IssueCredentials, Answers, PairingTypeOK, AnswerHasRow, CredentialKnown, page, desk
  <2>3. WaitingIsShown'
    BY <1>4, ZenonT(30) DEF IssueCredentials, Answers, PairingTypeOK, WaitingIsShown, desk
  <2>. QED
    BY <2>1, <2>2, <2>3
<1>5. CASE Revoke(a)
  <2>1. PairingTypeOK' /\ AnswerHasRow' /\ CredentialKnown'
    BY <1>5 DEF Revoke, PairingTypeOK, AnswerHasRow, CredentialKnown, page, desk
  <2>. QED
    BY <1>5, <2>1, WaitingUntouched DEF Revoke, desk
<1>. QED
  BY <1>1, <1>2, <1>3, <1>4, <1>5

\* A decision keeps the types.
LEMMA DecidesTypes ==
  ASSUME PairingTypeOK, NEW a \in Attempt, NEW d \in {"approved", "rejected"}, Decides(a, d)
  PROVE  request' \in [Attempt -> {"none", "sent", "waiting", "approved", "rejected", "over"}]
BY DEF Decides, PairingTypeOK

\* The main thread's steps: a request leaves the queue for the dialog or is decided.
LEMMA DeskKeeps ==
  ASSUME PairingInv,
         OnPairingApprovalRequest \/ ResolvePairing \/ \E a \in Attempt : Watchdog(a)
  PROVE  PairingInv'
<1>. USE DEF PairingInv, PairingIsHonest
<1>1. CASE OnPairingApprovalRequest
  <2>1. /\ Head(approvals) = approvals[1] /\ Head(approvals) \in Attempt
        /\ approvals' \in Seq(Attempt)
        /\ \A i \in DOMAIN approvals : i # 1 => i - 1 \in DOMAIN approvals' /\ approvals'[i - 1] = approvals[i]
    <3>1. approvals \in Seq(Attempt) /\ approvals # <<>> /\ approvals' = Tail(approvals)
      BY <1>1 DEF OnPairingApprovalRequest, PairingTypeOK
    <3>a. Head(approvals) = approvals[1]
      BY <3>1
    <3>b. /\ Tail(approvals) \in Seq(Attempt) /\ Head(approvals) \in Attempt
          /\ Len(Tail(approvals)) = Len(approvals) - 1
          /\ \A i \in 1 .. Len(Tail(approvals)) : Tail(approvals)[i] = approvals[i + 1]
      BY <3>1, HeadTailProperties
    <3>2. /\ approvals' \in Seq(Attempt) /\ Head(approvals) = approvals[1] /\ Head(approvals) \in Attempt
          /\ Len(approvals') = Len(approvals) - 1
          /\ \A i \in 1 .. Len(approvals) - 1 : approvals'[i] = approvals[i + 1]
      BY <3>1, <3>a, <3>b
    <3>3. DOMAIN approvals = 1 .. Len(approvals) /\ DOMAIN approvals' = 1 .. Len(approvals) - 1 /\ Len(approvals) \in Nat
      BY <3>1, <3>2, LenProperties
    <3>4. ASSUME NEW i \in DOMAIN approvals, i # 1
          PROVE  i - 1 \in DOMAIN approvals' /\ approvals'[i - 1] = approvals[i]
      <4>1. i - 1 \in 1 .. Len(approvals) - 1 /\ (i - 1) + 1 = i
        BY <3>3, <3>4
      <4>. QED
        BY <3>2, <3>3, <4>1
    <3>. QED
      BY <3>2, <3>4
  <2>2. PairingTypeOK'
    <3>1. request' \in [Attempt -> {"none", "sent", "waiting", "approved", "rejected", "over"}]
      BY <1>1, <2>1, DecidesTypes, Zenon DEF OnPairingApprovalRequest, PairingTypeOK
    <3>2. {ref', pending_pairing', stored'} \subseteq Attempt \cup {"none"} /\ watching' \subseteq Attempt
      <4>1. pending_pairing' \in {pending_pairing, Head(approvals)} /\ watching' \in {watching, watching \cup {Head(approvals)}}
        BY <1>1 DEF OnPairingApprovalRequest
      <4>2. Head(approvals) \in Attempt
        BY <2>1
      <4>. QED
        BY <1>1, <4>1, <4>2 DEF OnPairingApprovalRequest, PairingTypeOK, page
    <3>. QED
      BY <1>1, <2>1, <3>1, <3>2 DEF OnPairingApprovalRequest, PairingTypeOK, page
  <2>3. AnswerHasRow' /\ CredentialKnown'
    BY <1>1 DEF OnPairingApprovalRequest, AnswerHasRow, CredentialKnown, page
  <2>4. WaitingIsShown'
    <3> SUFFICES ASSUME NEW b \in Attempt, request'[b] = "waiting"
                 PROVE  b = pending_pairing' \/ \E i \in DOMAIN approvals' : approvals'[i] = b
      BY DEF WaitingIsShown
    <3>1. request[b] = "waiting" /\ (pending_pairing # "none" => b # Head(approvals))
      BY <1>1, <2>1 DEF OnPairingApprovalRequest, Decides, PairingTypeOK
    <3>2. CASE b = pending_pairing
      BY <1>1, <3>2, AttemptAssumption DEF OnPairingApprovalRequest
    <3>3. CASE \E i \in DOMAIN approvals : approvals[i] = b
      BY <1>1, <2>1, <3>1, <3>3 DEF OnPairingApprovalRequest
    <3>. QED
      BY <3>1, <3>2, <3>3 DEF WaitingIsShown
  <2>. QED
    BY <2>2, <2>3, <2>4
<1>2. CASE ResolvePairing
  <2>1. PairingTypeOK'
    <3>1. request' \in [Attempt -> {"none", "sent", "waiting", "approved", "rejected", "over"}]
      <4>1. PICK d \in {"approved", "rejected"} : Decides(pending_pairing, d)
        BY <1>2 DEF ResolvePairing
      <4>. QED
        BY <1>2, <4>1, DecidesTypes DEF ResolvePairing, PairingTypeOK
    <3>2. {ref', pending_pairing', stored'} \subseteq Attempt \cup {"none"}
      BY <1>2 DEF ResolvePairing, PairingTypeOK, page
    <3>. QED
      BY <1>2, <3>1, <3>2 DEF ResolvePairing, PairingTypeOK, page
  <2>2. AnswerHasRow' /\ CredentialKnown'
    BY <1>2 DEF ResolvePairing, AnswerHasRow, CredentialKnown, page
  <2>3. WaitingIsShown'
    BY <1>2, ZenonT(30) DEF ResolvePairing, Decides, PairingTypeOK, WaitingIsShown
  <2>. QED
    BY <2>1, <2>2, <2>3
<1>3. CASE \E a \in Attempt : Watchdog(a)
  <2>1. PairingTypeOK'
    BY <1>3, ZenonT(30) DEF Watchdog, PairingTypeOK, page
  <2>2. AnswerHasRow' /\ CredentialKnown'
    BY <1>3 DEF Watchdog, AnswerHasRow, CredentialKnown, page
  <2>3. WaitingIsShown'
    BY <1>3 DEF Watchdog, WaitingIsShown
  <2>. QED
    BY <2>1, <2>2, <2>3
<1>. QED
  BY <1>1, <1>2, <1>3

\* What waits for the user is on the screen or queued, and a credential the browser keeps
\* has a row, for every number of attempts, cancels, timeouts and connection losses.
THEOREM PairingStaysHonest == PairingSpec => [](PairingTypeOK /\ PairingIsHonest)
<1>1. PairingInit => PairingInv
  <2> SUFFICES ASSUME PairingInit PROVE PairingInv
    OBVIOUS
  <2>1. PairingTypeOK
    <3>1. cancelled \in BOOLEAN /\ {ref, pending_pairing, stored} \subseteq Attempt \cup {"none"}
      BY DEF PairingInit
    <3>2. approvals \in Seq(Attempt) /\ watching \subseteq Attempt
      BY DEF PairingInit
    <3>. QED
      BY <3>1, <3>2 DEF PairingInit, PairingTypeOK
  <2>2. AnswerHasRow /\ PairingIsHonest
    BY DEF PairingInit, AnswerHasRow, PairingIsHonest, WaitingIsShown, CredentialKnown
  <2>. QED
    BY <2>1, <2>2 DEF PairingInv
<1>2. PairingInv /\ [PairingNext]_pairing_vars => PairingInv'
  <2> SUFFICES ASSUME PairingInv, [PairingNext]_pairing_vars PROVE PairingInv'
    OBVIOUS
  <2>1. CASE CancelApproving \/ ErrorBack \/ UNCHANGED pairing_vars
    <3>1. PairingTypeOK'
      <4>1. CASE CancelApproving
        <5>1. conn' \in [Attempt -> {"none", "open", "closed", "seen closed"}] /\ cancelled' \in BOOLEAN
          BY <4>1 DEF PairingInv, CancelApproving, Closed, PairingTypeOK
        <5>. QED
          BY <4>1, <5>1 DEF PairingInv, CancelApproving, PairingTypeOK, desk
      <4>2. CASE ErrorBack
        BY <4>2 DEF PairingInv, ErrorBack, PairingTypeOK, desk
      <4>3. CASE UNCHANGED pairing_vars
        BY <4>3 DEF PairingInv, PairingTypeOK, pairing_vars, page, desk
      <4>. QED
        BY <2>1, <4>1, <4>2, <4>3
    <3>2. AnswerHasRow' /\ CredentialKnown'
      BY <2>1 DEF PairingInv, PairingIsHonest, AnswerHasRow, CredentialKnown, CancelApproving, ErrorBack, pairing_vars, page, desk
    <3>3. WaitingIsShown'
      BY <2>1, WaitingUntouched DEF PairingInv, PairingIsHonest, CancelApproving, ErrorBack, pairing_vars, page, desk
    <3>. QED
      BY <3>1, <3>2, <3>3 DEF PairingInv, PairingIsHonest
  <2>. QED
    BY <2>1, PageKeeps, HandlerKeeps, DeskKeeps DEF PairingNext
<1>3. PairingInv => PairingTypeOK /\ PairingIsHonest
  BY DEF PairingInv
<1>. QED
  BY <1>1, <1>2, <1>3, PTL DEF PairingSpec

-----------------------------------------------------------------------------
(* AuditLog                                                                *)

Logs == [0 .. MaxFiles -> Seq(1 .. MaxLines)]

\* G is F with file r moved up by one.
Moved(F, G, r) == \A i \in 0 .. MaxFiles :
  G[i] = IF i = r + 1 THEN F[r] ELSE IF i = r THEN <<>> ELSE F[i]

\* An empty file holds nothing, and what a file holds is a line.
LEMMA HoldsLines ==
  ASSUME NEW f \in Seq(1 .. MaxLines), NEW n, Holds(f, n)
  PROVE  f # <<>> /\ n \in 1 .. MaxLines
<1>1. PICK k \in DOMAIN f : f[k] = n
  BY DEF Holds
<1>2. DOMAIN f = 1 .. Len(f) /\ Len(f) \in Nat
  BY LenProperties
<1>3. f[k] \in 1 .. MaxLines
  BY <1>1, <1>2, ElementOfSeq
<1>4. f # <<>>
  BY <1>1, <1>2
<1>. QED
  BY <1>1, <1>3, <1>4

\* Moving a file up keeps the lines in order, whatever it replaces.
LEMMA MoveKeepsOrder ==
  ASSUME NEW F \in Logs, NEW G \in Logs, NEW r \in 0 .. MaxFiles - 1, Moved(F, G, r), InOrder(F)
  PROVE  InOrder(G)
<1>. USE FilesAssumption
<1>0. DOMAIN F = 0 .. MaxFiles /\ DOMAIN G = 0 .. MaxFiles
  BY DEF Logs
<1>1. ASSUME NEW i \in 0 .. MaxFiles, NEW k \in DOMAIN G[i], NEW l \in DOMAIN G[i], k < l
      PROVE  G[i][k] < G[i][l]
  <2>1. CASE i = r + 1
    <3>1. G[i] = F[r] /\ r \in DOMAIN F
      BY <2>1, <1>0 DEF Moved
    <3>. QED
      BY <3>1, <1>1 DEF InOrder
  <2>2. CASE i = r
    BY <2>2, <1>1 DEF Moved
  <2>3. CASE i # r /\ i # r + 1
    <3>1. G[i] = F[i] /\ i \in DOMAIN F
      BY <2>3, <1>0 DEF Moved
    <3>. QED
      BY <3>1, <1>1 DEF InOrder
  <2>. QED
    BY <2>1, <2>2, <2>3
<1>2. ASSUME NEW i \in 0 .. MaxFiles, NEW j \in 0 .. MaxFiles, i > j,
             NEW m \in 1 .. MaxLines, NEW n \in 1 .. MaxLines, Holds(G[i], m), Holds(G[j], n)
      PROVE  m < n
  <2>1. G[i] # <<>> /\ G[j] # <<>>
    BY <1>2, HoldsLines DEF Logs
  <2>2. i # r /\ j # r
    BY <2>1 DEF Moved
  <2>. DEFINE s(x) == IF x = r + 1 THEN r ELSE x
  <2>3. G[i] = F[s(i)] /\ G[j] = F[s(j)] /\ s(i) \in 0 .. MaxFiles /\ s(j) \in 0 .. MaxFiles
    BY <2>2 DEF Moved
  <2>4. s(i) > s(j)
    BY <1>2, <2>2
  <2>. HIDE DEF s
  <2>. QED
    BY <1>0, <1>2, <2>3, <2>4 DEF InOrder
<1>. QED
  BY <1>0, <1>1, <1>2 DEF InOrder

\* What is kept after the move was kept before, in a file that the move does not replace.
LEMMA MoveKept ==
  ASSUME NEW F \in Logs, NEW G \in Logs, NEW r \in 0 .. MaxFiles - 1, Moved(F, G, r), NEW n
  PROVE  Kept(G, n) <=> \E i \in 0 .. MaxFiles \ {r + 1} : Holds(F[i], n)
<1>. USE FilesAssumption
<1>0. DOMAIN F = 0 .. MaxFiles /\ DOMAIN G = 0 .. MaxFiles
  BY DEF Logs
<1>1. ASSUME NEW i \in 0 .. MaxFiles, Holds(G[i], n)
      PROVE  \E j \in 0 .. MaxFiles \ {r + 1} : Holds(F[j], n)
  <2>1. G[i] # <<>>
    BY <1>1, HoldsLines DEF Logs
  <2>2. i # r
    BY <2>1 DEF Moved
  <2>3. CASE i = r + 1
    <3>1. G[i] = F[r] /\ r \in 0 .. MaxFiles \ {r + 1}
      BY <2>3 DEF Moved
    <3>. QED
      BY <1>1, <3>1
  <2>4. CASE i # r + 1
    BY <1>1, <2>2, <2>4 DEF Moved
  <2>. QED
    BY <2>3, <2>4
<1>2. ASSUME NEW j \in 0 .. MaxFiles \ {r + 1}, Holds(F[j], n)
      PROVE  \E i \in 0 .. MaxFiles : Holds(G[i], n)
  <2>1. CASE j = r
    <3>1. G[r + 1] = F[r] /\ r + 1 \in 0 .. MaxFiles
      BY DEF Moved
    <3>. QED
      BY <1>2, <2>1, <3>1
  <2>2. CASE j # r
    BY <1>2, <2>2 DEF Moved
  <2>. QED
    BY <2>1, <2>2
<1>. QED
  BY <1>0, <1>1, <1>2 DEF Kept

\* The move loses no line in between: what it replaces is empty, or the oldest file.
LEMMA MoveMissesNone ==
  ASSUME NEW F \in Logs, NEW G \in Logs, NEW r \in 0 .. MaxFiles - 1, Moved(F, G, r), InOrder(F),
         NEW last \in 0 .. MaxLines, NoneMissing(F, last),
         \A n \in 1 .. MaxLines : Kept(F, n) => n <= last,
         F[r + 1] = <<>> \/ (r + 1 = MaxFiles /\ F[r] # <<>>)
  PROVE  NoneMissing(G, last)
<1>. USE FilesAssumption
<1>0. DOMAIN F = 0 .. MaxFiles /\ DOMAIN G = 0 .. MaxFiles /\ r \in 0 .. MaxFiles /\ r + 1 \in 0 .. MaxFiles
  BY DEF Logs
<1>. SUFFICES ASSUME NEW n \in 1 .. last, n = last \/ Kept(G, n - 1)
              PROVE  Kept(G, n)
  BY DEF NoneMissing
<1>1. Kept(F, n)
  <2>1. Kept(G, n - 1) => Kept(F, n - 1)
    BY MoveKept, <1>0 DEF Kept
  <2>. QED
    BY <2>1 DEF NoneMissing
<1>2. PICK i \in 0 .. MaxFiles : Holds(F[i], n)
  BY <1>0, <1>1 DEF Kept
<1>3. CASE i # r + 1
  BY <1>2, <1>3, MoveKept
<1>4. CASE i = r + 1
  <2>1. F[r + 1] # <<>> /\ r + 1 = MaxFiles /\ F[r] # <<>> /\ n \in 1 .. MaxLines
    BY <1>0, <1>2, <1>4, HoldsLines DEF Logs
  <2>2. CASE n = last
    <3>1. F[r] \in Seq(1 .. MaxLines) /\ 1 \in DOMAIN F[r] /\ F[r][1] \in 1 .. MaxLines
      <4>1. F[r] \in Seq(1 .. MaxLines)
        BY <1>0 DEF Logs
      <4>. QED
        BY <2>1, <4>1, LenProperties, ElementOfSeq, EmptySeq
    <3>2. Holds(F[r], F[r][1])
      BY <3>1 DEF Holds
    <3>3. n < F[r][1]
      <4>1. r \in Nat /\ r + 1 > r
        BY <1>0
      <4>2. \A m, k \in 1 .. MaxLines : Holds(F[r + 1], m) /\ Holds(F[r], k) => m < k
        BY <1>0, <4>1 DEF InOrder
      <4>. QED
        BY <1>2, <1>4, <2>1, <3>1, <3>2, <4>2
    <3>4. F[r][1] <= last
      BY <1>0, <3>1, <3>2 DEF Kept
    <3>. QED
      BY <2>2, <3>1, <3>3, <3>4
  <2>3. CASE Kept(G, n - 1)
    <3>1. PICK j \in 0 .. MaxFiles \ {r + 1} : Holds(F[j], n - 1)
      BY <2>3, MoveKept
    <3>2. n - 1 \in 1 .. MaxLines
      BY <3>1, HoldsLines DEF Logs
    <3>3. n < n - 1
      BY <1>0, <1>2, <1>4, <2>1, <3>1, <3>2 DEF InOrder
    <3>. QED
      BY <3>2, <3>3
  <2>. QED
    BY <2>2, <2>3
<1>. QED
  BY <1>3, <1>4

\* The file being emptied or filled by a rotation, 0 when there is none.
Hole == IF rotating \in 0 .. MaxFiles - 2 THEN rotating + 1 ELSE 0

KeptIsLogged == \A n \in 1 .. MaxLines : Kept(Log, n) => n <= lines

\* As long as nothing failed, a rename replaces nothing.
HoleIsEmpty == fault # "failed" /\ Hole # 0 => Log[Hole] = <<>>

SizeIsKnown ==
  /\ file /\ rotating = NotRotating => bytes_written = Len(active)
  /\ rotating \in 0 .. MaxFiles - 1 => Len(active) >= RotateLines
  /\ ~exists => active = <<>>
  /\ file => exists
  /\ rotating # NotRotating => ~file
  /\ Len(active) <= lines

\* As long as every rotation was completed, the backups are full and have no gap.
BackupsFull == fault = "none" =>
  /\ \A i \in 1 .. MaxFiles : Log[i] # <<>> => Len(Log[i]) >= RotateLines
  /\ \A i, j \in 1 .. MaxFiles : i < j /\ i # Hole /\ Log[j] # <<>> => Log[i] # <<>>
  /\ lines > 0 /\ ~Kept(Log, 1) => \A i \in 1 .. MaxFiles \ {Hole} : Len(Log[i]) >= RotateLines

AuditInv ==
  /\ AuditTypeOK /\ KeptIsLogged /\ HoleIsEmpty /\ SizeIsKnown /\ BackupsFull
  /\ InOrder(Log)
  /\ fault # "failed" => NoneMissing(Log, lines)

\* A log is its open file and the backups beside it.
LEMMA FilesAreLogs ==
  ASSUME NEW a \in Seq(1 .. MaxLines), NEW b \in [1 .. MaxFiles -> Seq(1 .. MaxLines)]
  PROVE  [i \in 0 .. MaxFiles |-> IF i = 0 THEN a ELSE b[i]] \in Logs
<1>1. ASSUME NEW i \in 0 .. MaxFiles
      PROVE  (IF i = 0 THEN a ELSE b[i]) \in Seq(1 .. MaxLines)
  <2>1. i # 0 => i \in 1 .. MaxFiles
    BY FilesAssumption
  <2>. QED
    BY <2>1
<1>. QED
  BY <1>1 DEF Logs

\* The log is made of its files.
LEMMA LogIsLogs ==
  ASSUME AuditTypeOK
  PROVE  /\ Log \in Logs /\ DOMAIN Log = 0 .. MaxFiles
         /\ Log[0] = active /\ \A i \in 1 .. MaxFiles : Log[i] = backup[i]
<1>1. 0 \in 0 .. MaxFiles /\ 1 .. MaxFiles \subseteq 0 .. MaxFiles /\ 0 \notin 1 .. MaxFiles
  BY FilesAssumption
<1>2. Log \in Logs
  BY FilesAreLogs DEF Log, AuditTypeOK
<1>. QED
  BY <1>1, <1>2 DEF Log

\* The rename of a file, and that of the active one, move it up.
LEMMA RenameMoves ==
  ASSUME AuditTypeOK, AuditTypeOK',
         \/ /\ rotating \in 1 .. MaxFiles - 1 /\ active' = active
            /\ backup' = [backup EXCEPT ![rotating + 1] = backup[rotating], ![rotating] = <<>>]
         \/ rotating = 0 /\ backup' = [backup EXCEPT ![1] = active] /\ active' = <<>>
  PROVE  rotating \in 0 .. MaxFiles - 1 /\ Moved(Log, Log', rotating)
<1>. USE FilesAssumption
<1>1. rotating \in 0 .. MaxFiles - 1
  OBVIOUS
<1>2. ASSUME NEW i \in 0 .. MaxFiles
      PROVE  Log'[i] = IF i = rotating + 1 THEN Log[rotating] ELSE IF i = rotating THEN <<>> ELSE Log[i]
  <2>1. Log'[i] = IF i = 0 THEN active' ELSE backup'[i]
    BY DEF Log
  <2>2. Log[i] = (IF i = 0 THEN active ELSE backup[i]) /\ Log[rotating] = IF rotating = 0 THEN active ELSE backup[rotating]
    BY <1>1 DEF Log
  <2>3. CASE rotating = 0 /\ backup' = [backup EXCEPT ![1] = active] /\ active' = <<>>
    <3>1. DOMAIN backup = 1 .. MaxFiles
      BY DEF AuditTypeOK
    <3>2. \A j \in 1 .. MaxFiles : backup'[j] = IF j = 1 THEN active ELSE backup[j]
      BY <2>3, <3>1
    <3>3. i # 0 => i \in 1 .. MaxFiles
      OBVIOUS
    <3>. QED
      BY <2>1, <2>2, <2>3, <3>1, <3>2, <3>3
  <2>4. CASE /\ rotating \in 1 .. MaxFiles - 1 /\ active' = active
             /\ backup' = [backup EXCEPT ![rotating + 1] = backup[rotating], ![rotating] = <<>>]
    <3>1. DOMAIN backup = 1 .. MaxFiles
      BY DEF AuditTypeOK
    <3>2. \A j \in 1 .. MaxFiles : backup'[j] =
            IF j = rotating THEN <<>> ELSE IF j = rotating + 1 THEN backup[rotating] ELSE backup[j]
      BY <2>4, <3>1
    <3>3. i # 0 => i \in 1 .. MaxFiles
      OBVIOUS
    <3>. QED
      BY <2>1, <2>2, <2>4, <3>1, <3>2, <3>3
  <2>. QED
    BY <2>3, <2>4
<1>. QED
  BY <1>1, <1>2 DEF Moved

\* A rename that moves a file that is not empty keeps every part of the invariant about
\* the lines, and leaves the gap where the file was.
LEMMA RenameKeeps ==
  ASSUME AuditInv, AuditTypeOK', rotating \in 0 .. MaxFiles - 1, Moved(Log, Log', rotating),
         Log[rotating] # <<>>, Hole' = rotating, UNCHANGED <<lines, fault>>
  PROVE  /\ KeptIsLogged' /\ HoleIsEmpty' /\ BackupsFull' /\ InOrder(Log)'
         /\ (fault # "failed" => NoneMissing(Log, lines))'
<1>. DEFINE F == Log
            G == Log'
            r == rotating
<1>. USE FilesAssumption
<1>1. F \in Logs /\ G \in Logs /\ lines \in 0 .. MaxLines
  BY FilesAreLogs DEF AuditInv, AuditTypeOK, Log
<1>2. /\ DOMAIN F = 0 .. MaxFiles /\ DOMAIN G = 0 .. MaxFiles /\ r \in 0 .. MaxFiles - 1
      /\ Moved(F, G, r) /\ InOrder(F) /\ F[r] # <<>>
  BY <1>1 DEF AuditInv, Logs
<1>3. Hole \in {0, r + 1} /\ (r + 1 # MaxFiles => Hole = r + 1)
  BY DEF Hole
<1>4. fault # "failed" => F[r + 1] = <<>> \/ r + 1 = MaxFiles
  BY <1>3 DEF AuditInv, HoleIsEmpty
<1>5. ASSUME NEW n PROVE Kept(G, n) <=> \E i \in 0 .. MaxFiles \ {r + 1} : Holds(F[i], n)
  BY <1>1, <1>2, MoveKept
<1>6. \A n \in 1 .. MaxLines : Kept(F, n) => n <= lines
  BY DEF AuditInv, KeptIsLogged
<1>7. KeptIsLogged'
  BY <1>2, <1>5, <1>6 DEF KeptIsLogged, Kept
<1>8. HoleIsEmpty'
  BY <1>2 DEF HoleIsEmpty, Moved
<1>9. InOrder(G)
  BY <1>1, <1>2, MoveKeepsOrder
<1>10. (fault # "failed" => NoneMissing(Log, lines))'
  BY <1>1, <1>2, <1>4, <1>6, MoveMissesNone DEF AuditInv
<1>11. BackupsFull'
  <2> SUFFICES ASSUME fault = "none"
      PROVE  /\ \A i \in 1 .. MaxFiles : G[i] # <<>> => Len(G[i]) >= RotateLines
             /\ \A i, j \in 1 .. MaxFiles : i < j /\ i # r /\ G[j] # <<>> => G[i] # <<>>
             /\ lines > 0 /\ ~Kept(G, 1) => \A i \in 1 .. MaxFiles \ {r} : Len(G[i]) >= RotateLines
    BY DEF BackupsFull
  <2>1. Len(F[r]) >= RotateLines
    <3>1. CASE r = 0
      BY <3>1, LogIsLogs DEF AuditInv, SizeIsKnown
    <3>2. CASE r # 0
      BY <1>2, <3>2 DEF AuditInv, BackupsFull
    <3>. QED
      BY <3>1, <3>2
  <2>2. \A i \in 1 .. MaxFiles : F[i] # <<>> => Len(F[i]) >= RotateLines
    BY DEF AuditInv, BackupsFull
  <2>3. \A i, j \in 1 .. MaxFiles : i < j /\ i # Hole /\ F[j] # <<>> => F[i] # <<>>
    BY DEF AuditInv, BackupsFull
  <2>4. \A i \in 1 .. MaxFiles : G[i] = IF i = r + 1 THEN F[r] ELSE IF i = r THEN <<>> ELSE F[i]
    BY <1>2 DEF Moved
  <2>5. \A i \in 1 .. MaxFiles : G[i] # <<>> => Len(G[i]) >= RotateLines
    BY <2>1, <2>2, <2>4
  <2>6. ASSUME NEW i \in 1 .. MaxFiles, NEW j \in 1 .. MaxFiles, i < j, i # r, G[j] # <<>>
        PROVE  G[i] # <<>>
    <3>1. CASE i = r + 1
      BY <1>2, <2>4, <3>1
    <3>2. CASE i # r + 1 /\ j = r + 1
      <4>1. i < r /\ r \in 1 .. MaxFiles /\ i # Hole
        BY <1>2, <1>3, <2>6, <3>2
      <4>2. F[i] # <<>>
        BY <1>2, <2>3, <4>1
      <4>. QED
        BY <2>4, <2>6, <3>2, <4>2
    <3>3. CASE i # r + 1 /\ j # r + 1
      <4>1. G[j] = F[j] /\ G[i] = F[i] /\ i # Hole
        BY <1>3, <2>4, <2>6, <3>3
      <4>. QED
        BY <2>3, <2>6, <4>1
    <3>. QED
      BY <3>1, <3>2, <3>3
  <2>7. ASSUME lines > 0, ~Kept(G, 1), NEW i \in 1 .. MaxFiles, i # r
        PROVE  Len(G[i]) >= RotateLines
    <3>1. CASE i = r + 1
      BY <2>1, <2>4, <3>1
    <3>2. CASE i # r + 1
      <4>1. G[i] = F[i] /\ i # Hole
        BY <1>3, <2>4, <2>7, <3>2
      <4>2. CASE ~Kept(F, 1)
        BY <2>7, <4>1, <4>2 DEF AuditInv, BackupsFull
      <4>3. CASE Kept(F, 1)
        <5>1. Holds(F[r + 1], 1)
          BY <1>2, <1>5, <2>7, <4>3 DEF Kept
        <5>2. F[r + 1] \in Seq(1 .. MaxLines)
          BY <1>1, <1>2 DEF Logs
        <5>3. F[r + 1] # <<>> /\ r + 1 = MaxFiles
          BY <1>4, <5>1, <5>2, HoldsLines
        <5>4. F[i] # <<>>
          BY <2>3, <3>2, <4>1, <5>3
        <5>. QED
          BY <2>2, <4>1, <5>4
      <4>. QED
        BY <4>2, <4>3
    <3>. QED
      BY <3>1, <3>2
  <2>. QED
    BY <2>5, <2>6, <2>7
<1>. QED
  BY <1>7, <1>8, <1>9, <1>10, <1>11

\* A line appended to the active file is the last of all.
LEMMA AppendKeeps ==
  ASSUME NEW F \in Logs, NEW G \in Logs, NEW last \in 0 .. MaxLines - 1, InOrder(F),
         G[0] = Append(F[0], last + 1), \A i \in 1 .. MaxFiles : G[i] = F[i],
         \A n \in 1 .. MaxLines : Kept(F, n) => n <= last
  PROVE  /\ InOrder(G)
         /\ \A n : Kept(G, n) <=> Kept(F, n) \/ n = last + 1
         /\ NoneMissing(F, last) => NoneMissing(G, last + 1)
<1>. USE FilesAssumption
<1>0. DOMAIN F = 0 .. MaxFiles /\ DOMAIN G = 0 .. MaxFiles /\ 0 \in 0 .. MaxFiles /\ last + 1 \in 1 .. MaxLines
  BY DEF Logs
<1>1. F[0] \in Seq(1 .. MaxLines) /\ G[0] \in Seq(1 .. MaxLines)
  BY <1>0 DEF Logs
<1>2. /\ Len(F[0]) \in Nat /\ DOMAIN F[0] = 1 .. Len(F[0]) /\ DOMAIN G[0] = 1 .. Len(F[0]) + 1
      /\ G[0][Len(F[0]) + 1] = last + 1 /\ \A k \in DOMAIN F[0] : G[0][k] = F[0][k] /\ F[0][k] \in 1 .. MaxLines
  BY <1>0, <1>1, LenProperties, AppendProperties, ElementOfSeq
<1>3. ASSUME NEW n PROVE Holds(G[0], n) <=> Holds(F[0], n) \/ n = last + 1
  <2>1. \A k \in DOMAIN G[0] : k \in DOMAIN F[0] \/ k = Len(F[0]) + 1
    BY <1>2
  <2>2. Len(F[0]) + 1 \in DOMAIN G[0] /\ \A k \in DOMAIN F[0] : k \in DOMAIN G[0]
    BY <1>2
  <2>. QED
    BY <1>2, <2>1, <2>2 DEF Holds
<1>4. ASSUME NEW n PROVE Kept(G, n) <=> Kept(F, n) \/ n = last + 1
  <2>1. \A i \in 0 .. MaxFiles : i # 0 => Holds(G[i], n) <=> Holds(F[i], n)
    OBVIOUS
  <2>. QED
    BY <1>0, <1>3, <2>1 DEF Kept
<1>5. InOrder(G)
  <2>1. ASSUME NEW i \in 0 .. MaxFiles, NEW k \in DOMAIN G[i], NEW l \in DOMAIN G[i], k < l
        PROVE  G[i][k] < G[i][l]
    <3>1. CASE i # 0
      <4>1. G[i] = F[i]
        BY <3>1
      <4>. QED
        BY <1>0, <2>1, <4>1 DEF InOrder
    <3>2. CASE i = 0 /\ l \in DOMAIN F[0]
      <4>1. k \in DOMAIN F[0] /\ G[0][k] = F[0][k] /\ G[0][l] = F[0][l]
        BY <1>2, <2>1, <3>2
      <4>. QED
        BY <1>0, <2>1, <3>2, <4>1 DEF InOrder
    <3>3. CASE i = 0 /\ l \notin DOMAIN F[0]
      <4>1. l = Len(F[0]) + 1 /\ k \in DOMAIN F[0]
        BY <1>2, <2>1, <3>3
      <4>2. Kept(F, F[0][k]) /\ F[0][k] \in 1 .. MaxLines
        BY <1>0, <1>2, <4>1 DEF Kept, Holds
      <4>. QED
        BY <1>2, <3>3, <4>1, <4>2
    <3>. QED
      BY <3>1, <3>2, <3>3
  <2>2. ASSUME NEW i \in 0 .. MaxFiles, NEW j \in 0 .. MaxFiles, i > j,
               NEW m \in 1 .. MaxLines, NEW n \in 1 .. MaxLines, Holds(G[i], m), Holds(G[j], n)
        PROVE  m < n
    <3>1. Holds(F[i], m) /\ m <= last
      BY <1>0, <2>2 DEF Kept
    <3>2. CASE j = 0 /\ n = last + 1
      BY <3>1, <3>2
    <3>3. CASE ~(j = 0 /\ n = last + 1)
      <4>1. Holds(F[j], n)
        <5>1. CASE j = 0
          BY <1>3, <2>2, <3>3, <5>1
        <5>2. CASE j # 0
          BY <2>2, <5>2
        <5>. QED
          BY <5>1, <5>2
      <4>. QED
        BY <1>0, <2>2, <3>1, <4>1 DEF InOrder
    <3>. QED
      BY <3>2, <3>3
  <2>. QED
    BY <1>0, <2>1, <2>2 DEF InOrder
<1>6. ASSUME NoneMissing(F, last), NEW n \in 1 .. last + 1, n = last + 1 \/ Kept(G, n - 1)
      PROVE  Kept(G, n)
  <2>1. CASE n = last + 1
    BY <1>4, <2>1
  <2>2. CASE n # last + 1
    <3>1. n \in 1 .. last /\ Kept(F, n - 1)
      BY <1>4, <1>6, <2>2
    <3>. QED
      BY <1>4, <1>6, <3>1 DEF NoneMissing
  <2>. QED
    BY <2>1, <2>2
<1>. QED
  BY <1>4, <1>5, <1>6 DEF NoneMissing

\* The files, read as one log, stay in order whatever fails, miss no line as long as nothing
\* failed, and lose lines only when they are full, for every number and size of backups.
THEOREM AuditStaysInOrder == AuditSpec => [](AuditTypeOK /\ AuditInOrder)
<1>. MaxFiles \in Nat \ {0} /\ RotateLines \in Nat \ {0} /\ MaxLines \in Nat
  BY FilesAssumption
<1>1. AuditInit => AuditInv
  <2> SUFFICES ASSUME AuditInit PROVE AuditInv
    OBVIOUS
  <2>1. AuditTypeOK
    <3>1. exists \in BOOLEAN /\ file \in BOOLEAN /\ fault \in {"none", "cut off", "failed"}
      BY DEF AuditInit
    <3>2. active \in Seq(1 .. MaxLines) /\ backup \in [1 .. MaxFiles -> Seq(1 .. MaxLines)]
      BY DEF AuditInit
    <3>3. bytes_written \in 0 .. MaxLines /\ lines \in 0 .. MaxLines /\ rotating \in 0 .. NotRotating
      BY DEF AuditInit, NotRotating
    <3>. QED
      BY <3>1, <3>2, <3>3 DEF AuditTypeOK
  <2>2. \A i \in 0 .. MaxFiles : Log[i] = <<>>
    BY DEF AuditInit, Log
  <2>3. DOMAIN Log = 0 .. MaxFiles /\ \A n : ~Kept(Log, n)
    BY <2>1, <2>2, LogIsLogs DEF Kept, Holds
  <2>4. Hole = 0 /\ rotating \notin 0 .. MaxFiles - 1
    BY DEF AuditInit, NotRotating, Hole
  <2>5. KeptIsLogged /\ HoleIsEmpty /\ SizeIsKnown /\ BackupsFull
    BY <2>2, <2>3, <2>4 DEF AuditInit, KeptIsLogged, HoleIsEmpty, SizeIsKnown, BackupsFull
  <2>6. InOrder(Log) /\ NoneMissing(Log, lines)
    BY <2>2, <2>3 DEF AuditInit, InOrder, NoneMissing, Holds
  <2>. QED
    BY <2>1, <2>5, <2>6 DEF AuditInv
<1>2. AuditInv /\ [AuditNext]_audit_vars => AuditInv'
  <2> SUFFICES ASSUME AuditInv, [AuditNext]_audit_vars PROVE AuditInv'
    OBVIOUS
  <2>0. AuditTypeOK /\ Log \in Logs
    BY LogIsLogs DEF AuditInv
  <2>a. active \in Seq(1 .. MaxLines) /\ backup \in [1 .. MaxFiles -> Seq(1 .. MaxLines)]
    BY <2>0 DEF AuditTypeOK
  <2>b. lines \in 0 .. MaxLines /\ bytes_written \in 0 .. MaxLines /\ Len(active) \in Nat /\ Len(active) <= lines
    BY <2>0, <2>a, LenProperties DEF AuditTypeOK, AuditInv, SizeIsKnown
  <2>1. CASE LogLine
    <3>1. /\ active' = Append(active, lines + 1) /\ backup' = backup /\ lines' = lines + 1 /\ fault' = fault
          /\ bytes_written' = bytes_written + 1 /\ exists' = exists
          /\ rotating = NotRotating /\ file
      BY <2>1 DEF LogLine
    <3>a. lines \in 0 .. MaxLines - 1 /\ lines + 1 \in 1 .. MaxLines
      <4>1. lines < MaxLines
        BY <2>1 DEF LogLine
      <4>. QED
        BY <2>b, <4>1
    <3>2. active' \in Seq(1 .. MaxLines) /\ Len(active') = Len(active) + 1 /\ Len(active) \in Nat /\ active' # <<>>
      <4>1. active \in Seq(1 .. MaxLines)
        BY <2>0 DEF AuditTypeOK
      <4>2. /\ Append(active, lines + 1) \in Seq(1 .. MaxLines) /\ Append(active, lines + 1) # <<>>
            /\ Len(Append(active, lines + 1)) = Len(active) + 1
        BY <3>a, <4>1, AppendProperties
      <4>. QED
        BY <3>1, <4>1, <4>2, LenProperties
    <3>3. bytes_written = Len(active) /\ Len(active) <= lines
      BY <3>1 DEF AuditInv, SizeIsKnown
    <3>4. \/ rotating' = MaxFiles - 1 /\ file' = FALSE /\ Len(active') >= RotateLines
          \/ rotating' = NotRotating /\ file' = file
      BY <2>1, <3>1, <3>2, <3>3 DEF LogLine
    <3>5. AuditTypeOK'
      <4>1. file' \in BOOLEAN /\ exists' \in BOOLEAN
        BY <2>0, <3>1, <3>4 DEF AuditTypeOK
      <4>2. rotating' \in 0 .. NotRotating
        BY <3>4 DEF NotRotating
      <4>3. bytes_written' \in 0 .. MaxLines /\ lines' \in 0 .. MaxLines
        BY <3>1, <3>a, <3>2, <3>3
      <4>. QED
        BY <2>0, <3>1, <3>2, <4>1, <4>2, <4>3 DEF AuditTypeOK
    <3>6. Log' \in Logs /\ Log'[0] = Append(Log[0], lines + 1) /\ \A i \in 1 .. MaxFiles : Log'[i] = Log[i]
      <4>1. Log' \in Logs
        BY <3>5, FilesAreLogs DEF AuditTypeOK, Log
      <4>. QED
        BY <3>1, <4>1 DEF Log
    <3>7. /\ InOrder(Log') /\ \A n : Kept(Log', n) <=> Kept(Log, n) \/ n = lines + 1
          /\ NoneMissing(Log, lines) => NoneMissing(Log', lines + 1)
      BY <2>0, <3>a, <3>6, AppendKeeps DEF AuditInv, KeptIsLogged
    <3>8. Hole = 0 /\ Hole' = 0
      <4>1. rotating = NotRotating /\ rotating' \in {MaxFiles - 1, NotRotating}
        BY <3>1, <3>4
      <4>. QED
        <5>1. MaxFiles - 1 \notin 0 .. MaxFiles - 2 /\ NotRotating \notin 0 .. MaxFiles - 2
          BY DEF NotRotating
        <5>. QED
          BY <4>1, <5>1 DEF Hole
    <3>9. KeptIsLogged' /\ HoleIsEmpty'
      BY <3>1, <3>a, <3>7, <3>8 DEF AuditInv, KeptIsLogged, HoleIsEmpty
    <3>10. SizeIsKnown'
      <4>1. exists'
        <5>1. file => exists
          BY DEF AuditInv, SizeIsKnown
        <5>. QED
          BY <3>1, <5>1, Zenon
      <4>2. file' /\ rotating' = NotRotating => bytes_written' = Len(active')
        BY <3>1, <3>2, <3>3
      <4>3. rotating' \in 0 .. MaxFiles - 1 => Len(active') >= RotateLines
        BY <3>4 DEF NotRotating
      <4>4. Len(active') <= lines'
        BY <3>1, <3>a, <3>2, <3>3
      <4>5. rotating' # NotRotating => ~file'
        BY <3>4
      <4>. QED
        BY <4>1, <4>2, <4>3, <4>4, <4>5 DEF SizeIsKnown
    <3>11. BackupsFull'
      <4>1. lines' > 0 /\ ~Kept(Log', 1) => lines > 0 /\ ~Kept(Log, 1)
        BY <3>1, <3>a, <3>7
      <4>. QED
        BY <3>1, <3>6, <3>8, <4>1 DEF AuditInv, BackupsFull
    <3>. QED
      BY <3>1, <3>5, <3>7, <3>9, <3>10, <3>11 DEF AuditInv
  <2>2. CASE LogFails
    <3>1. /\ lines' = lines + 1 /\ fault' = "failed" /\ UNCHANGED <<active, backup, exists, file, bytes_written, rotating>>
      BY <2>2 DEF LogFails, files
    <3>2. lines + 1 \in 0 .. MaxLines
      <4>1. lines < MaxLines
        BY <2>2 DEF LogFails
      <4>. QED
        BY <2>b, <4>1
    <3>3. Log' = Log /\ Hole' = Hole
      BY <3>1 DEF Log, Hole
    <3>4. AuditTypeOK'
      BY <2>0, <3>1, <3>2 DEF AuditTypeOK
    <3>5. KeptIsLogged'
      <4>1. \A n \in 1 .. MaxLines : Kept(Log, n) => n <= lines
        BY DEF AuditInv, KeptIsLogged
      <4>2. \A n \in 1 .. MaxLines : n <= lines => n <= lines + 1
        BY <2>b
      <4>. QED
        BY <3>1, <3>3, <4>1, <4>2 DEF KeptIsLogged
    <3>6. SizeIsKnown'
      <4>1. Len(active) <= lines + 1
        BY <2>b
      <4>. QED
        BY <3>1, <4>1 DEF AuditInv, SizeIsKnown
    <3>. QED
      BY <3>1, <3>3, <3>4, <3>5, <3>6 DEF AuditInv, HoleIsEmpty, BackupsFull
  <2>3. ASSUME rotating \in 0 .. MaxFiles - 1, Fails,
               rotating' = (IF rotating = 0 THEN MaxFiles ELSE rotating - 1), UNCHANGED <<file, bytes_written, lines>>
        PROVE  AuditInv'
    <3>1. fault' = "failed" /\ UNCHANGED <<active, backup, exists>>
      BY <2>3 DEF Fails, files
    <3>2. Log' = Log
      BY <3>1 DEF Log
    <3>3. rotating' \in 0 .. NotRotating /\ rotating' # NotRotating
      BY <2>3 DEF NotRotating
    <3>4. AuditTypeOK'
      BY <2>0, <2>3, <3>1, <3>3 DEF AuditTypeOK
    <3>5. SizeIsKnown'
      <4>1. rotating # NotRotating
        BY <2>3 DEF NotRotating
      <4>2. ~file' /\ (~exists' => active' = <<>>) /\ Len(active') <= lines' /\ Len(active') >= RotateLines
        BY <2>3, <3>1, <4>1 DEF AuditInv, SizeIsKnown
      <4>. QED
        BY <3>3, <4>2 DEF SizeIsKnown
    <3>. QED
      BY <2>3, <3>1, <3>2, <3>4, <3>5 DEF AuditInv, KeptIsLogged, HoleIsEmpty, BackupsFull
  <2>4. CASE ShiftBackup
    <3>1. rotating \in 1 .. MaxFiles - 1 /\ rotating' = rotating - 1 /\ UNCHANGED <<file, bytes_written, lines>>
      BY <2>4 DEF ShiftBackup
    <3>2. CASE backup[rotating] # <<>> /\ Fails
      BY <2>3, <3>1, <3>2
    <3>3. /\ rotating' \in 0 .. MaxFiles - 2 /\ rotating' # NotRotating /\ Hole' = rotating
          /\ rotating \in 0 .. MaxFiles - 1 /\ rotating # NotRotating /\ rotating \in 1 .. MaxFiles
      BY <3>1 DEF NotRotating, Hole
    <3>4. ASSUME UNCHANGED <<active, exists, fault>>, backup' \in [1 .. MaxFiles -> Seq(1 .. MaxLines)]
          PROVE  AuditTypeOK' /\ SizeIsKnown'
      <4>1. rotating' \in 0 .. NotRotating
        BY <3>3 DEF NotRotating
      <4>2. AuditTypeOK'
        BY <2>0, <3>1, <3>4, <4>1 DEF AuditTypeOK
      <4>3. ~file' /\ (~exists' => active' = <<>>) /\ Len(active') <= lines' /\ Len(active') >= RotateLines
        BY <3>1, <3>3, <3>4 DEF AuditInv, SizeIsKnown
      <4>. QED
        BY <3>3, <4>2, <4>3 DEF SizeIsKnown
    <3>5. CASE backup[rotating] = <<>> /\ backup' = backup /\ UNCHANGED <<active, exists, fault>>
      <4>1. Log' = Log /\ Log[rotating] = <<>>
        BY <2>0, <3>3, <3>5, LogIsLogs DEF Log
      <4>2. AuditTypeOK' /\ SizeIsKnown'
        BY <2>0, <3>4, <3>5 DEF AuditTypeOK
      <4>3. rotating # Hole
        BY <3>1 DEF Hole
      <4>4. BackupsFull'
        <5> SUFFICES ASSUME fault = "none"
              PROVE  /\ \A i \in 1 .. MaxFiles : Log[i] # <<>> => Len(Log[i]) >= RotateLines
                     /\ \A i, j \in 1 .. MaxFiles : i < j /\ i # rotating /\ Log[j] # <<>> => Log[i] # <<>>
                     /\ lines > 0 /\ ~Kept(Log, 1) => \A i \in 1 .. MaxFiles \ {rotating} : Len(Log[i]) >= RotateLines
          BY <3>1, <3>3, <3>5, <4>1 DEF BackupsFull
        <5>1. \A i \in 1 .. MaxFiles : Log[i] # <<>> => Len(Log[i]) >= RotateLines
          BY DEF AuditInv, BackupsFull
        <5>2. ASSUME NEW i \in 1 .. MaxFiles, NEW j \in 1 .. MaxFiles, i < j, i # rotating, Log[j] # <<>>
              PROVE  Log[i] # <<>>
          <6>1. CASE i # Hole
            BY <5>2, <6>1 DEF AuditInv, BackupsFull
          <6>2. CASE i = Hole
            <7>1. rotating < j
              BY <3>1, <5>2, <6>2 DEF Hole
            <7>. QED
              BY <3>3, <4>1, <4>3, <5>2, <7>1 DEF AuditInv, BackupsFull
          <6>. QED
            BY <6>1, <6>2
        <5>3. ~(lines > 0 /\ ~Kept(Log, 1))
          <6>1. Len(Log[rotating]) = 0
            BY <4>1
          <6>. QED
            BY <3>3, <4>3, <6>1 DEF AuditInv, BackupsFull
        <5>. QED
          BY <5>1, <5>2, <5>3
      <4>5. HoleIsEmpty'
        BY <3>3, <4>1 DEF HoleIsEmpty
      <4>. QED
        BY <3>1, <3>5, <4>1, <4>2, <4>4, <4>5 DEF AuditInv, KeptIsLogged
    <3>6. CASE /\ backup[rotating] # <<>> /\ UNCHANGED <<active, exists, fault>>
               /\ backup' = [backup EXCEPT ![rotating + 1] = backup[rotating], ![rotating] = <<>>]
      <4>1. backup' \in [1 .. MaxFiles -> Seq(1 .. MaxLines)]
        <5>1. <<>> \in Seq(1 .. MaxLines) /\ backup[rotating] \in Seq(1 .. MaxLines)
          BY <2>a, <3>3
        <5>. QED
          BY <2>a, <3>6, <5>1
      <4>2. AuditTypeOK' /\ SizeIsKnown'
        BY <3>4, <3>6, <4>1
      <4>3. Moved(Log, Log', rotating)
        BY <2>0, <3>1, <3>6, <4>2, RenameMoves
      <4>4. Log[rotating] # <<>>
        BY <2>0, <3>3, <3>6, LogIsLogs
      <4>. QED
        BY <3>1, <3>3, <3>6, <4>2, <4>3, <4>4, RenameKeeps DEF AuditInv
    <3>. QED
      BY <2>4, <3>2, <3>5, <3>6 DEF ShiftBackup
  <2>5. CASE MoveActive
    <3>1. /\ rotating = 0 /\ rotating' = MaxFiles /\ UNCHANGED <<file, bytes_written, lines>>
          /\ rotating \in 0 .. MaxFiles - 1 /\ rotating # NotRotating
      BY <2>5 DEF MoveActive, Reopening, NotRotating
    <3>2. CASE Fails
      BY <2>3, <3>1, <3>2
    <3>3. CASE exists /\ backup' = [backup EXCEPT ![1] = active] /\ active' = <<>> /\ exists' = FALSE /\ UNCHANGED fault
      <4>1. active' \in Seq(1 .. MaxLines) /\ Len(active') = 0
        BY <3>3
      <4>2. backup' \in [1 .. MaxFiles -> Seq(1 .. MaxLines)]
        BY <2>0, <3>3 DEF AuditTypeOK
      <4>3. rotating' \in 0 .. NotRotating /\ rotating' # NotRotating /\ rotating' \notin 0 .. MaxFiles - 1 /\ Hole' = 0
        BY <3>1 DEF NotRotating, Hole
      <4>4. exists' \in BOOLEAN /\ file' \in BOOLEAN
        BY <2>0, <3>1, <3>3 DEF AuditTypeOK
      <4>5. AuditTypeOK'
        BY <2>0, <3>1, <3>3, <4>1, <4>2, <4>3, <4>4 DEF AuditTypeOK
      <4>6. ~file'
        BY <3>1 DEF AuditInv, SizeIsKnown
      <4>7. SizeIsKnown'
        <5>1. Len(active') <= lines'
          BY <3>1, <4>1, <2>b
        <5>. QED
          BY <3>3, <4>3, <4>6, <5>1 DEF SizeIsKnown
      <4>8. Moved(Log, Log', rotating)
        BY <2>0, <3>1, <3>3, <4>5, RenameMoves
      <4>9. Log[rotating] # <<>>
        <5>1. Len(active) >= RotateLines
          BY <3>1 DEF AuditInv, SizeIsKnown
        <5>. QED
          BY <2>0, <3>1, <5>1, LogIsLogs
      <4>. QED
        BY <3>1, <3>3, <4>3, <4>5, <4>7, <4>8, <4>9, RenameKeeps DEF AuditInv
    <3>. QED
      BY <2>5, <3>2, <3>3 DEF MoveActive
  <2>6. CASE Reopen \/ AuditRestart
    <3>1. rotating' = NotRotating /\ OpensLog /\ UNCHANGED <<active, backup, lines>>
      BY <2>6 DEF Reopen, AuditRestart
    <3>2. Log' = Log /\ Hole' = 0
      BY <3>1 DEF Log, Hole, NotRotating
    <3>3. Len(active) \in Nat /\ Len(active) <= lines
      BY <2>0, LenProperties DEF AuditInv, SizeIsKnown, AuditTypeOK
    <3>4. CASE file' = TRUE /\ exists' = TRUE /\ bytes_written' = Len(active)
               /\ fault' = IF rotating \in 0 .. Reopening - 1 /\ fault = "none" THEN "cut off" ELSE fault
      <4>1. exists' \in BOOLEAN /\ file' \in BOOLEAN /\ fault' \in {"none", "cut off", "failed"}
        BY <2>0, <3>4 DEF AuditTypeOK
      <4>2. bytes_written' \in 0 .. MaxLines /\ lines' \in 0 .. MaxLines /\ rotating' \in 0 .. NotRotating
        <5>1. bytes_written' = Len(active) /\ lines' = lines
          BY <3>1, <3>4
        <5>2. rotating' \in 0 .. NotRotating
          BY <3>1 DEF NotRotating
        <5>. QED
          BY <2>b, <5>1, <5>2
      <4>3. AuditTypeOK'
        BY <2>0, <3>1, <4>1, <4>2 DEF AuditTypeOK
      <4>4. SizeIsKnown'
        <5>1. rotating' \notin 0 .. MaxFiles - 1
          BY <3>1 DEF NotRotating
        <5>. QED
          BY <2>b, <3>1, <3>4, <5>1 DEF SizeIsKnown
      <4>5. (fault' = "failed" <=> fault = "failed") /\ (fault' = "none" => fault = "none" /\ Hole = 0)
        <5>1. rotating \in 0 .. MaxFiles - 2 => rotating \in 0 .. Reopening - 1
          BY DEF Reopening
        <5>. QED
          BY <3>4, <5>1 DEF Hole
      <4>6. BackupsFull'
        BY <3>1, <3>2, <4>5 DEF AuditInv, BackupsFull
      <4>. QED
        BY <3>1, <3>2, <4>3, <4>4, <4>5, <4>6 DEF AuditInv, KeptIsLogged, HoleIsEmpty
    <3>5. CASE file' = FALSE /\ fault' = "failed" /\ UNCHANGED <<exists, bytes_written>>
      <4>1. exists' \in BOOLEAN /\ file' \in BOOLEAN
        BY <2>0, <3>5 DEF AuditTypeOK
      <4>2. AuditTypeOK'
        <5>1. rotating' \in 0 .. NotRotating
          BY <3>1 DEF NotRotating
        <5>. QED
          BY <2>0, <3>1, <3>5, <4>1, <5>1 DEF AuditTypeOK
      <4>3. SizeIsKnown'
        BY <3>1, <3>3, <3>5 DEF AuditInv, SizeIsKnown, NotRotating
      <4>. QED
        BY <3>1, <3>2, <3>5, <4>2, <4>3 DEF AuditInv, KeptIsLogged, HoleIsEmpty, BackupsFull
    <3>. QED
      BY <3>1, <3>4, <3>5 DEF OpensLog
  <2>7. CASE UNCHANGED audit_vars
    BY <2>7 DEF audit_vars, files, AuditInv, AuditTypeOK, KeptIsLogged, HoleIsEmpty, SizeIsKnown, BackupsFull, Log, Hole
  <2>. QED
    BY <2>1, <2>2, <2>4, <2>5, <2>6, <2>7 DEF AuditNext
<1>3. AuditInv => AuditTypeOK /\ AuditInOrder
  <2> SUFFICES ASSUME AuditInv PROVE AuditTypeOK /\ AuditInOrder
    OBVIOUS
  <2>1. ASSUME fault = "none", lines > 0, ~Kept(Log, 1) PROVE AllButOneFull(Log)
    <3>1. /\ DOMAIN Log = 0 .. MaxFiles /\ Log[0] = active /\ Hole \in 0 .. MaxFiles
          /\ \A i \in 1 .. MaxFiles \ {Hole} : Len(Log[i]) >= RotateLines
      BY <2>1, LogIsLogs DEF AuditInv, BackupsFull, Hole
    <3>2. CASE Hole = 0
      BY <3>1, <3>2, SMTT(30) DEF AllButOneFull
    <3>3. CASE Hole # 0
      <4>1. Len(active) >= RotateLines
        BY <3>3 DEF Hole, AuditInv, SizeIsKnown
      <4>. QED
        <5>1. \A i \in 0 .. MaxFiles : i # 0 => i \in 1 .. MaxFiles
          OBVIOUS
        <5>. QED
          BY <3>1, <4>1, <5>1 DEF AllButOneFull
    <3>. QED
      BY <3>2, <3>3
  <2>. QED
    BY <2>1 DEF AuditInv, AuditInOrder
<1>. QED
  BY <1>1, <1>2, <1>3, PTL DEF AuditSpec

-----------------------------------------------------------------------------
(* Database                                                                *)

Migrated == {"ensure", "sync", "import", "rename", "open"}
Synced == {"import", "rename", "open"}

\* Migrations are recorded in order, whatever builds ran and however they ended: what
\* is recorded and not there is one whose error was ignored, or the table of 4.
MigrationsInv ==
  /\ items \subseteq 1 .. 7 /\ version \in 0 .. 7 /\ build \in 0 .. 7
  /\ swallowed \subseteq {2, 3}
  /\ 1 .. version \ items \subseteq swallowed \cup {4}
  /\ opening.step # "none" <=> build # 0
  /\ opening.step \in {"migrate", "record"} =>
        opening.of \in 1 .. build /\ opening.of <= version + 1
  /\ opening.step = "record" => opening.of \in items \cup swallowed
  /\ opening.step \in Migrated => build <= version
  /\ opening.step \in Migrated \ {"ensure"} /\ build >= 4 => 4 \in items

\* A program that has run left the old program's file renamed, or has taken note of it.
ImportInv ==
  /\ legacy \in BOOLEAN /\ stayed \in BOOLEAN /\ entered \in Nat
  /\ IsOpen \/ entered > 0 => stayed \/ ~legacy
  /\ EnteredKeyStays

AgentsInv ==
  /\ saved_tabs \subseteq agents
  /\ opening.step \in Synced => agents = BuiltIns(build)

DatabaseInv == MigrationsInv /\ ImportInv /\ AgentsInv

\* What follows a migration: the next one of the build, or the checks at its end.
LEMMA AfterKeeps ==
  ASSUME NEW b \in 1 .. 7, NEW v \in 1 .. b, NEW o, build = b, o = After(v)
  PROVE  \/ o.step = "migrate" /\ o.of = v + 1 /\ v + 1 \in 1 .. b
         \/ o.step = "ensure" /\ v = b
BY DEF After, At

\* A program that runs has its schema, the keys the user entered and the agents of its
\* saved tabs, for any builds, their agents, and any number of launches cut short.
THEOREM DatabaseStaysWhole == DatabaseSpec => []DatabaseIsWhole
<1>. USE DEF IsOpen, EnteredKeyStays
<1>1. DatabaseInit => DatabaseInv
  <2> SUFFICES ASSUME DatabaseInit PROVE DatabaseInv
    OBVIOUS
  <2>1. opening.step = "none" /\ build = 0 /\ swallowed = {}
    BY DEF DatabaseInit, NotRunning, At
  <2>2. items \subseteq 1 .. 7 /\ version \in 0 .. 7 /\ 1 .. version \ items \subseteq {4}
    BY DEF DatabaseInit
  <2>3. MigrationsInv
    BY <2>1, <2>2 DEF MigrationsInv, Migrated
  <2>4. ImportInv /\ AgentsInv
    <3>1. legacy \in BOOLEAN /\ stayed \in BOOLEAN /\ saved_tabs = {}
      BY DEF DatabaseInit
    <3>2. entered = 0
      BY DEF DatabaseInit
    <3>3. entered \in Nat /\ ~(entered > 0)
      BY <3>2
    <3>. QED
      BY <2>1, <3>1, <3>3 DEF ImportInv, AgentsInv, Synced
  <2>. QED
    BY <2>3, <2>4 DEF DatabaseInv
<1>2. DatabaseInv /\ [DatabaseNext]_database_vars => DatabaseInv'
  <2> SUFFICES ASSUME DatabaseInv, [DatabaseNext]_database_vars PROVE DatabaseInv'
    OBVIOUS
  <2>1. ASSUME NEW b \in Builds, Launches(b) PROVE DatabaseInv'
    <3>1. b \in 1 .. 7 /\ build' = b /\ opening'.step = "key"
      BY <2>1, DatabaseAssumption DEF Launches, At
    <3>. QED
      BY <2>1, <3>1 DEF Launches, disk_vars, DatabaseInv, MigrationsInv, ImportInv, AgentsInv, Migrated, Synced
  <2>2. ASSUME Ended, UNCHANGED <<items, version, agents, saved_tabs, api_key, legacy, swallowed, entered, stayed>>
        PROVE  DatabaseInv'
    <3>1. build' = 0 /\ opening'.step = "none"
      BY <2>2 DEF Ended, NotRunning, At
    <3>. QED
      BY <2>2, <3>1 DEF DatabaseInv, MigrationsInv, ImportInv, AgentsInv, Migrated, Synced
  <2>3. CASE Ends
    BY <2>2, <2>3 DEF Ends, disk_vars
  <2>4. CASE load_or_create_key
    <3>1. CASE Ended
      BY <2>2, <2>4, <3>1 DEF load_or_create_key
    <3>2. CASE opening' = At("migrate", 1) /\ build' = build
      <4>1. opening'.step = "migrate" /\ opening'.of = 1 /\ build \in 1 .. 7
        BY <2>4, <3>2 DEF load_or_create_key, At, DatabaseInv, MigrationsInv
      <4>. QED
        BY <2>4, <3>2, <4>1 DEF load_or_create_key, DatabaseInv, MigrationsInv, ImportInv, AgentsInv, Migrated, Synced
    <3>. QED
      BY <2>4, <3>1, <3>2 DEF load_or_create_key
  <2>5. CASE Migrates
    <3>. DEFINE v == opening.of
    <3>1. build \in 1 .. 7 /\ v \in 1 .. build /\ v <= version + 1 /\ opening.step = "migrate" /\ version \in 0 .. 7
      BY <2>5 DEF Migrates, DatabaseInv, MigrationsInv
    <3>2. UNCHANGED <<version, agents, saved_tabs, api_key, legacy, build, entered, stayed>>
      BY <2>5 DEF Migrates
    <3>3. CASE v <= version /\ opening' = After(v) /\ UNCHANGED <<items, swallowed>>
      <4>1. \/ opening'.step = "migrate" /\ opening'.of = v + 1 /\ v + 1 \in 1 .. build
            \/ opening'.step = "ensure" /\ v = build
        BY <3>1, <3>3, AfterKeeps
      <4>. QED
        BY <3>1, <3>2, <3>3, <4>1 DEF DatabaseInv, MigrationsInv, ImportInv, AgentsInv, Migrated, Synced
    <3>4. CASE opening' = At("record", v) /\ items' = items \cup {v} /\ swallowed' = swallowed
      <4>1. opening'.step = "record" /\ opening'.of = v
        BY <3>4 DEF At
      <4>. QED
        <5>1. items' \subseteq 1 .. 7 /\ v \in items' /\ items \subseteq items'
          <6>1. items \subseteq 1 .. 7 /\ v \in 1 .. 7
            BY <3>1 DEF DatabaseInv, MigrationsInv
          <6>. HIDE DEF v
          <6>. QED
            BY <3>4, <6>1
        <5>2. MigrationsInv'
          BY <3>1, <3>2, <3>4, <4>1, <5>1 DEF DatabaseInv, MigrationsInv, Migrated
        <5>3. ImportInv' /\ AgentsInv'
          BY <3>1, <3>2, <4>1 DEF DatabaseInv, ImportInv, AgentsInv, Synced
        <5>. QED
          BY <5>2, <5>3 DEF DatabaseInv
    <3>5. CASE opening' = At("record", v) /\ v \in IgnoresErrors /\ swallowed' = swallowed \cup {v} /\ items' = items
      <4>1. opening'.step = "record" /\ opening'.of = v
        BY <3>5 DEF At
      <4>. QED
        BY <3>1, <3>2, <3>5, <4>1 DEF IgnoresErrors, DatabaseInv, MigrationsInv, ImportInv, AgentsInv, Migrated, Synced
    <3>. QED
      BY <2>5, <3>3, <3>4, <3>5 DEF Migrates
  <2>6. CASE Records
    <3>. DEFINE v == opening.of
    <3>1. build \in 1 .. 7 /\ v \in 1 .. build /\ v <= version + 1 /\ version \in 0 .. 7 /\ v \in items \cup swallowed
      BY <2>6 DEF Records, DatabaseInv, MigrationsInv
    <3>2. \/ opening'.step = "migrate" /\ opening'.of = v + 1 /\ v + 1 \in 1 .. build
          \/ opening'.step = "ensure" /\ v = build
      BY <2>6, <3>1, AfterKeeps DEF Records
    <3>3. 1 .. v \ items \subseteq swallowed \cup {4}
      BY <3>1 DEF DatabaseInv, MigrationsInv
    <3>. QED
      BY <2>6, <3>1, <3>2, <3>3 DEF Records, DatabaseInv, MigrationsInv, ImportInv, AgentsInv, Migrated, Synced
  <2>7. CASE EnsuresTables
    <3>1. opening'.step = "sync" /\ items' \subseteq 1 .. 7 /\ items \subseteq items' /\ (build >= 4 => 4 \in items')
      <4>1. build \in 0 .. 7 /\ items \subseteq 1 .. 7
        BY DEF DatabaseInv, MigrationsInv
      <4>2. items' = items \cup {v \in {4, 6} : v <= build} /\ opening' = At("sync", 0)
        BY <2>7 DEF EnsuresTables
      <4>3. opening'.step = "sync"
        BY <4>2 DEF At
      <4>4. {v \in {4, 6} : v <= build} \subseteq 1 .. 7
        OBVIOUS
      <4>5. build >= 4 => 4 \in {v \in {4, 6} : v <= build}
        BY <4>1
      <4>. QED
        BY <4>1, <4>2, <4>3, <4>4, <4>5
    <3>. QED
      BY <2>7, <3>1 DEF EnsuresTables, DatabaseInv, MigrationsInv, ImportInv, AgentsInv, Migrated, Synced
  <2>8. CASE sync_builtin_agents
    <3>1. opening'.step = "import"
      BY <2>8 DEF sync_builtin_agents, At
    <3>2. saved_tabs \subseteq BuiltIns(build)
      BY <2>8 DEF sync_builtin_agents, DatabaseInv, AgentsInv
    <3>. QED
      BY <2>8, <3>1, <3>2 DEF sync_builtin_agents, DatabaseInv, MigrationsInv, ImportInv, AgentsInv, Migrated, Synced
  <2>9. CASE ImportsKey
    <3>1. \/ legacy /\ api_key' \in {LegacyValue, api_key} /\ opening'.step = "rename" /\ stayed' = stayed
          \/ opening'.step = "open" /\ stayed' = (stayed \/ legacy) /\ api_key' = api_key
      BY <2>9 DEF ImportsKey, At
    <3>2. ImportInv'
      BY <2>9, <3>1 DEF ImportsKey, DatabaseInv, ImportInv
    <3>. QED
      BY <2>9, <3>1, <3>2 DEF ImportsKey, DatabaseInv, MigrationsInv, AgentsInv, Migrated, Synced
  <2>10. CASE Renames
    <3>1. opening'.step = "open" /\ legacy' \in BOOLEAN /\ stayed' = (stayed \/ legacy')
      BY <2>10 DEF Renames, At
    <3>2. ImportInv'
      BY <2>10, <3>1 DEF Renames, DatabaseInv, ImportInv
    <3>. QED
      BY <2>10, <3>1, <3>2 DEF Renames, DatabaseInv, MigrationsInv, AgentsInv, Migrated, Synced
  <2>11. CASE save_secret
    BY <2>11 DEF save_secret, DatabaseInv, MigrationsInv, ImportInv, AgentsInv
  <2>12. ASSUME NEW a, save_checkpointed_tab(a) \/ delete_checkpointed_tab(a) PROVE DatabaseInv'
    <3>1. UNCHANGED <<items, version, api_key, legacy, build, agents, opening, swallowed, entered, stayed>>
      BY <2>12 DEF save_checkpointed_tab, delete_checkpointed_tab
    <3>2. saved_tabs' \subseteq agents
      BY <2>12 DEF save_checkpointed_tab, delete_checkpointed_tab, DatabaseInv, AgentsInv
    <3>3. MigrationsInv'
      BY <3>1 DEF DatabaseInv, MigrationsInv
    <3>4. ImportInv' /\ AgentsInv'
      BY <3>1, <3>2 DEF DatabaseInv, ImportInv, AgentsInv
    <3>. QED
      BY <3>3, <3>4 DEF DatabaseInv
  <2>13. CASE UNCHANGED database_vars
    BY <2>13 DEF database_vars, disk_vars, DatabaseInv, MigrationsInv, ImportInv, AgentsInv
  <2>. QED
    BY <2>1, <2>3, <2>4, <2>5, <2>6, <2>7, <2>8, <2>9, <2>10, <2>11, <2>12, <2>13 DEF DatabaseNext
<1>3. DatabaseInv => DatabaseIsWhole
  <2> SUFFICES ASSUME DatabaseInv PROVE DatabaseIsWhole
    OBVIOUS
  <2>1. ASSUME IsOpen PROVE 1 .. build \ items \subseteq swallowed \cap {2, 3}
    <3>1. build \in 0 .. 7 /\ version \in 0 .. 7 /\ build <= version /\ (build >= 4 => 4 \in items)
      BY <2>1 DEF DatabaseInv, MigrationsInv, Migrated
    <3>2. \A v \in 1 .. build : v \in 1 .. version /\ (v = 4 => v \in items)
      BY <3>1
    <3>. QED
      BY <3>2 DEF DatabaseInv, MigrationsInv
  <2>. QED
    BY <2>1 DEF DatabaseInv, ImportInv, AgentsInv, Synced, DatabaseIsWhole, SchemaIsWhole, TabsHaveAgents
<1>. QED
  BY <1>1, <1>2, <1>3, PTL DEF DatabaseSpec

-------------------------------------------------------------------------------
(* The size aggregator (PtyBus) *)

\* Smallest is the least element of a set of numbers.
LEMMA SmallestIsLeast ==
    ASSUME NEW S, S \subseteq Nat, S # {}
    PROVE  Smallest(S) \in S /\ \A m \in S : Smallest(S) <= m
<1>1. PICK n \in S : \A m \in S : n <= m
  BY HasLeast
<1>. QED
  BY <1>1 DEF Smallest

\* The componentwise minimum over the attached clients is a size.
LEMMA MinOfIsSize ==
    ASSUME NEW pc \in [ClientId -> Sizes \union {NoSize}], Attached(pc) # {}
    PROVE  MinOf(pc) \in Sizes
<1>. DEFINE cols == {pc[c][1] : c \in Attached(pc)}
            rows == {pc[c][2] : c \in Attached(pc)}
<1>1. \A c \in Attached(pc) : pc[c] \in Cols \X Rows
  BY DEF Attached, Sizes
<1>2. cols # {} /\ cols \subseteq Cols /\ rows # {} /\ rows \subseteq Rows
  BY <1>1
<1>3. Smallest(cols) \in Cols /\ Smallest(rows) \in Rows
  BY <1>2, SmallestIsLeast, SizesAssumption
<1>. QED
  BY <1>3 DEF MinOf, Sizes

\* The bus keeps its types: the minimum it decides is always a possible size.
THEOREM BusTypeCorrect == BusSpec => []BusTypeOK
<1>1. BusInit => BusTypeOK
  BY SizesAssumption DEF BusInit, BusTypeOK
<1>2. ASSUME BusTypeOK, NEW pc \in [ClientId -> Sizes \union {NoSize}],
             UpdateWith(pc)
      PROVE  BusTypeOK'
  BY <1>2, MinOfIsSize DEF UpdateWith, BusTypeOK
<1>3. BusTypeOK /\ [BusNext]_busVars => BusTypeOK'
  <2> SUFFICES ASSUME BusTypeOK, [BusNext]_busVars PROVE BusTypeOK'
    OBVIOUS
  <2>1. CASE \E c \in ClientId, size \in Sizes : ReportClientSize(c, size)
    BY <1>2, <2>1 DEF ReportClientSize, BusTypeOK
  <2>2. CASE \E c \in ClientId : ReleaseClient(c)
    BY <1>2, <2>2 DEF ReleaseClient, BusTypeOK
  <2>3. CASE PtyExit
    BY <2>3 DEF PtyExit, BusTypeOK
  <2>4. CASE UNCHANGED busVars
    BY <2>4 DEF busVars, BusTypeOK
  <2>. QED
    BY <2>1, <2>2, <2>3, <2>4 DEF BusNext
<1>. QED
  BY <1>1, <1>3, PTL DEF BusSpec

\* The decided size is the minimum of the advertised ones, and the running PTY has
\* it: what the bus promises its clients.
BusPromise == EffectiveIsMin /\ PtyMatches

\* Recomputing after a change of the map makes both parts of the promise true.
LEMMA UpdateKeepsPromise ==
    ASSUME BusPromise, NEW pc, UpdateWith(pc)
    PROVE  BusPromise'
BY DEF UpdateWith, BusPromise, EffectiveIsMin, PtyMatches, Attached, MinOf

\* Every operation of the bus keeps its promise.
LEMMA BusPromiseInductive == BusPromise /\ [BusNext]_busVars => BusPromise'
<1> SUFFICES ASSUME BusPromise, [BusNext]_busVars PROVE BusPromise'
  OBVIOUS
<1>1. CASE \E c \in ClientId, size \in Sizes : ReportClientSize(c, size)
  BY <1>1, UpdateKeepsPromise DEF ReportClientSize
<1>2. CASE \E c \in ClientId : ReleaseClient(c)
  BY <1>2, UpdateKeepsPromise DEF ReleaseClient
<1>3. CASE PtyExit
  BY <1>3 DEF PtyExit, BusPromise, EffectiveIsMin, PtyMatches, Attached, MinOf
<1>4. CASE UNCHANGED busVars
  BY <1>4 DEF busVars, BusPromise, EffectiveIsMin, PtyMatches, Attached, MinOf
<1>. QED
  BY <1>1, <1>2, <1>3, <1>4 DEF BusNext

\* While a client is attached the size decided is the least of what they all ask for, and a running
\* PTY has the size decided: a promise of the bus alone, whatever its clients do.
THEOREM BusKeepsPromise == BusSpec => [](EffectiveIsMin /\ PtyMatches)
<1>1. BusInit => BusPromise
  BY DEF BusInit, BusPromise, EffectiveIsMin, PtyMatches, Attached
<1>. QED
  BY <1>1, BusPromiseInductive, PTL DEF BusSpec, BusPromise

-------------------------------------------------------------------------------
(* The handlers (PtyAttach) *)

\* The bus actions a handler step can contain keep the bus typed.
LEMMA UpdateTyped ==
    ASSUME BusTypeOK, NEW pc \in [ClientId -> Sizes \union {NoSize}], UpdateWith(pc)
    PROVE  BusTypeOK'
BY MinOfIsSize DEF UpdateWith, BusTypeOK

\* report_client_size keeps the bus's types.
LEMMA ReportTyped ==
    ASSUME BusTypeOK, NEW c \in ClientId, NEW size \in Sizes, ReportClientSize(c, size)
    PROVE  BusTypeOK'
<1>1. [per_client EXCEPT ![c] = size] \in [ClientId -> Sizes \union {NoSize}]
  BY DEF BusTypeOK
<1>. QED
  BY <1>1, UpdateTyped DEF ReportClientSize

\* release_client keeps the bus's types.
LEMMA ReleaseTyped ==
    ASSUME BusTypeOK, NEW c \in ClientId, ReleaseClient(c)
    PROVE  BusTypeOK'
<1>1. [per_client EXCEPT ![c] = NoSize] \in [ClientId -> Sizes \union {NoSize}]
  BY DEF BusTypeOK
<1>. QED
  BY <1>1, UpdateTyped DEF ReleaseClient

\* A step that leaves the bus alone keeps its types.
LEMMA SameBusTyped ==
    ASSUME BusTypeOK, UNCHANGED busVars
    PROVE  BusTypeOK'
BY DEF BusTypeOK, busVars

\* Every viewer belongs to a device, and devices are clients of the bus.
LEMMA DevIsClient ==
    ASSUME TypeOK, NEW v \in Viewers
    PROVE  /\ Dev(v) \in Devices /\ Dev(v) \in ClientId
           /\ viewer[v] \in ViewerRecord /\ viewport[v] \in Sizes
           /\ resizing[v] \in Sizes \union {NoSize}
BY DEF TypeOK, Dev, ViewerRecord, ClientId

\* The initial state has the types.
LEMMA InitTyped == Init => TypeOK
<1> SUFFICES ASSUME Init PROVE TypeOK
  OBVIOUS
<1>1. BusTypeOK
  BY SizesAssumption DEF Init, BusInit, BusTypeOK
<1>2. viewer \in [Viewers -> ViewerRecord]
  BY SizesAssumption DEF Init, ViewerRecord, Stages
<1>. QED
  BY <1>1, <1>2 DEF Init, TypeOK

\* Every step of a handler, of a link or of the host keeps the types.
LEMMA StepTyped == TypeOK /\ [Next]_vars => TypeOK'
<1> SUFFICES ASSUME TypeOK, [Next]_vars PROVE TypeOK'
  OBVIOUS
<1>. USE DEF Set, Stages, Open
<1>1. ASSUME NEW v \in Viewers, PtyAttach(v) PROVE TypeOK'
  <2>1. BusTypeOK'
    BY <1>1, DevIsClient, ReportTyped DEF PtyAttach, TypeOK
  <2>2. viewer' \in [Viewers -> ViewerRecord]
    BY <1>1, <2>1, DevIsClient, ZenonT(30) DEF PtyAttach, TypeOK, BusTypeOK, ViewerRecord
  <2>3. shared' \subseteq Viewers
    BY <1>1 DEF PtyAttach, TypeOK, Active
  <2>. QED
    BY <1>1, <2>1, <2>2, <2>3 DEF PtyAttach, TypeOK
<1>2. ASSUME NEW v \in Viewers, PtyStreamInit(v) PROVE TypeOK'
  BY <1>2, SameBusTyped, DevIsClient DEF PtyStreamInit, TypeOK, ViewerRecord
<1>3. ASSUME NEW v \in Viewers, PtyStreamStart(v) PROVE TypeOK'
  <2>1. BusTypeOK'
    BY <1>3, DevIsClient, ReportTyped DEF PtyStreamStart, TypeOK, ViewerRecord
  <2>2. viewer' \in [Viewers -> ViewerRecord]
    BY <1>3, DevIsClient, SizesAssumption, ZenonT(30) DEF PtyStreamStart, TypeOK, ViewerRecord
  <2>. QED
    BY <1>3, <2>1, <2>2 DEF PtyStreamStart, TypeOK
<1>4. ASSUME NEW v \in Viewers, PtyStreamNever(v) PROVE TypeOK'
  <2>1. viewer' \in [Viewers -> ViewerRecord]
    BY <1>4, DevIsClient, SizesAssumption, ZenonT(30) DEF PtyStreamNever, TypeOK, ViewerRecord
  <2>. QED
    BY <1>4, <2>1, SameBusTyped DEF PtyStreamNever, TypeOK
<1>5. ASSUME NEW v \in Viewers, InputEnds(v) PROVE TypeOK'
  BY <1>5, SameBusTyped, DevIsClient, ZenonT(30) DEF InputEnds, TypeOK, ViewerRecord
<1>6. ASSUME NEW v \in Viewers, OutputWrites(v) PROVE TypeOK'
  <2>1. viewer' \in [Viewers -> ViewerRecord]
    BY <1>6, DevIsClient, ZenonT(30) DEF OutputWrites, TypeOK, ViewerRecord
  <2>. QED
    BY <1>6, <2>1, SameBusTyped DEF OutputWrites, TypeOK
<1>7. ASSUME NEW v \in Viewers, PtyStreamEnds(v) PROVE TypeOK'
  <2>1. BusTypeOK'
    BY <1>7, DevIsClient, ReleaseTyped DEF PtyStreamEnds, TypeOK
  <2>2. viewer' \in [Viewers -> ViewerRecord]
    BY <1>7, DevIsClient, ZenonT(30) DEF PtyStreamEnds, TypeOK, ViewerRecord
  <2>. QED
    BY <1>7, <2>1, <2>2 DEF PtyStreamEnds, TypeOK
<1>8. ASSUME NEW v \in Viewers, PtyResize(v) PROVE TypeOK'
  <2>1. BusTypeOK'
    BY <1>8, DevIsClient, ReportTyped, SameBusTyped DEF PtyResize, TypeOK
  <2>2. resizing' \in [Viewers -> Sizes \union {NoSize}] /\ outdated' \subseteq Viewers
    BY <1>8 DEF PtyResize, TypeOK
  <2>. QED
    BY <1>8, <2>1, <2>2 DEF PtyResize, TypeOK
<1>9. ASSUME NEW v \in Viewers, PtyDetach(v) PROVE TypeOK'
  <2>1. BusTypeOK'
    BY <1>9, DevIsClient, ReleaseTyped, SameBusTyped DEF PtyDetach, TypeOK
  <2>2. viewer' \in [Viewers -> ViewerRecord]
    BY <1>9, DevIsClient, ZenonT(30) DEF PtyDetach, TypeOK, ViewerRecord
  <2>. QED
    BY <1>9, <2>1, <2>2 DEF PtyDetach, TypeOK
<1>10. ASSUME NEW v \in Viewers, PeerGone(v) PROVE TypeOK'
  <2>. [viewer[v] EXCEPT !.peer = FALSE] \in ViewerRecord
    BY DevIsClient DEF ViewerRecord
  <2>1. viewer' \in [Viewers -> ViewerRecord]
    BY <1>10 DEF PeerGone, TypeOK
  <2>2. resizing' \in [Viewers -> Sizes \union {NoSize}]
    BY <1>10 DEF PeerGone, TypeOK
  <2>3. BusTypeOK'
    BY <1>10, SameBusTyped DEF PeerGone, TypeOK
  <2>. QED
    BY <1>10, <2>1, <2>2, <2>3 DEF PeerGone, TypeOK
<1>11. ASSUME NEW v \in Viewers, NEW size \in Sizes, XtermResize(v, size) PROVE TypeOK'
  <2>1. /\ viewport' \in [Viewers -> Sizes]
        /\ resizing' \in [Viewers -> Sizes \union {NoSize}]
        /\ outdated' \subseteq Viewers
    BY <1>11 DEF XtermResize, TypeOK
  <2>. QED
    BY <1>11, <2>1, SameBusTyped DEF XtermResize, TypeOK
<1>12. ASSUME NEW size \in Sizes, LocalResize(size) PROVE TypeOK'
  BY <1>12, ReportTyped DEF LocalResize, handlerVars, TypeOK, ClientId
<1>13. CASE PtyEmits
  BY <1>13, SameBusTyped, ZenonT(30) DEF PtyEmits, TypeOK, ViewerRecord, Piping
<1>14. CASE TabCloses
  BY <1>14, SameBusTyped DEF TabCloses, TypeOK
<1>15. CASE ProcessExits
  BY <1>15 DEF ProcessExits, PtyExit, handlerVars, TypeOK, BusTypeOK
<1>16. CASE UNCHANGED vars
  BY <1>16, SameBusTyped DEF vars, handlerVars, TypeOK
<1>. QED
  BY <1>1, <1>2, <1>3, <1>4, <1>5, <1>6, <1>7, <1>8, <1>9, <1>10, <1>11, <1>12,
     <1>13, <1>14, <1>15, <1>16 DEF Next, HostStep

\* The handlers and the bus keep their types in every run.
THEOREM TypeCorrect == Spec => []TypeOK
BY InitTyped, StepTyped, PTL DEF Spec
-------------------------------------------------------------------------------
\* Every step of the handlers is a step of the bus or leaves it alone.
LEMMA StepRefinesBus == TypeOK /\ [Next]_vars => [BusNext]_busVars
<1> SUFFICES ASSUME TypeOK, [Next]_vars PROVE [BusNext]_busVars
  OBVIOUS
<1>1. ASSUME NEW v \in Viewers, PtyAttach(v) \/ PtyStreamStart(v)
      PROVE  BusNext
  <2>1. \E size \in Sizes : ReportClientSize(Dev(v), size)
    BY <1>1, DevIsClient DEF PtyAttach, PtyStreamStart, ViewerRecord
  <2>. QED
    BY <2>1, DevIsClient DEF BusNext
<1>2. ASSUME NEW v \in Viewers, PtyStreamEnds(v)
      PROVE  BusNext
  BY <1>2, DevIsClient DEF PtyStreamEnds, BusNext
<1>3. ASSUME NEW v \in Viewers, PtyResize(v)
      PROVE  [BusNext]_busVars
  BY <1>3, DevIsClient DEF PtyResize, BusNext
<1>4. ASSUME NEW v \in Viewers, PtyDetach(v)
      PROVE  [BusNext]_busVars
  BY <1>4, DevIsClient DEF PtyDetach, BusNext
<1>5. ASSUME NEW v \in Viewers,
             \/ PtyStreamInit(v) \/ PtyStreamNever(v) \/ InputEnds(v)
             \/ OutputWrites(v) \/ PeerGone(v)
             \/ \E size \in Sizes : XtermResize(v, size)
      PROVE  UNCHANGED busVars
  BY <1>5 DEF PtyStreamInit, PtyStreamNever, InputEnds, OutputWrites, PeerGone,
              XtermResize
<1>6. ASSUME NEW size \in Sizes, LocalResize(size) PROVE BusNext
  BY <1>6 DEF LocalResize, BusNext, ClientId
<1>7. CASE PtyEmits \/ TabCloses \/ UNCHANGED vars
  BY <1>7 DEF PtyEmits, TabCloses, vars
<1>8. CASE ProcessExits
  BY <1>8 DEF ProcessExits, BusNext
<1>. QED
  BY <1>1, <1>2, <1>3, <1>4, <1>5, <1>6, <1>7, <1>8 DEF Next, HostStep

\* The handlers act on the bus only through its operations (sizes is private to
\* pty_bus.rs), so what the aggregator keeps under any use it keeps under theirs.
LEMMA HandlersRefineBus == Spec => BusSpec
<1>1. Init => BusInit
  BY DEF Init
<1>. QED
  BY <1>1, StepRefinesBus, TypeCorrect, PTL DEF Spec, BusSpec
-------------------------------------------------------------------------------
\* The strengthening that is inductive.  A viewer that never met another of its
\* device is the only one that can touch the device's entry; while its client is
\* there the entry exists; and as long as no xterm size was dropped or overtaken,
\* the attach reply, then the entry, is within its xterm.
Within(size, v) == size[1] <= viewport[v][1] /\ size[2] <= viewport[v][2]
Settled(v) == v \notin outdated /\ resizing[v] = NoSize /\ in_map

OnlyActive ==
    \A v, w \in Viewers : /\ v \notin shared
                          /\ v \in Active(Dev(v)) /\ w \in Active(Dev(v))
                          => v = w

NotYetResizing ==
    \A v \in Viewers : viewer[v].stage \in {"idle", "attached"} => resizing[v] = NoSize

ResizeIsLatest ==
    \A v \in Viewers : resizing[v] # NoSize => resizing[v] = viewport[v]

EntryKept ==
    \A v \in Viewers : viewer[v].stage \in Open /\ viewer[v].peer /\ v \notin shared
                       => per_client[Dev(v)] # NoSize

ReplyWithin ==
    \A v \in Viewers : /\ viewer[v].stage \in {"attached", "acked"} /\ viewer[v].peer
                       /\ v \notin shared /\ Settled(v)
                       => Within(viewer[v].reply, v)

EntryWithin ==
    \A v \in Viewers : Live(v) /\ v \notin shared /\ Settled(v)
                       => Within(per_client[Dev(v)], v)

SoleViewerInv == /\ OnlyActive /\ NotYetResizing /\ ResizeIsLatest
                 /\ EntryKept /\ ReplyWithin /\ EntryWithin

\* The minimum is within the size of each client it is taken over.
LEMMA MinWithinEntry ==
    ASSUME NEW pc \in [ClientId -> Sizes \union {NoSize}],
           NEW c \in ClientId, pc[c] # NoSize
    PROVE  MinOf(pc)[1] <= pc[c][1] /\ MinOf(pc)[2] <= pc[c][2]
<1>. DEFINE cols == {pc[x][1] : x \in Attached(pc)}
            rows == {pc[x][2] : x \in Attached(pc)}
<1>1. \A x \in Attached(pc) : pc[x] \in Cols \X Rows
  BY DEF Attached, Sizes
<1>2. pc[c][1] \in cols /\ pc[c][2] \in rows
  BY DEF Attached
<1>3. cols \subseteq Nat /\ rows \subseteq Nat
  BY <1>1, SizesAssumption
<1>4. Smallest(cols) <= pc[c][1] /\ Smallest(rows) <= pc[c][2]
  BY <1>2, <1>3, SmallestIsLeast
<1>. QED
  BY <1>4 DEF MinOf

\* A step after which no viewer can touch an entry that could not before keeps
\* lone viewers alone.
LEMMA AloneKept ==
    ASSUME OnlyActive, shared \subseteq shared',
           \A v \in Viewers :
               /\ viewer'[v].dev = viewer[v].dev
               /\ (viewer'[v].stage \in Open \/ resizing'[v] # NoSize)
                  => (viewer[v].stage \in Open \/ resizing[v] # NoSize)
    PROVE  OnlyActive'
BY DEF OnlyActive, Active, Dev

\* No viewer is attached at the start, so the strengthening holds.
LEMMA InitSole == Init => SoleViewerInv
BY DEF Init, SoleViewerInv, OnlyActive, NotYetResizing, ResizeIsLatest, EntryKept,
       ReplyWithin, EntryWithin, Active, Dev, Live, Piping, Open

\* pty.attach: the new viewer either is alone or marks everyone it met.
LEMMA AttachSole ==
    ASSUME TypeOK, TypeOK', EffectiveIsMin', SoleViewerInv,
           NEW w \in Viewers, PtyAttach(w)
    PROVE  SoleViewerInv'
<1>. USE DEF Open, SoleViewerInv
<1>. DEFINE others == Active(Dev(w))
            new == [viewer[w] EXCEPT !.stage = "attached", !.peer = TRUE,
                                     !.reply = effective']
<1>1. /\ viewer[w].stage = "idle" /\ resizing[w] = NoSize /\ w \notin others
      /\ resizing' = resizing /\ viewport' = viewport
      /\ outdated' = outdated /\ in_map' = in_map
  BY DEF PtyAttach, NotYetResizing, Active
<1>2. /\ viewer'[w] = new
      /\ \A v \in Viewers : v # w => viewer'[v] = viewer[v]
      /\ new.stage = "attached" /\ new.dev = viewer[w].dev /\ new.reply = effective'
  BY DevIsClient DEF PtyAttach, Set, TypeOK, ViewerRecord
<1>3. /\ shared \subseteq shared'
      /\ others # {} => others \subseteq shared' /\ w \in shared'
  BY DEF PtyAttach
<1>4. /\ per_client'[Dev(w)] = viewport[w]
      /\ \A c \in ClientId : c # Dev(w) => per_client'[c] = per_client[c]
  BY DevIsClient DEF PtyAttach, ReportClientSize, UpdateWith, TypeOK, BusTypeOK
<1>5. \A v \in Viewers : Dev(v)' = Dev(v) /\ viewport[v] # NoSize
  BY <1>2, DevIsClient, NoSizeAssumption DEF Dev
<1>6. OnlyActive'
  <2> SUFFICES ASSUME NEW v \in Viewers, NEW u \in Viewers, v \notin shared',
                      v \in Active(Dev(v))', u \in Active(Dev(v))'
               PROVE  v = u
    BY DEF OnlyActive
  <2>1. \A x \in Viewers : x \in Active(Dev(v))' => x = w \/ x \in Active(Dev(v))
    BY <1>1, <1>2, ZenonT(30) DEF Active, Dev
  <2>2. CASE v = w
    BY <2>1, <2>2, <1>3, <1>5
  <2>3. CASE v # w /\ u = w
    <3>1. Dev(v) = Dev(w)
      BY <2>3, <1>5 DEF Active
    <3>. QED
      BY <2>1, <2>3, <1>3, <3>1
  <2>4. CASE v # w /\ u # w
    BY <2>1, <2>4, <1>3 DEF OnlyActive
  <2>. QED
    BY <2>2, <2>3, <2>4
<1>7. NotYetResizing' /\ ResizeIsLatest'
  BY <1>1, <1>2 DEF NotYetResizing, ResizeIsLatest
<1>8. EntryKept'
  BY <1>1, <1>2, <1>3, <1>4, <1>5, DevIsClient DEF EntryKept
<1>9. ReplyWithin'
  <2>1. effective'[1] <= viewport[w][1] /\ effective'[2] <= viewport[w][2]
    <3>1. per_client' \in [ClientId -> Sizes \union {NoSize}]
      BY DEF TypeOK, BusTypeOK
    <3>2. Dev(w) \in ClientId /\ per_client'[Dev(w)] # NoSize
      BY <1>4, <1>5, DevIsClient
    <3>3. effective' = MinOf(per_client')
      BY <3>2 DEF EffectiveIsMin, Attached
    <3>. QED
      BY <3>1, <3>2, <3>3, <1>4, MinWithinEntry
  <2>. QED
    BY <2>1, <1>1, <1>2, <1>3 DEF ReplyWithin, Settled, Within
<1>10. EntryWithin'
  <2> SUFFICES ASSUME NEW v \in Viewers, Live(v)', v \notin shared', Settled(v)'
               PROVE  Within(per_client[Dev(v)], v)'
    BY DEF EntryWithin
  <2>1. v # w /\ Live(v) /\ v \notin shared /\ Settled(v)
    BY <1>1, <1>2, <1>3 DEF Live, Piping, Settled
  <2>2. v \in Active(Dev(v))
    BY <2>1 DEF Live, Piping, Active
  <2>3. Dev(v) # Dev(w)
    BY <2>2, <1>3
  <2>. QED
    BY <2>1, <2>3, <1>1, <1>4, <1>5, DevIsClient DEF EntryWithin, Within
<1>. QED
  BY <1>6, <1>7, <1>8, <1>9, <1>10

\* Steps that leave the bus, the xterm sizes and the history alone, and let no
\* viewer advance to a stage where it has more to keep.
LEMMA QuietSole ==
    ASSUME TypeOK, SoleViewerInv, UNCHANGED <<per_client, viewport, shared, outdated>>,
           in_map' => in_map,
           \A v \in Viewers :
               /\ viewer'[v].dev = viewer[v].dev
               /\ viewer'[v].reply = viewer[v].reply \/ viewer'[v].stage = "ended"
               /\ viewer'[v].peer => viewer[v].peer
               /\ viewer'[v].stage # viewer[v].stage =>
                     \/ viewer'[v].stage = "ended"
                     \/ viewer[v].stage = "attached" /\ viewer'[v].stage = "acked"
               /\ \/ resizing'[v] = resizing[v]
                  \/ resizing'[v] = NoSize /\ ~viewer'[v].peer
    PROVE  SoleViewerInv'
<1>. USE DEF SoleViewerInv, Open
<1>1. OnlyActive'
  BY AloneKept
<1>2. NotYetResizing' /\ ResizeIsLatest'
  BY DEF NotYetResizing, ResizeIsLatest
<1>3. EntryKept'
  BY DEF EntryKept, Dev
<1>4. ReplyWithin'
  BY DEF ReplyWithin, Settled, Within
<1>5. EntryWithin'
  BY DEF EntryWithin, Settled, Within, Live, Piping, Dev
<1>. QED
  BY <1>1, <1>2, <1>3, <1>4, <1>5

\* A step that changes at most the entry of w's device, while w is active: the
\* facts of every other lone viewer are about other entries.
LEMMA OthersUntouched ==
    ASSUME TypeOK, SoleViewerInv, NEW w \in Viewers, w \in Active(Dev(w)),
           UNCHANGED <<in_map, shared>>,
           \A c \in ClientId : c # Dev(w) => per_client'[c] = per_client[c],
           NEW v \in Viewers, v # w, viewer'[v] = viewer[v],
           resizing'[v] = resizing[v], viewport'[v] = viewport[v],
           v \in outdated => v \in outdated', v \notin shared
    PROVE  /\ viewer[v].stage \in Open /\ viewer[v].peer =>
                 per_client'[Dev(v)] # NoSize
           /\ Live(v) /\ Settled(v)' => Within(per_client'[Dev(v)], v)
<1>1. v \in Active(Dev(v)) => Dev(v) # Dev(w)
  BY DEF SoleViewerInv, OnlyActive
<1>2. viewer[v].stage \in Open => v \in Active(Dev(v))
  BY DEF Active
<1>3. Live(v) => viewer[v].stage \in Open
  BY DEF Live, Piping, Open
<1>. QED
  BY <1>1, <1>2, <1>3, DevIsClient
     DEF SoleViewerInv, EntryKept, EntryWithin, Settled, Within

\* The stream's start: the entry becomes the attach reply, which is within.
LEMMA StartSole ==
    ASSUME TypeOK, TypeOK', SoleViewerInv, NEW w \in Viewers, PtyStreamStart(w)
    PROVE  SoleViewerInv'
<1>1. /\ viewer[w].stage = "acked" /\ viewer'[w].stage = "piping"
      /\ viewer'[w].dev = viewer[w].dev /\ viewer'[w].peer = viewer[w].peer
      /\ \A v \in Viewers : v # w => viewer'[v] = viewer[v]
      /\ UNCHANGED <<resizing, viewport, outdated, in_map, shared>>
  BY DevIsClient DEF PtyStreamStart, Set, TypeOK, ViewerRecord
<1>2. /\ per_client'[Dev(w)] = viewer[w].reply /\ viewer[w].reply # NoSize
      /\ \A c \in ClientId : c # Dev(w) => per_client'[c] = per_client[c]
  BY DevIsClient, NoSizeAssumption
     DEF PtyStreamStart, ReportClientSize, UpdateWith, TypeOK, BusTypeOK, ViewerRecord
<1>3. w \in Active(Dev(w)) /\ \A v \in Viewers : Dev(v)' = Dev(v)
  BY <1>1 DEF Active, Open, Dev
<1>4. OnlyActive'
  BY <1>1, AloneKept DEF SoleViewerInv, Open
<1>5. NotYetResizing' /\ ResizeIsLatest' /\ ReplyWithin'
  BY <1>1 DEF SoleViewerInv, NotYetResizing, ResizeIsLatest, ReplyWithin, Settled, Within
<1>6. EntryKept'
  BY <1>1, <1>2, <1>3, OthersUntouched DEF EntryKept
<1>7. EntryWithin'
  <2> SUFFICES ASSUME NEW v \in Viewers, Live(v)', v \notin shared', Settled(v)'
               PROVE  Within(per_client[Dev(v)], v)'
    BY DEF EntryWithin
  <2>1. CASE v = w
    BY <2>1, <1>1, <1>2, <1>3
       DEF SoleViewerInv, ReplyWithin, Live, Settled, Within
  <2>2. CASE v # w
    <3>1. Live(v) /\ v \notin shared
      BY <2>2, <1>1 DEF Live, Piping
    <3>2. Within(per_client'[Dev(v)], v)
      BY <2>2, <3>1, <1>1, <1>2, <1>3, OthersUntouched
    <3>. QED
      BY <3>2, <1>1, <1>3 DEF Within
  <2>. QED
    BY <2>1, <2>2
<1>. QED
  BY <1>4, <1>5, <1>6, <1>7 DEF SoleViewerInv

\* A release by w: nobody else's entry is lost, and w's own facts end with it.
LEMMA ReleaseSole ==
    ASSUME TypeOK, TypeOK', SoleViewerInv,
           NEW w \in Viewers, PtyStreamEnds(w) \/ PtyDetach(w)
    PROVE  SoleViewerInv'
<1>1. /\ viewer[w].stage = "piping" /\ viewer'[w].stage \in {"piping", "ended"}
      /\ viewer'[w].dev = viewer[w].dev /\ ~viewer'[w].peer
      /\ \A v \in Viewers : v # w => viewer'[v] = viewer[v]
      /\ UNCHANGED <<resizing, viewport, outdated, in_map, shared>>
  <2>1. CASE PtyStreamEnds(w)
    BY <2>1, DevIsClient DEF PtyStreamEnds, Set, TypeOK, ViewerRecord, Piping
  <2>2. CASE PtyDetach(w)
    BY <2>2, DevIsClient DEF PtyDetach, Set, TypeOK, ViewerRecord, Live, Piping
  <2>. QED
    BY <2>1, <2>2
<1>2. \A c \in ClientId : c # Dev(w) => per_client'[c] = per_client[c]
  <2>1. CASE ReleaseClient(Dev(w))
    BY <2>1, DevIsClient DEF ReleaseClient, UpdateWith, TypeOK, BusTypeOK
  <2>2. CASE UNCHANGED busVars
    BY <2>2 DEF busVars
  <2>. QED
    BY <2>1, <2>2 DEF PtyStreamEnds, PtyDetach
<1>3. w \in Active(Dev(w)) /\ \A v \in Viewers : Dev(v)' = Dev(v)
  BY <1>1 DEF Active, Open, Dev
<1>4. OnlyActive'
  BY <1>1, AloneKept DEF SoleViewerInv, Open
<1>5. NotYetResizing' /\ ResizeIsLatest' /\ ReplyWithin'
  BY <1>1 DEF SoleViewerInv, NotYetResizing, ResizeIsLatest, ReplyWithin, Settled, Within
<1>6. EntryKept'
  BY <1>1, <1>2, <1>3, OthersUntouched DEF EntryKept
<1>7. EntryWithin'
  <2> SUFFICES ASSUME NEW v \in Viewers, Live(v)', v \notin shared', Settled(v)'
               PROVE  Within(per_client[Dev(v)], v)'
    BY DEF EntryWithin
  <2>1. v # w /\ Live(v) /\ v \notin shared
    BY <1>1 DEF Live, Piping
  <2>2. Within(per_client'[Dev(v)], v)
    BY <2>1, <1>1, <1>2, <1>3, OthersUntouched
  <2>. QED
    BY <2>2, <1>1, <1>3 DEF Within
<1>. QED
  BY <1>4, <1>5, <1>6, <1>7 DEF SoleViewerInv

\* A pty.resize carries the latest xterm size: the entry becomes exactly it, unless
\* the stream's start is still to overwrite it.
LEMMA ResizeSole ==
    ASSUME TypeOK, TypeOK', SoleViewerInv, NEW w \in Viewers, PtyResize(w)
    PROVE  SoleViewerInv'
<1>1. /\ resizing[w] # NoSize /\ resizing[w] = viewport[w] /\ resizing[w] \in Sizes
      /\ resizing'[w] = NoSize
      /\ \A v \in Viewers : v # w => resizing'[v] = resizing[v]
      /\ viewer[w].stage \notin {"idle", "attached"}
      /\ viewer[w].stage = "acked" => w \in outdated'
      /\ outdated \subseteq outdated'
      /\ UNCHANGED <<viewer, viewport, in_map, shared>>
  BY DevIsClient DEF PtyResize, TypeOK, SoleViewerInv, ResizeIsLatest, NotYetResizing
<1>2. /\ \A c \in ClientId : c # Dev(w) => per_client'[c] = per_client[c]
      /\ in_map => per_client'[Dev(w)] = viewport[w]
      /\ per_client'[Dev(w)] \in {viewport[w], per_client[Dev(w)]}
  <2>1. CASE ReportClientSize(Dev(w), resizing[w]) /\ in_map
    BY <2>1, <1>1, DevIsClient DEF ReportClientSize, UpdateWith, TypeOK, BusTypeOK
  <2>2. CASE UNCHANGED busVars /\ ~in_map
    BY <2>2 DEF busVars
  <2>. QED
    BY <2>1, <2>2 DEF PtyResize
<1>3. w \in Active(Dev(w)) /\ \A v \in Viewers : Dev(v)' = Dev(v)
  BY <1>1 DEF Active, Dev
<1>4. OnlyActive'
  BY <1>1, AloneKept DEF SoleViewerInv
<1>5. NotYetResizing' /\ ResizeIsLatest' /\ ReplyWithin'
  BY <1>1 DEF SoleViewerInv, NotYetResizing, ResizeIsLatest, ReplyWithin, Settled, Within
<1>6. EntryKept'
  <2> SUFFICES ASSUME NEW v \in Viewers, viewer[v].stage \in Open, viewer[v].peer,
                      v \notin shared
               PROVE  per_client'[Dev(v)] # NoSize
    BY <1>1, <1>3 DEF EntryKept
  <2>1. CASE v = w
    BY <2>1, <1>2, DevIsClient, NoSizeAssumption DEF SoleViewerInv, EntryKept
  <2>2. CASE v # w
    BY <2>2, <1>1, <1>2, <1>3, OthersUntouched
  <2>. QED
    BY <2>1, <2>2
<1>7. EntryWithin'
  <2> SUFFICES ASSUME NEW v \in Viewers, Live(v), v \notin shared, Settled(v)'
               PROVE  Within(per_client'[Dev(v)], v)
    BY <1>1, <1>3 DEF EntryWithin, Live, Piping, Within
  <2>1. CASE v = w
    <3>1. per_client'[Dev(w)] = viewport[w] /\ viewport[w] \in Cols \X Rows
      BY <2>1, <1>1, <1>2, DevIsClient DEF Settled, Sizes
    <3>2. viewport[w][1] \in Nat /\ viewport[w][2] \in Nat
      BY <3>1, SizesAssumption
    <3>. QED
      BY <2>1, <3>1, <3>2 DEF Within
  <2>2. CASE v # w
    BY <2>2, <1>1, <1>2, <1>3, OthersUntouched
  <2>. QED
    BY <2>1, <2>2
<1>. QED
  BY <1>4, <1>5, <1>6, <1>7 DEF SoleViewerInv

\* xterm changes size: the viewer is unsettled, one way or the other, until the
\* host has the new size.
LEMMA XtermSole ==
    ASSUME TypeOK, TypeOK', SoleViewerInv,
           NEW w \in Viewers, NEW size \in Sizes, XtermResize(w, size)
    PROVE  SoleViewerInv'
<1>1. /\ viewport'[w] = size /\ resizing[w] = NoSize /\ size # NoSize
      /\ \A v \in Viewers : v # w => /\ viewport'[v] = viewport[v]
                                     /\ resizing'[v] = resizing[v]
                                     /\ v \in outdated' <=> v \in outdated
      /\ UNCHANGED <<viewer, per_client, in_map, shared>>
  BY NoSizeAssumption DEF XtermResize, TypeOK, busVars
<1>2. \/ HasHandle(w) /\ resizing'[w] = size
      \/ ~HasHandle(w) /\ resizing' = resizing /\ (viewer[w].stage = "attached" => w \in outdated')
  BY DEF XtermResize, TypeOK
<1>3. HasHandle(w) => viewer[w].stage \in Open
  BY DEF HasHandle, Open
<1>4. OnlyActive'
  BY <1>1, <1>2, <1>3, AloneKept DEF SoleViewerInv
<1>5. NotYetResizing' /\ ResizeIsLatest'
  BY <1>1, <1>2 DEF SoleViewerInv, NotYetResizing, ResizeIsLatest, HasHandle
<1>6. EntryKept'
  BY <1>1 DEF SoleViewerInv, EntryKept, Dev
<1>7. viewer[w].stage \in Open /\ viewer[w].peer => ~Settled(w)'
  BY <1>1, <1>2 DEF HasHandle, Open, Settled
<1>8. ReplyWithin'
  BY <1>1, <1>7 DEF SoleViewerInv, ReplyWithin, Settled, Within, Open
<1>9. EntryWithin'
  BY <1>1, <1>7 DEF SoleViewerInv, EntryWithin, Settled, Within, Open, Live, Piping, Dev
<1>. QED
  BY <1>4, <1>5, <1>6, <1>8, <1>9 DEF SoleViewerInv

\* The desktop's own entry is nobody's device.
LEMMA LocalSole ==
    ASSUME TypeOK, SoleViewerInv, NEW size \in Sizes, LocalResize(size)
    PROVE  SoleViewerInv'
<1>1. \A d \in Devices : per_client'[d] = per_client[d]
  BY LocalAssumption
     DEF LocalResize, ReportClientSize, UpdateWith, TypeOK, BusTypeOK, ClientId
<1>2. UNCHANGED <<in_map, viewer, viewport, resizing, shared, outdated>>
  BY DEF LocalResize, handlerVars
<1>. QED
  BY <1>1, <1>2, DevIsClient
     DEF SoleViewerInv, OnlyActive, NotYetResizing, ResizeIsLatest, EntryKept, ReplyWithin,
         EntryWithin, Active, Dev, Live, Piping, Settled, Within

\* Every step keeps the strengthening of SoleViewer.
LEMMA StepSole ==
    TypeOK /\ TypeOK' /\ EffectiveIsMin' /\ SoleViewerInv /\ [Next]_vars => SoleViewerInv'
<1> SUFFICES ASSUME TypeOK, TypeOK', EffectiveIsMin', SoleViewerInv, [Next]_vars
             PROVE  SoleViewerInv'
  OBVIOUS
<1>. USE DEF Set
<1>1. ASSUME NEW w \in Viewers, PtyStreamInit(w) PROVE SoleViewerInv'
  BY <1>1, QuietSole DEF PtyStreamInit, TypeOK, ViewerRecord, busVars
<1>2. ASSUME NEW w \in Viewers, PtyStreamNever(w) PROVE SoleViewerInv'
  BY <1>2, QuietSole DEF PtyStreamNever, TypeOK, ViewerRecord, busVars
<1>3. ASSUME NEW w \in Viewers, InputEnds(w) PROVE SoleViewerInv'
  BY <1>3, QuietSole DEF InputEnds, TypeOK, ViewerRecord, busVars
<1>4. ASSUME NEW w \in Viewers, OutputWrites(w) PROVE SoleViewerInv'
  BY <1>4, QuietSole DEF OutputWrites, TypeOK, ViewerRecord, busVars
<1>5. ASSUME NEW w \in Viewers, PeerGone(w) PROVE SoleViewerInv'
  <2>1. /\ viewer' = [viewer EXCEPT ![w] = [viewer[w] EXCEPT !.peer = FALSE]]
        /\ UNCHANGED <<per_client, in_map, viewport, shared, outdated>>
    BY <1>5 DEF PeerGone, busVars
  <2>2. \A v \in Viewers : \/ resizing'[v] = resizing[v]
                           \/ resizing'[v] = NoSize /\ v = w
    BY <1>5 DEF PeerGone, TypeOK
  <2>. QED
    BY <2>1, <2>2, QuietSole DEF TypeOK, ViewerRecord
<1>6. CASE PtyEmits
  BY <1>6, QuietSole DEF PtyEmits, TypeOK, ViewerRecord, busVars
<1>7. CASE TabCloses \/ ProcessExits \/ UNCHANGED vars
  BY <1>7, QuietSole DEF TabCloses, ProcessExits, PtyExit, vars, handlerVars, busVars
<1>. QED
  BY <1>1, <1>2, <1>3, <1>4, <1>5, <1>6, <1>7, AttachSole, StartSole, ReleaseSole,
     ResizeSole, XtermSole, LocalSole DEF Next, HostStep

\* The strengthening holds in every state: the effective size is the minimum at each.
LEMMA SoleViewerAlways == Spec => []SoleViewerInv
<1>1. Spec => []EffectiveIsMin
  BY HandlersRefineBus, BusKeepsPromise, PTL
<1>. QED
  BY <1>1, InitSole, StepSole, TypeCorrect, PTL DEF Spec

\* A live viewer that never overlapped with another of its device is counted in the
\* minimum, for any number of devices, viewers and sizes.
THEOREM SoleViewerIsCounted == Spec => []SoleViewerCounted
<1>1. SoleViewerInv => SoleViewerCounted
  BY DEF SoleViewerInv, EntryKept, SoleViewerCounted, Live, Piping, Open
<1>. QED
  BY <1>1, SoleViewerAlways, PTL

\* And the PTY is never larger than the xterm of such a viewer once the host has
\* heard of its size.
THEOREM SoleViewerFits == Spec => []FitsSoleViewer
<1>1. TypeOK /\ EffectiveIsMin /\ SoleViewerInv => FitsSoleViewer
  <2> SUFFICES ASSUME TypeOK, EffectiveIsMin, SoleViewerInv,
                      NEW v \in Viewers, Live(v), v \notin shared, Settled(v)
               PROVE  Within(effective, v)
    BY DEF FitsSoleViewer, Settled, Within
  <2>. DEFINE entry == per_client[Dev(v)]
  <2>1. entry # NoSize /\ Within(entry, v)
    BY DEF SoleViewerInv, EntryKept, EntryWithin, Live, Piping, Open
  <2>2. effective = MinOf(per_client)
    BY <2>1, DevIsClient DEF EffectiveIsMin, Attached
  <2>3. effective[1] <= entry[1] /\ effective[2] <= entry[2]
    BY <2>1, <2>2, DevIsClient, MinWithinEntry DEF TypeOK, BusTypeOK
  <2>4. /\ entry \in Cols \X Rows /\ viewport[v] \in Cols \X Rows
        /\ effective \in Cols \X Rows
    BY <2>1, DevIsClient DEF TypeOK, BusTypeOK, Sizes
  <2>5. /\ entry[1] \in Nat /\ viewport[v][1] \in Nat /\ effective[1] \in Nat
        /\ entry[2] \in Nat /\ viewport[v][2] \in Nat /\ effective[2] \in Nat
    BY <2>4, SizesAssumption
  <2>. QED
    BY <2>1, <2>3, <2>5 DEF Within
<1>. QED
  BY <1>1, SoleViewerAlways, TypeCorrect, HandlersRefineBus, BusKeepsPromise, PTL

\* Both together: what such a viewer may rely on, whatever other viewers, devices,
\* resizes and losses there are.
THEOREM SoleViewerIsServed == Spec => []SoleViewerServed
<1>1. SoleViewerCounted /\ FitsSoleViewer => SoleViewerServed
  BY DEF SoleViewerServed
<1>. QED
  BY <1>1, SoleViewerIsCounted, SoleViewerFits, PTL
=============================================================================

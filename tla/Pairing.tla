------------------------------ MODULE Pairing ------------------------------
(***************************************************************************)
(* Pairing a browser with the host.  The page asks over a connection of    *)
(* its own; the handler hands the request to the main thread and waits for *)
(* the user (PairingApprover); the main thread shows one dialog at a time  *)
(* and a watchdog takes it down when nobody waits for it any more; an      *)
(* approved request becomes a row of paired_devices and a credential,      *)
(* which the browser stores behind a passkey.                              *)
(*                                                                         *)
(* One attempt is one call of runPair, with its connection, its request    *)
(* and the device it may create.                                           *)
(***************************************************************************)
EXTENDS Naturals, Sequences

CONSTANT Attempt
ASSUME AttemptAssumption == "none" \notin Attempt

VARIABLES status,     \* the page: idle, approving, securing, error or home
          cancelled,  \* cancelledRef
          ref,        \* pairingClientRef: the attempt whose client it holds
          ask,        \* per attempt: what runPair awaits
          conn,       \* per attempt: its connection, as each side knows it
          request,    \* per attempt: the handler's pairing.request
          answer,     \* per attempt: the response on its way
          approvals,  \* the flume queue to the main thread
          pending_pairing, \* the attempt in the dialog
          watching,   \* attempts whose watchdog runs
          device,     \* per attempt: its row of paired_devices
          stored      \* the attempt whose credential the browser keeps

page == <<status, cancelled, ref, ask, stored>>
desk == <<approvals, pending_pairing, watching>>
pairing_vars == <<page, conn, request, answer, desk, device>>

PairingTypeOK ==
  /\ status \in {"idle", "approving", "securing", "error", "home"}
  /\ cancelled \in BOOLEAN
  /\ {ref, pending_pairing, stored} \subseteq Attempt \cup {"none"}
  /\ ask \in [Attempt -> {"none", "connecting", "response", "passkey", "over"}]
  /\ conn \in [Attempt -> {"none", "open", "closed", "seen closed"}]
  /\ request \in [Attempt -> {"none", "sent", "waiting", "approved", "rejected", "over"}]
  /\ answer \in [Attempt -> {"none", "credential", "error"}]
  /\ approvals \in Seq(Attempt) /\ watching \subseteq Attempt
  /\ device \in [Attempt -> {"none", "stored", "not saved", "revoked"}]

PairingInit ==
  /\ status = "idle" /\ cancelled = FALSE
  /\ ref = "none" /\ pending_pairing = "none" /\ stored = "none"
  /\ ask = [a \in Attempt |-> "none"] /\ conn = [a \in Attempt |-> "none"]
  /\ request = [a \in Attempt |-> "none"] /\ answer = [a \in Attempt |-> "none"]
  /\ approvals = <<>> /\ watching = {}
  /\ device = [a \in Attempt |-> "none"]

-----------------------------------------------------------------------------
\* The page.
RunPair(a) ==
  /\ status \in {"idle", "error"} /\ ask[a] = "none"
  /\ cancelled' = FALSE /\ status' = "approving"
  /\ ask' = [ask EXCEPT ![a] = "connecting"]
  /\ UNCHANGED <<ref, stored, conn, request, answer, desk, device>>

\* connect() resolves, whatever the page shows by now, and the request goes out.
Connected(a) ==
  /\ ask[a] = "connecting"
  /\ ask' = [ask EXCEPT ![a] = "response"]
  /\ ref' = a
  /\ conn' = [conn EXCEPT ![a] = "open"]
  /\ request' = [request EXCEPT ![a] = "sent"]
  /\ UNCHANGED <<status, cancelled, stored, answer, desk, device>>

Closed(c, a) == [c EXCEPT ![a] = IF @ = "open" THEN "closed" ELSE @]

\* The finally block closes the client the ref holds, of whichever attempt.
Finally ==
  /\ conn' = IF ref = "none" THEN conn ELSE Closed(conn, ref)
  /\ ref' = "none"

Shows(s) == status' = IF status = "home" THEN status ELSE s

\* connect() fails, the connection is gone, the host refuses, or the call has
\* waited its 60 seconds, which may be at any time.
PairFails(a) ==
  /\ ask[a] \in {"connecting", "response"}
  /\ ask' = [ask EXCEPT ![a] = "over"]
  /\ Shows(IF cancelled THEN "idle" ELSE "error")
  /\ Finally
  /\ UNCHANGED <<cancelled, stored, request, answer, desk, device>>

PairSucceeds(a) ==
  /\ ask[a] = "response" /\ conn[a] = "open" /\ answer[a] = "credential"
  /\ ask' = [ask EXCEPT ![a] = "passkey"]
  /\ Shows("securing")
  /\ Finally
  /\ UNCHANGED <<cancelled, stored, request, answer, desk, device>>

SaveCredential(a) ==
  /\ ask[a] = "passkey"
  /\ ask' = [ask EXCEPT ![a] = "over"]
  /\ \/ stored' = a /\ status' = "home"
     \/ stored' = stored /\ Shows("error")
  /\ UNCHANGED <<cancelled, ref, conn, request, answer, desk, device>>

CancelApproving ==
  /\ status = "approving"
  /\ cancelled' = TRUE /\ status' = "idle"
  /\ conn' = IF ref = "none" THEN conn ELSE Closed(conn, ref)
  /\ UNCHANGED <<ref, ask, stored, request, answer, desk, device>>

ErrorBack ==
  /\ status = "error"
  /\ status' = "idle"
  /\ UNCHANGED <<cancelled, ref, ask, stored, conn, request, answer, desk, device>>

-----------------------------------------------------------------------------
\* The handler of pairing.request, in the control task of its connection.
RequestApproval(a) ==
  /\ request[a] = "sent"
  /\ approvals' = Append(approvals, a)
  /\ request' = [request EXCEPT ![a] = "waiting"]
  /\ UNCHANGED <<page, conn, answer, pending_pairing, watching, device>>

\* The connection's loop sees the end of the connection and waits for the
\* control task; it does not cancel the handler.
HostSeesClose(a) ==
  /\ conn[a] = "closed"
  /\ conn' = [conn EXCEPT ![a] = "seen closed"]
  /\ UNCHANGED <<page, request, answer, desk, device>>

Answers(a, kind) ==
  /\ answer' = [answer EXCEPT ![a] = IF conn[a] = "open" THEN kind ELSE @]
  /\ request' = [request EXCEPT ![a] = "over"]

\* 120 seconds without a decision; also the answer to a rejection.
Rejects(a) ==
  /\ request[a] \in {"waiting", "rejected"}
  /\ Answers(a, "error")
  /\ UNCHANGED <<page, conn, desk, device>>

\* Mistaken: the credential goes out and the row is written afterwards, perhaps.
IssueUnsaved(a) ==
  /\ request[a] = "approved"
  /\ Answers(a, "credential")
  /\ UNCHANGED <<page, conn, desk, device>>

\* insert() only logs a failure to save.
IssueCredentials(a) ==
  /\ request[a] = "approved"
  /\ \E saved \in {"stored", "not saved"} : device' = [device EXCEPT ![a] = saved]
  /\ Answers(a, "credential")
  /\ UNCHANGED <<page, conn, desk>>

-----------------------------------------------------------------------------
\* The main thread.
Decides(a, d) == request' = [request EXCEPT ![a] = IF @ = "waiting" THEN d ELSE @]

OnPairingApprovalRequest ==
  /\ approvals # <<>>
  /\ approvals' = Tail(approvals)
  /\ IF pending_pairing # "none"
     THEN Decides(Head(approvals), "rejected") /\ UNCHANGED <<pending_pairing, watching>>
     ELSE /\ pending_pairing' = Head(approvals)
          /\ watching' = watching \cup {Head(approvals)}
          /\ UNCHANGED request
  /\ UNCHANGED <<page, conn, answer, device>>

ResolvePairing ==
  /\ pending_pairing # "none"
  /\ pending_pairing' = "none"
  /\ \E d \in {"approved", "rejected"} : Decides(pending_pairing, d)
  /\ UNCHANGED <<page, conn, answer, approvals, watching, device>>

\* Mistaken: it looks once.
WatchdogLooksOnce(a) ==
  /\ a \in watching
  /\ watching' = watching \ {a}
  /\ pending_pairing' = IF pending_pairing = a /\ request[a] # "waiting" THEN "none" ELSE pending_pairing
  /\ UNCHANGED <<page, conn, request, answer, approvals, device>>

\* A tick with nothing to do changes nothing.
Watchdog(a) ==
  /\ a \in watching
  /\ pending_pairing # a \/ request[a] # "waiting"
  /\ watching' = watching \ {a}
  /\ pending_pairing' = IF pending_pairing = a THEN "none" ELSE pending_pairing
  /\ UNCHANGED <<page, conn, request, answer, approvals, device>>

Revoke(a) ==
  /\ device[a] = "stored"
  /\ device' = [device EXCEPT ![a] = "revoked"]
  /\ UNCHANGED <<page, conn, request, answer, desk>>

-----------------------------------------------------------------------------
PairingNext ==
  \/ CancelApproving \/ ErrorBack \/ OnPairingApprovalRequest \/ ResolvePairing
  \/ \E a \in Attempt :
       \/ RunPair(a) \/ Connected(a) \/ PairFails(a) \/ PairSucceeds(a) \/ SaveCredential(a)
       \/ RequestApproval(a) \/ HostSeesClose(a) \/ Rejects(a) \/ IssueCredentials(a)
       \/ Watchdog(a) \/ Revoke(a)

\* Timers fire, queues are drained, connections end; users need not act.
PairingFairness ==
  /\ WF_pairing_vars(OnPairingApprovalRequest)
  /\ \A a \in Attempt :
       /\ WF_pairing_vars(RequestApproval(a)) /\ WF_pairing_vars(Rejects(a))
       /\ WF_pairing_vars(IssueCredentials(a)) /\ WF_pairing_vars(Watchdog(a))
       /\ WF_pairing_vars(PairFails(a))

PairingSpec == PairingInit /\ [][PairingNext]_pairing_vars /\ PairingFairness

-----------------------------------------------------------------------------
\* A request that waits for the user is the one on the screen, or still queued:
\* at most one is undecided, and the user can decide it (main.rs,
\* on_pairing_approval_request and its watchdog).
WaitingIsShown == \A a \in Attempt : request[a] = "waiting" =>
  a = pending_pairing \/ \E i \in DOMAIN approvals : approvals[i] = a

\* A browser that keeps a credential keeps one the host has a row for, unless
\* the user revoked it or the row could not be saved (handler.rs,
\* issue_credentials): timeouts, cancels and late answers never make one up.
CredentialKnown == stored # "none" => device[stored] # "none"

\* What the user is asked is what the host waits for, and what the browser keeps is
\* what the host has.
PairingIsHonest == WaitingIsShown /\ CredentialKnown

\* A dialog nobody waits for any more goes away by itself, and the dialog's
\* slot never stays taken (main.rs, the watchdog).
DialogCloses == \A a \in Attempt :
  pending_pairing = a /\ request[a] = "over" ~> pending_pairing # a

\* What follows is said of the code, and the code does not keep it (README, section 7).

\* The cancel button "signals the host to dismiss its approval modal": once the
\* host has seen the connection end, nobody waits for the decision (main.rs 291).
CancelReachesHost == \A a \in Attempt : conn[a] = "seen closed" => request[a] # "waiting"
=============================================================================

--------------------------- MODULE ControlSession ---------------------------
(***************************************************************************)
(* One connection of a client: RemoteClient::call and its receive loop on  *)
(* one side, drive_connection, drive_control_stream and drive_data_stream  *)
(* on the other, and the queue of host commands behind them, which the     *)
(* desktop's main thread runs (HostCommandDispatcher, on_host_command).    *)
(*                                                                         *)
(* Calls are numbered by the client's request ids.  A method is one of the *)
(* session's own or a command for the main thread; reads of the snapshot   *)
(* are answered at once and change nothing, and are left out.  The         *)
(* connection belongs to one device, paired when it begins.                *)
(***************************************************************************)
EXTENDS Naturals, Sequences, FiniteSets

CONSTANTS MaxCalls,  \* bound: calls of the client
          MaxStreams, \* bound: data streams of the client, numbered as accepted
          Cap        \* MAX_DATA_STREAMS_PER_CONN

ASSUME CapAssumption == {MaxCalls, MaxStreams, Cap} \subseteq Nat

VARIABLES call,       \* per id: method, nonce of the proof, state, id answered by
          next_id, pending, receiving,  \* ClientInner; whether the receive loop runs
          connection,       \* open or closed
          up, down,   \* the control stream, both ways
          learned,    \* nonces the client has been given
          authenticated, pending_challenge, nonces, verified, \* SessionState
          paired,     \* the device's row
          handling,   \* the call whose command the control loop awaits
          commands,   \* the flume queue
          reply,      \* the oneshot of the awaited command
          runs,       \* per id: how often the main thread ran it
          stream, data_streams

client == <<call, next_id, pending, receiving, learned>>
wires == <<up, down>>
auth == <<authenticated, pending_challenge, nonces, verified>>
work == <<handling, commands, reply, runs>>
streams == <<stream, data_streams>>
control_vars == <<client, connection, wires, auth, paired, work, streams>>

CallId == 1 .. MaxCalls
Stream == 1 .. MaxStreams
Method == {"challenge", "hello", "command"}
Ended == {"ok", "error", "closed", "timeout"}
Nonce == 0 .. MaxCalls

ControlTypeOK ==
  /\ call \in [CallId -> [method: Method, nonce: Nonce, by: 0 .. MaxCalls,
                          state: {"none", "inserted", "sent"} \cup Ended]]
  /\ next_id \in 1 .. MaxCalls + 1 /\ pending \subseteq CallId
  /\ receiving \in BOOLEAN /\ connection \in {"open", "closed"}
  /\ learned \subseteq Nonce \ {0}
  /\ up \in Seq(CallId) /\ down \in Seq([id: CallId, ok: BOOLEAN, nonce: Nonce])
  /\ authenticated \in BOOLEAN /\ paired \in BOOLEAN
  /\ pending_challenge \in Nonce /\ nonces \in Nonce /\ verified \in [Nonce -> Nat]
  /\ handling \in 0 .. MaxCalls /\ commands \in Seq(CallId)
  /\ reply \in {"none", "ok", "error"} /\ runs \in [CallId -> Nat]
  /\ stream \in [Stream -> {"none", "refused", "init", "live", "ended"}]
  /\ data_streams \in Nat

ControlInit ==
  /\ call = [i \in CallId |-> [method |-> "command", nonce |-> 0, by |-> 0, state |-> "none"]]
  /\ next_id = 1 /\ pending = {} /\ receiving = TRUE /\ connection = "open" /\ learned = {}
  /\ up = <<>> /\ down = <<>>
  /\ authenticated = FALSE /\ paired = TRUE
  /\ pending_challenge = 0 /\ nonces = 0 /\ verified = [n \in Nonce |-> 0]
  /\ handling = 0 /\ commands = <<>> /\ reply = "none" /\ runs = [i \in CallId |-> 0]
  /\ stream = [s \in Stream |-> "none"] /\ data_streams = 0

-----------------------------------------------------------------------------
\* The client: a call enters its sender, then writes, then waits.
Call(m) ==
  /\ next_id <= MaxCalls
  /\ \E n \in IF m = "hello" THEN learned ELSE {0} :
       call' = [call EXCEPT ![next_id] = [@ EXCEPT !.method = m, !.nonce = n, !.state = "inserted"]]
  /\ pending' = pending \cup {next_id}
  /\ next_id' = next_id + 1
  /\ UNCHANGED <<receiving, learned, connection, wires, auth, paired, work, streams>>

Ends(i, s) ==
  /\ call' = [call EXCEPT ![i].state = s]
  /\ pending' = pending \ {i}

CallSends(i) ==
  /\ call[i].state = "inserted"
  /\ IF connection = "open"
     THEN /\ call' = [call EXCEPT ![i].state = "sent"]
          /\ up' = Append(up, i)
          /\ UNCHANGED pending
     ELSE Ends(i, "error") /\ UNCHANGED up
  /\ UNCHANGED <<next_id, receiving, learned, connection, down, auth, paired, work, streams>>

\* The 60 seconds of a call, at any time.
CallTimesOut(i) ==
  /\ call[i].state = "sent" /\ i \in pending
  /\ Ends(i, "timeout")
  /\ UNCHANGED <<next_id, receiving, learned, connection, wires, auth, paired, work, streams>>

\* The sender was dropped with the map.
CallSeesClosed(i) ==
  /\ call[i].state = "sent" /\ i \notin pending
  /\ Ends(i, "closed")
  /\ UNCHANGED <<next_id, receiving, learned, connection, wires, auth, paired, work, streams>>

Resolves(i, response) ==
  /\ call' = [call EXCEPT ![i].state = IF response.ok THEN "ok" ELSE "error", ![i].by = response.id]
  /\ learned' = IF response.nonce = 0 THEN learned ELSE learned \cup {response.nonce}

TakesLine == receiving /\ down # <<>> /\ down' = Tail(down)

\* Mistaken: answers come in order, so the oldest waiting call is the one.
ReceivesForOldest ==
  /\ TakesLine
  /\ IF pending = {} THEN UNCHANGED <<call, pending, learned>>
     ELSE LET i == CHOOSE i \in pending : \A j \in pending : i <= j IN
          Resolves(i, Head(down)) /\ pending' = pending \ {i}
  /\ UNCHANGED <<next_id, receiving, connection, up, auth, paired, work, streams>>

ReceivesResponse ==
  /\ TakesLine
  /\ LET i == Head(down).id IN
     IF i \in pending THEN Resolves(i, Head(down)) /\ pending' = pending \ {i}
                      ELSE UNCHANGED <<call, pending, learned>>
  /\ UNCHANGED <<next_id, receiving, connection, up, auth, paired, work, streams>>

\* Mistaken: the map is only drained on a clean end of the stream.
ReceiveLoopExitsOnError ==
  /\ receiving /\ connection = "closed"
  /\ receiving' = FALSE
  /\ UNCHANGED <<call, pending, next_id, learned, connection, wires, auth, paired, work, streams>>

ReceiveLoopExits ==
  /\ receiving /\ connection = "closed"
  /\ receiving' = FALSE /\ pending' = {}
  /\ UNCHANGED <<call, next_id, learned, connection, wires, auth, paired, work, streams>>

\* Closed by the client, lost, or ended by the host.
LinkCloses ==
  /\ connection = "open"
  /\ connection' = "closed" /\ down' = <<>>
  /\ UNCHANGED <<client, up, auth, paired, work, streams>>

-----------------------------------------------------------------------------
\* The host's control loop: one request, to its answer, at a time.
Answer(i, ok, n) ==
  down' = IF connection = "open" THEN Append(down, [id |-> i, ok |-> ok, nonce |-> n]) ELSE down

Reads == handling = 0 /\ connection = "open" /\ up # <<>> /\ up' = Tail(up)
Asked(m) == up # <<>> /\ call[Head(up)].method = m

SessionChallenge ==
  /\ Asked("challenge") /\ Reads
  /\ nonces' = nonces + 1 /\ pending_challenge' = nonces + 1
  /\ Answer(Head(up), TRUE, nonces + 1)
  /\ UNCHANGED <<client, connection, authenticated, verified, paired, work, streams>>

CheckAuth(i) == pending_challenge # 0 /\ call[i].nonce = pending_challenge /\ paired

Hello ==
  /\ authenticated' = (authenticated \/ CheckAuth(Head(up)))
  /\ verified' = IF CheckAuth(Head(up)) THEN [verified EXCEPT ![call[Head(up)].nonce] = @ + 1] ELSE verified
  /\ Answer(Head(up), CheckAuth(Head(up)), 0)
  /\ UNCHANGED <<client, connection, nonces, paired, work, streams>>

SessionHello == Asked("hello") /\ Reads /\ Hello /\ pending_challenge' = 0

Allowed == authenticated /\ paired

\* Every other method, refused before hello and after the device was revoked.
RequestRefused ==
  /\ Asked("command") /\ ~Allowed /\ Reads
  /\ Answer(Head(up), FALSE, 0)
  /\ UNCHANGED <<client, connection, auth, paired, work, streams>>

SendCommand ==
  /\ Asked("command") /\ Allowed /\ Reads
  /\ handling' = Head(up) /\ commands' = Append(commands, Head(up)) /\ reply' = "none"
  /\ UNCHANGED <<client, connection, down, auth, paired, runs, streams>>

CommandAnswered ==
  /\ handling # 0 /\ reply # "none"
  /\ Answer(handling, reply = "ok", 0)
  /\ handling' = 0
  /\ UNCHANGED <<client, connection, up, auth, paired, commands, reply, runs, streams>>

\* Mistaken: a command that was not answered in time is sent again.
CommandRetries ==
  /\ handling # 0 /\ reply = "none" /\ Len(commands) < 2
  /\ commands' = Append(commands, handling)
  /\ UNCHANGED <<client, connection, wires, auth, paired, handling, reply, runs, streams>>

\* 60 seconds, at any time before the reply; the command stays queued.
CommandTimesOut ==
  /\ handling # 0 /\ reply = "none"
  /\ Answer(handling, FALSE, 0)
  /\ handling' = 0
  /\ UNCHANGED <<client, connection, up, auth, paired, commands, reply, runs, streams>>

\* The main thread: the command takes effect or fails, and whoever still
\* waits hears of it.
OnHostCommand ==
  /\ commands # <<>>
  /\ commands' = Tail(commands)
  /\ \E done \in BOOLEAN :
       /\ runs' = IF done THEN [runs EXCEPT ![Head(commands)] = @ + 1] ELSE runs
       /\ reply' = IF handling = Head(commands) THEN (IF done THEN "ok" ELSE "error") ELSE reply
  /\ UNCHANGED <<client, connection, wires, auth, paired, handling, streams>>

Revoked ==
  /\ paired /\ paired' = FALSE
  /\ UNCHANGED <<client, connection, wires, auth, work, streams>>

-----------------------------------------------------------------------------
\* Data streams.  The accept loop refuses one at a time and awaits the write.
AcceptsStream(s) ==
  /\ connection = "open" /\ stream[s] = "none"
  /\ \A r \in 1 .. s - 1 : stream[r] \notin {"none", "refused"}
  /\ stream' = [stream EXCEPT ![s] = IF data_streams >= Cap THEN "refused" ELSE "init"]
  /\ data_streams' = data_streams + 1
  /\ UNCHANGED <<client, connection, wires, auth, paired, work>>

RefusesStream(s) ==
  /\ stream[s] = "refused"
  /\ stream' = [stream EXCEPT ![s] = "ended"]
  /\ data_streams' = data_streams - 1
  /\ UNCHANGED <<client, connection, wires, auth, paired, work>>

StreamInit(s) ==
  /\ stream[s] = "init" /\ Allowed
  /\ stream' = [stream EXCEPT ![s] = "live"]
  /\ UNCHANGED <<client, connection, wires, auth, paired, work, data_streams>>

\* The init was refused, malformed or late, or the stream's loop is over.
StreamTaskEnds(s) ==
  /\ stream[s] \in {"init", "live"}
  /\ stream' = [stream EXCEPT ![s] = "ended"]
  /\ data_streams' = data_streams - 1
  /\ UNCHANGED <<client, connection, wires, auth, paired, work>>

-----------------------------------------------------------------------------
HostReads == SessionChallenge \/ SessionHello \/ RequestRefused \/ SendCommand

ControlNext ==
  \/ \E m \in Method : Call(m)
  \/ \E i \in CallId : CallSends(i) \/ CallTimesOut(i) \/ CallSeesClosed(i)
  \/ ReceivesResponse \/ ReceiveLoopExits \/ LinkCloses
  \/ HostReads \/ CommandAnswered \/ CommandTimesOut \/ OnHostCommand \/ Revoked
  \/ \E s \in Stream :
       AcceptsStream(s) \/ RefusesStream(s) \/ StreamInit(s) \/ StreamTaskEnds(s)

\* Ready tasks run and the host's timer fires; neither the client's timer nor
\* the main thread is counted on.
ControlFairness ==
  /\ \A i \in CallId : WF_control_vars(CallSends(i)) /\ WF_control_vars(CallSeesClosed(i))
  /\ WF_control_vars(ReceivesResponse) /\ WF_control_vars(ReceiveLoopExits)
  /\ WF_control_vars(HostReads) /\ WF_control_vars(CommandAnswered) /\ WF_control_vars(CommandTimesOut)

ControlSpec == ControlInit /\ [][ControlNext]_control_vars /\ ControlFairness

-----------------------------------------------------------------------------
\* A call that ends with an answer ends with its own, however late others are
\* (client.rs, the pending map); a command answered with success took effect,
\* and none takes effect twice, whatever was timed out, by either side, or lost.
AnswersMatch ==
  /\ \A i \in CallId : call[i].by \in {0, i}
  /\ \A i \in CallId : runs[i] <= 1
  /\ \A i \in CallId : call[i].state = "ok" /\ call[i].method = "command" => runs[i] = 1

\* A nonce proves a device once: "invalidates the nonce on first use" (auth.rs),
\* with hellos and challenges of one client crossing each other.
NonceProvesOnce == \A n \in Nonce \ {0} : verified[n] <= 1

\* The counter that gates new streams is the number of stream tasks, and those
\* never exceed the cap (session.rs, drive_connection).
TasksOf(states) == {s \in Stream : stream[s] \in states}
StreamsCounted ==
  /\ data_streams = Cardinality(TasksOf({"refused", "init", "live"}))
  /\ Cardinality(TasksOf({"init", "live"})) <= Cap

\* What a connection admits: answers to their own calls, a command and a proof once, as
\* many streams as the cap.
ConnectionIsSound == AnswersMatch /\ NonceProvesOnce /\ StreamsCounted

\* Every call ends, without the help of its own timer: answered, refused, or
\* failed with the connection (client.rs, DrainPending; commands.rs, the timeout).
EveryCallEnds == \A i \in CallId : call[i].state \in {"inserted", "sent"} ~> call[i].state \in Ended

\* What follows is said of the code, and the code does not keep it (README, section 7).

\* "any in-flight connection from that device is torn down" (02-auth.md):
\* what a revoked device still has open.
RevokedIsSignedOut == ~paired => \A s \in Stream : stream[s] # "live"
=============================================================================

------------------------------- MODULE Gateway -------------------------------
(***************************************************************************)
(* The auth gateway of one agent tab (sandbox/auth_gateway.rs): a listener *)
(* and, per connection, a task that finds out where a request goes and     *)
(* with which credential, and then either answers it with what the provider*)
(* says or relays a WebSocket.  The vault it reads may be edited, logged in*)
(* anew or refreshed by others between any two of its reads.               *)
(*                                                                         *)
(* A login, or an API key, is a number; refreshing it gives its next token,*)
(* so a credential is a login and a serial.  How refreshes race for one    *)
(* token is Providers'.  A connection carries one request.                 *)
(*                                                                         *)
(* A relay is two loops in one task.  Either is blind to the other side's  *)
(* end while it waits in a send, which is as long as the side it sends to  *)
(* reads nothing.                                                          *)
(***************************************************************************)
EXTENDS Naturals

CONSTANTS
    Connections, \* what the agent connects
    MaxSecretsKept, \* bound: logins and API keys ever saved
    MaxSerial,   \* bound: refreshes of one
    MaxFrames    \* bound: frames sent to a relay and not yet read by it

ASSUME GatewayAssumption == MaxSecretsKept \in Nat /\ MaxSerial \in Nat /\ MaxFrames \in Nat

VARIABLES
    kept,      \* the vault's row: its method, login, serial and whether it is
               \* about to expire
    saves,     \* logins and keys saved so far
    listening, \* the accept loop: "no", "yes" or "stopped"
    task,      \* per connection: where its task is and what it has read
    agent_side, upstream_side, \* per connection: "open"; "closed", it has sent a
               \* close frame or its last byte; "lost", reading it fails
    relay      \* per connection and direction: where its loop is, and the frames
               \* it has yet to read
gateway_vars == <<kept, saves, listening, task, agent_side, upstream_side, relay>>

NoRow == [method |-> "none", login |-> 0, serial |-> 0, near |-> FALSE]
NoTask == [at |-> "none", is_oauth |-> FALSE, login |-> 0, serial |-> 0, account |-> 0,
           granted |-> 0, crossed |-> FALSE]
Logins == 0..MaxSecretsKept
Serials == 0..MaxSerial + 1
Sides == {"none", "open", "closed", "lost"}
Resolving == {"method", "refresh", "credential", "account"}
Streaming == {"response", "relay"}
Dirs == {"up", "down"}
NoRelay == [d \in Dirs |-> [at |-> "none", frames |-> 0]]

GatewayTypeOK ==
    /\ kept \in [method : {"none", "api_key", "oauth"}, login : Logins,
                  serial : Serials, near : BOOLEAN]
    /\ saves \in Logins /\ listening \in {"no", "yes", "stopped"}
    /\ task \in [Connections ->
          [at : {"none", "connect", "refused", "ended"} \cup Resolving \cup Streaming,
           is_oauth : BOOLEAN, login : Logins, serial : Serials, account : Logins,
           granted : Serials, crossed : BOOLEAN]]
    /\ agent_side \in [Connections -> Sides] /\ upstream_side \in [Connections -> Sides]
    /\ relay \in [Connections -> [Dirs ->
          [at : {"none", "reading", "sending", "closing", "ended"}, frames : 0..MaxFrames]]]

GatewayInit ==
    /\ kept = NoRow /\ saves = 0 /\ listening = "no"
    /\ task = [c \in Connections |-> NoTask]
    /\ agent_side = [c \in Connections |-> "none"]
    /\ upstream_side = [c \in Connections |-> "none"]
    /\ relay = [c \in Connections |-> NoRelay]

-----------------------------------------------------------------------------
(* The vault, edited by others: what is being resolved meanwhile is crossed*)
Crossed == [c \in Connections |->
              IF task[c].at \in Resolving THEN [task[c] EXCEPT !.crossed = TRUE] ELSE task[c]]

Edited(row) ==
    /\ kept' = row /\ task' = Crossed
    /\ UNCHANGED <<listening, agent_side, upstream_side, relay>>

VaultSaves(method) ==
    /\ saves < MaxSecretsKept /\ saves' = saves + 1
    /\ Edited([method |-> method, login |-> saves', serial |-> 1, near |-> FALSE])

VaultRemoves == kept # NoRow /\ Edited(NoRow) /\ UNCHANGED saves

TokenNearsExpiry ==
    /\ kept.method = "oauth" /\ kept' = [kept EXCEPT !.near = TRUE]
    /\ UNCHANGED <<saves, listening, task, agent_side, upstream_side, relay>>

(* By a boot or another gateway.                                           *)
Refreshed == [kept EXCEPT !.serial = @ + 1, !.near = FALSE]
Due == kept.method = "oauth" /\ kept.near /\ kept.serial <= MaxSerial
RefreshedByOthers ==
    /\ Due /\ kept' = Refreshed
    /\ UNCHANGED <<saves, listening, task, agent_side, upstream_side, relay>>

-----------------------------------------------------------------------------
(* AuthGateway::start, and stop: the accept loop ends, and what it has     *)
(* accepted goes on.                                                       *)
start ==
    /\ listening = "no" /\ listening' = "yes"
    /\ UNCHANGED <<kept, saves, task, agent_side, upstream_side, relay>>
stop ==
    /\ listening = "yes" /\ listening' = "stopped"
    /\ UNCHANGED <<kept, saves, task, agent_side, upstream_side, relay>>

accept(c) ==
    /\ listening = "yes" /\ task[c].at = "none"
    /\ task' = [task EXCEPT ![c].at = "method"]
    /\ agent_side' = [agent_side EXCEPT ![c] = "open"]
    /\ UNCHANGED <<kept, saves, listening, upstream_side, relay>>

(* The task of a connection goes on.                                       *)
Continues(c, from, to) ==
    /\ task[c].at = from /\ task' = [task EXCEPT ![c] = to]
    /\ UNCHANGED <<saves, listening, agent_side>>

(* resolve_upstream: the method, the refresh it may call for, the value,   *)
(* and the account in the id token, each read for itself.                  *)
ReadsMethod(c) ==
    LET oauth == kept.method = "oauth" IN
    /\ Continues(c, "method", [task[c] EXCEPT !.is_oauth = oauth,
                                              !.at = IF oauth THEN "refresh" ELSE "credential"])
    /\ UNCHANGED <<kept, upstream_side, relay>>

(* A variant that reads the credential first and refreshes it for the next *)
(* request.                                                                *)
RefreshesLate(c) ==
    /\ kept.method = "oauth"
    /\ kept' = IF Due THEN Refreshed ELSE kept
    /\ Continues(c, "refresh", [task[c] EXCEPT !.at = "account", !.granted = kept'.serial,
                       !.login = kept.login, !.serial = kept.serial])
    /\ UNCHANGED <<upstream_side, relay>>

(* refresh_if_needed: its error is only printed.                           *)
Refreshes(c) ==
    /\ \/ /\ Due /\ kept' = Refreshed
          /\ Continues(c, "refresh", [task[c] EXCEPT !.at = "credential",
                                                     !.granted = kept'.serial])
       \/ Continues(c, "refresh", [task[c] EXCEPT !.at = "credential"]) /\ UNCHANGED kept
    /\ UNCHANGED <<upstream_side, relay>>

(* Without a row the request is answered with 502.                         *)
ReadsCredential(c) ==
    /\ Continues(c, "credential",
          [task[c] EXCEPT !.at = IF kept = NoRow THEN "refused"
                                 ELSE IF task[c].is_oauth THEN "account" ELSE "connect",
                          !.login = kept.login, !.serial = kept.serial])
    /\ UNCHANGED <<kept, upstream_side, relay>>

(* extract_jwt_claim: an API key has no id token.                          *)
ReadsAccount(c) ==
    /\ Continues(c, "account",
          [task[c] EXCEPT !.at = "connect",
                          !.account = IF kept.method = "oauth" THEN kept.login ELSE 0])
    /\ UNCHANGED <<kept, upstream_side, relay>>

(* forward_http and handle_websocket: connected with what was resolved, or *)
(* answered with 502.                                                      *)
ConnectsUpstream(c, kind) ==
    /\ Continues(c, "connect", [task[c] EXCEPT !.at = kind])
    /\ upstream_side' = [upstream_side EXCEPT ![c] = "open"]
    /\ relay' = IF kind = "relay"
                THEN [relay EXCEPT ![c] = [d \in Dirs |-> [at |-> "reading", frames |-> 0]]]
                ELSE relay
    /\ UNCHANGED kept
ConnectFails(c) ==
    /\ Continues(c, "connect", [task[c] EXCEPT !.at = "refused"])
    /\ UNCHANGED <<kept, upstream_side, relay>>

(* Either side ends what it sends, with a close frame or without one.      *)
AgentLeaves(c, how) ==
    /\ agent_side[c] = "open" /\ agent_side' = [agent_side EXCEPT ![c] = how]
    /\ UNCHANGED <<kept, saves, listening, task, upstream_side, relay>>
UpstreamLeaves(c, how) ==
    /\ upstream_side[c] = "open" /\ task[c].at \in Streaming
    /\ upstream_side' = [upstream_side EXCEPT ![c] = how]
    /\ UNCHANGED <<kept, saves, listening, task, agent_side, relay>>
AgentGone(c) == agent_side[c] # "open"
UpstreamGone(c) == upstream_side[c] # "open"

(* The end of a task drops both connections.                               *)
Dropped(c) ==
    /\ task' = [task EXCEPT ![c].at = "ended"]
    /\ agent_side' = [agent_side EXCEPT ![c] = IF @ = "open" THEN "closed" ELSE @]
    /\ upstream_side' = [upstream_side EXCEPT ![c] = IF @ = "open" THEN "closed" ELSE @]
    /\ relay' = [relay EXCEPT ![c] = NoRelay]
    /\ UNCHANGED <<kept, saves, listening>>

(* hyper drops a request whose agent has hung up, and a response ends with *)
(* its body or its reader.                                                 *)
HungUp(c) == task[c].at \in Resolving \cup {"connect"} /\ AgentGone(c) /\ Dropped(c)
ResponseEnds(c) == task[c].at = "response" /\ (AgentGone(c) \/ UpstreamGone(c)) /\ Dropped(c)

-----------------------------------------------------------------------------
(* The relay: the loops client_to_upstream and upstream_to_client.         *)
From(c, d) == IF d = "up" THEN agent_side[c] ELSE upstream_side[c]
To(c, d) == IF d = "up" THEN upstream_side[c] ELSE agent_side[c]

LoopMoves(c, d, loop) ==
    /\ task[c].at = "relay" /\ relay' = [relay EXCEPT ![c][d] = loop]
    /\ UNCHANGED <<kept, saves, listening, task, agent_side, upstream_side>>
LoopGoes(c, d, to) == LoopMoves(c, d, [relay[c][d] EXCEPT !.at = to])

FrameSent(c, d) ==
    /\ From(c, d) = "open" /\ relay[c][d].frames < MaxFrames
    /\ LoopMoves(c, d, [relay[c][d] EXCEPT !.frames = @ + 1])

(* next(): a frame, the close frame after the others, the end or an error. *)
Reads(c, d) ==
    /\ relay[c][d].at = "reading"
    /\ \/ /\ relay[c][d].frames > 0
          /\ LoopMoves(c, d, [at |-> "sending", frames |-> relay[c][d].frames - 1])
       \/ relay[c][d].frames = 0 /\ From(c, d) = "closed" /\ LoopGoes(c, d, "closing")
       \/ From(c, d) = "lost" /\ LoopGoes(c, d, "ended")

(* send() and close() wait until the other side, or what buffers for it,   *)
(* has taken the frame; towards a side that is gone they may fail.         *)
Waits(c, d) == relay[c][d].at \in {"sending", "closing"}
Taken(c, d) == Waits(c, d) /\ LoopGoes(c, d, IF relay[c][d].at = "sending" THEN "reading" ELSE "ended")
SendFails(c, d) == Waits(c, d) /\ To(c, d) # "open" /\ LoopGoes(c, d, "ended")

(* A variant that waits for both directions.                               *)
join(loops) == \A d \in Dirs : loops[d].at = "ended"
(* The first direction to end ends the relay.                              *)
select(loops) == \E d \in Dirs : loops[d].at = "ended"

RelayEnds(c) == task[c].at = "relay" /\ select(relay[c]) /\ Dropped(c)

GatewayNext ==
    \/ \E method \in {"api_key", "oauth"} : VaultSaves(method)
    \/ VaultRemoves \/ TokenNearsExpiry \/ RefreshedByOthers \/ start \/ stop
    \/ \E c \in Connections :
          \/ accept(c) \/ ReadsMethod(c) \/ Refreshes(c) \/ ReadsCredential(c) \/ ReadsAccount(c)
          \/ (\E kind \in Streaming : ConnectsUpstream(c, kind)) \/ ConnectFails(c)
          \/ \E how \in {"closed", "lost"} : AgentLeaves(c, how) \/ UpstreamLeaves(c, how)
          \/ HungUp(c) \/ ResponseEnds(c) \/ RelayEnds(c)
          \/ \E d \in Dirs : FrameSent(c, d) \/ Reads(c, d) \/ Taken(c, d) \/ SendFails(c, d)

(* A relay's task is polled when a side has something for it.              *)
RelayFairness ==
    \A c \in Connections :
        /\ WF_gateway_vars(RelayEnds(c))
        /\ \A d \in Dirs : WF_gateway_vars(Reads(c, d) \/ SendFails(c, d))

(* Of the agent and the provider it is assumed that they go on reading what*)
(* they are sent: nothing in the code ends a send to a side that does not. *)
PeersRead == \A c \in Connections, d \in Dirs : WF_gateway_vars(Taken(c, d))

GatewayFairness == RelayFairness /\ PeersRead
GatewaySpec == GatewayInit /\ [][GatewayNext]_gateway_vars /\ GatewayFairness

-----------------------------------------------------------------------------
(* What goes upstream is of one login: the token and the account it is sent*)
(* with, to the place its kind is for; and not a token that the request    *)
(* itself had replaced.  A vault edited between the reads is excepted.     *)
SentAsOne ==
    \A c \in Connections :
        task[c].at \in {"connect"} \cup Streaming /\ ~task[c].crossed =>
            /\ task[c].login # 0 /\ task[c].granted <= task[c].serial
            /\ task[c].account = IF task[c].is_oauth THEN task[c].login ELSE 0

(* When a side of a relay goes, with or without a close frame, the other is*)
(* let go, whatever the two loops are at: no half of one stays open behind *)
(* it, among peers that read.                                              *)
RelayLetsGo ==
    \A c \in Connections :
        task[c].at = "relay" /\ (AgentGone(c) \/ UpstreamGone(c)) ~> task[c].at = "ended"

(* What follows is said of the code, and the code does not keep it         *)
(* (README, section 7).                                                    *)

(* auth_gateway.rs:5 "For API key auth: forwards to api.openai.com as-is.  *)
(* For OAuth auth: rewrites to chatgpt.com/backend-api": not when the vault*)
(* changes after the method was read.                                      *)
MethodFitsCredential ==
    \A c \in Connections :
        task[c].at = "connect" /\ task[c].is_oauth => task[c].account = task[c].login
=============================================================================

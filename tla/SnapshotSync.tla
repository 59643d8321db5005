---------------------------- MODULE SnapshotSync ----------------------------
(***************************************************************************)
(* How a remote client's list of workspaces and tabs follows the desktop's.*)
(* The main thread pushes a snapshot (RemoteAccess::push_snapshot), each   *)
(* session's control loop subscribes to "snapshot.invalidated" once it is  *)
(* authenticated and forwards it between requests, and the web client      *)
(* answers each one by listing workspaces and tabs again, in two calls.    *)
(*                                                                         *)
(* A snapshot is its version: the number of times its content changed.  A  *)
(* push of unchanged content writes the same value and sends nothing, a    *)
(* step that changes nothing.  The fields since and joined are history:    *)
(* the notification carries no version.                                    *)
(***************************************************************************)
EXTENDS Integers, Sequences, SequencesExt

CONSTANTS Client,
          MaxVersion,    \* bound: changes of the snapshot
          Capacity,      \* of the notification channel (16 in the code)
          MaxRefreshes   \* bound: refreshes a client has under way

ASSUME BoundAssumption ==
  MaxVersion \in Nat \ {0} /\ Capacity \in Nat \ {0} /\ MaxRefreshes \in Nat \ {0}

VARIABLES version,    \* of the last hash
          todo,       \* what push_snapshot still has to do
          state,      \* Arc<RwLock<RemoteStateSnapshot>>
          session,    \* per client: how far the host's control loop is
          greeting,   \* per client: the snapshot session_hello read
          joined,     \* per client: last version announced when it subscribed
          channel,    \* per client: its receiver of the broadcast channel
          requests, wire, \* per client: the control stream, both ways
          link,       \* per client: the store's session.kind
          view,       \* per client: the store's workspaces and tabs
          refreshes,  \* per client: refreshSnapshot calls under way
          gave_up     \* per client: a refresh failed and no later one succeeded

host == <<version, todo, state>>
loop == <<session, greeting, joined, channel>>
app == <<link, view, refreshes, gave_up>>
vars == <<host, loop, requests, wire, app>>

Version == 0 .. MaxVersion
Lists == {"workspaces", "tabs"}
View == [Lists -> Version]
None == [l \in Lists |-> 0]
Refresh == [got: View, since: Version, failed: BOOLEAN]
Requests == {"session.hello"} \cup Lists
Messages == [kind: Requests \cup {"snapshot.invalidated"}, version: Version]
Announced == IF "notify" \in todo THEN version - 1 ELSE version

Init ==
  /\ version = 1 /\ todo = {} /\ state = 1
  /\ session = [c \in Client |-> "none"]
  /\ greeting = [c \in Client |-> 0] /\ joined = [c \in Client |-> 0]
  /\ channel = [c \in Client |-> <<>>]
  /\ requests = [c \in Client |-> <<>>] /\ wire = [c \in Client |-> <<>>]
  /\ link = [c \in Client |-> "idle"] /\ view = [c \in Client |-> None]
  /\ refreshes = [c \in Client |-> <<>>] /\ gave_up = [c \in Client |-> FALSE]

Write(c, kind, v) == wire' = [wire EXCEPT ![c] = Append(@, [kind |-> kind, version |-> v])]

-----------------------------------------------------------------------------
\* The main thread.
PushStarts ==
  /\ todo = {} /\ version < MaxVersion
  /\ version' = version + 1
  /\ todo' = {"write", "notify"}
  /\ UNCHANGED <<state, loop, requests, wire, app>>

PushWrites ==
  /\ "write" \in todo
  /\ state' = version
  /\ todo' = todo \ {"write"}
  /\ UNCHANGED <<version, loop, requests, wire, app>>

\* A receiver that is full loses its oldest entry: recv() then reports Lagged,
\* which the loop skips, and goes on with the oldest one kept.
Lagging(s) == IF Len(s) > Capacity THEN Tail(s) ELSE s
Broadcasts ==
  /\ channel' = [c \in Client |-> IF session[c] = "subscribed"
                                  THEN Lagging(Append(channel[c], version)) ELSE channel[c]]
  /\ todo' = todo \ {"notify"}
  /\ UNCHANGED <<version, state, session, greeting, joined, requests, wire, app>>

\* Mistaken: the notification may go out before the state is written.
NotifiesAnyTime == "notify" \in todo /\ Broadcasts

PushNotifies == todo = {"notify"} /\ Broadcasts

-----------------------------------------------------------------------------
\* The host's control loop of one connection: one request at a time, and no
\* notification while one is being handled.
HelloReads(c) ==
  /\ session[c] = "connected" /\ requests[c] # <<>> /\ Head(requests[c]) = "session.hello"
  /\ requests' = [requests EXCEPT ![c] = Tail(@)]
  /\ greeting' = [greeting EXCEPT ![c] = state]
  /\ session' = [session EXCEPT ![c] = "hello"]
  /\ UNCHANGED <<host, joined, channel, wire, app>>

HelloAnswers(c) ==
  /\ session[c] = "hello"
  /\ Write(c, "session.hello", greeting[c])
  /\ session' = [session EXCEPT ![c] = "authenticated"]
  /\ UNCHANGED <<host, greeting, joined, channel, requests, app>>

Subscribes(c) ==
  /\ session[c] = "authenticated"
  /\ session' = [session EXCEPT ![c] = "subscribed"]
  /\ joined' = [joined EXCEPT ![c] = Announced]
  /\ UNCHANGED <<host, greeting, channel, requests, wire, app>>

Serves(c) ==
  /\ session[c] = "subscribed" /\ requests[c] # <<>>
  /\ Write(c, Head(requests[c]), state)
  /\ requests' = [requests EXCEPT ![c] = Tail(@)]
  /\ UNCHANGED <<host, loop, app>>

Forwards(c) ==
  /\ session[c] = "subscribed" /\ channel[c] # <<>>
  /\ Write(c, "snapshot.invalidated", Head(channel[c]))
  /\ channel' = [channel EXCEPT ![c] = Tail(@)]
  /\ UNCHANGED <<host, session, greeting, joined, requests, app>>

-----------------------------------------------------------------------------
\* The web client.
Connects(c) ==
  /\ link[c] = "idle"
  /\ link' = [link EXCEPT ![c] = "connecting"]
  /\ session' = [session EXCEPT ![c] = "connected"]
  /\ requests' = [requests EXCEPT ![c] = <<"session.hello">>]
  /\ UNCHANGED <<host, greeting, joined, channel, wire, view, refreshes, gave_up>>

\* The receive loop hands responses to the waiting calls and notifications to a
\* queue of their own: each kind keeps its order, and they may overtake each other.
First(c, kinds) == CHOOSE k \in DOMAIN wire[c] :
  wire[c][k].kind \in kinds /\ \A i \in 1 .. k - 1 : wire[c][i].kind \notin kinds
Arrived(c, kinds) == wire[c][First(c, kinds)]
Arrives(c, kinds) ==
  /\ \E k \in DOMAIN wire[c] : wire[c][k].kind \in kinds
  /\ wire' = [wire EXCEPT ![c] = RemoveAt(@, First(c, kinds))]

ReceivesHello(c) ==
  /\ Arrives(c, {"session.hello"})
  /\ view' = [view EXCEPT ![c] = [l \in Lists |-> Arrived(c, {"session.hello"}).version]]
  /\ link' = [link EXCEPT ![c] = "ready"]
  /\ UNCHANGED <<host, loop, requests, refreshes, gave_up>>

Refreshes(c, v) ==
  /\ requests' = [requests EXCEPT ![c] = @ \o <<"workspaces", "tabs">>]
  /\ refreshes' = [refreshes EXCEPT ![c] = Append(@, [got |-> None, since |-> v, failed |-> FALSE])]
  /\ UNCHANGED <<host, loop, link, view, gave_up>>

\* Mistaken: an invalidation is ignored while a refresh is under way.
ReceivesUnlessBusy(c) ==
  /\ Arrives(c, {"snapshot.invalidated"})
  /\ IF refreshes[c] = <<>> THEN Refreshes(c, Arrived(c, {"snapshot.invalidated"}).version)
                            ELSE UNCHANGED <<host, loop, requests, app>>

ReceivesInvalidated(c) ==
  /\ link[c] = "ready" /\ Arrives(c, {"snapshot.invalidated"})
  /\ Refreshes(c, Arrived(c, {"snapshot.invalidated"}).version)

\* Pull to refresh, and after opening or closing a tab.
UserRefreshes(c) ==
  /\ link[c] = "ready" /\ Len(refreshes[c]) < MaxRefreshes
  /\ Refreshes(c, 0) /\ UNCHANGED wire

\* Responses come in the order of the requests, so the next one belongs to the
\* oldest refresh.
Answered(c) == 1

\* The store takes a refresh whole, when both lists are there, unless a call of it
\* has failed.
ReceivesList(c) ==
  /\ Arrives(c, Lists)
  /\ LET n == Answered(c)
         r == refreshes[c][n]
         m == Arrived(c, Lists)
         got == [r.got EXCEPT ![m.kind] = m.version]
         whole == \A l \in Lists : got[l] # 0
     IN /\ refreshes' = [refreshes EXCEPT ![c] =
                          IF whole THEN RemoveAt(@, n) ELSE [@ EXCEPT ![n].got = got]]
        /\ view' = IF whole /\ ~r.failed THEN [view EXCEPT ![c] = got] ELSE view
        /\ gave_up' = IF ~whole \/ r.failed THEN gave_up ELSE
             [gave_up EXCEPT ![c] = \E k \in n + 1 .. Len(refreshes[c]) : refreshes[c][k].failed]
  /\ UNCHANGED <<host, loop, requests, link>>

\* A call of a refresh times out (60 s); its response comes too late for it.
RefreshFails(c) ==
  /\ \E k \in DOMAIN refreshes[c] :
       /\ ~refreshes[c][k].failed
       /\ refreshes' = [refreshes EXCEPT ![c][k].failed = TRUE]
  /\ gave_up' = [gave_up EXCEPT ![c] = TRUE]
  /\ UNCHANGED <<host, loop, requests, wire, link, view>>

\* The connection drops: what is on it is lost and waiting calls fail.
Drops(c, waiting) ==
  /\ link[c] \in {"connecting", "ready"}
  /\ session' = [session EXCEPT ![c] = "none"]
  /\ channel' = [channel EXCEPT ![c] = <<>>]
  /\ requests' = [requests EXCEPT ![c] = <<>>] /\ wire' = [wire EXCEPT ![c] = <<>>]
  /\ refreshes' = [refreshes EXCEPT ![c] = waiting]
  /\ link' = [link EXCEPT ![c] = IF @ = "ready" THEN "lost" ELSE "error"]
  /\ UNCHANGED <<host, greeting, joined, view, gave_up>>

ConnectionLost(c) == Drops(c, <<>>)

\* onDisconnect clears the session, which reconnects; after a failed connect the
\* user has to retry.
Disconnected(c) ==
  /\ link[c] \in {"lost", "error"}
  /\ link' = [link EXCEPT ![c] = "idle"]
  /\ view' = [view EXCEPT ![c] = None] /\ gave_up' = [gave_up EXCEPT ![c] = FALSE]
  /\ UNCHANGED <<host, loop, requests, wire, refreshes>>

Session(c) == HelloReads(c) \/ HelloAnswers(c) \/ Subscribes(c)
Receives(c) == ReceivesHello(c) \/ ReceivesInvalidated(c) \/ ReceivesList(c)

Next ==
  \/ PushStarts \/ PushWrites \/ PushNotifies
  \/ \E c \in Client : \/ Session(c) \/ Serves(c) \/ Forwards(c)
                       \/ Connects(c) \/ Receives(c) \/ UserRefreshes(c) \/ RefreshFails(c)
                       \/ ConnectionLost(c) \/ Disconnected(c)

\* push_snapshot runs to its end; the control loop serves requests and forwards
\* notifications (select! polls its branches in random order); the client's event
\* loop reads.  Nothing makes the desktop change or a user act.
Fairness ==
  /\ WF_vars(PushWrites) /\ WF_vars(PushNotifies)
  /\ \A c \in Client : /\ WF_vars(Session(c)) /\ WF_vars(Receives(c))
                       /\ WF_vars(Serves(c)) /\ SF_vars(Forwards(c))
Spec == Init /\ [][Next]_vars /\ Fairness

-----------------------------------------------------------------------------
TypeOK ==
  /\ version \in Version /\ state \in Version /\ todo \subseteq {"write", "notify"}
  /\ session \in [Client -> {"none", "connected", "hello", "authenticated", "subscribed"}]
  /\ greeting \in [Client -> Version] /\ joined \in [Client -> Version]
  /\ channel \in [Client -> Seq(Version)]
  /\ \A c \in Client : /\ Len(channel[c]) <= Capacity
                       /\ requests[c] \in Seq(Requests) /\ wire[c] \in Seq(Messages)
                       /\ refreshes[c] \in Seq(Refresh)
                       /\ link[c] # "ready" => refreshes[c] = <<>>
  /\ link \in [Client -> {"idle", "connecting", "ready", "lost", "error"}]
  /\ view \in [Client -> View] /\ gave_up \in [Client -> BOOLEAN]

\* A client that lists again because of an invalidation gets, in both lists, the
\* change it was told of or a later one: the state is written before anyone hears
\* of it (mod.rs:125-131).
RefreshIsFresh ==
  \A c \in Client : \A k \in DOMAIN refreshes[c], l \in Lists :
    LET r == refreshes[c][k] IN r.got[l] # 0 => r.got[l] >= r.since

\* While connected, neither list on the screen goes back to an older state, however
\* many refreshes overlap (App.tsx:87, session.ts:56).
ViewNeverGoesBack ==
  [][\A c \in Client, l \in Lists :
       link[c] = "ready" /\ link'[c] = "ready" => view'[c][l] >= view[c][l]]_vars

Coming(c) ==
  \/ todo # {}
  \/ channel[c] # <<>>
  \/ \E k \in DOMAIN wire[c] : wire[c][k].kind = "snapshot.invalidated"
  \/ \E k \in DOMAIN refreshes[c] : ~refreshes[c][k].failed

\* A client that has what was announced when it subscribed and is behind, or whose
\* two lists are of different snapshots, has a notification or a refresh coming,
\* unless its refresh failed: no lag and no overlap loses the last change.
StaleHasCause ==
  \A c \in Client :
    /\ link[c] = "ready" /\ session[c] = "subscribed" /\ ~gave_up[c]
    /\ \A l \in Lists : view[c][l] >= joined[c]
    /\ \E l \in Lists : view[c][l] < state
    => Coming(c)

\* No change is missed: not in what a refresh brings, nor between the refreshes.
NothingMissed == RefreshIsFresh /\ StaleHasCause

Behind(c, v) == link[c] = "ready" /\ \E l \in Lists : view[c][l] < v

\* What a subscribed client is behind by arrives, if its connection and its
\* refreshes hold.
ChangeReachesClient ==
  \A c \in Client, v \in 1 .. MaxVersion :
    (state = v /\ session[c] = "subscribed" /\ \A l \in Lists : view[c][l] >= joined[c])
      ~> (~Behind(c, v) \/ gave_up[c])

\* The view of a subscribed client moves to the present, and never back.
ViewMovesOn == ViewNeverGoesBack /\ ChangeReachesClient

\* What follows is said of the code, and the code does not keep it (README, section 7).

\* notifications.rs:9: the notification is "sent by the host any time its snapshot
\* changes shape", so a connected client does not stay behind.
ConnectedClientCatchesUp ==
  \A c \in Client, v \in 1 .. MaxVersion :
    (state = v /\ link[c] = "ready") ~> (~Behind(c, v) \/ gave_up[c])
=============================================================================

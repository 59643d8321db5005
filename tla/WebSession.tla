------------------------------ MODULE WebSession -------------------------------
(***************************************************************************)
(* The web client's pairing, its stored credentials and its session: the   *)
(* pair screen (pair.tsx), the credential kept under a passkey and its     *)
(* copy for the page (storage.ts), the store (store.ts), the gate that     *)
(* connects (App.tsx, session.ts) and "Forget this host"                   *)
(* (SettingsSheet.tsx).  Each await is a point where any other of them may *)
(* run; what an await returns is used whatever has happened since.         *)
(***************************************************************************)
EXTENDS Naturals, FiniteSets

CONSTANTS
    WebHosts,    \* peer ids
    MaxKeys,     \* bound: device keys ever issued to this browser
    MaxAttempts, \* bound: calls of establishSession at once
    MaxDrops     \* bound: connections dropped and pages reloaded

ASSUME WebSessionAssumption == MaxKeys \in Nat \ {0} /\ MaxAttempts \in Nat /\ MaxDrops \in Nat

NoHost == "no host"
NoKey == 0

VARIABLES
    pairedHost, \* the store, kept in localStorage
    web_session,    \* the store: session.kind
    web_client, \* the store: the host the ClientHandle is connected to, or NoHost
    row,        \* IndexedDB: the device key of each host, or NoKey
    cache,      \* sessionCache of the page: the same, unlocked
    attempts,   \* establishSession under way: [host, stage, key]
    pairing,    \* runPair under way: [host, stage, key], at most one
    forgetting, \* hosts whose clearCredential has not returned
    route,      \* "pair" or "home"
    keys,       \* device keys issued so far
    overlapped, \* ghost: hosts forgotten or paired again while being unlocked
    drops       \* connections dropped and pages reloaded so far

web_vars == <<pairedHost, web_session, web_client, row, cache, attempts, pairing, forgetting,
              route, keys, overlapped, drops>>

AttemptStages == {"reading", "unlocking", "hello"}

WebTypeOK ==
    /\ pairedHost \in WebHosts \cup {NoHost} /\ web_client \in WebHosts \cup {NoHost}
    /\ web_session \in {"idle", "connecting", "ready", "error"}
    /\ row \in [WebHosts -> 0..MaxKeys] /\ cache \in [WebHosts -> 0..MaxKeys]
    /\ attempts \subseteq [host : WebHosts, stage : AttemptStages, key : 0..MaxKeys]
    /\ pairing \subseteq [host : WebHosts, stage : {"approving", "securing", "stored"}, key : 0..MaxKeys]
    /\ Cardinality(pairing) <= 1 /\ forgetting \subseteq WebHosts
    /\ route \in {"pair", "home"} /\ keys \in 0..MaxKeys
    /\ overlapped \subseteq WebHosts /\ drops \in 0..MaxDrops

(* The first visit, or a browser paired in an earlier one.                 *)
WebInit ==
    /\ \/ pairedHost = NoHost /\ keys = 0 /\ row = [h \in WebHosts |-> NoKey] /\ route = "pair"
       \/ /\ pairedHost \in WebHosts /\ keys = 1 /\ route \in {"pair", "home"}
          /\ row = [h \in WebHosts |-> IF h = pairedHost THEN 1 ELSE NoKey]
    /\ web_session = "idle" /\ web_client = NoHost /\ cache = [h \in WebHosts |-> NoKey]
    /\ attempts = {} /\ pairing = {} /\ forgetting = {} /\ overlapped = {} /\ drops = 0

(***************************************************************************)
(* Connecting.                                                             *)
(***************************************************************************)
(* connectNow of PairedSessionGate, and loadCredential up to its first     *)
(* await: a cached key goes straight to the host.                          *)
ConnectNow ==
    /\ pairedHost # NoHost /\ web_session = "idle"
    /\ Cardinality(attempts) < MaxAttempts
    /\ web_session' = "connecting"
    /\ attempts' = attempts \cup
         {[host |-> pairedHost, key |-> cache[pairedHost],
           stage |-> IF cache[pairedHost] # NoKey THEN "hello" ELSE "reading"]}
    /\ UNCHANGED <<pairedHost, web_client, row, cache, pairing, forgetting, route, keys, overlapped, drops>>

AttemptGoesOn(a, stage, key) ==
    /\ attempts' = (attempts \ {a}) \cup {[a EXCEPT !.stage = stage, !.key = key]}
    /\ UNCHANGED <<pairedHost, web_session, web_client, row, pairing, forgetting, route, keys, drops>>

(* FailsQuietly: a variant that leaves the store to the next attempt.      *)
FailsQuietly(a) ==
    /\ attempts' = attempts \ {a}
    /\ UNCHANGED <<pairedHost, web_session, web_client, row, cache, pairing, forgetting, route, keys, overlapped, drops>>

AttemptFails(a) ==
    /\ attempts' = attempts \ {a} /\ web_session' = "error"
    /\ UNCHANGED <<pairedHost, web_client, row, cache, pairing, forgetting, route, keys, overlapped, drops>>

(* dbGet: no row, no session.                                              *)
RowRead(a) ==
    /\ a.stage = "reading"
    /\ IF row[a.host] = NoKey THEN AttemptFails(a)
       ELSE AttemptGoesOn(a, "unlocking", row[a.host]) /\ UNCHANGED <<cache, overlapped>>

(* The passkey: unlocked, or refused, or 60 s gone by.  The key goes into  *)
(* the cache, whatever the row holds by now.                               *)
Unlocked(a) ==
    /\ a.stage = "unlocking"
    /\ AttemptGoesOn(a, "hello", a.key)
    /\ cache' = [cache EXCEPT ![a.host] = a.key]
    /\ overlapped' = IF a.host \in forgetting THEN overlapped \cup {a.host} ELSE overlapped

UnlockRefused(a) == a.stage = "unlocking" /\ AttemptFails(a)

(* connect and session.hello: setSessionReady does not ask whose session   *)
(* it is.                                                                  *)
HelloAnswered(a) ==
    /\ a.stage = "hello"
    /\ attempts' = attempts \ {a} /\ web_session' = "ready" /\ web_client' = a.host
    /\ UNCHANGED <<pairedHost, row, cache, pairing, forgetting, route, keys, overlapped, drops>>

HelloFails(a) == a.stage = "hello" /\ AttemptFails(a)

(* clearSession: the host closed the control stream, or "Try again".       *)
clearSession ==
    /\ web_session' = "idle" /\ web_client' = NoHost
    /\ UNCHANGED <<pairedHost, row, cache, attempts, pairing, forgetting, route, keys, overlapped>>

SessionDropped ==
    /\ web_session = "ready" /\ drops < MaxDrops /\ drops' = drops + 1
    /\ clearSession

RetryConnect == web_session = "error" /\ route = "home" /\ clearSession /\ UNCHANGED drops

(***************************************************************************)
(* Pairing.                                                                *)
(***************************************************************************)
RunPair(h) ==
    /\ route = "pair" /\ pairing = {}
    /\ pairing' = {[host |-> h, stage |-> "approving", key |-> NoKey]}
    /\ UNCHANGED <<pairedHost, web_session, web_client, row, cache, attempts, forgetting, route, keys, overlapped, drops>>

PairGoesOn(p, stage, key) ==
    /\ pairing' = {[p EXCEPT !.stage = stage, !.key = key]}
    /\ UNCHANGED <<pairedHost, web_session, web_client, attempts, forgetting, route, drops>>

Approved(p) ==
    /\ p.stage = "approving" /\ keys < MaxKeys /\ keys' = keys + 1
    /\ PairGoesOn(p, "securing", keys')
    /\ UNCHANGED <<row, cache, overlapped>>

(* Rejected, cancelled, timed out, or no passkey.                          *)
PairFails(p) ==
    /\ p.stage \in {"approving", "securing"} /\ pairing' = {}
    /\ UNCHANGED <<pairedHost, web_session, web_client, row, cache, attempts, forgetting, route, keys, overlapped, drops>>

Unlocking(h) == \E a \in attempts : a.host = h /\ a.stage \in {"reading", "unlocking"}

(* saveCredential: the transaction commits ...                             *)
RowStored(p) ==
    /\ p.stage = "securing"
    /\ PairGoesOn(p, "stored", p.key)
    /\ row' = [row EXCEPT ![p.host] = p.key]
    /\ overlapped' = IF Unlocking(p.host) THEN overlapped \cup {p.host} ELSE overlapped
    /\ UNCHANGED <<cache, keys>>

(* ... and runPair goes on: the cache, setPairedHost, the way home.        *)
Paired(p) ==
    /\ p.stage = "stored" /\ pairing' = {}
    /\ cache' = [cache EXCEPT ![p.host] = p.key]
    /\ pairedHost' = p.host /\ route' = "home"
    /\ UNCHANGED <<web_session, web_client, row, attempts, forgetting, keys, overlapped, drops>>

(***************************************************************************)
(* Forgetting, and reloading the page.                                     *)
(***************************************************************************)
(* KeepsUnlocked: a variant of clearCredential that deletes the row only.  *)
KeepsUnlocked ==
    /\ pairedHost # NoHost /\ route = "home" /\ forgetting = {}
    /\ forgetting' = {pairedHost}
    /\ overlapped' = IF Unlocking(pairedHost) THEN overlapped \cup {pairedHost} ELSE overlapped
    /\ UNCHANGED <<pairedHost, web_session, web_client, row, cache, attempts, pairing, route, keys, drops>>

onForget ==
    /\ pairedHost # NoHost /\ route = "home" /\ forgetting = {}
    /\ forgetting' = {pairedHost}
    /\ cache' = [cache EXCEPT ![pairedHost] = NoKey]
    /\ overlapped' = IF Unlocking(pairedHost) THEN overlapped \cup {pairedHost} ELSE overlapped
    /\ UNCHANGED <<pairedHost, web_session, web_client, row, attempts, pairing, route, keys, drops>>

(* The row is deleted; then forgetHost, and the pair screen.               *)
forgetHost(h) ==
    /\ row' = [row EXCEPT ![h] = NoKey]
    /\ overlapped' = IF Unlocking(h) THEN overlapped \cup {h} ELSE overlapped
    /\ forgetting' = forgetting \ {h}
    /\ pairedHost' = NoHost /\ web_session' = "idle" /\ web_client' = NoHost /\ route' = "pair"
    /\ UNCHANGED <<cache, attempts, pairing, keys, drops>>

(* At either address; only what is stored is left.                         *)
Reload(r) ==
    /\ drops < MaxDrops /\ drops' = drops + 1
    /\ route' = IF pairedHost = NoHost THEN "pair" ELSE r
    /\ web_session' = "idle" /\ web_client' = NoHost /\ cache' = [h \in WebHosts |-> NoKey]
    /\ attempts' = {} /\ pairing' = {} /\ forgetting' = {} /\ overlapped' = {}
    /\ UNCHANGED <<pairedHost, row, keys>>

(***************************************************************************)
(* The specification.  A passkey prompt, a connection and a transaction    *)
(* each end, one way or the other.                                         *)
(***************************************************************************)
AttemptStep == \E a \in attempts :
    RowRead(a) \/ Unlocked(a) \/ UnlockRefused(a) \/ HelloAnswered(a) \/ HelloFails(a)

WebNext ==
    \/ ConnectNow \/ AttemptStep \/ SessionDropped \/ RetryConnect
    \/ \E h \in WebHosts : RunPair(h)
    \/ \E p \in pairing : Approved(p) \/ PairFails(p) \/ RowStored(p) \/ Paired(p)
    \/ onForget \/ (\E h \in forgetting : forgetHost(h))
    \/ \E r \in {"pair", "home"} : Reload(r)

WebFairness == WF_web_vars(ConnectNow) /\ WF_web_vars(AttemptStep)
WebSpec == WebInit /\ [][WebNext]_web_vars /\ WebFairness

(***************************************************************************)
(* Properties.                                                             *)
(***************************************************************************)
(* "Evicted on clear": the key held unlocked is the one stored under the   *)
(* passkey, so that a forgotten host leaves nothing and a host paired      *)
(* again is greeted with its new key, except where an unlocking was        *)
(* overtaken by the forgetting or the pairing.                             *)
UnlockedIsStored ==
    \A h \in WebHosts \ overlapped :
        cache[h] \in {NoKey, row[h]} \/ \E p \in pairing : p.host = h /\ p.stage = "stored"

(* A page with a paired host does not stay idle or connecting: it shows    *)
(* the session or an error to try again from, through pairings, forgets,   *)
(* reloads and lost connections.                                           *)
SessionSettles ==
    pairedHost # NoHost ~> (web_session \in {"ready", "error"} \/ pairedHost = NoHost)

(* What follows is said of the code, and the code does not keep it         *)
(* (README, section 7).                                                    *)

(* "A paired-host swap (new client) wipes everything": the session on the  *)
(* screen is the paired host's.                                            *)
SessionIsForHost ==
    web_session = "ready" => web_client = pairedHost
=============================================================================

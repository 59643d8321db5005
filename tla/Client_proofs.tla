----------------------------- MODULE Client_proofs -----------------------------
(***************************************************************************)
(* Proofs about the remote client: the credential the web page holds       *)
(* unlocked, for any hosts, keys and connections; its terminals, for any   *)
(* tabs, sessions and registry entries; the files it sends, for any        *)
(* uploads, tabs and file sizes; and its list of workspaces and tabs, for  *)
(* any clients, channel capacity and number of changes and refreshes.      *)
(***************************************************************************)
EXTENDS WebSession, WebTerminals, Uploads, SnapshotSync, Induction, TLAPS, SequenceTheorems,
        FiniteSetTheorems

-----------------------------------------------------------------------------
(* WebSession                                                              *)

WebAttempts == [host : WebHosts, stage : AttemptStages, key : 0..MaxKeys]
Pairings == [host : WebHosts, stage : {"approving", "securing", "stored"}, key : 0..MaxKeys]

\* An unlocking that nothing has overtaken unlocks the key that is stored.
UnlocksStored ==
  \A a \in attempts : a.stage = "unlocking" /\ a.host \notin overlapped => a.key = row[a.host]

\* The pair screen and the settings are never both on the screen, and each waits
\* for one thing at a time.
OneScreen ==
  /\ \A p, q \in pairing : p = q
  /\ \A h, g \in forgetting : h = g
  /\ pairing # {} => route = "pair"
  /\ forgetting # {} => route = "home"

StoredIsRow == \A p \in pairing : p.stage = "stored" => p.key = row[p.host]
ForgottenIsLocked == \A h \in forgetting \ overlapped : cache[h] = NoKey

WebInv == WebTypeOK /\ UnlocksStored /\ OneScreen /\ StoredIsRow /\ ForgottenIsLocked /\ UnlockedIsStored

\* A step that leaves what is stored, unlocked and overtaken alone.
LEMMA ElsewhereMoves ==
  ASSUME WebInv, UNCHANGED <<row, cache, overlapped, pairing, forgetting, route>>, WebTypeOK',
         \A a \in attempts' : a.stage = "unlocking" => a \in attempts
  PROVE  WebInv'
<1>1. UnlocksStored'
  BY DEF WebInv, UnlocksStored
<1>2. OneScreen' /\ StoredIsRow' /\ ForgottenIsLocked' /\ UnlockedIsStored'
  BY DEF WebInv, OneScreen, StoredIsRow, ForgottenIsLocked, UnlockedIsStored
<1>. QED
  BY <1>1, <1>2 DEF WebInv

\* What an attempt becomes.
LEMMA AttemptBecomes ==
  ASSUME NEW a \in WebAttempts, NEW stage \in AttemptStages, NEW key \in 0..MaxKeys
  PROVE  LET b == [a EXCEPT !.stage = stage, !.key = key] IN
           b \in WebAttempts /\ b.host = a.host /\ b.stage = stage /\ b.key = key
BY DEF WebAttempts

\* What a pairing becomes.
LEMMA PairingBecomes ==
  ASSUME NEW p \in Pairings, NEW stage \in {"approving", "securing", "stored"}, NEW key \in 0..MaxKeys
  PROVE  LET q == [p EXCEPT !.stage = stage, !.key = key] IN
           /\ q \in Pairings /\ q.host = p.host /\ q.stage = stage /\ q.key = key
           /\ Cardinality({q}) <= 1
<1>1. ASSUME NEW q PROVE Cardinality({q}) <= 1
  <2>1. Cardinality({q}) = 1
    BY FS_Singleton
  <2>. QED
    BY <2>1
<1>. QED
  BY <1>1 DEF Pairings

\* The key the page holds unlocked is the one that is stored, for any hosts, keys and
\* attempts.
THEOREM UnlockedStaysStored == WebSpec => [](WebTypeOK /\ UnlockedIsStored)
<1>. MaxKeys \in Nat \ {0} /\ MaxAttempts \in Nat /\ MaxDrops \in Nat /\ NoKey \in 0..MaxKeys
  BY WebSessionAssumption DEF NoKey
<1>. Cardinality({}) <= 1
  BY FS_EmptySet
<1>1. WebInit => WebInv
  <2> SUFFICES ASSUME WebInit PROVE WebInv
    OBVIOUS
  <2>1. WebTypeOK
    <3>1. CASE keys = 0
      <4>1. pairedHost = NoHost /\ row = [h \in WebHosts |-> NoKey] /\ route = "pair" /\ keys \in 0..MaxKeys
        BY <3>1 DEF WebInit
      <4>. QED
        BY <4>1 DEF WebInit, WebTypeOK
    <3>2. CASE keys # 0
      <4>1. /\ pairedHost \in WebHosts /\ keys = 1 /\ route \in {"pair", "home"}
            /\ row = [h \in WebHosts |-> IF h = pairedHost THEN 1 ELSE NoKey]
        BY <3>2 DEF WebInit
      <4>2. row \in [WebHosts -> 0..MaxKeys] /\ keys \in 0..MaxKeys
        BY <4>1
      <4>. QED
        BY <4>1, <4>2 DEF WebInit, WebTypeOK
    <3>. QED
      BY <3>1, <3>2
  <2>. QED
    BY <2>1 DEF WebInit, WebInv, UnlocksStored, OneScreen, StoredIsRow, ForgottenIsLocked, UnlockedIsStored
<1>2. WebInv /\ [WebNext]_web_vars => WebInv'
  <2> SUFFICES ASSUME WebInv, [WebNext]_web_vars PROVE WebInv'
    OBVIOUS
  <2>0. /\ pairedHost \in WebHosts \cup {NoHost} /\ web_client \in WebHosts \cup {NoHost}
        /\ web_session \in {"idle", "connecting", "ready", "error"}
        /\ row \in [WebHosts -> 0..MaxKeys] /\ cache \in [WebHosts -> 0..MaxKeys]
        /\ attempts \subseteq WebAttempts /\ pairing \subseteq Pairings
        /\ Cardinality(pairing) <= 1 /\ forgetting \subseteq WebHosts
        /\ route \in {"pair", "home"} /\ keys \in 0..MaxKeys
        /\ overlapped \subseteq WebHosts /\ drops \in 0..MaxDrops
    BY DEF WebInv, WebTypeOK, WebAttempts, Pairings
  <2>. USE DEF WebAttempts, Pairings
  <2>1. CASE ConnectNow
    <3>. DEFINE stage == IF cache[pairedHost] # NoKey THEN "hello" ELSE "reading"
    <3>. DEFINE b == [host |-> pairedHost, key |-> cache[pairedHost], stage |-> stage]
    <3>1. /\ pairedHost \in WebHosts /\ attempts' = attempts \cup {b} /\ web_session' = "connecting"
          /\ UNCHANGED <<pairedHost, web_client, row, cache, pairing, forgetting, route, keys, overlapped, drops>>
      BY <2>0, <2>1 DEF ConnectNow
    <3>2. stage \in AttemptStages /\ stage # "unlocking"
      BY DEF AttemptStages
    <3>. HIDE DEF stage
    <3>3. b \in WebAttempts /\ b.stage # "unlocking"
      BY <2>0, <3>1, <3>2
    <3>. HIDE DEF b
    <3>4. WebTypeOK'
      BY <2>0, <3>1, <3>3 DEF WebTypeOK
    <3>. QED
      BY <3>1, <3>3, <3>4, ElsewhereMoves
  <2>2. ASSUME NEW a \in attempts, AttemptFails(a) \/ HelloAnswered(a) PROVE WebInv'
    <3>1. /\ attempts' = attempts \ {a} /\ web_session' \in {"error", "ready"} /\ web_client' \in WebHosts \cup {NoHost}
          /\ UNCHANGED <<pairedHost, row, cache, pairing, forgetting, route, keys, overlapped, drops>>
      BY <2>0, <2>2 DEF AttemptFails, HelloAnswered
    <3>2. WebTypeOK'
      BY <2>0, <3>1 DEF WebTypeOK
    <3>. QED
      BY <3>1, <3>2, ElsewhereMoves
  <2>3. ASSUME NEW a \in attempts, RowRead(a) PROVE WebInv'
    <3>1. CASE row[a.host] = NoKey
      BY <2>2, <2>3, <3>1 DEF RowRead
    <3>2. CASE row[a.host] # NoKey
      <4>. DEFINE b == [a EXCEPT !.stage = "unlocking", !.key = row[a.host]]
      <4>1. /\ attempts' = (attempts \ {a}) \cup {b}
            /\ UNCHANGED <<pairedHost, web_session, web_client, row, cache, pairing, forgetting, route, keys, overlapped, drops>>
        BY <2>3, <3>2 DEF RowRead, AttemptGoesOn
      <4>2. a \in WebAttempts /\ row[a.host] \in 0..MaxKeys /\ "unlocking" \in AttemptStages
        BY <2>0 DEF AttemptStages
      <4>3. b \in WebAttempts /\ b.host = a.host /\ b.key = row[a.host]
        BY <4>2, AttemptBecomes
      <4>. HIDE DEF b
      <4>4. WebTypeOK'
        BY <2>0, <4>1, <4>3 DEF WebTypeOK
      <4>5. UnlocksStored'
        BY <4>1, <4>3 DEF WebInv, UnlocksStored
      <4>6. OneScreen' /\ StoredIsRow' /\ ForgottenIsLocked' /\ UnlockedIsStored'
        BY <4>1 DEF WebInv, OneScreen, StoredIsRow, ForgottenIsLocked, UnlockedIsStored
      <4>. QED
        BY <4>4, <4>5, <4>6 DEF WebInv
    <3>. QED
      BY <3>1, <3>2
  <2>4. ASSUME NEW a \in attempts, Unlocked(a) PROVE WebInv'
    <3>. DEFINE b == [a EXCEPT !.stage = "hello", !.key = a.key]
    <3>1. /\ attempts' = (attempts \ {a}) \cup {b} /\ a.stage = "unlocking" /\ cache' = [cache EXCEPT ![a.host] = a.key]
          /\ overlapped' = IF a.host \in forgetting THEN overlapped \cup {a.host} ELSE overlapped
          /\ UNCHANGED <<pairedHost, web_session, web_client, row, pairing, forgetting, route, keys, drops>>
      BY <2>4 DEF Unlocked, AttemptGoesOn
    <3>2. a \in WebAttempts /\ a.host \in WebHosts /\ a.key \in 0..MaxKeys /\ "hello" \in AttemptStages
      BY <2>0 DEF AttemptStages
    <3>3. b \in WebAttempts /\ b.stage = "hello"
      BY <3>2, AttemptBecomes
    <3>. HIDE DEF b
    <3>4. overlapped \subseteq overlapped' /\ overlapped' \subseteq WebHosts
      BY <2>0, <3>1, <3>2
    <3>5. cache' \in [WebHosts -> 0..MaxKeys] /\ \A h \in WebHosts : cache'[h] = IF h = a.host THEN a.key ELSE cache[h]
      BY <2>0, <3>1, <3>2
    <3>6. WebTypeOK'
      BY <2>0, <3>1, <3>3, <3>4, <3>5 DEF WebTypeOK
    <3>7. UnlocksStored' /\ OneScreen' /\ StoredIsRow'
      BY <3>1, <3>3, <3>4 DEF WebInv, UnlocksStored, OneScreen, StoredIsRow
    <3>8. ForgottenIsLocked'
      BY <2>0, <3>1, <3>2, <3>4, <3>5 DEF WebInv, ForgottenIsLocked
    <3>9. UnlockedIsStored'
      BY <2>0, <3>1, <3>2, <3>4, <3>5 DEF WebInv, UnlocksStored, UnlockedIsStored
    <3>. QED
      BY <3>6, <3>7, <3>8, <3>9 DEF WebInv
  <2>5. ASSUME clearSession, drops' \in 0..MaxDrops PROVE WebInv'
    <3>1. WebTypeOK'
      BY <2>0, <2>5 DEF clearSession, WebTypeOK
    <3>. QED
      BY <2>5, <3>1, ElsewhereMoves DEF clearSession
  <2>6. CASE SessionDropped \/ RetryConnect
    <3>1. clearSession /\ drops' \in 0..MaxDrops
      BY <2>0, <2>6 DEF SessionDropped, RetryConnect
    <3>. QED
      BY <2>5, <3>1
  \* The pair screen: what is stored and unlocked stays as it was.
  <2>7. ASSUME pairing = {} \/ (\E p \in pairing : p.stage # "stored"),
               pairing' = {} \/ (\E q \in Pairings : pairing' = {q} /\ q.stage # "stored"), keys' \in 0..MaxKeys,
               pairing' # {} => route = "pair",
               UNCHANGED <<pairedHost, web_session, web_client, row, cache, attempts, forgetting, route, overlapped, drops>>
        PROVE  WebInv'
    <3>1. ASSUME NEW q PROVE Cardinality({q}) <= 1
      <4>1. Cardinality({q}) = 1
        BY FS_Singleton
      <4>. QED
        BY <4>1
    <3>2. pairing' \subseteq Pairings /\ Cardinality(pairing') <= 1 /\ \A q \in pairing' : q.stage # "stored"
      BY <2>7, <3>1
    <3>3. WebTypeOK'
      BY <2>0, <2>7, <3>2 DEF WebTypeOK
    <3>4. \A p \in pairing : p.stage # "stored"
      BY <2>7 DEF WebInv, OneScreen
    <3>5. UnlocksStored' /\ OneScreen' /\ StoredIsRow' /\ ForgottenIsLocked'
      BY <2>7, <3>2 DEF WebInv, UnlocksStored, OneScreen, StoredIsRow, ForgottenIsLocked
    <3>6. UnlockedIsStored'
      BY <2>7, <3>4 DEF WebInv, UnlockedIsStored
    <3>. QED
      BY <3>3, <3>5, <3>6 DEF WebInv
  <2>8. ASSUME NEW h \in WebHosts, RunPair(h) PROVE WebInv'
    <3>. DEFINE q == [host |-> h, stage |-> "approving", key |-> NoKey]
    <3>1. q \in Pairings /\ q.stage # "stored"
      OBVIOUS
    <3>2. /\ pairing = {} /\ pairing' = {q} /\ route = "pair"
          /\ UNCHANGED <<pairedHost, web_session, web_client, row, cache, attempts, forgetting, route, keys, overlapped, drops>>
      BY <2>8 DEF RunPair
    <3>. HIDE DEF q
    <3>. QED
      BY <2>0, <2>7, <3>1, <3>2
  <2>9. ASSUME NEW p \in pairing, Approved(p) PROVE WebInv'
    <3>1. PICK n \in 0..MaxKeys : n = keys + 1
      BY <2>0, <2>9 DEF Approved
    <3>. DEFINE q == [p EXCEPT !.stage = "securing", !.key = n]
    <3>2. /\ p.stage = "approving" /\ keys' = n /\ pairing' = {q} /\ route = "pair"
          /\ UNCHANGED <<pairedHost, web_session, web_client, row, cache, attempts, forgetting, route, overlapped, drops>>
      BY <2>9, <3>1 DEF Approved, PairGoesOn, WebInv, OneScreen
    <3>3. q \in Pairings /\ q.stage # "stored"
      BY <2>0, PairingBecomes
    <3>. HIDE DEF q
    <3>. QED
      BY <2>7, <3>2, <3>3
  <2>10. ASSUME NEW p \in pairing, PairFails(p) PROVE WebInv'
    BY <2>0, <2>7, <2>10 DEF PairFails
  <2>11. ASSUME NEW p \in pairing, RowStored(p) PROVE WebInv'
    <3>. DEFINE q == [p EXCEPT !.stage = "stored", !.key = p.key]
    <3>1. /\ pairing' = {q} /\ row' = [row EXCEPT ![p.host] = p.key]
          /\ overlapped' = IF Unlocking(p.host) THEN overlapped \cup {p.host} ELSE overlapped
          /\ UNCHANGED <<pairedHost, web_session, web_client, cache, attempts, forgetting, route, keys, drops>>
      BY <2>11 DEF RowStored, PairGoesOn
    <3>2. p \in Pairings /\ p.host \in WebHosts /\ p.key \in 0..MaxKeys
      BY <2>0
    <3>3. q \in Pairings /\ q.host = p.host /\ q.stage = "stored" /\ q.key = p.key /\ Cardinality({q}) <= 1
      BY <3>2, PairingBecomes
    <3>. HIDE DEF q
    <3>4. row' \in [WebHosts -> 0..MaxKeys] /\ \A h \in WebHosts : row'[h] = IF h = p.host THEN p.key ELSE row[h]
      BY <2>0, <3>1, <3>2
    <3>5. overlapped \subseteq overlapped' /\ overlapped' \subseteq WebHosts
      BY <2>0, <3>1, <3>2
    <3>6. WebTypeOK'
      BY <2>0, <3>1, <3>3, <3>4, <3>5 DEF WebTypeOK
    <3>7. UnlocksStored'
      BY <2>0, <3>1, <3>2, <3>4, <3>5 DEF WebInv, UnlocksStored, Unlocking
    <3>8. OneScreen' /\ StoredIsRow' /\ ForgottenIsLocked'
      BY <3>1, <3>3, <3>4, <3>2, <3>5 DEF WebInv, OneScreen, StoredIsRow, ForgottenIsLocked
    <3>9. ASSUME NEW h \in WebHosts \ overlapped'
          PROVE  cache'[h] \in {NoKey, row'[h]} \/ \E s \in pairing' : s.host = h /\ s.stage = "stored"
      <4>1. CASE h = p.host
        BY <3>1, <3>3, <4>1
      <4>2. CASE h # p.host
        <5>1. cache[h] \in {NoKey, row[h]} \/ \E s \in pairing : s.host = h /\ s.stage = "stored"
          BY <3>5, <3>9 DEF WebInv, UnlockedIsStored
        <5>2. ~ \E s \in pairing : s.host = h
          BY <4>2 DEF WebInv, OneScreen
        <5>. QED
          BY <3>1, <3>4, <4>2, <5>1, <5>2
      <4>. QED
        BY <4>1, <4>2
    <3>. QED
      BY <3>6, <3>7, <3>8, <3>9 DEF WebInv, UnlockedIsStored
  <2>12. ASSUME NEW p \in pairing, Paired(p) PROVE WebInv'
    <3>1. /\ p.stage = "stored" /\ pairing' = {} /\ cache' = [cache EXCEPT ![p.host] = p.key] /\ pairedHost' = p.host /\ route' = "home"
          /\ UNCHANGED <<web_session, web_client, row, attempts, forgetting, keys, overlapped, drops>>
      BY <2>12 DEF Paired
    <3>2. p \in Pairings /\ p.host \in WebHosts /\ p.key \in 0..MaxKeys /\ p.key = row[p.host]
      BY <2>0, <3>1 DEF WebInv, StoredIsRow
    <3>3. cache' \in [WebHosts -> 0..MaxKeys] /\ \A h \in WebHosts : cache'[h] = IF h = p.host THEN p.key ELSE cache[h]
      BY <2>0, <3>1, <3>2
    <3>4. WebTypeOK'
      BY <2>0, <3>1, <3>2, <3>3 DEF WebTypeOK
    <3>5. forgetting = {}
      BY DEF WebInv, OneScreen
    <3>6. UnlocksStored' /\ OneScreen' /\ StoredIsRow' /\ ForgottenIsLocked'
      BY <3>1, <3>5 DEF WebInv, UnlocksStored, OneScreen, StoredIsRow, ForgottenIsLocked
    <3>7. ASSUME NEW h \in WebHosts \ overlapped' PROVE cache'[h] \in {NoKey, row'[h]}
      <4>1. CASE h = p.host
        BY <3>1, <3>2, <3>3, <4>1
      <4>2. CASE h # p.host
        <5>1. ~ \E s \in pairing : s.host = h
          BY <4>2 DEF WebInv, OneScreen
        <5>. QED
          BY <3>1, <3>3, <3>7, <4>2, <5>1 DEF WebInv, UnlockedIsStored
      <4>. QED
        BY <4>1, <4>2
    <3>. QED
      BY <3>4, <3>6, <3>7 DEF WebInv, UnlockedIsStored
  <2>13. CASE onForget
    <3>1. /\ pairedHost \in WebHosts /\ route = "home" /\ forgetting = {} /\ forgetting' = {pairedHost}
          /\ cache' = [cache EXCEPT ![pairedHost] = NoKey]
          /\ overlapped' = IF Unlocking(pairedHost) THEN overlapped \cup {pairedHost} ELSE overlapped
          /\ UNCHANGED <<pairedHost, web_session, web_client, row, attempts, pairing, route, keys, drops>>
      BY <2>0, <2>13 DEF onForget
    <3>2. cache' \in [WebHosts -> 0..MaxKeys] /\ \A h \in WebHosts : cache'[h] = IF h = pairedHost THEN NoKey ELSE cache[h]
      BY <2>0, <3>1
    <3>3. overlapped \subseteq overlapped' /\ overlapped' \subseteq WebHosts
      BY <2>0, <3>1
    <3>4. WebTypeOK'
      BY <2>0, <3>1, <3>2, <3>3 DEF WebTypeOK
    <3>5. UnlocksStored' /\ OneScreen' /\ StoredIsRow'
      BY <3>1, <3>3 DEF WebInv, UnlocksStored, OneScreen, StoredIsRow
    <3>6. ForgottenIsLocked' /\ UnlockedIsStored'
      BY <3>1, <3>2, <3>3 DEF WebInv, ForgottenIsLocked, UnlockedIsStored
    <3>. QED
      BY <3>4, <3>5, <3>6 DEF WebInv
  <2>14. ASSUME NEW h \in forgetting, forgetHost(h) PROVE WebInv'
    <3>1. /\ row' = [row EXCEPT ![h] = NoKey] /\ forgetting' = forgetting \ {h}
          /\ overlapped' = IF Unlocking(h) THEN overlapped \cup {h} ELSE overlapped
          /\ pairedHost' = NoHost /\ web_session' = "idle" /\ web_client' = NoHost /\ route' = "pair"
          /\ UNCHANGED <<cache, attempts, pairing, keys, drops>>
      BY <2>14 DEF forgetHost
    <3>2. h \in WebHosts /\ pairing = {} /\ forgetting' = {}
      BY <2>0, <3>1 DEF WebInv, OneScreen
    <3>3. row' \in [WebHosts -> 0..MaxKeys] /\ \A g \in WebHosts : row'[g] = IF g = h THEN NoKey ELSE row[g]
      BY <2>0, <3>1, <3>2
    <3>4. overlapped \subseteq overlapped' /\ overlapped' \subseteq WebHosts
      BY <2>0, <3>1, <3>2
    <3>5. WebTypeOK'
      BY <2>0, <3>1, <3>2, <3>3, <3>4 DEF WebTypeOK
    <3>6. UnlocksStored'
      BY <2>0, <3>1, <3>2, <3>3, <3>4 DEF WebInv, UnlocksStored, Unlocking
    <3>7. OneScreen' /\ StoredIsRow' /\ ForgottenIsLocked'
      BY <3>1, <3>2 DEF OneScreen, StoredIsRow, ForgottenIsLocked
    <3>8. UnlockedIsStored'
      BY <3>1, <3>2, <3>3, <3>4 DEF WebInv, ForgottenIsLocked, UnlockedIsStored
    <3>. QED
      BY <3>5, <3>6, <3>7, <3>8 DEF WebInv
  <2>15. ASSUME NEW r \in {"pair", "home"}, Reload(r) PROVE WebInv'
    <3>1. /\ cache' = [h \in WebHosts |-> NoKey] /\ attempts' = {} /\ pairing' = {} /\ forgetting' = {} /\ overlapped' = {}
          /\ route' \in {"pair", "home"} /\ web_session' = "idle" /\ web_client' = NoHost /\ drops' \in 0..MaxDrops
          /\ UNCHANGED <<pairedHost, row, keys>>
      BY <2>0, <2>15 DEF Reload
    <3>2. WebTypeOK'
      BY <2>0, <3>1 DEF WebTypeOK
    <3>. QED
      BY <3>1, <3>2 DEF WebInv, UnlocksStored, OneScreen, StoredIsRow, ForgottenIsLocked, UnlockedIsStored
  <2>16. CASE UNCHANGED web_vars
    BY <2>16 DEF web_vars, WebInv, WebTypeOK, UnlocksStored, OneScreen, StoredIsRow, ForgottenIsLocked, UnlockedIsStored
  <2>17. CASE AttemptStep
    BY <2>2, <2>3, <2>4, <2>17 DEF AttemptStep, UnlockRefused, HelloFails
  <2>. QED
    BY <2>1, <2>6, <2>8, <2>9, <2>10, <2>11, <2>12, <2>13, <2>14, <2>15, <2>16, <2>17 DEF WebNext
<1>3. WebInv => WebTypeOK /\ UnlockedIsStored
  BY DEF WebInv
<1>. QED
  BY <1>1, <1>2, <1>3, PTL DEF WebSpec

-----------------------------------------------------------------------------
(* WebTerminals                                                            *)

EntryStates == [tab : WebTabs, client : Nat, stopped : BOOLEAN, pty : {"opening", "reading", "ended"}]

\* Every handle is to an entry there is.
HandlesInv ==
  /\ \E n \in Nat : entries \in [1..n -> EntryStates]
  /\ \A t \in DOMAIN registry : registry[t] \in DOMAIN entries
  /\ \A t \in DOMAIN mounted : mounted[t] \in DOMAIN entries

StoreInv ==
  /\ host_tabs \in Snapshots /\ tabs \in Snapshots
  /\ clients \in Nat /\ live \in BOOLEAN /\ (live => clients # NoClient)
  /\ \A r \in web_refreshes : r.result \in Snapshots

WebTermInv == HandlesInv /\ StoreInv /\ TerminalsAreCurrent

\* The tabs of a snapshot are tabs.
LEMMA SnapshotTabs ==
  ASSUME NEW ts \in Snapshots
  PROVE  DOMAIN ts \subseteq WebTabs
BY DEF Snapshots

\* Any set of tabs with any running flags is a snapshot.
LEMMA MakesSnapshot ==
  ASSUME NEW T \in SUBSET WebTabs, NEW ts \in [T -> BOOLEAN]
  PROVE  ts \in Snapshots
BY DEF Snapshots

\* The numbers new entries are given: one each, and none is left out.
LEMMA NumbersAreTaken ==
  ASSUME NEW S \in SUBSET WebTabs
  PROVE  /\ Cardinality(S) \in Nat
         /\ \A t \in S : Cardinality({u \in S : u <= t}) \in 1..Cardinality(S)
         /\ \A t, v \in S : Cardinality({u \in S : u <= t}) = Cardinality({u \in S : u <= v}) => t = v
         /\ \A k \in 1..Cardinality(S) : \E t \in S : Cardinality({u \in S : u <= t}) = k
<1>. DEFINE below(t) == {u \in S : u <= t}
<1>. DEFINE f == [t \in S |-> Cardinality(below(t))]
<1>1. IsFiniteSet(S) /\ S \subseteq Nat /\ Cardinality(S) \in Nat
  <2>1. IsFiniteSet(S) /\ S \subseteq Nat
    BY FS_Subset, WebTerminalsAssumption
  <2>. QED
    BY <2>1, FS_CardinalityType
<1>2. ASSUME NEW t \in S
      PROVE  IsFiniteSet(below(t)) /\ Cardinality(below(t)) \in 1..Cardinality(S)
  <2>1. below(t) \in SUBSET S /\ t \in below(t)
    BY <1>1
  <2>. HIDE DEF below
  <2>2. IsFiniteSet(below(t)) /\ Cardinality(below(t)) <= Cardinality(S)
    BY <1>1, <2>1, FS_Subset
  <2>3. Cardinality(below(t)) \in Nat /\ Cardinality(below(t)) # 0
    BY <2>1, <2>2, FS_CardinalityType, FS_EmptySet
  <2>. QED
    BY <1>1, <2>2, <2>3
<1>3. ASSUME NEW t \in S, NEW v \in S, t < v
      PROVE  Cardinality(below(t)) # Cardinality(below(v))
  <2>0. t \in Nat /\ v \in Nat /\ \A u \in S : u \in Nat
    BY <1>1
  <2>1. below(t) \in SUBSET below(v) /\ v \in below(v) /\ v \notin below(t)
    <3>1. \A u \in S : u <= t => u <= v
      BY <1>3, <2>0
    <3>2. v <= v /\ ~(v <= t)
      BY <1>3, <2>0
    <3>. QED
      BY <3>1, <3>2
  <2>. HIDE DEF below
  <2>. QED
    BY <1>2, <2>1, FS_Subset
<1>4. ASSUME NEW t \in S, NEW v \in S, Cardinality(below(t)) = Cardinality(below(v))
      PROVE  t = v
  <2>1. t < v \/ v < t \/ t = v
    BY <1>1
  <2>. HIDE DEF below
  <2>. QED
    BY <1>3, <1>4, <2>1
<1>5. f \in Surjection(S, 1..Cardinality(S))
  <2>. HIDE DEF below
  <2>1. f \in [S -> 1..Cardinality(S)]
    BY <1>2
  <2>2. \A t, v \in S : f[t] = f[v] => t = v
    BY <1>4
  <2>. HIDE DEF f
  <2>3. f \in Injection(S, 1..Cardinality(S))
    BY <2>1, <2>2 DEF Injection, IsInjective
  <2>4. IsFiniteSet(1..Cardinality(S)) /\ Cardinality(1..Cardinality(S)) = Cardinality(S)
    <3>1. /\ IsFiniteSet(1..Cardinality(S))
          /\ Cardinality(1..Cardinality(S)) = IF 1 > Cardinality(S) THEN 0 ELSE Cardinality(S) - 1 + 1
      BY <1>1, FS_Interval
    <3>. QED
      BY <1>1, <3>1
  <2>. QED
    BY <2>3, <2>4, FS_Injection
<1>6. \A k \in 1..Cardinality(S) : \E t \in S : f[t] = k
  <2>. HIDE DEF f
  <2>. QED
    BY <1>5 DEF Surjection
<1>. QED
  BY <1>1, <1>2, <1>4, <1>6

\* What a commit does, when KEPT are the tabs whose terminals stay, READY those the
\* screen shows and MOUNTS those that mount.
Commits(ts, client, kept, ready, mounts) ==
  LET fresh == mounts \ kept
      before == Cardinality(DOMAIN entries)
      new == [t \in fresh |-> before + Cardinality({u \in fresh : u <= t})]
      left == Stopped(entries, {registry[t] : t \in DOMAIN registry \ kept})
  IN /\ entries' = [e \in 1..before + Cardinality(fresh) |->
                      IF e <= before THEN left[e]
                      ELSE [tab |-> CHOOSE t \in fresh : new[t] = e, client |-> client,
                            stopped |-> FALSE, pty |-> "opening"]]
     /\ registry' = [t \in kept \cup fresh |-> IF t \in fresh THEN new[t] ELSE registry[t]]
     /\ mounted' = [t \in ready |-> IF t \in mounts THEN registry'[t] ELSE mounted[t]]
     /\ tabs' = ts /\ live' = (client # NoClient)

\* A commit keeps the terminals current.
LEMMA CommitMoves ==
  ASSUME WebTermInv, NEW ts \in Snapshots, NEW client \in Nat,
         NEW kept \in SUBSET (DOMAIN registry \cap DOMAIN ts), NEW ready \in SUBSET DOMAIN ts,
         NEW mounts \in SUBSET ready, ready \ mounts \subseteq DOMAIN mounted,
         Commits(ts, client, kept, ready, mounts),
         ready # {} => client # NoClient, kept # {} => client = clients /\ client # NoClient,
         clients' \in Nat, client # NoClient => clients' = client,
         host_tabs' \in Snapshots, \A r \in web_refreshes' : r.result \in Snapshots
  PROVE  WebTermInv'
<1>. DEFINE fresh == mounts \ kept
<1>. DEFINE gone == {registry[t] : t \in DOMAIN registry \ kept}
<1>. DEFINE fill == Cardinality(fresh)
<1>1. PICK n \in Nat : entries \in [1..n -> EntryStates]
  BY DEF WebTermInv, HandlesInv
<1>2. Cardinality(DOMAIN entries) = n
  <2>1. Cardinality(1..n) = IF 1 > n THEN 0 ELSE n - 1 + 1
    BY FS_Interval
  <2>. QED
    BY <1>1, <2>1
<1>. DEFINE new == [t \in fresh |-> n + Cardinality({u \in fresh : u <= t})]
<1>3. fresh \subseteq WebTabs /\ fresh \subseteq ready /\ fresh \cap kept = {} /\ mounts \subseteq kept \cup fresh
  BY SnapshotTabs
<1>4. /\ fill \in Nat
      /\ \A t \in fresh : new[t] \in n + 1 .. n + fill
      /\ \A t, v \in fresh : new[t] = new[v] => t = v
      /\ \A e \in n + 1 .. n + fill : \E t \in fresh : new[t] = e
  <2>. DEFINE rank == [t \in fresh |-> Cardinality({u \in fresh : u <= t})]
  <2>1. /\ fill \in Nat
        /\ \A t \in fresh : rank[t] \in 1 .. fill
        /\ \A t, v \in fresh : rank[t] = rank[v] => t = v
        /\ \A k \in 1 .. fill : \E t \in fresh : rank[t] = k
    <3>0. fresh \in SUBSET WebTabs
      BY <1>3
    <3>. HIDE DEF fresh
    <3>1. /\ Cardinality(fresh) \in Nat
          /\ \A t \in fresh : Cardinality({u \in fresh : u <= t}) \in 1..Cardinality(fresh)
          /\ \A t, v \in fresh : Cardinality({u \in fresh : u <= t}) = Cardinality({u \in fresh : u <= v}) => t = v
          /\ \A k \in 1..Cardinality(fresh) : \E t \in fresh : Cardinality({u \in fresh : u <= t}) = k
      BY <3>0, NumbersAreTaken
    <3>2. \A t \in fresh : rank[t] = Cardinality({u \in fresh : u <= t})
      OBVIOUS
    <3>. HIDE DEF rank
    <3>. QED
      BY <3>1, <3>2
  <2>2. \A t \in fresh : new[t] = n + rank[t]
    OBVIOUS
  <2>. HIDE DEF rank, new, fill, fresh
  <2>3. \A t \in fresh : new[t] \in n + 1 .. n + fill
    BY <2>1, <2>2
  <2>4. \A t, v \in fresh : new[t] = new[v] => t = v
    BY <2>1, <2>2
  <2>5. ASSUME NEW e \in n + 1 .. n + fill PROVE \E t \in fresh : new[t] = e
    <3>1. e - n \in 1 .. fill
      BY <2>1
    <3>2. PICK t \in fresh : rank[t] = e - n
      BY <2>1, <3>1
    <3>. QED
      BY <2>2, <3>2
  <2>. QED
    BY <2>1, <2>3, <2>4, <2>5
<1>5. /\ entries' = [e \in 1 .. n + fill |->
                       IF e <= n THEN Stopped(entries, gone)[e]
                       ELSE [tab |-> CHOOSE t \in fresh : new[t] = e, client |-> client,
                             stopped |-> FALSE, pty |-> "opening"]]
      /\ registry' = [t \in kept \cup fresh |-> IF t \in fresh THEN new[t] ELSE registry[t]]
      /\ mounted' = [t \in ready |-> IF t \in mounts THEN registry'[t] ELSE mounted[t]]
      /\ tabs' = ts /\ live' = (client # NoClient)
  BY <1>2 DEF Commits
<1>. HIDE DEF new, fill
<1>6. ASSUME NEW e \in 1 .. n
      PROVE  /\ entries'[e] \in EntryStates /\ entries'[e].tab = entries[e].tab /\ entries'[e].client = entries[e].client
             /\ entries'[e].pty = entries[e].pty
             /\ (entries'[e].stopped <=> entries[e].stopped \/ e \in gone)
             /\ (e \notin gone => entries'[e] = entries[e])
  <2>1. entries'[e] = IF e \in gone THEN [entries[e] EXCEPT !.stopped = TRUE] ELSE entries[e]
    BY <1>1, <1>4, <1>5 DEF Stopped
  <2>2. ASSUME NEW s \in EntryStates
        PROVE  LET q == [s EXCEPT !.stopped = TRUE] IN
                 q \in EntryStates /\ q.tab = s.tab /\ q.client = s.client /\ q.pty = s.pty /\ q.stopped
    BY DEF EntryStates
  <2>3. entries[e] \in EntryStates
    BY <1>1
  <2>. HIDE DEF gone
  <2>. QED
    BY <2>1, <2>2, <2>3
<1>7. ASSUME NEW t \in fresh
      PROVE  /\ entries'[new[t]] \in EntryStates /\ entries'[new[t]].tab = t /\ entries'[new[t]].client = client
             /\ entries'[new[t]].pty = "opening" /\ ~entries'[new[t]].stopped
  <2>1. new[t] \in n + 1 .. n + fill
    BY <1>4
  <2>2. (CHOOSE v \in fresh : new[v] = new[t]) = t
    BY <1>4
  <2>3. new[t] \in 1 .. n + fill /\ ~(new[t] <= n)
    BY <1>4, <2>1
  <2>4. entries'[new[t]] = [tab |-> t, client |-> client, stopped |-> FALSE, pty |-> "opening"]
    BY <1>5, <2>2, <2>3
  <2>5. t \in WebTabs
    BY <1>3
  <2>. HIDE DEF fresh
  <2>. QED
    BY <2>4, <2>5 DEF EntryStates
<1>8. DOMAIN entries' = 1 .. n + fill /\ \A e \in DOMAIN entries' : e \in 1 .. n \/ \E t \in fresh : new[t] = e
  <2>1. DOMAIN entries' = 1 .. n + fill
    BY <1>5
  <2>. HIDE DEF fresh
  <2>2. \A e \in 1 .. n + fill : e \in 1 .. n \/ e \in n + 1 .. n + fill
    BY <1>4
  <2>. QED
    BY <1>4, <2>1, <2>2
<1>9. /\ DOMAIN registry' = kept \cup fresh /\ \A t \in fresh : registry'[t] = new[t]
      /\ \A t \in kept : registry'[t] = registry[t] /\ registry[t] \in 1 .. n /\ registry[t] \notin gone
  <2>1. DOMAIN registry' = kept \cup fresh /\ \A t \in fresh : registry'[t] = new[t]
    BY <1>5
  <2>2. ASSUME NEW t \in kept
        PROVE  registry'[t] = registry[t] /\ registry[t] \in 1 .. n /\ registry[t] \notin gone
    <3>1. t \in DOMAIN registry /\ t \notin fresh
      BY <1>3
    <3>2. registry[t] \in 1 .. n
      BY <1>1, <3>1 DEF WebTermInv, HandlesInv
    <3>3. \A u \in DOMAIN registry : entries[registry[u]].tab = u
      BY DEF WebTermInv, TerminalsAreCurrent, RegistryIsLive
    <3>4. registry[t] \notin gone
      BY <3>1, <3>3
    <3>. QED
      BY <1>5, <2>2, <3>1, <3>2, <3>4
  <2>. QED
    BY <2>1, <2>2
<1>10. /\ DOMAIN mounted' = ready /\ \A t \in mounts : mounted'[t] = registry'[t]
       /\ \A t \in ready \ mounts : mounted'[t] = mounted[t] /\ t \in DOMAIN mounted /\ mounted[t] \in 1 .. n
  <2>1. DOMAIN mounted' = ready /\ \A t \in mounts : mounted'[t] = registry'[t]
    BY <1>5
  <2>2. ASSUME NEW t \in ready \ mounts
        PROVE  mounted'[t] = mounted[t] /\ t \in DOMAIN mounted /\ mounted[t] \in 1 .. n
    BY <1>1, <1>5 DEF WebTermInv, HandlesInv
  <2>. QED
    BY <2>1, <2>2
<1>. HIDE DEF gone, fresh
<1>11. HandlesInv'
  <2>1. n + fill \in Nat
    BY <1>4
  <2>2. entries' \in [1 .. n + fill -> EntryStates]
    <3>1. \A e \in 1 .. n + fill : entries'[e] \in EntryStates
      BY <1>6, <1>7, <1>8
    <3>. QED
      BY <1>5, <3>1
  <2>3. \A e \in 1 .. n : e \in 1 .. n + fill
    BY <1>4
  <2>4. \A t \in DOMAIN registry' : registry'[t] \in 1 .. n + fill
    <3>1. \A t \in fresh : new[t] \in 1 .. n + fill
      BY <1>4
    <3>. QED
      BY <1>9, <2>3, <3>1
  <2>5. \A t \in DOMAIN mounted' : mounted'[t] \in 1 .. n + fill
    BY <1>3, <1>9, <1>10, <2>3, <2>4
  <2>. QED
    BY <1>8, <2>1, <2>2, <2>4, <2>5 DEF HandlesInv
<1>12. StoreInv'
  BY <1>5 DEF StoreInv
<1>13. RegistryIsLive'
  <2>1. live' <=> client # NoClient
    BY <1>5
  <2>2. ASSUME NEW t \in kept
        PROVE  LET e == entries'[registry'[t]] IN
                 /\ e.tab = t /\ t \in DOMAIN tabs' /\ live' /\ e.client = clients' /\ ~e.stopped /\ e.pty # "ended"
    <3>1. entries'[registry'[t]] = entries[registry[t]]
      BY <1>6, <1>9
    <3>2. client = clients /\ client # NoClient /\ clients' = client /\ t \in DOMAIN registry /\ t \in DOMAIN tabs'
      BY <1>5
    <3>. QED
      BY <2>1, <3>1, <3>2 DEF WebTermInv, TerminalsAreCurrent, RegistryIsLive
  <2>3. ASSUME NEW t \in fresh
        PROVE  LET e == entries'[registry'[t]] IN
                 /\ e.tab = t /\ t \in DOMAIN tabs' /\ live' /\ e.client = clients' /\ ~e.stopped /\ e.pty # "ended"
    <3>1. client # NoClient /\ clients' = client /\ t \in DOMAIN tabs'
      BY <1>3, <1>5
    <3>. QED
      BY <1>7, <1>9, <2>1, <3>1
  <2>. QED
    BY <1>9, <2>2, <2>3 DEF RegistryIsLive
<1>14. NoStrayReader'
  <2>1. ASSUME NEW e \in DOMAIN entries', ~entries'[e].stopped, entries'[e].pty # "ended"
        PROVE  entries'[e].tab \in DOMAIN registry' /\ registry'[entries'[e].tab] = e
    <3>1. CASE e \in 1 .. n
      <4>. DEFINE t == entries[e].tab
      <4>1. e \in DOMAIN entries /\ ~entries[e].stopped /\ entries[e].pty # "ended" /\ e \notin gone /\ entries'[e].tab = t
        BY <1>1, <1>6, <2>1, <3>1
      <4>2. t \in DOMAIN registry /\ registry[t] = e
        BY <4>1 DEF WebTermInv, TerminalsAreCurrent, NoStrayReader
      <4>3. t \in kept
        BY <4>1, <4>2 DEF gone
      <4>. QED
        BY <1>9, <4>1, <4>2, <4>3
    <3>2. ASSUME NEW t \in fresh, new[t] = e
          PROVE  entries'[e].tab \in DOMAIN registry' /\ registry'[entries'[e].tab] = e
      BY <1>7, <1>9, <3>2
    <3>. QED
      BY <1>8, <3>1, <3>2
  <2>2. ASSUME NEW t \in DOMAIN mounted'
        PROVE  LET e == entries'[mounted'[t]]
               IN  e.stopped \/ e.pty = "ended" \/ (t \in DOMAIN registry' /\ registry'[t] = mounted'[t])
    <3>1. CASE t \in mounts
      BY <1>3, <1>9, <1>10, <3>1
    <3>2. CASE t \notin mounts
      <4>1. mounted'[t] = mounted[t] /\ t \in DOMAIN mounted /\ mounted[t] \in 1 .. n
        BY <1>10, <3>2
      <4>2. \/ entries[mounted[t]].stopped \/ entries[mounted[t]].pty = "ended"
            \/ t \in DOMAIN registry /\ registry[t] = mounted[t]
        BY <4>1 DEF WebTermInv, TerminalsAreCurrent, NoStrayReader
      <4>3. CASE t \in DOMAIN registry /\ registry[t] = mounted[t] /\ t \notin kept
        <5>1. mounted[t] \in gone
          BY <4>3 DEF gone
        <5>. QED
          BY <1>6, <4>1, <5>1
      <4>4. CASE t \in DOMAIN registry /\ registry[t] = mounted[t] /\ t \in kept
        BY <1>9, <4>1, <4>4
      <4>5. CASE entries[mounted[t]].stopped \/ entries[mounted[t]].pty = "ended"
        BY <1>6, <4>1, <4>5
      <4>. QED
        BY <4>2, <4>3, <4>4, <4>5
    <3>. QED
      BY <3>1, <3>2
  <2>. QED
    BY <2>1, <2>2 DEF NoStrayReader
<1>. QED
  BY <1>11, <1>12, <1>13, <1>14 DEF WebTermInv, TerminalsAreCurrent

\* What is remounted is a live terminal of a listed tab, and nothing else reads, for
\* any tabs, entries and sessions.
THEOREM TerminalsStayCurrent == WebTermSpec => []TerminalsAreCurrent
<1>1. WebTermInit => WebTermInv
  <2> SUFFICES ASSUME WebTermInit PROVE WebTermInv
    OBVIOUS
  <2>1. Nothing \in [{} -> BOOLEAN] /\ DOMAIN Nothing = {}
    BY DEF Nothing
  <2>2. Nothing \in Snapshots
    BY <2>1, MakesSnapshot
  <2>3. Nothing \in [1..0 -> EntryStates] /\ 0 \in Nat
    BY DEF Nothing
  <2>. QED
    BY <2>1, <2>2, <2>3 DEF WebTermInit, WebTermInv, HandlesInv, StoreInv, TerminalsAreCurrent, RegistryIsLive, NoStrayReader
<1>2. WebTermInv /\ [WebTermNext]_webterm_vars => WebTermInv'
  <2> SUFFICES ASSUME WebTermInv, [WebTermNext]_webterm_vars PROVE WebTermInv'
    OBVIOUS
  <2>0. /\ host_tabs \in Snapshots /\ tabs \in Snapshots
        /\ clients \in Nat /\ live \in BOOLEAN /\ (live => clients # NoClient)
        /\ \A r \in web_refreshes : r.result \in Snapshots
        /\ \A t \in DOMAIN registry : t \in DOMAIN tabs /\ live
    BY DEF WebTermInv, StoreInv, TerminalsAreCurrent, RegistryIsLive
  \* The terminals and the store's list are left alone.
  <2>1. ASSUME UNCHANGED <<clients, live, tabs, entries, registry, mounted>>, host_tabs' \in Snapshots,
               \A r \in web_refreshes' : r.result \in Snapshots
        PROVE  WebTermInv'
    BY <2>1 DEF WebTermInv, HandlesInv, StoreInv, TerminalsAreCurrent, RegistryIsLive, NoStrayReader
  <2>2. CASE SessionReady
    <3>. DEFINE ready == IF shown /\ clients' # NoClient THEN {t \in DOMAIN host_tabs : host_tabs[t]} ELSE {}
    <3>1. /\ Commits(host_tabs, clients', {}, ready, ready) /\ clients' = clients + 1
          /\ UNCHANGED <<host_tabs, web_refreshes>>
      BY <2>2 DEF SessionReady, Commit, Commits, Kept
    <3>2. ready \in SUBSET DOMAIN host_tabs
      OBVIOUS
    <3>3. clients' \in Nat /\ clients' # NoClient
      BY <2>0, <3>1 DEF NoClient
    <3>. HIDE DEF ready
    <3>. QED
      BY <2>0, <3>1, <3>2, <3>3, CommitMoves
  <2>3. CASE SessionLost
    <3>1. /\ Commits(Nothing, NoClient, {}, {}, {}) /\ UNCHANGED <<clients, host_tabs, web_refreshes>>
      BY <2>3 DEF SessionLost, Commit, Commits, Kept
    <3>2. Nothing \in Snapshots
      <4>1. Nothing \in [{} -> BOOLEAN]
        BY DEF Nothing
      <4>. QED
        BY <4>1, MakesSnapshot
    <3>3. NoClient \in Nat
      BY DEF NoClient
    <3>. QED
      BY <2>0, <3>1, <3>2, <3>3, CommitMoves
  <2>4. CASE Navigates
    <3>. DEFINE client == IF live THEN clients ELSE NoClient
    <3>. DEFINE ready == IF ~shown /\ client # NoClient THEN {t \in DOMAIN tabs : tabs[t]} ELSE {}
    <3>. DEFINE mounts == IF ~shown THEN ready ELSE ready \ DOMAIN mounted
    <3>. DEFINE kept == DOMAIN registry \cap DOMAIN tabs
    <3>1. Commits(tabs, client, kept, ready, mounts) /\ UNCHANGED <<clients, host_tabs, web_refreshes>>
      BY <2>4 DEF Navigates, Commit, Commits, Kept
    <3>2. ready \in SUBSET DOMAIN tabs /\ mounts \in SUBSET ready /\ ready \ mounts \subseteq DOMAIN mounted /\ (ready # {} => client # NoClient)
      OBVIOUS
    <3>3. client \in Nat /\ (client # NoClient => clients = client) /\ (kept # {} => client = clients /\ client # NoClient)
      BY <2>0 DEF NoClient
    <3>4. kept \in SUBSET (DOMAIN registry \cap DOMAIN tabs)
      OBVIOUS
    <3>. HIDE DEF client, ready, mounts, kept
    <3>. QED
      BY <2>0, <3>1, <3>2, <3>3, <3>4, CommitMoves
  <2>5. ASSUME NEW r \in web_refreshes, RefreshAnswered(r) PROVE WebTermInv'
    <3>1. web_refreshes' = web_refreshes \ {r} /\ UNCHANGED <<host_tabs, clients>> /\ r.result \in Snapshots
      BY <2>0, <2>5 DEF RefreshAnswered
    <3>2. CASE live /\ r.client = clients
      <4>. DEFINE ready == IF shown /\ clients # NoClient THEN {t \in DOMAIN r.result : r.result[t]} ELSE {}
      <4>. DEFINE mounts == IF ~shown THEN ready ELSE ready \ DOMAIN mounted
      <4>. DEFINE kept == DOMAIN registry \cap DOMAIN r.result
      <4>1. Commits(r.result, clients, kept, ready, mounts)
        <5>. DEFINE wanted == IF r.made = NoTab THEN activeTabId ELSE r.made
        <5>1. Commit(r.result, clients, shown, FALSE, wanted)
          BY <2>5, <3>2 DEF RefreshAnswered
        <5>. HIDE DEF wanted
        <5>. QED
          BY <5>1 DEF Commit, Commits, Kept
      <4>2. ready \in SUBSET DOMAIN r.result /\ mounts \in SUBSET ready /\ ready \ mounts \subseteq DOMAIN mounted
        OBVIOUS
      <4>3. kept \in SUBSET (DOMAIN registry \cap DOMAIN r.result) /\ clients # NoClient
        BY <2>0, <3>2
      <4>. HIDE DEF ready, mounts, kept
      <4>. QED
        BY <2>0, <3>1, <4>1, <4>2, <4>3, CommitMoves
    <3>3. CASE ~(live /\ r.client = clients)
      <4>1. UNCHANGED <<clients, live, tabs, entries, registry, mounted>>
        BY <2>5, <3>3 DEF RefreshAnswered
      <4>. QED
        BY <2>0, <2>1, <3>1, <4>1
    <3>. QED
      BY <3>2, <3>3
  <2>6. ASSUME NEW made, NEW ts \in Snapshots, Asks(made, ts), host_tabs' \in Snapshots PROVE WebTermInv'
    <3>. DEFINE q == [client |-> clients, made |-> made, result |-> ts]
    <3>1. web_refreshes' = web_refreshes \cup {q} /\ q.result = ts
      BY <2>6 DEF Asks
    <3>. HIDE DEF q
    <3>2. \A r \in web_refreshes' : r.result \in Snapshots
      BY <2>0, <3>1
    <3>. QED
      BY <2>1, <2>6, <3>2 DEF Asks
  <2>7. CASE RefreshAsked
    BY <2>0, <2>6, <2>7 DEF RefreshAsked
  <2>8. ASSUME NEW t \in WebTabs, createWithSpec(t) PROVE WebTermInv'
    <3>1. DOMAIN host_tabs \cup {t} \in SUBSET WebTabs /\ \A u \in DOMAIN host_tabs : host_tabs[u] \in BOOLEAN
      BY <2>0, SnapshotTabs DEF Snapshots
    <3>2. /\ host_tabs' = [u \in DOMAIN host_tabs \cup {t} |-> IF u = t THEN FALSE ELSE host_tabs[u]]
          /\ Asks(t, host_tabs')
      BY <2>8 DEF createWithSpec
    <3>3. host_tabs' \in [DOMAIN host_tabs \cup {t} -> BOOLEAN]
      BY <3>1, <3>2
    <3>4. host_tabs' \in Snapshots
      BY <3>1, <3>3, MakesSnapshot
    <3>. QED
      BY <2>6, <3>2, <3>4
  <2>9. ASSUME NEW t \in WebTabs, performClose(t) PROVE WebTermInv'
    <3>1. DOMAIN host_tabs \ {t} \in SUBSET WebTabs /\ \A u \in DOMAIN host_tabs : host_tabs[u] \in BOOLEAN
      BY <2>0, SnapshotTabs DEF Snapshots
    <3>2. host_tabs' = [u \in DOMAIN host_tabs \ {t} |-> host_tabs[u]] /\ Asks(NoTab, host_tabs')
      BY <2>9 DEF performClose
    <3>3. host_tabs' \in [DOMAIN host_tabs \ {t} -> BOOLEAN]
      BY <3>1, <3>2
    <3>4. host_tabs' \in Snapshots
      BY <3>1, <3>3, MakesSnapshot
    <3>. QED
      BY <2>6, <3>2, <3>4
  <2>10. ASSUME NEW ts \in Snapshots, HostMoves(ts) PROVE WebTermInv'
    BY <2>0, <2>1, <2>10 DEF HostMoves
  <2>11. ASSUME NEW t \in WebTabs, SelectsTab(t) PROVE WebTermInv'
    BY <2>0, <2>1, <2>11 DEF SelectsTab
  \* The loop of entry E goes on; if it leaves the registry, so does what is under its key.
  <2>12. ASSUME NEW e \in DOMAIN entries, NEW pty \in {"reading", "ended"}, NEW key_goes \in BOOLEAN,
                EntryGoesOn(e, pty, key_goes), pty = "ended" => key_goes \/ entries[e].stopped, entries[e].pty # "ended"
         PROVE  WebTermInv'
    <3>1. PICK n \in Nat : entries \in [1..n -> EntryStates]
      BY DEF WebTermInv, HandlesInv
    <3>. DEFINE key == entries[e].tab
    <3>. DEFINE gone == IF key_goes /\ key \in DOMAIN registry THEN {registry[key]} ELSE {}
    <3>2. ASSUME NEW d \in 1..n
          PROVE  /\ entries'[d] \in EntryStates /\ entries'[d].tab = entries[d].tab /\ entries'[d].client = entries[d].client
                 /\ entries'[d].pty = (IF d = e THEN pty ELSE entries[d].pty)
                 /\ (entries'[d].stopped <=> entries[d].stopped \/ d \in gone)
      <4>. DEFINE es == Stopped(entries, gone)
      <4>1. entries' = [es EXCEPT ![e].pty = pty]
        <5>1. CASE key_goes /\ key \in DOMAIN registry
          BY <2>12, <5>1 DEF EntryGoesOn
        <5>2. CASE ~(key_goes /\ key \in DOMAIN registry)
          <6>1. es = entries
            BY <3>1, <5>2 DEF Stopped
          <6>. QED
            BY <2>12, <5>2, <6>1 DEF EntryGoesOn
        <5>. QED
          BY <5>1, <5>2
      <4>2. ASSUME NEW s \in EntryStates
            PROVE  LET q == [s EXCEPT !.stopped = TRUE] IN
                     q \in EntryStates /\ q.tab = s.tab /\ q.client = s.client /\ q.pty = s.pty /\ q.stopped
        BY DEF EntryStates
      <4>3. ASSUME NEW s \in EntryStates
            PROVE  LET q == [s EXCEPT !.pty = pty] IN
                     /\ q \in EntryStates /\ q.tab = s.tab /\ q.client = s.client /\ q.pty = pty
                     /\ (q.stopped <=> s.stopped)
        BY <2>12 DEF EntryStates
      <4>4. entries[d] \in EntryStates /\ DOMAIN es = 1..n /\ es[d] = IF d \in gone THEN [entries[d] EXCEPT !.stopped = TRUE] ELSE entries[d]
        BY <3>1 DEF Stopped
      <4>. HIDE DEF gone, es
      <4>5. /\ es[d] \in EntryStates /\ es[d].tab = entries[d].tab /\ es[d].client = entries[d].client
            /\ es[d].pty = entries[d].pty /\ (es[d].stopped <=> entries[d].stopped \/ d \in gone)
        BY <4>2, <4>4
      <4>6. CASE d = e
        <5>1. entries'[d] = [es[d] EXCEPT !.pty = pty]
          BY <4>1, <4>4, <4>6
        <5>. QED
          BY <4>3, <4>5, <4>6, <5>1
      <4>7. CASE d # e
        <5>1. entries'[d] = es[d]
          BY <4>1, <4>4, <4>7
        <5>. QED
          BY <4>5, <4>7, <5>1
      <4>. QED
        BY <4>6, <4>7
    <3>3. DOMAIN entries' = 1..n /\ DOMAIN entries = 1..n /\ entries' \in [1..n -> EntryStates]
      <4>1. DOMAIN entries' = 1..n
        BY <2>12, <3>1 DEF EntryGoesOn, Stopped
      <4>2. entries' = [d \in DOMAIN entries' |-> entries'[d]]
        BY <2>12, <3>1 DEF EntryGoesOn, Stopped
      <4>. HIDE DEF gone
      <4>. QED
        BY <3>1, <3>2, <4>1, <4>2
    <3>4. /\ \A t \in DOMAIN registry' : t \in DOMAIN registry /\ registry'[t] = registry[t] /\ (key_goes => t # key)
          /\ \A t \in DOMAIN registry : t \in DOMAIN registry' \/ (key_goes /\ t = key)
          /\ UNCHANGED <<host_tabs, clients, live, tabs, web_refreshes, mounted>>
      BY <2>12 DEF EntryGoesOn
    <3>5. \A t \in DOMAIN registry : entries[registry[t]].tab = t /\ registry[t] \in 1..n
      BY <3>1 DEF WebTermInv, HandlesInv, TerminalsAreCurrent, RegistryIsLive
    <3>6. /\ \A t \in DOMAIN registry' : registry[t] \notin gone
          /\ \A t \in DOMAIN registry \ DOMAIN registry' : registry[t] \in gone
      BY <3>4, <3>5
    <3>. HIDE DEF gone
    <3>7. HandlesInv' /\ StoreInv'
      BY <3>3, <3>4 DEF WebTermInv, HandlesInv, StoreInv
    <3>8. RegistryIsLive'
      <4>1. ASSUME NEW t \in DOMAIN registry'
            PROVE  LET d == entries'[registry'[t]] IN
                     /\ d.tab = t /\ t \in DOMAIN tabs' /\ live' /\ d.client = clients' /\ ~d.stopped /\ d.pty # "ended"
        <5>. DEFINE k == registry[t]
        <5>1. t \in DOMAIN registry /\ registry'[t] = k /\ k \in 1..n /\ k \notin gone
          BY <3>4, <3>5, <3>6
        <5>2. /\ entries[k].tab = t /\ t \in DOMAIN tabs /\ live /\ entries[k].client = clients /\ ~entries[k].stopped /\ entries[k].pty # "ended"
          BY <5>1 DEF WebTermInv, TerminalsAreCurrent, RegistryIsLive
        <5>3. k = e => pty # "ended"
          BY <2>12, <3>4, <5>2
        <5>. HIDE DEF k
        <5>. QED
          BY <3>2, <3>4, <5>1, <5>2, <5>3
      <4>. QED
        BY <4>1 DEF RegistryIsLive
    <3>9. NoStrayReader'
      <4>1. ASSUME NEW d \in DOMAIN entries', ~entries'[d].stopped, entries'[d].pty # "ended"
            PROVE  entries'[d].tab \in DOMAIN registry' /\ registry'[entries'[d].tab] = d
        <5>. DEFINE t == entries[d].tab
        <5>1. d \in 1..n /\ d \in DOMAIN entries
          BY <3>3
        <5>2. entries'[d].tab = t /\ d \notin gone /\ ~entries[d].stopped /\ (d = e => pty # "ended")
          BY <3>2, <4>1, <5>1
        <5>3. entries[d].pty # "ended" \/ d = e
          BY <3>2, <4>1, <5>1
        <5>4. CASE entries[d].pty # "ended"
          <6>1. t \in DOMAIN registry /\ registry[t] = d
            BY <5>1, <5>2, <5>4 DEF WebTermInv, TerminalsAreCurrent, NoStrayReader
          <6>. HIDE DEF t
          <6>. QED
            BY <3>4, <3>6, <5>2, <6>1
        <5>. QED
          BY <2>12, <5>3, <5>4
      <4>2. ASSUME NEW t \in DOMAIN mounted'
            PROVE  LET d == entries'[mounted'[t]]
                   IN  d.stopped \/ d.pty = "ended" \/ (t \in DOMAIN registry' /\ registry'[t] = mounted'[t])
        <5>. DEFINE k == mounted[t]
        <5>1. mounted'[t] = k /\ t \in DOMAIN mounted /\ k \in 1..n
          BY <3>3, <3>4 DEF WebTermInv, HandlesInv
        <5>2. \/ entries[k].stopped \/ entries[k].pty = "ended"
              \/ t \in DOMAIN registry /\ registry[t] = k
          BY <5>1 DEF WebTermInv, TerminalsAreCurrent, NoStrayReader
        <5>. HIDE DEF k
        <5>3. CASE entries[k].stopped
          BY <3>2, <5>1, <5>3
        <5>4. CASE t \in DOMAIN registry /\ registry[t] = k
          BY <3>2, <3>4, <3>6, <5>1, <5>4
        <5>5. CASE entries[k].pty = "ended"
          BY <2>12, <3>2, <5>1, <5>5
        <5>. QED
          BY <5>2, <5>3, <5>4, <5>5
      <4>. QED
        BY <4>1, <4>2 DEF NoStrayReader
    <3>. QED
      BY <3>7, <3>8, <3>9 DEF WebTermInv, TerminalsAreCurrent
  <2>13. ASSUME NEW e \in DOMAIN entries, PtyOpened(e) PROVE WebTermInv'
    <3>1. PICK goes \in BOOLEAN : goes = FALSE
      OBVIOUS
    <3>2. PICK pty \in {"reading", "ended"} : pty = IF entries[e].stopped THEN "ended" ELSE "reading"
      OBVIOUS
    <3>3. EntryGoesOn(e, pty, goes) /\ entries[e].pty # "ended" /\ (pty = "ended" => goes \/ entries[e].stopped)
      BY <2>13, <3>1, <3>2 DEF PtyOpened
    <3>. QED
      BY <2>12, <3>3
  <2>14. ASSUME NEW e \in DOMAIN entries, OpenFails(e) PROVE WebTermInv'
    <3>1. PICK goes \in BOOLEAN : goes = TRUE
      OBVIOUS
    <3>2. EntryGoesOn(e, "ended", goes) /\ entries[e].pty # "ended" /\ goes
      BY <2>14, <3>1 DEF OpenFails
    <3>. QED
      BY <2>12, <3>2
  <2>15. ASSUME NEW e \in DOMAIN entries, ReadEnds(e) PROVE WebTermInv'
    <3>1. PICK goes \in BOOLEAN : goes = ~entries[e].stopped
      OBVIOUS
    <3>2. EntryGoesOn(e, "ended", goes) /\ entries[e].pty # "ended" /\ (goes \/ entries[e].stopped)
      BY <2>15, <3>1 DEF ReadEnds
    <3>. QED
      BY <2>12, <3>2
  <2>16. CASE UNCHANGED webterm_vars
    BY <2>0, <2>1, <2>16 DEF webterm_vars
  <2>. QED
    BY <2>2, <2>3, <2>4, <2>5, <2>7, <2>8, <2>9, <2>10, <2>11, <2>13, <2>14, <2>15, <2>16 DEF WebTermNext
<1>3. WebTermInv => TerminalsAreCurrent
  BY DEF WebTermInv
<1>. QED
  BY <1>1, <1>2, <1>3, PTL DEF WebTermSpec

-----------------------------------------------------------------------------
(* Uploads                                                                 *)

UploadStates ==
  [tab : UploadTabs, name : FileNames, sent : 0..Pieces, finished : BOOLEAN,
   at : {"none", "init", "sending", "awaiting", "done", "failed"},
   task : {"none", "reading", "queued", "typing", "answered", "ended"},
   arrived : 0..Pieces]
SavedFiles == [of : UploadIds \cup {NoUpload}, pieces : 0..Pieces]
Shelves == Places \X FileNames

Waits(q, u) == \E i \in DOMAIN q : q[i] = u
OnceEach(q) == \A i, j \in DOMAIN q : q[i] = q[j] => i = j

\* What an upload's task, its file and its typed path say of each other.
UploadSound(r, w, n) ==
  /\ r.finished => r.sent = Pieces
  /\ r.task \in {"none", "reading"} => w = "nothing"
  /\ r.task \in {"typing", "answered"} => w = "whole"
  /\ n <= 1 /\ (n > 0 => r.task = "answered")
  /\ r.at = "done" => r.task = "answered"

\* A write that has yet to run is of a file that came whole and was never written.
WriteSound(r, w) == w = "nothing" /\ r.arrived = Pieces /\ r.task \in {"queued", "ended"}

ShelfSound(file) ==
  file.of # NoUpload => wrote[file.of] # "nothing" /\ (file.pieces = Pieces \/ wrote[file.of] = "cut")

UploadsInv ==
  /\ UploadsTypeOK
  /\ OnceEach(queue)
  /\ \A u \in UploadIds : UploadSound(upload[u], wrote[u], typed[u])
  /\ \A u \in UploadIds : Waits(queue, u) => WriteSound(upload[u], wrote[u])
  /\ \A p \in Shelves : ShelfSound(saved[p])
  /\ \A u \in UploadIds : wrote[u] # "nothing" => saved[Where(u)].of # NoUpload

\* A step of one upload's client or task, that leaves the files and the queue alone.
LEMMA UploadMoves ==
  ASSUME UploadsInv, NEW u \in UploadIds, NEW r \in UploadStates,
         upload' = [upload EXCEPT ![u] = r], r.tab = upload[u].tab, r.name = upload[u].name,
         UploadSound(r, wrote[u], typed'[u]),
         Waits(queue, u) => WriteSound(r, wrote[u]),
         UNCHANGED <<queue, wrote, saved, tabs_open>>, linked' \subseteq UploadIds,
         typed' \in [UploadIds -> Nat], \A v \in UploadIds \ {u} : typed'[v] = typed[v]
  PROVE  UploadsInv'
<1>1. upload \in [UploadIds -> UploadStates]
  BY DEF UploadsInv, UploadsTypeOK, UploadStates
<1>2. upload' \in [UploadIds -> UploadStates] /\ \A v \in UploadIds : upload'[v] = IF v = u THEN r ELSE upload[v]
  BY <1>1
<1>3. UploadsTypeOK'
  BY <1>2 DEF UploadsInv, UploadsTypeOK, UploadStates
<1>4. \A v \in UploadIds : Where(v)' = Where(v)
  BY <1>2 DEF Where
<1>5. \A v \in UploadIds : UploadSound(upload'[v], wrote'[v], typed'[v])
  BY <1>2 DEF UploadsInv
<1>6. \A v \in UploadIds : Waits(queue', v) => WriteSound(upload'[v], wrote'[v])
  BY <1>2 DEF UploadsInv
<1>7. \A p \in Shelves : ShelfSound(saved[p])'
  BY DEF UploadsInv, ShelfSound
<1>8. \A v \in UploadIds : wrote'[v] # "nothing" => saved'[Where(v)'].of # NoUpload
  BY <1>4 DEF UploadsInv
<1>. QED
  BY <1>3, <1>5, <1>6, <1>7, <1>8 DEF UploadsInv

\* A path that is told or typed is that of a whole file, for any uploads and timeouts.
THEOREM UploadsStayTrue == UploadsSpec => [](UploadsTypeOK /\ UploadIsTrue)
<1>. Pieces \in Nat \ {0} /\ NoUpload \notin UploadIds /\ \A t \in UploadTabs : PlaceOf(t) \in Places
  BY UploadsAssumption
<1>1. UploadsInit => UploadsInv
  <2> SUFFICES ASSUME UploadsInit PROVE UploadsInv
    OBVIOUS
  <2>1. PICK tab \in [UploadIds -> UploadTabs], name \in [UploadIds -> FileNames] :
          upload = [u \in UploadIds |->
              [tab |-> tab[u], name |-> name[u], sent |-> 0, finished |-> FALSE,
               at |-> "none", task |-> "none", arrived |-> 0]]
    BY DEF UploadsInit
  <2>2. NoFileThere \in SavedFiles /\ NoFileThere.of = NoUpload
    BY DEF NoFileThere, SavedFiles
  <2>3. /\ upload \in [UploadIds -> UploadStates]
        /\ \A u \in UploadIds : upload[u].task = "none" /\ upload[u].at = "none" /\ ~upload[u].finished
    BY <2>1 DEF UploadStates
  <2>4. UploadsTypeOK
    BY <2>2, <2>3 DEF UploadsInit, UploadsTypeOK, UploadStates, SavedFiles
  <2>5. ASSUME NEW u \in UploadIds PROVE UploadSound(upload[u], wrote[u], typed[u])
    <3>1. wrote[u] = "nothing" /\ typed[u] = 0
      BY DEF UploadsInit
    <3>. QED
      BY <2>3, <3>1 DEF UploadSound
  <2>6. \A p \in Shelves : ShelfSound(saved[p])
    BY <2>2 DEF UploadsInit, ShelfSound, Shelves
  <2>. QED
    BY <2>4, <2>5, <2>6 DEF UploadsInit, UploadsInv, OnceEach, Waits
<1>2. UploadsInv /\ [UploadsNext]_upload_vars => UploadsInv'
  <2> SUFFICES ASSUME UploadsInv, [UploadsNext]_upload_vars PROVE UploadsInv'
    OBVIOUS
  <2>0. /\ upload \in [UploadIds -> UploadStates] /\ linked \subseteq UploadIds /\ queue \in Seq(UploadIds)
        /\ wrote \in [UploadIds -> {"nothing", "whole", "cut"}] /\ saved \in [Shelves -> SavedFiles]
        /\ typed \in [UploadIds -> Nat] /\ tabs_open \subseteq UploadTabs
    BY DEF UploadsInv, UploadsTypeOK, UploadStates, SavedFiles, Shelves
  \* Only where the client or the task is changes.
  <2>1. ASSUME NEW u \in UploadIds, NEW r \in UploadStates, upload' = [upload EXCEPT ![u] = r],
               r.tab = upload[u].tab, r.name = upload[u].name,
               UploadSound(r, wrote[u], typed[u]), Waits(queue, u) => WriteSound(r, wrote[u]),
               UNCHANGED <<queue, wrote, saved, tabs_open, linked, typed>>
        PROVE  UploadsInv'
    BY <2>0, <2>1, UploadMoves
  \* The client's place is changed.
  <2>2. ASSUME NEW u \in UploadIds, NEW at \in {"none", "init", "sending", "awaiting", "done", "failed"},
               upload' = [upload EXCEPT ![u] = [upload[u] EXCEPT !.at = at]],
               at = "done" => upload[u].task = "answered",
               UNCHANGED <<queue, wrote, saved, tabs_open, linked, typed>>
        PROVE  UploadsInv'
    <3>. DEFINE r == [upload[u] EXCEPT !.at = at]
    <3>1. ASSUME NEW s \in UploadStates
          PROVE  LET q == [s EXCEPT !.at = at] IN
                   /\ q \in UploadStates /\ q.tab = s.tab /\ q.name = s.name /\ q.task = s.task /\ q.at = at
                   /\ (q.finished <=> s.finished) /\ q.sent = s.sent /\ q.arrived = s.arrived
      BY DEF UploadStates
    <3>2. /\ r \in UploadStates /\ r.tab = upload[u].tab /\ r.name = upload[u].name /\ r.task = upload[u].task /\ r.at = at
          /\ (r.finished <=> upload[u].finished) /\ r.sent = upload[u].sent /\ r.arrived = upload[u].arrived
      BY <2>0, <3>1
    <3>3. upload' = [upload EXCEPT ![u] = r]
      BY <2>2
    <3>. HIDE DEF r
    <3>4. UploadSound(r, wrote[u], typed[u])
      BY <2>2, <3>2 DEF UploadsInv, UploadSound
    <3>5. Waits(queue, u) => WriteSound(r, wrote[u])
      BY <3>2 DEF UploadsInv, WriteSound
    <3>. QED
      BY <2>1, <2>2, <3>2, <3>3, <3>4, <3>5
  \* The task ends, or goes on with nothing typed yet.
  <2>3. ASSUME NEW u \in UploadIds, NEW task \in {"reading", "ended"},
               upload' = [upload EXCEPT ![u] = [upload[u] EXCEPT !.task = task]],
               upload[u].task \in {"none", "reading", "queued"}, task = "reading" => upload[u].task = "none",
               UNCHANGED <<queue, wrote, saved, tabs_open, linked, typed>>
        PROVE  UploadsInv'
    <3>. DEFINE r == [upload[u] EXCEPT !.task = task]
    <3>1. ASSUME NEW s \in UploadStates
          PROVE  LET q == [s EXCEPT !.task = task] IN
                   /\ q \in UploadStates /\ q.tab = s.tab /\ q.name = s.name /\ q.task = task /\ q.at = s.at
                   /\ (q.finished <=> s.finished) /\ q.sent = s.sent /\ q.arrived = s.arrived
      BY DEF UploadStates
    <3>2. /\ r \in UploadStates /\ r.tab = upload[u].tab /\ r.name = upload[u].name /\ r.task = task /\ r.at = upload[u].at
          /\ (r.finished <=> upload[u].finished) /\ r.sent = upload[u].sent /\ r.arrived = upload[u].arrived
      BY <2>0, <3>1
    <3>3. upload' = [upload EXCEPT ![u] = r]
      BY <2>3
    <3>. HIDE DEF r
    <3>4. UploadSound(r, wrote[u], typed[u])
      BY <2>3, <3>2 DEF UploadsInv, UploadSound
    <3>5. Waits(queue, u) => WriteSound(r, wrote[u])
      BY <2>3, <3>2 DEF UploadsInv, WriteSound
    <3>. QED
      BY <2>1, <2>3, <3>2, <3>3, <3>4, <3>5
  <2>4. ASSUME NEW u \in UploadIds, upload_attachment(u) \/ ReadsAck(u) \/ ReadsResult(u) PROVE UploadsInv'
    <3>1. CASE upload_attachment(u)
      BY <2>2, <3>1 DEF upload_attachment, ClientStep
    <3>2. CASE ReadsAck(u)
      BY <2>2, <3>2 DEF ReadsAck, ClientStep
    <3>3. CASE ReadsResult(u)
      BY <2>2, <3>3 DEF ReadsResult, ClientStep
    <3>. QED
      BY <2>4, <3>1, <3>2, <3>3
  <2>5. ASSUME NEW u \in UploadIds, UploadFails(u) PROVE UploadsInv'
    <3>1. upload' = [upload EXCEPT ![u] = [upload[u] EXCEPT !.at = "failed"]] /\ UNCHANGED <<queue, wrote, saved, tabs_open, linked, typed>>
      BY <2>0, <2>5 DEF UploadFails
    <3>. QED
      BY <2>2, <3>1
  <2>6. ASSUME NEW u \in UploadIds, AcceptsUpload(u) PROVE UploadsInv'
    BY <2>3, <2>6 DEF AcceptsUpload, HostStep
  <2>7. ASSUME NEW u \in UploadIds, RefusesUpload(u) PROVE UploadsInv'
    BY <2>3, <2>7 DEF RefusesUpload, HostStep
  <2>8. ASSUME NEW u \in UploadIds, ReadFails(u) \/ WriteTimesOut(u) PROVE UploadsInv'
    BY <2>3, <2>8 DEF ReadFails, WriteTimesOut, HostStep
  <2>9. ASSUME NEW u \in UploadIds, SendsPiece(u) PROVE UploadsInv'
    <3>1. /\ upload' = [upload EXCEPT ![u] = [upload[u] EXCEPT !.sent = upload[u].sent + 1]]
          /\ upload[u].sent < Pieces /\ UNCHANGED <<queue, wrote, saved, tabs_open, linked, typed>>
      BY <2>9 DEF SendsPiece, ClientStep
    <3>2. upload[u].sent \in 0..Pieces /\ upload[u] \in UploadStates
      BY <2>0 DEF UploadStates
    <3>3. PICK n \in 0..Pieces : n = upload[u].sent + 1
      BY <3>1, <3>2
    <3>. DEFINE r == [upload[u] EXCEPT !.sent = n]
    <3>4. ASSUME NEW s \in UploadStates
          PROVE  LET q == [s EXCEPT !.sent = n] IN
                   /\ q \in UploadStates /\ q.tab = s.tab /\ q.name = s.name /\ q.task = s.task /\ q.at = s.at
                   /\ (q.finished <=> s.finished) /\ q.sent = n /\ q.arrived = s.arrived
      BY DEF UploadStates
    <3>5. /\ r \in UploadStates /\ r.tab = upload[u].tab /\ r.name = upload[u].name /\ r.task = upload[u].task /\ r.at = upload[u].at
          /\ (r.finished <=> upload[u].finished) /\ r.arrived = upload[u].arrived
      BY <3>2, <3>4
    <3>6. upload' = [upload EXCEPT ![u] = r]
      BY <3>1, <3>3
    <3>. HIDE DEF r
    <3>7. ~upload[u].finished
      BY <3>1, <3>2 DEF UploadsInv, UploadSound
    <3>8. UploadSound(r, wrote[u], typed[u])
      BY <3>5, <3>7 DEF UploadsInv, UploadSound
    <3>9. Waits(queue, u) => WriteSound(r, wrote[u])
      BY <3>5 DEF UploadsInv, WriteSound
    <3>. QED
      BY <2>1, <3>1, <3>5, <3>6, <3>8, <3>9
  <2>10. ASSUME NEW u \in UploadIds, Finishes(u) PROVE UploadsInv'
    <3>. DEFINE r == [upload[u] EXCEPT !.at = "awaiting", !.finished = TRUE]
    <3>1. upload' = [upload EXCEPT ![u] = r] /\ upload[u].sent = Pieces /\ UNCHANGED <<queue, wrote, saved, tabs_open, linked, typed>>
      BY <2>10 DEF Finishes, ClientStep
    <3>2. ASSUME NEW s \in UploadStates
          PROVE  LET q == [s EXCEPT !.at = "awaiting", !.finished = TRUE] IN
                   /\ q \in UploadStates /\ q.tab = s.tab /\ q.name = s.name /\ q.task = s.task /\ q.at = "awaiting"
                   /\ q.sent = s.sent /\ q.arrived = s.arrived
      BY DEF UploadStates
    <3>3. /\ r \in UploadStates /\ r.tab = upload[u].tab /\ r.name = upload[u].name /\ r.task = upload[u].task /\ r.at = "awaiting"
          /\ r.sent = upload[u].sent /\ r.arrived = upload[u].arrived
      BY <2>0, <3>2
    <3>. HIDE DEF r
    <3>4. UploadSound(r, wrote[u], typed[u])
      BY <3>1, <3>3 DEF UploadsInv, UploadSound
    <3>5. Waits(queue, u) => WriteSound(r, wrote[u])
      BY <3>3 DEF UploadsInv, WriteSound
    <3>. QED
      BY <2>1, <3>1, <3>3, <3>4, <3>5
  <2>11. ASSUME NEW u \in UploadIds, ReadsPiece(u) PROVE UploadsInv'
    <3>1. /\ upload' = [upload EXCEPT ![u] = [upload[u] EXCEPT !.arrived = upload[u].arrived + 1]]
          /\ upload[u].arrived < upload[u].sent /\ upload[u].task = "reading" /\ UNCHANGED <<queue, wrote, saved, tabs_open, linked, typed>>
      BY <2>11 DEF ReadsPiece, HostStep
    <3>2. upload[u].sent \in 0..Pieces /\ upload[u].arrived \in 0..Pieces /\ upload[u] \in UploadStates
      BY <2>0 DEF UploadStates
    <3>3. PICK n \in 0..Pieces : n = upload[u].arrived + 1
      BY <3>1, <3>2
    <3>. DEFINE r == [upload[u] EXCEPT !.arrived = n]
    <3>4. ASSUME NEW s \in UploadStates
          PROVE  LET q == [s EXCEPT !.arrived = n] IN
                   /\ q \in UploadStates /\ q.tab = s.tab /\ q.name = s.name /\ q.task = s.task /\ q.at = s.at
                   /\ (q.finished <=> s.finished) /\ q.sent = s.sent
      BY DEF UploadStates
    <3>5. /\ r \in UploadStates /\ r.tab = upload[u].tab /\ r.name = upload[u].name /\ r.task = upload[u].task /\ r.at = upload[u].at
          /\ (r.finished <=> upload[u].finished) /\ r.sent = upload[u].sent
      BY <3>2, <3>4
    <3>6. upload' = [upload EXCEPT ![u] = r]
      BY <3>1, <3>3
    <3>. HIDE DEF r
    <3>7. UploadSound(r, wrote[u], typed[u])
      BY <3>5 DEF UploadsInv, UploadSound
    <3>8. ~Waits(queue, u)
      BY <3>1 DEF UploadsInv, WriteSound
    <3>. QED
      BY <2>1, <3>1, <3>5, <3>6, <3>7, <3>8
  <2>12. ASSUME NEW u \in UploadIds, TypesPath(u) PROVE UploadsInv'
    <3>. DEFINE r == [upload[u] EXCEPT !.task = "answered"]
    <3>1. upload' = [upload EXCEPT ![u] = r] /\ upload[u].task = "typing" /\ UNCHANGED <<queue, wrote, saved, tabs_open, linked>>
      BY <2>12 DEF TypesPath, HostStep
    <3>2. ASSUME NEW s \in UploadStates
          PROVE  LET q == [s EXCEPT !.task = "answered"] IN
                   /\ q \in UploadStates /\ q.tab = s.tab /\ q.name = s.name /\ q.task = "answered" /\ q.at = s.at
                   /\ (q.finished <=> s.finished) /\ q.sent = s.sent
      BY DEF UploadStates
    <3>3. /\ r \in UploadStates /\ r.tab = upload[u].tab /\ r.name = upload[u].name /\ r.task = "answered" /\ r.at = upload[u].at
          /\ (r.finished <=> upload[u].finished) /\ r.sent = upload[u].sent
      BY <2>0, <3>2
    <3>. HIDE DEF r
    <3>4. wrote[u] = "whole" /\ typed[u] = 0 /\ ~Waits(queue, u)
      BY <2>0, <3>1 DEF UploadsInv, UploadSound, WriteSound
    <3>5. /\ typed' \in [UploadIds -> Nat] /\ typed'[u] \in {0, 1}
          /\ \A v \in UploadIds \ {u} : typed'[v] = typed[v]
      BY <2>0, <2>12, <3>4 DEF TypesPath
    <3>6. UploadSound(r, wrote[u], typed'[u])
      BY <3>3, <3>4, <3>5 DEF UploadsInv, UploadSound
    <3>. QED
      BY <2>0, <3>1, <3>3, <3>4, <3>5, <3>6, UploadMoves
  <2>13. ASSUME NEW u \in UploadIds, SendsWrite(u) PROVE UploadsInv'
    <3>. DEFINE r == [upload[u] EXCEPT !.task = "queued"]
    <3>1. /\ upload' = [upload EXCEPT ![u] = r] /\ upload[u].task = "reading" /\ AllRead(u)
          /\ queue' = Append(queue, u) /\ UNCHANGED <<wrote, saved, tabs_open, linked, typed>>
      BY <2>13 DEF SendsWrite, HostStep
    <3>2. ASSUME NEW s \in UploadStates
          PROVE  LET q == [s EXCEPT !.task = "queued"] IN
                   /\ q \in UploadStates /\ q.tab = s.tab /\ q.name = s.name /\ q.task = "queued" /\ q.at = s.at
                   /\ (q.finished <=> s.finished) /\ q.sent = s.sent /\ q.arrived = s.arrived
      BY DEF UploadStates
    <3>3. /\ r \in UploadStates /\ r.tab = upload[u].tab /\ r.name = upload[u].name /\ r.task = "queued" /\ r.at = upload[u].at
          /\ (r.finished <=> upload[u].finished) /\ r.sent = upload[u].sent /\ r.arrived = upload[u].arrived
      BY <2>0, <3>2
    <3>. HIDE DEF r
    <3>4. /\ upload' \in [UploadIds -> UploadStates]
          /\ \A v \in UploadIds : upload'[v] = IF v = u THEN r ELSE upload[v]
      BY <2>0, <3>1, <3>3
    <3>5. ~Waits(queue, u) /\ WriteSound(r, wrote[u])
      BY <3>1, <3>3 DEF UploadsInv, UploadSound, WriteSound, AllRead
    <3>6. UploadSound(r, wrote[u], typed[u])
      BY <3>1, <3>3 DEF UploadsInv, UploadSound
    <3>7. /\ queue' \in Seq(UploadIds) /\ DOMAIN queue' = 1 .. Len(queue) + 1 /\ DOMAIN queue = 1 .. Len(queue) /\ Len(queue) \in Nat
          /\ queue'[Len(queue) + 1] = u /\ \A i \in 1 .. Len(queue) : queue'[i] = queue[i]
      BY <2>0, <3>1, AppendProperties
    <3>8. OnceEach(queue')
      BY <3>5, <3>7 DEF UploadsInv, OnceEach, Waits
    <3>9. \A v \in UploadIds : Waits(queue', v) => Waits(queue, v) \/ v = u
      BY <3>7 DEF Waits
    <3>10. \A v \in UploadIds : Where(v)' = Where(v)
      BY <3>3, <3>4 DEF Where
    <3>11. UploadsTypeOK'
      BY <2>0, <3>1, <3>4, <3>7 DEF UploadsTypeOK, UploadStates, SavedFiles, Shelves
    <3>12. \A v \in UploadIds : UploadSound(upload[v], wrote[v], typed[v])'
      BY <3>1, <3>4, <3>6 DEF UploadsInv
    <3>13. \A v \in UploadIds : Waits(queue', v) => WriteSound(upload'[v], wrote'[v])
      BY <3>1, <3>4, <3>5, <3>9 DEF UploadsInv
    <3>14. \A p \in Shelves : ShelfSound(saved[p])'
      BY <3>1 DEF UploadsInv, ShelfSound
    <3>15. \A v \in UploadIds : wrote'[v] # "nothing" => saved'[Where(v)'].of # NoUpload
      BY <3>1, <3>10 DEF UploadsInv
    <3>. QED
      BY <3>8, <3>11, <3>12, <3>13, <3>14, <3>15 DEF UploadsInv
  <2>14. CASE WriteAttachment
    <3>. DEFINE u == Head(queue)
    <3>1. /\ u \in UploadIds /\ queue' \in Seq(UploadIds) /\ Waits(queue, u) /\ queue' = Tail(queue)
          /\ UNCHANGED <<linked, typed, tabs_open>>
      <4>1. queue # <<>> /\ queue' = Tail(queue) /\ UNCHANGED <<linked, typed, tabs_open>>
        BY <2>14 DEF WriteAttachment
      <4>2. queue' \in Seq(UploadIds) /\ u \in UploadIds
        BY <2>0, <4>1, HeadTailProperties
      <4>3. 1 \in DOMAIN queue /\ queue[1] = u
        BY <2>0, <4>1
      <4>. QED
        BY <4>1, <4>2, <4>3 DEF Waits
    <3>2. OnceEach(queue') /\ \A v \in UploadIds : Waits(queue', v) => Waits(queue, v) /\ v # u
      <4>1. /\ DOMAIN queue = 1 .. Len(queue) /\ DOMAIN queue' = 1 .. Len(queue) - 1 /\ Len(queue) \in Nat
            /\ u = queue[1] /\ \A i \in 1 .. Len(queue) - 1 : queue'[i] = queue[i + 1]
        <5>1. queue # <<>> /\ queue' = Tail(queue)
          BY <2>14 DEF WriteAttachment
        <5>2. Len(queue') = Len(queue) - 1 /\ \A i \in 1 .. Len(queue') : queue'[i] = queue[i + 1]
          BY <2>0, <5>1, HeadTailProperties
        <5>. QED
          BY <2>0, <3>1, <5>1, <5>2
      <4>2. ASSUME NEW i \in DOMAIN queue' PROVE i + 1 \in DOMAIN queue /\ i + 1 # 1 /\ 1 \in DOMAIN queue
        BY <4>1
      <4>. HIDE DEF u
      <4>. QED
        BY <4>1, <4>2 DEF UploadsInv, OnceEach, Waits
    <3>. HIDE DEF u
    <3>3. WriteSound(upload[u], wrote[u]) /\ wrote[u] = "nothing" /\ upload[u].arrived = Pieces
      BY <3>1 DEF UploadsInv, WriteSound
    <3>4. \A p \in Shelves : saved[p].of # u
      BY <3>1, <3>3 DEF UploadsInv, ShelfSound
    \* What the sender is told.
    <3>5. ASSUME NEW task \in {"typing", "ended"}, Replies(u, task),
                 NEW w \in {"nothing", "whole", "cut"}, task = "typing" => w = "whole"
          PROVE  /\ upload' \in [UploadIds -> UploadStates]
                 /\ \A v \in UploadIds \ {u} : upload'[v] = upload[v]
                 /\ \A v \in UploadIds : upload'[v].tab = upload[v].tab /\ upload'[v].name = upload[v].name
                 /\ UploadSound(upload'[u], w, typed[u])
      <4>1. ASSUME NEW s \in UploadStates
            PROVE  LET q == [s EXCEPT !.task = task] IN
                     /\ q \in UploadStates /\ q.tab = s.tab /\ q.name = s.name /\ q.task = task /\ q.at = s.at
                     /\ (q.finished <=> s.finished) /\ q.sent = s.sent
        BY DEF UploadStates
      <4>2. upload[u] \in UploadStates
        BY <2>0, <3>1
      <4>3. CASE upload[u].task = "queued"
        <5>. DEFINE r == [upload[u] EXCEPT !.task = task]
        <5>1. /\ r \in UploadStates /\ r.tab = upload[u].tab /\ r.name = upload[u].name /\ r.task = task /\ r.at = upload[u].at
              /\ (r.finished <=> upload[u].finished) /\ r.sent = upload[u].sent
          BY <4>1, <4>2
        <5>2. upload' = [upload EXCEPT ![u] = r]
          BY <2>0, <3>1, <3>5, <4>3 DEF Replies
        <5>. HIDE DEF r
        <5>3. UploadSound(r, w, typed[u])
          BY <3>1, <3>5, <4>3, <5>1 DEF UploadsInv, UploadSound
        <5>. QED
          BY <2>0, <3>1, <5>1, <5>2, <5>3
      <4>4. CASE upload[u].task # "queued"
        <5>1. upload' = upload /\ upload[u].task = "ended"
          BY <3>3, <3>5, <4>4 DEF Replies, WriteSound
        <5>2. UploadSound(upload[u], w, typed[u])
          BY <3>1, <5>1 DEF UploadsInv, UploadSound
        <5>. QED
          BY <2>0, <5>1, <5>2
      <4>. QED
        BY <4>3, <4>4
    \* The write succeeds, or leaves a file cut short.
    <3>6. ASSUME NEW task \in {"typing", "ended"}, Replies(u, task),
                 NEW w \in {"whole", "cut"}, task = "typing" => w = "whole",
                 wrote' = [wrote EXCEPT ![u] = w], NEW n \in 0..Pieces, n = Pieces \/ w = "cut",
                 saved' = [saved EXCEPT ![Where(u)] = [of |-> u, pieces |-> n]]
          PROVE  UploadsInv'
      <4>1. /\ upload' \in [UploadIds -> UploadStates]
            /\ \A v \in UploadIds \ {u} : upload'[v] = upload[v]
            /\ \A v \in UploadIds : upload'[v].tab = upload[v].tab /\ upload'[v].name = upload[v].name
            /\ UploadSound(upload'[u], w, typed[u])
        BY <3>5, <3>6
      <4>2. wrote' \in [UploadIds -> {"nothing", "whole", "cut"}] /\ \A v \in UploadIds : wrote'[v] = IF v = u THEN w ELSE wrote[v]
        BY <2>0, <3>1, <3>6
      <4>3. PICK f \in SavedFiles : f = [of |-> u, pieces |-> n] /\ f.of = u /\ f.pieces = n
        <5>1. u \in UploadIds \cup {NoUpload} /\ n \in 0..Pieces
          BY <3>1, <3>6
        <5>2. [of |-> u, pieces |-> n] \in SavedFiles
          BY <5>1 DEF SavedFiles
        <5>. QED
          BY <5>2
      <4>4. \A v \in UploadIds : Where(v)' = Where(v) /\ Where(v) \in Shelves
        BY <2>0, <4>1 DEF Where, Shelves, UploadStates
      <4>5. saved' \in [Shelves -> SavedFiles] /\ \A p \in Shelves : saved'[p] = IF p = Where(u) THEN f ELSE saved[p]
        BY <2>0, <3>1, <3>6, <4>3, <4>4
      <4>6. UploadsTypeOK'
        BY <2>0, <3>1, <4>1, <4>2, <4>5 DEF UploadsTypeOK, UploadStates, SavedFiles, Shelves
      <4>7. \A v \in UploadIds : UploadSound(upload[v], wrote[v], typed[v])'
        BY <3>1, <4>1, <4>2 DEF UploadsInv
      <4>8. \A v \in UploadIds : Waits(queue', v) => WriteSound(upload'[v], wrote'[v])
        BY <3>2, <4>1, <4>2 DEF UploadsInv
      <4>9. ASSUME NEW p \in Shelves PROVE ShelfSound(saved[p])'
        <5>1. CASE p = Where(u)
          BY <3>1, <3>6, <4>2, <4>3, <4>5, <5>1 DEF ShelfSound
        <5>2. CASE p # Where(u)
          <6>1. saved'[p] = saved[p] /\ saved[p].of \in UploadIds \cup {NoUpload} /\ saved[p].of # u /\ ShelfSound(saved[p])
            BY <2>0, <3>4, <4>5, <5>2 DEF UploadsInv, SavedFiles
          <6>. QED
            BY <4>2, <6>1 DEF ShelfSound
        <5>. QED
          BY <5>1, <5>2
      <4>10. ASSUME NEW v \in UploadIds, wrote'[v] # "nothing" PROVE saved'[Where(v)'].of # NoUpload
        <5>1. CASE Where(v) = Where(u)
          BY <3>1, <4>3, <4>4, <4>5, <5>1
        <5>2. CASE Where(v) # Where(u)
          BY <4>2, <4>4, <4>5, <4>10, <5>2 DEF UploadsInv
        <5>. QED
          BY <5>1, <5>2
      <4>. QED
        BY <3>2, <4>6, <4>7, <4>8, <4>9, <4>10 DEF UploadsInv
    <3>7. ASSUME UNCHANGED <<saved, wrote>>, Replies(u, "ended") PROVE UploadsInv'
      <4>1. /\ upload' \in [UploadIds -> UploadStates]
            /\ \A v \in UploadIds \ {u} : upload'[v] = upload[v]
            /\ \A v \in UploadIds : upload'[v].tab = upload[v].tab /\ upload'[v].name = upload[v].name
            /\ UploadSound(upload'[u], wrote[u], typed[u])
        BY <2>0, <3>1, <3>5, <3>7
      <4>2. \A v \in UploadIds : Where(v)' = Where(v)
        BY <4>1 DEF Where
      <4>3. UploadsTypeOK'
        BY <2>0, <3>1, <3>7, <4>1 DEF UploadsTypeOK, UploadStates, SavedFiles, Shelves
      <4>4. \A v \in UploadIds : UploadSound(upload[v], wrote[v], typed[v])'
        BY <3>1, <3>7, <4>1 DEF UploadsInv
      <4>5. \A v \in UploadIds : Waits(queue', v) => WriteSound(upload'[v], wrote'[v])
        BY <3>2, <3>7, <4>1 DEF UploadsInv
      <4>6. \A p \in Shelves : ShelfSound(saved[p])'
        BY <3>7 DEF UploadsInv, ShelfSound
      <4>7. \A v \in UploadIds : wrote'[v] # "nothing" => saved'[Where(v)'].of # NoUpload
        BY <3>7, <4>2 DEF UploadsInv
      <4>. QED
        BY <3>2, <4>3, <4>4, <4>5, <4>6, <4>7 DEF UploadsInv
    <3>8. \/ \E n \in 0..Pieces, task \in {"typing", "ended"}, w \in {"whole", "cut"} :
               /\ saved' = [saved EXCEPT ![Where(u)] = [of |-> u, pieces |-> n]] /\ wrote' = [wrote EXCEPT ![u] = w]
               /\ Replies(u, task) /\ (n = Pieces \/ w = "cut") /\ (task = "typing" => w = "whole")
          \/ UNCHANGED <<saved, wrote>> /\ Replies(u, "ended")
      <4>1. upload[u].arrived = Pieces /\ 0 \in 0..Pieces /\ Pieces \in 0..Pieces
        BY <3>3
      <4>. QED
        BY <2>14, <4>1 DEF WriteAttachment, u
    <3>. QED
      BY <3>6, <3>7, <3>8
  <2>15. ASSUME NEW u \in UploadIds, LosesLink(u) PROVE UploadsInv'
    BY <2>0, <2>15 DEF LosesLink, UploadsInv, UploadsTypeOK, ShelfSound, Where
  <2>16. ASSUME NEW t \in UploadTabs, TabEnds(t) PROVE UploadsInv'
    BY <2>0, <2>16 DEF TabEnds, UploadsInv, UploadsTypeOK, ShelfSound, Where
  <2>17. CASE UNCHANGED upload_vars
    BY <2>17 DEF upload_vars, UploadsInv, UploadsTypeOK, ShelfSound, Where
  <2>. QED
    BY <2>4, <2>5, <2>6, <2>7, <2>8, <2>9, <2>10, <2>11, <2>12, <2>13, <2>14, <2>15, <2>16, <2>17 DEF UploadsNext
<1>3. UploadsInv => UploadsTypeOK /\ UploadIsTrue
  <2> SUFFICES ASSUME UploadsInv, NEW u \in UploadIds
              PROVE  /\ typed[u] <= 1
                     /\ typed[u] > 0 \/ upload[u].at = "done" =>
                          /\ wrote[u] = "whole"
                          /\ saved[Where(u)].of # NoUpload
                          /\ saved[Where(u)].pieces = Pieces \/ wrote[saved[Where(u)].of] = "cut"
    BY DEF UploadIsTrue, UploadsInv
  <2>1. Where(u) \in Shelves
    BY DEF UploadsInv, UploadsTypeOK, Where, Shelves
  <2>2. UploadSound(upload[u], wrote[u], typed[u]) /\ typed[u] \in Nat
    BY DEF UploadsInv, UploadsTypeOK
  <2>. QED
    BY <2>1, <2>2 DEF UploadsInv, UploadSound, ShelfSound
<1>. QED
  BY <1>1, <1>2, <1>3, PTL DEF UploadsSpec

-----------------------------------------------------------------------------
(* SnapshotSync                                                            *)

SyncTypes ==
  /\ version \in Version \ {0} /\ state \in Version \ {0}
  /\ todo \in {{}, {"notify"}, {"write", "notify"}}
  /\ state = IF "write" \in todo THEN version - 1 ELSE version
  /\ session \in [Client -> {"none", "connected", "hello", "authenticated", "subscribed"}]
  /\ greeting \in [Client -> Version] /\ joined \in [Client -> Version]
  /\ channel \in [Client -> Seq(Version)]
  /\ requests \in [Client -> Seq(Requests)] /\ wire \in [Client -> Seq(Messages)]
  /\ link \in [Client -> {"idle", "connecting", "ready", "lost", "error"}]
  /\ view \in [Client -> View] /\ gave_up \in [Client -> BOOLEAN]
  /\ refreshes \in [Client -> Seq(Refresh)]

\* How far a connection is: hello goes first, and lists are asked for after it.
LinkSound(c) ==
  /\ link[c] # "ready" => refreshes[c] = <<>>
  /\ link[c] \in {"idle", "lost", "error"} => session[c] = "none" /\ requests[c] = <<>> /\ wire[c] = <<>>
  /\ link[c] = "connecting" =>
       /\ session[c] # "none"
       /\ session[c] # "connected" => requests[c] = <<>>
       /\ session[c] = "connected" => requests[c] = <<"session.hello">>
       /\ session[c] \in {"connected", "hello"} <=> wire[c] = <<>>
       /\ \A p \in DOMAIN wire[c] :
            wire[c][p].kind = IF p = 1 THEN "session.hello" ELSE "snapshot.invalidated"
  /\ link[c] = "ready" =>
       /\ session[c] \in {"authenticated", "subscribed"}
       /\ \A p \in DOMAIN requests[c] : requests[c][p] \in Lists
       /\ \A p \in DOMAIN wire[c] : wire[c][p].kind # "session.hello"
       /\ \A p \in DOMAIN wire[c] : wire[c][p].kind \in Lists => wire[c][p].version # 0

\* Nothing a client is sent is ahead of the state that the host's sessions read.
NoneAhead(c) ==
  /\ greeting[c] <= state
  /\ \A i \in DOMAIN channel[c] : channel[c][i] <= state
  /\ \A p \in DOMAIN wire[c] : wire[c][p].version <= state
  /\ \A k \in 1 .. Len(refreshes[c]) : refreshes[c][k].since <= state

\* What is on a control stream, both ways, in the order in which it will have been
\* answered; what is still asked for has no version.
Slots(w, q) == [p \in 1 .. Len(w) + Len(q) |->
                  IF p <= Len(w) THEN w[p] ELSE [kind |-> q[p - Len(w)], version |-> 0]]

\* A slot is one of the two lists, and if it is answered, no older than v.
ListFrom(slots, p, list, v) ==
  p \in DOMAIN slots /\ slots[p].kind = list /\ (slots[p].version = 0 \/ v <= slots[p].version)

\* The two slots of each refresh, in turn; the first refresh may have got its first.
Match(slots, rs, a, b) ==
  /\ \A k \in 1 .. Len(rs) :
       /\ rs[k].got["tabs"] = 0 /\ a[k] < b[k]
       /\ ListFrom(slots, b[k], "tabs", rs[k].since)
       /\ \/ rs[k].got["workspaces"] = 0 /\ ListFrom(slots, a[k], "workspaces", rs[k].since)
          \/ k = 1 /\ a[k] = 0 /\ rs[k].got["workspaces"] # 0 /\ rs[k].since <= rs[k].got["workspaces"]
  /\ \A j, k \in 1 .. Len(rs) : j < k => b[j] < a[k]
  /\ \A p \in DOMAIN slots : slots[p].kind \in Lists => \E k \in 1 .. Len(rs) : p \in {a[k], b[k]}
Matched(slots, rs) == \E a, b \in [1 .. Len(rs) -> Nat] : Match(slots, rs, a, b)

\* Versions only grow: from the view over what the first refresh has got and what
\* is on the wire to the host's.
Between(slots, v) ==
  \A p \in DOMAIN slots : slots[p].kind \in Lists => slots[p].version = 0 \/ v <= slots[p].version
Grows(slots, got, seen, top) ==
  /\ \A p, r \in DOMAIN slots : slots[p].kind \in Lists /\ slots[r].kind \in Lists /\ p < r /\ slots[r].version # 0
       => slots[p].version # 0 /\ slots[p].version <= slots[r].version
  /\ \A l \in Lists : seen[l] <= top /\ Between(slots, seen[l])
  /\ got # 0 => got <= top /\ Between(slots, got) /\ \A l \in Lists : seen[l] <= got

Got(rs) == IF rs = <<>> THEN 0 ELSE rs[1].got["workspaces"]

Told(slots, v) == \E p \in DOMAIN slots : slots[p].kind = "snapshot.invalidated" /\ v <= slots[p].version

\* A subscriber that had not heard of what is announced will, or asks for it, or has
\* seen it, or its refresh with it has failed.
Knows(slots, rs, seen, ready, failed, v) ==
  \/ Told(slots, v)
  \/ \E k \in 1 .. Len(rs) : v <= rs[k].since
  \/ /\ ready /\ Between(slots, v) /\ (Got(rs) # 0 => v <= Got(rs))
     /\ failed \/ \A l \in Lists : v <= seen[l]

Mine(c) == Slots(wire[c], requests[c])
ListsSound(c) ==
  /\ Matched(Mine(c), refreshes[c])
  /\ Grows(Mine(c), Got(refreshes[c]), view[c], state)
FailureKnown(c) == ~gave_up[c] => \A k \in 1 .. Len(refreshes[c]) : ~refreshes[c][k].failed
Hears(c) ==
  session[c] = "subscribed" =>
    \/ joined[c] = Announced
    \/ \E i \in DOMAIN channel[c] : Announced <= channel[c][i]
    \/ Knows(Mine(c), refreshes[c], view[c], link[c] = "ready", gave_up[c], Announced)
ClientSound(c) == LinkSound(c) /\ NoneAhead(c) /\ ListsSound(c) /\ FailureKnown(c) /\ Hears(c)

SyncInv == SyncTypes /\ \A c \in Client : ClientSound(c)

\* RemoveAt takes the element at one position out of a sequence.
LEMMA RemoveAtProperties ==
  ASSUME NEW S, NEW s \in Seq(S), NEW i \in 1 .. Len(s)
  PROVE  /\ RemoveAt(s, i) \in Seq(S) /\ Len(RemoveAt(s, i)) = Len(s) - 1
         /\ \A k \in 1 .. Len(s) - 1 : RemoveAt(s, i)[k] = IF k < i THEN s[k] ELSE s[k + 1]
<1>. DEFINE front == SubSeq(s, 1, i - 1)
            back == SubSeq(s, i + 1, Len(s))
<1>1. Len(s) \in Nat /\ i \in Nat /\ \A k \in 1 .. Len(s) : s[k] \in S
  BY LenProperties, ElementOfSeq
<1>2. front \in Seq(S) /\ Len(front) = i - 1 /\ \A k \in 1 .. i - 1 : front[k] = s[k]
  <2>1. \A k \in 1 .. i - 1 : s[k] \in S
    BY <1>1
  <2>2. /\ front \in Seq(S) /\ Len(front) = IF 1 <= i - 1 THEN i - 1 - 1 + 1 ELSE 0
        /\ \A k \in 1 .. i - 1 - 1 + 1 : front[k] = s[1 + k - 1]
    BY <1>1, <2>1, SubSeqProperties
  <2>. QED
    BY <1>1, <2>2
<1>3. back \in Seq(S) /\ Len(back) = Len(s) - i /\ \A k \in 1 .. Len(s) - i : back[k] = s[k + i]
  <2>1. \A k \in i + 1 .. Len(s) : s[k] \in S
    BY <1>1
  <2>2. /\ back \in Seq(S) /\ Len(back) = IF i + 1 <= Len(s) THEN Len(s) - (i + 1) + 1 ELSE 0
        /\ \A k \in 1 .. Len(s) - (i + 1) + 1 : back[k] = s[i + 1 + k - 1]
    BY <1>1, <2>1, SubSeqProperties
  <2>. HIDE DEF back
  <2>3. ASSUME NEW k \in 1 .. Len(s) - i PROVE back[k] = s[k + i]
    <3>1. k \in 1 .. Len(s) - (i + 1) + 1 /\ i + 1 + k - 1 = k + i
      BY <1>1
    <3>2. back[k] = s[i + 1 + k - 1]
      BY <2>2, <3>1
    <3>. QED
      BY <3>1, <3>2
  <2>4. Len(back) = Len(s) - i
    BY <1>1, <2>2
  <2>. QED
    BY <2>2, <2>3, <2>4
<1>4. /\ front \o back \in Seq(S) /\ Len(front \o back) = Len(front) + Len(back)
      /\ \A k \in 1 .. Len(front) + Len(back) :
            (front \o back)[k] = IF k <= Len(front) THEN front[k] ELSE back[k - Len(front)]
  BY <1>2, <1>3, ConcatProperties
<1>5. RemoveAt(s, i) = front \o back
  BY DEF RemoveAt
<1>. HIDE DEF front, back
<1>6. ASSUME NEW k \in 1 .. Len(s) - 1 PROVE (front \o back)[k] = IF k < i THEN s[k] ELSE s[k + 1]
  <2>1. CASE k < i
    BY <1>1, <1>2, <1>3, <1>4, <2>1
  <2>2. CASE ~(k < i)
    <3>1. k - (i - 1) \in 1 .. Len(s) - i /\ (k - (i - 1)) + i = k + 1
      BY <1>1, <2>2
    <3>2. back[k - (i - 1)] = s[k + 1]
      BY <1>3, <3>1
    <3>. QED
      BY <1>1, <1>2, <1>3, <1>4, <2>2, <3>2
  <2>. QED
    BY <2>1, <2>2
<1>7. Len(front) + Len(back) = Len(s) - 1
  BY <1>1, <1>2, <1>3
<1>. QED
  BY <1>4, <1>5, <1>6, <1>7
-----------------------------------------------------------------------------
(* What the steps do to the slots                                          *)

SlotRecords == [kind : Requests \cup {"snapshot.invalidated"}, version : Nat]
IsSlots(slots) == \E n \in Nat : slots \in [1 .. n -> SlotRecords]

\* What the slots are.
LEMMA SlotsAre ==
  ASSUME NEW w \in Seq(Messages), NEW q \in Seq(Requests)
  PROVE  /\ Len(w) \in Nat /\ Len(q) \in Nat /\ DOMAIN w = 1 .. Len(w) /\ DOMAIN q = 1 .. Len(q)
         /\ Slots(w, q) \in [1 .. Len(w) + Len(q) -> SlotRecords] /\ IsSlots(Slots(w, q))
         /\ \A p \in 1 .. Len(w) : Slots(w, q)[p] = w[p] /\ w[p] \in Messages
         /\ \A p \in Len(w) + 1 .. Len(w) + Len(q) :
               Slots(w, q)[p] = [kind |-> q[p - Len(w)], version |-> 0] /\ q[p - Len(w)] \in Requests
<1>1. /\ Len(w) \in Nat /\ Len(q) \in Nat /\ DOMAIN w = 1 .. Len(w) /\ DOMAIN q = 1 .. Len(q)
      /\ \A p \in 1 .. Len(w) : w[p] \in Messages
      /\ \A p \in 1 .. Len(q) : q[p] \in Requests
  BY LenProperties, ElementOfSeq
<1>2. Messages \subseteq SlotRecords
  BY BoundAssumption DEF Messages, SlotRecords, Version
<1>3. ASSUME NEW p \in Len(w) + 1 .. Len(w) + Len(q)
      PROVE  /\ q[p - Len(w)] \in Requests /\ [kind |-> q[p - Len(w)], version |-> 0] \in SlotRecords
             /\ Slots(w, q)[p] = [kind |-> q[p - Len(w)], version |-> 0]
  <2>1. p - Len(w) \in 1 .. Len(q) /\ p \in 1 .. Len(w) + Len(q) /\ ~(p <= Len(w))
    BY <1>1
  <2>2. PICK x \in Requests : x = q[p - Len(w)]
    BY <1>1, <2>1
  <2>3. [kind |-> x, version |-> 0] \in SlotRecords
    BY DEF SlotRecords
  <2>. QED
    BY <2>1, <2>2, <2>3 DEF Slots
<1>4. ASSUME NEW p \in 1 .. Len(w)
      PROVE  Slots(w, q)[p] = w[p] /\ w[p] \in Messages /\ w[p] \in SlotRecords
  BY <1>1, <1>2 DEF Slots
<1>5. ASSUME NEW p \in 1 .. Len(w) + Len(q) PROVE Slots(w, q)[p] \in SlotRecords
  <2>1. p \in 1 .. Len(w) \/ p \in Len(w) + 1 .. Len(w) + Len(q)
    BY <1>1
  <2>. QED
    BY <2>1, <1>3, <1>4
<1>6. Slots(w, q) \in [1 .. Len(w) + Len(q) -> SlotRecords]
  BY <1>5 DEF Slots
<1>7. Len(w) + Len(q) \in Nat
  BY <1>1
<1>. QED
  BY <1>1, <1>3, <1>4, <1>6, <1>7 DEF IsSlots

\* What is sound with the slots s is sound with the slots t.
AsSound(s, t) ==
  /\ \A rs \in Seq(Refresh) : Matched(s, rs) => Matched(t, rs)
  /\ \A v : Between(s, v) => Between(t, v)
  /\ \A got, seen, top : Grows(s, got, seen, top) => Grows(t, got, seen, top)

\* From s to t, the lists stay in their order: at tells where they go.
Moves(s, t, at) ==
  /\ IsSlots(s) /\ IsSlots(t) /\ at \in [DOMAIN s -> Nat]
  /\ \A p \in DOMAIN s : s[p].kind \in Lists => at[p] \in DOMAIN t /\ t[at[p]] = s[p]
  /\ \A p, r \in DOMAIN s : s[p].kind \in Lists /\ s[r].kind \in Lists /\ p < r => at[p] < at[r]
  /\ \A q \in DOMAIN t : t[q].kind \in Lists => \E p \in DOMAIN s : s[p].kind \in Lists /\ q = at[p]

\* Slots whose lists are the same in the same order are as sound.
LEMMA Rearranged ==
  ASSUME NEW s, NEW t, NEW at, Moves(s, t, at)
  PROVE  AsSound(s, t)
<1>. USE DEF Moves
<1>1. DOMAIN s \subseteq Nat \ {0} /\ DOMAIN t \subseteq Nat \ {0}
  BY DEF IsSlots
<1>2. ASSUME NEW rs \in Seq(Refresh), Matched(s, rs) PROVE Matched(t, rs)
  <2>1. PICK a, b \in [1 .. Len(rs) -> Nat] : Match(s, rs, a, b)
    BY <1>2 DEF Matched
  <2>. DEFINE x == [k \in 1 .. Len(rs) |-> IF a[k] = 0 THEN 0 ELSE at[a[k]]]
              y == [k \in 1 .. Len(rs) |-> at[b[k]]]
  <2>2. ASSUME NEW p, NEW list \in Lists, NEW v, ListFrom(s, p, list, v)
        PROVE  p \in DOMAIN s /\ s[p].kind \in Lists /\ at[p] \in Nat /\ ListFrom(t, at[p], list, v)
    BY <2>2 DEF ListFrom
  <2>3. ASSUME NEW k \in 1 .. Len(rs)
        PROVE  /\ y[k] = at[b[k]] /\ y[k] \in Nat /\ x[k] \in Nat
               /\ b[k] \in DOMAIN s /\ s[b[k]].kind \in Lists
               /\ a[k] # 0 => x[k] = at[a[k]] /\ a[k] \in DOMAIN s /\ s[a[k]].kind \in Lists
               /\ a[k] = 0 => x[k] = 0
               /\ ListFrom(t, y[k], "tabs", rs[k].since)
               /\ a[k] # 0 => ListFrom(t, x[k], "workspaces", rs[k].since)
    <3>1. ListFrom(s, b[k], "tabs", rs[k].since) /\ (a[k] # 0 => ListFrom(s, a[k], "workspaces", rs[k].since))
      BY <2>1 DEF Match
    <3>. QED
      BY <3>1, <2>2 DEF Lists
  <2>4. x \in [1 .. Len(rs) -> Nat] /\ y \in [1 .. Len(rs) -> Nat]
    BY <2>3
  <2>5. ASSUME NEW k \in 1 .. Len(rs) PROVE x[k] < y[k]
    <3>1. CASE a[k] = 0
      BY <2>3, <3>1, <1>1 DEF ListFrom
    <3>2. CASE a[k] # 0
      BY <2>1, <2>3, <3>2 DEF Match
    <3>. QED
      BY <3>1, <3>2
  <2>6. ASSUME NEW j \in 1 .. Len(rs), NEW k \in 1 .. Len(rs), j < k PROVE y[j] < x[k]
    <3>1. b[j] < a[k] /\ b[j] \in Nat /\ a[k] \in Nat
      BY <2>1, <2>6 DEF Match
    <3>2. a[k] # 0
      BY <3>1
    <3>. QED
      BY <2>3, <3>1, <3>2
  <2>7. ASSUME NEW q \in DOMAIN t, t[q].kind \in Lists PROVE \E k \in 1 .. Len(rs) : q \in {x[k], y[k]}
    <3>1. PICK p \in DOMAIN s : s[p].kind \in Lists /\ q = at[p]
      BY <2>7
    <3>2. PICK k \in 1 .. Len(rs) : p \in {a[k], b[k]}
      BY <2>1, <3>1 DEF Match
    <3>3. p # 0
      BY <1>1
    <3>. QED
      BY <2>3, <3>1, <3>2, <3>3
  <2>8. ASSUME NEW k \in 1 .. Len(rs)
        PROVE  /\ rs[k].got["tabs"] = 0 /\ x[k] < y[k]
               /\ ListFrom(t, y[k], "tabs", rs[k].since)
               /\ \/ rs[k].got["workspaces"] = 0 /\ ListFrom(t, x[k], "workspaces", rs[k].since)
                  \/ k = 1 /\ x[k] = 0 /\ rs[k].got["workspaces"] # 0 /\ rs[k].since <= rs[k].got["workspaces"]
    <3>1. /\ rs[k].got["tabs"] = 0
          /\ \/ rs[k].got["workspaces"] = 0 /\ a[k] \in DOMAIN s
             \/ k = 1 /\ a[k] = 0 /\ rs[k].got["workspaces"] # 0 /\ rs[k].since <= rs[k].got["workspaces"]
      BY <2>1 DEF Match, ListFrom
    <3>2. a[k] \in DOMAIN s => a[k] # 0
      BY <1>1
    <3>. QED
      BY <2>3, <2>5, <3>1, <3>2
  <2>. HIDE DEF x, y
  <2>9. Match(t, rs, x, y)
    BY <2>6, <2>7, <2>8 DEF Match
  <2>. QED
    BY <2>4, <2>9 DEF Matched
<1>3. ASSUME NEW v, Between(s, v) PROVE Between(t, v)
  BY <1>3 DEF Between
<1>4. ASSUME NEW got, NEW seen, NEW top, Grows(s, got, seen, top) PROVE Grows(t, got, seen, top)
  <2>1. ASSUME NEW p \in DOMAIN t, NEW r \in DOMAIN t,
               t[p].kind \in Lists, t[r].kind \in Lists, p < r, t[r].version # 0
        PROVE  t[p].version # 0 /\ t[p].version <= t[r].version
    <3>1. PICK i \in DOMAIN s : s[i].kind \in Lists /\ p = at[i]
      BY <2>1
    <3>2. PICK j \in DOMAIN s : s[j].kind \in Lists /\ r = at[j]
      BY <2>1
    <3>3. t[p] = s[i] /\ t[r] = s[j] /\ i \in Nat /\ j \in Nat /\ at[i] \in Nat /\ at[j] \in Nat
      BY <3>1, <3>2, <1>1
    <3>4. ~(j < i) /\ i # j
      <4>1. j < i => at[j] < at[i]
        BY <3>1, <3>2
      <4>. QED
        BY <4>1, <2>1, <3>1, <3>2, <3>3
    <3>5. i < j
      BY <3>3, <3>4
    <3>. QED
      BY <1>4, <2>1, <3>1, <3>2, <3>3, <3>5 DEF Grows
  <2>. QED
    BY <1>3, <1>4, <2>1 DEF Grows
<1>. QED
  BY <1>2, <1>3, <1>4 DEF AsSound


\* From s to t, the message at position i is taken out.
Gap(s, t, n, i) ==
  /\ n \in Nat /\ i \in 1 .. n + 1 /\ s \in [1 .. n + 1 -> SlotRecords] /\ t \in [1 .. n -> SlotRecords]
  /\ \A p \in 1 .. n : t[p] = IF p < i THEN s[p] ELSE s[p + 1]

\* A message that is not a list goes in, or out, between the others.
LEMMA Inserted ==
  ASSUME NEW s, NEW t, NEW n, NEW i, Gap(t, s, n, i), t[i].kind \notin Lists
  PROVE  AsSound(s, t)
<1>. USE DEF Gap
<1>. DEFINE at == [p \in 1 .. n |-> IF p < i THEN p ELSE p + 1]
<1>1. DOMAIN s = 1 .. n /\ DOMAIN t = 1 .. n + 1 /\ IsSlots(s) /\ IsSlots(t) /\ i \in Nat
  BY DEF IsSlots
<1>2. \A p \in 1 .. n : at[p] \in 1 .. n + 1 /\ at[p] \in Nat /\ t[at[p]] = s[p] /\ at[p] = IF p < i THEN p ELSE p + 1
  OBVIOUS
<1>3. at \in [DOMAIN s -> Nat]
  BY <1>1, <1>2
<1>4. \A p, r \in 1 .. n : p < r => at[p] < at[r]
  BY <1>2
<1>5. ASSUME NEW q \in 1 .. n + 1, t[q].kind \in Lists
      PROVE  \E p \in 1 .. n : s[p].kind \in Lists /\ q = at[p]
  <2>1. PICK p \in 1 .. n : q = IF p < i THEN p ELSE p + 1
    <3>1. q < i \/ q > i
      BY <1>1, <1>5
    <3>2. CASE q < i
      BY <3>2
    <3>3. CASE q > i
      <4>1. q - 1 \in 1 .. n /\ ~(q - 1 < i) /\ q = (q - 1) + 1
        BY <3>3
      <4>. QED
        BY <4>1
    <3>. QED
      BY <3>1, <3>2, <3>3
  <2>2. q = at[p] /\ t[q] = s[p]
    BY <1>2, <2>1
  <2>. QED
    BY <1>5, <2>2
<1>. HIDE DEF at
<1>6. \A p \in DOMAIN s : s[p].kind \in Lists => at[p] \in DOMAIN t /\ t[at[p]] = s[p]
  BY <1>1, <1>2
<1>7. \A p, r \in DOMAIN s : s[p].kind \in Lists /\ s[r].kind \in Lists /\ p < r => at[p] < at[r]
  BY <1>1, <1>4
<1>8. \A q \in DOMAIN t : t[q].kind \in Lists => \E p \in DOMAIN s : s[p].kind \in Lists /\ q = at[p]
  BY <1>1, <1>5
<1>9. Moves(s, t, at)
  BY <1>1, <1>3, <1>6, <1>7, <1>8 DEF Moves
<1>. QED
  BY <1>9, Rearranged

\* The same, the other way.
LEMMA Removed ==
  ASSUME NEW s, NEW t, NEW n, NEW i, Gap(s, t, n, i), s[i].kind \notin Lists
  PROVE  AsSound(s, t)
<1>. USE DEF Gap
<1>. DEFINE at == [p \in 1 .. n + 1 |-> IF p < i THEN p ELSE p - 1]
<1>1. DOMAIN s = 1 .. n + 1 /\ DOMAIN t = 1 .. n /\ IsSlots(s) /\ IsSlots(t) /\ i \in Nat
  BY DEF IsSlots
<1>2. \A p \in 1 .. n + 1 : at[p] \in Nat /\ at[p] = IF p < i THEN p ELSE p - 1
  OBVIOUS
<1>3. at \in [DOMAIN s -> Nat]
  BY <1>1, <1>2
<1>4. ASSUME NEW p \in 1 .. n + 1, s[p].kind \in Lists PROVE p # i /\ at[p] \in 1 .. n /\ t[at[p]] = s[p]
  <2>1. CASE p < i
    BY <1>2, <2>1
  <2>2. CASE p > i
    <3>1. p - 1 \in 1 .. n /\ ~(p - 1 < i) /\ (p - 1) + 1 = p /\ at[p] = p - 1
      BY <1>2, <2>2
    <3>. QED
      BY <2>2, <3>1
  <2>. QED
    BY <1>4, <1>1, <2>1, <2>2
<1>5. ASSUME NEW p \in 1 .. n + 1, NEW r \in 1 .. n + 1, p # i, r # i, p < r PROVE at[p] < at[r]
  BY <1>1, <1>2, <1>5
<1>6. ASSUME NEW q \in 1 .. n, t[q].kind \in Lists
      PROVE  \E p \in 1 .. n + 1 : s[p].kind \in Lists /\ q = at[p]
  <2>1. CASE q < i
    BY <1>2, <1>6, <2>1
  <2>2. CASE ~(q < i)
    <3>1. q + 1 \in 1 .. n + 1 /\ at[q + 1] = q
      BY <1>2, <2>2
    <3>. QED
      BY <1>6, <2>2, <3>1
  <2>. QED
    BY <2>1, <2>2
<1>. HIDE DEF at
<1>7. \A p \in DOMAIN s : s[p].kind \in Lists => at[p] \in DOMAIN t /\ t[at[p]] = s[p]
  BY <1>1, <1>4
<1>8. \A p, r \in DOMAIN s : s[p].kind \in Lists /\ s[r].kind \in Lists /\ p < r => at[p] < at[r]
  BY <1>1, <1>4, <1>5
<1>9. \A q \in DOMAIN t : t[q].kind \in Lists => \E p \in DOMAIN s : s[p].kind \in Lists /\ q = at[p]
  BY <1>1, <1>6
<1>10. Moves(s, t, at)
  BY <1>1, <1>3, <1>7, <1>8, <1>9 DEF Moves
<1>. QED
  BY <1>10, Rearranged

\* A refresh asks for both lists.
LEMMA Asked ==
  ASSUME NEW s, NEW t, NEW n \in Nat, s \in [1 .. n -> SlotRecords], t \in [1 .. n + 2 -> SlotRecords],
         \A p \in 1 .. n : t[p] = s[p],
         t[n + 1] = [kind |-> "workspaces", version |-> 0], t[n + 2] = [kind |-> "tabs", version |-> 0],
         NEW rs \in Seq(Refresh), NEW r \in Refresh, r.got = None, Matched(s, rs)
  PROVE  Matched(t, Append(rs, r))
<1>. DEFINE m == Len(rs)
            us == Append(rs, r)
<1>1. PICK a, b \in [1 .. m -> Nat] : Match(s, rs, a, b)
  BY DEF Matched
<1>2. /\ m \in Nat /\ Len(us) = m + 1 /\ us[m + 1] = r /\ \A k \in 1 .. m : us[k] = rs[k]
  BY LenProperties, AppendProperties
<1>. DEFINE x == [k \in 1 .. m + 1 |-> IF k <= m THEN a[k] ELSE n + 1]
            y == [k \in 1 .. m + 1 |-> IF k <= m THEN b[k] ELSE n + 2]
<1>3. /\ x \in [1 .. m + 1 -> Nat] /\ y \in [1 .. m + 1 -> Nat]
      /\ x[m + 1] = n + 1 /\ y[m + 1] = n + 2 /\ \A k \in 1 .. m : x[k] = a[k] /\ y[k] = b[k]
  BY <1>2
<1>. HIDE DEF x, y
<1>4. DOMAIN s = 1 .. n /\ DOMAIN t = 1 .. n + 2 /\ (\A p \in 1 .. n + 2 : p \in 1 .. n \/ p = n + 1 \/ p = n + 2)
      /\ n + 1 \in 1 .. n + 2 /\ n + 2 \in 1 .. n + 2 /\ 1 .. n \subseteq 1 .. n + 2
  OBVIOUS
<1>5. ASSUME NEW p, NEW list, NEW v, ListFrom(s, p, list, v) PROVE p \in 1 .. n /\ ListFrom(t, p, list, v)
  BY <1>4, <1>5 DEF ListFrom
<1>6. ASSUME NEW k \in 1 .. m
      PROVE  /\ us[k].got["tabs"] = 0 /\ x[k] < y[k] /\ y[k] \in 1 .. n
             /\ ListFrom(t, y[k], "tabs", us[k].since)
             /\ \/ us[k].got["workspaces"] = 0 /\ ListFrom(t, x[k], "workspaces", us[k].since)
                \/ k = 1 /\ x[k] = 0 /\ us[k].got["workspaces"] # 0 /\ us[k].since <= us[k].got["workspaces"]
  <2>1. /\ rs[k].got["tabs"] = 0 /\ a[k] < b[k]
        /\ ListFrom(s, b[k], "tabs", rs[k].since)
        /\ \/ rs[k].got["workspaces"] = 0 /\ ListFrom(s, a[k], "workspaces", rs[k].since)
           \/ k = 1 /\ a[k] = 0 /\ rs[k].got["workspaces"] # 0 /\ rs[k].since <= rs[k].got["workspaces"]
    BY <1>1 DEF Match
  <2>2. us[k] = rs[k] /\ x[k] = a[k] /\ y[k] = b[k]
    BY <1>2, <1>3
  <2>. QED
    BY <2>1, <2>2, <1>5
<1>7. /\ us[m + 1].got["tabs"] = 0 /\ x[m + 1] < y[m + 1]
      /\ ListFrom(t, y[m + 1], "tabs", us[m + 1].since)
      /\ us[m + 1].got["workspaces"] = 0 /\ ListFrom(t, x[m + 1], "workspaces", us[m + 1].since)
  BY <1>2, <1>3, <1>4 DEF ListFrom, None, Lists
<1>8. \A k \in 1 .. m + 1 : k \in 1 .. m \/ k = m + 1
  BY <1>2
<1>9. ASSUME NEW j \in 1 .. m + 1, NEW k \in 1 .. m + 1, j < k PROVE y[j] < x[k]
  <2>1. j \in 1 .. m
    BY <1>2, <1>9
  <2>2. CASE k \in 1 .. m
    BY <1>1, <1>3, <1>9, <2>1, <2>2 DEF Match
  <2>3. CASE k = m + 1
    BY <1>3, <1>6, <2>1, <2>3
  <2>. QED
    BY <1>8, <2>2, <2>3
<1>10. ASSUME NEW p \in 1 .. n + 2, t[p].kind \in Lists PROVE \E k \in 1 .. m + 1 : p \in {x[k], y[k]}
  <2>1. CASE p \in 1 .. n
    <3>1. PICK k \in 1 .. m : p \in {a[k], b[k]}
      BY <1>1, <1>4, <1>10, <2>1 DEF Match
    <3>2. k \in 1 .. m + 1
      BY <1>2
    <3>. QED
      BY <1>3, <3>1, <3>2
  <2>2. CASE p \in {n + 1, n + 2}
    <3>1. m + 1 \in 1 .. m + 1
      BY <1>2
    <3>. QED
      BY <1>3, <2>2, <3>1
  <2>. QED
    BY <1>4, <2>1, <2>2
<1>. HIDE DEF us
<1>11. \A k \in 1 .. m + 1 :
         /\ us[k].got["tabs"] = 0 /\ x[k] < y[k]
         /\ ListFrom(t, y[k], "tabs", us[k].since)
         /\ \/ us[k].got["workspaces"] = 0 /\ ListFrom(t, x[k], "workspaces", us[k].since)
            \/ k = 1 /\ x[k] = 0 /\ us[k].got["workspaces"] # 0 /\ us[k].since <= us[k].got["workspaces"]
  BY <1>6, <1>7, <1>8
<1>12. Match(t, us, x, y)
  BY <1>2, <1>4, <1>9, <1>10, <1>11 DEF Match
<1>. QED
  BY <1>2, <1>3, <1>12 DEF Matched, us


\* From s to t, the host answers the first request that is waiting with version v.
Answering(s, t, n, i, v) ==
  /\ s \in [1 .. n -> SlotRecords] /\ t \in [1 .. n -> SlotRecords] /\ n \in Nat /\ i \in 1 .. n
  /\ v \in Nat \ {0} /\ s[i].version = 0 /\ t[i].kind = s[i].kind /\ t[i].version = v
  /\ \A p \in 1 .. n : p # i => t[p] = s[p]
  /\ \A p \in 1 .. n : p < i /\ s[p].kind \in Lists => s[p].version # 0 /\ s[p].version <= v
  /\ \A p \in 1 .. n : i < p => s[p].version = 0

\* An answer is as new as what came before it.
LEMMA Answers ==
  ASSUME NEW s, NEW t, NEW n, NEW i, NEW v, Answering(s, t, n, i, v)
  PROVE  /\ \A rs \in Seq(Refresh) :
               (\A k \in 1 .. Len(rs) : rs[k].since <= v) /\ Matched(s, rs) => Matched(t, rs)
         /\ \A x : Between(s, x) /\ x <= v => Between(t, x)
         /\ \A got \in Nat, seen \in View : Grows(s, got, seen, v) => Grows(t, got, seen, v)
<1>. USE DEF Answering
<1>1. /\ DOMAIN s = 1 .. n /\ DOMAIN t = 1 .. n /\ i \in Nat /\ v \in Nat \ {0} /\ n \in Nat
      /\ \A p \in 1 .. n : s[p] \in SlotRecords
  OBVIOUS
<1>2. ASSUME NEW p \in 1 .. n
      PROVE  /\ t[p].kind = s[p].kind
             /\ t[p].version = IF p = i THEN v ELSE s[p].version
  OBVIOUS
<1>3. ASSUME NEW rs \in Seq(Refresh), \A k \in 1 .. Len(rs) : rs[k].since <= v, Matched(s, rs)
      PROVE  Matched(t, rs)
  <2>1. PICK a, b \in [1 .. Len(rs) -> Nat] : Match(s, rs, a, b)
    BY <1>3 DEF Matched
  <2>2. ASSUME NEW k \in 1 .. Len(rs), NEW p, NEW list, ListFrom(s, p, list, rs[k].since)
        PROVE  ListFrom(t, p, list, rs[k].since)
    BY <1>1, <1>2, <1>3, <2>2 DEF ListFrom
  <2>3. \A k \in 1 .. Len(rs) :
          /\ rs[k].got["tabs"] = 0 /\ a[k] < b[k]
          /\ ListFrom(t, b[k], "tabs", rs[k].since)
          /\ \/ rs[k].got["workspaces"] = 0 /\ ListFrom(t, a[k], "workspaces", rs[k].since)
             \/ k = 1 /\ a[k] = 0 /\ rs[k].got["workspaces"] # 0 /\ rs[k].since <= rs[k].got["workspaces"]
    BY <2>1, <2>2 DEF Match
  <2>4. \A p \in DOMAIN t : t[p].kind \in Lists => \E k \in 1 .. Len(rs) : p \in {a[k], b[k]}
    BY <1>1, <1>2, <2>1 DEF Match
  <2>5. Match(t, rs, a, b)
    BY <2>1, <2>3, <2>4 DEF Match
  <2>. QED
    BY <2>1, <2>5 DEF Matched
<1>4. ASSUME NEW x, Between(s, x), x <= v PROVE Between(t, x)
  BY <1>1, <1>2, <1>4 DEF Between
<1>5. ASSUME NEW got \in Nat, NEW seen \in View, Grows(s, got, seen, v) PROVE Grows(t, got, seen, v)
  <2>1. ASSUME NEW p \in 1 .. n, NEW r \in 1 .. n,
               t[p].kind \in Lists, t[r].kind \in Lists, p < r, t[r].version # 0
        PROVE  t[p].version # 0 /\ t[p].version <= t[r].version
    <3>1. CASE r = i
      BY <1>1, <1>2, <2>1, <3>1
    <3>2. CASE r # i
      <4>1. r < i /\ p # i
        BY <1>1, <1>2, <2>1, <3>2
      <4>2. s[p].kind \in Lists /\ s[r].kind \in Lists /\ s[r].version # 0
        BY <1>2, <2>1, <3>2
      <4>3. s[p].version # 0 /\ s[p].version <= s[r].version
        BY <1>1, <1>5, <2>1, <4>2 DEF Grows
      <4>. QED
        BY <1>2, <3>2, <4>1, <4>3
    <3>. QED
      BY <3>1, <3>2
  <2>2. (\A l \in Lists : seen[l] <= v /\ Between(t, seen[l])) /\ (got # 0 => got <= v /\ Between(t, got))
    BY <1>4, <1>5 DEF Grows
  <2>. QED
    BY <1>1, <1>5, <2>1, <2>2 DEF Grows
<1>. QED
  BY <1>3, <1>4, <1>5

\* Refreshes that have asked for, and got, the same are matched alike.
LEMMA MatchesAlike ==
  ASSUME NEW s, NEW rs \in Seq(Refresh), NEW us \in Seq(Refresh), Len(us) = Len(rs),
         \A k \in 1 .. Len(rs) : us[k].got = rs[k].got /\ us[k].since = rs[k].since, Matched(s, rs)
  PROVE  Matched(s, us)
<1>1. PICK a, b \in [1 .. Len(rs) -> Nat] : Match(s, rs, a, b)
  BY DEF Matched
<1>2. Match(s, us, a, b)
  BY <1>1 DEF Match
<1>. QED
  BY <1>1, <1>2 DEF Matched

\* From s to t, the first list, which is at position i, is taken.
Takes(s, t, n, i) ==
  /\ n \in Nat /\ i \in 1 .. n /\ s \in [1 .. n -> SlotRecords] /\ t \in [1 .. n -> SlotRecords]
  /\ s[i].kind \in Lists /\ s[i].version # 0 /\ t[i].kind \notin Lists
  /\ \A p \in 1 .. n : p # i => t[p] = s[p]
  /\ \A p \in 1 .. i - 1 : s[p].kind \notin Lists

\* What the oldest of the refreshes rs makes of it, with the slots t then left.
TakenBy(t, e, rs) ==
  /\ Len(rs) \in Nat \ {0} /\ rs[1].since <= e.version /\ rs[1].got["tabs"] = 0
  /\ \A k \in 2 .. Len(rs) : rs[k].got["workspaces"] = 0
  /\ rs[1].got["workspaces"] = 0 =>
       /\ e.kind = "workspaces"
       /\ \A us \in Seq(Refresh) :
            /\ Len(us) = Len(rs) /\ us[1].since = rs[1].since
            /\ us[1].got["workspaces"] = e.version /\ us[1].got["tabs"] = 0
            /\ \A k \in 2 .. Len(rs) : us[k] = rs[k]
            => Matched(t, us)
  /\ rs[1].got["workspaces"] # 0 =>
       /\ e.kind = "tabs" /\ rs[1].since <= rs[1].got["workspaces"]
       /\ \A us \in Seq(Refresh) :
            /\ Len(us) = Len(rs) - 1
            /\ \A k \in 1 .. Len(rs) - 1 : us[k] = rs[k + 1]
            => Matched(t, us)

\* It is the one that the oldest refresh waits for.
LEMMA Taken ==
  ASSUME NEW s, NEW t, NEW n, NEW i, Takes(s, t, n, i),
         NEW rs \in Seq(Refresh), Matched(s, rs)
  PROVE  TakenBy(t, s[i], rs)
<1>. DEFINE m == Len(rs)
<1>. USE DEF Takes
<1>1. PICK a, b \in [1 .. m -> Nat] : Match(s, rs, a, b)
  BY DEF Matched
<1>2. m \in Nat /\ DOMAIN s = 1 .. n /\ DOMAIN t = 1 .. n /\ i \in Nat
  BY LenProperties
<1>. HIDE DEF m
<1>3. PICK j \in 1 .. m : i \in {a[j], b[j]}
  BY <1>1, <1>2 DEF Match, m
<1>4. /\ \A k \in 1 .. m :
           /\ rs[k].got["tabs"] = 0 /\ a[k] < b[k]
           /\ ListFrom(s, b[k], "tabs", rs[k].since)
           /\ \/ rs[k].got["workspaces"] = 0 /\ ListFrom(s, a[k], "workspaces", rs[k].since)
              \/ k = 1 /\ a[k] = 0 /\ rs[k].got["workspaces"] # 0 /\ rs[k].since <= rs[k].got["workspaces"]
      /\ \A k, l \in 1 .. m : k < l => b[k] < a[l]
      /\ \A p \in DOMAIN s : s[p].kind \in Lists => \E k \in 1 .. m : p \in {a[k], b[k]}
      /\ \A k \in 1 .. m : a[k] \in Nat /\ b[k] \in Nat
  BY <1>1 DEF Match, m
<1>5. ASSUME NEW p, NEW list \in Lists, NEW v, ListFrom(s, p, list, v)
      PROVE  p \in 1 .. n /\ i <= p /\ (p # i => ListFrom(t, p, list, v))
  BY <1>2, <1>5 DEF ListFrom
<1>6. m # 0 /\ 1 \in 1 .. m
  BY <1>2, <1>3
<1>7. j = 1
  <2>1. ASSUME 1 < j PROVE FALSE
    <3>1. b[1] < a[j] /\ a[j] <= i /\ i <= b[1]
      BY <1>3, <1>4, <1>5, <1>6, <2>1 DEF Lists
    <3>. QED
      BY <1>2, <1>4, <1>6, <3>1
  <2>. QED
    BY <2>1, <1>2, <1>3
<1>8. \A k \in 2 .. m : k \in 1 .. m /\ 1 < k /\ rs[k].got["workspaces"] = 0 /\ ListFrom(s, a[k], "workspaces", rs[k].since)
  BY <1>2, <1>4
<1>9. \A k \in 2 .. m : i < a[k] /\ i < b[k] /\ a[k] # i /\ b[k] # i
  <2>1. i <= b[1]
    BY <1>4, <1>5, <1>6 DEF Lists
  <2>. QED
    BY <2>1, <1>2, <1>4, <1>6, <1>8
<1>10. \A k \in 2 .. m : ListFrom(t, a[k], "workspaces", rs[k].since) /\ ListFrom(t, b[k], "tabs", rs[k].since)
  BY <1>4, <1>5, <1>8, <1>9 DEF Lists
<1>11. ASSUME NEW p \in 1 .. n, t[p].kind \in Lists
       PROVE  p # i /\ \E k \in 1 .. m : p \in {a[k], b[k]}
  BY <1>2, <1>4, <1>11
<1>12. CASE rs[1].got["workspaces"] = 0
  <2>1. ListFrom(s, a[1], "workspaces", rs[1].since) /\ a[1] < b[1] /\ ListFrom(s, b[1], "tabs", rs[1].since)
    BY <1>4, <1>6, <1>12
  <2>2. a[1] = i /\ b[1] # i
    BY <2>1, <1>2, <1>3, <1>4, <1>5, <1>6, <1>7 DEF Lists
  <2>3. s[i].kind = "workspaces" /\ rs[1].since <= s[i].version /\ ListFrom(t, b[1], "tabs", rs[1].since)
    BY <2>1, <2>2, <1>5 DEF ListFrom, Lists
  <2>4. ASSUME NEW us \in Seq(Refresh), Len(us) = m, us[1].since = rs[1].since,
               us[1].got["workspaces"] = s[i].version, us[1].got["tabs"] = 0, \A k \in 2 .. m : us[k] = rs[k]
        PROVE  Matched(t, us)
    <3>. DEFINE x == [k \in 1 .. m |-> IF k = 1 THEN 0 ELSE a[k]]
    <3>1. x \in [1 .. m -> Nat] /\ x[1] = 0 /\ (\A k \in 2 .. m : x[k] = a[k]) /\ \A k \in 1 .. m : k = 1 \/ k \in 2 .. m
      BY <1>2, <1>4, <1>6, <1>8
    <3>. HIDE DEF x
    <3>2. /\ us[1].got["tabs"] = 0 /\ x[1] < b[1] /\ ListFrom(t, b[1], "tabs", us[1].since)
          /\ x[1] = 0 /\ us[1].got["workspaces"] # 0 /\ us[1].since <= us[1].got["workspaces"]
      BY <2>1, <2>3, <2>4, <3>1, <1>4, <1>6
    <3>3. ASSUME NEW k \in 2 .. m
          PROVE  /\ us[k].got["tabs"] = 0 /\ x[k] < b[k] /\ ListFrom(t, b[k], "tabs", us[k].since)
                 /\ us[k].got["workspaces"] = 0 /\ ListFrom(t, x[k], "workspaces", us[k].since)
      <4>1. us[k] = rs[k] /\ x[k] = a[k] /\ k \in 1 .. m
        BY <1>8, <2>4, <3>1
      <4>. QED
        BY <1>4, <1>8, <1>10, <4>1
    <3>4. ASSUME NEW k \in 1 .. m, NEW l \in 1 .. m, k < l PROVE b[k] < x[l]
      <4>1. l \in 2 .. m
        BY <1>2, <3>4
      <4>. QED
        BY <1>4, <3>1, <3>4, <4>1
    <3>5. ASSUME NEW p \in 1 .. n, t[p].kind \in Lists PROVE \E k \in 1 .. m : p \in {x[k], b[k]}
      <4>1. PICK k \in 1 .. m : p \in {a[k], b[k]}
        BY <1>11, <3>5
      <4>2. p # i
        BY <1>11, <3>5
      <4>. QED
        BY <2>2, <3>1, <4>1, <4>2
    <3>6. \A k \in 1 .. m :
            /\ us[k].got["tabs"] = 0 /\ x[k] < b[k]
            /\ ListFrom(t, b[k], "tabs", us[k].since)
            /\ \/ us[k].got["workspaces"] = 0 /\ ListFrom(t, x[k], "workspaces", us[k].since)
               \/ k = 1 /\ x[k] = 0 /\ us[k].got["workspaces"] # 0 /\ us[k].since <= us[k].got["workspaces"]
      BY <3>1, <3>2, <3>3
    <3>7. Match(t, us, x, b)
      BY <1>2, <2>4, <3>4, <3>5, <3>6 DEF Match
    <3>. QED
      BY <1>1, <2>4, <3>1, <3>7 DEF Matched, m
  <2>. QED
    BY <1>2, <1>4, <1>6, <1>8, <1>12, <2>3, <2>4 DEF m, TakenBy
<1>13. CASE rs[1].got["workspaces"] # 0
  <2>1. a[1] = 0 /\ rs[1].since <= rs[1].got["workspaces"] /\ ListFrom(s, b[1], "tabs", rs[1].since)
    BY <1>4, <1>6, <1>13
  <2>2. b[1] = i
    BY <2>1, <1>2, <1>3, <1>7
  <2>3. s[i].kind = "tabs" /\ rs[1].since <= s[i].version
    BY <2>1, <2>2 DEF ListFrom
  <2>4. ASSUME NEW us \in Seq(Refresh), Len(us) = m - 1, \A k \in 1 .. m - 1 : us[k] = rs[k + 1]
        PROVE  Matched(t, us)
    <3>. DEFINE x == [k \in 1 .. m - 1 |-> a[k + 1]]
                y == [k \in 1 .. m - 1 |-> b[k + 1]]
    <3>1. /\ x \in [1 .. m - 1 -> Nat] /\ y \in [1 .. m - 1 -> Nat]
          /\ \A k \in 1 .. m - 1 : x[k] = a[k + 1] /\ y[k] = b[k + 1] /\ k + 1 \in 1 .. m /\ k + 1 \in 2 .. m
      BY <1>2, <1>4
    <3>. HIDE DEF x, y
    <3>2. ASSUME NEW k \in 1 .. m - 1
          PROVE  /\ us[k].got["tabs"] = 0 /\ x[k] < y[k] /\ ListFrom(t, y[k], "tabs", us[k].since)
                 /\ us[k].got["workspaces"] = 0 /\ ListFrom(t, x[k], "workspaces", us[k].since)
      <4>1. PICK l \in 2 .. m : l = k + 1 /\ l \in 1 .. m /\ us[k] = rs[l] /\ x[k] = a[l] /\ y[k] = b[l]
        BY <2>4, <3>1
      <4>. QED
        BY <1>4, <1>8, <1>10, <4>1
    <3>3. ASSUME NEW k \in 1 .. m - 1, NEW l \in 1 .. m - 1, k < l PROVE y[k] < x[l]
      <4>1. k + 1 < l + 1
        BY <3>3, <1>2
      <4>. QED
        BY <1>4, <3>1, <4>1
    <3>4. ASSUME NEW p \in 1 .. n, t[p].kind \in Lists PROVE \E k \in 1 .. m - 1 : p \in {x[k], y[k]}
      <4>1. PICK l \in 1 .. m : p \in {a[l], b[l]}
        BY <1>11, <3>4
      <4>2. l # 1
        BY <2>1, <2>2, <3>4, <4>1, <1>11
      <4>3. PICK k \in 1 .. m - 1 : l = k + 1
        <5>1. l - 1 \in 1 .. m - 1 /\ l = (l - 1) + 1
          BY <1>2, <4>2
        <5>. QED
          BY <5>1
      <4>. QED
        BY <3>1, <4>1, <4>3
    <3>5. \A k \in 1 .. m - 1 :
            /\ us[k].got["tabs"] = 0 /\ x[k] < y[k]
            /\ ListFrom(t, y[k], "tabs", us[k].since)
            /\ \/ us[k].got["workspaces"] = 0 /\ ListFrom(t, x[k], "workspaces", us[k].since)
               \/ k = 1 /\ x[k] = 0 /\ us[k].got["workspaces"] # 0 /\ us[k].since <= us[k].got["workspaces"]
      BY <3>2
    <3>6. Match(t, us, x, y)
      BY <1>2, <2>4, <3>3, <3>4, <3>5 DEF Match
    <3>. QED
      BY <2>4, <3>1, <3>6 DEF Matched
  <2>. QED
    BY <1>2, <1>4, <1>6, <1>8, <1>13, <2>1, <2>3, <2>4 DEF m, TakenBy
<1>. QED
  BY <1>12, <1>13 DEF TakenBy

\* How new the rest then is, and what the refresh has got.
TakenAfter(s, t, e, got, seen, top) ==
  /\ \A v : Between(s, v) => Between(t, v) /\ v <= e.version
  /\ Between(t, e.version)
  /\ Grows(t, e.version, seen, top) /\ Grows(t, 0, seen, top)
  /\ got # 0 => \A to \in View : to["workspaces"] = got /\ to["tabs"] = e.version => Grows(t, 0, to, top)
  /\ got # 0 => \A l \in Lists : seen[l] <= got /\ seen[l] <= e.version

\* Once it is taken, the rest is as new, and so is what the refresh has then got.
LEMMA TakenGrows ==
  ASSUME NEW s, NEW t, NEW n, NEW i, Takes(s, t, n, i),
         NEW top \in Nat, s[i].version <= top, NEW got \in Nat, NEW seen \in View, Grows(s, got, seen, top)
  PROVE  TakenAfter(s, t, s[i], got, seen, top)
<1>. USE DEF Takes
<1>1. DOMAIN s = 1 .. n /\ DOMAIN t = 1 .. n /\ i \in Nat /\ \A p \in 1 .. n : s[p].version \in Nat /\ t[p].version \in Nat
  BY DEF SlotRecords
<1>2. ASSUME NEW p \in 1 .. n, t[p].kind \in Lists PROVE p # i /\ i < p /\ t[p] = s[p]
  BY <1>1, <1>2
<1>3. ASSUME NEW v, Between(s, v) PROVE Between(t, v) /\ v <= s[i].version
  BY <1>1, <1>2, <1>3 DEF Between
<1>4. Between(t, s[i].version)
  BY <1>1, <1>2 DEF Between, Grows
<1>5. \A p, r \in DOMAIN t : t[p].kind \in Lists /\ t[r].kind \in Lists /\ p < r /\ t[r].version # 0
       => t[p].version # 0 /\ t[p].version <= t[r].version
  BY <1>1, <1>2 DEF Grows
<1>6. \A l \in Lists : seen[l] <= top /\ Between(t, seen[l]) /\ seen[l] <= s[i].version
  BY <1>3 DEF Grows
<1>7. Grows(t, s[i].version, seen, top) /\ Grows(t, 0, seen, top)
  BY <1>4, <1>5, <1>6 DEF Grows
<1>8. ASSUME got # 0 PROVE /\ got <= top /\ Between(t, got)
                           /\ \A l \in Lists : seen[l] <= got
  BY <1>3, <1>8 DEF Grows
<1>9. ASSUME got # 0, NEW to \in View, to["workspaces"] = got, to["tabs"] = s[i].version PROVE Grows(t, 0, to, top)
  <2>1. \A l \in Lists : to[l] <= top /\ Between(t, to[l])
    BY <1>4, <1>8, <1>9 DEF Lists
  <2>. QED
    BY <1>5, <2>1 DEF Grows
<1>. QED
  BY <1>3, <1>4, <1>6, <1>7, <1>8, <1>9 DEF TakenAfter


-----------------------------------------------------------------------------
(* What the steps do to a control stream                                   *)

\* Before a session is ready there are no lists.
LEMMA NoLists ==
  ASSUME NEW w \in Seq(Messages), NEW q \in Seq(Requests),
         \A p \in DOMAIN w : w[p].kind \notin Lists, \A p \in DOMAIN q : q[p] \notin Lists,
         NEW seen, NEW top, \A l \in Lists : seen[l] <= top
  PROVE  Matched(Slots(w, q), <<>>) /\ Got(<<>>) = 0 /\ Grows(Slots(w, q), 0, seen, top)
<1>. DEFINE s == Slots(w, q)
<1>1. ASSUME NEW p \in DOMAIN s PROVE s[p].kind \notin Lists
  <2>1. DOMAIN s = 1 .. Len(w) + Len(q) /\ Len(w) \in Nat /\ Len(q) \in Nat
    BY SlotsAre
  <2>2. CASE p \in 1 .. Len(w)
    BY <2>2, SlotsAre
  <2>3. CASE p \in Len(w) + 1 .. Len(w) + Len(q)
    <3>1. p - Len(w) \in DOMAIN q
      BY <2>1, <2>3, SlotsAre
    <3>2. s[p] = [kind |-> q[p - Len(w)], version |-> 0]
      BY <2>3, SlotsAre
    <3>. QED
      BY <3>1, <3>2
  <2>. QED
    BY <2>1, <2>2, <2>3
<1>. HIDE DEF s
<1>2. Len(<<>>) = 0 /\ Got(<<>>) = 0
  BY DEF Got
<1>3. 1 .. 0 = {}
  OBVIOUS
<1>4. [k \in 1 .. 0 |-> 0] \in [1 .. 0 -> Nat]
  OBVIOUS
<1>5. Matched(s, <<>>)
  <2>1. Match(s, <<>>, [k \in 1 .. 0 |-> 0], [k \in 1 .. 0 |-> 0])
    BY <1>1, <1>2, <1>3 DEF Match
  <2>. QED
    BY <1>2, <1>4, <2>1 DEF Matched
<1>6. Grows(s, 0, seen, top)
  BY <1>1 DEF Grows, Between
<1>. QED
  BY <1>2, <1>5, <1>6 DEF s

\* A notification is put on the wire, behind the answers that are there.
LEMMA WireForwards ==
  ASSUME NEW w \in Seq(Messages), NEW q \in Seq(Requests), NEW e \in Messages, e.kind = "snapshot.invalidated"
  PROVE  /\ AsSound(Slots(w, q), Slots(Append(w, e), q))
         /\ \A v : Told(Slots(w, q), v) \/ v <= e.version => Told(Slots(Append(w, e), q), v)
<1>. DEFINE s == Slots(w, q)
            t == Slots(Append(w, e), q)
            n == Len(w) + Len(q)
            i == Len(w) + 1
<1>1. /\ Append(w, e) \in Seq(Messages) /\ Len(Append(w, e)) = Len(w) + 1 /\ Append(w, e)[Len(w) + 1] = e
      /\ \A p \in 1 .. Len(w) : Append(w, e)[p] = w[p]
      /\ Len(w) \in Nat /\ Len(q) \in Nat /\ n \in Nat /\ i \in 1 .. n + 1
  BY AppendProperties, LenProperties
<1>2. s \in [1 .. n -> SlotRecords]
  BY SlotsAre
<1>3. /\ t \in [1 .. (Len(w) + 1) + Len(q) -> SlotRecords] /\ (Len(w) + 1) + Len(q) = n + 1
      /\ \A p \in 1 .. Len(w) + 1 : t[p] = Append(w, e)[p]
      /\ \A p \in (Len(w) + 1) + 1 .. (Len(w) + 1) + Len(q) : t[p] = [kind |-> q[p - (Len(w) + 1)], version |-> 0]
  <2>1. PICK u \in Seq(Messages) : u = Append(w, e) /\ Len(u) = Len(w) + 1
    BY <1>1
  <2>2. /\ Slots(u, q) \in [1 .. Len(u) + Len(q) -> SlotRecords]
        /\ \A p \in 1 .. Len(u) : Slots(u, q)[p] = u[p]
        /\ \A p \in Len(u) + 1 .. Len(u) + Len(q) : Slots(u, q)[p] = [kind |-> q[p - Len(u)], version |-> 0]
    BY SlotsAre
  <2>3. (Len(w) + 1) + Len(q) = n + 1
    BY <1>1
  <2>. QED
    BY <2>1, <2>2, <2>3
<1>4. t[i] = e /\ t[i].kind \notin Lists
  BY <1>1, <1>3 DEF Lists
<1>5. ASSUME NEW p \in 1 .. n PROVE s[p] = IF p < i THEN t[p] ELSE t[p + 1]
  <2>1. CASE p \in 1 .. Len(w)
    BY <1>1, <1>3, <2>1, SlotsAre
  <2>2. CASE p \notin 1 .. Len(w)
    <3>1. /\ p \in Len(w) + 1 .. n /\ ~(p < i)
          /\ p + 1 \in (Len(w) + 1) + 1 .. (Len(w) + 1) + Len(q) /\ (p + 1) - (Len(w) + 1) = p - Len(w)
      BY <1>1, <2>2
    <3>2. s[p] = [kind |-> q[p - Len(w)], version |-> 0]
      BY <3>1, SlotsAre
    <3>. QED
      BY <3>1, <3>2, <1>3
  <2>. QED
    BY <2>1, <2>2
<1>6. t \in [1 .. n + 1 -> SlotRecords] /\ n \in Nat /\ i \in 1 .. n + 1
  BY <1>1, <1>3
<1>. HIDE DEF s, t, n, i
<1>7. AsSound(s, t)
  <2>1. Gap(t, s, n, i)
    BY <1>2, <1>5, <1>6 DEF Gap
  <2>. QED
    BY <1>4, <2>1, Inserted
<1>8. ASSUME NEW v, Told(s, v) \/ v <= e.version PROVE Told(t, v)
  <2>1. CASE v <= e.version
    BY <1>1, <1>4, <1>6, <2>1 DEF Told
  <2>2. CASE Told(s, v)
    <3>1. PICK p \in 1 .. n : s[p].kind = "snapshot.invalidated" /\ v <= s[p].version
      BY <1>2, <2>2 DEF Told
    <3>2. PICK r \in 1 .. n + 1 : t[r] = s[p]
      <4>1. p \in 1 .. n + 1 /\ p + 1 \in 1 .. n + 1
        BY <1>1
      <4>. QED
        BY <1>5, <4>1
    <3>. QED
      BY <1>6, <3>1, <3>2 DEF Told
  <2>. QED
    BY <1>8, <2>1, <2>2
<1>. QED
  BY <1>7, <1>8 DEF s, t

\* What a stream is once a message has been received.
LEMMA WireReceives ==
  ASSUME NEW w \in Seq(Messages), NEW q \in Seq(Requests), NEW i \in 1 .. Len(w)
  PROVE  \E n \in Nat :
           /\ RemoveAt(w, i) \in Seq(Messages) /\ Len(RemoveAt(w, i)) = Len(w) - 1
           /\ \A p \in DOMAIN RemoveAt(w, i) : RemoveAt(w, i)[p] = (IF p < i THEN w[p] ELSE w[p + 1])
           /\ \A p \in DOMAIN RemoveAt(w, i) : p + 1 \in DOMAIN w /\ p \in DOMAIN w
           /\ Gap(Slots(w, q), Slots(RemoveAt(w, i), q), n, i)
<1>. DEFINE u == RemoveAt(w, i)
            s == Slots(w, q)
            t == Slots(u, q)
<1>1. /\ u \in Seq(Messages) /\ Len(u) = Len(w) - 1
      /\ \A p \in 1 .. Len(w) - 1 : u[p] = IF p < i THEN w[p] ELSE w[p + 1]
  BY RemoveAtProperties
<1>2. Len(w) \in Nat /\ Len(q) \in Nat /\ DOMAIN w = 1 .. Len(w) /\ DOMAIN u = 1 .. Len(w) - 1
  BY <1>1, LenProperties
<1>3. PICK n \in Nat : Len(w) + Len(q) = n + 1 /\ (Len(w) - 1) + Len(q) = n /\ i \in 1 .. n + 1
  <2>1. (Len(w) - 1) + Len(q) \in Nat /\ Len(w) + Len(q) = (Len(w) - 1) + Len(q) + 1
        /\ i \in 1 .. (Len(w) - 1) + Len(q) + 1
    BY <1>2
  <2>. QED
    BY <2>1
<1>. HIDE DEF u
<1>4. /\ s \in [1 .. Len(w) + Len(q) -> SlotRecords]
      /\ \A p \in 1 .. Len(w) : s[p] = w[p]
      /\ \A p \in Len(w) + 1 .. Len(w) + Len(q) : s[p] = [kind |-> q[p - Len(w)], version |-> 0]
  BY SlotsAre
<1>5. /\ t \in [1 .. Len(u) + Len(q) -> SlotRecords]
      /\ \A p \in 1 .. Len(u) : t[p] = u[p]
      /\ \A p \in Len(u) + 1 .. Len(u) + Len(q) : t[p] = [kind |-> q[p - Len(u)], version |-> 0]
  BY <1>1, SlotsAre
<1>6. ASSUME NEW p \in 1 .. n PROVE t[p] = IF p < i THEN s[p] ELSE s[p + 1]
  <2>1. CASE p \in 1 .. Len(w) - 1
    <3>1. p \in 1 .. Len(w) /\ p + 1 \in 1 .. Len(w)
      BY <1>2, <2>1
    <3>. QED
      BY <1>1, <1>4, <1>5, <2>1, <3>1
  <2>2. CASE p \notin 1 .. Len(w) - 1
    <3>1. /\ p \in Len(u) + 1 .. Len(u) + Len(q) /\ ~(p < i)
          /\ p + 1 \in Len(w) + 1 .. Len(w) + Len(q) /\ (p + 1) - Len(w) = p - Len(u)
      BY <1>1, <1>2, <1>3, <2>2
    <3>2. t[p] = [kind |-> q[p - Len(u)], version |-> 0]
      BY <1>5, <3>1
    <3>3. s[p + 1] = [kind |-> q[(p + 1) - Len(w)], version |-> 0]
      BY <1>4, <3>1
    <3>. QED
      BY <3>1, <3>2, <3>3
  <2>. QED
    BY <2>1, <2>2
<1>7. \A p \in DOMAIN u : p + 1 \in DOMAIN w /\ p \in DOMAIN w
  BY <1>2
<1>8. s \in [1 .. n + 1 -> SlotRecords] /\ t \in [1 .. n -> SlotRecords]
  BY <1>1, <1>3, <1>4, <1>5
<1>9. Gap(s, t, n, i)
  BY <1>3, <1>6, <1>8 DEF Gap
<1>. QED
  BY <1>1, <1>2, <1>7, <1>9 DEF u

\* Of what is not a list, the others take no notice.
LEMMA WireReceivesOther ==
  ASSUME NEW w \in Seq(Messages), NEW q \in Seq(Requests), NEW i \in 1 .. Len(w), w[i].kind \notin Lists
  PROVE  /\ AsSound(Slots(w, q), Slots(RemoveAt(w, i), q))
         /\ \A v : Told(Slots(w, q), v) => v <= w[i].version \/ Told(Slots(RemoveAt(w, i), q), v)
<1>. DEFINE s == Slots(w, q)
            t == Slots(RemoveAt(w, i), q)
<1>0. PICK n \in Nat : Gap(s, t, n, i)
  BY WireReceives
<1>1. /\ i \in 1 .. n + 1 /\ s \in [1 .. n + 1 -> SlotRecords] /\ t \in [1 .. n -> SlotRecords]
      /\ \A p \in 1 .. n : t[p] = IF p < i THEN s[p] ELSE s[p + 1]
  BY <1>0 DEF Gap
<1>2. s[i] = w[i]
  BY SlotsAre
<1>. HIDE DEF s, t
<1>3. AsSound(s, t)
  BY <1>0, <1>2, Removed
<1>4. ASSUME NEW v, Told(s, v), ~(v <= w[i].version) PROVE Told(t, v)
  <2>1. PICK p \in 1 .. n + 1 : s[p].kind = "snapshot.invalidated" /\ v <= s[p].version
    BY <1>1, <1>4 DEF Told
  <2>2. p # i
    BY <1>2, <1>4, <2>1
  <2>3. PICK r \in 1 .. n : t[r] = s[p]
    <3>1. CASE p < i
      <4>1. p \in 1 .. n
        BY <1>1, <3>1
      <4>. QED
        BY <1>1, <3>1, <4>1
    <3>2. CASE p > i
      <4>1. p - 1 \in 1 .. n /\ ~(p - 1 < i) /\ (p - 1) + 1 = p
        BY <1>1, <3>2
      <4>2. t[p - 1] = s[p]
        BY <1>1, <4>1
      <4>. QED
        BY <4>1, <4>2
    <3>. QED
      BY <1>1, <2>2, <3>1, <3>2
  <2>. QED
    BY <1>1, <2>1, <2>3 DEF Told
<1>. QED
  BY <1>3, <1>4 DEF s, t


\* The oldest message of the kinds that a queue takes.
LEMMA FirstIs ==
  ASSUME NEW c \in Client, NEW kinds, wire[c] \in Seq(Messages), \E k \in DOMAIN wire[c] : wire[c][k].kind \in kinds
  PROVE  /\ First(c, kinds) \in 1 .. Len(wire[c])
         /\ Arrived(c, kinds).kind \in kinds /\ Arrived(c, kinds) = wire[c][First(c, kinds)]
         /\ \A i \in 1 .. First(c, kinds) - 1 : wire[c][i].kind \notin kinds
<1>. DEFINE those == {k \in DOMAIN wire[c] : wire[c][k].kind \in kinds}
<1>1. DOMAIN wire[c] = 1 .. Len(wire[c]) /\ Len(wire[c]) \in Nat
  BY LenProperties
<1>2. those \subseteq Nat /\ those # {}
  BY <1>1
<1>3. PICK k \in those : \A i \in those : k <= i
  <2>. HIDE DEF those
  <2>. QED
    BY <1>2, HasLeast
<1>4. ASSUME NEW i \in 1 .. k - 1 PROVE wire[c][i].kind \notin kinds
  <2> SUFFICES ASSUME wire[c][i].kind \in kinds PROVE FALSE
    OBVIOUS
  <2>1. k \in 1 .. Len(wire[c]) /\ k \in Nat
    BY <1>1
  <2>2. i \in those /\ i < k /\ i \in Nat
    BY <1>1, <2>1
  <2>. QED
    BY <1>3, <2>1, <2>2
<1>5. \E k_1 \in DOMAIN wire[c] : wire[c][k_1].kind \in kinds /\ \A i \in 1 .. k_1 - 1 : wire[c][i].kind \notin kinds
  BY <1>3, <1>4
<1>6. /\ First(c, kinds) \in DOMAIN wire[c] /\ wire[c][First(c, kinds)].kind \in kinds
      /\ \A i \in 1 .. First(c, kinds) - 1 : wire[c][i].kind \notin kinds
  BY <1>5 DEF First
<1>. QED
  BY <1>1, <1>6 DEF Arrived

\* A refresh sends its two requests.
LEMMA WireAsks ==
  ASSUME NEW w \in Seq(Messages), NEW q \in Seq(Requests)
  PROVE  /\ q \o <<"workspaces", "tabs">> \in Seq(Requests)
         /\ \A p \in DOMAIN (q \o <<"workspaces", "tabs">>) :
              \/ (q \o <<"workspaces", "tabs">>)[p] \in Lists
              \/ p \in DOMAIN q /\ (q \o <<"workspaces", "tabs">>)[p] = q[p]
         /\ \A rs \in Seq(Refresh), r \in Refresh :
              r.got = None /\ Matched(Slots(w, q), rs)
              => Matched(Slots(w, q \o <<"workspaces", "tabs">>), Append(rs, r))
         /\ \A v : Between(Slots(w, q), v) => Between(Slots(w, q \o <<"workspaces", "tabs">>), v)
         /\ \A got, seen, top :
              Grows(Slots(w, q), got, seen, top) => Grows(Slots(w, q \o <<"workspaces", "tabs">>), got, seen, top)
         /\ \A v : Told(Slots(w, q), v) => Told(Slots(w, q \o <<"workspaces", "tabs">>), v)
<1>. DEFINE two == <<"workspaces", "tabs">>
            s == Slots(w, q)
            t == Slots(w, q \o two)
            n == Len(w) + Len(q)
<1>1. two \in Seq(Requests) /\ Len(two) = 2 /\ two[1] = "workspaces" /\ two[2] = "tabs"
  BY DEF Requests, Lists
<1>. HIDE DEF two
<1>2. PICK u \in Seq(Requests) :
        /\ u = q \o two /\ Len(u) = Len(q) + 2
        /\ \A p \in 1 .. Len(q) + 2 : u[p] = IF p <= Len(q) THEN q[p] ELSE two[p - Len(q)]
  <2>1. /\ q \o two \in Seq(Requests) /\ Len(q \o two) = Len(q) + Len(two)
        /\ \A p \in 1 .. Len(q) + Len(two) : (q \o two)[p] = IF p <= Len(q) THEN q[p] ELSE two[p - Len(q)]
    BY <1>1, ConcatProperties
  <2>2. PICK u \in Seq(Requests) : u = q \o two
    BY <2>1
  <2>. QED
    BY <1>1, <2>1, <2>2
<1>3. Len(w) \in Nat /\ Len(q) \in Nat /\ n \in Nat
  BY LenProperties
<1>4. /\ s \in [1 .. n -> SlotRecords]
      /\ \A p \in 1 .. Len(w) : s[p] = w[p]
      /\ \A p \in Len(w) + 1 .. n : s[p] = [kind |-> q[p - Len(w)], version |-> 0]
  BY SlotsAre
<1>5. /\ t \in [1 .. Len(w) + Len(u) -> SlotRecords]
      /\ \A p \in 1 .. Len(w) : t[p] = w[p]
      /\ \A p \in Len(w) + 1 .. Len(w) + Len(u) : t[p] = [kind |-> u[p - Len(w)], version |-> 0]
  BY <1>2, SlotsAre
<1>6. Len(w) + Len(u) = n + 2
  BY <1>2, <1>3
<1>7. ASSUME NEW p \in 1 .. n PROVE t[p] = s[p]
  <2>1. CASE p \in 1 .. Len(w)
    BY <1>4, <1>5, <2>1
  <2>2. CASE p \notin 1 .. Len(w)
    <3>1. p \in Len(w) + 1 .. n /\ p \in Len(w) + 1 .. Len(w) + Len(u) /\ p - Len(w) \in 1 .. Len(q) + 2 /\ p - Len(w) <= Len(q)
      BY <1>3, <1>6, <2>2
    <3>2. u[p - Len(w)] = q[p - Len(w)]
      BY <1>2, <3>1
    <3>. QED
      BY <1>4, <1>5, <3>1, <3>2
  <2>. QED
    BY <2>1, <2>2
<1>8. t[n + 1] = [kind |-> "workspaces", version |-> 0] /\ t[n + 2] = [kind |-> "tabs", version |-> 0]
  <2>1. /\ n + 1 \in Len(w) + 1 .. Len(w) + Len(u) /\ n + 2 \in Len(w) + 1 .. Len(w) + Len(u)
        /\ (n + 1) - Len(w) = Len(q) + 1 /\ (n + 2) - Len(w) = Len(q) + 2
    BY <1>3, <1>6
  <2>2. u[Len(q) + 1] = two[1] /\ u[Len(q) + 2] = two[2]
    <3>1. /\ Len(q) + 1 \in 1 .. Len(q) + 2 /\ ~(Len(q) + 1 <= Len(q)) /\ (Len(q) + 1) - Len(q) = 1
          /\ Len(q) + 2 \in 1 .. Len(q) + 2 /\ ~(Len(q) + 2 <= Len(q)) /\ (Len(q) + 2) - Len(q) = 2
      BY <1>3
    <3>. QED
      BY <1>2, <3>1
  <2>. QED
    BY <1>1, <1>5, <2>1, <2>2
<1>9. t \in [1 .. n + 2 -> SlotRecords]
  BY <1>5, <1>6
<1>10. /\ q \o two \in Seq(Requests)
       /\ \A p \in DOMAIN (q \o two) : (q \o two)[p] \in Lists \/ (p \in DOMAIN q /\ (q \o two)[p] = q[p])
  <2>1. DOMAIN u = 1 .. Len(q) + 2 /\ DOMAIN q = 1 .. Len(q)
    BY <1>2, LenProperties
  <2>2. ASSUME NEW p \in DOMAIN u PROVE u[p] \in Lists \/ (p \in DOMAIN q /\ u[p] = q[p])
    <3>1. CASE p <= Len(q)
      BY <1>2, <1>3, <2>1, <3>1
    <3>2. CASE ~(p <= Len(q))
      <4>1. p - Len(q) \in {1, 2} /\ u[p] = two[p - Len(q)]
        BY <1>2, <1>3, <2>1, <3>2
      <4>. QED
        BY <1>1, <4>1 DEF Lists
    <3>. QED
      BY <3>1, <3>2
  <2>. QED
    BY <1>2, <2>2
<1>. HIDE DEF s, t, n
<1>11. \A rs \in Seq(Refresh), r \in Refresh : r.got = None /\ Matched(s, rs) => Matched(t, Append(rs, r))
  BY <1>3, <1>4, <1>7, <1>8, <1>9, Asked
<1>12. ASSUME NEW p \in DOMAIN t PROVE (p \in DOMAIN s /\ p \in 1 .. n /\ t[p] = s[p]) \/ (p \in {n + 1, n + 2} /\ t[p].version = 0)
  BY <1>3, <1>4, <1>7, <1>8, <1>9, SMTT(30)
<1>13. DOMAIN s = 1 .. n /\ DOMAIN t = 1 .. n + 2
  BY <1>4, <1>9
<1>14. ASSUME NEW v, Between(s, v) PROVE Between(t, v)
  BY <1>12, <1>14 DEF Between
<1>15. ASSUME NEW got, NEW seen, NEW top, Grows(s, got, seen, top) PROVE Grows(t, got, seen, top)
  <2>1. ASSUME NEW p \in DOMAIN t, NEW r \in DOMAIN t,
               t[p].kind \in Lists, t[r].kind \in Lists, p < r, t[r].version # 0
        PROVE  t[p].version # 0 /\ t[p].version <= t[r].version
    <3>1. r \in 1 .. n /\ p \in 1 .. n
      BY <1>3, <1>12, <1>13, <2>1
    <3>. QED
      BY <1>7, <1>13, <1>15, <2>1, <3>1 DEF Grows
  <2>. QED
    BY <1>14, <1>15, <2>1 DEF Grows
<1>16. ASSUME NEW v, Told(s, v) PROVE Told(t, v)
  <2>1. PICK p \in 1 .. n : s[p].kind = "snapshot.invalidated" /\ v <= s[p].version
    BY <1>13, <1>16 DEF Told
  <2>2. p \in 1 .. n + 2
    BY <1>3
  <2>. QED
    BY <1>7, <1>13, <2>1, <2>2 DEF Told
<1>. QED
  BY <1>10, <1>11, <1>14, <1>15, <1>16 DEF two, s, t

\* The host answers.
LEMMA WireAnswers ==
  ASSUME NEW w \in Seq(Messages), NEW q \in Seq(Requests), q # <<>>, NEW v \in Version \ {0},
         \A p \in DOMAIN w : w[p].kind \in Lists => w[p].version # 0, \A p \in DOMAIN w : w[p].version <= v
  PROVE  LET s == Slots(w, q)
             t == Slots(Append(w, [kind |-> Head(q), version |-> v]), Tail(q))
         IN /\ \A rs \in Seq(Refresh) : (\A k \in 1 .. Len(rs) : rs[k].since <= v) /\ Matched(s, rs) => Matched(t, rs)
            /\ \A x : Between(s, x) /\ x <= v => Between(t, x)
            /\ \A got \in Nat, seen \in View : Grows(s, got, seen, v) => Grows(t, got, seen, v)
            /\ \A x : Told(s, x) => Told(t, x)
<1>. DEFINE e == [kind |-> Head(q), version |-> v]
            s == Slots(w, q)
            t == Slots(Append(w, e), Tail(q))
            n == Len(w) + Len(q)
            i == Len(w) + 1
<1>1. /\ Head(q) \in Requests /\ Head(q) = q[1] /\ Tail(q) \in Seq(Requests)
      /\ Len(Tail(q)) = Len(q) - 1 /\ \A p \in 1 .. Len(Tail(q)) : Tail(q)[p] = q[p + 1]
  BY HeadTailProperties
<1>2. Len(w) \in Nat /\ Len(q) \in Nat /\ Len(q) # 0 /\ n \in Nat /\ i \in 1 .. n
  BY LenProperties, EmptySeq
<1>3. e \in Messages /\ e.kind = q[1] /\ e.version = v
  BY <1>1 DEF Messages
<1>. HIDE DEF e
<1>4. PICK u \in Seq(Messages) :
        u = Append(w, e) /\ Len(u) = Len(w) + 1 /\ u[Len(w) + 1] = e /\ \A p \in 1 .. Len(w) : u[p] = w[p]
  <2>1. /\ Append(w, e) \in Seq(Messages) /\ Len(Append(w, e)) = Len(w) + 1 /\ Append(w, e)[Len(w) + 1] = e
        /\ \A p \in 1 .. Len(w) : Append(w, e)[p] = w[p]
    BY <1>3, AppendProperties
  <2>. QED
    BY <2>1
<1>5. PICK x \in Seq(Requests) : x = Tail(q) /\ Len(x) = Len(q) - 1 /\ \A p \in 1 .. Len(q) - 1 : x[p] = q[p + 1]
  BY <1>1
<1>6. /\ s \in [1 .. n -> SlotRecords]
      /\ \A p \in 1 .. Len(w) : s[p] = w[p]
      /\ \A p \in Len(w) + 1 .. n : s[p] = [kind |-> q[p - Len(w)], version |-> 0]
  BY SlotsAre
<1>7. /\ t \in [1 .. Len(u) + Len(x) -> SlotRecords]
      /\ \A p \in 1 .. Len(u) : t[p] = u[p]
      /\ \A p \in Len(u) + 1 .. Len(u) + Len(x) : t[p] = [kind |-> x[p - Len(u)], version |-> 0]
  <2>1. /\ Slots(u, x) \in [1 .. Len(u) + Len(x) -> SlotRecords]
        /\ \A p \in 1 .. Len(u) : Slots(u, x)[p] = u[p]
        /\ \A p \in Len(u) + 1 .. Len(u) + Len(x) : Slots(u, x)[p] = [kind |-> x[p - Len(u)], version |-> 0]
    BY SlotsAre
  <2>2. t = Slots(u, x)
    BY <1>4, <1>5
  <2>. HIDE DEF t
  <2>. QED
    BY <2>1, <2>2
<1>8. Len(u) + Len(x) = n
  BY <1>2, <1>4, <1>5
<1>9. s[i] = [kind |-> q[1], version |-> 0]
  <2>1. i \in Len(w) + 1 .. n /\ i - Len(w) = 1
    BY <1>2
  <2>. QED
    BY <1>6, <2>1
<1>10. t[i] = e
  <2>1. i \in 1 .. Len(u)
    BY <1>2, <1>4
  <2>. QED
    BY <1>4, <1>7, <2>1
<1>11. ASSUME NEW p \in 1 .. n, p # i PROVE t[p] = s[p] /\ (p < i => s[p] = w[p] /\ p \in DOMAIN w) /\ (i < p => s[p].version = 0)
  <2>1. CASE p < i
    <3>1. p \in 1 .. Len(w) /\ p \in 1 .. Len(u) /\ DOMAIN w = 1 .. Len(w)
      BY <1>2, <1>4, <2>1, LenProperties
    <3>. QED
      BY <1>2, <1>4, <1>6, <1>7, <2>1, <3>1
  <2>2. CASE i < p
    <3>1. /\ p \in Len(w) + 1 .. n /\ p \in Len(u) + 1 .. Len(u) + Len(x) /\ p - Len(u) \in 1 .. Len(q) - 1
          /\ (p - Len(u)) + 1 = p - Len(w)
      BY <1>2, <1>4, <1>8, <2>2
    <3>2. x[p - Len(u)] = q[p - Len(w)]
      BY <1>5, <3>1
    <3>3. s[p] = [kind |-> q[p - Len(w)], version |-> 0]
      BY <1>6, <3>1
    <3>4. t[p] = [kind |-> x[p - Len(u)], version |-> 0]
      BY <1>7, <3>1
    <3>5. ~(p < i)
      BY <1>2, <2>2
    <3>. QED
      BY <3>2, <3>3, <3>4, <3>5
  <2>. QED
    BY <1>2, <1>11, <2>1, <2>2, SMTT(30)
<1>12. t \in [1 .. n -> SlotRecords] /\ v \in Nat \ {0}
  BY <1>7, <1>8 DEF Version
<1>13. \A p \in 1 .. n : p < i /\ s[p].kind \in Lists => s[p].version # 0 /\ s[p].version <= v
  BY <1>11, <1>2
<1>14. (\A p \in 1 .. n : i < p => s[p].version = 0) /\ (\A p \in 1 .. n : p # i => t[p] = s[p])
  BY <1>11, <1>2
<1>15. s[i].version = 0 /\ t[i].kind = s[i].kind /\ t[i].version = v
  BY <1>3, <1>9, <1>10
<1>16. s[i].kind # "snapshot.invalidated"
  BY <1>1, <1>9 DEF Requests, Lists
<1>. HIDE DEF s, t, n, i
<1>17. /\ \A rs \in Seq(Refresh) : (\A k \in 1 .. Len(rs) : rs[k].since <= v) /\ Matched(s, rs) => Matched(t, rs)
       /\ \A y : Between(s, y) /\ y <= v => Between(t, y)
       /\ \A got \in Nat, seen \in View : Grows(s, got, seen, v) => Grows(t, got, seen, v)
  <2>1. Answering(s, t, n, i, v)
    BY <1>2, <1>6, <1>12, <1>13, <1>14, <1>15 DEF Answering
  <2>. QED
    BY <2>1, Answers
<1>18. ASSUME NEW y, Told(s, y) PROVE Told(t, y)
  <2>1. PICK p \in 1 .. n : s[p].kind = "snapshot.invalidated" /\ y <= s[p].version
    BY <1>6, <1>18 DEF Told
  <2>2. t[p] = s[p]
    BY <1>14, <1>16, <2>1
  <2>. QED
    BY <1>12, <2>1, <2>2 DEF Told
<1>. QED
  BY <1>17, <1>18 DEF s, t, e


\* The first list is received: it is the oldest refresh that gets it.
LEMMA WireReceivesList ==
  ASSUME NEW w \in Seq(Messages), NEW q \in Seq(Requests), NEW i \in 1 .. Len(w),
         w[i].kind \in Lists, w[i].version # 0, \A p \in 1 .. i - 1 : w[p].kind \notin Lists,
         NEW rs \in Seq(Refresh), Matched(Slots(w, q), rs),
         NEW top \in Nat, w[i].version <= top,
         NEW got \in Nat, NEW seen \in View, Grows(Slots(w, q), got, seen, top)
  PROVE  LET s == Slots(w, q)
             t == Slots(RemoveAt(w, i), q)
         IN /\ TakenBy(t, w[i], rs) /\ TakenAfter(s, t, w[i], got, seen, top)
            /\ \A v : Told(s, v) => Told(t, v)
<1>. DEFINE s == Slots(w, q)
            t == Slots(RemoveAt(w, i), q)
            none == [kind |-> "snapshot.invalidated", version |-> 0]
            x == [s EXCEPT ![i] = none]
<1>0. PICK n \in Nat : Gap(s, t, n, i)
  BY WireReceives
<1>1. /\ i \in 1 .. n + 1 /\ s \in [1 .. n + 1 -> SlotRecords] /\ t \in [1 .. n -> SlotRecords]
      /\ \A p \in 1 .. n : t[p] = IF p < i THEN s[p] ELSE s[p + 1]
  BY <1>0 DEF Gap
<1>2. s[i] = w[i] /\ \A p \in 1 .. i - 1 : s[p].kind \notin Lists
  <2>1. \A p \in 1 .. Len(w) : s[p] = w[p]
    BY SlotsAre
  <2>2. Len(w) \in Nat
    BY SlotsAre
  <2>3. \A p \in 1 .. i - 1 : p \in 1 .. Len(w)
    BY <2>2
  <2>. QED
    BY <2>1, <2>3
<1>. HIDE DEF s, t
<1>3. none \in SlotRecords
  BY DEF SlotRecords
<1>4. /\ x \in [1 .. n + 1 -> SlotRecords] /\ x[i] = none /\ x[i].kind \notin Lists
      /\ \A p \in 1 .. n + 1 : p # i => x[p] = s[p]
  BY <1>1, <1>3 DEF Lists
<1>. HIDE DEF x
<1>6. PICK m : m = n + 1 /\ Takes(s, x, m, i)
  BY <1>1, <1>2, <1>4 DEF Takes
<1>8. TakenBy(x, w[i], rs) /\ TakenAfter(s, x, w[i], got, seen, top)
  <2>1. Matched(s, rs) /\ Grows(s, got, seen, top)
    BY DEF s
  <2>2. TakenBy(x, s[i], rs)
    BY <1>6, <2>1, Taken
  <2>3. TakenAfter(s, x, s[i], got, seen, top)
    BY <1>2, <1>6, <2>1, TakenGrows
  <2>. QED
    BY <1>2, <2>2, <2>3
<1>10. \A p \in 1 .. n : t[p] = IF p < i THEN x[p] ELSE x[p + 1]
  <2> SUFFICES ASSUME NEW p \in 1 .. n PROVE t[p] = IF p < i THEN x[p] ELSE x[p + 1]
    OBVIOUS
  <2>1. p \in 1 .. n + 1 /\ p + 1 \in 1 .. n + 1 /\ (p < i => p # i) /\ (~(p < i) => p + 1 # i)
    BY <1>1
  <2>. QED
    BY <1>1, <1>4, <2>1
<1>11. AsSound(x, t)
  <2>1. Gap(x, t, n, i)
    BY <1>1, <1>4, <1>10 DEF Gap
  <2>. QED
    BY <1>4, <2>1, Removed
<1>12. ASSUME NEW v, Told(s, v) PROVE Told(t, v)
  <2>1. PICK p \in 1 .. n + 1 : s[p].kind = "snapshot.invalidated" /\ v <= s[p].version
    BY <1>1, <1>12 DEF Told
  <2>2. p # i
    BY <1>2, <2>1 DEF Lists
  <2>3. PICK r \in 1 .. n : t[r] = s[p]
    <3>1. CASE p < i
      <4>1. p \in 1 .. n
        BY <1>1, <3>1
      <4>. QED
        BY <1>1, <3>1, <4>1
    <3>2. CASE p > i
      <4>1. p - 1 \in 1 .. n /\ ~(p - 1 < i) /\ (p - 1) + 1 = p
        BY <1>1, <3>2
      <4>2. t[p - 1] = s[p]
        BY <1>1, <4>1
      <4>. QED
        BY <4>1, <4>2
    <3>. QED
      BY <1>1, <2>2, <3>1, <3>2
  <2>. QED
    BY <1>1, <2>1, <2>3 DEF Told
<1>13. \A us \in Seq(Refresh) : Matched(x, us) => Matched(t, us)
  BY <1>11 DEF AsSound
<1>14. (\A v : Between(x, v) => Between(t, v)) /\ \A to : \A g : Grows(x, g, to, top) => Grows(t, g, to, top)
  BY <1>11 DEF AsSound
<1>. HIDE DEF none
<1>15. TakenBy(t, w[i], rs)
  BY <1>8, <1>13 DEF TakenBy
<1>16. TakenAfter(s, t, w[i], got, seen, top)
  BY <1>8, <1>14 DEF TakenAfter
<1>. QED
  BY <1>12, <1>15, <1>16 DEF s, t


-----------------------------------------------------------------------------
(* The steps                                                               *)

\* What the invariant says of one client.
LEMMA SyncFacts ==
  ASSUME SyncInv, NEW c \in Client
  PROVE  /\ state \in Nat \ {0} /\ state \in Version /\ version \in Nat
         /\ Announced \in Nat /\ Announced <= state
         /\ wire[c] \in Seq(Messages) /\ requests[c] \in Seq(Requests) /\ refreshes[c] \in Seq(Refresh)
         /\ channel[c] \in Seq(Version) /\ view[c] \in View /\ gave_up[c] \in BOOLEAN
         /\ greeting[c] \in Version /\ joined[c] \in Version /\ Got(refreshes[c]) \in Nat
         /\ session[c] \in {"none", "connected", "hello", "authenticated", "subscribed"}
         /\ link[c] \in {"idle", "connecting", "ready", "lost", "error"}
         /\ \A l \in Lists : view[c][l] \in Nat /\ view[c][l] <= state
         /\ ClientSound(c)
<1>1. /\ state \in Nat \ {0} /\ state \in Version /\ version \in Nat /\ Announced \in Nat /\ Announced <= state
  BY BoundAssumption DEF SyncInv, SyncTypes, Announced, Version
<1>2. /\ wire[c] \in Seq(Messages) /\ requests[c] \in Seq(Requests) /\ refreshes[c] \in Seq(Refresh)
      /\ channel[c] \in Seq(Version) /\ view[c] \in View /\ gave_up[c] \in BOOLEAN
      /\ greeting[c] \in Version /\ joined[c] \in Version
      /\ session[c] \in {"none", "connected", "hello", "authenticated", "subscribed"}
      /\ link[c] \in {"idle", "connecting", "ready", "lost", "error"}
  BY DEF SyncInv, SyncTypes
<1>3. Got(refreshes[c]) \in Nat
  <2>1. CASE refreshes[c] = <<>>
    BY <2>1 DEF Got
  <2>2. CASE refreshes[c] # <<>>
    <3>1. 1 \in 1 .. Len(refreshes[c])
      BY <1>2, <2>2, EmptySeq, LenProperties
    <3>2. refreshes[c][1] \in Refresh
      BY <1>2, <3>1, ElementOfSeq
    <3>. QED
      BY <2>2, <3>2 DEF Got, Refresh, View, Lists, Version
  <2>. QED
    BY <2>1, <2>2
<1>4. ClientSound(c)
  BY DEF SyncInv
<1>5. \A l \in Lists : view[c][l] \in Nat /\ view[c][l] <= state
  BY <1>2, <1>4 DEF ClientSound, ListsSound, Grows, View, Version
<1>. QED
  BY <1>1, <1>2, <1>3, <1>4, <1>5

\* A step of one client and its session leaves the others alone.
LEMMA OthersKeep ==
  ASSUME SyncInv, NEW c \in Client, UNCHANGED host, SyncTypes', ClientSound(c)',
         \A d \in Client \ {c} :
           /\ session'[d] = session[d] /\ greeting'[d] = greeting[d] /\ joined'[d] = joined[d]
           /\ channel'[d] = channel[d] /\ requests'[d] = requests[d] /\ wire'[d] = wire[d]
           /\ link'[d] = link[d] /\ view'[d] = view[d]
           /\ refreshes'[d] = refreshes[d] /\ gave_up'[d] = gave_up[d]
  PROVE  SyncInv'
<1>1. ASSUME NEW d \in Client \ {c} PROVE ClientSound(d)'
  <2>1. ClientSound(d) /\ Announced' = Announced /\ state' = state
    BY DEF SyncInv, Announced, host
  <2>. QED
    BY <2>1 DEF ClientSound, LinkSound, NoneAhead, ListsSound, FailureKnown, Hears, Mine
<1>. QED
  BY <1>1 DEF SyncInv

\* What the host has grows.
LEMMA GrowsOn ==
  ASSUME NEW s, NEW got \in Nat, NEW seen \in View, NEW top \in Nat, NEW to \in Nat, top <= to,
         Grows(s, got, seen, top)
  PROVE  Grows(s, got, seen, to)
<1>1. \A l \in Lists : seen[l] \in Nat
  BY DEF View, Version
<1>. QED
  BY <1>1 DEF Grows

\* A receiver's channel holds what is announced to it, whatever else it loses.
LEMMA LaggingKeepsLast ==
  ASSUME NEW s \in Seq(Version), NEW v \in Version
  PROVE  /\ Lagging(Append(s, v)) \in Seq(Version)
         /\ \E i \in DOMAIN Lagging(Append(s, v)) : Lagging(Append(s, v))[i] = v
         /\ \A i \in DOMAIN Lagging(Append(s, v)) :
              \/ Lagging(Append(s, v))[i] = v
              \/ \E j \in DOMAIN s : Lagging(Append(s, v))[i] = s[j]
<1>1. /\ Append(s, v) \in Seq(Version) /\ Append(s, v) # <<>> /\ Len(Append(s, v)) = Len(s) + 1
      /\ Append(s, v)[Len(s) + 1] = v /\ \A i \in 1 .. Len(s) : Append(s, v)[i] = s[i]
      /\ Len(s) \in Nat /\ DOMAIN s = 1 .. Len(s)
  BY AppendProperties, LenProperties
<1>2. PICK u \in Seq(Version) : u = Append(s, v) /\ u # <<>> /\ Len(u) = Len(s) + 1
                                /\ u[Len(s) + 1] = v /\ \A i \in 1 .. Len(s) : u[i] = s[i]
  BY <1>1
<1>3. CASE Len(u) > Capacity
  <2>1. PICK x : x = Tail(u) /\ x \in Seq(Version) /\ Len(x) = Len(s) /\ \A i \in 1 .. Len(s) : x[i] = u[i + 1]
    <3>1. Tail(u) \in Seq(Version) /\ Len(Tail(u)) = Len(u) - 1 /\ \A i \in 1 .. Len(Tail(u)) : Tail(u)[i] = u[i + 1]
      BY <1>2, HeadTailProperties
    <3>2. Len(u) - 1 = Len(s)
      BY <1>1, <1>2
    <3>. QED
      BY <3>1, <3>2
  <2>2. Len(s) # 0
    BY <1>1, <1>2, <1>3, BoundAssumption
  <2>3. DOMAIN x = 1 .. Len(s) /\ Len(s) \in 1 .. Len(s) /\ x[Len(s)] = v
    BY <1>1, <1>2, <2>1, <2>2
  <2>4. ASSUME NEW i \in 1 .. Len(s) PROVE x[i] = v \/ \E j \in DOMAIN s : x[i] = s[j]
    <3>1. i + 1 = Len(s) + 1 \/ i + 1 \in 1 .. Len(s)
      BY <1>1
    <3>. QED
      BY <1>1, <1>2, <2>1, <3>1
  <2>. QED
    BY <1>2, <1>3, <2>1, <2>3, <2>4 DEF Lagging
<1>4. CASE ~(Len(u) > Capacity)
  <2>1. DOMAIN u = 1 .. Len(s) + 1 /\ Len(s) + 1 \in DOMAIN u
    BY <1>1, <1>2, LenProperties
  <2>2. ASSUME NEW i \in DOMAIN u PROVE u[i] = v \/ \E j \in DOMAIN s : u[i] = s[j]
    <3>1. i = Len(s) + 1 \/ i \in 1 .. Len(s)
      BY <1>1, <2>1
    <3>. QED
      BY <1>1, <1>2, <3>1
  <2>. QED
    BY <1>2, <1>4, <2>1, <2>2 DEF Lagging
<1>. QED
  BY <1>3, <1>4

\* The snapshot changes: nobody has been told, and nothing is written yet.
LEMMA PushStartsKeeps == SyncInv /\ PushStarts => SyncInv'
<1> SUFFICES ASSUME SyncInv, PushStarts PROVE SyncInv'
  OBVIOUS
<1>. USE DEF PushStarts, loop, app
<1>1. SyncTypes' /\ Announced' = Announced
  BY BoundAssumption DEF SyncInv, SyncTypes, Announced, Version
<1>2. ASSUME NEW c \in Client PROVE ClientSound(c)'
  <2>1. ClientSound(c)
    BY DEF SyncInv
  <2>. QED
    BY <1>1, <2>1 DEF ClientSound, LinkSound, NoneAhead, ListsSound, FailureKnown, Hears, Mine
<1>. QED
  BY <1>1, <1>2 DEF SyncInv

\* It is written: what is behind it still is.
LEMMA PushWritesKeeps == SyncInv /\ PushWrites => SyncInv'
<1> SUFFICES ASSUME SyncInv, PushWrites PROVE SyncInv'
  OBVIOUS
<1>. USE DEF PushWrites, loop, app
<1>1. todo = {"write", "notify"} /\ todo' = {"notify"}
  BY DEF SyncInv, SyncTypes
<1>2. SyncTypes' /\ Announced' = Announced /\ state' \in Nat /\ state <= state'
  BY <1>1, BoundAssumption DEF SyncInv, SyncTypes, Announced, Version
<1>3. ASSUME NEW c \in Client PROVE ClientSound(c)'
  <2>1. ClientSound(c)
    BY DEF SyncInv
  <2>2. LinkSound(c)' /\ FailureKnown(c)' /\ Hears(c)'
    BY <1>2, <2>1 DEF ClientSound, LinkSound, FailureKnown, Hears, Mine
  <2>3. NoneAhead(c)'
    <3>1. /\ greeting[c] \in Nat /\ state \in Nat
          /\ \A i \in DOMAIN channel[c] : channel[c][i] \in Nat
          /\ \A p \in DOMAIN wire[c] : wire[c][p].version \in Nat
          /\ \A k \in 1 .. Len(refreshes[c]) : refreshes[c][k].since \in Nat
      <4>1. \A i \in DOMAIN channel[c] : channel[c][i] \in Version
        BY SyncFacts, LenProperties, ElementOfSeq
      <4>2. \A p \in DOMAIN wire[c] : wire[c][p] \in Messages
        BY SyncFacts, LenProperties, ElementOfSeq
      <4>3. \A k \in 1 .. Len(refreshes[c]) : refreshes[c][k] \in Refresh
        BY SyncFacts, ElementOfSeq
      <4>. QED
        BY SyncFacts, <4>1, <4>2, <4>3 DEF Messages, Refresh, Version
    <3>. QED
      BY <1>2, <2>1, <3>1 DEF ClientSound, NoneAhead
  <2>4. ListsSound(c)'
    <3>1. Matched(Mine(c), refreshes[c]) /\ Grows(Mine(c), Got(refreshes[c]), view[c], state)
      BY <2>1 DEF ClientSound, ListsSound
    <3>2. Grows(Mine(c), Got(refreshes[c]), view[c], state')
      BY <1>2, <3>1, SyncFacts, GrowsOn
    <3>. QED
      BY <3>1, <3>2 DEF ListsSound, Mine
  <2>. QED
    BY <2>2, <2>3, <2>4 DEF ClientSound
<1>. QED
  BY <1>2, <1>3 DEF SyncInv

\* Every subscriber is told.
LEMMA PushNotifiesKeeps == SyncInv /\ PushNotifies => SyncInv'
<1> SUFFICES ASSUME SyncInv, PushNotifies PROVE SyncInv'
  OBVIOUS
<1>. USE DEF PushNotifies, Broadcasts, app
<1>1. todo = {"notify"} /\ todo' = {} /\ state = version /\ version \in Version /\ state' = state /\ Announced' = version
  BY DEF SyncInv, SyncTypes, Announced
<1>2. ASSUME NEW c \in Client
      PROVE  /\ channel'[c] \in Seq(Version)
             /\ session[c] = "subscribed" => \E i \in DOMAIN channel'[c] : channel'[c][i] = version
             /\ \A i \in DOMAIN channel'[c] : channel'[c][i] <= state
  <2>1. channel[c] \in Seq(Version) /\ \A i \in DOMAIN channel[c] : channel[c][i] <= state
    BY SyncFacts DEF ClientSound, NoneAhead
  <2>2. CASE session[c] = "subscribed"
    <3>1. PICK u : u = Lagging(Append(channel[c], version)) /\ u = channel'[c]
      BY <2>2
    <3>2. /\ u \in Seq(Version) /\ \E i \in DOMAIN u : u[i] = version
          /\ \A i \in DOMAIN u : u[i] = version \/ \E j \in DOMAIN channel[c] : u[i] = channel[c][j]
      <4>1. version \in Version /\ channel[c] \in Seq(Version)
        BY <1>1, <2>1
      <4>. DEFINE x == Lagging(Append(channel[c], version))
      <4>2. /\ x \in Seq(Version) /\ \E i \in DOMAIN x : x[i] = version
            /\ \A i \in DOMAIN x : x[i] = version \/ \E j \in DOMAIN channel[c] : x[i] = channel[c][j]
        BY <4>1, LaggingKeepsLast
      <4>. QED
        BY <3>1, <4>2
    <3>3. version <= state
      BY <1>1 DEF Version
    <3>. QED
      BY <2>1, <3>1, <3>2, <3>3
  <2>3. CASE session[c] # "subscribed"
    BY <2>1, <2>3
  <2>. QED
    BY <2>2, <2>3
<1>3. SyncTypes'
  <2>1. channel' \in [Client -> Seq(Version)]
    <3>1. channel' = [c \in Client |-> channel'[c]]
      OBVIOUS
    <3>. QED
      BY <1>2, <3>1
  <2>. QED
    BY <1>1, <2>1 DEF SyncInv, SyncTypes
<1>4. ASSUME NEW c \in Client PROVE ClientSound(c)'
  <2>1. ClientSound(c)
    BY DEF SyncInv
  <2>2. LinkSound(c)' /\ FailureKnown(c)' /\ ListsSound(c)'
    BY <1>1, <2>1 DEF ClientSound, LinkSound, FailureKnown, ListsSound, Mine
  <2>3. NoneAhead(c)'
    <3>1. NoneAhead(c) /\ UNCHANGED <<greeting, wire, refreshes, state>>
      BY <1>1, <2>1 DEF ClientSound
    <3>2. \A i \in DOMAIN channel'[c] : channel'[c][i] <= state
      BY <1>2
    <3>. QED
      BY <3>1, <3>2 DEF NoneAhead
  <2>4. Hears(c)'
    <3>1. version <= version
      BY <1>1 DEF Version
    <3>. QED
      BY <1>1, <1>2, <3>1 DEF Hears
  <2>. QED
    BY <2>2, <2>3, <2>4 DEF ClientSound
<1>. QED
  BY <1>3, <1>4 DEF SyncInv


\* Lists are neither asked for nor on the wire before the session is ready.
LEMMA NoListsYet ==
  ASSUME NEW w \in Seq(Messages), NEW q \in Seq(Requests), NEW seen \in View, NEW top,
         \A p \in DOMAIN w : w[p].kind \in {"session.hello", "snapshot.invalidated"},
         q = <<>> \/ q = <<"session.hello">>, \A l \in Lists : seen[l] <= top
  PROVE  Matched(Slots(w, q), <<>>) /\ Grows(Slots(w, q), Got(<<>>), seen, top)
<1>1. \A p \in DOMAIN w : w[p].kind \notin Lists
  BY DEF Lists
<1>2. \A p \in DOMAIN q : q[p] \notin Lists
  BY DEF Lists
<1>. QED
  BY <1>1, <1>2, NoLists

\* Nor is anything there without a connection.
LEMMA NothingThere ==
  ASSUME NEW seen \in View, NEW top, \A l \in Lists : seen[l] <= top
  PROVE  Matched(Slots(<<>>, <<>>), <<>>) /\ Grows(Slots(<<>>, <<>>), Got(<<>>), seen, top)
<1>1. <<>> \in Seq(Messages) /\ <<>> \in Seq(Requests)
  BY EmptySeq
<1>2. PICK w \in Seq(Messages) : w = <<>> /\ \A p \in DOMAIN w : w[p].kind \in {"session.hello", "snapshot.invalidated"}
  <2>1. DOMAIN <<>> = {}
    OBVIOUS
  <2>2. \A p \in DOMAIN <<>> : <<>>[p].kind \in {"session.hello", "snapshot.invalidated"}
    BY <2>1
  <2>. QED
    BY <1>1, <2>2
<1>3. PICK q \in Seq(Requests) : q = <<>> /\ (q = <<>> \/ q = <<"session.hello">>)
  BY <1>1
<1>4. Matched(Slots(w, q), <<>>) /\ Grows(Slots(w, q), Got(<<>>), seen, top)
  BY <1>2, <1>3, NoListsYet
<1>. QED
  BY <1>2, <1>3, <1>4

\* Hello is the first request, and alone on its stream.
LEMMA HelloReadsKeeps ==
  ASSUME SyncInv, NEW c \in Client, HelloReads(c)
  PROVE  SyncInv'
<1>. USE DEF HelloReads, host, app
<1>1. link[c] = "connecting" /\ requests[c] = <<"session.hello">> /\ wire[c] = <<>> /\ refreshes[c] = <<>>
  BY SyncFacts DEF ClientSound, LinkSound
<1>2. /\ session'[c] = "hello" /\ greeting'[c] = state /\ requests'[c] = <<>>
      /\ session' \in [Client -> {"none", "connected", "hello", "authenticated", "subscribed"}]
      /\ greeting' \in [Client -> Version] /\ requests' \in [Client -> Seq(Requests)]
  BY <1>1, SyncFacts DEF SyncInv, SyncTypes
<1>3. SyncTypes'
  BY <1>2 DEF SyncInv, SyncTypes
<1>4. ClientSound(c)'
  <2>1. LinkSound(c)' /\ FailureKnown(c)' /\ Hears(c)'
    BY <1>1, <1>2, SyncFacts DEF ClientSound, LinkSound, FailureKnown, Hears
  <2>2. NoneAhead(c)'
    BY <1>2, SyncFacts DEF ClientSound, NoneAhead
  <2>3. ListsSound(c)'
    <3>1. wire[c] \in Seq(Messages) /\ <<>> \in Seq(Requests) /\ view[c] \in View /\ \A l \in Lists : view[c][l] <= state
      BY SyncFacts
    <3>2. Matched(Slots(wire[c], <<>>), <<>>) /\ Grows(Slots(wire[c], <<>>), Got(<<>>), view[c], state)
      <4>1. \A p \in DOMAIN wire[c] : wire[c][p].kind \in {"session.hello", "snapshot.invalidated"}
        BY <1>1
      <4>2. <<>> = <<>> \/ <<>> = <<"session.hello">>
        OBVIOUS
      <4>. QED
        BY <3>1, <4>1, <4>2, NoListsYet
    <3>. QED
      BY <1>1, <1>2, <3>2 DEF ListsSound, Mine
  <2>. QED
    BY <2>1, <2>2, <2>3 DEF ClientSound
<1>. QED
  BY <1>3, <1>4, OthersKeep DEF SyncInv, SyncTypes

\* Its answer is the first thing on the wire.
LEMMA HelloAnswersKeeps ==
  ASSUME SyncInv, NEW c \in Client, HelloAnswers(c)
  PROVE  SyncInv'
<1>. USE DEF HelloAnswers, Write, host, app
<1>1. link[c] = "connecting" /\ requests[c] = <<>> /\ wire[c] = <<>> /\ refreshes[c] = <<>>
  BY SyncFacts DEF ClientSound, LinkSound
<1>. DEFINE e == [kind |-> "session.hello", version |-> greeting[c]]
<1>2. e \in Messages /\ Append(<<>>, e) = <<e>> /\ <<e>> \in Seq(Messages) /\ DOMAIN <<e>> = {1} /\ <<e>>[1] = e
  BY SyncFacts DEF Messages, Requests
<1>3. /\ session'[c] = "authenticated" /\ wire'[c] = <<e>>
      /\ session' \in [Client -> {"none", "connected", "hello", "authenticated", "subscribed"}]
      /\ wire' \in [Client -> Seq(Messages)]
  BY <1>1, <1>2 DEF SyncInv, SyncTypes
<1>4. SyncTypes'
  BY <1>3 DEF SyncInv, SyncTypes
<1>5. ClientSound(c)'
  <2>1. LinkSound(c)' /\ FailureKnown(c)' /\ Hears(c)'
    BY <1>1, <1>2, <1>3, SyncFacts DEF ClientSound, LinkSound, FailureKnown, Hears
  <2>2. NoneAhead(c)'
    BY <1>2, <1>3, SyncFacts DEF ClientSound, NoneAhead
  <2>3. ListsSound(c)'
    <3>1. <<>> \in Seq(Requests) /\ view[c] \in View /\ \A l \in Lists : view[c][l] <= state
      BY SyncFacts
    <3>2. Matched(Slots(<<e>>, <<>>), <<>>) /\ Grows(Slots(<<e>>, <<>>), Got(<<>>), view[c], state)
      <4>1. \A p \in DOMAIN <<e>> : <<e>>[p].kind \in {"session.hello", "snapshot.invalidated"}
        BY <1>2
      <4>2. PICK w : w = <<e>> /\ w \in Seq(Messages)
        BY <1>2
      <4>. HIDE DEF e
      <4>. QED
        BY <3>1, <4>1, <4>2, NoListsYet
    <3>. QED
      BY <1>1, <1>3, <3>2 DEF ListsSound, Mine
  <2>. QED
    BY <2>1, <2>2, <2>3 DEF ClientSound
<1>. QED
  BY <1>4, <1>5, OthersKeep DEF SyncInv, SyncTypes

\* A session subscribes to what is announced from then on.
LEMMA SubscribesKeeps ==
  ASSUME SyncInv, NEW c \in Client, Subscribes(c)
  PROVE  SyncInv'
<1>. USE DEF Subscribes, host, app
<1>1. /\ session'[c] = "subscribed" /\ joined'[c] = Announced /\ Announced' = Announced
      /\ session' \in [Client -> {"none", "connected", "hello", "authenticated", "subscribed"}]
  BY DEF SyncInv, SyncTypes, Announced
<1>2. Announced \in Version
  <2>1. Announced \in Nat /\ Announced <= state /\ state \in Version
    BY SyncFacts
  <2>. QED
    BY <2>1, BoundAssumption DEF Version
<1>3. SyncTypes'
  BY <1>1, <1>2 DEF SyncInv, SyncTypes
<1>4. ClientSound(c)'
  <2>1. LinkSound(c)' /\ FailureKnown(c)' /\ Hears(c)'
    BY <1>1, SyncFacts DEF ClientSound, LinkSound, FailureKnown, Hears
  <2>2. NoneAhead(c)' /\ ListsSound(c)'
    BY <1>1, SyncFacts DEF ClientSound, NoneAhead, ListsSound, Mine
  <2>. QED
    BY <2>1, <2>2 DEF ClientSound
<1>. QED
  BY <1>3, <1>4, OthersKeep DEF SyncInv, SyncTypes

\* A list goes out with the state as it is.
LEMMA ServesKeeps ==
  ASSUME SyncInv, NEW c \in Client, Serves(c)
  PROVE  SyncInv'
<1>. USE DEF Serves, Write, host, loop, app
<1>. DEFINE q == requests[c]
            w == wire[c]
            e == [kind |-> Head(q), version |-> state]
            s == Slots(w, q)
            t == Slots(Append(w, e), Tail(q))
<1>1. link[c] = "ready" /\ session[c] = "subscribed" /\ q # <<>>
  BY SyncFacts DEF ClientSound, LinkSound
<1>2. /\ w \in Seq(Messages) /\ q \in Seq(Requests) /\ state \in Version \ {0} /\ view[c] \in View
      /\ refreshes[c] \in Seq(Refresh) /\ Got(refreshes[c]) \in Nat /\ Announced <= state /\ ClientSound(c)
  BY SyncFacts
<1>3. /\ Head(q) \in Requests /\ Head(q) = q[1] /\ 1 \in DOMAIN q /\ Tail(q) \in Seq(Requests)
      /\ \A p \in DOMAIN Tail(q) : \E r \in DOMAIN q : Tail(q)[p] = q[r]
  <2>1. /\ Head(q) \in Requests /\ Tail(q) \in Seq(Requests) /\ Len(Tail(q)) = Len(q) - 1
        /\ \A p \in 1 .. Len(Tail(q)) : Tail(q)[p] = q[p + 1]
    BY <1>1, <1>2, HeadTailProperties
  <2>2. /\ Len(q) \in Nat /\ Len(q) # 0 /\ DOMAIN q = 1 .. Len(q) /\ DOMAIN Tail(q) = 1 .. Len(q) - 1
        /\ Head(q) = q[1]
    BY <1>1, <1>2, <2>1, EmptySeq, LenProperties
  <2>3. \A p \in DOMAIN Tail(q) : p + 1 \in DOMAIN q /\ Tail(q)[p] = q[p + 1]
    BY <2>1, <2>2
  <2>. QED
    BY <2>1, <2>2, <2>3
<1>4. e \in Messages /\ e.kind \in Lists /\ e.version = state
  BY <1>1, <1>2, <1>3 DEF ClientSound, LinkSound, Messages
<1>. HIDE DEF e
<1>5. /\ Append(w, e) \in Seq(Messages)
      /\ \A p \in DOMAIN Append(w, e) : Append(w, e)[p] = e \/ \E r \in DOMAIN w : Append(w, e)[p] = w[r]
  <2>1. /\ Append(w, e) \in Seq(Messages) /\ Len(Append(w, e)) = Len(w) + 1 /\ Append(w, e)[Len(w) + 1] = e
        /\ \A p \in 1 .. Len(w) : Append(w, e)[p] = w[p]
    BY <1>2, <1>4, AppendProperties
  <2>2. Len(w) \in Nat /\ DOMAIN w = 1 .. Len(w) /\ DOMAIN Append(w, e) = 1 .. Len(w) + 1
    BY <1>2, <2>1, LenProperties
  <2>. QED
    BY <2>1, <2>2
<1>6. requests'[c] = Tail(q) /\ wire'[c] = Append(w, e)
  BY DEF SyncInv, SyncTypes, e
<1>7. SyncTypes'
  <2>1. requests' \in [Client -> Seq(Requests)] /\ wire' \in [Client -> Seq(Messages)]
    BY <1>3, <1>5 DEF SyncInv, SyncTypes, e
  <2>. QED
    BY <2>1 DEF SyncInv, SyncTypes
<1>8. ClientSound(c)'
  <2>1. LinkSound(c)'
    <3>1. \A p \in DOMAIN Tail(q) : Tail(q)[p] \in Lists
      BY <1>1, <1>2, <1>3 DEF ClientSound, LinkSound
    <3>2. \A p \in DOMAIN Append(w, e) :
            /\ Append(w, e)[p].kind # "session.hello"
            /\ Append(w, e)[p].kind \in Lists => Append(w, e)[p].version # 0
      BY <1>1, <1>2, <1>4, <1>5 DEF ClientSound, LinkSound, Lists
    <3>. QED
      BY <1>1, <1>2, <1>6, <3>1, <3>2 DEF ClientSound, LinkSound
  <2>2. NoneAhead(c)'
    <3>1. state <= state
      BY <1>2 DEF Version
    <3>2. \A p \in DOMAIN Append(w, e) : Append(w, e)[p].version <= state
      BY <1>2, <1>4, <1>5, <3>1 DEF ClientSound, NoneAhead
    <3>. QED
      BY <1>2, <1>6, <3>2 DEF ClientSound, NoneAhead
  <2>3. /\ \A rs \in Seq(Refresh) : (\A k \in 1 .. Len(rs) : rs[k].since <= state) /\ Matched(s, rs) => Matched(t, rs)
        /\ \A x : Between(s, x) /\ x <= state => Between(t, x)
        /\ \A got \in Nat, seen \in View : Grows(s, got, seen, state) => Grows(t, got, seen, state)
        /\ \A x : Told(s, x) => Told(t, x)
    <3>1. (\A p \in DOMAIN w : w[p].kind \in Lists => w[p].version # 0) /\ \A p \in DOMAIN w : w[p].version <= state
      BY <1>1, <1>2 DEF ClientSound, LinkSound, NoneAhead
    <3>. QED
      BY <1>1, <1>2, <3>1, WireAnswers DEF e
  <2>. HIDE DEF s, t
  <2>4. Mine(c) = s /\ Mine(c)' = t
    BY <1>6 DEF Mine, s, t
  <2>5. ListsSound(c)'
    <3>1. \A k \in 1 .. Len(refreshes[c]) : refreshes[c][k].since <= state
      BY <1>2 DEF ClientSound, NoneAhead
    <3>. QED
      BY <1>2, <2>3, <2>4, <3>1 DEF ClientSound, ListsSound
  <2>6. Hears(c)'
    <3>1. Announced' = Announced
      BY DEF Announced
    <3>2. ASSUME Knows(s, refreshes[c], view[c], link[c] = "ready", gave_up[c], Announced)
          PROVE  Knows(t, refreshes[c], view[c], link[c] = "ready", gave_up[c], Announced)
      BY <1>2, <2>3, <3>2 DEF Knows
    <3>. QED
      BY <1>2, <2>4, <3>1, <3>2 DEF ClientSound, Hears
  <2>7. FailureKnown(c)'
    BY <1>2 DEF ClientSound, FailureKnown
  <2>. QED
    BY <2>1, <2>2, <2>5, <2>6, <2>7 DEF ClientSound
<1>. HIDE DEF q, w
<1>. QED
  BY <1>7, <1>8, OthersKeep DEF SyncInv, SyncTypes


\* What a client is told of survives what the stream goes through.
LEMMA KnowsStays ==
  ASSUME NEW s, NEW t, NEW rs, NEW seen, NEW ready, NEW failed, NEW v,
         Told(s, v) => Told(t, v), Between(s, v) => Between(t, v), Knows(s, rs, seen, ready, failed, v)
  PROVE  Knows(t, rs, seen, ready, failed, v)
BY DEF Knows

\* A notification goes from the channel to the wire.
LEMMA ForwardsKeeps ==
  ASSUME SyncInv, NEW c \in Client, Forwards(c)
  PROVE  SyncInv'
<1>. USE DEF Forwards, Write, host, app
<1>. DEFINE ch == channel[c]
            q == requests[c]
            w == wire[c]
            e == [kind |-> "snapshot.invalidated", version |-> Head(ch)]
            s == Slots(w, q)
            t == Slots(Append(w, e), q)
<1>1. /\ w \in Seq(Messages) /\ q \in Seq(Requests) /\ ch \in Seq(Version) /\ ch # <<>>
      /\ refreshes[c] \in Seq(Refresh) /\ ClientSound(c)
  BY SyncFacts
<1>2. link[c] \in {"connecting", "ready"} /\ session[c] = "subscribed"
  BY <1>1, SyncFacts DEF ClientSound, LinkSound
<1>3. /\ Head(ch) \in Version /\ Head(ch) <= state /\ Tail(ch) \in Seq(Version)
      /\ \A i \in DOMAIN ch : ch[i] = Head(ch) \/ \E j \in DOMAIN Tail(ch) : ch[i] = Tail(ch)[j]
      /\ \A j \in DOMAIN Tail(ch) : \E i \in DOMAIN ch : Tail(ch)[j] = ch[i]
  <2>1. /\ Head(ch) \in Version /\ Tail(ch) \in Seq(Version) /\ Len(Tail(ch)) = Len(ch) - 1
        /\ \A p \in 1 .. Len(Tail(ch)) : Tail(ch)[p] = ch[p + 1]
    BY <1>1, HeadTailProperties
  <2>2. /\ Len(ch) \in Nat /\ Len(ch) # 0 /\ DOMAIN ch = 1 .. Len(ch) /\ DOMAIN Tail(ch) = 1 .. Len(ch) - 1
        /\ Head(ch) = ch[1] /\ 1 \in DOMAIN ch
    BY <1>1, <2>1, EmptySeq, LenProperties
  <2>3. \A p \in DOMAIN Tail(ch) : p + 1 \in DOMAIN ch /\ Tail(ch)[p] = ch[p + 1]
    BY <2>1, <2>2
  <2>4. ASSUME NEW i \in DOMAIN ch PROVE i = 1 \/ (i - 1 \in DOMAIN Tail(ch) /\ ch[i] = Tail(ch)[i - 1])
    <3>1. i = 1 \/ (i - 1 \in DOMAIN Tail(ch) /\ (i - 1) + 1 = i)
      BY <2>2
    <3>. QED
      BY <2>3, <3>1
  <2>5. Head(ch) <= state
    BY <1>1, <2>2 DEF ClientSound, NoneAhead
  <2>. QED
    BY <2>1, <2>2, <2>3, <2>4, <2>5
<1>4. e \in Messages /\ e.kind = "snapshot.invalidated" /\ e.version = Head(ch)
  BY <1>3 DEF Messages
<1>. HIDE DEF e
<1>5. /\ Append(w, e) \in Seq(Messages) /\ Append(w, e) # <<>>
      /\ \A p \in DOMAIN Append(w, e) :
           \/ Append(w, e)[p] = e /\ (w # <<>> => p # 1)
           \/ p \in DOMAIN w /\ Append(w, e)[p] = w[p]
  <2>1. /\ Append(w, e) \in Seq(Messages) /\ Len(Append(w, e)) = Len(w) + 1 /\ Append(w, e)[Len(w) + 1] = e
        /\ \A p \in 1 .. Len(w) : Append(w, e)[p] = w[p]
    BY <1>1, <1>4, AppendProperties
  <2>2. /\ Len(w) \in Nat /\ DOMAIN w = 1 .. Len(w) /\ DOMAIN Append(w, e) = 1 .. Len(w) + 1
        /\ (w # <<>> => Len(w) # 0)
    BY <1>1, <2>1, LenProperties, EmptySeq
  <2>3. Append(w, e) # <<>>
    BY <2>1, <2>2, EmptySeq, SMTT(30)
  <2>. QED
    BY <2>1, <2>2, <2>3
<1>6. channel'[c] = Tail(ch) /\ wire'[c] = Append(w, e)
  BY DEF SyncInv, SyncTypes, e
<1>7. SyncTypes'
  <2>1. channel' \in [Client -> Seq(Version)] /\ wire' \in [Client -> Seq(Messages)]
    BY <1>3, <1>5 DEF SyncInv, SyncTypes, e
  <2>. QED
    BY <2>1 DEF SyncInv, SyncTypes
<1>8. ClientSound(c)'
  <2>1. LinkSound(c)'
    <3>1. CASE link[c] = "connecting"
      <4>1. w # <<>> /\ \A p \in DOMAIN w : w[p].kind = IF p = 1 THEN "session.hello" ELSE "snapshot.invalidated"
        BY <1>1, <1>2, <3>1 DEF ClientSound, LinkSound
      <4>2. \A p \in DOMAIN Append(w, e) :
              Append(w, e)[p].kind = IF p = 1 THEN "session.hello" ELSE "snapshot.invalidated"
        BY <1>4, <1>5, <4>1
      <4>. QED
        BY <1>1, <1>2, <1>5, <1>6, <3>1, <4>2, SMTT(30) DEF ClientSound, LinkSound
    <3>2. CASE link[c] = "ready"
      <4>1. \A p \in DOMAIN Append(w, e) :
              /\ Append(w, e)[p].kind # "session.hello"
              /\ Append(w, e)[p].kind \in Lists => Append(w, e)[p].version # 0
        BY <1>1, <1>4, <1>5, <3>2 DEF ClientSound, LinkSound, Lists
      <4>. QED
        BY <1>1, <1>2, <1>6, <3>2, <4>1 DEF ClientSound, LinkSound
    <3>. QED
      BY <1>2, <3>1, <3>2
  <2>2. NoneAhead(c)'
    <3>1. \A p \in DOMAIN Append(w, e) : Append(w, e)[p].version <= state
      BY <1>1, <1>3, <1>4, <1>5 DEF ClientSound, NoneAhead
    <3>2. \A j \in DOMAIN Tail(ch) : Tail(ch)[j] <= state
      BY <1>1, <1>3 DEF ClientSound, NoneAhead
    <3>. QED
      BY <1>1, <1>6, <3>1, <3>2 DEF ClientSound, NoneAhead
  <2>3. AsSound(s, t) /\ \A v : Told(s, v) \/ v <= e.version => Told(t, v)
    BY <1>1, <1>4, WireForwards
  <2>. HIDE DEF s, t
  <2>4. Mine(c) = s /\ Mine(c)' = t
    BY <1>6 DEF Mine, s, t
  <2>5. ListsSound(c)'
    BY <1>1, <2>3, <2>4 DEF ClientSound, ListsSound, AsSound
  <2>6. Hears(c)'
    <3>1. Announced' = Announced
      BY DEF Announced
    <3>2. ASSUME Knows(s, refreshes[c], view[c], link[c] = "ready", gave_up[c], Announced)
          PROVE  Knows(t, refreshes[c], view[c], link[c] = "ready", gave_up[c], Announced)
      BY <2>3, <3>2, KnowsStays DEF AsSound
    <3>3. ASSUME NEW i \in DOMAIN ch, Announced <= ch[i]
          PROVE  \/ \E j \in DOMAIN Tail(ch) : Announced <= Tail(ch)[j]
                 \/ Knows(t, refreshes[c], view[c], link[c] = "ready", gave_up[c], Announced)
      <4>1. CASE ch[i] = Head(ch)
        <5>1. Told(t, Announced)
          BY <1>4, <2>3, <3>3, <4>1
        <5>. QED
          BY <5>1 DEF Knows
      <4>2. CASE \E j \in DOMAIN Tail(ch) : ch[i] = Tail(ch)[j]
        BY <3>3, <4>2
      <4>. QED
        BY <1>3, <4>1, <4>2
    <3>. QED
      BY <1>1, <1>6, <2>4, <3>1, <3>2, <3>3 DEF ClientSound, Hears
  <2>7. FailureKnown(c)'
    BY <1>1 DEF ClientSound, FailureKnown
  <2>. QED
    BY <2>1, <2>2, <2>5, <2>6, <2>7 DEF ClientSound
<1>. HIDE DEF q, w, ch
<1>. QED
  BY <1>7, <1>8, OthersKeep DEF SyncInv, SyncTypes

\* A connection starts empty.
LEMMA ConnectsKeeps ==
  ASSUME SyncInv, NEW c \in Client, Connects(c)
  PROVE  SyncInv'
<1>. USE DEF Connects, host
<1>1. wire[c] = <<>> /\ refreshes[c] = <<>>
  BY SyncFacts DEF ClientSound, LinkSound
<1>2. /\ session'[c] = "connected" /\ link'[c] = "connecting" /\ requests'[c] = <<"session.hello">>
      /\ session' \in [Client -> {"none", "connected", "hello", "authenticated", "subscribed"}]
      /\ link' \in [Client -> {"idle", "connecting", "ready", "lost", "error"}]
      /\ requests' \in [Client -> Seq(Requests)] /\ <<"session.hello">> \in Seq(Requests)
  BY DEF SyncInv, SyncTypes, Requests
<1>3. SyncTypes'
  BY <1>2 DEF SyncInv, SyncTypes
<1>4. ClientSound(c)'
  <2>1. LinkSound(c)' /\ FailureKnown(c)' /\ Hears(c)' /\ NoneAhead(c)'
    BY <1>1, <1>2, SyncFacts DEF ClientSound, LinkSound, FailureKnown, Hears, NoneAhead
  <2>2. ListsSound(c)'
    <3>1. wire[c] \in Seq(Messages) /\ view[c] \in View /\ \A l \in Lists : view[c][l] <= state
      BY SyncFacts
    <3>2. \A p \in DOMAIN wire[c] : wire[c][p].kind \in {"session.hello", "snapshot.invalidated"}
      BY <1>1
    <3>3. PICK q : q = <<"session.hello">> /\ q \in Seq(Requests)
      BY <1>2
    <3>4. Matched(Slots(wire[c], q), <<>>) /\ Grows(Slots(wire[c], q), Got(<<>>), view[c], state)
      BY <3>1, <3>2, <3>3, NoListsYet
    <3>. QED
      BY <1>1, <1>2, <3>3, <3>4 DEF ListsSound, Mine
  <2>. QED
    BY <2>1, <2>2 DEF ClientSound
<1>. QED
  BY <1>3, <1>4, OthersKeep DEF SyncInv, SyncTypes

\* What is received is taken out of the wire.
LEMMA ArrivesIs ==
  ASSUME SyncInv, NEW c \in Client, NEW kinds, Arrives(c, kinds)
  PROVE  \E i \in 1 .. Len(wire[c]) :
           /\ i = First(c, kinds) /\ Arrived(c, kinds) = wire[c][i] /\ wire[c][i].kind \in kinds
           /\ wire[c][i] \in Messages /\ link[c] \in {"connecting", "ready"}
           /\ \A p \in 1 .. i - 1 : wire[c][p].kind \notin kinds
           /\ wire'[c] = RemoveAt(wire[c], i) /\ RemoveAt(wire[c], i) \in Seq(Messages)
           /\ wire' \in [Client -> Seq(Messages)] /\ \A d \in Client \ {c} : wire'[d] = wire[d]
           /\ \A p \in DOMAIN RemoveAt(wire[c], i) :
                /\ p \in DOMAIN wire[c] /\ p + 1 \in DOMAIN wire[c]
                /\ RemoveAt(wire[c], i)[p] = IF p < i THEN wire[c][p] ELSE wire[c][p + 1]
<1>1. wire[c] \in Seq(Messages) /\ (\E k \in DOMAIN wire[c] : wire[c][k].kind \in kinds)
      /\ requests[c] \in Seq(Requests) /\ ClientSound(c)
      /\ link[c] \in {"idle", "connecting", "ready", "lost", "error"}
  BY SyncFacts DEF Arrives
<1>2. PICK i : /\ i = First(c, kinds) /\ i \in 1 .. Len(wire[c])
               /\ Arrived(c, kinds) = wire[c][i] /\ wire[c][i].kind \in kinds
               /\ \A p \in 1 .. i - 1 : wire[c][p].kind \notin kinds
  BY <1>1, FirstIs
<1>3. /\ RemoveAt(wire[c], i) \in Seq(Messages)
      /\ \A p \in DOMAIN RemoveAt(wire[c], i) : RemoveAt(wire[c], i)[p] = (IF p < i THEN wire[c][p] ELSE wire[c][p + 1])
      /\ \A p \in DOMAIN RemoveAt(wire[c], i) : p + 1 \in DOMAIN wire[c] /\ p \in DOMAIN wire[c]
  BY <1>1, <1>2, WireReceives
<1>4. wire[c] # <<>> /\ wire[c][i] \in Messages
  BY <1>1, <1>2, ElementOfSeq
<1>5. link[c] \in {"connecting", "ready"}
  BY <1>1, <1>4 DEF ClientSound, LinkSound
<1>6. /\ wire'[c] = RemoveAt(wire[c], i)
      /\ wire' \in [Client -> Seq(Messages)] /\ \A d \in Client \ {c} : wire'[d] = wire[d]
  BY <1>2, <1>3 DEF Arrives, SyncInv, SyncTypes
<1>. QED
  BY <1>2, <1>3, <1>4, <1>5, <1>6


\* The first view comes with hello, which is ahead of every notification on the wire.
LEMMA ReceivesHelloKeeps ==
  ASSUME SyncInv, NEW c \in Client, ReceivesHello(c)
  PROVE  SyncInv' /\ link[c] = "connecting"
<1>1. PICK i \in 1 .. Len(wire[c]) :
        /\ Arrived(c, {"session.hello"}) = wire[c][i] /\ wire[c][i].kind = "session.hello" /\ wire[c][i] \in Messages
        /\ link[c] \in {"connecting", "ready"}
        /\ wire'[c] = RemoveAt(wire[c], i) /\ RemoveAt(wire[c], i) \in Seq(Messages)
        /\ wire' \in [Client -> Seq(Messages)] /\ \A d \in Client \ {c} : wire'[d] = wire[d]
        /\ \A p \in DOMAIN RemoveAt(wire[c], i) :
             /\ p \in DOMAIN wire[c] /\ p + 1 \in DOMAIN wire[c]
             /\ RemoveAt(wire[c], i)[p] = IF p < i THEN wire[c][p] ELSE wire[c][p + 1]
  BY ArrivesIs, SMTT(30) DEF ReceivesHello
<1>. USE DEF ReceivesHello, host, loop
<1>2. /\ wire[c] \in Seq(Messages) /\ requests[c] \in Seq(Requests) /\ refreshes[c] \in Seq(Refresh)
      /\ ClientSound(c) /\ DOMAIN wire[c] = 1 .. Len(wire[c]) /\ Len(wire[c]) \in Nat /\ Announced \in Nat
      /\ session[c] \in {"none", "connected", "hello", "authenticated", "subscribed"}
  BY SyncFacts, LenProperties
<1>. DEFINE v == wire[c][i].version
            w == RemoveAt(wire[c], i)
            to == [l \in Lists |-> v]
<1>3. link[c] = "connecting" /\ refreshes[c] = <<>>
  BY <1>1, <1>2 DEF ClientSound, LinkSound
<1>4. i = 1 /\ wire[c] # <<>>
  <2>1. \A p \in DOMAIN wire[c] : wire[c][p].kind = IF p = 1 THEN "session.hello" ELSE "snapshot.invalidated"
    BY <1>2, <1>3 DEF ClientSound, LinkSound
  <2>2. i \in DOMAIN wire[c] /\ wire[c][i].kind = "session.hello"
    BY <1>1, <1>2
  <2>3. i = 1
    BY <2>1, <2>2
  <2>4. wire[c] # <<>>
    BY <2>2
  <2>. QED
    BY <2>3, <2>4
<1>5. session[c] \in {"authenticated", "subscribed"} /\ requests[c] = <<>>
  BY <1>2, <1>3, <1>4 DEF ClientSound, LinkSound
<1>6. \A p \in DOMAIN w : w[p].kind = "snapshot.invalidated" /\ w[p].version <= state
  <2> SUFFICES ASSUME NEW p \in DOMAIN w PROVE w[p].kind = "snapshot.invalidated" /\ w[p].version <= state
    OBVIOUS
  <2>1. p + 1 \in DOMAIN wire[c] /\ w[p] = wire[c][p + 1] /\ p + 1 # 1
    BY <1>1, <1>2, <1>4
  <2>. QED
    BY <1>2, <1>3, <2>1 DEF ClientSound, LinkSound, NoneAhead
<1>7. v \in Version /\ v \in Nat /\ v <= state
  <2>1. v \in Version
    BY <1>1 DEF Messages
  <2>2. i \in DOMAIN wire[c]
    BY <1>2
  <2>3. v <= state
    BY <1>2, <2>2 DEF ClientSound, NoneAhead
  <2>. QED
    BY <2>1, <2>3 DEF Version
<1>8. /\ view'[c] = to /\ to \in View /\ link'[c] = "ready" /\ wire'[c] = w
      /\ view' \in [Client -> View] /\ link' \in [Client -> {"idle", "connecting", "ready", "lost", "error"}]
  BY <1>1, <1>7 DEF SyncInv, SyncTypes, View
<1>9. SyncTypes'
  BY <1>1, <1>8 DEF SyncInv, SyncTypes
<1>10. ClientSound(c)'
  <2>1. LinkSound(c)' /\ FailureKnown(c)' /\ NoneAhead(c)'
    BY <1>2, <1>3, <1>5, <1>6, <1>8 DEF ClientSound, LinkSound, FailureKnown, NoneAhead, Lists
  <2>2. Matched(Slots(w, <<>>), <<>>) /\ Grows(Slots(w, <<>>), Got(<<>>), to, state)
    <3>1. \A l \in Lists : to[l] <= state
      BY <1>7
    <3>2. \A p \in DOMAIN w : w[p].kind \in {"session.hello", "snapshot.invalidated"}
      BY <1>6
    <3>3. w \in Seq(Messages) /\ <<>> \in Seq(Requests)
      BY <1>1
    <3>. HIDE DEF to, w
    <3>. QED
      BY <1>8, <3>1, <3>2, <3>3, NoListsYet
  <2>3. ListsSound(c)'
    BY <1>3, <1>5, <1>8, <2>2 DEF ListsSound, Mine
  <2>4. Hears(c)'
    <3>1. Announced' = Announced
      BY DEF Announced
    <3>2. \A x : Told(Slots(wire[c], <<>>), x) => x <= v \/ Told(Slots(w, <<>>), x)
      <4>1. wire[c][i].kind \notin Lists
        BY <1>1 DEF Lists
      <4>. QED
        BY <1>2, <1>5, <4>1, WireReceivesOther
    <3>3. Between(Slots(w, <<>>), v) /\ \A l \in Lists : to[l] = v
      BY <2>2 DEF Grows, Lists
    <3>4. ASSUME Announced <= v PROVE Between(Slots(w, <<>>), Announced)
      <4>1. w \in Seq(Messages) /\ <<>> \in Seq(Requests)
        BY <1>1
      <4>2. \A p \in DOMAIN Slots(w, <<>>) : Slots(w, <<>>)[p] \in SlotRecords
        <5>1. Slots(w, <<>>) \in [1 .. Len(w) + Len(<<>>) -> SlotRecords]
          BY <4>1, SlotsAre
        <5>. QED
          BY <5>1
      <4>. QED
        BY <1>2, <1>7, <3>3, <3>4, <4>2 DEF Between, SlotRecords
    <3>5. ASSUME Knows(Slots(wire[c], <<>>), <<>>, view[c], FALSE, gave_up[c], Announced)
          PROVE  Knows(Slots(w, <<>>), <<>>, to, TRUE, gave_up[c], Announced)
      <4>1. Told(Slots(wire[c], <<>>), Announced)
        <5>1. Len(<<>>) = 0 /\ 1 .. 0 = {}
          OBVIOUS
        <5>. QED
          BY <3>5, <5>1 DEF Knows
      <4>2. Got(<<>>) = 0
        BY DEF Got
      <4>. QED
        BY <3>2, <3>3, <3>4, <4>1, <4>2 DEF Knows
    <3>. QED
      BY <1>2, <1>3, <1>5, <1>8, <3>1, <3>5 DEF ClientSound, Hears, Mine
  <2>. QED
    BY <2>1, <2>3, <2>4 DEF ClientSound
<1>11. SyncInv'
  BY <1>1, <1>9, <1>10, OthersKeep DEF SyncInv, SyncTypes
<1>. QED
  BY <1>3, <1>11

\* A refresh starts, for a version that the client has just been told of.
LEMMA RefreshesKeeps ==
  ASSUME SyncInv, NEW c \in Client, link[c] = "ready", NEW v \in Version, v <= state, Refreshes(c, v),
         NEW w \in Seq(Messages), wire'[c] = w, wire' \in [Client -> Seq(Messages)],
         \A d \in Client \ {c} : wire'[d] = wire[d],
         AsSound(Slots(wire[c], requests[c]), Slots(w, requests[c])),
         \A x : Told(Slots(wire[c], requests[c]), x) => x <= v \/ Told(Slots(w, requests[c]), x),
         \A p \in DOMAIN w : \E r \in DOMAIN wire[c] : w[p] = wire[c][r]
  PROVE  SyncInv'
<1>. USE DEF Refreshes, host, loop
<1>. DEFINE q == requests[c]
            two == <<"workspaces", "tabs">>
            rs == refreshes[c]
            r == [got |-> None, since |-> v, failed |-> FALSE]
            s == Slots(wire[c], q)
            t == Slots(w, q)
            u == Slots(w, q \o two)
<1>1. /\ q \in Seq(Requests) /\ rs \in Seq(Refresh) /\ ClientSound(c) /\ Announced \in Nat /\ view[c] \in View
      /\ session[c] \in {"authenticated", "subscribed"}
  BY SyncFacts DEF ClientSound, LinkSound
<1>2. r \in Refresh /\ r.got = None /\ r.since = v /\ r.failed = FALSE
  <2>1. None \in View
    BY BoundAssumption DEF None, View, Version
  <2>. QED
    BY <2>1 DEF Refresh
<1>. HIDE DEF r
<1>3. /\ q \o two \in Seq(Requests)
      /\ \A us \in Seq(Refresh), x \in Refresh : x.got = None /\ Matched(t, us) => Matched(u, Append(us, x))
      /\ \A x : Between(t, x) => Between(u, x)
      /\ \A got, seen, top : Grows(t, got, seen, top) => Grows(u, got, seen, top)
      /\ \A x : Told(t, x) => Told(u, x)
  BY <1>1, WireAsks
<1>4. \A p \in DOMAIN (q \o two) : (q \o two)[p] \in Lists
  <2>1. \A p \in DOMAIN q : q[p] \in Lists
    BY <1>1 DEF ClientSound, LinkSound
  <2>2. \A p \in DOMAIN (q \o two) : (q \o two)[p] \in Lists \/ (p \in DOMAIN q /\ (q \o two)[p] = q[p])
    BY <1>1, WireAsks
  <2>. QED
    BY <2>1, <2>2
<1>5. /\ Append(rs, r) \in Seq(Refresh) /\ Append(rs, r) # <<>> /\ Len(Append(rs, r)) = Len(rs) + 1
      /\ Append(rs, r)[Len(rs) + 1] = r /\ \A k \in 1 .. Len(rs) : Append(rs, r)[k] = rs[k]
      /\ Len(rs) \in Nat
  <2>1. rs \in Seq(Refresh) /\ r \in Refresh /\ Len(rs) \in Nat
    BY <1>1, <1>2, LenProperties
  <2>. HIDE DEF rs
  <2>. QED
    BY <2>1, AppendProperties
<1>6. PICK us \in Seq(Refresh) :
        /\ us = Append(rs, r) /\ us # <<>> /\ Len(us) = Len(rs) + 1
        /\ us[Len(rs) + 1] = r /\ \A k \in 1 .. Len(rs) : us[k] = rs[k]
        /\ \A k \in 1 .. Len(us) : k \in 1 .. Len(rs) \/ k = Len(rs) + 1
        /\ \A k \in 1 .. Len(rs) : k \in 1 .. Len(us)
        /\ Len(rs) + 1 \in 1 .. Len(us)
  <2>1. /\ \A k \in 1 .. Len(rs) + 1 : k \in 1 .. Len(rs) \/ k = Len(rs) + 1
        /\ \A k \in 1 .. Len(rs) : k \in 1 .. Len(rs) + 1
        /\ Len(rs) + 1 \in 1 .. Len(rs) + 1
    BY <1>5
  <2>. QED
    BY <1>5, <2>1
<1>7. Got(us) = Got(rs)
  <2>1. CASE rs = <<>>
    <3>1. Len(rs) = 0
      BY <2>1
    <3>2. us[1] = r
      BY <1>6, <3>1
    <3>. QED
      BY <1>2, <1>6, <2>1, <3>2 DEF Got, None, Lists
  <2>2. CASE rs # <<>>
    <3>1. 1 \in 1 .. Len(rs)
      BY <1>1, <1>5, <2>2, EmptySeq
    <3>. QED
      BY <1>6, <2>2, <3>1 DEF Got
  <2>. QED
    BY <2>1, <2>2
<1>8. requests'[c] = q \o two /\ refreshes'[c] = us
  BY <1>6 DEF SyncInv, SyncTypes, r
<1>9. SyncTypes'
  <2>1. requests' \in [Client -> Seq(Requests)] /\ refreshes' \in [Client -> Seq(Refresh)]
    BY <1>3, <1>5 DEF SyncInv, SyncTypes, r
  <2>. QED
    BY <2>1 DEF SyncInv, SyncTypes
<1>10. ClientSound(c)'
  <2>. HIDE DEF s, t, u
  <2>1. LinkSound(c)'
    <3>1. \A p \in DOMAIN w : w[p].kind # "session.hello" /\ (w[p].kind \in Lists => w[p].version # 0)
      BY <1>1 DEF ClientSound, LinkSound
    <3>. QED
      BY <1>1, <1>4, <1>8, <3>1 DEF ClientSound, LinkSound
  <2>2. NoneAhead(c)'
    <3>1. \A p \in DOMAIN w : w[p].version <= state
      BY <1>1 DEF ClientSound, NoneAhead
    <3>2. \A k \in 1 .. Len(us) : us[k].since <= state
      BY <1>1, <1>2, <1>6 DEF ClientSound, NoneAhead
    <3>. QED
      BY <1>1, <1>8, <3>1, <3>2 DEF ClientSound, NoneAhead
  <2>3. Mine(c) = s /\ Mine(c)' = u /\ AsSound(s, t) /\ \A x : Told(s, x) => x <= v \/ Told(t, x)
    BY <1>8 DEF Mine, s, t, u
  <2>4. ListsSound(c)'
    <3>1. Matched(t, rs) /\ Grows(t, Got(rs), view[c], state)
      BY <1>1, <2>3 DEF ClientSound, ListsSound, AsSound
    <3>2. Matched(u, us) /\ Grows(u, Got(us), view[c], state)
      BY <1>1, <1>2, <1>3, <1>6, <1>7, <3>1
    <3>. QED
      BY <1>8, <2>3, <3>2 DEF ListsSound
  <2>5. FailureKnown(c)'
    BY <1>1, <1>2, <1>6, <1>8 DEF ClientSound, FailureKnown
  <2>6. Hears(c)'
    <3>1. Announced' = Announced
      BY DEF Announced
    <3>2. ASSUME Knows(s, rs, view[c], TRUE, gave_up[c], Announced)
          PROVE  Knows(u, us, view[c], TRUE, gave_up[c], Announced)
      <4>1. CASE Told(s, Announced)
        <5>1. Announced <= v \/ Told(u, Announced)
          BY <1>3, <2>3, <4>1
        <5>. QED
          BY <1>2, <1>6, <5>1 DEF Knows
      <4>2. CASE \E k \in 1 .. Len(rs) : Announced <= rs[k].since
        BY <1>6, <4>2 DEF Knows
      <4>3. CASE /\ Between(s, Announced) /\ (Got(rs) # 0 => Announced <= Got(rs))
                 /\ gave_up[c] \/ \A l \in Lists : Announced <= view[c][l]
        <5>1. Between(u, Announced)
          BY <1>3, <2>3, <4>3 DEF AsSound
        <5>. QED
          BY <1>7, <4>3, <5>1 DEF Knows
      <4>. QED
        BY <3>2, <4>1, <4>2, <4>3 DEF Knows
    <3>. QED
      BY <1>1, <1>8, <2>3, <3>1, <3>2 DEF ClientSound, Hears
  <2>. QED
    BY <2>1, <2>2, <2>4, <2>5, <2>6 DEF ClientSound
<1>. HIDE DEF q, rs
<1>. QED
  BY <1>9, <1>10, OthersKeep DEF SyncInv, SyncTypes

\* A notification is turned into a refresh.
LEMMA ReceivesInvalidatedKeeps ==
  ASSUME SyncInv, NEW c \in Client, ReceivesInvalidated(c)
  PROVE  SyncInv'
<1>1. PICK i \in 1 .. Len(wire[c]) :
        /\ Arrived(c, {"snapshot.invalidated"}) = wire[c][i] /\ wire[c][i].kind = "snapshot.invalidated"
        /\ wire[c][i] \in Messages
        /\ wire'[c] = RemoveAt(wire[c], i) /\ RemoveAt(wire[c], i) \in Seq(Messages)
        /\ wire' \in [Client -> Seq(Messages)] /\ \A d \in Client \ {c} : wire'[d] = wire[d]
        /\ \A p \in DOMAIN RemoveAt(wire[c], i) :
             /\ p \in DOMAIN wire[c] /\ p + 1 \in DOMAIN wire[c]
             /\ RemoveAt(wire[c], i)[p] = IF p < i THEN wire[c][p] ELSE wire[c][p + 1]
  BY ArrivesIs, SMTT(30) DEF ReceivesInvalidated
<1>2. wire[c] \in Seq(Messages) /\ requests[c] \in Seq(Requests) /\ ClientSound(c) /\ DOMAIN wire[c] = 1 .. Len(wire[c])
  BY SyncFacts, LenProperties
<1>. DEFINE v == wire[c][i].version
            w == RemoveAt(wire[c], i)
<1>3. v \in Version /\ v <= state
  BY <1>1, <1>2 DEF Messages, ClientSound, NoneAhead
<1>4. /\ AsSound(Slots(wire[c], requests[c]), Slots(w, requests[c]))
      /\ \A x : Told(Slots(wire[c], requests[c]), x) => x <= v \/ Told(Slots(w, requests[c]), x)
  <2>1. wire[c][i].kind \notin Lists
    BY <1>1 DEF Lists
  <2>. QED
    BY <1>2, <2>1, WireReceivesOther
<1>5. \A p \in DOMAIN w : \E r \in DOMAIN wire[c] : w[p] = wire[c][r]
  BY <1>1
<1>6. link[c] = "ready" /\ Refreshes(c, v)
  BY <1>1 DEF ReceivesInvalidated
<1>7. w \in Seq(Messages) /\ wire'[c] = w /\ wire' \in [Client -> Seq(Messages)] /\ \A d \in Client \ {c} : wire'[d] = wire[d]
  BY <1>1
<1>. HIDE DEF v, w
<1>. QED
  BY <1>3, <1>4, <1>5, <1>6, <1>7, RefreshesKeeps

\* So is a wish of the user.
LEMMA UserRefreshesKeeps ==
  ASSUME SyncInv, NEW c \in Client, UserRefreshes(c)
  PROVE  SyncInv'
<1>1. wire[c] \in Seq(Messages) /\ 0 \in Version /\ 0 <= state
  BY SyncFacts, BoundAssumption DEF Version
<1>2. wire' = wire /\ link[c] = "ready" /\ Refreshes(c, 0)
  BY DEF UserRefreshes
<1>3. wire'[c] = wire[c] /\ wire' \in [Client -> Seq(Messages)] /\ \A d \in Client \ {c} : wire'[d] = wire[d]
  BY <1>2 DEF SyncInv, SyncTypes
<1>4. AsSound(Slots(wire[c], requests[c]), Slots(wire[c], requests[c]))
  BY DEF AsSound
<1>. QED
  BY <1>1, <1>2, <1>3, <1>4, RefreshesKeeps


\* The first list on the wire goes to the oldest refresh, and what then is on the
\* screen is never older than what was.
LEMMA ReceivesListKeeps ==
  ASSUME SyncInv, NEW c \in Client, ReceivesList(c)
  PROVE  SyncInv' /\ \A l \in Lists : view'[c][l] >= view[c][l]
<1>1. PICK i \in 1 .. Len(wire[c]) :
        /\ Arrived(c, Lists) = wire[c][i] /\ wire[c][i].kind \in Lists /\ wire[c][i] \in Messages
        /\ link[c] \in {"connecting", "ready"}
        /\ \A p \in 1 .. i - 1 : wire[c][p].kind \notin Lists
        /\ wire'[c] = RemoveAt(wire[c], i) /\ RemoveAt(wire[c], i) \in Seq(Messages)
        /\ wire' \in [Client -> Seq(Messages)] /\ \A d \in Client \ {c} : wire'[d] = wire[d]
        /\ \A p \in DOMAIN RemoveAt(wire[c], i) :
             /\ p \in DOMAIN wire[c] /\ p + 1 \in DOMAIN wire[c]
             /\ RemoveAt(wire[c], i)[p] = IF p < i THEN wire[c][p] ELSE wire[c][p + 1]
  BY ArrivesIs, SMTT(30) DEF ReceivesList
<1>2. /\ wire[c] \in Seq(Messages) /\ requests[c] \in Seq(Requests) /\ refreshes[c] \in Seq(Refresh)
      /\ ClientSound(c) /\ DOMAIN wire[c] = 1 .. Len(wire[c]) /\ Announced \in Nat /\ state \in Nat \ {0}
      /\ view[c] \in View /\ Got(refreshes[c]) \in Nat /\ gave_up[c] \in BOOLEAN
      /\ \A l \in Lists : view[c][l] \in Nat
  BY SyncFacts, LenProperties
<1>. DEFINE w == RemoveAt(wire[c], i)
            rs == refreshes[c]
            s == Slots(wire[c], requests[c])
            t == Slots(w, requests[c])
<1>3. PICK e \in Messages : e = wire[c][i]
  BY <1>1
<1>4. link[c] = "ready" /\ e.version # 0 /\ e.version <= state /\ e.version \in Nat /\ e.version \in Version
  <2>1. i \in DOMAIN wire[c]
    BY <1>2
  <2>2. link[c] = "ready"
    BY <1>1, <1>2, <2>1 DEF ClientSound, LinkSound, Lists
  <2>3. e.version # 0 /\ e.version <= state
    BY <1>1, <1>2, <1>3, <2>1, <2>2 DEF ClientSound, LinkSound, NoneAhead
  <2>. QED
    BY <2>2, <2>3 DEF Messages, Version
<1>5. TakenBy(t, e, rs) /\ TakenAfter(s, t, e, Got(rs), view[c], state) /\ \A v : Told(s, v) => Told(t, v)
  <2>1. Matched(s, rs) /\ Grows(s, Got(rs), view[c], state)
    BY <1>2 DEF ClientSound, ListsSound, Mine
  <2>2. wire[c][i].kind \in Lists /\ wire[c][i].version # 0 /\ wire[c][i].version <= state /\ state \in Nat
    BY <1>1, <1>2, <1>3, <1>4
  <2>. QED
    BY <1>1, <1>2, <1>3, <2>1, <2>2, WireReceivesList
<1>6. /\ Len(rs) \in Nat \ {0} /\ 1 \in 1 .. Len(rs) /\ rs # <<>> /\ Got(rs) = rs[1].got["workspaces"]
      /\ \A k \in 1 .. Len(rs) : rs[k] \in Refresh
      /\ rs[1].since <= e.version /\ rs[1].got["tabs"] = 0
      /\ \A k \in 2 .. Len(rs) : k \in 1 .. Len(rs) /\ rs[k].got["workspaces"] = 0
      /\ \A k \in 1 .. Len(rs) : rs[k].since \in Nat
  <2>1. /\ Len(rs) \in Nat \ {0} /\ rs[1].since <= e.version /\ rs[1].got["tabs"] = 0
        /\ \A k \in 2 .. Len(rs) : rs[k].got["workspaces"] = 0
    BY <1>5 DEF TakenBy
  <2>2. 1 \in 1 .. Len(rs) /\ rs # <<>> /\ \A k \in 2 .. Len(rs) : k \in 1 .. Len(rs)
    BY <2>1, EmptySeq
  <2>3. \A k \in 1 .. Len(rs) : rs[k] \in Refresh
    BY <1>2, ElementOfSeq
  <2>4. \A k \in 1 .. Len(rs) : rs[k].since \in Nat
    BY <2>3 DEF Refresh, Version
  <2>5. Got(rs) = rs[1].got["workspaces"]
    BY <2>2 DEF Got
  <2>. QED
    BY <2>1, <2>2, <2>3, <2>4, <2>5
<1>. DEFINE got == [rs[1].got EXCEPT ![e.kind] = e.version]
            whole == \A l \in Lists : got[l] # 0
<1>7. /\ refreshes' = [refreshes EXCEPT ![c] = IF whole THEN RemoveAt(@, 1) ELSE [@ EXCEPT ![1].got = got]]
      /\ view' = IF whole /\ ~rs[1].failed THEN [view EXCEPT ![c] = got] ELSE view
      /\ gave_up' = IF ~whole \/ rs[1].failed THEN gave_up
                    ELSE [gave_up EXCEPT ![c] = \E k \in 1 + 1 .. Len(rs) : rs[k].failed]
      /\ UNCHANGED <<host, loop, requests, link>>
  BY <1>1, <1>3 DEF ReceivesList, Answered
<1>8. rs[1].got \in View /\ e.kind \in Lists
  BY <1>1, <1>3, <1>6 DEF Refresh
<1>9. got \in View
  BY <1>4, <1>8 DEF View
\* What does not depend on the refresh that gets the list.
<1>10. ASSUME NEW us \in Seq(Refresh), refreshes' = [refreshes EXCEPT ![c] = us], Matched(t, us),
              view' \in [Client -> View], gave_up' \in [Client -> BOOLEAN], Grows(t, Got(us), view'[c], state),
              \A d \in Client \ {c} : view'[d] = view[d] /\ gave_up'[d] = gave_up[d],
              \A k \in 1 .. Len(us) : us[k].since <= state,
              ~gave_up'[c] => \A k \in 1 .. Len(us) : ~us[k].failed,
              Knows(s, rs, view[c], TRUE, gave_up[c], Announced)
                => Knows(t, us, view'[c], TRUE, gave_up'[c], Announced)
       PROVE  SyncInv'
  <2>1. refreshes'[c] = us /\ wire'[c] = w /\ refreshes' \in [Client -> Seq(Refresh)]
    BY <1>1, <1>10 DEF SyncInv, SyncTypes
  <2>2. SyncTypes'
    BY <1>1, <1>7, <1>10, <2>1 DEF SyncInv, SyncTypes, host, loop
  <2>3. ClientSound(c)'
    <3>1. \A p \in DOMAIN w : \E r \in DOMAIN wire[c] : w[p] = wire[c][r]
      BY <1>1
    <3>. HIDE DEF w
    <3>2. LinkSound(c)'
      <4>1. \A p \in DOMAIN w : w[p].kind # "session.hello" /\ (w[p].kind \in Lists => w[p].version # 0)
        BY <1>2, <1>4, <3>1 DEF ClientSound, LinkSound
      <4>. QED
        BY <1>2, <1>4, <1>7, <2>1, <4>1 DEF ClientSound, LinkSound, loop
    <3>3. NoneAhead(c)'
      <4>1. \A p \in DOMAIN w : w[p].version <= state
        BY <1>2, <3>1 DEF ClientSound, NoneAhead
      <4>. QED
        BY <1>2, <1>7, <1>10, <2>1, <4>1 DEF ClientSound, NoneAhead, loop, host
    <3>4. Mine(c) = s /\ Mine(c)' = t /\ state' = state /\ Announced' = Announced
      BY <1>7, <2>1 DEF Mine, host, Announced, w
    <3>. HIDE DEF s, t
    <3>5. ListsSound(c)' /\ FailureKnown(c)'
      BY <1>10, <2>1, <3>4 DEF ListsSound, FailureKnown
    <3>6. Hears(c)'
      BY <1>2, <1>4, <1>7, <1>10, <2>1, <3>4 DEF ClientSound, Hears, loop
    <3>. QED
      BY <3>2, <3>3, <3>5, <3>6 DEF ClientSound
  <2>4. \A d \in Client \ {c} :
           /\ session'[d] = session[d] /\ greeting'[d] = greeting[d] /\ joined'[d] = joined[d]
           /\ channel'[d] = channel[d] /\ requests'[d] = requests[d] /\ wire'[d] = wire[d]
           /\ link'[d] = link[d] /\ view'[d] = view[d]
           /\ refreshes'[d] = refreshes[d] /\ gave_up'[d] = gave_up[d]
    <3>1. UNCHANGED <<session, greeting, joined, channel, requests, link>>
      BY <1>7 DEF loop
    <3>2. \A d \in Client \ {c} : refreshes'[d] = refreshes[d]
      <4>1. refreshes \in [Client -> Seq(Refresh)]
        BY DEF SyncInv, SyncTypes
      <4>. QED
        BY <1>10, <4>1
    <3>3. \A d \in Client \ {c} : wire'[d] = wire[d] /\ view'[d] = view[d] /\ gave_up'[d] = gave_up[d]
      BY <1>1, <1>10
    <3>. QED
      BY <3>1, <3>2, <3>3
  <2>5. UNCHANGED host
    BY <1>7
  <2>. QED
    BY <2>2, <2>3, <2>4, <2>5, OthersKeep
<1>. HIDE DEF s, t, w
<1>11. /\ \A v : Between(s, v) => Between(t, v) /\ v <= e.version
       /\ Between(t, e.version)
       /\ Grows(t, e.version, view[c], state) /\ Grows(t, 0, view[c], state)
       /\ Got(rs) # 0 => \A to \in View : to["workspaces"] = Got(rs) /\ to["tabs"] = e.version => Grows(t, 0, to, state)
       /\ Got(rs) # 0 => \A l \in Lists : view[c][l] <= Got(rs) /\ view[c][l] <= e.version
  BY <1>5 DEF TakenAfter
<1>12. view[c] \in View /\ \A l \in Lists : view[c][l] >= view[c][l]
  BY <1>2
<1>13. ASSUME NEW v \in Nat, v <= e.version PROVE Between(t, v)
  <2>1. \A p \in DOMAIN t : t[p].version \in Nat
    <3>1. w \in Seq(Messages)
      BY <1>1 DEF w
    <3>2. t \in [1 .. Len(w) + Len(requests[c]) -> SlotRecords]
      BY <1>2, <3>1, SlotsAre DEF t
    <3>. QED
      BY <3>2 DEF SlotRecords
  <2>. QED
    BY <1>4, <1>11, <1>13, <2>1 DEF Between
<1>14. CASE rs[1].got["workspaces"] = 0
  <2>1. /\ e.kind = "workspaces"
        /\ \A us \in Seq(Refresh) :
             /\ Len(us) = Len(rs) /\ us[1].since = rs[1].since
             /\ us[1].got["workspaces"] = e.version /\ us[1].got["tabs"] = 0
             /\ \A k \in 2 .. Len(rs) : us[k] = rs[k]
             => Matched(t, us)
    BY <1>5, <1>14 DEF TakenBy
  <2>2. got["tabs"] = 0 /\ got["workspaces"] = e.version /\ ~whole
    BY <1>6, <1>8, <2>1 DEF View, Lists
  <2>. HIDE DEF got
  <2>3. PICK r \in Refresh : r = [rs[1] EXCEPT !.got = got] /\ r.got = got /\ r.since = rs[1].since /\ r.failed = rs[1].failed
    <3>1. PICK q \in Refresh : q = rs[1]
      BY <1>6
    <3>2. PICK g \in View : g = got
      BY <1>9
    <3>3. [q EXCEPT !.got = g] \in Refresh
      BY DEF Refresh
    <3>4. [q EXCEPT !.got = g].got = g /\ [q EXCEPT !.got = g].since = q.since /\ [q EXCEPT !.got = g].failed = q.failed
      BY DEF Refresh
    <3>. QED
      BY <3>1, <3>2, <3>3, <3>4
  <2>. DEFINE us == [rs EXCEPT ![1] = r]
  <2>4. us \in Seq(Refresh) /\ Len(us) = Len(rs) /\ us[1] = r /\ \A k \in 1 .. Len(rs) : us[k] = IF k = 1 THEN r ELSE rs[k]
    BY <1>2, <1>6, ExceptSeq
  <2>5. refreshes' = [refreshes EXCEPT ![c] = us] /\ view' = view /\ gave_up' = gave_up
    BY <1>6, <1>7, <2>2, <2>3
  <2>. HIDE DEF us
  <2>6. Matched(t, us)
    <3>1. \A k \in 2 .. Len(rs) : us[k] = rs[k]
      BY <1>6, <2>4
    <3>. QED
      BY <2>1, <2>2, <2>3, <2>4, <3>1
  <2>7. Got(us) = e.version
    <3>1. us # <<>>
      BY <1>6, <2>4, EmptySeq
    <3>. QED
      BY <2>2, <2>3, <2>4, <3>1 DEF Got
  <2>8. \A k \in 1 .. Len(rs) : us[k].since = rs[k].since /\ us[k].failed = rs[k].failed
    BY <2>3, <2>4
  <2>9. (\A k \in 1 .. Len(us) : us[k].since <= state) /\ (~gave_up[c] => \A k \in 1 .. Len(us) : ~us[k].failed)
    BY <1>2, <2>4, <2>8 DEF ClientSound, NoneAhead, FailureKnown
  <2>10. ASSUME Knows(s, rs, view[c], TRUE, gave_up[c], Announced)
         PROVE  Knows(t, us, view[c], TRUE, gave_up[c], Announced)
    <3>1. CASE Told(s, Announced)
      BY <1>5, <3>1 DEF Knows
    <3>2. CASE \E k \in 1 .. Len(rs) : Announced <= rs[k].since
      BY <2>4, <2>8, <3>2 DEF Knows
    <3>3. CASE /\ Between(s, Announced) /\ (Got(rs) # 0 => Announced <= Got(rs))
               /\ gave_up[c] \/ \A l \in Lists : Announced <= view[c][l]
      BY <1>11, <2>7, <3>3 DEF Knows
    <3>. QED
      BY <2>10, <3>1, <3>2, <3>3 DEF Knows
  <2>11. view \in [Client -> View] /\ gave_up \in [Client -> BOOLEAN]
    BY DEF SyncInv, SyncTypes
  <2>. QED
    BY <1>10, <1>11, <1>12, <2>4, <2>5, <2>6, <2>7, <2>9, <2>10, <2>11
<1>15. CASE rs[1].got["workspaces"] # 0
  <2>1. /\ e.kind = "tabs" /\ rs[1].since <= rs[1].got["workspaces"]
        /\ \A us \in Seq(Refresh) :
             /\ Len(us) = Len(rs) - 1
             /\ \A k \in 1 .. Len(rs) - 1 : us[k] = rs[k + 1]
             => Matched(t, us)
    BY <1>5, <1>15 DEF TakenBy
  <2>2. got["tabs"] = e.version /\ got["workspaces"] = Got(rs) /\ whole
    BY <1>4, <1>6, <1>8, <1>15, <2>1 DEF View, Lists
  <2>. HIDE DEF got
  <2>. DEFINE us == RemoveAt(rs, 1)
  <2>3. us \in Seq(Refresh) /\ Len(us) = Len(rs) - 1 /\ \A k \in 1 .. Len(rs) - 1 : us[k] = rs[k + 1]
    <3>1. /\ us \in Seq(Refresh) /\ Len(us) = Len(rs) - 1
          /\ \A k \in 1 .. Len(rs) - 1 : us[k] = IF k < 1 THEN rs[k] ELSE rs[k + 1]
      BY <1>2, <1>6, RemoveAtProperties
    <3>2. \A k \in 1 .. Len(rs) - 1 : ~(k < 1)
      OBVIOUS
    <3>. QED
      BY <3>1, <3>2
  <2>4. refreshes' = [refreshes EXCEPT ![c] = us]
    BY <1>7, <2>2
  <2>. HIDE DEF us
  <2>5. Matched(t, us)
    BY <2>1, <2>3
  <2>6. \A k \in 1 .. Len(us) : k + 1 \in 1 .. Len(rs) /\ k + 1 \in 2 .. Len(rs) /\ us[k] = rs[k + 1]
    BY <1>6, <2>3
  <2>7. Got(us) = 0
    <3>1. CASE us = <<>>
      BY <3>1 DEF Got
    <3>2. CASE us # <<>>
      <4>1. 1 \in 1 .. Len(us)
        BY <2>3, <3>2, EmptySeq
      <4>2. PICK k : k = 1 + 1 /\ k \in 2 .. Len(rs) /\ us[1] = rs[k]
        BY <2>6, <4>1
      <4>. QED
        BY <1>6, <3>2, <4>2 DEF Got
    <3>. QED
      BY <3>1, <3>2
  <2>8. \A k \in 1 .. Len(us) : us[k].since <= state
    BY <1>2, <2>6 DEF ClientSound, NoneAhead
  <2>9. ASSUME NEW k \in 1 .. Len(rs) PROVE k = 1 \/ (k - 1 \in 1 .. Len(us) /\ us[k - 1] = rs[k])
    <3>1. k = 1 \/ (k - 1 \in 1 .. Len(rs) - 1 /\ (k - 1) + 1 = k)
      BY <1>6
    <3>2. CASE k - 1 \in 1 .. Len(rs) - 1 /\ (k - 1) + 1 = k
      BY <2>3, <3>2
    <3>. QED
      BY <3>1, <3>2
  <2>10. view \in [Client -> View] /\ gave_up \in [Client -> BOOLEAN]
    BY DEF SyncInv, SyncTypes
  <2>11. ASSUME NEW v \in Nat, v <= rs[1].since PROVE v <= Got(rs) /\ v <= e.version /\ Between(t, v)
    <3>1. rs[1].since \in Nat /\ rs[1].since <= Got(rs) /\ rs[1].since <= e.version /\ Got(rs) \in Nat /\ e.version \in Nat
      BY <1>2, <1>4, <1>6, <2>1
    <3>2. v <= Got(rs) /\ v <= e.version
      BY <2>11, <3>1
    <3>. QED
      BY <1>13, <3>2
  <2>12. CASE rs[1].failed
    <3>1. view' = view /\ gave_up' = gave_up
      BY <1>7, <2>12
    <3>2. gave_up[c]
      BY <1>2, <1>6, <2>12 DEF ClientSound, FailureKnown
    <3>3. ASSUME Knows(s, rs, view[c], TRUE, gave_up[c], Announced)
          PROVE  Knows(t, us, view[c], TRUE, gave_up[c], Announced)
      <4>1. CASE Told(s, Announced)
        BY <1>5, <4>1 DEF Knows
      <4>2. CASE \E k \in 1 .. Len(rs) : Announced <= rs[k].since
        <5>1. PICK k \in 1 .. Len(rs) : Announced <= rs[k].since
          BY <4>2
        <5>2. CASE k = 1
          <6>1. Between(t, Announced)
            BY <1>2, <2>11, <5>1, <5>2
          <6>. QED
            BY <2>7, <3>2, <6>1 DEF Knows
        <5>3. CASE k - 1 \in 1 .. Len(us) /\ us[k - 1] = rs[k]
          BY <5>1, <5>3 DEF Knows
        <5>. QED
          BY <2>9, <5>2, <5>3
      <4>3. CASE Between(s, Announced)
        BY <1>11, <2>7, <3>2, <4>3 DEF Knows
      <4>. QED
        BY <3>3, <4>1, <4>2, <4>3 DEF Knows
    <3>4. Grows(t, Got(us), view[c], state)
      BY <1>11, <2>7
    <3>. QED
      BY <1>10, <1>12, <2>3, <2>4, <2>5, <2>8, <2>10, <3>1, <3>2, <3>3, <3>4
  <2>13. CASE ~rs[1].failed
    <3>1. /\ view' = [view EXCEPT ![c] = got]
          /\ gave_up' = [gave_up EXCEPT ![c] = \E k \in 1 + 1 .. Len(rs) : rs[k].failed]
      BY <1>7, <2>2, <2>13
    <3>2. /\ view'[c] = got /\ view' \in [Client -> View] /\ gave_up' \in [Client -> BOOLEAN]
          /\ gave_up'[c] <=> \E k \in 2 .. Len(rs) : rs[k].failed
          /\ \A d \in Client \ {c} : view'[d] = view[d] /\ gave_up'[d] = gave_up[d]
      BY <1>9, <2>10, <3>1
    <3>3. ~gave_up'[c] => \A k \in 1 .. Len(us) : ~us[k].failed
      BY <2>6, <3>2
    <3>4. Got(rs) # 0 /\ Grows(t, Got(us), got, state)
      <4>1. Got(rs) # 0
        BY <1>6, <1>15
      <4>. QED
        BY <1>9, <1>11, <2>2, <2>7, <4>1
    <3>5. ASSUME NEW v, Between(t, v), v <= Got(rs), v <= e.version
          PROVE  Knows(t, us, got, TRUE, gave_up'[c], v)
      BY <2>2, <2>7, <3>5 DEF Knows, Lists
    <3>6. ASSUME Knows(s, rs, view[c], TRUE, gave_up[c], Announced)
          PROVE  Knows(t, us, got, TRUE, gave_up'[c], Announced)
      <4>1. CASE Told(s, Announced)
        BY <1>5, <4>1 DEF Knows
      <4>2. CASE \E k \in 1 .. Len(rs) : Announced <= rs[k].since
        <5>1. PICK k \in 1 .. Len(rs) : Announced <= rs[k].since
          BY <4>2
        <5>2. CASE k = 1
          <6>1. Between(t, Announced) /\ Announced <= Got(rs) /\ Announced <= e.version
            BY <1>2, <2>11, <5>1, <5>2
          <6>. QED
            BY <3>5, <6>1
        <5>3. CASE k - 1 \in 1 .. Len(us) /\ us[k - 1] = rs[k]
          BY <5>1, <5>3 DEF Knows
        <5>. QED
          BY <2>9, <5>2, <5>3
      <4>3. CASE Between(s, Announced) /\ (Got(rs) # 0 => Announced <= Got(rs))
        BY <1>11, <3>4, <3>5, <4>3
      <4>. QED
        BY <3>6, <4>1, <4>2, <4>3 DEF Knows
    <3>7. \A l \in Lists : view'[c][l] >= view[c][l]
      <4>1. \A l \in Lists : got[l] \in Nat /\ got[l] \in {Got(rs), e.version}
        BY <1>2, <1>4, <2>2 DEF Lists
      <4>. QED
        BY <1>2, <1>4, <1>11, <3>2, <3>4, <4>1
    <3>. QED
      BY <1>10, <2>3, <2>4, <2>5, <2>8, <3>2, <3>3, <3>4, <3>6, <3>7
  <2>. QED
    BY <2>12, <2>13
<1>. QED
  BY <1>14, <1>15


\* A refresh fails: that is remembered, and its answers are still matched.
LEMMA RefreshFailsKeeps ==
  ASSUME SyncInv, NEW c \in Client, RefreshFails(c)
  PROVE  SyncInv'
<1>. USE DEF RefreshFails, host, loop
<1>. DEFINE rs == refreshes[c]
<1>1. /\ rs \in Seq(Refresh) /\ ClientSound(c) /\ DOMAIN rs = 1 .. Len(rs) /\ Len(rs) \in Nat
      /\ \A k \in 1 .. Len(rs) : rs[k] \in Refresh
  BY SyncFacts, LenProperties, ElementOfSeq
<1>2. PICK n \in 1 .. Len(rs) : refreshes' = [refreshes EXCEPT ![c][n].failed = TRUE]
  BY <1>1
<1>3. PICK r \in Refresh : r = [rs[n] EXCEPT !.failed = TRUE] /\ r.got = rs[n].got /\ r.since = rs[n].since
  <2>1. PICK q \in Refresh : q = rs[n]
    BY <1>1
  <2>2. /\ [q EXCEPT !.failed = TRUE] \in Refresh
        /\ [q EXCEPT !.failed = TRUE].got = q.got /\ [q EXCEPT !.failed = TRUE].since = q.since
    BY DEF Refresh
  <2>. QED
    BY <2>1, <2>2
<1>. DEFINE us == [rs EXCEPT ![n] = r]
<1>4. us \in Seq(Refresh) /\ Len(us) = Len(rs) /\ \A k \in 1 .. Len(rs) : us[k] = IF k = n THEN r ELSE rs[k]
  BY <1>1, ExceptSeq
<1>5. refreshes' = [refreshes EXCEPT ![c] = us]
  BY <1>2, <1>3
<1>. HIDE DEF us
<1>6. \A k \in 1 .. Len(rs) : us[k].got = rs[k].got /\ us[k].since = rs[k].since
  BY <1>3, <1>4
<1>7. Got(us) = Got(rs)
  <2>1. 1 \in 1 .. Len(rs) /\ Len(rs) # 0
    BY <1>1
  <2>2. rs # <<>> /\ us # <<>>
    BY <2>1, <1>4, EmptySeq
  <2>. QED
    BY <1>6, <2>1, <2>2 DEF Got
<1>8. /\ refreshes'[c] = us /\ gave_up'[c] = TRUE
      /\ refreshes' \in [Client -> Seq(Refresh)] /\ gave_up' \in [Client -> BOOLEAN]
  BY <1>4, <1>5 DEF SyncInv, SyncTypes
<1>9. SyncTypes'
  BY <1>8 DEF SyncInv, SyncTypes
<1>10. ClientSound(c)'
  <2>0. rs # <<>> /\ link[c] = "ready"
    <3>1. rs # <<>>
      BY <1>1, EmptySeq
    <3>. QED
      BY <1>1, <3>1 DEF ClientSound, LinkSound
  <2>1. LinkSound(c)' /\ NoneAhead(c)' /\ FailureKnown(c)'
    BY <1>1, <1>4, <1>6, <1>8, <2>0 DEF ClientSound, LinkSound, NoneAhead, FailureKnown
  <2>2. Mine(c)' = Mine(c) /\ Announced' = Announced
    BY DEF Mine, Announced
  <2>3. ListsSound(c)'
    <3>1. Matched(Mine(c), us)
      BY <1>1, <1>4, <1>6, MatchesAlike DEF ClientSound, ListsSound
    <3>. QED
      BY <1>1, <1>7, <1>8, <2>2, <3>1 DEF ClientSound, ListsSound
  <2>4. Hears(c)'
    <3>1. ASSUME Knows(Mine(c), rs, view[c], link[c] = "ready", gave_up[c], Announced)
          PROVE  Knows(Mine(c), us, view[c], link[c] = "ready", TRUE, Announced)
      BY <1>4, <1>6, <1>7, <3>1 DEF Knows
    <3>. QED
      BY <1>1, <1>8, <2>2, <3>1 DEF ClientSound, Hears
  <2>. QED
    BY <2>1, <2>3, <2>4 DEF ClientSound
<1>. HIDE DEF rs
<1>11. \A d \in Client \ {c} : refreshes'[d] = refreshes[d] /\ gave_up'[d] = gave_up[d]
  BY <1>5 DEF SyncInv, SyncTypes
<1>. QED
  BY <1>9, <1>10, <1>11, OthersKeep

\* With the connection all that was on it goes.
LEMMA ConnectionLostKeeps ==
  ASSUME SyncInv, NEW c \in Client, ConnectionLost(c)
  PROVE  SyncInv'
<1>. USE DEF ConnectionLost, Drops, host
<1>1. /\ session'[c] = "none" /\ channel'[c] = <<>> /\ requests'[c] = <<>> /\ wire'[c] = <<>> /\ refreshes'[c] = <<>>
      /\ link'[c] \in {"lost", "error"}
  BY DEF SyncInv, SyncTypes
<1>2. SyncTypes'
  <2>1. <<>> \in Seq(Version) /\ <<>> \in Seq(Requests) /\ <<>> \in Seq(Messages) /\ <<>> \in Seq(Refresh)
    OBVIOUS
  <2>2. /\ session' \in [Client -> {"none", "connected", "hello", "authenticated", "subscribed"}]
        /\ channel' \in [Client -> Seq(Version)] /\ requests' \in [Client -> Seq(Requests)]
        /\ wire' \in [Client -> Seq(Messages)] /\ refreshes' \in [Client -> Seq(Refresh)]
        /\ link' \in [Client -> {"idle", "connecting", "ready", "lost", "error"}]
    BY <2>1 DEF SyncInv, SyncTypes
  <2>. QED
    BY <2>2 DEF SyncInv, SyncTypes
<1>3. ClientSound(c)'
  <2>1. LinkSound(c)' /\ NoneAhead(c)' /\ FailureKnown(c)' /\ Hears(c)'
    BY <1>1, SyncFacts DEF ClientSound, LinkSound, NoneAhead, FailureKnown, Hears
  <2>2. view[c] \in View /\ \A l \in Lists : view[c][l] <= state
    BY SyncFacts
  <2>3. Matched(Slots(<<>>, <<>>), <<>>) /\ Grows(Slots(<<>>, <<>>), Got(<<>>), view[c], state)
    BY <2>2, NothingThere
  <2>4. ListsSound(c)'
    BY <1>1, <2>3 DEF ListsSound, Mine
  <2>. QED
    BY <2>1, <2>4 DEF ClientSound
<1>. QED
  BY <1>2, <1>3, OthersKeep DEF SyncInv, SyncTypes

\* The view is cleared.
LEMMA DisconnectedKeeps ==
  ASSUME SyncInv, NEW c \in Client, Disconnected(c)
  PROVE  SyncInv'
<1>. USE DEF Disconnected, host, loop
<1>1. link'[c] = "idle" /\ view'[c] = None /\ gave_up'[c] = FALSE
  BY DEF SyncInv, SyncTypes
<1>2. None \in View /\ \A l \in Lists : None[l] = 0
  BY BoundAssumption DEF None, View, Version
<1>3. SyncTypes'
  <2>1. /\ link' \in [Client -> {"idle", "connecting", "ready", "lost", "error"}]
        /\ view' \in [Client -> View] /\ gave_up' \in [Client -> BOOLEAN]
    BY <1>2 DEF SyncInv, SyncTypes
  <2>. QED
    BY <2>1 DEF SyncInv, SyncTypes
<1>4. wire[c] = <<>> /\ requests[c] = <<>> /\ refreshes[c] = <<>> /\ session[c] = "none"
  BY SyncFacts DEF ClientSound, LinkSound
<1>5. ClientSound(c)'
  <2>1. LinkSound(c)' /\ NoneAhead(c)' /\ FailureKnown(c)' /\ Hears(c)'
    BY <1>1, <1>4, SyncFacts DEF ClientSound, LinkSound, NoneAhead, FailureKnown, Hears
  <2>2. \A l \in Lists : None[l] <= state
    BY <1>2, SyncFacts
  <2>3. Matched(Mine(c), <<>>) /\ Grows(Mine(c), Got(<<>>), None, state)
    BY <1>2, <1>4, <2>2, NothingThere DEF Mine
  <2>4. ListsSound(c)'
    BY <1>1, <1>4, <2>3 DEF ListsSound, Mine
  <2>. QED
    BY <2>1, <2>4 DEF ClientSound
<1>. QED
  BY <1>3, <1>5, OthersKeep DEF SyncInv, SyncTypes

\* The invariant holds at first.
LEMMA SyncStarts == Init => SyncInv
<1> SUFFICES ASSUME Init PROVE SyncInv
  OBVIOUS
<1>. USE DEF Init
<1>1. 0 \in Version /\ 1 \in Version /\ None \in View /\ \A l \in Lists : None[l] = 0
  BY BoundAssumption DEF None, View, Version
<1>2. SyncTypes
  BY <1>1 DEF SyncTypes
<1>3. ASSUME NEW c \in Client PROVE ClientSound(c)
  <2>1. LinkSound(c) /\ NoneAhead(c) /\ FailureKnown(c) /\ Hears(c)
    BY DEF LinkSound, NoneAhead, FailureKnown, Hears
  <2>2. Matched(Mine(c), <<>>) /\ Grows(Mine(c), Got(<<>>), None, state)
    <3>1. \A l \in Lists : None[l] <= state
      BY <1>1
    <3>. QED
      BY <1>1, <3>1, NothingThere DEF Mine
  <2>3. ListsSound(c)
    BY <2>2 DEF ListsSound
  <2>. QED
    BY <2>1, <2>3 DEF ClientSound
<1>. QED
  BY <1>2, <1>3 DEF SyncInv

\* No step breaks it.
LEMMA SyncStep == SyncInv /\ [Next]_vars => SyncInv'
<1> SUFFICES ASSUME SyncInv, [Next]_vars PROVE SyncInv'
  OBVIOUS
<1>1. CASE UNCHANGED vars
  <2>1. UNCHANGED <<version, todo, state, session, greeting, joined, channel, requests, wire, link, view, refreshes, gave_up>>
    BY <1>1 DEF vars, host, loop, app
  <2>2. \A c \in Client : ClientSound(c)'
    BY <2>1 DEF SyncInv, ClientSound, LinkSound, NoneAhead, ListsSound, FailureKnown, Hears, Mine, Announced
  <2>3. SyncTypes'
    BY <2>1 DEF SyncInv, SyncTypes
  <2>. QED
    BY <2>2, <2>3 DEF SyncInv
<1>2. CASE PushStarts \/ PushWrites \/ PushNotifies
  BY <1>2, PushStartsKeeps, PushWritesKeeps, PushNotifiesKeeps
<1>3. ASSUME NEW c \in Client, Session(c) PROVE SyncInv'
  BY <1>3, HelloReadsKeeps, HelloAnswersKeeps, SubscribesKeeps DEF Session
<1>4. ASSUME NEW c \in Client, Receives(c) PROVE SyncInv'
  BY <1>4, ReceivesHelloKeeps, ReceivesInvalidatedKeeps, ReceivesListKeeps DEF Receives
<1>5. ASSUME NEW c \in Client, Serves(c) \/ Forwards(c) \/ Connects(c) PROVE SyncInv'
  BY <1>5, ServesKeeps, ForwardsKeeps, ConnectsKeeps
<1>6. ASSUME NEW c \in Client, UserRefreshes(c) \/ RefreshFails(c) \/ ConnectionLost(c) \/ Disconnected(c) PROVE SyncInv'
  BY <1>6, UserRefreshesKeeps, RefreshFailsKeeps, ConnectionLostKeeps, DisconnectedKeeps
<1>. QED
  BY <1>1, <1>2, <1>3, <1>4, <1>5, <1>6 DEF Next

\* Without a notification on the wire nobody is told.
LEMMA NothingTold ==
  ASSUME NEW w \in Seq(Messages), NEW q \in Seq(Requests), NEW v,
         \A p \in DOMAIN w : w[p].kind # "snapshot.invalidated"
  PROVE  ~Told(Slots(w, q), v)
<1>1. PICK s : /\ s = Slots(w, q) /\ s \in [1 .. Len(w) + Len(q) -> SlotRecords]
               /\ \A p \in 1 .. Len(w) : s[p] = w[p]
               /\ \A p \in Len(w) + 1 .. Len(w) + Len(q) :
                    s[p] = [kind |-> q[p - Len(w)], version |-> 0] /\ q[p - Len(w)] \in Requests
  BY SlotsAre
<1>2. Len(w) \in Nat /\ Len(q) \in Nat /\ DOMAIN w = 1 .. Len(w)
  BY LenProperties
<1>3. ASSUME NEW p \in 1 .. Len(w) + Len(q) PROVE s[p].kind # "snapshot.invalidated"
  <2>1. p \in 1 .. Len(w) \/ p \in Len(w) + 1 .. Len(w) + Len(q)
    BY <1>2
  <2>2. CASE p \in 1 .. Len(w)
    BY <1>1, <1>2, <2>2
  <2>3. CASE p \in Len(w) + 1 .. Len(w) + Len(q)
    <3>1. PICK x \in Requests : s[p] = [kind |-> x, version |-> 0]
      BY <1>1, <2>3
    <3>. QED
      BY <3>1 DEF Requests, Lists
  <2>. QED
    BY <2>1, <2>2, <2>3
<1>. QED
  BY <1>1, <1>3 DEF Told

\* What the invariant says of what is on the way is what the property says.
LEMMA NothingIsMissed == SyncInv => NothingMissed
<1> SUFFICES ASSUME SyncInv PROVE RefreshIsFresh /\ StaleHasCause
  BY DEF NothingMissed
<1>1. RefreshIsFresh
  <2> SUFFICES ASSUME NEW c \in Client, NEW k \in DOMAIN refreshes[c], NEW l \in Lists, refreshes[c][k].got[l] # 0
               PROVE  refreshes[c][k].got[l] >= refreshes[c][k].since
    BY DEF RefreshIsFresh
  <2>1. /\ refreshes[c] \in Seq(Refresh) /\ Matched(Mine(c), refreshes[c]) /\ DOMAIN refreshes[c] = 1 .. Len(refreshes[c])
    BY SyncFacts, LenProperties DEF ClientSound, ListsSound
  <2>2. PICK a, b \in [1 .. Len(refreshes[c]) -> Nat] : Match(Mine(c), refreshes[c], a, b)
    BY <2>1 DEF Matched
  <2>3. refreshes[c][k].got["tabs"] = 0 /\ (refreshes[c][k].got["workspaces"] # 0
                                             => refreshes[c][k].since <= refreshes[c][k].got["workspaces"])
    BY <2>1, <2>2 DEF Match
  <2>4. l = "workspaces" /\ refreshes[c][k] \in Refresh
    BY <2>1, <2>3, ElementOfSeq DEF Lists
  <2>. QED
    BY <2>3, <2>4 DEF Refresh, View, Version, Lists
<1>2. StaleHasCause
  <2> SUFFICES ASSUME NEW c \in Client, link[c] = "ready", session[c] = "subscribed", ~gave_up[c],
                      \A l \in Lists : view[c][l] >= joined[c],
                      NEW l \in Lists, view[c][l] < state, ~Coming(c)
               PROVE  FALSE
    BY DEF StaleHasCause
  <2>1. /\ ClientSound(c) /\ refreshes[c] \in Seq(Refresh) /\ wire[c] \in Seq(Messages) /\ requests[c] \in Seq(Requests)
        /\ DOMAIN refreshes[c] = 1 .. Len(refreshes[c]) /\ Len(refreshes[c]) \in Nat
        /\ DOMAIN wire[c] = 1 .. Len(wire[c]) /\ joined[c] \in Nat
        /\ \A m \in Lists : view[c][m] \in Nat /\ state \in Nat
    BY SyncFacts, LenProperties DEF Version
  <2>2. todo = {} /\ channel[c] = <<>> /\ (\A k \in DOMAIN wire[c] : wire[c][k].kind # "snapshot.invalidated")
    BY DEF Coming
  <2>3. Announced = state
    BY <2>2 DEF Announced, SyncInv, SyncTypes
  <2>4. 1 .. Len(refreshes[c]) = {}
    BY <2>1 DEF Coming, ClientSound, FailureKnown
  <2>5. joined[c] # Announced
    BY <2>1, <2>3
  <2>6. ~(\E i \in DOMAIN channel[c] : Announced <= channel[c][i])
    BY <2>2
  <2>7. ~Told(Mine(c), Announced)
    BY <2>1, <2>2, NothingTold DEF Mine
  <2>8. Knows(Mine(c), refreshes[c], view[c], link[c] = "ready", gave_up[c], Announced)
    BY <2>1, <2>5, <2>6 DEF ClientSound, Hears
  <2>9. Announced <= view[c][l]
    BY <2>4, <2>7, <2>8 DEF Knows
  <2>. QED
    BY <2>1, <2>3, <2>9
<1>. QED
  BY <1>1, <1>2

\* A step may not set a client back: only a connection's first view may be older
\* than what was there before.
LEMMA ViewStep ==
  ASSUME SyncInv, [Next]_vars
  PROVE  \A c \in Client, l \in Lists : link[c] = "ready" /\ link'[c] = "ready" => view'[c][l] >= view[c][l]
<1> SUFFICES ASSUME NEW c \in Client, NEW l \in Lists, link[c] = "ready", link'[c] = "ready"
             PROVE  view'[c][l] >= view[c][l]
  OBVIOUS
<1>1. view[c][l] \in Nat /\ view \in [Client -> View] /\ link \in [Client -> {"idle", "connecting", "ready", "lost", "error"}]
  BY SyncFacts DEF SyncInv, SyncTypes
<1>2. CASE UNCHANGED view
  BY <1>1, <1>2
<1>3. ASSUME NEW d \in Client, ReceivesHello(d) PROVE view'[c][l] >= view[c][l]
  <2>1. link[d] = "connecting"
    BY <1>3, ReceivesHelloKeeps
  <2>2. view'[c] = view[c]
    BY <1>1, <1>3, <2>1 DEF ReceivesHello
  <2>. QED
    BY <1>1, <2>2
<1>4. ASSUME NEW d \in Client, ReceivesList(d) PROVE view'[c][l] >= view[c][l]
  <2>1. CASE d = c
    BY <1>4, <2>1, ReceivesListKeeps
  <2>2. CASE d # c
    <3>1. view'[c] = view[c]
      BY <1>1, <1>4, <2>2 DEF ReceivesList
    <3>. QED
      BY <1>1, <3>1
  <2>. QED
    BY <2>1, <2>2
<1>5. ASSUME NEW d \in Client, Disconnected(d) PROVE view'[c][l] >= view[c][l]
  <2>1. view'[c] = view[c]
    BY <1>1, <1>5 DEF Disconnected
  <2>. QED
    BY <1>1, <2>1
<1>6. CASE PushStarts \/ PushWrites \/ PushNotifies
  BY <1>2, <1>6 DEF PushStarts, PushWrites, PushNotifies, Broadcasts, app
<1>7. ASSUME NEW d \in Client,
             Session(d) \/ Serves(d) \/ Forwards(d) \/ Connects(d) \/ ReceivesInvalidated(d)
               \/ UserRefreshes(d) \/ RefreshFails(d) \/ ConnectionLost(d)
      PROVE  UNCHANGED view
  BY <1>7 DEF Session, HelloReads, HelloAnswers, Subscribes, Serves, Forwards, Connects, ReceivesInvalidated,
              UserRefreshes, Refreshes, RefreshFails, ConnectionLost, Drops, app
<1>8. CASE UNCHANGED vars
  BY <1>2, <1>8 DEF vars, app
<1>. QED
  BY <1>2, <1>3, <1>4, <1>5, <1>6, <1>7, <1>8 DEF Next, Receives

\* No change of the desktop's snapshot is missed by a client that stays connected
\* (mod.rs:125-131, notifications.rs), whatever overlaps or lags: what a refresh
\* brings is not older than what it was asked for, and a client that is behind has
\* the cause of its next refresh on the way, or has had one fail.
THEOREM NoChangeIsMissed == Spec => []NothingMissed
<1>1. Spec => []SyncInv
  BY SyncStarts, SyncStep, PTL DEF Spec
<1>. QED
  BY <1>1, NothingIsMissed, PTL

\* However many refreshes overlap, neither list on a connected client's screen goes
\* back to an older state (App.tsx:87, session.ts:56).
THEOREM ViewOnlyMovesOn == Spec => ViewNeverGoesBack
<1>1. Spec => []SyncInv
  BY SyncStarts, SyncStep, PTL DEF Spec
<1>2. SyncInv /\ [Next]_vars
        => [\A c \in Client, l \in Lists :
              link[c] = "ready" /\ link'[c] = "ready" => view'[c][l] >= view[c][l]]_vars
  BY ViewStep
<1>. QED
  BY <1>1, <1>2, PTL DEF Spec, ViewNeverGoesBack
================================================================================

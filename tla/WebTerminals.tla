----------------------------- MODULE WebTerminals ------------------------------
(***************************************************************************)
(* The terminals of the web client: the registry of Terminal.tsx, whose    *)
(* entries outlive every view, the views of the workspace route that mount *)
(* them (workspace.tsx), and the effects of App.tsx that prune them when   *)
(* the snapshot or the client changes.  An entry opens its PTY and reads   *)
(* it in a loop of its own; opening, reading and the requests of the route *)
(* return at any time.  The effects of a commit run before the next event, *)
(* those of the registry's manager first, so they are part of the action   *)
(* that changes the store.                                                 *)
(***************************************************************************)
EXTENDS Naturals, FiniteSets, FiniteSetsExt

CONSTANTS
    WebTabs,    \* tab ids of the workspace, numbers
    MaxEntries, \* bound: registry entries ever created
    MaxSessions, \* bound: sessions established
    MaxMoves    \* bound: changes made on the host

ASSUME WebTerminalsAssumption ==
    /\ WebTabs \subseteq Nat /\ IsFiniteSet(WebTabs)
    /\ MaxEntries \in Nat /\ MaxSessions \in Nat /\ MaxMoves \in Nat

NoTab == 0
NoClient == 0
Nothing == [t \in {} |-> NoTab]

VARIABLES
    host_tabs,   \* the host: whether the pty of each of its tabs is ready
    clients,     \* sessions established so far; the last is the store's client
    live,        \* whether the store has a client
    tabs,        \* the store's snapshot: pty_ready of each tab
    web_refreshes,   \* refreshSnapshot under way: [client, made, result]
    entries,     \* every entry created: its tab, client, stopped and pty
    registry,    \* the registry: the entry of each key
    shown,       \* whether the workspace route is on the screen
    mounted,     \* the entry each PersistentTerminal captured when it mounted
    activeTabId, \* the tab selected, or NoTab
    host_moves   \* changes made on the host so far

webterm_vars == <<host_tabs, clients, live, tabs, web_refreshes, entries, registry, shown,
                  mounted, activeTabId, host_moves>>

Snapshots == UNION {[T -> BOOLEAN] : T \in SUBSET WebTabs}

WebTermTypeOK ==
    /\ host_tabs \in Snapshots /\ tabs \in Snapshots
    /\ clients \in 0..MaxSessions /\ live \in BOOLEAN /\ shown \in BOOLEAN
    /\ \A r \in web_refreshes : r.result \in Snapshots /\ r.made \in WebTabs \cup {NoTab}
    /\ \A e \in DOMAIN entries : entries[e].pty \in {"opening", "reading", "ended"}
    /\ DOMAIN registry \subseteq WebTabs /\ DOMAIN mounted \subseteq WebTabs
    /\ activeTabId \in WebTabs \cup {NoTab} /\ host_moves \in 0..MaxMoves

WebTermInit ==
    /\ host_tabs \in Snapshots /\ clients = 0 /\ live = FALSE
    /\ tabs = Nothing /\ web_refreshes = {} /\ entries = Nothing /\ registry = Nothing
    /\ shown = FALSE /\ mounted = Nothing /\ activeTabId = NoTab /\ host_moves = 0

(***************************************************************************)
(* Committing a change of the store or of the route.                       *)
(***************************************************************************)
Stopped(es, gone) ==
    [e \in DOMAIN es |-> IF e \in gone THEN [es[e] EXCEPT !.stopped = TRUE] ELSE es[e]]

(* pruneTerminalEntries and disposeEntry: what is no longer listed, or all *)
(* when the client has changed.                                            *)
Kept(listed, reset) == IF reset THEN {} ELSE DOMAIN registry \cap listed

(* getOrCreateEntry for the terminals that mount, of which those of FRESH  *)
(* find no entry to take over.  A mounted terminal keeps what it has.      *)
FirstTab(ts) == IF DOMAIN ts = {} THEN NoTab ELSE Min(DOMAIN ts)

Commit(ts, client, shows, reset, wanted) ==
    LET kept == Kept(DOMAIN ts, reset)
        ready == IF shows /\ client # NoClient THEN {t \in DOMAIN ts : ts[t]} ELSE {}
        mounts == IF reset \/ ~shown THEN ready ELSE ready \ DOMAIN mounted
        fresh == mounts \ kept
        before == Cardinality(DOMAIN entries)
        new == [t \in fresh |-> before + Cardinality({u \in fresh : u <= t})]
        left == Stopped(entries, {registry[t] : t \in DOMAIN registry \ kept})
    IN /\ before + Cardinality(fresh) <= MaxEntries
       /\ entries' = [e \in 1..before + Cardinality(fresh) |->
                        IF e <= before THEN left[e]
                        ELSE [tab |-> CHOOSE t \in fresh : new[t] = e, client |-> client,
                              stopped |-> FALSE, pty |-> "opening"]]
       /\ registry' = [t \in kept \cup fresh |-> IF t \in fresh THEN new[t] ELSE registry[t]]
       /\ mounted' = [t \in ready |-> IF t \in mounts THEN registry'[t] ELSE mounted[t]]
       /\ activeTabId' = IF ~shows THEN NoTab ELSE IF wanted \in DOMAIN ts THEN wanted ELSE FirstTab(ts)
       /\ tabs' = ts /\ live' = (client # NoClient) /\ shown' = shows

(***************************************************************************)
(* The session, and the host's tabs.                                       *)
(***************************************************************************)
(* setSessionReady with the hello's tabs.                                  *)
SessionReady ==
    /\ ~live /\ clients < MaxSessions /\ clients' = clients + 1
    /\ Commit(host_tabs, clients', shown, TRUE, activeTabId)
    /\ UNCHANGED <<host_tabs, web_refreshes, host_moves>>

(* clearSession or forgetHost: the snapshot is emptied.                    *)
SessionLost ==
    /\ live /\ UNCHANGED clients
    /\ Commit(Nothing, NoClient, shown, TRUE, activeTabId)
    /\ UNCHANGED <<host_tabs, web_refreshes, host_moves>>

(* On the host a tab comes, goes, or its pty becomes ready or stops.       *)
HostMoves(ts) ==
    /\ host_moves < MaxMoves /\ host_moves' = host_moves + 1
    /\ host_tabs' = ts /\ ts # host_tabs
    /\ UNCHANGED <<clients, live, tabs, web_refreshes, entries, registry, shown, mounted, activeTabId>>

(* refreshSnapshot: for a notification, a pull, or after a request of this *)
(* client; made is the tab that createTab returned, if any.                *)
Asks(made, ts) ==
    /\ live /\ Cardinality(web_refreshes) < 2
    /\ web_refreshes' = web_refreshes \cup {[client |-> clients, made |-> made, result |-> ts]}
    /\ UNCHANGED <<clients, live, tabs, entries, registry, shown, mounted, activeTabId>>

RefreshAsked == Asks(NoTab, host_tabs) /\ UNCHANGED <<host_tabs, host_moves>>

(* createWithSpec and performClose: the host has done it when they ask.    *)
createWithSpec(t) ==
    /\ shown /\ t \notin DOMAIN host_tabs
    /\ host_moves < MaxMoves /\ host_moves' = host_moves + 1
    /\ host_tabs' = [u \in DOMAIN host_tabs \cup {t} |-> IF u = t THEN FALSE ELSE host_tabs[u]]
    /\ Asks(t, host_tabs')

performClose(t) ==
    /\ shown /\ t \in DOMAIN tabs \cap DOMAIN host_tabs
    /\ host_moves < MaxMoves /\ host_moves' = host_moves + 1
    /\ host_tabs' = [u \in DOMAIN host_tabs \ {t} |-> host_tabs[u]]
    /\ Asks(NoTab, host_tabs')

(* replaceSnapshot, whichever answer comes last, and setActiveTabId.       *)
RefreshAnswered(r) ==
    /\ web_refreshes' = web_refreshes \ {r}
    /\ IF live /\ r.client = clients
       THEN Commit(r.result, clients, shown, FALSE, IF r.made = NoTab THEN activeTabId ELSE r.made)
       ELSE UNCHANGED <<tabs, live, entries, registry, shown, mounted, activeTabId>>
    /\ UNCHANGED <<host_tabs, clients, host_moves>>

(* To the workspace and back home.                                         *)
Navigates ==
    /\ Commit(tabs, IF live THEN clients ELSE NoClient, ~shown, FALSE, NoTab)
    /\ UNCHANGED <<host_tabs, clients, web_refreshes, host_moves>>

SelectsTab(t) ==
    /\ shown /\ t \in DOMAIN tabs /\ activeTabId' = t
    /\ UNCHANGED <<host_tabs, clients, live, tabs, web_refreshes, entries, registry, shown, mounted, host_moves>>

(***************************************************************************)
(* The loop of an entry.                                                   *)
(***************************************************************************)
EntryGoesOn(e, pty, key_goes) ==
    /\ LET es == IF key_goes /\ entries[e].tab \in DOMAIN registry
                 THEN Stopped(entries, {registry[entries[e].tab]}) ELSE entries
       IN entries' = [es EXCEPT ![e].pty = pty]
    /\ registry' = IF key_goes THEN [t \in DOMAIN registry \ {entries[e].tab} |-> registry[t]]
                   ELSE registry
    /\ UNCHANGED <<host_tabs, clients, live, tabs, web_refreshes, shown, mounted, activeTabId, host_moves>>

PtyOpened(e) ==
    /\ entries[e].pty = "opening"
    /\ EntryGoesOn(e, IF entries[e].stopped THEN "ended" ELSE "reading", FALSE)

(* disposeEntry by key: whatever is there under the key now.               *)
OpenFails(e) == entries[e].pty = "opening" /\ EntryGoesOn(e, "ended", TRUE)

(* StaysRegistered: a variant that leaves a dead entry where it was.       *)
StaysRegistered(e) ==
    /\ entries[e].pty = "reading"
    /\ entries' = [entries EXCEPT ![e].pty = "ended"]
    /\ UNCHANGED <<host_tabs, clients, live, tabs, web_refreshes, registry, shown, mounted, activeTabId, host_moves>>

(* The stream is closed or fails; a loop stopped from outside just ends.   *)
ReadEnds(e) ==
    /\ entries[e].pty = "reading"
    /\ EntryGoesOn(e, "ended", ~entries[e].stopped)

WebTermNext ==
    \/ SessionReady \/ SessionLost \/ Navigates \/ RefreshAsked
    \/ \E ts \in Snapshots : HostMoves(ts)
    \/ \E t \in WebTabs : createWithSpec(t) \/ performClose(t) \/ SelectsTab(t)
    \/ \E r \in web_refreshes : RefreshAnswered(r)
    \/ \E e \in DOMAIN entries : PtyOpened(e) \/ OpenFails(e) \/ ReadEnds(e)

WebTermSpec == WebTermInit /\ [][WebTermNext]_webterm_vars

(***************************************************************************)
(* Properties.                                                             *)
(***************************************************************************)
(* What a remount is handed is a terminal of a listed tab, on the client   *)
(* in use, that is opening or reading: no dead one stays behind, however   *)
(* openings, closed streams, prunings and reconnections cross.             *)
RegistryIsLive ==
    \A t \in DOMAIN registry :
        LET e == entries[registry[t]]
        IN e.tab = t /\ t \in DOMAIN tabs /\ live /\ e.client = clients
           /\ ~e.stopped /\ e.pty # "ended"

(* And no terminal outside the registry keeps a loop going: every entry    *)
(* not stopped or ended is the one under its key, and a terminal on the    *)
(* screen is that one or has died in view.                                 *)
NoStrayReader ==
    /\ \A e \in DOMAIN entries :
          ~entries[e].stopped /\ entries[e].pty # "ended" =>
              entries[e].tab \in DOMAIN registry /\ registry[entries[e].tab] = e
    /\ \A t \in DOMAIN mounted :
          LET e == entries[mounted[t]]
          IN e.stopped \/ e.pty = "ended" \/ (t \in DOMAIN registry /\ registry[t] = mounted[t])

TerminalsAreCurrent == RegistryIsLive /\ NoStrayReader
=============================================================================

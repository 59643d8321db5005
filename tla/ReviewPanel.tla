---------------------------- MODULE ReviewPanel -----------------------------
(***************************************************************************)
(* Which sandbox's changes the review panel shows: the panel keeps a list  *)
(* of changes and a watcher per sandbox, swaps the visible list with the   *)
(* stored one when another sandbox comes to the front, and is told of      *)
(* workspaces by the sidebar and of sandboxes by the terminal panel.       *)
(*                                                                         *)
(* A list is the service that reads and writes its files (the sandbox and  *)
(* the host's directory) and, for one path, whose change it shows.  A      *)
(* workspace stands for its own mount path.  ReviewFile has the rest of    *)
(* what happens to a path.                                                 *)
(***************************************************************************)
EXTENDS Naturals, Sequences, SequencesExt

CONSTANTS Projects,    \* the workspaces
          Boxes,       \* the sandboxes, one per agent tab
          Nothing,
          MaxTabs,     \* bound: tabs of a workspace
          MaxHostShells,  \* bound: host shells ever opened
          MaxRemote,   \* bound: workspaces activated from a remote client
          MaxResults   \* bound: changes the watchers report

\* A ChangesTab: the service of its files and, for the one path, whose change it shows.
ChangeLists == [service : [box : Boxes \cup {Nothing}, mount : Projects \cup {Nothing}],
                shows : Boxes \cup {Nothing}]

ASSUME PanelAssumption == {MaxTabs, MaxHostShells, MaxRemote, MaxResults} \subseteq Nat
                          /\ Nothing \notin Projects \cup Boxes \cup ChangeLists

VARIABLES tabs,        \* WorkspaceSession::tabs: sandboxes and host shells
          front,       \* active_tab, 0 without tabs
          ready,       \* the sandboxes that have booted
          sessions, active_ws,  \* TerminalPanel's sessions and active workspace
          sidebar_ws,  \* the sidebar's idea of the active workspace
          panel,       \* SidePanel
          box_results, \* the results on their way from a sandbox's bridge: at most one
          probing,     \* ProbeThenAdd tasks: of which sandbox's change
          shells, remotes, reported

terminal == <<tabs, front, ready, sessions, active_ws, sidebar_ws, shells, remotes>>
panel_vars == <<terminal, panel, box_results, probing, reported>>

HostTab == "host shell"
NoService == [box |-> Nothing, mount |-> Nothing]
NewTab == [service |-> NoService, shows |-> Nothing]

Panels == [visible : BOOLEAN, workspace : Projects \cup {Nothing}, key : Boxes \cup {Nothing},
           mount : Projects \cup {Nothing}, tab : ChangeLists,
           stored : [Boxes -> ChangeLists \cup {Nothing}],
           watching : [Boxes -> {"no", "yes", "ended"}], cache : [Projects -> ChangeLists]]

PanelTypeOK ==
  /\ tabs \in [Projects -> Seq(Boxes \cup {HostTab})]
  /\ front \in [Projects -> 0 .. MaxTabs] /\ ready \subseteq Boxes
  /\ sessions \subseteq Projects /\ {active_ws, sidebar_ws} \subseteq Projects \cup {Nothing}
  /\ panel \in Panels
  /\ box_results \in [Boxes -> {"none", "added", "modified"}] /\ probing \subseteq Boxes

PanelInit ==
  /\ tabs = [w \in Projects |-> <<>>] /\ front = [w \in Projects |-> 0]
  /\ ready = {} /\ sessions = {} /\ active_ws = Nothing /\ sidebar_ws = Nothing
  /\ panel = [visible |-> FALSE, workspace |-> Nothing, key |-> Nothing, mount |-> Nothing,
              tab |-> NewTab, stored |-> [b \in Boxes |-> Nothing],
              watching |-> [b \in Boxes |-> "no"], cache |-> [w \in Projects |-> NewTab]]
  /\ box_results = [b \in Boxes |-> "none"] /\ probing = {} /\ shells = 0 /\ remotes = 0 /\ reported = 0

-----------------------------------------------------------------------------
(* SidePanel *)

Watched(p, box) ==
  IF p.watching[box] # "no" THEN p
  ELSE [p EXCEPT !.watching[box] = "yes",
                 !.stored[box] = [service |-> [box |-> box, mount |-> p.mount], shows |-> Nothing]]

Swapped(p, box) ==
  IF box = Nothing THEN p ELSE
  IF p.stored[box] = Nothing THEN p ELSE [p EXCEPT !.tab = p.stored[box], !.stored[box] = p.tab]

\* Mistaken: the visible list is not put back before the next one is brought to the front.
SwapsIn(p, box) == IF p.key = box THEN p ELSE Swapped(p, box)

SwapsTo(p, box) == IF p.key = box THEN p ELSE Swapped(Swapped(p, p.key), box)

on_sandbox_ready(p, box) == [SwapsTo(Watched(p, box), box) EXCEPT !.key = box, !.visible = TRUE]

Dropped(p) == [p EXCEPT !.key = Nothing, !.watching = [b \in Boxes |-> "no"],
                        !.stored = [b \in Boxes |-> Nothing]]

show_waiting(p, w) ==
  LET kept == IF p.workspace = Nothing THEN p ELSE [p EXCEPT !.cache[p.workspace] = p.tab] IN
  IF p.workspace = w THEN p
  ELSE [Dropped(kept) EXCEPT !.workspace = w, !.mount = w,
                             !.tab.shows = kept.cache[w].shows, !.cache[w] = NewTab]

deactivate(p) == [Dropped(p) EXCEPT !.visible = FALSE, !.workspace = Nothing, !.mount = Nothing,
                                    !.tab = NewTab]

\* The watchers that are dropped take their results with them.
PanelBecomes(p) ==
  /\ panel' = p
  /\ box_results' = [b \in Boxes |-> IF p.watching[b] = "yes" THEN box_results[b] ELSE "none"]

-----------------------------------------------------------------------------
(* TerminalPanel *)

InTabs(tabs_of) == {tabs_of[i] : i \in DOMAIN tabs_of}

\* active_sandbox: the front tab's, or else that of the first agent tab that has one.
ActiveBox(tabs_of, i, booted) ==
  LET running == {k \in DOMAIN tabs_of : tabs_of[k] \in booted} IN
  IF i # 0 /\ tabs_of[i] \in booted THEN tabs_of[i]
  ELSE IF (i # 0 /\ tabs_of[i] = HostTab) \/ running = {} THEN Nothing
  ELSE tabs_of[CHOOSE k \in running : \A j \in running : k <= j]

Hidden(p) == [p EXCEPT !.visible = FALSE]
\* notify_side_panel, on what the tabs have become
Notified(p, w, active, booted) ==
  LET box == ActiveBox(tabs'[w], front'[w], booted) IN
  IF active # w THEN p ELSE IF box = Nothing THEN Hidden(p) ELSE on_sandbox_ready(p, box)

Opens(w, tab) ==
  /\ w = active_ws /\ Len(tabs[w]) < MaxTabs
  /\ tabs' = [tabs EXCEPT ![w] = Append(@, tab)]
  /\ front' = [front EXCEPT ![w] = Len(tabs'[w])]

OpenAgent(w, box) ==
  /\ box \notin UNION {InTabs(tabs[v]) : v \in Projects} \cup ready /\ Opens(w, box)
  /\ UNCHANGED <<ready, sessions, active_ws, sidebar_ws, panel, box_results, probing, shells, remotes, reported>>

OpenHostShell(w) ==
  /\ shells < MaxHostShells /\ shells' = shells + 1 /\ Opens(w, HostTab)
  /\ PanelBecomes(Notified(panel, w, active_ws, ready))
  /\ UNCHANGED <<ready, sessions, active_ws, sidebar_ws, probing, remotes, reported>>

\* A tab that was closed while it booted is not looked for here.
Booted(w, box) ==
  /\ box \in InTabs(tabs[w]) \ ready /\ ready' = ready \cup {box}
  /\ UNCHANGED <<tabs, front>>
  /\ PanelBecomes(Notified(panel, w, active_ws, ready'))
  /\ UNCHANGED <<sessions, active_ws, sidebar_ws, probing, shells, remotes, reported>>

SelectTab(w, i) ==
  /\ w = active_ws /\ i \in DOMAIN tabs[w]
  /\ front' = [front EXCEPT ![w] = i] /\ UNCHANGED tabs
  /\ PanelBecomes(Notified(panel, w, active_ws, ready))
  /\ UNCHANGED <<ready, sessions, active_ws, sidebar_ws, probing, shells, remotes, reported>>

\* force_close_tab, of any workspace: a remote client names it.
CloseTab(w, i) ==
  LET left == RemoveAt(tabs[w], i) IN
  /\ i \in DOMAIN tabs[w]
  /\ tabs' = [tabs EXCEPT ![w] = left] /\ front' = [front EXCEPT ![w] = Len(left)]
  /\ PanelBecomes(IF InTabs(left) \cap ready = {} THEN deactivate(panel) ELSE panel)
  /\ UNCHANGED <<ready, sessions, active_ws, sidebar_ws, probing, shells, remotes, reported>>

RemoveSession(w) ==
  /\ w \in sessions /\ sessions' = sessions \ {w}
  /\ tabs' = [tabs EXCEPT ![w] = <<>>] /\ front' = [front EXCEPT ![w] = 0]
  /\ active_ws' = IF active_ws = w THEN Nothing ELSE active_ws
  /\ PanelBecomes(IF active_ws = w THEN deactivate(panel) ELSE panel)
  /\ UNCHANGED <<ready, sidebar_ws, probing, shells, remotes, reported>>

\* A click in the sidebar: the terminal first, then show_waiting, then notify_side_panel.
ActivateFromSidebar(w) ==
  /\ sidebar_ws # w /\ sidebar_ws' = w
  /\ active_ws' = w /\ sessions' = sessions \cup {w} /\ UNCHANGED <<tabs, front>>
  /\ PanelBecomes(Notified(show_waiting(panel, w), w, w, ready))
  /\ UNCHANGED <<ready, probing, shells, remotes, reported>>

\* workspace.activate and tabs.create of a remote client activate a workspace in the terminal only.
ActivateRemotely(w) ==
  /\ remotes < MaxRemote /\ remotes' = remotes + 1
  /\ active_ws' = w /\ sessions' = sessions \cup {w}
  /\ UNCHANGED <<tabs, front, ready, sidebar_ws, panel, box_results, probing, shells, reported>>

-----------------------------------------------------------------------------
(* The watchers *)

\* The bridge of a sandbox that is watched has classified a change.
BoxChanges(box) ==
  /\ reported < MaxResults /\ reported' = reported + 1
  /\ box \in ready /\ panel.watching[box] = "yes" /\ box_results[box] = "none"
  /\ \E status \in {"added", "modified"} : box_results' = [box_results EXCEPT ![box] = status]
  /\ UNCHANGED <<terminal, panel, probing>>

\* apply_results: a new modified file is probed first, in the service of the list it is for.
Lists(tab, box, status) ==
  IF status = "added" /\ tab.shows = Nothing THEN [tab EXCEPT !.shows = box] ELSE tab
Probes(tab, status) == status = "modified" /\ tab.shows = Nothing /\ tab.service # NoService

\* The receiver: the sandbox's own list and, when it is in front, the visible one.  The loop goes
\* on only while the panel is visible.
Receive(box) ==
  LET status == box_results[box]
      own == panel.stored[box]
      inFront == panel.key = box IN
  /\ status # "none" /\ panel.watching[box] = "yes"
  /\ box_results' = [box_results EXCEPT ![box] = "none"]
  /\ panel' = [panel EXCEPT
       !.stored[box] = IF own = Nothing THEN own ELSE Lists(own, box, status),
       !.tab = IF inFront THEN Lists(@, box, status) ELSE @,
       !.watching[box] = IF panel.visible THEN "yes" ELSE "ended"]
  /\ probing' = IF (own # Nothing /\ Probes(own, status)) \/ (inFront /\ Probes(panel.tab, status))
                THEN probing \cup {box} ELSE probing
  /\ UNCHANGED <<terminal, reported>>

\* A probe adds its file to the list that is visible by then.
ProbeAnswers(box) ==
  /\ box \in probing /\ probing' = probing \ {box}
  /\ panel' \in {panel, [panel EXCEPT !.tab.shows = IF @ = Nothing THEN box ELSE @]}
  /\ UNCHANGED <<terminal, box_results, reported>>

\* The user keeps or discards what is shown.
Dealt ==
  /\ panel.visible /\ panel.tab.shows # Nothing
  /\ panel' = [panel EXCEPT !.tab.shows = Nothing]
  /\ UNCHANGED <<terminal, box_results, probing, reported>>

PanelNext ==
  \/ \E w \in Projects, box \in Boxes : OpenAgent(w, box) \/ Booted(w, box)
  \/ \E w \in Projects : OpenHostShell(w) \/ RemoveSession(w) \/ ActivateFromSidebar(w) \/ ActivateRemotely(w)
  \/ \E w \in Projects, i \in 1 .. MaxTabs : SelectTab(w, i) \/ CloseTab(w, i)
  \/ \E box \in Boxes : BoxChanges(box) \/ Receive(box) \/ ProbeAnswers(box)
  \/ Dealt

PanelSpec == PanelInit /\ [][PanelNext]_panel_vars

-----------------------------------------------------------------------------
(* Properties *)

\* The list in front belongs to the sandbox in front, and every other list that is kept to the
\* sandbox it is kept for, through any number of swaps: Keep and Discard act on the files shown.
ListsStayWithTheirBox ==
  /\ panel.key # Nothing => panel.tab.service.box = panel.key
  /\ \A box \in Boxes : panel.stored[box] # Nothing /\ box # panel.key
                          => panel.stored[box].service.box = box

\* What follows is said of the code, and the code does not keep it (README, section 7).

\* hide: the panel "should collapse but come back with the same changes when the user returns to a
\* sandboxed tab": a sandbox the panel shows still has someone who receives its changes.
ComesBackWatched == panel.visible /\ panel.key # Nothing => panel.watching[panel.key] = "yes"

\* start_sandbox_watcher: a sandbox's changes are accumulated independently of the others'.
AccumulatesIndependently == panel.key # Nothing => panel.tab.shows \in {Nothing, panel.key}

\* A list reads and writes the directory its sandbox has mounted.
KeepsOnOwnHost ==
  \A w \in Projects : panel.key \in InTabs(tabs[w]) => panel.tab.service.mount = w
=============================================================================

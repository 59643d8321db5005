---------------------------- MODULE TabLifecycle ----------------------------
(***************************************************************************)
(* Opening, booting, checkpointing, closing and restoring the tabs of the  *)
(* terminal panel (src/src/ui/terminal), and the shared map of PTY buses   *)
(* through which remote viewers reach them.  Every handler runs on the     *)
(* GPUI main thread and is one action; what a handler spawns (a sandbox    *)
(* boot, a guest shell, a checkpoint) finishes in an action of its own,    *)
(* any number of other handlers later, by the tab id it captured.          *)
(*                                                                         *)
(* Left out: the order of the tabs in a session and its active_tab index,  *)
(* labels, colours, the side panel, window focus.  An agent tab's sandbox  *)
(* is present exactly while its terminal is: the code sets and clears both *)
(* together, so the field terminal stands for the two.                     *)
(***************************************************************************)
EXTENDS Integers, FiniteSets, SequencesExt

CONSTANTS Workspace,     \* the rows of the workspaces table
          NoWorkspace,   \* active_workspace_id = None
          MaxTabs,       \* bound: tab ids handed out between two starts
          MaxRows,       \* bound: rows ever saved in terminal_tabs
          MaxSaves       \* bound: checkpoints of one tab in flight at once

ASSUME WorkspaceAssumption == NoWorkspace \notin Workspace
ASSUME BoundAssumption == MaxTabs \in Nat /\ MaxRows \in Nat /\ MaxSaves \in Nat

VARIABLES active_workspace_id,
          sessions,                \* workspaces with a session
          next_tab_id,
          made,                    \* per tab id: what its handlers captured
          open,                    \* ids of the tabs present in a session
          tab,                     \* per tab id: the TerminalTab
          missing_secrets_prompt,  \* the tab the single slot names, or 0
          pending_close,           \* the tab the close bar names, or 0
          pty_map,                 \* tab ids with a registered PtyBus
          tasks,                   \* <<what, tab id, n>>: spawned, unfinished
          workspaces, rows, next_row \* the database

panel == <<active_workspace_id, sessions, missing_secrets_prompt, pending_close>>
tabs == <<next_tab_id, made, open, tab>>
db == <<workspaces, rows, next_row>>
vars == <<panel, tabs, pty_map, tasks, db>>

Id == 1 .. MaxTabs
Row == 1 .. MaxRows

TerminalTab == [setup_steps: BOOLEAN, setup_error: {"none", "missing", "failed"},
                terminal: BOOLEAN, checkpointing: BOOLEAN,
                checkpoint_name: BOOLEAN, tab_db_id: Row \cup {0}]
Blank == [setup_steps |-> FALSE, setup_error |-> "none", terminal |-> FALSE,
          checkpointing |-> FALSE, checkpoint_name |-> FALSE, tab_db_id |-> 0]

Made == [ws: Workspace \cup {NoWorkspace},
         kind: {"none", "agent", "shell", "host"}, parent: Id \cup {0}]
Unmade == [ws |-> NoWorkspace, kind |-> "none", parent |-> 0]

\* The tabs a handler can create: [kind, parent, tab].
Agent(t) == [kind |-> "agent", parent |-> 0, tab |-> t]
Restored(r) == Agent([Blank EXCEPT !.checkpoint_name = TRUE, !.tab_db_id = r.row])
NewAgent(missing) ==
  Agent(IF missing THEN [Blank EXCEPT !.setup_error = "missing"]
                   ELSE [Blank EXCEPT !.setup_steps = TRUE])
GuestShell(p) == [kind |-> "shell", parent |-> p, tab |-> [Blank EXCEPT !.terminal = TRUE]]
HostShell == [kind |-> "host", parent |-> 0, tab |-> [Blank EXCEPT !.terminal = TRUE]]
NoShell == [kind |-> "none", parent |-> 0, tab |-> Blank]   \* the PTY did not open

Running(i) == i \in open /\ made[i].kind = "agent" /\ tab[i].terminal
Stopped(i) == i \in open /\ tab[i].checkpoint_name /\ ~tab[i].terminal
Children(i) == {c \in open : made[c].kind = "shell" /\ made[c].parent = i}
Visible(i) == i \in open /\ made[i].ws = active_workspace_id

Init ==
  /\ active_workspace_id = NoWorkspace /\ sessions = {}
  /\ missing_secrets_prompt = 0 /\ pending_close = 0
  /\ next_tab_id = 1 /\ open = {}
  /\ made = [i \in Id |-> Unmade] /\ tab = [i \in Id |-> Blank]
  /\ pty_map = {} /\ tasks = {}
  /\ workspaces = Workspace /\ rows = {} /\ next_row = 1

-----------------------------------------------------------------------------
\* Every new tab takes the next id.  A guest shell joins its session only when
\* its PTY is open; an agent joins at once and boots unless secrets are missing,
\* in which case it takes over the prompt.
Adds(ws, new, prompt) ==
  LET fresh == next_tab_id .. next_tab_id + Len(new) - 1
      At(i) == new[i - next_tab_id + 1]
      Of(kind) == {i \in fresh : At(i).kind = kind}
      asking == {i \in fresh : At(i).tab.setup_error = "missing"}
  IN /\ next_tab_id + Len(new) <= MaxTabs + 1
     /\ next_tab_id' = next_tab_id + Len(new)
     /\ made' = [i \in Id |-> IF i \in fresh
                  THEN [ws |-> ws, kind |-> At(i).kind, parent |-> At(i).parent] ELSE made[i]]
     /\ tab' = [i \in Id |-> IF i \in fresh THEN At(i).tab ELSE tab[i]]
     /\ open' = IF ws \in sessions' THEN open \cup Of("agent") \cup Of("host") ELSE open
     /\ pty_map' = pty_map \cup Of("host")
     /\ tasks' = tasks \cup {<<"boot", i, 1>> : i \in {j \in fresh : At(j).tab.setup_steps}}
                       \cup {<<"shell", i, 1>> : i \in Of("shell")}
     /\ missing_secrets_prompt' = IF asking = {} THEN prompt ELSE Max(asking)

\* What activate_workspace creates: nothing when the session is loaded, else the
\* saved tabs, else the auto-launched agent if the setting is on.
ActivationTabs(ws) ==
  LET saved == SetToSeq({r \in rows : r.ws = ws}) IN
  CASE ws \in sessions -> {<<>>}
    [] ws \notin sessions /\ saved # <<>> -> {[n \in DOMAIN saved |-> Restored(saved[n])]}
    [] OTHER -> {<<>>, <<NewAgent(FALSE)>>, <<NewAgent(TRUE)>>}

PromptOnSwitch(ws) == IF active_workspace_id = ws THEN missing_secrets_prompt ELSE 0

ActivateWorkspace(ws) ==
  /\ ws \in workspaces
  /\ active_workspace_id' = ws /\ sessions' = sessions \cup {ws}
  /\ \E new \in ActivationTabs(ws) : Adds(ws, new, PromptOnSwitch(ws))
  /\ UNCHANGED <<pending_close, db>>

\* One tab opened in the active workspace, from the desktop.
Opens(new) ==
  /\ active_workspace_id # NoWorkspace
  /\ UNCHANGED <<active_workspace_id, sessions>>
  /\ Adds(active_workspace_id, <<new>>, missing_secrets_prompt)
  /\ UNCHANGED <<pending_close, db>>

OpenAgentTab == \E missing \in BOOLEAN : Opens(NewAgent(missing))
OpenShellTab(p) == Visible(p) /\ Running(p) /\ Opens(GuestShell(p))
OpenHostShellTab == \E new \in {HostShell, NoShell} : Opens(new)
ForkTab(i) == Visible(i) /\ Stopped(i) /\ ~tab[i].setup_steps /\ OpenAgentTab

\* HostCommand::CreateTab: activate the workspace if it is not, then open; a
\* refusal (no permission, parent not running, no agent) comes after activation.
RemoteCreateTab(ws) ==
  LET parents == {p \in open : Running(p) /\ made[p].ws = ws}
      wanted == {<<>>} \cup {<<NewAgent(m)>> : m \in BOOLEAN}
                \cup {<<GuestShell(p)>> : p \in parents} \cup {<<HostShell>>, <<NoShell>>}
  IN /\ ws \in workspaces \/ ws = active_workspace_id
     /\ ws # NoWorkspace
     /\ active_workspace_id' = ws /\ sessions' = sessions \cup {ws}
     /\ \E first \in IF active_workspace_id = ws THEN {<<>>} ELSE ActivationTabs(ws), w \in wanted :
          Adds(ws, first \o w, PromptOnSwitch(ws))
     /\ UNCHANGED <<pending_close, db>>

-----------------------------------------------------------------------------
\* Spawned work comes back.
BootFinishes(i) ==
  /\ <<"boot", i, 1>> \in tasks
  /\ tasks' = (tasks \ {<<"boot", i, 1>>}) \cup {<<"tui", i, 1>>}
  /\ tab' = IF i \in open THEN [tab EXCEPT ![i].terminal = TRUE] ELSE tab
  /\ pty_map' = pty_map \cup {i}
  /\ UNCHANGED <<panel, next_tab_id, made, open, db>>

\* Mistaken: the error path returns without fail_setup.
BootFailsSilently(i) ==
  /\ <<"boot", i, 1>> \in tasks
  /\ tasks' = tasks \ {<<"boot", i, 1>>}
  /\ UNCHANGED <<panel, tabs, pty_map, db>>

BootFails(i) ==
  /\ <<"boot", i, 1>> \in tasks
  /\ tasks' = tasks \ {<<"boot", i, 1>>}
  /\ tab' = IF i \in open THEN [tab EXCEPT ![i].setup_error = "failed"] ELSE tab
  /\ UNCHANGED <<panel, next_tab_id, made, open, pty_map, db>>

\* The program drew its screen, or 10 s went by.
TuiReady(i) ==
  /\ <<"tui", i, 1>> \in tasks
  /\ tasks' = tasks \ {<<"tui", i, 1>>}
  /\ tab' = IF i \in open THEN [tab EXCEPT ![i].setup_steps = FALSE, ![i].setup_error = "none"]
                          ELSE tab
  /\ UNCHANGED <<panel, next_tab_id, made, open, pty_map, db>>

ShellOpened(i) ==
  /\ <<"shell", i, 1>> \in tasks
  /\ tasks' = tasks \ {<<"shell", i, 1>>}
  /\ open' = IF made[i].ws \in sessions THEN open \cup {i} ELSE open
  /\ pty_map' = pty_map \cup {i}
  /\ UNCHANGED <<panel, next_tab_id, made, tab, db>>

ShellFailed(i) ==
  /\ <<"shell", i, 1>> \in tasks
  /\ tasks' = tasks \ {<<"shell", i, 1>>}
  /\ UNCHANGED <<panel, tabs, pty_map, db>>

\* Mistaken: the shells' buses go, the shells stay.
CheckpointKeepsShells(i, n) ==
  /\ <<"checkpoint", i, n>> \in tasks
  /\ tasks' = tasks \ {<<"checkpoint", i, n>>}
  /\ tab' = IF i \in open THEN [tab EXCEPT ![i].checkpointing = FALSE, ![i].terminal = FALSE,
                                           ![i].checkpoint_name = TRUE] ELSE tab
  /\ pty_map' = pty_map \ ({i} \cup Children(i))
  /\ UNCHANGED <<panel, next_tab_id, made, open, db>>

\* The insert fails (db_id = None) when the workspace is gone, and may otherwise.
CheckpointFinishes(i, n) ==
  /\ <<"checkpoint", i, n>> \in tasks
  /\ tasks' = tasks \ {<<"checkpoint", i, n>>}
  /\ \E id \in {0} \cup (IF made[i].ws \in workspaces THEN {next_row} \cap Row ELSE {}) :
       /\ rows' = IF id = 0 THEN rows ELSE rows \cup {[row |-> id, ws |-> made[i].ws]}
       /\ next_row' = IF id = 0 THEN next_row ELSE next_row + 1
       /\ tab' = IF i \notin open THEN tab ELSE
                 [tab EXCEPT ![i].checkpointing = FALSE, ![i].terminal = FALSE,
                             ![i].checkpoint_name = TRUE, ![i].tab_db_id = id]
  /\ pty_map' = pty_map \ ({i} \cup Children(i))
  /\ open' = open \ Children(i)
  /\ UNCHANGED <<panel, next_tab_id, made, workspaces>>

CheckpointFails(i, n) ==
  /\ <<"checkpoint", i, n>> \in tasks
  /\ tasks' = tasks \ {<<"checkpoint", i, n>>}
  /\ tab' = IF i \in open THEN [tab EXCEPT ![i].checkpointing = FALSE] ELSE tab
  /\ UNCHANGED <<panel, next_tab_id, made, open, pty_map, db>>

-----------------------------------------------------------------------------
\* Closing.
ForceCloseTab(i) ==
  /\ pending_close' = 0
  /\ pty_map' = pty_map \ ({i} \cup Children(i))
  /\ open' = open \ ({i} \cup Children(i))
  /\ UNCHANGED <<active_workspace_id, sessions, missing_secrets_prompt,
                 next_tab_id, made, tab, tasks>>

\* Mistaken: the bus is dropped before the checkpoint is known to succeed.
CheckpointUnregistersFirst(i) ==
  /\ pending_close' = 0 /\ Running(i)
  /\ tab' = [tab EXCEPT ![i].checkpointing = TRUE]
  /\ tasks' = tasks \cup {<<"checkpoint", i, 1>>}
  /\ pty_map' = pty_map \ {i}
  /\ UNCHANGED <<active_workspace_id, sessions, missing_secrets_prompt,
                 next_tab_id, made, open, db>>

CheckpointTab(i) ==
  /\ pending_close' = 0
  /\ IF Running(i)
     THEN \E n \in 1 .. MaxSaves :
            /\ \A m \in 1 .. MaxSaves : m < n <=> <<"checkpoint", i, m>> \in tasks
            /\ tab' = [tab EXCEPT ![i].checkpointing = TRUE]
            /\ tasks' = tasks \cup {<<"checkpoint", i, n>>}
     ELSE UNCHANGED <<tab, tasks>>
  /\ UNCHANGED <<active_workspace_id, sessions, missing_secrets_prompt,
                 next_tab_id, made, open, pty_map, db>>

RequestCloseTab(i) ==
  /\ Visible(i)
  /\ \/ /\ Running(i)
        /\ pending_close' = i
        /\ UNCHANGED <<active_workspace_id, sessions, missing_secrets_prompt, tabs, pty_map, tasks>>
     \/ ~Running(i) /\ ForceCloseTab(i)
  /\ UNCHANGED db

AnswerCloseBar ==
  /\ pending_close # 0 /\ active_workspace_id # NoWorkspace
  /\ \/ /\ pending_close' = 0
        /\ UNCHANGED <<active_workspace_id, sessions, missing_secrets_prompt, tabs, pty_map, tasks, db>>
     \/ CheckpointTab(pending_close)
     \/ ForceCloseTab(pending_close) /\ UNCHANGED db

\* HostCommand::CloseTab, for the active workspace only, names any id, in the
\* session or not; an id of another workspace only takes the close bar down.
RemoteCloseTab(i) ==
  /\ active_workspace_id # NoWorkspace
  /\ \/ /\ made[i].ws = active_workspace_id
        /\ CheckpointTab(i) \/ (ForceCloseTab(i) /\ UNCHANGED db)
     \/ /\ made[i].ws # active_workspace_id
        /\ pending_close' = 0
        /\ UNCHANGED <<active_workspace_id, sessions, missing_secrets_prompt, tabs, pty_map, tasks, db>>

RemoveStoppedTab(i) ==
  /\ Visible(i) /\ Stopped(i) /\ ~tab[i].setup_steps /\ ~tab[i].checkpointing
  /\ rows' = {r \in rows : r.row # tab[i].tab_db_id}
  /\ ForceCloseTab(i)
  /\ UNCHANGED <<workspaces, next_row>>

\* remove_session, then delete_workspace, whose error is dropped.
RemoveWorkspace(ws) ==
  /\ ws \in workspaces
  /\ pty_map' = {i \in pty_map : made[i].ws # ws}
  /\ open' = {i \in open : made[i].ws # ws}
  /\ sessions' = sessions \ {ws}
  /\ active_workspace_id' = IF active_workspace_id = ws THEN NoWorkspace ELSE active_workspace_id
  /\ \/ UNCHANGED <<workspaces, rows>>
     \/ workspaces' = workspaces \ {ws} /\ rows' = {r \in rows : r.ws # ws}
  /\ UNCHANGED <<missing_secrets_prompt, pending_close, next_tab_id, made, tab, tasks, next_row>>

\* Mistaken: the prompt is read and not taken.
ResumeKeepsPrompt ==
  LET i == missing_secrets_prompt IN
  /\ tab' = IF i \in open THEN [tab EXCEPT ![i].setup_error = "none", ![i].setup_steps = TRUE]
                          ELSE tab
  /\ tasks' = tasks \cup {<<"boot", i, 1>>}
  /\ UNCHANGED <<panel, next_tab_id, made, open, pty_map, db>>

\* The prompted tab boots: the user skipped the bar (shown on that tab only), or
\* closed Settings with nothing missing any more.
ResumeBoot ==
  LET i == missing_secrets_prompt IN
  /\ missing_secrets_prompt' = 0
  /\ tab' = IF i \in open THEN [tab EXCEPT ![i].setup_error = "none", ![i].setup_steps = TRUE]
                          ELSE tab
  /\ tasks' = tasks \cup {<<"boot", i, 1>>}
  /\ UNCHANGED <<active_workspace_id, sessions, pending_close, next_tab_id, made, open, pty_map, db>>

DismissMissingSecrets ==
  missing_secrets_prompt # 0 /\ Visible(missing_secrets_prompt) /\ ResumeBoot
SettingsClosed == missing_secrets_prompt # 0 /\ ResumeBoot

\* The process ends and starts again: only the database is left.
Restart ==
  /\ active_workspace_id' = NoWorkspace /\ sessions' = {}
  /\ missing_secrets_prompt' = 0 /\ pending_close' = 0
  /\ next_tab_id' = 1 /\ open' = {}
  /\ made' = [i \in Id |-> Unmade] /\ tab' = [i \in Id |-> Blank]
  /\ pty_map' = {} /\ tasks' = {}
  /\ UNCHANGED db

BootEnds(i) == BootFinishes(i) \/ BootFails(i)
ShellEnds(i) == ShellOpened(i) \/ ShellFailed(i)
CheckpointEnds(i, n) == CheckpointFinishes(i, n) \/ CheckpointFails(i, n)

Next ==
  \/ \E ws \in Workspace : ActivateWorkspace(ws) \/ RemoteCreateTab(ws) \/ RemoveWorkspace(ws)
  \/ OpenAgentTab \/ OpenHostShellTab
  \/ \E i \in Id : \/ OpenShellTab(i) \/ ForkTab(i) \/ RequestCloseTab(i)
                   \/ RemoteCloseTab(i) \/ RemoveStoppedTab(i)
                   \/ BootEnds(i) \/ TuiReady(i) \/ ShellEnds(i)
                   \/ \E n \in 1 .. MaxSaves : CheckpointEnds(i, n)
  \/ AnswerCloseBar \/ DismissMissingSecrets \/ SettingsClosed \/ Restart

\* Every spawned task ends: boots retry three times, the wait for the screen has
\* a deadline of 10 s, and a sandbox call answers or errs.
Fairness == \A i \in Id : /\ WF_vars(BootEnds(i)) /\ WF_vars(TuiReady(i)) /\ WF_vars(ShellEnds(i))
                          /\ \A n \in 1 .. MaxSaves : WF_vars(CheckpointEnds(i, n))
Spec == Init /\ [][Next]_vars /\ Fairness

-----------------------------------------------------------------------------
TypeOK ==
  /\ active_workspace_id \in sessions \cup {NoWorkspace}
  /\ sessions \subseteq Workspace
  /\ next_tab_id \in 1 .. MaxTabs + 1
  /\ made \in [Id -> Made] /\ tab \in [Id -> TerminalTab]
  /\ open \subseteq {i \in Id : i < next_tab_id /\ made[i].ws \in sessions}
  /\ pty_map \subseteq Id
  /\ missing_secrets_prompt \in Id \cup {0} /\ pending_close \in Id \cup {0}
  /\ tasks \subseteq {"boot", "tui", "shell", "checkpoint"} \X Id \X (1 .. MaxSaves \cup {1})
  /\ workspaces \subseteq Workspace
  /\ rows \subseteq [row: Row, ws: Workspace] /\ next_row \in Nat

\* A tab with a live terminal can be attached from a remote client, whatever closed
\* or came back in between: its bus is registered (boot.rs:564, lifecycle.rs:48, :141).
LiveTabAttachable == \A i \in open : tab[i].terminal => i \in pty_map

\* Progress on the screen is always backed by work: a tab that shows setup steps has
\* a boot or a wait for its screen in flight, one that says "Saving checkpoint" has
\* a checkpoint in flight (workspace.rs:399, lifecycle.rs:89, boot.rs:449).
ProgressHasTask ==
  \A i \in open :
    /\ tab[i].setup_steps /\ tab[i].setup_error = "none" =>
         <<"boot", i, 1>> \in tasks \/ <<"tui", i, 1>> \in tasks
    /\ tab[i].checkpointing => \E n \in 1 .. MaxSaves : <<"checkpoint", i, n>> \in tasks

\* A tab boots one sandbox: no boot is in flight for a tab that already runs or was
\* stopped, so the prompt is answered once (lifecycle.rs:175, :226).
BootsOnce ==
  \A i \in Id : <<"boot", i, 1>> \in tasks /\ i \in open =>
                  ~tab[i].terminal /\ ~tab[i].checkpoint_name

\* The saved tabs shown are rows of their own workspace, and no two tabs stand for
\* one row, through double checkpoints, restores and restarts (workspace.rs:216).
TabsOwnTheirRows ==
  \A i \in open : tab[i].tab_db_id # 0 =>
    /\ [row |-> tab[i].tab_db_id, ws |-> made[i].ws] \in rows
    /\ \A j \in open \ {i} : tab[j].tab_db_id # tab[i].tab_db_id

\* A tab's work is in hand, never shown with nobody at it and never done twice, and a
\* tab is known wherever else it has to be: to the remote clients while it lives, to the
\* database once it is saved.
TabsAreInHand == ProgressHasTask /\ BootsOnce /\ LiveTabAttachable /\ TabsOwnTheirRows

\* No step that takes a tab out of its session leaves the tab's bus in the map, child
\* shells included (lifecycle.rs:29, :129, workspace.rs:161).
ClosedTabUnregistered == [][\A i \in open \ open' : i \notin pty_map']_vars

\* No step stops or closes an agent and leaves one of its guest shells in the
\* session (session.rs:205, lifecycle.rs:160).
ClosingTakesShells ==
  [][\A i \in open : Running(i) /\ ~Running(i)' => Children(i)' = {}]_vars

\* Nothing outlives the tab or the agent it belongs to.
ClosingIsClean == ClosedTabUnregistered /\ ClosingTakesShells

\* Setup never hangs: it ends with a terminal, an error, or the tab gone.
SetupEnds ==
  \A i \in Id : (i \in open /\ tab[i].setup_steps /\ tab[i].setup_error = "none")
                 ~> ~(i \in open /\ tab[i].setup_steps /\ tab[i].setup_error = "none")

\* What follows is said of the code, and the code does not keep it (README, section 7).

\* Comments at lifecycle.rs:29 and workspace.rs:161: a bus must not stay behind, or a
\* remote client attaches to the ghost of a closed tab.
NoGhostBus == pty_map \subseteq open

\* Comment at lifecycle.rs:139: once an agent is checkpointed its sandbox is torn
\* down and the PTYs of its shells with it; a shell that survives keeps it running.
StoppedAgentHasNoShell == \A i \in open : Stopped(i) => Children(i) = {}
=============================================================================

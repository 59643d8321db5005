------------------------------ MODULE Workspaces ------------------------------
(***************************************************************************)
(* Which workspace the desktop shows.  Four views each keep their own      *)
(* answer: the rows of the sidebar (workspace_list.rs, workspace_item.rs), *)
(* the terminal panel (workspace.rs), the side panel beside it             *)
(* (review/mod.rs), and the database behind them.  They are moved by       *)
(* clicks and shortcuts, by dialogs, and by the commands of remote clients *)
(* (AppView::on_host_command in main.rs), all on the main thread, so every *)
(* handler is one action.  The tabs of a workspace are TabLifecycle's.     *)
(***************************************************************************)
EXTENDS Naturals, SequencesExt

CONSTANTS
    MaxWorkspaces, \* bound: workspaces ever created
    MaxCommands    \* bound: commands of remote clients

ASSUME WorkspacesAssumption == MaxWorkspaces \in Nat /\ MaxCommands \in Nat

NoWs == 0
Ids == 1..MaxWorkspaces

VARIABLES
    stored,      \* list_workspaces: the rows of the database by tab_order
    created,     \* the last id given (ids are AUTOINCREMENT)
    list,        \* WorkspaceListView: active_workspace_id and the rows it shows
    menu,        \* the workspace of the open context menu, if any
    panel,       \* TerminalPanel: active_workspace_id and the sessions
    side,        \* SidePanel::workspace_id
    overlay,     \* what covers the window, of "settings" and "dialog"
    host_shell,  \* the setting remote_host_shell_enabled
    commands,    \* commands of remote clients so far
    answer,      \* what the last of them was answered
    astray       \* ghost: views a remote client has left behind

workspaces_vars == <<stored, created, list, menu, panel, side, overlay, host_shell,
                     commands, answer, astray>>

Views == {"list", "side"}
Answers == {"none", "ok", "NOT_FOUND", "PERMISSION_DENIED", "INTERNAL"}

WorkspacesTypeOK ==
    /\ stored \in Seq(Ids) /\ created \in 0..MaxWorkspaces
    /\ list.active \in Ids \cup {NoWs}
    /\ \A r \in ToSet(list.rows) : r.id \in Ids /\ r.is_active \in BOOLEAN
    /\ menu \in Ids \cup {NoWs} /\ side \in Ids \cup {NoWs}
    /\ panel.active \in Ids \cup {NoWs} /\ panel.sessions \subseteq Ids
    /\ overlay \subseteq {"settings", "dialog"} /\ host_shell \in BOOLEAN
    /\ commands \in 0..MaxCommands /\ answer \in Answers /\ astray \subseteq Views

(* An application that starts with the workspaces it was closed with.      *)
WorkspacesInit ==
    /\ created \in 0..1 /\ stored = [i \in 1..created |-> i]
    /\ list = [active |-> NoWs, rows |-> [i \in 1..created |-> [id |-> i, is_active |-> FALSE]]]
    /\ panel = [active |-> NoWs, sessions |-> {}]
    /\ menu = NoWs /\ side = NoWs /\ overlay = {} /\ host_shell = FALSE
    /\ commands = 0 /\ answer = "none" /\ astray = {}

(***************************************************************************)
(* What the handlers are built from.                                       *)
(***************************************************************************)
Rows(ws, active) == [i \in DOMAIN ws |-> [id |-> ws[i], is_active |-> ws[i] = active]]

(* refresh: the rows are built anew, and with the old ones goes the menu.  *)
refresh(ws, active) ==
    /\ list' = [active |-> active, rows |-> Rows(ws, active)]
    /\ menu' = NoWs

activate_workspace(w) == panel' = [active |-> w, sessions |-> panel.sessions \cup {w}]

show_waiting(w) == side' = w

(* A user at the desktop moves all the views, ws being the rows stored.    *)
Activates(w, ws) ==
    /\ activate_workspace(w) /\ show_waiting(w) /\ refresh(ws, w)
    /\ astray' = {}

(* remove_session, then delete_workspace, then the refresh.                *)
remove_session(w) ==
    /\ panel' = [active |-> IF panel.active = w THEN NoWs ELSE panel.active,
                 sessions |-> panel.sessions \ {w}]
    /\ side' = IF panel.active = w THEN NoWs ELSE side
    /\ astray' = IF panel.active = w THEN astray \ {"side"} ELSE astray

delete_workspace(w) == RemoveAt(stored, CHOOSE i \in DOMAIN stored : stored[i] = w)

(***************************************************************************)
(* The sidebar.                                                            *)
(***************************************************************************)
RowClick(i) ==
    /\ overlay = {} /\ menu = NoWs
    /\ ~list.rows[i].is_active
    /\ Activates(list.rows[i].id, stored)
    /\ UNCHANGED <<stored, created, overlay, host_shell, commands, answer>>

(* The shortcuts work below any overlay.                                   *)
activate_by_index(i) ==
    /\ i \in DOMAIN stored /\ list.active # stored[i]
    /\ Activates(stored[i], stored)
    /\ UNCHANGED <<stored, created, overlay, host_shell, commands, answer>>

Position == IF \E i \in DOMAIN stored : stored[i] = list.active
            THEN CHOOSE i \in DOMAIN stored : stored[i] = list.active ELSE 0

next_workspace ==
    /\ stored # <<>>
    /\ activate_by_index((Position % Len(stored)) + 1)

prev_workspace ==
    /\ stored # <<>>
    /\ activate_by_index(IF Position = 0 THEN 1
                         ELSE IF Position = 1 THEN Len(stored) ELSE Position - 1)

open_menu(i) ==
    /\ overlay = {} /\ menu = NoWs
    /\ menu' = list.rows[i].id
    /\ UNCHANGED <<stored, created, list, panel, side, overlay, host_shell, commands, answer, astray>>

close_menu ==
    /\ menu # NoWs /\ menu' = NoWs
    /\ UNCHANGED <<stored, created, list, panel, side, overlay, host_shell, commands, answer, astray>>

do_duplicate ==
    /\ menu # NoWs /\ created < MaxWorkspaces
    /\ created' = created + 1 /\ stored' = Append(stored, created')
    /\ refresh(stored', list.active)
    /\ UNCHANGED <<panel, side, overlay, host_shell, commands, answer, astray>>

(* The button of the menu, held to the end.                                *)
HoldToDelete ==
    /\ menu # NoWs
    /\ remove_session(menu)
    /\ stored' = delete_workspace(menu)
    /\ refresh(stored', list.active)
    /\ UNCHANGED <<created, overlay, host_shell, commands, answer>>

(* The git watcher, or another row's change, rebuilds the rows.            *)
RowsRebuilt ==
    /\ refresh(stored, list.active)
    /\ UNCHANGED <<stored, created, panel, side, overlay, host_shell, commands, answer, astray>>

(***************************************************************************)
(* Dialogs.                                                                *)
(***************************************************************************)
open_new_workspace_dialog ==
    /\ overlay' = overlay \cup {"dialog"}
    /\ UNCHANGED <<stored, created, list, menu, panel, side, host_shell, commands, answer, astray>>

(* The new row has tab_order max+1, so it is the last.                     *)
submit ==
    /\ "dialog" \in overlay /\ created < MaxWorkspaces
    /\ created' = created + 1 /\ stored' = Append(stored, created')
    /\ Activates(Last(stored'), stored')
    /\ overlay' = overlay \ {"dialog"}
    /\ UNCHANGED <<host_shell, commands, answer>>

dismiss ==
    /\ "dialog" \in overlay /\ overlay' = overlay \ {"dialog"}
    /\ UNCHANGED <<stored, created, list, menu, panel, side, host_shell, commands, answer, astray>>

(* clear_active: no row is marked while the settings are shown.            *)
open_settings ==
    /\ "settings" \notin overlay /\ overlay' = overlay \cup {"settings"}
    /\ list' = [active |-> NoWs,
                rows |-> [i \in DOMAIN list.rows |-> [id |-> list.rows[i].id, is_active |-> FALSE]]]
    /\ UNCHANGED <<stored, created, menu, panel, side, host_shell, commands, answer, astray>>

(* ClosesUnmarked: a variant that closes the settings and leaves the list  *)
(* unmarked.                                                               *)
ClosesUnmarked ==
    /\ "settings" \in overlay /\ overlay' = overlay \ {"settings"}
    /\ UNCHANGED <<stored, created, list, menu, panel, side, host_shell, commands, answer, astray>>

close_settings ==
    /\ "settings" \in overlay /\ overlay' = overlay \ {"settings"}
    /\ IF panel.active # NoWs
       THEN refresh(stored, panel.active) /\ astray' = astray \ {"list"}
       ELSE UNCHANGED <<list, menu, astray>>
    /\ UNCHANGED <<stored, created, panel, side, host_shell, commands, answer>>

AllowHostShell ==
    /\ "settings" \in overlay /\ host_shell' = ~host_shell
    /\ UNCHANGED <<stored, created, list, menu, panel, side, overlay, commands, answer, astray>>

(***************************************************************************)
(* Commands of remote clients: only the terminal panel follows them.       *)
(***************************************************************************)
Command(result) ==
    /\ commands < MaxCommands /\ commands' = commands + 1 /\ answer' = result
    /\ UNCHANGED <<stored, created, list, menu, side, overlay, host_shell>>

(* What both commands that open a workspace do first.                      *)
ActivatesForClient(w) ==
    /\ activate_workspace(w)
    /\ astray' = IF panel.active = w THEN astray ELSE Views

Refused(result) == Command(result) /\ UNCHANGED <<panel, astray>>

HostActivates(w) ==
    \/ w \in ToSet(stored) /\ ActivatesForClient(w) /\ Command("ok")
    \/ w \notin ToSet(stored) /\ Refused("NOT_FOUND")

(* The workspace is activated before the permission, the parent or the     *)
(* agent is looked at.                                                     *)
Opened(spec) ==
    CASE spec = "host" -> IF host_shell THEN {"ok", "INTERNAL"} ELSE {"PERMISSION_DENIED"}
      [] spec = "guest" -> {"ok", "INTERNAL"}
      [] spec = "agent" -> {"ok", "NOT_FOUND"}

HostCreatesTab(w, spec) ==
    \/ /\ w \in ToSet(stored) \/ panel.active = w
       /\ ActivatesForClient(w)
       /\ \E result \in Opened(spec) : Command(result)
    \/ w \notin ToSet(stored) /\ panel.active # w /\ Refused("NOT_FOUND")

HostClosesTab(w) ==
    Refused(IF panel.active = w THEN "ok" ELSE "NOT_FOUND")

(* write_attachment needs the session, not that its workspace is shown.    *)
WriteAttachment(w) ==
    \E result \in IF w \in panel.sessions THEN {"ok", "NOT_FOUND", "INTERNAL"}
                                          ELSE {"NOT_FOUND"} : Refused(result)

WorkspacesNext ==
    \/ \E i \in DOMAIN list.rows : RowClick(i)
    \/ \E i \in DOMAIN stored : activate_by_index(i)
    \/ next_workspace \/ prev_workspace
    \/ \E i \in DOMAIN list.rows : open_menu(i)
    \/ close_menu \/ do_duplicate \/ HoldToDelete \/ RowsRebuilt
    \/ open_new_workspace_dialog \/ submit \/ dismiss
    \/ open_settings \/ close_settings \/ AllowHostShell
    \/ \E w \in Ids : HostActivates(w)
    \/ \E w \in Ids, spec \in {"host", "guest", "agent"} : HostCreatesTab(w, spec)
    \/ \E w \in Ids : HostClosesTab(w)
    \/ \E w \in Ids : WriteAttachment(w)

WorkspacesSpec == WorkspacesInit /\ [][WorkspacesNext]_workspaces_vars

(***************************************************************************)
(* Properties.                                                             *)
(***************************************************************************)
Marked == {r.id : r \in {s \in ToSet(list.rows) : s.is_active}}

ListAgrees ==
    "list" \notin astray =>
        /\ Marked \subseteq {panel.active}
        /\ "settings" \notin overlay /\ panel.active # NoWs => Marked = {panel.active}

SideAgrees == "side" \notin astray => side = panel.active

(* The row marked in the sidebar, the tabs in the middle and the changes   *)
(* beside them are of one workspace, through every way of opening,         *)
(* creating and deleting one and through the settings, except after a      *)
(* remote client has moved the terminal panel alone.                       *)
ViewsAgree == ListAgrees /\ SideAgrees

(* The row with badge n is the one shortcut n opens, and no session (its   *)
(* sandboxes, its shells) is of a workspace the database no longer has.    *)
RowsAreStored ==
    /\ [i \in DOMAIN list.rows |-> list.rows[i].id] = stored
    /\ panel.sessions \subseteq ToSet(stored)

(* Sidebar, middle, side panel and database agree on the workspaces.       *)
WorkspacesAgree == ViewsAgree /\ RowsAreStored
=============================================================================

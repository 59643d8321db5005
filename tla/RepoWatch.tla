------------------------------ MODULE RepoWatch -------------------------------
(***************************************************************************)
(* The branch a row of the sidebar shows, and the watcher meant to keep it *)
(* current (git_watcher.rs; refresh and rebuild_git_watcher of             *)
(* workspace_list.rs).  Other programs change the repositories at any      *)
(* time; a watcher heard what happens at a mount path itself (.git       *)
(* appears or goes), and inside .git only where it found a repository when *)
(* it was installed.  refresh runs on the main thread, but the disk moves  *)
(* between its reading and the installing of the next watcher, so these    *)
(* are two steps.                                                          *)
(***************************************************************************)
EXTENDS Naturals, FiniteSets

CONSTANTS
    Mounts,      \* mount paths a workspace may have
    MaxChanges   \* bound: changes of the repositories

ASSUME RepoAssumption == MaxChanges \in Nat

NoRepo == "no repo"
Branches == {"main", "topic"}
NoWatcher == [p \in {} |-> FALSE]

VARIABLES
    head,     \* the disk: the branch HEAD names at each path, or NoRepo
    is_git,   \* the database: is_git_repo of the workspace at the path
    live_branch,  \* the rows, for each path that has a workspace
    entries,  \* the installed watcher: its paths, and whether each had a .git
    deaf,     \* paths of entries where watch() failed
    heard,  \* whether its channel holds a message
    task,     \* its task: "waiting", "settling" or "drained"
    found,    \* what a refresh under way has read, or NoWatcher
    missed,   \* ghost: paths changed where, or while, nothing listens
    changes   \* changes of the repositories so far

repo_vars == <<head, is_git, live_branch, entries, deaf, heard, task, found, missed, changes>>

RepoTypeOK ==
    /\ head \in [Mounts -> Branches \cup {NoRepo}] /\ is_git \in [Mounts -> BOOLEAN]
    /\ DOMAIN live_branch \subseteq Mounts /\ DOMAIN entries \subseteq Mounts
    /\ deaf \subseteq Mounts /\ missed \subseteq Mounts
    /\ heard \in BOOLEAN /\ task \in {"waiting", "settling", "drained"}
    /\ changes \in 0..MaxChanges

(* rebuild_git_watcher from a row's is_git_repo; watch() may fail at a path *)
(* and the watcher as a whole may fail.                                    *)
Installed(wanted) ==
    \/ /\ entries' = wanted
       /\ deaf' \in SUBSET DOMAIN wanted /\ Cardinality(deaf') <= 1
    \/ entries' = NoWatcher /\ deaf' = {}

(* The application starts: WorkspaceListView::new trusts the database, the *)
(* disk may have moved since.                                              *)
RepoInit ==
    /\ head \in [Mounts -> {"main", NoRepo}]
    /\ is_git \in [Mounts -> BOOLEAN]
    /\ \E rows \in SUBSET Mounts :
          /\ live_branch = [p \in rows |-> head[p]]
          /\ \E on \in {rows, {}} : entries = [p \in on |-> is_git[p]]
    /\ deaf = {} /\ heard = FALSE /\ task = "waiting" /\ found = NoWatcher
    /\ missed = {} /\ changes = 0

Hears(p, v) ==
    /\ p \in DOMAIN entries \ deaf
    /\ entries[p] \/ head[p] = NoRepo \/ v = NoRepo

(* git init, a checkout, a deleted repository.                             *)
RepoChanges(p, v) ==
    /\ changes < MaxChanges /\ changes' = changes + 1
    /\ head[p] # v /\ head' = [head EXCEPT ![p] = v]
    /\ heard' = (heard \/ Hears(p, v))
    /\ missed' = IF Hears(p, v) THEN missed ELSE missed \cup {p}
    /\ UNCHANGED <<is_git, live_branch, entries, deaf, task, found>>

(* An avatar arrived in the cache, or any other event in a watched place.  *)
OtherNotice ==
    /\ DOMAIN entries # {} /\ ~heard /\ heard' = TRUE
    /\ UNCHANGED <<head, is_git, live_branch, entries, deaf, task, found, missed, changes>>

(* The task of the watcher: a message, 80 ms, then whatever has come since. *)
TakesNotice ==
    /\ task = "waiting" /\ heard
    /\ heard' = FALSE /\ task' = "settling"
    /\ UNCHANGED <<head, is_git, live_branch, entries, deaf, found, missed, changes>>

(* SettlesForGood: a variant that takes the burst for noise.               *)
SettlesForGood ==
    /\ task = "settling"
    /\ heard' = FALSE /\ task' = "waiting"
    /\ UNCHANGED <<head, is_git, live_branch, entries, deaf, found, missed, changes>>

Settled ==
    /\ task = "settling"
    /\ heard' = FALSE /\ task' = "drained"
    /\ UNCHANGED <<head, is_git, live_branch, entries, deaf, found, missed, changes>>

Reads(rows) ==
    /\ found = NoWatcher
    /\ is_git' = [p \in Mounts |-> IF p \in rows THEN head[p] # NoRepo ELSE is_git[p]]
    /\ live_branch' = [p \in rows |-> head[p]]
    /\ found' = [p \in rows |-> head[p] # NoRepo]
    /\ missed' = missed \ rows

(* refresh, first half: the database is reconciled, the rows built.        *)
WatcherRefreshes ==
    /\ task = "drained" /\ Reads(DOMAIN live_branch) /\ DOMAIN live_branch # {}
    /\ task' = "waiting"
    /\ UNCHANGED <<head, entries, deaf, heard, changes>>

(* A workspace was created or deleted, or the list refreshed for another   *)
(* reason.                                                                 *)
ListRefreshes(rows) ==
    /\ rows # {} /\ Reads(rows)
    /\ UNCHANGED <<head, entries, deaf, heard, task, changes>>

(* RebuildsDraining: a variant that empties the channel after the refresh. *)
RebuildsDraining ==
    /\ found # NoWatcher /\ found' = NoWatcher
    /\ IF found = entries
       THEN heard' = FALSE /\ UNCHANGED <<entries, deaf, task, missed>>
       ELSE /\ Installed(found)
            /\ heard' = FALSE /\ task' = "waiting"
            /\ missed' = missed \cup {p \in DOMAIN live_branch : live_branch[p] # head[p]}
    /\ UNCHANGED <<head, is_git, live_branch, changes>>

(* rebuild_git_watcher: nothing to do while the entries are the same; else *)
(* the old watcher goes, and with it the task and what its channel holds.  *)
Rebuilds ==
    /\ found # NoWatcher /\ found' = NoWatcher
    /\ IF found = entries
       THEN UNCHANGED <<entries, deaf, heard, task, missed>>
       ELSE /\ Installed(found)
            /\ heard' = FALSE /\ task' = "waiting"
            /\ missed' = missed \cup {p \in DOMAIN live_branch : live_branch[p] # head[p]}
    /\ UNCHANGED <<head, is_git, live_branch, changes>>

RepoNext ==
    \/ \E p \in Mounts, v \in Branches \cup {NoRepo} : RepoChanges(p, v)
    \/ OtherNotice \/ TakesNotice \/ Settled \/ WatcherRefreshes
    \/ \E rows \in SUBSET Mounts : ListRefreshes(rows)
    \/ Rebuilds

RepoSpec == RepoInit /\ [][RepoNext]_repo_vars

(***************************************************************************)
(* Properties.                                                             *)
(***************************************************************************)
Stale(p) == p \in DOMAIN live_branch /\ live_branch[p] # head[p]

(* A branch the watcher hears of is shown: a row is behind the disk only   *)
(* while a message, the settling or a refresh is still to come, or where   *)
(* the change was out of the watcher's hearing.                            *)
StaleRowHasNotice ==
    \A p \in Mounts : Stale(p) =>
        p \in missed \/ heard \/ task \in {"settling", "drained"}

(* What follows is said of the code, and the code does not keep it         *)
(* (README, section 7).                                                    *)

(* "refresh() reconciles workspace.is_git_repo with reality before         *)
(* building views, so we can trust it here without re-statting": the .git  *)
(* of every row that shows a branch is watched.                            *)
RepoIsWatched ==
    \A p \in DOMAIN live_branch : live_branch[p] # NoRepo /\ p \in DOMAIN entries => entries[p]
=============================================================================

----------------------------- MODULE ReviewFile -----------------------------
(***************************************************************************)
(* The life of one file in the review panel: the agent changes it in the   *)
(* sandbox, the watcher settles the events and classifies them, the        *)
(* receiver lists the file, its row reads statistics and a diff on other   *)
(* threads, and the user keeps, discards or partly applies the change.     *)
(* Everything the panel holds is per path, so one path shows every         *)
(* interleaving of these parties.                                          *)
(*                                                                         *)
(* A content is a model value, text or binary (a zero byte near its start: *)
(* it has no lines to show); two texts that differ differ in some line.    *)
(* The sandbox sees the host's file through an overlay.  The host's file   *)
(* is changed by the panel only: nothing in the code watches that side.    *)
(***************************************************************************)
EXTENDS Naturals, Sequences, FiniteSets

CONSTANTS Texts,       \* contents a file may have
          Empty,       \* the empty one
          Binaries,    \* those that is_binary takes for binary
          NoFile,
          MaxChanges,  \* bound: changes to either side
          MaxOps,      \* bound: operations of the user
          MaxProbes,   \* bound: probes in flight
          MaxReads     \* bound: tasks of the row in flight when it is refreshed

ASSUME ReviewAssumption ==
  /\ {MaxChanges, MaxOps, MaxProbes, MaxReads} \subseteq Nat
  /\ Empty \in Texts /\ Binaries \subseteq Texts \ {Empty} /\ NoFile \notin Texts /\ {"unread", "through"} \cap (Texts \cup {NoFile}) = {}

VARIABLES hostFile, overlay,  \* the host's file, and what the sandbox has put over it
          changes,      \* how often either was changed
          fsEvents,     \* the sandbox's events not yet taken by the bridge
          settling,     \* raw[path]: the kind the batch has so far, or "none"
          cached_status,\* cached_files[path]
          results,      \* results on their way to the receiver
          listed,       \* the status of the path's entry in changed_files, or "none"
          suppressed,
          probes,       \* ProbeThenAdd tasks in flight
          row,          \* the path's FileRowView, or NoRow
          reads,        \* the row's statistics and diff tasks in flight
          tasks,        \* the user's operations in flight
          ops,          \* how many there were
          muddled       \* a batch held a delete and a write, or an operation met another change

files == <<hostFile, overlay, changes>>
watcher == <<fsEvents, settling, cached_status>>
list == <<listed, suppressed>>
review_vars == <<files, watcher, results, list, probes, row, reads, tasks, ops, muddled>>

Contents == Texts \cup {NoFile}
Statuses == {"modified", "added", "deleted"}
Through == "through"
boxFile == IF overlay = Through THEN hostFile ELSE overlay
Never == MaxChanges + 1
NoRow == [status |-> "none"]

\* What a task has read of the two sides; the host's side is read first.
Unread == [host |-> "unread", box |-> "unread", at |-> Never]
HalfRead == [host |-> hostFile, box |-> "unread", at |-> changes]
Text(content) == IF content = NoFile THEN Empty ELSE content
IsBinary(r) == {r.host, r.box} \cap Binaries # {}
\* Mistaken: a binary file has no line added and none removed.
NoLines(r) == IsBinary(r) \/ Text(r.host) = Text(r.box)
\* A binary side makes a difference whatever the two sides hold, and one without hunks.
NoDiff(r) == ~IsBinary(r) /\ Text(r.host) = Text(r.box)
HunksOf(r) == IF IsBinary(r) \/ NoDiff(r) THEN "none" ELSE "some"

ReviewTypeOK ==
  /\ hostFile \in Contents /\ overlay \in Contents \cup {Through} /\ changes \in 0 .. MaxChanges
  /\ fsEvents \in Seq({"modify", "delete"}) /\ settling \in {"none", "modify", "delete"}
  /\ cached_status \in Statuses \cup {"none"}
  /\ results \in Seq(Statuses \cup {"removed", "unchanged"})
  /\ listed \in Statuses \cup {"none"} /\ suppressed \in BOOLEAN
  /\ Len(probes) <= MaxProbes /\ ops \in 0 .. MaxOps /\ muddled \in BOOLEAN
  /\ row # NoRow => row.status \in Statuses /\ {row.stats, row.diff, row.since} \subseteq 0 .. Never
                   /\ row.hunks \in {"none", "some"}

ReviewInit ==
  /\ hostFile \in Contents /\ overlay = Through /\ changes = 0
  /\ fsEvents = <<>> /\ settling = "none" /\ cached_status = "none" /\ results = <<>>
  /\ listed = "none" /\ suppressed = FALSE
  /\ probes = <<>> /\ row = NoRow /\ reads = {} /\ tasks = {} /\ ops = 0 /\ muddled = FALSE

-----------------------------------------------------------------------------
(* The sandbox's side *)

\* The sandbox's file changes: its watch reports it.
BoxBecomes(content) ==
  /\ overlay' = content
  /\ fsEvents' = Append(fsEvents, IF boxFile' = NoFile THEN "delete" ELSE "modify")

AgentWrites ==
  /\ changes < MaxChanges /\ changes' = changes + 1
  /\ \E content \in Contents :
       /\ content # boxFile \/ content # NoFile
       /\ UNCHANGED hostFile /\ BoxBecomes(content)
  /\ muddled' = (muddled \/ tasks # {})
  /\ UNCHANGED <<settling, cached_status, results, list, probes, row, reads, tasks, ops>>

\* push: DELETE wins over MODIFY in a batch.
Drain ==
  /\ fsEvents # <<>> /\ fsEvents' = Tail(fsEvents)
  /\ settling' = IF settling = "delete" THEN "delete" ELSE Head(fsEvents)
  /\ muddled' = (muddled \/ settling \notin {"none", Head(fsEvents)})
  /\ UNCHANGED <<files, cached_status, results, list, probes, row, reads, tasks, ops>>

Classified(kind) ==
  IF kind = "delete"
  THEN IF hostFile = NoFile THEN "removed" ELSE "deleted"
  ELSE IF hostFile = NoFile THEN "added" ELSE "modified"

\* The batch has settled.  A repeated "deleted" names no file: with no other file in the batch
\* nothing is sent, with another one the path is only among the dirty ones.
Settle ==
  LET status == Classified(settling)
      repeated == status = "deleted" /\ cached_status = "deleted" IN
  /\ settling # "none" /\ settling' = "none"
  /\ cached_status' = IF status = "removed" THEN "none" ELSE status
  /\ results' \in IF repeated THEN {results, Append(results, "unchanged")}
                  ELSE {Append(results, status)}
  /\ UNCHANGED <<files, fsEvents, list, probes, row, reads, tasks, ops, muddled>>

-----------------------------------------------------------------------------
(* The list *)

\* kick_stats and kick_diff
Kick(kind) == [kind |-> kind, stale |-> FALSE, read |-> Unread]
Fresh(status, expanded) ==
  [status |-> status, since |-> changes, stats |-> Never, diff |-> Never, hunks |-> "none",
   diffing |-> expanded, expanded |-> expanded, staged |-> FALSE]

\* purge_cache bumps the generation: every task of the row in flight is stale.
Purged == {[r EXCEPT !.stale = TRUE] : r \in reads}
\* Mistaken: the tasks in flight keep their generation.
NotPurged(status) ==
  /\ row' = [Fresh(status, row.expanded) EXCEPT !.staged = row.staged /\ status = row.status]
  /\ reads' = reads \cup {Kick("stats")} \cup (IF row.expanded THEN {Kick("diff")} ELSE {})

Refreshed(status) ==
  /\ row' = [Fresh(status, row.expanded) EXCEPT !.staged = row.staged /\ status = row.status]
  /\ reads' = Purged \cup {Kick("stats")} \cup (IF row.expanded THEN {Kick("diff")} ELSE {})

\* RefreshContent and RefreshWithStatusChange
Refreshes(status) == IF row = NoRow THEN UNCHANGED <<row, reads>> ELSE Refreshed(status)

Unlisted == listed' = "none" /\ row' = NoRow /\ reads' = {}

\* decide_row_action and its arms; the path is no longer suppressed once it is dirty again.
ApplyResults ==
  LET status == Head(results) IN
  /\ results # <<>> /\ results' = Tail(results) /\ suppressed' = FALSE
  /\ \/ status = "unchanged" /\ UNCHANGED <<listed, row, reads, probes>>
     \/ status = "removed" /\ Unlisted /\ UNCHANGED probes
     \/ /\ status \in Statuses /\ listed # "none" /\ Cardinality(reads) <= MaxReads
        /\ listed' = status /\ UNCHANGED probes
        /\ Refreshes(status)
     \/ /\ status = "modified" /\ listed = "none" /\ Len(probes) < MaxProbes
        /\ probes' = Append(probes, Unread) /\ UNCHANGED <<listed, row, reads>>
     \/ /\ status \in Statuses \ {"modified"} /\ listed = "none"
        /\ listed' = status /\ UNCHANGED <<row, reads, probes>>
  /\ UNCHANGED <<files, watcher, tasks, ops, muddled>>

Without(s, i) == [j \in 1 .. Len(s) - 1 |-> IF j < i THEN s[j] ELSE s[j + 1]]
ReadOn(r) == IF r.host = "unread" THEN HalfRead ELSE [r EXCEPT !.box = boxFile]

ProbeReads(i) ==
  /\ probes[i].box = "unread" /\ probes' = [probes EXCEPT ![i] = ReadOn(@)]
  /\ UNCHANGED <<files, watcher, results, list, row, reads, tasks, ops, muddled>>

\* Mistaken: what became of the path while the probe was reading is not looked at.
ProbeAddsBlindly(i) ==
  /\ probes[i].box # "unread" /\ probes' = Without(probes, i)
  /\ listed' = IF NoDiff(probes[i]) THEN listed ELSE "modified"
  /\ UNCHANGED <<files, watcher, results, suppressed, row, reads, tasks, ops, muddled>>

ProbeAdds(i) ==
  /\ probes[i].box # "unread" /\ probes' = Without(probes, i)
  /\ listed' = IF NoDiff(probes[i]) \/ suppressed \/ listed # "none" THEN listed ELSE "modified"
  /\ UNCHANGED <<files, watcher, results, suppressed, row, reads, tasks, ops, muddled>>

-----------------------------------------------------------------------------
(* The row *)

\* ChangesTab::render makes the rows the list has gained.
Render ==
  /\ listed # "none" /\ row = NoRow
  /\ row' = Fresh(listed, FALSE) /\ reads' = {Kick("stats")}
  /\ UNCHANGED <<files, watcher, results, list, probes, tasks, ops, muddled>>

\* A click on the header; FileRowView::render starts the diff of an expanded row.
Toggle ==
  /\ row # NoRow
  /\ IF ~row.expanded /\ row.diff = Never /\ ~row.diffing
     THEN /\ row' = [row EXCEPT !.expanded = TRUE, !.diffing = TRUE]
          /\ reads' = reads \cup {Kick("diff")}
     ELSE row' = [row EXCEPT !.expanded = ~@] /\ UNCHANGED reads
  /\ UNCHANGED <<files, watcher, results, list, probes, tasks, ops, muddled>>

\* A line of the diff is unchecked, or the last unchecked one checked again.
StageLine ==
  /\ row # NoRow /\ row.status = "modified" /\ row.expanded /\ row.diff # Never /\ row.hunks = "some"
  /\ row' = [row EXCEPT !.staged = ~@]
  /\ UNCHANGED <<files, watcher, results, list, probes, reads, tasks, ops, muddled>>

RowReads(r) ==
  /\ r.read.box = "unread"
  /\ reads' = (reads \ {r}) \cup {[r EXCEPT !.read = ReadOn(@)]}
  /\ UNCHANGED <<files, watcher, results, list, probes, row, tasks, ops, muddled>>

WithDiff(v, read) ==
  [v EXCEPT !.stats = read.at, !.diff = read.at, !.diffing = FALSE, !.hunks = HunksOf(read)]

\* The result of a task: dropped when the row was refreshed meanwhile; an empty diff of a modified
\* file drops the row (on_empty).
RowTakes(r) ==
  /\ r.read.box # "unread"
  /\ \/ r.stale /\ reads' = reads \ {r} /\ UNCHANGED <<listed, row>>
     \/ ~r.stale /\ NoDiff(r.read) /\ row.status = "modified" /\ Unlisted
     \/ /\ ~r.stale /\ ~(NoDiff(r.read) /\ row.status = "modified")
        /\ reads' = reads \ {r} /\ UNCHANGED listed
        /\ row' = IF r.kind = "stats" THEN [row EXCEPT !.stats = r.read.at] ELSE WithDiff(row, r.read)
  /\ UNCHANGED <<files, watcher, results, suppressed, probes, tasks, ops, muddled>>

-----------------------------------------------------------------------------
(* The user *)

\* The panel forgets the file at once; the operation runs on its own.
Suppress(task) ==
  /\ ops < MaxOps /\ ops' = ops + 1
  /\ suppressed' = TRUE /\ Unlisted
  /\ tasks' = tasks \cup {task}
  /\ muddled' = (muddled \/ tasks # {} \/ fsEvents # <<>> \/ settling # "none" \/ results # <<>>)
  /\ UNCHANGED <<files, watcher, results, probes>>

\* Keep of the row, and Keep All
Keep ==
  /\ listed # "none"
  /\ Suppress([op |-> IF listed = "deleted" THEN "remove" ELSE "copy", n |-> ops, read |-> Unread])

\* Discard of the row, and Discard All
Discard ==
  /\ listed # "none"
  /\ Suppress([op |-> "discard", n |-> ops, read |-> Unread])

Apply ==
  /\ row # NoRow /\ row.status = "modified" /\ row.staged
  /\ Suppress([op |-> "apply", n |-> ops, read |-> Unread])

TaskEnds(task) == tasks' = tasks \ {task}

\* copy_to_host reads the sandbox's file, apply_partial the host's first.
TaskReads(task) ==
  /\ task.op \in {"copy", "apply"} /\ task.read.box = "unread"
  /\ tasks' = (tasks \ {task}) \cup
       {[task EXCEPT !.read = IF task.op = "copy" THEN [HalfRead EXCEPT !.box = boxFile] ELSE ReadOn(@)]}
  /\ UNCHANGED <<files, watcher, results, list, probes, row, reads, ops, muddled>>

\* keep_file: the file is copied to the host, or the host's file removed.
TaskKeeps(task) ==
  /\ \/ task.op = "remove"
     \/ task.op = "copy" /\ task.read.box \notin {"unread", NoFile}
  /\ changes < MaxChanges /\ changes' = changes + 1
  /\ hostFile' = IF task.op = "remove" THEN NoFile ELSE task.read.box
  /\ TaskEnds(task)
  /\ UNCHANGED <<overlay, watcher, results, list, probes, row, reads, ops, muddled>>

\* discard_overlay: the sandbox sees the host's file again.
TaskDiscards(task) ==
  /\ task.op = "discard" /\ TaskEnds(task)
  /\ changes < MaxChanges /\ changes' = changes + 1
  /\ UNCHANGED hostFile /\ BoxBecomes(Through)
  /\ UNCHANGED <<settling, cached_status, results, list, probes, row, reads, ops, muddled>>

\* apply_partial: what is rebuilt from both sides is written to the host, then to the sandbox.
\* Without hunks that is the host's text (of a binary: its lossy reading).
TaskApplies(task) ==
  /\ task.op = "apply" /\ task.read.box # "unread"
  /\ changes < MaxChanges /\ changes' = changes + 1
  /\ \E text \in Texts :
       /\ HunksOf(task.read) = "none" /\ task.read.host \notin Binaries => text = Text(task.read.host)
       /\ hostFile' = text
       /\ tasks' = (tasks \ {task}) \cup {[task EXCEPT !.op = "write", !.read = [@ EXCEPT !.box = text]]}
  /\ UNCHANGED <<overlay, watcher, results, list, probes, row, reads, ops, muddled>>

TaskWritesBox(task) ==
  /\ task.op = "write" /\ TaskEnds(task)
  /\ changes < MaxChanges /\ changes' = changes + 1
  /\ UNCHANGED hostFile /\ BoxBecomes(task.read.box)
  /\ UNCHANGED <<settling, cached_status, results, list, probes, row, reads, ops, muddled>>

\* A read or a write fails: the error is dropped.
TaskFails(task) ==
  /\ TaskEnds(task) /\ muddled' = TRUE
  /\ UNCHANGED <<files, watcher, results, list, probes, row, reads, ops>>

-----------------------------------------------------------------------------
TaskMoves == \E task \in tasks :
  TaskReads(task) \/ TaskKeeps(task) \/ TaskDiscards(task) \/ TaskApplies(task) \/ TaskWritesBox(task)
ProbeMoves == \E i \in 1 .. Len(probes) : ProbeReads(i) \/ ProbeAdds(i)
RowMoves == \E r \in reads : RowReads(r) \/ RowTakes(r)

ReviewNext ==
  \/ AgentWrites \/ Drain \/ Settle \/ ApplyResults
  \/ ProbeMoves \/ Render \/ Toggle \/ StageLine \/ RowMoves
  \/ Keep \/ Discard \/ Apply
  \/ TaskMoves \/ \E task \in tasks : TaskFails(task)

ReviewSpec == ReviewInit /\ [][ReviewNext]_review_vars

-----------------------------------------------------------------------------
(* Properties *)

\* A path the user has dealt with is not in the list before the sandbox changes it again: a probe
\* that was reading meanwhile must not bring it back.
DealtWithIsGone == suppressed => listed = "none"

\* What a row shows was read no earlier than its last refresh, whatever order the threads that
\* read it finish in.
RowIsFresh ==
  row # NoRow => \A at \in {row.stats, row.diff} : at # Never => at >= row.since

Quiet == fsEvents = <<>> /\ settling = "none" /\ results = <<>> /\ probes = <<>> /\ tasks = {}

\* Once everything is quiet every difference between the two sides is in the list under its own
\* kind, what the row shows is of the present, and a file the row found equal is off the list
\* (which a binary one never is, whatever its bytes); except where the code itself mixes two
\* changes up (a write and a delete in one batch, an operation while a change was under way).
ListIsTrue ==
  Quiet /\ ~muddled =>
    /\ hostFile # boxFile => listed = (IF boxFile = NoFile THEN "deleted"
                                       ELSE IF hostFile = NoFile THEN "added" ELSE "modified")
    /\ row # NoRow /\ reads = {} => row.stats = changes
    /\ row # NoRow /\ reads = {} => hostFile # boxFile \/ hostFile \in Binaries

\* What the panel says of a file: of the present, and nothing of what was dealt with.
FileIsTrue == DealtWithIsGone /\ RowIsFresh /\ ListIsTrue
=============================================================================

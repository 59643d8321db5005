# SuperHQ in TLA+

SuperHQ is a desktop application (Rust, GPUI) that runs coding agents in
sandboxes, one workspace per project and one tab per agent or shell, and lets a
paired phone or browser see and drive the same tabs over an iroh (QUIC)
connection. This directory holds its formal models: TLA+ modules for the parts
where threads, tasks, connections and callbacks meet, or where arithmetic on
positions is easy to get wrong; TLC configurations that check them on small
instances; and proofs, checked by TLAPS, of what matters most for every
instance. Paths below are relative to the repository root.

    tlc -workers 2 -config MCPtyAttach.cfg MCPtyAttach    # one run
    tlapm Host_proofs.tla                                 # the proofs of a module

`PROJECT.json` lists the runs with the properties they check, maps every
definition to the lines it models, and holds for each property a *mutant*: a
plausible mistake in one definition, written next to it and marked "Mistaken" or
"A variant", that TLC finds with the property.

## 1. Inventory

Two runtimes share the process. The **GPUI main thread** owns every view and
runs one callback at a time; what it spawns (`cx.spawn`) interleaves with other
callbacks at every `await`. A **tokio runtime** runs the remote server, the
sandbox library and the file watchers on several threads. They meet in shared
maps behind `RwLock`s (`PtyMap`, `RemoteStateSnapshot`), in flume queues
(`PairingApprover`, `HostCommandDispatcher`) answered through oneshots, and in a
tokio broadcast channel (`snapshot.invalidated`). The **web client** (Rust
compiled to WASM under a React application) is a third, remote actor.

| Component | State | Operations | What is hard | What makes it correct |
|---|---|---|---|---|
| PTY bus `src/ui/remote/pty_bus.rs` | last size per client, effective size, ring of output, broadcast sender | report / release a size, snapshot and subscribe, write | clients come and go in any order; a size is decided, then pushed | PTY = minimum over attached clients; nothing lost or doubled between snapshot and stream |
| PTY adapters `src/sandbox/pty_adapter.rs` | chunk, scrollback, mpsc to the local terminal | read, publish, exit | one thread feeds the desktop and all remote viewers | the desktop terminal never waits for a remote one |
| PTY handlers `src/ui/remote/handler.rs`, `crates/superhq-remote-host/src/session.rs` | one stream task per viewer | attach, stream, resize, detach | two calls on unordered streams; lost connections; two viewers of one device | a live viewer is counted, a gone one is not |
| Web terminal `.../web/src/components/Terminal.tsx`, `routes/workspace.tsx`, `crates/superhq-remote-client/src/wasm.rs` | xterm size, registry of terminals, mounted views | open, read, resize, mount, prune, reset | opening and reading outlive views, tabs and sessions | its size reaches the host; the registry holds the live terminals of this session and only those are read |
| Snapshot `src/ui/remote/mod.rs`, `snapshot.rs` | snapshot, hash, broadcast channel (16) | push | write, then announce; slow receivers lag | a client that is told sees the change |
| Control session `session.rs` | authenticated, device id, nonce, stream count | challenge, hello, one request at a time, push | subscription after hello; blocking handlers | no push is missed; a nonce proves once; the stream cap is exact |
| Client RPC `crates/superhq-remote-client/src/client.rs` | pending calls | call, receive, time out, drain | late answers, calls at the moment of the drain | every call ends, with its own answer |
| Web session `.../web/src/App.tsx`, `lib/session.ts`, `lib/storage.ts`, `state/store.ts` | session kind, paired host, stored and unlocked keys, lists | connect, unlock, pair, forget, refresh, reload | a passkey prompt of up to 60 s; overlapping two-call refreshes | the unlocked key is the stored one; the page connects or says why not; lists never go back |
| Tabs `src/ui/terminal/*` | sessions, tabs, prompt, close bar, `PtyMap`, rows of `terminal_tabs` | open, boot, checkpoint, close, fork, restore, remove | everything asynchronous finishes by tab id, after anything | a live tab is attachable, a closed one is not; setup ends |
| Host commands `commands.rs`, `main.rs` | flume queue | activate, create, close | 60 s timeout against late execution | an effect at most once, an answered command once |
| Attachments `session.rs`, `handler.rs`, `main.rs`, `client.rs` | a stream per upload, the queue, files where a tab runs | send, collect, write, type the path, answer | lost connection, closed tab or timeout at any step; a write that fails half way | a path typed or answered names a whole file; typed once at most |
| Workspaces `src/ui/sidebar/workspace_*.rs`, `main.rs` | sidebar rows, terminal panel, side panel, `workspaces` table | create, duplicate, activate, delete, overlays, shortcuts | four views keep the active workspace, each moved by its own handler | they agree |
| Git watcher `src/ui/sidebar/git_watcher.rs` | watched paths, channel, branch shown | notice, settle, drain, refresh, rebuild | the disk changes between any two of them | a row behind the disk has a notice coming |
| Pairing `approval.rs`, `pairing.rs`, `main.rs`, `pair.tsx` | one dialog, paired devices, stored credential | request, approve, reject, cancel, watchdog | 120 s, 60 s and the user's click race | who waits is on screen; what the browser keeps, the host has |
| Remote access `mod.rs` | server, secret, handler's id | start, stop, rotate | background shutdown, partial failures, kills | the server runs under the stored secret, and one at most |
| Audit log `audit.rs` | file, backups, size | log, rotate | failures and kills between renames | lines keep their order; only the oldest are lost |
| Agent status `src/sandbox/event_watcher.rs`, `agent_config.rs` | event file, watch, channel | append, settle, read, truncate, deliver | hooks append meanwhile | the tab shows the last event read |
| Agent setup `boot.rs`, `src/sandbox/*` | agent checkpoint, setup steps, prompt | install, save, boot, show | concurrent first boots, failures, restarts | no incomplete checkpoint; the steps shown are the steps done |
| Runtime image `src/runtime.rs`, `src/ui/setup.rs` | files, VERSION, setup screen | download, extract, verify | crash half way, versions up and down | the window opens over a whole runtime of its version |
| Review panel `src/ui/review/*` | statuses, list, rows, per-sandbox lists, hunks, selection | watch, probe, keep, discard, apply, swap, copy | five threads about one path; lists swapped between sandboxes; arithmetic of hunks | the list equals the disk when quiet; the list in front is the sandbox's in front; what is shown is what is applied |
| Auth gateway `src/sandbox/auth_gateway.rs` | listener, a task per connection | read method, refresh, read credential and account, send, relay | four reads of a vault that others edit; a relay's two loops, each blind while it sends | token and account of one login; a relay whose peers read ends with either side |
| Providers `oauth.rs`, `settings/providers.rs`, `secrets.rs` | vault, panel rows, login | save, remove, log in, refresh, boot | concurrent refreshes of a rotating token, removals meanwhile | the panel shows the vault, the vault holds the token the server accepts |
| Ports `src/ui/dialogs/ports.rs`, `service.rs` | two stored lists, binds of running sandboxes | add, remove, boot, bind | a bind answers after dialog or sandbox have gone | what is saved is bound |
| Text field `src/ui/components/text_input.rs` | text, selection, composition, history | type, delete, compose, drag, undo | bytes, characters and UTF-16 units | no slice off a character; undo brings back real texts |
| Terminal widget `crates/gpui-terminal` | emulator, queued events, selection, wheel remainder, replies | print, scroll, drag, draw, answer | events are applied a frame later, with output in between | selection and scrolling follow the hand; a program gets the reports it waits for |
| Database `src/db/*` | schema, version, key file, rows | open: key, migrations, built-in agents, import; save | cut short between any two steps; builds up and down; errors ignored | a running program has its schema; a key entered is not replaced; a saved tab has its agent |
| Wire types, settings, dock, agents' scripts, avatars, glyphs | | | no behaviour of their own beyond single statements and drawing | not modelled, section 8 |

`PROJECT.json` lists each with its status, and the *hazards*: what in this code
is hard to test, at its line, with the properties that watch it.

## 2. Plan

Done, in the order of importance for a user of the remote terminal: the size
aggregator and its handlers (proved), the output path with its abstract feed, tabs
and boots, the client's lists; then the session and its calls, pairing, remote
access and the audit log; the review panel; agents (runtime, boot, events,
terminal); the desktop's window (workspaces, git, ports, providers, text field);
the web client's session and terminals.

Then the attachments, the gateway and the opening of the database; and proofs of
the safety of every module: SnapshotSync's, and last of all that of the four modules
whose operators compute over data (section 6).

What TLC checks and no theorem states is liveness (section 6).

## 3. Modules

### The remote terminal

**PtyBus** is the size aggregator. `per_client`, `effective` are the fields of
`PtyBusInner`'s size state; `pty_size` and `alive` are the process's side of
`PtyWriter::resize`. Every public operation takes one mutex, so
`ReportClientSize`, `ReleaseClient` are one step each, both through `UpdateWith`, as
in the code. `BusSpec` is the bus under *any* use; the proofs carry what it keeps over
to PtyAttach, whose steps use the bus only through these operations.

**PtyAttach** is the handlers and the web client. One viewer is one xterm on one
tab. `PtyAttach` (attach call), `PtyStreamInit` (init acknowledged), `PtyStreamStart`
(`pty_stream` begins), `InputEnds`, `OutputWrites`, `PtyStreamEnds` (the two tasks
and `join!`), `PtyResize`, `PtyDetach`, `PtyStreamNever` are the host's steps;
`XtermResize` and `PeerGone` are the client's; `LocalResize`, `PtyEmits`,
`TabCloses`, `ProcessExits` the desktop's. `shared` and `outdated` are history:
viewers that overlapped with another of their device, and viewers whose last size
was dropped or overwritten. They delimit exactly the cases in which the code breaks
the promises `LiveViewerCounted` and `RecordedIsAdvertised` (section 7). Simplified:
the host-shell permission gate before attach, connections without a device id
(possible only with the environment override that disables authentication), mutex
poisoning. `pty.detach` is part of the RPC surface; the web client never calls it.

**OutputFeed, PtyOutput.** Bytes are numbered as the process writes them. OutputFeed
says what a viewer is promised: it joins with the newest `ScrollCap` bytes, is shown
every byte once, in order, and may skip only what is older than the last `Window`.
PtyOutput is the code: the bridge thread's lock - push - broadcast - unlock -
forward (`Bridge*`), the local reader's `Read::read` with its left-over buffer
(`Local*`), `snapshot_and_subscribe` in three steps under the same lock
(`Viewer*`), and the output task with tokio's lag rule. The broadcast ring is the
last `BusCap` entries of `log`. `ImplementsFeed` is the refinement. The host-shell
reader (`HostShellTappedReader`) publishes in the same order under the same lock and
is covered by the same actions.

**SnapshotSync.** A snapshot is a version. `PushStarts`, `PushWrites`, `PushNotifies`
are the three parts of `push_snapshot`, which other threads can see apart.
`HelloReads`, `HelloAnswers`, `Subscribes` are the first request of a session and the
turn of the loop after it; `Serves` and `Forwards` the two arms of its `select!`. On
the client, `ReceivesHello`, `ReceivesInvalidated`, `ReceivesList` drain the wire per
kind (responses go to waiting calls, notifications to a queue, so they may overtake
one another), `RefreshFails` is the RPC timeout, `ConnectionLost` and
`Disconnected` the drop and the cleared session.

**ControlSession** is one connection: `Call`, `CallSends`, `CallTimesOut`,
`ReceivesResponse` and `ReceiveLoopExits` are `RemoteClient::call` and its receive
loop; `HostReads` the control loop with its two own methods and the gate before
authentication; `CommandAnswered`, `CommandTimesOut` and the main thread's turn the
dispatcher; the streams have their counter, their cap and each of their exits. A
method is one of the session's or "command", since reads change nothing.

**WebSession** has the store's `pairedHost`, session and client, the IndexedDB `row`
and the page's `cache` of each host, and every `establishSession` and `runPair` under
way with the key it holds. `ConnectNow`, `AttemptStep`, `AttemptFails`, `onForget` and
the rest are the effects and handlers between two awaits.

**WebTerminals** numbers registry entries and mounts; an entry lives from its first
mount until it is stopped, whatever has become of the registry's key. The effects
of a commit (prune, reset) belong to the action that changes the store, as React
runs them before the next event.

**Uploads.** An upload has its client (`at`), its connection (`linked`), and the
host's task with the pieces it has; the write and the typing of the path are the
main thread's turn `WriteAttachment`, which goes on after its caller has timed out.
A guest shell's files go where its agent's do (`PlaceOf`).

### The host

**Database** is `Database::open`, step by step over files that outlive the process:
`load_or_create_key`, `Migrates` and `Records` for each version, `EnsuresTables`,
`sync_builtin_agents`, `ImportsKey`, `Renames`. The next launch may be of an earlier
or later build. `swallowed` marks the migrations recorded although their statement
failed, `stayed` an old configuration file that outlived a start.

**Pairing.** An attempt is one `runPair`, with its connection, request and device.
`status`, `cancelled`, `ref` are the page's, `approvals` the flume queue,
`pending_pairing` and `watching` the main thread's dialog and watchdogs.

**RemoteAccess.** A secret is a number and so is every endpoint of a start. `rotation`
is the program counter of `rotate_endpoint_secret`, which blocks the main thread but
not the async runtime; a kill may come between any two of its steps.

**AuditLog.** Lines are numbered; each rename, write and reopening is a step and may
fail, or be the last before the program is opened again.

**TabLifecycle.** `sessions`, `tab`, `missing_secrets_prompt`, `pending_close`,
`pty_map` are the fields of `TerminalPanel`; `rows` is the table `terminal_tabs`;
`tasks` is what has been spawned and has not completed. Each handler is an action of
the same name; each completion is one too (`BootFinishes`, `BootFails`, `TuiReady`,
`ShellOpened`, `ShellFailed`, `CheckpointFinishes`, `CheckpointFails`), finds its tab
by id, and runs whether or not the tab is still there - as the code's do.
`RemoteCreateTab` and `RemoteCloseTab` are `AppView::on_host_command`. `Restart`
forgets everything but the database. Simplified: the order of tabs and
`active_tab`, titles, agent status, checkpoint names. The sandbox of an agent tab is
present exactly when its terminal is, so `terminal` stands for both. A boot's inner
steps are one task here and AgentBoot's subject.

### Agents

**RuntimeInstall.** The disk (each file of which version and whether whole, the
VERSION stamp) outlives the process; the program of any version may be started
next. `blurred` marks files replaced under a stamp that stayed.

**AgentBoot.** All tabs run one agent. `boot` is each tab's task with what it
captured, `base` the set of install steps in the agent's checkpoint, `setup` the
list the tab shows.

**AgentEvents.** From the hook's line, by number, through the watch's notices, the
reading and the separate truncation, the channel and the bridge, to the tab.
`unwatched` marks the lines nothing makes the thread read.

**Gateway.** `task` is a connection's task: what it has read so far (`ReadsMethod`,
`Refreshes`, `ReadsCredential`, `ReadsAccount`), then a request upstream or a relay.
`crossed` marks a request under which the vault was edited, `granted` the serial a
refresh of its own got. A relay is the two loops of `handle_websocket`, one per direction
(`relay`): `Reads` is `next()`, a send or close in progress `Waits` until it is `Taken`
or `SendFails`, and a loop that waits sees nothing of the side it reads from. The first
loop to end (`select`) ends the task and drops both sides (`RelayEnds`).

**TerminalView.** Handlers queue events; `RenderFrame` applies them (`sync`), draws,
and writes the replies - but not with the setup view in front, from which
`TuiOrDeadline` is the only way out. Lines are numbered absolutely, so that a
line's number survives scrolling. A query is a report (always answered), a value of the
clipboard or the palette (answered if there is one) or the size (dropped by
`send_event`). A queued point has the row it was taken at and, in `meant`, the line
that the last frame showed there; it has none if the view has been jumped by a key
or the scrollbar, or the screen switched, since that frame. `cut` counts the view
heights that the wheel's modulo has taken.

### Review panel

**ReviewFile** is one path with the agent, the watcher's batch, the bridge, probes,
the row's reading threads and the user. A content is text or binary; a binary side makes
a difference without hunks, whatever the other side holds (`NoDiff`, `HunksOf`). **ReviewPanel** is which list is in front:
`panel.tab` the visible one and its key, `panel.stored` the others. **ReviewDiff** is
the pure part: hunks, discarded lines, `reconstruct_partial`, `effective_stats`,
`extract_selection_text`, checked over every diff up to a length. The code's loops are
recursive functions of the line they have come to, over the script as a whole: a hunk
begins where `StartsHunk`, and what lies between two is copied before it (`CopiedTo`).

### The desktop's window

**Workspaces**: `list`, `panel`, `side`, `stored` are the four answers to "which
workspace". `astray` marks views a remote command has left behind (section 7).
**RepoWatch**: one message channel, the settling task, `found` what a refresh has
read before it installs the next watcher. **Ports**: dialog and sandboxes carry ids,
so an answer finds the dialog that asked or nothing. **Providers**: a login is a number
and its refresh tokens are serials; a refresh may be given up before its answer
(`GivesUp`, `UnheardEnds`) or fail after it (`RefreshFails`), and `lost` has the logins whose granted
token went that way; `boot` is `boot_agent_tab` under way, from the
prompt for missing secrets to the gateway's start. **TextInput**: a character is its
byte length, an offset a number of bytes; a slice off a boundary is `strayed`.

### Instances

Components that share no state are checked in one run: `MCHost`, `MCClient`,
`MCReview`, `MCDesktop` and `MCAgents` extend several modules, and a behaviour is one
of their parts, chosen at the start by `part`; the others stay in one initial state.
The state space is the sum of the parts', not their product, and every property is
checked of its own part exactly as it would be alone. Where fairness would then ask
a resting part to move, it is stated of the chosen part only (`MCAgents`). The terminal
alone is split in two: `MCDesktop` has it under every input with a program that asks
nothing, `MCAgents` with a program that asks and a user who only types and uses the
scrollbar; the answers depend on no selection and no wheel, and these on no question.
Two parts of `MCDesktop` end early: the providers' where `overlapped` becomes true, which
stays so, and `LoginIsTrue` says nothing of what follows; the terminal's at the wheel's
first overrun, after which only the equality of `WheelIsConserved` is left to be checked
of the wheel, and is proved.

## 4. Runs

| Run | Instance | Shows |
|---|---|---|
| PtyAttach | 2 devices, 2 viewers, 2 widths | the minimum (`EffectiveIsMin`); a sole viewer is counted and fits (`SoleViewerServed`) |
| PtyAttach_live | 1 device, 2 viewers, 1 width | a gone viewer's stream ends if the process prints |
| PtyOutput | 3 bytes, chunks of 1-2, ring 2, channel 1, a prompt and a slow viewer | no seam, nothing lost locally (`OutputIsComplete`); the desktop never stalls, the latest output arrives (`OutputArrives`); implements OutputFeed |
| TabLifecycle | 2 workspaces, 2 tabs, 2 rows, 2 checkpoints in flight | a tab's work is in hand and done once, live and saved tabs are known (`TabsAreInHand`); closing leaves nothing (`ClosingIsClean`) |
| ControlSession | 3 calls, 2 streams, cap 1 | answers, nonces, commands and streams are counted right; every call ends |
| Host | 2 pairing attempts; 3 endpoints and 3 secrets; 9 lines in 3 backups of 2; 1 workspace, 2 tabs; builds that know 5 and 7 migrations, 3 launches, 1 key entered | `PairingIsHonest`, `DialogCloses`; `ServerHasStoredSecret`; `AuditInOrder`; `SetupEnds`; `DatabaseIsWhole` |
| Review | 3 changes to a file of 2 texts and a binary content, 1 user operation, probe and re-read; 2 workspaces, 2 sandboxes; all diffs of up to 5 lines, selections in 2 lines of 2 columns | dealt-with files stay away, list and rows are current (`FileIsTrue`); lists keep to their sandbox (`ListsStayWithTheirBox`); Apply writes what the header counts, Copy takes what is marked (`ShownIsDone`) |
| Client | 1 client, 3 versions, channel 1, 2 refreshes; 2 hosts, 3 keys, 2 attempts, 2 drops; 2 tabs, 3 entries, 2 sessions, 1 move; 2 uploads of 1 piece and one name to an agent and its shell | `NothingMissed`, `ViewMovesOn`; `UnlockedIsStored`, `SessionSettles`; `TerminalsAreCurrent`; `UploadIsTrue` |
| Desktop | characters of 2 bytes, 2 of them; 3 workspaces, 2 remote commands; 2 mounts, 3 changes; 3 forwards, 2 sandboxes, 2 dialogs; 2 refreshers, 2 logins; a terminal of 2 rows of 2 pixels, a wheel that turns 3, 1 line printed, 1 mode at a time, 2 queued events | `FieldIsSound`; `WorkspacesAgree`; `StaleRowHasNotice`; `SavedIsBound`; `LoginIsTrue`; what is dragged over is marked, what is turned is scrolled (`ScreenFollowsHand`) |
| Agents | 2 files, 2 versions, 3 launches; 2 tabs, 2 install steps, 1 restart; 3 events of 5 kinds; 1 connection, 2 logins or keys, 1 refresh, 1 frame on its way in each direction; a terminal whose program asks, with its setup view in front | `MainHasRuntime`, `SetupReports`; `BootIsTrue`; `StatusIsLatest`, `EventReachesTab`; `SentAsOne`, `RelayLetsGo`; `AnswersReachProgram` |
| NoGhostBus | 1 workspace, 2 tabs | violation, section 7 |
| ConnectedClientCatchesUp | 1 client, 2 versions | violation, section 7 |

Why the bounds suffice. *PtyAttach*: a minimum needs two sizes and two devices,
sharing needs two viewers; Init lets both belong to one device or to two, and the
desktop's terminal is a third client. *PtyOutput*: with a channel of 1 a viewer one
chunk behind lags; with a ring of 2 and chunks of 2 the ring wraps in the middle of
a chunk; a reader's buffer of 1 splits chunks. *TabLifecycle*: parent and child,
prompt and victim, double checkpoint and restored row are pairs; two workspaces
give switching and removal of the other one. *SnapshotSync*: two changes after the
subscription overrun a channel of 1; two user refreshes and those caused by
notifications overlap. The sessions share nothing but the snapshot, which no client
changes, so one client is enough. *ControlSession*: challenge, hello and a command,
or two commands with the first one's answer late, are three calls. *Pairing*: one
request in the dialog and one behind it. *RemoteAccess*: an endpoint closing, one
rotated and its successor. *AuditLog*: nine lines fill the active file and three
backups of two and drop the oldest. *ReviewFile*: create, keep or discard, change
again; the path is alone because everything the panel holds is per path; two texts and
a binary content give files that differ, are equal, and are equal but binary; the host's
is not empty at the start and may become so.
*ReviewDiff*: five lines hold two hunks with context between. *RuntimeInstall*: an
upgrade, its interruption and a rollback are three launches. *AgentBoot*: two first
boots at once. *AgentEvents*: an event before, in and after the reading.
*TerminalView*: two rows and a printed line move the selected one into the
scrollback, or let a point drift by it; two queued events are a point and the scroll
before or after it; a wheel step of 3 on a remainder of 1 reaches the height of 4. *TextInput*: one character of two bytes is off a boundary in its
middle; a history of two overflows at the third entry. *Workspaces*: one in front, one
behind it and one created meanwhile. *RepoWatch*: two paths, one with a repository
and one that gets it. *Ports*: forwards that share a host port and ones that share
a guest port, a sandbox before and after. *Providers*: a boot and a gateway request
at once, a second login under a refresh. `MaxRefreshes` of one, since a second
refresh of a login starts from the state after the first with another serial.
*WebSession*: a host replaced by another, a key by a newer one. *WebTerminals*: an
entry, its successor and one of another tab, across two sessions. *Uploads*: two
uploads of one name to one place overwrite each other; one piece or none is whole or
cut. *Gateway*: connections share only the vault, whose other users are actions of
their own, so one is enough; two logins and a second serial tell a token that was
replaced from its successor; with one frame on its way there is one in a send and one
behind it. *Database*: both builds know the table that `open` makes sure of
after the migrations (4), one of them its second (6) and a column after it; upgrade,
rollback and upgrade again are three launches.

CHECK_DEADLOCK is off where the system rightly stops: a process exits, a
connection ends, the program is closed, or a bound is reached; TabLifecycle, which
never stops, is checked for deadlock. Symmetry is used where only safety is checked.

## 5. Fairness

*PtyAttach*: tokio polls ready tasks and delivers requests that arrived
(`HostFairness`, weak, per handler step). No client has to do anything; that the
process prints is assumed only for `GoneViewerEnds`, and is exactly what the refuted
`DroppedStreamTornDown` lacks.
*PtyOutput*: threads that hold or can take a free mutex run on (weak); std's mutex
is not fair, so nothing is assumed of a viewer that waits for it. Of the clients,
only those in `Prompt` read.
*TabLifecycle*: a spawned task ends. Boot retries three times, the wait for the
screen has a 10 s deadline, sandbox calls answer or err. No user acts.
*SnapshotSync*: `push_snapshot` runs to its end, the session handles its first
request, the client reads (weak). `select!` picks a ready arm at random, so a
forward that is ready again and again happens (strong fairness of `Forwards`).
*ControlSession*: both loops read what is there, the dispatcher's 60 s end
(`CommandTimesOut`), and the main thread need not answer. The client's own timer is
*not* assumed, so `EveryCallEnds` says that a call ends without it.
*Pairing*: handler and main thread run, the approval ends after 120 s (`Rejects`),
the watchdog looks again every 300 ms; neither the user nor the page must act.
*RuntimeInstall*: the thread goes on, and each of its steps ends or fails; the screen
reads its queue. *AgentEvents*: watcher thread and bridge task run; the agent
need not report. *TerminalView*: a frame that is due is drawn, and the 10 s
deadline of the setup view passes. *WebSession*: the effect that connects runs and
every await of `establishSession` returns - connecting has a timeout and the
passkey prompt its 60 s; the user need not act. *Gateway*: a relay's task is polled
when one of its sides has something for it (`RelayFairness`). That an agent and a
provider read what they are sent is *not* the code's doing, which has no timeout on a
send: `PeersRead` is an assumption about them, and without it `RelayLetsGo` does not hold
(section 7). Neither side need leave or send anything.
RemoteAccess, AuditLog, Database, AgentBoot, WebTerminals, Uploads and all of Review
and Desktop are checked for safety only.

## 6. Proofs

Every theorem holds for arbitrary constants, infinite sets included, under the
assumptions named in the modules (sizes are naturals, caps and capacities are
positive, sentinels are outside the sets they stand beside). Each safety property is
proved through an inductive invariant, which TLC checked on the module's run first;
a proof has one lemma per action, or per group of actions that touch the same part.

`Induction`. A non-empty set of naturals has a least element (`HasLeast`, from the
library's theorem that < is well founded), and so a set that holds 0 and with each
number the next one holds all up to a bound (`UpTo`): induction, with a set in the place
of the predicate, which the library's own induction theorems take as an operator that no
installed prover can instantiate. `StepByStep`: a first value and a step for each number
have a function that follows them. With it a recursive function of the model is shown to
exist and to satisfy its equation, and its values are reasoned about by `UpTo`. The four
modules that compute over data define what they compute that way: `Parsed`
(AgentEvents), `sync` (TerminalView), `SumTo` (TextInput), and `Kept`, `RebuiltTo`,
`display_lines`, `extract_selection_text` (ReviewDiff).

`Session_proofs`. `ConnectionStaysSound` has three parts. `CallsInv`: a request is in
one place at a time (`OnTheWay`), only what was sent is heard of, and a success on
its way is of a command that ran (`Answerable`). `NoncesInv`: a nonce that has proved
something is not the pending challenge. `StreamsInv`: the counter is the number of
stream tasks, a cardinality that each exit lowers by one. `OutputStaysComplete`: the log
is a run of consecutive bytes cut into chunks (`IsLog`, with `End(log, i)` the last byte
of the first i chunks); ring, queue and the reader's buffer are intervals of it; a
viewer between its snapshot and its subscription holds the lock, so what it has read
ends where the log ends (`LockInv`); and a viewer is given the byte it is owed unless
it lagged, and then the gap lies before what the channel keeps (`Streams`). No
induction over data is needed, because all sequences are intervals.
`OutputImplementsFeed` builds on that invariant: every step of PtyOutput publishes,
joins a viewer, shows it bytes, or stutters, under the mapping in PtyOutput.

`Host_proofs`. `ServerKeepsStoredSecret`: no server runs under a rotation, and one that
runs has a secret that is stored (`AccessInv`). `PairingStaysHonest`: a credential on its
way, or about to be stored by the page, has its row (`AnswerHasRow`).
`AuditStaysInOrder`: the file a rotation is about to rename onto is empty
(`HoleIsEmpty`), the size it goes by is the file's (`SizeIsKnown`), and the backups are
full and without a gap as long as every rotation was completed (`BackupsFull`).
`DatabaseStaysWhole`: what is recorded is in the schema or was swallowed, except the
table of 4 until the check after the last migration (`MigrationsInv`); a program that
has run left the old file renamed or took note of it (`ImportInv`); once the agents are
in step with the build, no start takes out one that a saved tab refers to
(`AgentsInv`).

`Host_proofs` also holds the PTY handlers'. `BusTypeCorrect`, `BusKeepsPromise`: the minimum
is *some* attached client's column and row (`HasLeast`); the promise is inductive with `PtyMatches` and goes
through `UpdateWith`, as every operation does. `TypeCorrect`; the lemma
`HandlersRefineBus` (each handler step is a bus operation or leaves the bus alone)
carries the promise over to the handlers. `SoleViewerIsServed` is
carried by `SoleViewerInv`: a viewer outside `shared` is the only one of its device
that can touch the entry (`OnlyActive`); no resize is on its way before the client
has a handle (`NotYetResizing`) and one on its way is the latest size
(`ResizeIsLatest`); from attach to the end the entry is there (`EntryKept`); and both
the reply that the stream start will write back and the entry itself are within the
xterm's size (`ReplyWithin`, `EntryWithin`) - because a *minimum* that replaces the
advertised size is never larger than it. That is why the stale size of section 7
makes terminals too small but never too large.

`Desktop_proofs`. `SavedForwardIsBound`: an answer of `Ok` is a pair bound in its sandbox,
and what dialog and forwards refer to has booted (`PortsInv`). `StaleRowKeepsNotice`: the
property is itself inductive, the disk being a function on the mount paths.
`WorkspacesStayAgreed`: rows are those of the database, ids are not used twice, and a
panel that disagrees was left behind by a remote command (`WorkspacesInv`).
`LoginStaysTrue`: as long as nothing is written under a refresh in flight, at most one
refresh holds a newer token than the vault, and it is the one the server accepts
or the newest is on its way to nobody, or `lost`
(`TokensInv`); the panel's rows are the vault's (`RowsInv`). `FieldStaysSound`: the
boundaries of a text are its prefixes' lengths in bytes, which grow (`BoundaryIs`), so a
UTF-16 offset, wherever it points, becomes a boundary, and a boundary before what is
spliced in stays one, as does its end (`SplicedIs`). Every entry of the history has its
caret on a boundary of its own text, or an undo would put it off one in the text it
brings back; with that, selection and mark stay in the text (`FieldInv`).

`Agents_proofs`. `MainStaysReady`: VERSION vouches for the files unless they were
replaced under it, the thread is in a state that its files allow (`JobInv`), and an "ok"
in the screen's queue is of a whole runtime (`ScreenInv`). `BootStaysTrue`: a tab's task
at step i has done the steps before it, and its list shows the task's step as the one
active mark (`TabSound`). `SentStaysAsOne`: what a request has read so far fits the row,
as long as nobody has edited it under the request (`TaskSound`). `StatusStaysLatest`: the
file's lines are in the order of the events and what was read begins it (`LinesInv`);
what the tab was told is in the file still, and then can be told again, or older than
all in it (`ArrivedInv`); what it is to be told is noticed, read or on its way
(`SeenInv`); and the last status sent is of the latest event of all that were, since
`Parsed` keeps the order (`LatestInv`). `ScreenStaysTrue`: a queued point is, as a line of the
present, the line the last frame showed under the pointer or at most as many below it as
were printed since (`PointsInv`); after it the queue only turns
the wheel, which moves the view and not the selection (`WheelKeepsSelection`, along
`sync`); and what the wheel owes is the remainder and the heights cut off, as division
with a remainder of the sign of the dividend loses nothing else.

`Client_proofs`. `UnlockedStaysStored`: an unlocking under way is of the stored key, a
pairing that stored one of the row it wrote, unless overtaken (`WebInv`).
`TerminalsStayCurrent`: registry and mounts refer to entries, and entries of a commit are
numbered one to one with its new tabs (`WebTermInv`). `UploadsStayTrue`: a write that has
yet to run is of a file that came whole and is in the queue once; what the task, its
write and its typed path say of one another (`UploadsInv`).
`NoChangeIsMissed` reads a session's control stream as one sequence of slots, what is
on the wire and then what is still asked for (`Slots`), so that the reply to a request
takes its place. Each refresh under way is matched in order with its two slots
(`Matched`); versions only grow, from the view over what the oldest refresh has got and
along the slots to the host's state (`Grows`); and a client has every announced change
in its channel, on the wire, in a refresh's `since` or in its view, unless a refresh
failed (`Hears`): these are `SyncInv`. It needs the order of the slots and not just
their presence: two overlapping refreshes whose responses could be swapped would show
the older list last. `ViewOnlyMovesOn` is an action property from `SyncInv`.

`TabLifecycle_proofs`. `TabsStayInHand`: what is in flight for a tab fits its kind, no
boot runs while its checkpoint does, and the tab whose secrets are asked for has not
begun to boot (`TabInv`). `ClosingStaysClean` is an action property: from `TabInv`, step by
step.

`Review_proofs`. `ListsStayTrue`: the visible list and each one kept go with their
sandboxes through every swap (`WithItsBox`). `FileStaysTrue`: `Always` is what holds of
rows, readings and probes whatever happens; and as long as the code has not itself
mixed two changes up (`muddled`), the last event on its way to the list is of the file
as it is (of a binary file: listed, and never found equal), no event is left out as a repeated one, an operation is alone, and what list
and row lack a probe or a thread will find (`Unmixed`). `ShownStaysDone` is of a diff of
any length and any choice of lines. `Out(i)` is the line that is written for line i, itself
or the old one it replaces, or none; what `RebuiltTo` has written after line i is the
lines `Out` gives for the lines so far, once each and in order (`Sound`), and the old
lines from its position to where the hunks have come are still to be copied
(`RebuiltSound`); so what Apply writes is what `Out` says of all of them (`WrittenIs`),
and what the header counts is the cardinality of the same sets: a discarded addition of
a pair takes the deleted line's count with it, as pairs are one to one (`PairsAre`). For
Copy, the text gathered up to a line holds what the lines so far give (`TextHolds`), and
a line gives what lies between the selection's ends, in whichever order it was dragged
(`GivesIs`, `OrderedIs`).

Only model-checked: every liveness property, which is out of the prover's reach
(`GoneViewerEnds`, `OutputArrives`, `EveryCallEnds`, `DialogCloses`, `SetupEnds`,
`ViewMovesOn`, `SessionSettles`, `SetupReports`, `EventReachesTab`,
`AnswersReachProgram`, `RelayLetsGo`; of `ViewMovesOn` its safety half is
`ViewOnlyMovesOn`).

## 7. Where code and comments disagree

Two are runs that TLC ends with a counterexample; `PROJECT.json` quotes the lines.

* **NoGhostBus** (TabLifecycle) - a boot that completes after its tab was closed
  registers a bus that nothing removes.
* **ConnectedClientCatchesUp** (SnapshotSync) - a snapshot pushed between hello's
  read and the subscription is announced to nobody.

The following are stated at the end of their modules as the source's comments or
documents promise them. TLC refutes each when it is added to the module's run.

* **LiveViewerCounted** (PtyAttach) - sizes are keyed by device: when one of two
  streams of a device ends, the other is no longer in the minimum.
* **RecordedIsAdvertised** (PtyAttach) - the stream's init repeats the size of the
  attach *reply*, so the recorded size is a stale minimum.
* **DroppedStreamTornDown** (PtyAttach) - the output task holds the sender it waits
  on; a lost viewer of a silent terminal is never torn down.
* **StoppedAgentHasNoShell** (TabLifecycle) - a guest shell that opens after its
  agent was checkpointed keeps the "stopped" sandbox running.
* **CancelReachesHost** (Pairing) - the page's Cancel closes the connection, and
  the host's handler waits for the user to the end of its 120 s.
* **RevokedIsSignedOut** (ControlSession) - a revoked device keeps its open streams.
* **OldEndpointGoneFirst** (RemoteAccess) - a rotation waits for the endpoint it
  takes out, not for one a stop before it is still shutting down.
* **ReadyMatchesVersion** (RuntimeInstall) - VERSION is not removed before the
  files are replaced: interrupted, then rolled back, the old program trusts them.
* **SizeRequestsAreHandled** (TerminalView) - "Text area size requests are handled
  internally" (`event.rs:168`): the request is dropped, and a program that waits for
  the answer to `CSI 14 t` waits for ever.
* **SaveFailureIsNotFatal** (AgentBoot) - a checkpoint whose save failed is booted
  from next, and is not there.
* **AllDiscardedIsOld** (ReviewDiff) - with every line unchecked, Apply can change
  the newline at the end of the file.
* **ComesBackWatched** (ReviewPanel) - hiding the panel ends the loop that receives
  a sandbox's changes; `update_sandbox` finds the sandbox known and starts no other.
* **AccumulatesIndependently** (ReviewPanel) - a probe's answer is put into
  whichever list is in front (`review/mod.rs:190`).
* **KeepsOnOwnHost** (ReviewPanel) - a sandbox that comes to the front before its
  workspace has reached the panel gets the other workspace's directory.
* **RepoIsWatched** (RepoWatch) - rows and watcher read the disk apart; a
  repository that appears between is shown and not watched.
* **BoundIsSaved** (Ports) - a bind that succeeds after its dialog has closed is
  never saved, and never shown.
* **OptedOutIsUnused**, **OAuthIsNotInjected** (Providers) - Codex picks the
  OpenRouter gateway also when it is disabled; the list of secrets is filtered
  when a boot is called and read minutes later.
* **SessionIsForHost** (WebSession) - pairing another host, or forgetting one
  while it connects, leaves the old session on the screen.

* **NamesStayApart** (Uploads) - two attachments of one name to one place: the
  second is written over the first, whose path has been typed.
* **MethodFitsCredential** (Gateway) - the method and the credential are read apart;
  edited between, a request of one method goes out with the other's credential.
* **ImportedOnce** (Database) - a rename of the old configuration file that fails is
  ignored, and the next start imports its keys over newer ones.

Seen while reading and delimited in the models by a guard, a ghost variable or a
comment, not stated as properties:

* *Tabs.* `checkpoint_tab` removes child shells with `retain` and leaves
  `active_tab` past the end; the missing-secrets prompt is one slot, and a second
  tab without secrets strands the first; checkpoint names restart with tab ids
  after a restart, so a later tab can save over an earlier one's; the label of a tab
  slices its prompt at byte 27 (`workspace.rs:315`), inside a character or not;
  force close uses a snapshot of `pty_ready`; setup that failed has no retry.
* *Remote.* `pty.attach` registers a size that nothing releases if no stream
  follows; a pairing request in progress when its browser gives up at 60 s can
  still store a device; documents give the host 60 s where `approval.rs:17` has 120;
  connections accepted before `set_host_node_id` fail their hello; a device whose
  pairing finishes after a rotation's `clear_all` stays, with a proof nobody accepts;
  `get_remote_endpoint_secret` takes a failed query for "no secret" and generates
  another; a log that cannot be reopened after a rotation ends auditing.
* *Database.* `terminal_tabs.agent_id` refers to `agents` without ON DELETE, so a build
  that drops an agent with a saved tab does not start; nor does any after a kill
  that leaves the key file short.
* *Attachments.* Writing them blocks the main thread; `CHANGELOG.md:6` has those to
  host shells behind the remote host-shell setting, which their path does not read.
* *Workspaces.* A remote activation moves the terminal panel only: the sidebar keeps
  its highlight, and clicking that row does nothing; a refused `tabs.create` has
  already switched the workspace; cmd-comma closes the settings without rechecking
  missing secrets; any refresh closes an open context menu.
* *Ports, git.* Removal of a forward does not unbind it; `specs/08` says a bind is
  tried three times, the code tries once; a watch that failed is not retried, and a
  change between `stat` and reinstallation is not heard.
* *Review.* A file deleted and created within one 50 ms batch is listed "Deleted", and
  Keep deletes the host's; changes before `open_watch` are never listed; errors of
  keep and apply are dropped; `refresh_content` keeps the unchecked lines by their
  place in the old hunks; a binary file (a zero byte in its first 8192) stays listed, as
  changed and without hunks, when it has become equal to the host's; `force_close_tab` does not tell the side panel.
* *Agents.* Hooks that append between the reading and the truncation lose their line;
  the status of a checkpointed tab stays; two first boots install twice.
* *Terminal, text.* Replies wait for a frame, and none is drawn for a hidden tab;
  a read of an empty
  clipboard and a query of a colour that does not resolve get no reply at all, and the
  program may wait for it; switching the mouse mode in a drag leaves the selection
  phase behind; a wheel event that, with the remainder, reaches the height of the
  view loses that height to the modulo of `scroll_px`, and the next turns scroll by other
  amounts than they were turned; lines printed between a frame and the next pull a point of a drag down by as
  many; a press after a key or the scrollbar has moved the view, and before its frame,
  is taken at the new position;
  recomposition adds a range converted over the whole text to the range
  replaced; undo, redo and `set_value` leave the marked range; a click after
  a change and before a frame uses the old layout.
* *Providers.* A refresh that answers after its secret was removed or replaced writes
  it back; a rotation whose answer is lost or unreadable, whose save fails, or whose
  future goes with a request that hung up, or with the program, loses the rotated
  token, and the user is signed out at the next refresh;
  the login's cancel is never reached, since the main thread waits in `join`.
* *Gateway.* A loop that waits in a send (`auth_gateway.rs:384`, `:401`) towards a side that
  is open and does not read holds the relay, and the other side's connection, after
  that other side has gone, without a timeout.
* *Web.* An unlocking overtaken by "Forget" fills the page's cache again; an overlapping
  second pairing shares `pairingClientRef`; a stream opened for a pruned entry is not
  closed, and a failed one disposes the entry that has taken its key; a terminal
  that ends in view stays blank until it is mounted again; an upload goes to the tab
  in front when the file is chosen.

## 8. Not modelled

* The **wire types** are serde derivations; the modules use messages by name.
  **Settings, dock, themes** are single assignments and drawing; the settings with
  behaviour (remote control, providers) are in RemoteAccess, Pairing, Providers.
* **Rendering**: the widget's glyphs, colours, box drawing, painting and its table
  from keys to bytes, the review's highlighting. No property of order or state is
  about them, and their data is out of TLC's reach.
* **Libraries**: the emulator (alacritty), the diff (similar), the sandbox (shuru),
  QUIC (iroh), GPUI. They appear as what the code relies on, and are marked external
  in the map.
* **Cryptography and formats**: proofs and credentials are values that match or do not;
  encryption of secrets, the headers the auth gateway rewrites, agents'
  install scripts and configuration files.
* **Several windows**: two browser tabs on one IndexedDB, two desktops on one database.
* **Time**: deadlines are steps that may be taken, so nothing is said of durations.

------------------------------- MODULE PtyAttach -------------------------------
(***************************************************************************)
(* The remote handler's use of one tab's PtyBus: AppHandler::pty_attach,    *)
(* pty_resize, pty_detach and pty_stream (src/ui/remote/handler.rs), driven *)
(* by the web client (open_pty in the client's wasm.rs, Terminal.tsx).     *)
(*                                                                         *)
(* A viewer is one xterm of a device.  Opening it takes two host steps,    *)
(* the pty.attach call and the data stream whose init repeats a size; then *)
(* an output and an input task run until both have ended, and only then is *)
(* the device's size released.  Sizes are keyed by device, viewers are     *)
(* not: the same device may have a second viewer (another browser tab, or  *)
(* a reconnect while the old stream still lingers).                        *)
(*                                                                         *)
(* Terminal output is reduced to "there is something to write": PtyOutput   *)
(* models its content.                                                     *)
(***************************************************************************)
EXTENDS PtyBus, FiniteSets

CONSTANT Viewers   \* the xterms that are ever opened on this tab

VARIABLES
    in_map,     \* the tab's bus is registered in the PtyMap
    emitted,    \* the scrollback is not empty
    viewer,     \* viewer -> the record below
    viewport,   \* viewer -> the size of its xterm
    resizing,   \* viewer -> a pty.resize call on its way to the host, or NoSize
    shared,     \* history: viewers that overlapped with another of their device
    outdated    \* history: viewers whose latest xterm size was dropped or overtaken

handlerVars == <<in_map, emitted, viewer, viewport, resizing, shared, outdated>>
vars == <<busVars, handlerVars>>

Stages == {"idle", "attached", "acked", "piping", "ended"}
Open == {"attached", "acked", "piping"}

\* dev: its device; reply: the size pty.attach answered; peer: the client still
\* holds its end; input, output: the host task runs; unread: output to write.
ViewerRecord == [stage : Stages, dev : Devices, reply : Sizes,
                 peer : BOOLEAN, input : BOOLEAN, output : BOOLEAN,
                 unread : BOOLEAN]

Init == /\ BusInit
        /\ in_map = TRUE
        /\ emitted \in BOOLEAN
        /\ \E owner \in [Viewers -> Devices] :
             viewer = [v \in Viewers |->
                         [stage |-> "idle", dev |-> owner[v], reply |-> Seed,
                          peer |-> FALSE, input |-> FALSE, output |-> FALSE,
                          unread |-> FALSE]]
        /\ viewport \in [Viewers -> Sizes]
        /\ resizing = [v \in Viewers |-> NoSize]
        /\ shared = {}
        /\ outdated = {}

Dev(v) == viewer[v].dev
Piping(v) == viewer[v].stage = "piping"
Live(v) == Piping(v) /\ viewer[v].peer
HasHandle(v) == viewer[v].stage \in {"acked", "piping"} /\ viewer[v].peer

\* The viewers of device d that can still touch its entry.
Active(d) == {v \in Viewers : /\ Dev(v) = d
                              /\ \/ viewer[v].stage \in Open
                                 \/ resizing[v] # NoSize}

Set(v, r) == viewer' = [viewer EXCEPT ![v] = r]
-------------------------------------------------------------------------------
\* pty.attach: the host records the size the xterm has and answers with the
\* effective one.  (With no bus the call fails and the client drops the entry.)
PtyAttach(v) ==
    /\ viewer[v].stage = "idle"
    /\ in_map
    /\ ReportClientSize(Dev(v), viewport[v])
    /\ Set(v, [viewer[v] EXCEPT !.stage = "attached", !.peer = TRUE,
                                !.reply = effective'])
    /\ shared' = LET others == Active(Dev(v))
                 IN  IF others = {} THEN shared ELSE shared \union others \union {v}
    /\ UNCHANGED <<in_map, emitted, viewport, resizing, outdated>>

\* The data stream arrives and its init is acknowledged: the client's open_pty
\* returns the handle, before pty_stream has run.
PtyStreamInit(v) ==
    /\ viewer[v].stage = "attached"
    /\ Set(v, [viewer[v] EXCEPT !.stage = "acked"])
    /\ UNCHANGED <<busVars, in_map, emitted, viewport, resizing, shared, outdated>>

\* pty_stream records the size of the init - open_pty_stream sent the one of the
\* attach REPLY, which nobody needs afterwards - and subscribes to the output.
PtyStreamStart(v) ==
    /\ viewer[v].stage = "acked"
    /\ in_map
    /\ ReportClientSize(Dev(v), viewer[v].reply)
    /\ Set(v, [viewer[v] EXCEPT !.stage = "piping", !.input = TRUE, !.reply = Seed,
                                !.output = TRUE, !.unread = emitted])
    /\ UNCHANGED <<in_map, emitted, viewport, resizing, shared, outdated>>

\* pty_stream finds no bus (the tab was closed since the attach), or the client
\* went away before it opened a stream: nothing is released.
PtyStreamNever(v) ==
    /\ \/ viewer[v].stage = "acked" /\ ~in_map
       \/ viewer[v].stage = "attached" /\ ~viewer[v].peer
    /\ Set(v, [viewer[v] EXCEPT !.stage = "ended", !.peer = FALSE, !.reply = Seed])
    /\ UNCHANGED <<busVars, in_map, emitted, viewport, resizing, shared, outdated>>

\* Mistaken: the size is released as soon as the input half is over.
InputEndsAndReleases(v) ==
    /\ Piping(v) /\ viewer[v].input
    /\ ~viewer[v].peer \/ ~alive
    /\ Set(v, [viewer[v] EXCEPT !.input = FALSE])
    /\ ReleaseClient(Dev(v))
    /\ UNCHANGED <<in_map, emitted, viewport, resizing, shared, outdated>>

\* input_task ends when the client's half is closed or lost, or when a keystroke
\* cannot be written because the process is gone.
InputEnds(v) ==
    /\ Piping(v) /\ viewer[v].input
    /\ ~viewer[v].peer \/ ~alive
    /\ Set(v, [viewer[v] EXCEPT !.input = FALSE])
    /\ UNCHANGED <<busVars, in_map, emitted, viewport, resizing, shared, outdated>>

\* Mistaken: a failed write is skipped like a lagged receive.
OutputIgnoresErrors(v) ==
    /\ Piping(v) /\ viewer[v].output /\ viewer[v].unread
    /\ Set(v, [viewer[v] EXCEPT !.unread = FALSE])
    /\ UNCHANGED <<busVars, in_map, emitted, viewport, resizing, shared, outdated>>

\* output_task writes what it has received and ends if the client is gone.  It
\* waits on a broadcast receiver whose Sender it holds itself (through `bus`), so
\* the receiver is never closed and only more output wakes the task.
OutputWrites(v) ==
    /\ Piping(v) /\ viewer[v].output /\ viewer[v].unread
    /\ Set(v, [viewer[v] EXCEPT !.unread = FALSE, !.output = viewer[v].peer])
    /\ UNCHANGED <<busVars, in_map, emitted, viewport, resizing, shared, outdated>>

\* join!(output, input) returns and pty_stream releases the DEVICE's size.
PtyStreamEnds(v) ==
    /\ Piping(v) /\ ~viewer[v].input /\ ~viewer[v].output
    /\ ReleaseClient(Dev(v))
    /\ Set(v, [viewer[v] EXCEPT !.stage = "ended", !.peer = FALSE])
    /\ UNCHANGED <<in_map, emitted, viewport, resizing, shared, outdated>>

\* pty.resize reaches the host.  The control stream and the data stream are not
\* ordered: a resize may be handled before the stream's start overwrites it.
PtyResize(v) ==
    /\ resizing[v] # NoSize
    /\ IF in_map THEN ReportClientSize(Dev(v), resizing[v]) ELSE UNCHANGED busVars
    /\ resizing' = [resizing EXCEPT ![v] = NoSize]
    /\ outdated' = IF viewer[v].stage = "acked" THEN outdated \union {v} ELSE outdated
    /\ UNCHANGED <<in_map, emitted, viewer, viewport, shared>>

\* The polite close: pty.detach releases the device, then the stream is closed.
PtyDetach(v) ==
    /\ Live(v)
    /\ IF in_map THEN ReleaseClient(Dev(v)) ELSE UNCHANGED busVars
    /\ Set(v, [viewer[v] EXCEPT !.peer = FALSE])
    /\ UNCHANGED <<in_map, emitted, viewport, resizing, shared, outdated>>

\* The client closes its stream, or its connection is lost; a resize still on
\* its way may be lost with it.
PeerGone(v) ==
    /\ viewer[v].peer
    /\ Set(v, [viewer[v] EXCEPT !.peer = FALSE])
    /\ \/ UNCHANGED resizing
       \/ resizing' = [resizing EXCEPT ![v] = NoSize]
    /\ UNCHANGED <<busVars, in_map, emitted, viewport, shared, outdated>>

\* xterm's onResize: sent to the host if the stream handle exists, else dropped.
\* One call at a time is on its way.
XtermResize(v, size) ==
    /\ viewer[v].stage # "ended"
    /\ size # viewport[v]
    /\ resizing[v] = NoSize
    /\ viewport' = [viewport EXCEPT ![v] = size]
    /\ IF HasHandle(v)
       THEN /\ resizing' = [resizing EXCEPT ![v] = size]
            /\ outdated' = outdated \ {v}
       ELSE /\ outdated' = IF viewer[v].stage = "attached"
                           THEN outdated \union {v} ELSE outdated
            /\ UNCHANGED resizing
    /\ UNCHANGED <<busVars, in_map, emitted, viewer, shared>>

\* The desktop's own TerminalView changes size: its resize callback.
LocalResize(size) == ReportClientSize(Local, size) /\ UNCHANGED handlerVars

\* The process prints: scrollback and every subscribed receiver get the chunk.
PtyEmits ==
    /\ alive
    /\ emitted' = TRUE
    /\ viewer' = [v \in Viewers |->
                    IF Piping(v) /\ viewer[v].output
                    THEN [viewer[v] EXCEPT !.unread = TRUE] ELSE viewer[v]]
    /\ UNCHANGED <<busVars, in_map, viewport, resizing, shared, outdated>>

\* The tab is closed: its bus leaves the map, running streams keep their handle.
TabCloses == /\ in_map
             /\ in_map' = FALSE
             /\ UNCHANGED <<busVars, emitted, viewer, viewport, resizing,
                            shared, outdated>>

ProcessExits == PtyExit /\ UNCHANGED handlerVars

HostStep(v) == \/ PtyStreamInit(v) \/ PtyStreamStart(v) \/ PtyStreamNever(v)
               \/ InputEnds(v) \/ OutputWrites(v) \/ PtyStreamEnds(v) \/ PtyResize(v)

Next == \/ \E v \in Viewers : \/ PtyAttach(v) \/ HostStep(v) \/ PtyDetach(v)
                              \/ PeerGone(v)
                              \/ \E size \in Sizes : XtermResize(v, size)
        \/ \E size \in Sizes : LocalResize(size)
        \/ PtyEmits
        \/ TabCloses
        \/ ProcessExits

Spec == Init /\ [][Next]_vars

\* tokio polls a ready task, and delivers an arrived stream or request.
HostFairness == \A v \in Viewers : /\ WF_vars(PtyStreamStart(v))
                                  /\ WF_vars(PtyStreamInit(v))
                                  /\ WF_vars(PtyStreamNever(v))
                                  /\ WF_vars(InputEnds(v))
                                  /\ WF_vars(OutputWrites(v))
                                  /\ WF_vars(PtyStreamEnds(v))
                                  /\ WF_vars(PtyResize(v))
FairSpec == Spec /\ HostFairness

\* The same with a process that keeps printing.
TalkativeSpec == FairSpec /\ WF_vars(PtyEmits)
-------------------------------------------------------------------------------
\* The handler's state has its declared types.
TypeOK == /\ BusTypeOK
          /\ in_map \in BOOLEAN
          /\ emitted \in BOOLEAN
          /\ viewer \in [Viewers -> ViewerRecord]
          /\ viewport \in [Viewers -> Sizes]
          /\ resizing \in [Viewers -> Sizes \union {NoSize}]
          /\ shared \subseteq Viewers
          /\ outdated \subseteq Viewers

\* A live viewer that never overlapped with another of its device constrains the
\* PTY from the start of its stream to the end: no release or late call of the
\* handlers can take its entry away.
SoleViewerCounted ==
    \A v \in Viewers : Live(v) /\ v \notin shared => per_client[Dev(v)] # NoSize

\* Once such a viewer's xterm size has reached the host, the PTY is no larger
\* than that xterm, whatever the other clients and the tab do meanwhile.
FitsSoleViewer ==
    \A v \in Viewers :
        /\ Live(v) /\ v \notin shared /\ v \notin outdated
        /\ resizing[v] = NoSize /\ in_map
        => /\ effective[1] <= viewport[v][1]
           /\ effective[2] <= viewport[v][2]

\* What a viewer that is alone on its device may rely on: it is counted, and fitted.
SoleViewerServed == SoleViewerCounted /\ FitsSoleViewer

\* While the process keeps printing, a stream whose client is gone ends, and with
\* it the client's hold on the PTY's size.
GoneViewerEnds ==
    \A v \in Viewers :
        Piping(v) /\ ~viewer[v].peer ~> viewer[v].stage = "ended" \/ ~alive
-------------------------------------------------------------------------------
\* What follows is said of the code, and the code does not keep it (README, section 7).

\* pty_bus.rs:15 "resizes the PTY to the minimum across all attached clients": a
\* client that is attached is always among those the minimum is taken over.
LiveViewerCounted == \A v \in Viewers : Live(v) => per_client[Dev(v)] # NoSize

\* pty_bus.rs:15 "aggregates client-advertised sizes": what is recorded for a
\* settled viewer is the size its xterm has.
RecordedIsAdvertised ==
    \A v \in Viewers :
        /\ Live(v) /\ v \notin shared /\ v \notin outdated
        /\ resizing[v] = NoSize /\ in_map
        => per_client[Dev(v)] = viewport[v]

\* 01-transport.md:335: the streams of a dropped connection are torn down (after
\* 30 s, the document says).
DroppedStreamTornDown ==
    \A v \in Viewers : Piping(v) /\ ~viewer[v].peer ~> viewer[v].stage = "ended"
===============================================================================

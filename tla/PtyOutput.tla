------------------------------- MODULE PtyOutput -------------------------------
(***************************************************************************)
(* The way of a terminal's output: the bridge thread of ShuruPtyReader     *)
(* (src/sandbox/pty_adapter.rs), the local TerminalView that reads behind  *)
(* it, PtyBus::snapshot_and_subscribe and the output task of               *)
(* AppHandler::pty_stream for each remote viewer.                          *)
(*                                                                         *)
(* Bytes are numbered in the order the process writes them.  The bridge    *)
(* takes them in chunks, and under the scrollback mutex appends a chunk to *)
(* the ring and sends it on the tokio broadcast channel; then it hands the *)
(* chunk to the local reader.  A broadcast receiver has a position in the  *)
(* log of messages and finds only the last BusCap of them still there.     *)
(***************************************************************************)
EXTENDS Naturals, Sequences, FiniteSets

CONSTANTS Viewers,    \* remote streams ever opened on this terminal
          Prompt,     \* the viewers whose client keeps reading
          MaxBytes,   \* bound: bytes the process writes
          ChunkSizes, \* bytes of one output event
          ScrollCap,  \* bytes kept by the ring (256 KiB in the code)
          BusCap,     \* messages kept by the broadcast channel (1024 in the code)
          ReadSizes   \* buffer sizes of the local reader

\* The bridge is none of the viewers that contend with it for the mutex.
ASSUME PromptAssumption == Prompt \subseteq Viewers /\ "bridge" \notin Viewers
ASSUME SizesAssumption == /\ MaxBytes \in Nat /\ ScrollCap \in Nat \ {0}
                          /\ BusCap \in Nat \ {0}
                          /\ ChunkSizes \subseteq Nat \ {0}
                          /\ ReadSizes \subseteq Nat \ {0}

VARIABLES bridge,   \* the bridge thread: its step and the chunk it holds
          lock,     \* the holders of the scrollback mutex: {} or one of them
          ring,     \* ScrollbackRing.buffer
          log,      \* every message sent on the broadcast channel
          queue,    \* chunks in the mpsc channel to the local reader
          buffer,   \* the rest of a chunk the local reader has begun
          local,    \* the bytes the local terminal has read
          reader,   \* the local reader: "reading", "eof" or dropped with its view
          viewer    \* viewer -> the record below

vars == <<bridge, lock, ring, log, queue, buffer, local, reader, viewer>>

\* at: bytes published when it subscribed (history); next: its position in the log;
\* out: what write_all is sending; screen: what its client has received; lagged:
\* some message was lost to it (history); peer: the client is there.
NewViewer == [step |-> "new", snapshot |-> <<>>, at |-> {}, next |-> 1,
              out |-> <<>>, screen |-> <<>>, lagged |-> FALSE, peer |-> TRUE]

Run(a, b) == [i \in 1 .. b - a + 1 |-> a + i - 1]
LastOf(s, n) == IF Len(s) > n THEN SubSeq(s, Len(s) - n + 1, Len(s)) ELSE s
Written == IF log = <<>> THEN 0 ELSE log[Len(log)][Len(log[Len(log)])]

Init == /\ bridge = [step |-> "recv", chunk |-> <<>>]
        /\ lock = {}
        /\ ring = <<>> /\ log = <<>> /\ queue = <<>> /\ buffer = <<>> /\ local = <<>>
        /\ reader = "reading"
        /\ viewer = [v \in Viewers |-> NewViewer]

Set(v, r) == viewer' = [viewer EXCEPT ![v] = r]
-------------------------------------------------------------------------------
\* ShellEvent::Output: the next bytes of the process.
BridgeReceives(size) ==
    /\ bridge.step = "recv"
    /\ Written + size <= MaxBytes
    /\ bridge' = [step |-> "lock", chunk |-> Run(Written + 1, Written + size)]
    /\ UNCHANGED <<lock, ring, log, queue, buffer, local, reader, viewer>>

\* Mistaken: the bridge works on the scrollback without its lock.
BridgeSkipsLock ==
    /\ bridge.step = "lock"
    /\ bridge' = [bridge EXCEPT !.step = "push"]
    /\ UNCHANGED <<lock, ring, log, queue, buffer, local, reader, viewer>>

\* Mistaken: back-pressure - the bridge waits until every viewer has been served.
BridgeAwaitsViewers ==
    /\ bridge.step = "lock" /\ lock = {}
    /\ \A v \in Viewers : viewer[v].out = <<>>
    /\ lock' = {"bridge"}
    /\ bridge' = [bridge EXCEPT !.step = "push"]
    /\ UNCHANGED <<ring, log, queue, buffer, local, reader, viewer>>

BridgeLocks ==
    /\ bridge.step = "lock" /\ lock = {}
    /\ lock' = {"bridge"}
    /\ bridge' = [bridge EXCEPT !.step = "push"]
    /\ UNCHANGED <<ring, log, queue, buffer, local, reader, viewer>>

\* ScrollbackRing::push: append, then drop the oldest bytes beyond the cap.
BridgePushes ==
    /\ bridge.step = "push"
    /\ ring' = LastOf(ring \o bridge.chunk, ScrollCap)
    /\ bridge' = [bridge EXCEPT !.step = "send"]
    /\ UNCHANGED <<lock, log, queue, buffer, local, reader, viewer>>

\* The broadcast, and the end of the critical section.
BridgeSends ==
    /\ bridge.step = "send"
    /\ log' = Append(log, bridge.chunk)
    /\ lock' = lock \ {"bridge"}
    /\ bridge' = [bridge EXCEPT !.step = "forward"]
    /\ UNCHANGED <<ring, queue, buffer, local, reader, viewer>>

\* tx.send fails once the local reader is dropped, and ends the thread.
BridgeForwards ==
    /\ bridge.step = "forward"
    /\ IF reader = "dropped"
       THEN bridge' = [bridge EXCEPT !.step = "done"] /\ UNCHANGED queue
       ELSE /\ queue' = Append(queue, bridge.chunk)
            /\ bridge' = [bridge EXCEPT !.step = "recv"]
    /\ UNCHANGED <<lock, ring, log, buffer, local, reader, viewer>>

\* ShellEvent::Exit or Error, or the end of the event channel.
BridgeExits ==
    /\ bridge.step = "recv"
    /\ bridge' = [bridge EXCEPT !.step = "done"]
    /\ UNCHANGED <<lock, ring, log, queue, buffer, local, reader, viewer>>
-------------------------------------------------------------------------------
\* Mistaken: what does not fit the caller's buffer is lost.
LocalReadsShort(size) ==
    LET source == IF buffer # <<>> THEN buffer ELSE Head(queue)
        n == IF Len(source) < size THEN Len(source) ELSE size
    IN  /\ reader = "reading" /\ (buffer # <<>> \/ queue # <<>>)
        /\ local' = local \o SubSeq(source, 1, n)
        /\ buffer' = <<>>
        /\ queue' = IF buffer # <<>> THEN queue ELSE Tail(queue)
        /\ UNCHANGED <<bridge, lock, ring, log, reader, viewer>>

\* Read::read with a buffer of the given size: the rest of the last chunk first,
\* else the next chunk of the channel.
LocalReads(size) ==
    LET source == IF buffer # <<>> THEN buffer ELSE Head(queue)
        n == IF Len(source) < size THEN Len(source) ELSE size
    IN  /\ reader = "reading" /\ (buffer # <<>> \/ queue # <<>>)
        /\ local' = local \o SubSeq(source, 1, n)
        /\ buffer' = SubSeq(source, n + 1, Len(source))
        /\ queue' = IF buffer # <<>> THEN queue ELSE Tail(queue)
        /\ UNCHANGED <<bridge, lock, ring, log, reader, viewer>>

\* Ok(0): the channel is empty and its sender is gone.
LocalEnds ==
    /\ reader = "reading" /\ buffer = <<>> /\ queue = <<>>
    /\ bridge.step = "done"
    /\ reader' = "eof"
    /\ UNCHANGED <<bridge, lock, ring, log, queue, buffer, local, viewer>>

\* The tab's TerminalView is dropped, and its reading thread with it.
LocalDropped ==
    /\ reader = "reading"
    /\ reader' = "dropped"
    /\ UNCHANGED <<bridge, lock, ring, log, queue, buffer, local, viewer>>
-------------------------------------------------------------------------------
\* snapshot_and_subscribe, in three steps under the mutex.
ViewerLocks(v) ==
    /\ viewer[v].step = "new" /\ lock = {}
    /\ lock' = {v}
    /\ Set(v, [viewer[v] EXCEPT !.step = "locked"])
    /\ UNCHANGED <<bridge, ring, log, queue, buffer, local, reader>>

ViewerSnapshots(v) ==
    /\ viewer[v].step = "locked"
    /\ Set(v, [viewer[v] EXCEPT !.step = "subscribe", !.snapshot = ring])
    /\ UNCHANGED <<bridge, lock, ring, log, queue, buffer, local, reader>>

\* A new receiver starts behind the last message sent.  The task then begins with
\* the scrollback, unless it is empty.
ViewerSubscribes(v) ==
    /\ viewer[v].step = "subscribe"
    /\ lock' = lock \ {v}
    /\ Set(v, [viewer[v] EXCEPT !.step = "stream", !.next = Len(log) + 1,
                                !.at = {Written}, !.out = viewer[v].snapshot])
    /\ UNCHANGED <<bridge, ring, log, queue, buffer, local, reader>>

Receiving(v) == viewer[v].step = "stream" /\ viewer[v].out = <<>>
Behind(v) == Len(log) + 1 - viewer[v].next

\* recv() yields the next message.
ViewerReceives(v) ==
    /\ Receiving(v) /\ Behind(v) \in 1 .. BusCap
    /\ Set(v, [viewer[v] EXCEPT !.out = log[viewer[v].next], !.next = @ + 1])
    /\ UNCHANGED <<bridge, lock, ring, log, queue, buffer, local, reader>>

\* recv() yields Lagged and moves to the oldest message kept; the task continues.
ViewerLags(v) ==
    /\ Receiving(v) /\ Behind(v) > BusCap
    /\ Set(v, [viewer[v] EXCEPT !.next = Len(log) - BusCap + 1, !.lagged = TRUE])
    /\ UNCHANGED <<bridge, lock, ring, log, queue, buffer, local, reader>>

\* The client reads what write_all is sending; until it does the task waits.
ClientReads(v) ==
    /\ viewer[v].step = "stream" /\ viewer[v].out # <<>> /\ viewer[v].peer
    /\ Set(v, [viewer[v] EXCEPT !.screen = @ \o viewer[v].out, !.out = <<>>])
    /\ UNCHANGED <<bridge, lock, ring, log, queue, buffer, local, reader>>

ClientGone(v) ==
    /\ viewer[v].peer
    /\ Set(v, [viewer[v] EXCEPT !.peer = FALSE])
    /\ UNCHANGED <<bridge, lock, ring, log, queue, buffer, local, reader>>

\* write_all fails and the output task ends.
WriteFails(v) ==
    /\ viewer[v].step = "stream" /\ viewer[v].out # <<>> /\ ~viewer[v].peer
    /\ Set(v, [viewer[v] EXCEPT !.step = "ended", !.out = <<>>])
    /\ UNCHANGED <<bridge, lock, ring, log, queue, buffer, local, reader>>

BridgeStep == BridgeLocks \/ BridgePushes \/ BridgeSends \/ BridgeForwards

TaskStep(v) == \/ ViewerSnapshots(v) \/ ViewerSubscribes(v)
               \/ ViewerReceives(v) \/ ViewerLags(v) \/ WriteFails(v)

LocalStep == (\E size \in ReadSizes : LocalReads(size)) \/ LocalEnds

Next == \/ \E size \in ChunkSizes : BridgeReceives(size)
        \/ BridgeStep \/ BridgeExits
        \/ LocalStep \/ LocalDropped
        \/ \E v \in Viewers : \/ ViewerLocks(v) \/ TaskStep(v)
                              \/ ClientReads(v) \/ ClientGone(v)

Spec == Init /\ [][Next]_vars

\* Threads and ready tasks run, so a mutex is released; nothing says that a viewer
\* ever obtains it.  Only the clients in Prompt can be relied upon to read.
Fairness == /\ WF_vars(BridgeStep)
            /\ WF_vars(LocalStep)
            /\ \A v \in Viewers : WF_vars(TaskStep(v))
            /\ \A v \in Prompt : WF_vars(ClientReads(v))

FairSpec == Spec /\ Fairness
-------------------------------------------------------------------------------
Contiguous(s) == \A i \in 1 .. Len(s) - 1 : s[i + 1] = s[i] + 1

\* The types, and the order of positions: nobody is ahead of the log.
TypeOK ==
    /\ bridge.step \in {"recv", "lock", "push", "send", "forward", "done"}
    /\ lock \subseteq Viewers \union {"bridge"} /\ Cardinality(lock) <= 1
    /\ ring \in Seq(1 .. MaxBytes) /\ local \in Seq(1 .. MaxBytes)
    /\ buffer \in Seq(1 .. MaxBytes)
    /\ reader \in {"reading", "eof", "dropped"}
    /\ \A v \in Viewers : /\ viewer[v].step \in {"new", "locked", "subscribe", "stream", "ended"}
                          /\ viewer[v].next \in 1 .. Len(log) + 1

\* Outside the critical section the ring is exactly the newest output that was
\* broadcast: this is what lets a snapshot and a subscription meet without a seam.
RingMatchesLog ==
    lock = {} => ring = LastOf(Run(1, Written), ScrollCap)

\* A viewer that never lagged has an unbroken run of the output, from the oldest
\* byte of the scrollback it joined with: no duplicates, no gaps.
NoSeam ==
    \A v \in Viewers :
        ~viewer[v].lagged /\ viewer[v].screen # <<>> =>
            /\ Contiguous(viewer[v].screen)
            /\ \A n \in viewer[v].at :
                 Head(viewer[v].screen) = IF n > ScrollCap THEN n - ScrollCap + 1 ELSE 1

\* The desktop's terminal gets every byte in order across chunk and buffer
\* boundaries, and is told of the end only when it has all that was published.
LocalIsComplete ==
    /\ local = Run(1, Len(local))
    /\ reader = "eof" => Len(local) = Written

\* What a viewer and the desktop show is the process's output, nothing lost, doubled or
\* out of order on the way.
OutputIsComplete == NoSeam /\ LocalIsComplete

\* pty_adapter.rs:86: the local terminal never stalls because a remote client is
\* slow - whatever the clients outside Prompt do, it catches up with the process
\* again and again.
LocalCaughtUp == /\ bridge.step \in {"recv", "done"}
                 /\ Len(local) = Written
LocalNeverStalls == []<>(LocalCaughtUp \/ reader = "dropped")

\* A client that keeps reading ends up with the latest output, lagged or not.
ViewerCaughtUp(v) == viewer[v].screen # <<>> => viewer[v].screen[Len(viewer[v].screen)] = Written
LatestReachesViewer ==
    \A v \in Prompt :
        []<>(viewer[v].step = "stream" /\ viewer[v].peer =>
                viewer[v].out = <<>> /\ ViewerCaughtUp(v))

\* The output arrives, at the desktop whatever the clients do and at every client that reads.
OutputArrives == LocalNeverStalls /\ LatestReachesViewer

\* The output path implements OutputFeed.
Feed == INSTANCE OutputFeed WITH
            Window <- BusCap,
            published <- Written,
            shown <- [v \in Viewers |-> viewer[v].screen],
            joined <- [v \in Viewers |-> viewer[v].at]
ImplementsFeed == Feed!FeedSpec
===============================================================================

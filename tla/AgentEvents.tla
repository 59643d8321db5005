---------------------------- MODULE AgentEvents -----------------------------
(***************************************************************************)
(* The status of an agent, from the hook that appends a line to a file in  *)
(* the sandbox to the field the tab bar paints: the hook script            *)
(* (agent_config.rs), the watcher thread that reads the file and then      *)
(* truncates it (event_watcher.rs), the channel, and the task that copies  *)
(* each status into the tab (boot.rs).  The watch itself is the sandbox's: *)
(* a change of the file leaves a notice once the watch is open.            *)
(***************************************************************************)
EXTENDS Naturals, SequencesExt

CONSTANTS HookReports,  \* what the agent's hooks report
          MaxEvents     \* bound: events they report

(* What a hook may report.  "other" is an event name into_status drops,    *)
(* "bad" a line that is not JSON (the script does not escape quotes).      *)
Reports == {"session_start", "running", "needs_input", "idle", "session_end",
            "other", "bad"}

ASSUME EventsAssumption == HookReports \subseteq Reports /\ MaxEvents \in Nat

Statuses == {"Idle", "Running", "NeedsInput", "Unknown"}

VARIABLES
    reported,  \* ghost: every event so far, in the order the lines were appended
    lines,     \* events.jsonl: indexes into reported
    noticed,   \* whether the open watch has a notice the thread has not taken
    watcher,   \* the thread: where it is, and the content it has read
    unwatched, \* ghost: the lines nothing makes the thread read (any more):
               \* appended before the watch opened, left by a read that failed,
               \* or removed unread by the truncation
    sent,      \* the flume channel: indexes
    status,    \* tab.agent_status
    delivered, \* ghost: the lines whose status the tab has had
    event_service \* whether the tab still holds the service

event_vars == <<reported, lines, noticed, watcher, unwatched, sent, status, delivered, event_service>>

EventIx == 1..MaxEvents
EventsTypeOK ==
    /\ reported \in Seq(Reports) /\ Len(reported) <= MaxEvents
    /\ lines \in Seq(EventIx) /\ sent \in Seq(EventIx)
    /\ noticed \in BOOLEAN /\ event_service \in BOOLEAN
    /\ watcher \in [at : {"opening", "waiting", "settling", "read", "ended"},
                    text : Seq(EventIx)]
    /\ unwatched \in SUBSET EventIx /\ status \in Statuses /\ delivered \in SUBSET EventIx

EventsInit ==
    /\ reported = <<>> /\ lines = <<>> /\ noticed = FALSE
    /\ watcher = [at |-> "opening", text |-> <<>>]
    /\ unwatched = {} /\ sent = <<>> /\ status = "Unknown" /\ delivered = {}
    /\ event_service = TRUE

(* into_status: "none" where it gives no status.                           *)
into_status(r) ==
    CASE r \in {"session_start", "idle"} -> "Idle"
      [] r = "running" -> "Running"
      [] r = "needs_input" -> "NeedsInput"
      [] r = "session_end" -> "Unknown"
      [] OTHER -> "none"
HasStatus(i) == into_status(reported[i]) # "none"

(* The hook: one line appended.  The agent starts before the watch opens.  *)
Hook(r) ==
    /\ Len(reported) < MaxEvents
    /\ reported' = Append(reported, r)
    /\ lines' = Append(lines, Len(reported'))
    /\ noticed' = (noticed \/ watcher.at # "opening")
    /\ unwatched' = IF watcher.at = "opening" THEN unwatched \cup {Len(reported')}
                                             ELSE unwatched
    /\ UNCHANGED <<watcher, sent, status, delivered, event_service>>

(* open_watch; when it fails the thread ends and no status ever comes.     *)
OpenWatch ==
    /\ watcher.at = "opening"
    /\ watcher' \in {[watcher EXCEPT !.at = "waiting"], [watcher EXCEPT !.at = "ended"]}
    /\ UNCHANGED <<reported, lines, noticed, unwatched, sent, status, delivered, event_service>>

(* select!: a notice begins the settling; a stop ends the thread.          *)
Notice ==
    /\ watcher.at = "waiting" /\ noticed
    /\ watcher' = [watcher EXCEPT !.at = "settling"]
    /\ noticed' = FALSE
    /\ UNCHANGED <<reported, lines, unwatched, sent, status, delivered, event_service>>
(* A stopped sandbox closes the watch.                                     *)
WatchCloses ==
    /\ watcher.at \in {"waiting", "settling"}
    /\ watcher' = [watcher EXCEPT !.at = "ended"]
    /\ UNCHANGED <<reported, lines, noticed, unwatched, sent, status, delivered, event_service>>
Stop ==
    /\ watcher.at = "waiting" /\ ~event_service
    /\ watcher' = [watcher EXCEPT !.at = "ended"]
    /\ UNCHANGED <<reported, lines, noticed, unwatched, sent, status, delivered, event_service>>

(* The settling drains the notices; 50 ms without one, the file is read.   *)
(* DrainForgets: a variant that waits again once the notices are drained.  *)
DrainForgets ==
    /\ watcher.at = "settling" /\ noticed
    /\ noticed' = FALSE /\ watcher' = [watcher EXCEPT !.at = "waiting"]
    /\ UNCHANGED <<reported, lines, unwatched, sent, status, delivered, event_service>>
Drain ==
    /\ watcher.at = "settling" /\ noticed
    /\ noticed' = FALSE
    /\ UNCHANGED <<reported, lines, watcher, unwatched, sent, status, delivered, event_service>>
ReadFile ==
    /\ watcher.at = "settling" /\ ~noticed
    /\ watcher' = IF lines = <<>> THEN [at |-> "waiting", text |-> <<>>]
                                  ELSE [at |-> "read", text |-> lines]
    /\ UNCHANGED <<reported, lines, noticed, unwatched, sent, status, delivered, event_service>>
ReadFails ==
    /\ watcher.at = "settling" /\ ~noticed
    /\ watcher' = [at |-> "waiting", text |-> <<>>]
    /\ unwatched' = unwatched \cup (ToSet(lines) \ (delivered \cup ToSet(sent)))
    /\ UNCHANGED <<reported, lines, noticed, sent, status, delivered, event_service>>

(* The file is emptied, with what was appended since the read, and each    *)
(* line read is parsed: a bad line is printed and skipped.  A failure to   *)
(* empty the file is ignored, and its lines are read again with the next.  *)
(* ParsedUpToBad: a variant that stops at the first bad line.              *)
FirstBad(text) == SelectInSeq(text, LAMBDA i : reported[i] = "bad")
ParsedUpToBad(text) ==
    SelectSeq(IF FirstBad(text) = 0 THEN text ELSE SubSeq(text, 1, FirstBad(text) - 1),
              HasStatus)
Parsed(text) ==
    LET parsed[n \in 0..Len(text)] ==
            IF n = 0 THEN <<>>
            ELSE IF HasStatus(text[n]) THEN Append(parsed[n - 1], text[n]) ELSE parsed[n - 1]
    IN  parsed[Len(text)]
SendStatuses(emptied) ==
    /\ watcher.at = "read"
    /\ watcher' = [at |-> "waiting", text |-> <<>>]
    /\ sent' = sent \o Parsed(watcher.text)
    /\ IF emptied
       THEN /\ lines' = <<>> /\ noticed' = TRUE
            /\ unwatched' = (unwatched \cup ToSet(lines)) \ ToSet(watcher.text)
       ELSE /\ unwatched' = unwatched \ ToSet(watcher.text)
            /\ UNCHANGED <<lines, noticed>>
    /\ UNCHANGED <<reported, status, delivered, event_service>>

(* The bridge: each status received becomes the tab's, while there is one. *)
Bridge ==
    /\ sent # <<>> /\ sent' = Tail(sent)
    /\ status' = IF event_service THEN into_status(reported[Head(sent)]) ELSE status
    /\ delivered' = delivered \cup {Head(sent)}
    /\ UNCHANGED <<reported, lines, noticed, watcher, unwatched, event_service>>

(* The tab is closed: the service is dropped with it.                      *)
CloseTab ==
    /\ event_service /\ event_service' = FALSE
    /\ UNCHANGED <<reported, lines, noticed, watcher, unwatched, sent, status, delivered>>

WatcherStep == OpenWatch \/ Notice \/ Stop \/ Drain \/ ReadFile \/ \E e \in BOOLEAN : SendStatuses(e)
EventsNext ==
    \/ \E r \in HookReports : Hook(r)
    \/ WatcherStep
    \/ WatchCloses \/ ReadFails
    \/ Bridge \/ CloseTab
EventsFairness == WF_event_vars(WatcherStep) /\ WF_event_vars(Bridge)
EventsSpec == EventsInit /\ [][EventsNext]_event_vars /\ EventsFairness

-----------------------------------------------------------------------------
(* Between two bursts the tab shows the status of the last event that was  *)
(* reported, whatever came in one batch, was read twice or was not JSON:   *)
(* the exceptions are the events nothing made the thread read.             *)
AtRest == watcher.at = "waiting" /\ ~noticed /\ sent = <<>> /\ event_service
Seen == {i \in 1..Len(reported) : HasStatus(i) /\ i \notin unwatched}
StatusIsLatest ==
    AtRest =>
        status = IF Seen = {} THEN "Unknown" ELSE into_status(reported[Max(Seen)])

(* Every event reported once the watch is open reaches the tab, unless the *)
(* truncation or a failed read loses it or the watch ends.                 *)
EventReachesTab ==
    \A i \in EventIx :
        (i <= Len(reported) /\ i \notin unwatched /\ HasStatus(i))
            ~> (i \in delivered \cup unwatched \/ watcher.at = "ended")
=============================================================================

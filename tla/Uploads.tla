------------------------------- MODULE Uploads -------------------------------
(***************************************************************************)
(* Attachments: a file a remote client sends on a data stream of its own   *)
(* (client.rs, wasm.rs), which the host collects (session.rs, handler.rs), *)
(* writes where the tab runs on the desktop's main thread (main.rs), and   *)
(* types the path of into the tab's terminal.  The host's 60 seconds for   *)
(* the main thread, a lost connection and a closed tab meet it anywhere.   *)
(*                                                                         *)
(* A file is Pieces pieces, and its name is what is left of it without     *)
(* directories.  Each upload has a connection of its own, as those of two  *)
(* devices have.                                                           *)
(***************************************************************************)
EXTENDS Naturals, Sequences

CONSTANTS
    UploadIds,  \* the uploads
    UploadTabs, \* the tabs they go to
    Places,     \* the sandboxes, and the host's own directory
    PlaceOf(_), \* where a tab's files go: a guest shell shares its agent's sandbox
    FileNames,
    NoUpload,
    Pieces

ASSUME UploadsAssumption ==
    /\ Pieces \in Nat \ {0} /\ NoUpload \notin UploadIds
    /\ \A t \in UploadTabs : PlaceOf(t) \in Places

VARIABLES
    upload,   \* per upload: its tab and name, where the client is (at), pieces
              \* sent, whether the stream was finished, where the host's task is
              \* and the pieces it has
    linked,   \* uploads whose connection is up
    queue,    \* HostCommand::WriteAttachment, in the order they were sent
    wrote,    \* per upload: what its write did: nothing, "whole" or "cut"
    saved,    \* per place and name: the upload last written, and its pieces
    typed,    \* per upload: how often its path was typed
    tabs_open \* the tabs that run
upload_vars == <<upload, linked, queue, wrote, saved, typed, tabs_open>>

NoFileThere == [of |-> NoUpload, pieces |-> 0]
Where(u) == <<PlaceOf(upload[u].tab), upload[u].name>>

UploadsTypeOK ==
    /\ upload \in [UploadIds ->
          [tab : UploadTabs, name : FileNames, sent : 0..Pieces, finished : BOOLEAN,
           at : {"none", "init", "sending", "awaiting", "done", "failed"},
           task : {"none", "reading", "queued", "typing", "answered", "ended"},
           arrived : 0..Pieces]]
    /\ linked \subseteq UploadIds /\ queue \in Seq(UploadIds)
    /\ wrote \in [UploadIds -> {"nothing", "whole", "cut"}]
    /\ saved \in [Places \X FileNames -> [of : UploadIds \cup {NoUpload}, pieces : 0..Pieces]]
    /\ typed \in [UploadIds -> Nat] /\ tabs_open \subseteq UploadTabs

UploadsInit ==
    /\ \E tab \in [UploadIds -> UploadTabs], name \in [UploadIds -> FileNames] :
          upload = [u \in UploadIds |->
              [tab |-> tab[u], name |-> name[u], sent |-> 0, finished |-> FALSE,
               at |-> "none", task |-> "none", arrived |-> 0]]
    /\ linked = UploadIds /\ queue = <<>>
    /\ wrote = [u \in UploadIds |-> "nothing"]
    /\ saved = [p \in Places \X FileNames |-> NoFileThere]
    /\ typed = [u \in UploadIds |-> 0] /\ tabs_open = UploadTabs

-----------------------------------------------------------------------------
(* The client.                                                             *)
ClientStep(u, from, to) ==
    /\ upload[u].at = from /\ u \in linked
    /\ upload' = [upload EXCEPT ![u] = to]
    /\ UNCHANGED <<linked, queue, wrote, saved, typed, tabs_open>>

upload_attachment(u) == ClientStep(u, "none", [upload[u] EXCEPT !.at = "init"])

ReadsAck(u) ==
    /\ upload[u].task \notin {"none", "ended"}
    /\ ClientStep(u, "init", [upload[u] EXCEPT !.at = "sending"])

SendsPiece(u) ==
    upload[u].sent < Pieces /\ ClientStep(u, "sending", [upload[u] EXCEPT !.sent = @ + 1])

Finishes(u) ==
    /\ upload[u].sent = Pieces
    /\ ClientStep(u, "sending", [upload[u] EXCEPT !.at = "awaiting", !.finished = TRUE])

ReadsResult(u) ==
    upload[u].task = "answered" /\ ClientStep(u, "awaiting", [upload[u] EXCEPT !.at = "done"])

(* The connection is gone, or the host dropped the stream: an error in     *)
(* whatever the client does next.                                          *)
UploadFails(u) ==
    /\ upload[u].at \in {"init", "sending", "awaiting"}
    /\ u \notin linked \/ upload[u].task = "ended"
    /\ upload' = [upload EXCEPT ![u].at = "failed"]
    /\ UNCHANGED <<linked, queue, wrote, saved, typed, tabs_open>>

LosesLink(u) ==
    /\ linked' = linked \ {u} /\ u \in linked
    /\ UNCHANGED <<upload, queue, wrote, saved, typed, tabs_open>>

-----------------------------------------------------------------------------
(* The host's task.                                                        *)
HostStep(u, from, to) ==
    /\ upload[u].task = from
    /\ upload' = [upload EXCEPT ![u] = to]
    /\ UNCHANGED <<linked, wrote, saved, tabs_open>>

(* drive_data_stream: acknowledged before its size is looked at.           *)
AcceptsUpload(u) ==
    /\ upload[u].at = "init" /\ u \in linked
    /\ HostStep(u, "none", [upload[u] EXCEPT !.task = "reading"])
    /\ UNCHANGED <<queue, typed>>

(* Not authenticated, revoked, no init in time; or too large.              *)
RefusesUpload(u) ==
    /\ upload[u].at # "none"
    /\ \/ HostStep(u, "none", [upload[u] EXCEPT !.task = "ended"])
       \/ upload[u].arrived = 0 /\ HostStep(u, "reading", [upload[u] EXCEPT !.task = "ended"])
    /\ UNCHANGED <<queue, typed>>

ReadsPiece(u) ==
    /\ upload[u].arrived < upload[u].sent
    /\ HostStep(u, "reading", [upload[u] EXCEPT !.arrived = @ + 1])
    /\ UNCHANGED <<queue, typed>>

(* The end of the stream, not the size that was announced, ends the loop.  *)
(* A variant that takes a lost connection for the end of the file too.     *)
ReadEnded(u) ==
    u \notin linked \/ (upload[u].finished /\ upload[u].arrived = upload[u].sent)
AllRead(u) == upload[u].finished /\ upload[u].arrived = upload[u].sent

SendsWrite(u) ==
    /\ AllRead(u)
    /\ HostStep(u, "reading", [upload[u] EXCEPT !.task = "queued"])
    /\ queue' = Append(queue, u)
    /\ UNCHANGED typed

ReadFails(u) ==
    /\ u \notin linked /\ HostStep(u, "reading", [upload[u] EXCEPT !.task = "ended"])
    /\ UNCHANGED <<queue, typed>>

(* send_and_await: 60 seconds, at any time; the command stays queued.      *)
WriteTimesOut(u) ==
    /\ HostStep(u, "queued", [upload[u] EXCEPT !.task = "ended"])
    /\ UNCHANGED <<queue, typed>>

(* Into the bus of the tab, if it is still there; then the answer.         *)
TypesPath(u) ==
    /\ HostStep(u, "typing", [upload[u] EXCEPT !.task = "answered"])
    /\ typed' = IF upload[u].tab \in tabs_open THEN [typed EXCEPT ![u] = @ + 1] ELSE typed
    /\ UNCHANGED queue

-----------------------------------------------------------------------------
(* The main thread: write_attachment, over whatever has that name.  An     *)
(* error may leave a file cut short.                                       *)
Replies(u, task) ==
    upload' = IF upload[u].task = "queued" THEN [upload EXCEPT ![u].task = task] ELSE upload

WriteAttachment ==
    /\ queue # <<>> /\ queue' = Tail(queue)
    /\ LET u == Head(queue) IN
       \/ /\ upload[u].tab \in tabs_open
          /\ saved' = [saved EXCEPT ![Where(u)] = [of |-> u, pieces |-> upload[u].arrived]]
          /\ wrote' = [wrote EXCEPT ![u] = "whole"] /\ Replies(u, "typing")
       \/ /\ upload[u].tab \in tabs_open
          /\ saved' = [saved EXCEPT ![Where(u)] = [of |-> u, pieces |-> 0]]
          /\ wrote' = [wrote EXCEPT ![u] = "cut"] /\ Replies(u, "ended")
       \/ UNCHANGED <<saved, wrote>> /\ Replies(u, "ended")
    /\ UNCHANGED <<linked, typed, tabs_open>>

TabEnds(t) ==
    /\ tabs_open' = tabs_open \ {t}
    /\ UNCHANGED <<upload, linked, queue, wrote, saved, typed>>

UploadsNext ==
    \/ \E u \in UploadIds :
          \/ upload_attachment(u) \/ ReadsAck(u) \/ SendsPiece(u) \/ Finishes(u)
          \/ ReadsResult(u) \/ UploadFails(u) \/ LosesLink(u)
          \/ AcceptsUpload(u) \/ RefusesUpload(u) \/ ReadsPiece(u) \/ SendsWrite(u)
          \/ ReadFails(u) \/ WriteTimesOut(u) \/ TypesPath(u)
    \/ WriteAttachment
    \/ \E t \in UploadTabs : TabEnds(t)

UploadsSpec == UploadsInit /\ [][UploadsNext]_upload_vars

-----------------------------------------------------------------------------
(* A path that was typed, or told to the client, is where the tab runs,    *)
(* and names a whole file, of this upload or a later one of the name: never*)
(* what had come when a connection was lost, unless a later write failed,  *)
(* which told nobody a path.  No path is typed twice, whatever is answered *)
(* late.                                                                   *)
UploadIsTrue ==
    \A u \in UploadIds :
        /\ typed[u] <= 1
        /\ typed[u] > 0 \/ upload[u].at = "done" =>
              /\ wrote[u] = "whole"
              /\ LET file == saved[Where(u)] IN
                    /\ file.of # NoUpload
                    /\ file.pieces = Pieces \/ wrote[file.of] = "cut"

(* What follows is said of the code, and the code does not keep it         *)
(* (README, section 7).                                                    *)

(* stream.rs:36 "The host sanitizes and may adjust to avoid collisions."   *)
NamesStayApart ==
    \A u \in UploadIds : upload[u].at = "done" => saved[Where(u)].of = u
=============================================================================

--------------------------- MODULE RuntimeInstall ---------------------------
(***************************************************************************)
(* The first-run installation of the sandbox runtime image: the files on   *)
(* disk (runtime.rs), the thread that downloads and unpacks them, and the  *)
(* setup screen that covers the window until they are there (ui/setup.rs). *)
(* The disk outlives the process: the program may end between any two      *)
(* steps, and the version that runs next may be another one.               *)
(***************************************************************************)
EXTENDS Naturals, Sequences, FiniteSets

CONSTANTS
    ImageFiles,    \* REQUIRED_FILES
    AppVersions,   \* the values SHURU_VERSION has over the builds the user runs
    MaxLaunches    \* bound: launches of the program

NoStamp == 0
ASSUME RuntimeAssumption ==
    /\ IsFiniteSet(ImageFiles) /\ AppVersions \subseteq Nat \ {NoStamp}
    /\ MaxLaunches \in Nat

VARIABLES
    app,       \* the version that runs, NoStamp when none does
    files,     \* each file on disk: absent, or the version it is of and whether whole
    stamp,     \* what VERSION holds
    job,       \* the download thread: what it does, and what is left to unpack
    posted,    \* the messages the thread has sent and the screen has not read
    screen,    \* "main" once nothing covers the window
    steps,     \* the three steps the setup screen lists
    blurred,   \* ghost: files were replaced under a VERSION that stayed
    launches

runtime_vars == <<app, files, stamp, job, posted, screen, steps, blurred, launches>>

Absent == [of |-> NoStamp, whole |-> FALSE]
NoJob == [at |-> "none", left |-> {}]

(* is_ready: every file exists and VERSION names this build.               *)
IsReady(v, s) == (\A f \in ImageFiles : files[f] # Absent) /\ s = v

RuntimeTypeOK ==
    /\ app \in AppVersions \cup {NoStamp} /\ stamp \in AppVersions \cup {NoStamp}
    /\ files \in [ImageFiles -> [of : AppVersions \cup {NoStamp}, whole : BOOLEAN]]
    /\ job \in [at : {"none", "downloading", "unpacking", "stamping", "checking"},
                left : SUBSET ImageFiles]
    /\ posted \in Seq({"extracting", "ok", "failed"})
    /\ screen \in {"closed", "welcome", "installing", "main"}
    /\ steps \in [1..3 -> {"pending", "active", "done", "failed"}]
    /\ blurred \in BOOLEAN /\ launches \in 0..MaxLaunches

AllPending == [i \in 1..3 |-> "pending"]

RuntimeInit ==
    /\ app = NoStamp /\ files = [f \in ImageFiles |-> Absent] /\ stamp = NoStamp
    /\ job = NoJob /\ posted = <<>> /\ screen = "closed"
    /\ steps = AllPending /\ blurred = FALSE /\ launches = 0

-----------------------------------------------------------------------------
(* The program starts: AppView builds the setup screen unless is_ready.    *)
Launch(v) ==
    /\ app = NoStamp /\ launches < MaxLaunches
    /\ app' = v /\ launches' = launches + 1
    /\ screen' = IF IsReady(v, stamp) THEN "main" ELSE "welcome"
    /\ steps' = AllPending
    /\ UNCHANGED <<files, stamp, job, posted, blurred>>

(* The program ends: quit or killed, wherever the thread is.               *)
Quit ==
    /\ app # NoStamp
    /\ app' = NoStamp /\ job' = NoJob /\ posted' = <<>> /\ screen' = "closed"
    /\ UNCHANGED <<files, stamp, steps, blurred, launches>>

(* start_setup: the button exists on the welcome page only.                *)
StartSetup ==
    /\ screen = "welcome"
    /\ screen' = "installing" /\ steps' = [steps EXCEPT ![1] = "active"]
    /\ job' = [at |-> "downloading", left |-> {}]
    /\ UNCHANGED <<app, files, stamp, posted, blurred, launches>>

(* The thread returns an error: on_done(Err).                              *)
Bails ==
    /\ job' = NoJob /\ posted' = Append(posted, "failed")

(* download_to_file fails: no connection, a bad status, a short body.      *)
DownloadFails ==
    /\ job.at = "downloading" /\ Bails
    /\ UNCHANGED <<app, files, stamp, screen, steps, blurred, launches>>

(* A variant that stamps before it unpacks.                                *)
DownloadStampedFirst ==
    /\ job.at = "downloading"
    /\ job' = [at |-> "unpacking", left |-> ImageFiles]
    /\ files' = [f \in ImageFiles |-> Absent]
    /\ stamp' = app /\ blurred' = FALSE
    /\ posted' = Append(posted, "extracting")
    /\ UNCHANGED <<app, screen, steps, launches>>

(* The archive is there: on_extracting, and extract_archive begins by      *)
(* removing the required files. VERSION stays. The archive may miss a file.*)
Download ==
    /\ job.at = "downloading"
    /\ \E missing \in SUBSET ImageFiles :
          /\ Cardinality(missing) <= 1
          /\ job' = [at |-> "unpacking", left |-> ImageFiles \ missing]
    /\ files' = [f \in ImageFiles |-> Absent]
    /\ blurred' = (stamp # NoStamp)
    /\ posted' = Append(posted, "extracting")
    /\ UNCHANGED <<app, stamp, screen, steps, launches>>

(* archive.unpack: a file exists from its first byte on.                   *)
UnpackBegins(f) ==
    /\ job.at = "unpacking" /\ f \in job.left
    /\ \A g \in ImageFiles : files[g] = Absent \/ files[g].whole
    /\ files' = [files EXCEPT ![f] = [of |-> app, whole |-> FALSE]]
    /\ job' = [job EXCEPT !.left = @ \ {f}]
    /\ UNCHANGED <<app, stamp, posted, screen, steps, blurred, launches>>
UnpackEnds(f) ==
    /\ job.at = "unpacking" /\ files[f] # Absent /\ ~files[f].whole
    /\ files' = [files EXCEPT ![f].whole = TRUE]
    /\ UNCHANGED <<app, stamp, job, posted, screen, steps, blurred, launches>>

(* unpack fails (the disk is full, the archive is cut).                    *)
UnpackFails ==
    /\ job.at = "unpacking" /\ Bails
    /\ UNCHANGED <<app, files, stamp, screen, steps, blurred, launches>>

Unpacked == job.left = {} /\ \A f \in ImageFiles : files[f] = Absent \/ files[f].whole
UnpackedAll ==
    /\ job.at = "unpacking" /\ Unpacked
    /\ job' = [job EXCEPT !.at = "stamping"]
    /\ UNCHANGED <<app, files, stamp, posted, screen, steps, blurred, launches>>

(* VERSION is written, and only then are the required files looked for.    *)
WriteStamp ==
    /\ job.at = "stamping"
    /\ stamp' = app /\ blurred' = FALSE
    /\ job' = [job EXCEPT !.at = "checking"]
    /\ UNCHANGED <<app, files, posted, screen, steps, launches>>
(* fs::write fails: the old VERSION is untouched, or already truncated.    *)
StampFails ==
    /\ job.at = "stamping" /\ Bails
    /\ stamp' \in {stamp, NoStamp}
    /\ blurred' = (blurred /\ stamp' = stamp)
    /\ UNCHANGED <<app, files, screen, steps, launches>>
Verify ==
    /\ job.at = "checking"
    /\ job' = NoJob
    /\ posted' = Append(posted, IF \A f \in ImageFiles : files[f] # Absent
                                THEN "ok" ELSE "failed")
    /\ UNCHANGED <<app, files, stamp, screen, steps, blurred, launches>>

(* The screen's poll reads a message. 600 ms after an "ok" the next render *)
(* emits SetupComplete and the overlay goes (one step: nothing in between  *)
(* takes the success back).                                                *)
Active == {i \in 1..3 : steps[i] = "active"}
FirstFails ==
    [i \in 1..3 |-> IF i \in Active /\ \A j \in Active : i <= j
                    THEN "failed" ELSE steps[i]]
(* A variant that ends step 1 without beginning step 2.                    *)
StepsAfterGap(m) ==
    CASE m = "extracting" -> [steps EXCEPT ![1] = "done"]
      [] m = "ok" -> [steps EXCEPT ![2] = "done", ![3] = "done"]
      [] m = "failed" -> FirstFails
StepsAfter(m) ==
    CASE m = "extracting" -> [steps EXCEPT ![1] = "done", ![2] = "active"]
      [] m = "ok" -> [steps EXCEPT ![2] = "done", ![3] = "done"]
      [] m = "failed" -> FirstFails
ReadMessage ==
    /\ posted # <<>> /\ screen = "installing"
    /\ steps' = StepsAfter(Head(posted))
    /\ screen' = IF Head(posted) = "ok" THEN "main" ELSE screen
    /\ posted' = Tail(posted)
    /\ UNCHANGED <<app, files, stamp, job, blurred, launches>>

RuntimeNext ==
    \/ \E v \in AppVersions : Launch(v)
    \/ Quit
    \/ StartSetup
    \/ DownloadFails
    \/ Download
    \/ \E f \in ImageFiles : UnpackBegins(f) \/ UnpackEnds(f)
    \/ UnpackFails
    \/ UnpackedAll
    \/ WriteStamp
    \/ StampFails
    \/ Verify
    \/ ReadMessage

(* The thread and the poll run while the program does.                     *)
RuntimeProgress ==
    \/ DownloadFails \/ Download \/ UnpackFails \/ UnpackedAll
    \/ WriteStamp \/ StampFails \/ Verify \/ ReadMessage
    \/ \E f \in ImageFiles : UnpackBegins(f) \/ UnpackEnds(f)
RuntimeFairness == WF_runtime_vars(RuntimeProgress)
RuntimeSpec == RuntimeInit /\ [][RuntimeNext]_runtime_vars /\ RuntimeFairness

-----------------------------------------------------------------------------
(* The window is shown only over a runtime it can boot: every file whole   *)
(* and of the version that runs, after any sequence of interrupted         *)
(* installations, upgrades and rollbacks, unless the files were replaced   *)
(* under a VERSION that is still the old one (extract_archive leaves it).  *)
MainHasRuntime ==
    screen = "main" /\ ~blurred /\ job = NoJob =>
        \A f \in ImageFiles : files[f] = [of |-> app, whole |-> TRUE]

(* A setup that was started says how it ended: the overlay goes, a step is *)
(* marked failed with nothing left in the queue, or the program ended.     *)
SetupReports ==
    screen = "installing" ~>
        (\/ screen \in {"main", "closed"}
         \/ posted = <<>> /\ \E i \in 1..3 : steps[i] = "failed")

(* What follows is said of the code, and the code does not keep it         *)
(* (README, section 7).                                                    *)

(* What is_ready's comment says: the runtime is installed and matches our  *)
(* version. A rollback after an interrupted upgrade refutes it.            *)
ReadyMatchesVersion ==
    screen = "main" => \A f \in ImageFiles : files[f] = [of |-> app, whole |-> TRUE]
=============================================================================

----------------------------- MODULE Agents_proofs -----------------------------
(***************************************************************************)
(* Proofs about what an agent runs on: the runtime image and its VERSION   *)
(* file, for any versions, files and launches; the setup list and the      *)
(* task that works through it, for any number of install steps and tabs;   *)
(* and the auth gateway, for any number of connections, refreshes and      *)
(* edits of the credentials.  And about what is seen of it: the status its *)
(* events give its tab, for any number of events in any batches, and its   *)
(* terminal's queue of mouse events, for any length of it.                 *)
(***************************************************************************)
EXTENDS RuntimeInstall, AgentBoot, Gateway, AgentEvents, TerminalView, Induction, TLAPS,
        SequenceTheorems

-----------------------------------------------------------------------------
(* RuntimeInstall                                                          *)

Versions == AppVersions \cup {NoStamp}
Whole(v) == [of |-> v, whole |-> TRUE]
Part(v) == [of |-> v, whole |-> FALSE]
JobStates == [at : {"none", "downloading", "unpacking", "stamping", "checking"}, left : SUBSET ImageFiles]

\* Files under a VERSION that is theirs are whole.
StampedFiles == ~blurred /\ stamp # NoStamp => \A f \in ImageFiles : files[f] \in {Absent, Whole(stamp)}

\* What the thread has written so far, and what VERSION says meanwhile.
JobInv ==
  /\ job.at \in {"unpacking", "stamping"} => blurred \/ stamp = NoStamp
  /\ job.at = "unpacking" => \A f \in ImageFiles : files[f] \in {Absent, Part(app), Whole(app)}
  /\ job.at \in {"stamping", "checking"} => \A f \in ImageFiles : files[f] \in {Absent, Whole(app)}
  /\ job.at = "checking" => stamp = app /\ ~blurred

IsWhole == job.at = "none" /\ stamp = app /\ \A f \in ImageFiles : files[f] # Absent

ScreenInv ==
  /\ app = NoStamp => screen = "closed"
  /\ screen = "closed" => app = NoStamp
  /\ screen \in {"closed", "welcome"} => job.at = "none" /\ posted = <<>>
  /\ \A i \in DOMAIN posted : posted[i] = "ok" => IsWhole
  /\ screen = "main" => IsWhole

RuntimeInv ==
  /\ app \in Versions /\ stamp \in Versions /\ job \in JobStates
  /\ files \in [ImageFiles -> [of : Versions, whole : BOOLEAN]]
  /\ posted \in Seq({"extracting", "ok", "failed"})
  /\ screen \in {"closed", "welcome", "installing", "main"}
  /\ StampedFiles /\ JobInv /\ ScreenInv

\* A file that is written to its end: the same file, whole.
LEMMA FileEnds ==
  ASSUME NEW r \in [of : Versions, whole : BOOLEAN]
  PROVE  /\ [r EXCEPT !.whole = TRUE] \in [of : Versions, whole : BOOLEAN]
         /\ [r EXCEPT !.whole = TRUE].of = r.of /\ [r EXCEPT !.whole = TRUE].whole = TRUE
OBVIOUS

\* Two files of the same version, both whole or both not, are the same.
LEMMA SameFile ==
  ASSUME NEW r \in [of : Versions, whole : BOOLEAN], NEW q \in [of : Versions, whole : BOOLEAN],
         r.of = q.of, r.whole = q.whole
  PROVE  r = q
OBVIOUS

\* The three kinds a file is of are told apart.
LEMMA FileKinds ==
  ASSUME NEW v \in AppVersions
  PROVE  /\ Part(v) # Absent /\ Whole(v) # Absent /\ Part(v) # Whole(v)
         /\ Whole(v).whole /\ ~Part(v).whole /\ [Part(v) EXCEPT !.whole = TRUE] = Whole(v)
<1>1. v # NoStamp
  BY RuntimeAssumption DEF NoStamp
<1>2. Part(v).of = v /\ Whole(v).of = v /\ Absent.of = NoStamp
  BY DEF Part, Whole, Absent
<1>3. Whole(v).whole = TRUE
  BY DEF Whole
<1>4. Part(v).whole = FALSE
  BY DEF Part
<1>5. Part(v) \in [of : Versions, whole : BOOLEAN] /\ Whole(v) \in [of : Versions, whole : BOOLEAN]
  BY DEF Part, Whole, Versions
<1>6. [Part(v) EXCEPT !.whole = TRUE] = Whole(v)
  <2>. DEFINE e == [Part(v) EXCEPT !.whole = TRUE]
  <2>1. e \in [of : Versions, whole : BOOLEAN] /\ e.of = Part(v).of /\ e.whole = TRUE
    BY <1>5, FileEnds
  <2>. HIDE DEF e
  <2>2. e = Whole(v)
    BY <1>2, <1>3, <1>5, <2>1, SameFile
  <2>. QED
    BY <2>2 DEF e
<1>. QED
  BY <1>1, <1>2, <1>3, <1>4, <1>6

\* While the thread runs, the disk is as the job says and the screen waits.
LEMMA JobRuns ==
  ASSUME RuntimeInv, job.at # "none"
  PROVE  /\ app \in AppVersions /\ screen = "installing"
         /\ \A i \in DOMAIN posted : posted[i] # "ok"
BY DEF RuntimeInv, ScreenInv, IsWhole, Versions

\* The window is over a runtime that is whole, for any files, versions and launches.
THEOREM MainStaysReady == RuntimeSpec => []MainHasRuntime
<1>. AppVersions \subseteq Nat \ {NoStamp}
  BY RuntimeAssumption
<1>1. RuntimeInit => RuntimeInv
  <2> SUFFICES ASSUME RuntimeInit PROVE RuntimeInv
    OBVIOUS
  <2>1. NoJob \in JobStates /\ NoJob.at = "none" /\ Absent \in [of : Versions, whole : BOOLEAN]
    BY DEF NoJob, JobStates, Absent, Versions
  <2>. QED
    BY <2>1 DEF RuntimeInit, RuntimeInv, Versions, StampedFiles, JobInv, ScreenInv
<1>2. RuntimeInv /\ [RuntimeNext]_runtime_vars => RuntimeInv'
  <2> SUFFICES ASSUME RuntimeInv, [RuntimeNext]_runtime_vars PROVE RuntimeInv'
    OBVIOUS
  <2>0. /\ app \in Versions /\ stamp \in Versions /\ job \in JobStates
        /\ files \in [ImageFiles -> [of : Versions, whole : BOOLEAN]]
        /\ posted \in Seq({"extracting", "ok", "failed"})
        /\ screen \in {"closed", "welcome", "installing", "main"}
        /\ StampedFiles /\ JobInv /\ ScreenInv
    BY DEF RuntimeInv
  <2>1. ASSUME NEW v \in AppVersions, Launch(v) PROVE RuntimeInv'
    <3>1. /\ UNCHANGED <<files, stamp, job, posted>> /\ blurred' = blurred /\ app' = v /\ job.at = "none" /\ posted = <<>>
          /\ screen' = IF IsReady(v, stamp) THEN "main" ELSE "welcome"
      BY <2>0, <2>1 DEF Launch, ScreenInv
    <3>2. screen' = "main" => IsWhole'
      BY <3>1 DEF IsReady, IsWhole
    <3>3. ScreenInv'
      BY <2>0, <3>1, <3>2 DEF ScreenInv
    <3>. QED
      BY <2>0, <3>1, <3>3 DEF RuntimeInv, Versions, StampedFiles, JobInv
  <2>2. CASE Quit
    <3>1. NoJob \in JobStates /\ NoJob.at = "none"
      BY DEF NoJob, JobStates
    <3>. QED
      BY <2>0, <2>2, <3>1 DEF Quit, RuntimeInv, Versions, StampedFiles, JobInv, ScreenInv
  <2>3. CASE StartSetup
    <3>1. /\ UNCHANGED <<app, files, stamp, posted, blurred>> /\ screen = "welcome" /\ screen' = "installing"
          /\ job'.at = "downloading" /\ job' \in JobStates /\ posted = <<>>
      BY <2>0, <2>3 DEF StartSetup, JobStates, ScreenInv
    <3>. QED
      BY <2>0, <3>1 DEF RuntimeInv, StampedFiles, JobInv, ScreenInv
  \* The thread posts a message, and is done or goes on.
  <2>4. ASSUME NEW m \in {"extracting", "ok", "failed"}, posted' = Append(posted, m), job' \in JobStates, job.at # "none",
               app' = app, screen' = screen, stamp' \in Versions, files' \in [ImageFiles -> [of : Versions, whole : BOOLEAN]],
               StampedFiles', JobInv', m = "ok" => IsWhole'
        PROVE  RuntimeInv'
    <3>1. app \in AppVersions /\ screen = "installing" /\ \A i \in DOMAIN posted : posted[i] # "ok"
      BY <2>4, JobRuns
    <3>2. posted' \in Seq({"extracting", "ok", "failed"}) /\ \A i \in DOMAIN posted' : posted'[i] = "ok" => m = "ok"
      BY <2>0, <2>4, <3>1, AppendProperties
    <3>3. ScreenInv'
      BY <2>4, <3>1, <3>2 DEF ScreenInv, NoStamp
    <3>. QED
      BY <2>0, <2>4, <3>2, <3>3 DEF RuntimeInv
  <2>5. CASE DownloadFails \/ UnpackFails
    <3>1. /\ job' = NoJob /\ posted' = Append(posted, "failed") /\ UNCHANGED <<app, files, stamp, screen>> /\ blurred' = blurred
          /\ job.at # "none" /\ NoJob.at = "none" /\ NoJob \in JobStates
      BY <2>5 DEF DownloadFails, UnpackFails, Bails, NoJob, JobStates
    <3>2. StampedFiles' /\ JobInv'
      BY <2>0, <3>1 DEF StampedFiles, JobInv
    <3>. QED
      BY <2>0, <2>4, <3>1, <3>2
  <2>6. CASE Download
    <3>1. /\ job'.at = "unpacking" /\ job' \in JobStates /\ files' = [f \in ImageFiles |-> Absent] /\ job.at # "none"
          /\ posted' = Append(posted, "extracting") /\ UNCHANGED <<app, stamp, screen>>
      BY <2>6 DEF Download, JobStates
    <3>2. blurred' <=> stamp # NoStamp
      BY <2>6 DEF Download
    <3>3. Absent \in [of : Versions, whole : BOOLEAN]
      BY DEF Absent, Versions
    <3>4. StampedFiles' /\ JobInv'
      BY <3>1, <3>2 DEF StampedFiles, JobInv
    <3>. QED
      BY <2>0, <2>4, <3>1, <3>3, <3>4
  \* The thread goes on in silence.
  <2>7. ASSUME job' \in JobStates, job'.at # "none", job.at # "none", UNCHANGED <<app, posted, screen>>, stamp' \in Versions,
               files' \in [ImageFiles -> [of : Versions, whole : BOOLEAN]], StampedFiles', JobInv'
        PROVE  RuntimeInv'
    <3>1. ScreenInv'
      BY <2>0, <2>7, JobRuns DEF ScreenInv
    <3>. QED
      BY <2>0, <2>7, <3>1 DEF RuntimeInv
  <2>8. ASSUME NEW f \in ImageFiles, UnpackBegins(f) PROVE RuntimeInv'
    <3>1. /\ job.at = "unpacking" /\ files' = [files EXCEPT ![f] = Part(app)] /\ job' = [job EXCEPT !.left = job.left \ {f}]
          /\ UNCHANGED <<app, stamp, posted, screen, blurred>>
      BY <2>8 DEF UnpackBegins, Part
    <3>2. job' \in JobStates /\ job'.at = "unpacking"
      BY <2>0, <3>1 DEF JobStates
    <3>3. Part(app) \in [of : Versions, whole : BOOLEAN]
      BY <2>0 DEF Part
    <3>4. files' \in [ImageFiles -> [of : Versions, whole : BOOLEAN]] /\ \A g \in ImageFiles : files'[g] = IF g = f THEN Part(app) ELSE files[g]
      BY <2>0, <3>1, <3>3
    <3>5. StampedFiles' /\ JobInv'
      BY <2>0, <3>1, <3>2, <3>4 DEF StampedFiles, JobInv
    <3>. QED
      BY <2>0, <2>7, <3>1, <3>2, <3>4, <3>5
  <2>9. ASSUME NEW f \in ImageFiles, UnpackEnds(f) PROVE RuntimeInv'
    <3>1. /\ job.at = "unpacking" /\ files' = [files EXCEPT ![f].whole = TRUE] /\ files[f] # Absent /\ ~files[f].whole
          /\ UNCHANGED <<app, stamp, posted, screen, blurred, job>>
      BY <2>9 DEF UnpackEnds
    <3>2. app \in AppVersions
      BY <3>1, JobRuns
    <3>3. files[f] \in {Part(app), Whole(app)}
      BY <2>0, <3>1 DEF JobInv
    <3>4. files[f] = Part(app)
      BY <3>1, <3>2, <3>3, FileKinds
    <3>5. files' = [files EXCEPT ![f] = Whole(app)]
      BY <2>0, <3>1, <3>2, <3>4, FileKinds
    <3>6. Whole(app) \in [of : Versions, whole : BOOLEAN]
      BY <2>0 DEF Whole
    <3>7. files' \in [ImageFiles -> [of : Versions, whole : BOOLEAN]] /\ \A g \in ImageFiles : files'[g] = IF g = f THEN Whole(app) ELSE files[g]
      BY <2>0, <3>5, <3>6
    <3>8. StampedFiles' /\ JobInv'
      BY <2>0, <3>1, <3>7 DEF StampedFiles, JobInv
    <3>. QED
      BY <2>0, <2>7, <3>1, <3>7, <3>8
  <2>10. CASE UnpackedAll
    <3>1. /\ job.at = "unpacking" /\ job' = [job EXCEPT !.at = "stamping"] /\ UNCHANGED <<app, files, stamp, posted, screen, blurred>>
          /\ \A f \in ImageFiles : files[f] = Absent \/ files[f].whole
      BY <2>10 DEF UnpackedAll, Unpacked
    <3>2. job' \in JobStates /\ job'.at = "stamping"
      BY <2>0, <3>1 DEF JobStates
    <3>3. \A f \in ImageFiles : files[f] \in {Absent, Whole(app)}
      BY <2>0, <3>1, JobRuns, FileKinds DEF JobInv
    <3>4. StampedFiles' /\ JobInv'
      BY <2>0, <3>1, <3>2, <3>3 DEF StampedFiles, JobInv
    <3>. QED
      BY <2>0, <2>7, <3>1, <3>2, <3>4
  <2>11. CASE WriteStamp
    <3>1. /\ job.at = "stamping" /\ job' = [job EXCEPT !.at = "checking"] /\ UNCHANGED <<app, files, posted, screen>>
          /\ stamp' = app /\ ~blurred'
      BY <2>11 DEF WriteStamp
    <3>2. job' \in JobStates /\ job'.at = "checking"
      BY <2>0, <3>1 DEF JobStates
    <3>3. StampedFiles' /\ JobInv'
      BY <2>0, <3>1, <3>2 DEF StampedFiles, JobInv
    <3>. QED
      BY <2>0, <2>7, <3>1, <3>2, <3>3
  <2>15. CASE StampFails
    <3>1. /\ job.at = "stamping" /\ job' = NoJob /\ posted' = Append(posted, "failed") /\ UNCHANGED <<app, files, screen>>
          /\ stamp' \in {stamp, NoStamp} /\ (blurred' <=> blurred /\ stamp' = stamp)
          /\ NoJob.at = "none" /\ NoJob \in JobStates
      BY <2>15 DEF StampFails, Bails, NoJob, JobStates
    <3>2. stamp' \in Versions
      BY <2>0, <3>1 DEF Versions
    <3>3. StampedFiles' /\ JobInv'
      BY <2>0, <3>1 DEF StampedFiles, JobInv
    <3>. QED
      BY <2>0, <2>4, <3>1, <3>2, <3>3
  <2>12. CASE Verify
    <3>. DEFINE m == IF \A f \in ImageFiles : files[f] # Absent THEN "ok" ELSE "failed"
    <3>1. /\ job.at = "checking" /\ job' = NoJob /\ posted' = Append(posted, m) /\ UNCHANGED <<app, files, stamp, screen, blurred>>
          /\ NoJob.at = "none" /\ NoJob \in JobStates
      BY <2>12 DEF Verify, NoJob, JobStates
    <3>2. StampedFiles' /\ JobInv'
      BY <2>0, <3>1 DEF StampedFiles, JobInv
    <3>3. m \in {"extracting", "ok", "failed"} /\ (m = "ok" => IsWhole')
      BY <2>0, <3>1 DEF IsWhole, JobInv
    <3>. HIDE DEF m
    <3>. QED
      BY <2>0, <2>4, <3>1, <3>2, <3>3
  <2>13. CASE ReadMessage
    <3>1. /\ posted # <<>> /\ screen = "installing" /\ posted' = Tail(posted) /\ UNCHANGED <<app, files, stamp, job, blurred>>
          /\ screen' = IF Head(posted) = "ok" THEN "main" ELSE screen
      BY <2>13 DEF ReadMessage
    <3>2. /\ posted' \in Seq({"extracting", "ok", "failed"}) /\ 1 \in DOMAIN posted /\ Head(posted) = posted[1]
          /\ \A i \in DOMAIN posted' : i + 1 \in DOMAIN posted /\ posted'[i] = posted[i + 1]
      BY <2>0, <3>1, HeadTailProperties
    <3>3. Head(posted) = "ok" => IsWhole
      BY <2>0, <3>2 DEF ScreenInv
    <3>4. IsWhole' <=> IsWhole
      BY <3>1 DEF IsWhole
    <3>. HIDE DEF IsWhole
    <3>5. ScreenInv'
      BY <2>0, <3>1, <3>2, <3>3, <3>4 DEF ScreenInv
    <3>. QED
      BY <2>0, <3>1, <3>2, <3>5 DEF RuntimeInv, StampedFiles, JobInv
  <2>14. CASE UNCHANGED runtime_vars
    BY <2>14 DEF runtime_vars, RuntimeInv, StampedFiles, JobInv, ScreenInv, IsWhole
  <2>. QED
    BY <2>1, <2>2, <2>3, <2>5, <2>6, <2>8, <2>9, <2>10, <2>11, <2>12, <2>13, <2>14, <2>15 DEF RuntimeNext
<1>3. RuntimeInv => MainHasRuntime
  <2> SUFFICES ASSUME RuntimeInv, screen = "main", ~blurred, NEW f \in ImageFiles PROVE files[f] = [of |-> app, whole |-> TRUE]
    BY DEF MainHasRuntime
  <2>1. app # NoStamp /\ stamp = app /\ files[f] # Absent
    BY DEF RuntimeInv, ScreenInv, IsWhole
  <2>2. files[f] = Whole(app)
    BY <2>1 DEF RuntimeInv, StampedFiles
  <2>. QED
    BY <2>2 DEF Whole
<1>. QED
  BY <1>1, <1>2, <1>3, PTL DEF RuntimeSpec

-----------------------------------------------------------------------------
(* AgentBoot                                                               *)

Marks == {"pending", "active", "done", "failed"}
BootStates == [at : Busy \cup {"closed", "asking", "failed", "shown"},
               step : 0 .. InstallSteps, done : SUBSET Step, start : 0 .. InstallSteps + 2,
               short : BOOLEAN, erred : SUBSET {"save", "boot", "shell"}]
SetupStates == [steps : Seq(Marks), error : BOOLEAN]

\* A list whose k-th step is marked: those before it are done, those after it to come.
Shows(s, k, mark) ==
  /\ k \in DOMAIN s /\ s[k] = mark
  /\ \A i \in 1 .. k - 1 : s[i] = "done"
  /\ \A i \in k + 1 .. Len(s) : s[i] = "pending"

\* The full list, at its k-th step.
FullAt(b, u, k) == Len(u.steps) = InstallSteps + 3 /\ b.start = InstallSteps + 2 /\ Shows(u.steps, k, "active")

\* What the task has done is what its list shows.
TabSound(b, u) ==
  /\ b.at = "preparing" => b.done = {}
  /\ b.at = "step" => b.step \in Step /\ b.done = 1 .. b.step - 1
  /\ b.at = "saving" => b.done = AllSteps
  /\ b.at \in {"closed", "asking", "shown"} => u.steps = <<>>
  /\ b.at \in Busy => ~u.error
  /\ b.at = "failed" => u.error
  /\ ~b.short =>
       /\ b.at = "preparing" => FullAt(b, u, 1)
       /\ b.at = "step" => FullAt(b, u, b.step + 1)
       /\ b.at = "saving" => FullAt(b, u, InstallSteps + 2)
       /\ b.at \in {"booting", "opening", "waiting"} => Shows(u.steps, b.start + 1, "active")
       /\ b.at = "failed" => \E k \in DOMAIN u.steps : Shows(u.steps, k, "failed")

BootInv ==
  /\ boot \in [AgentTabs -> BootStates] /\ setup \in [AgentTabs -> SetupStates]
  /\ prompt \in AgentTabs \cup {NoTab}
  /\ base \in {NoBase, AllSteps}
  /\ \A t \in AgentTabs : TabSound(boot[t], setup[t])

\* What set_step does: it marks one step and leaves the others and their number.
LEMMA SetStep ==
  ASSUME NEW s \in Seq(Marks), NEW ix \in Nat, NEW m \in Marks
  PROVE  /\ set_step(s, ix, m) \in Seq(Marks)
         /\ Len(set_step(s, ix, m)) = Len(s) /\ DOMAIN set_step(s, ix, m) = DOMAIN s
         /\ \A i \in DOMAIN s : set_step(s, ix, m)[i] = IF i = ix + 1 THEN m ELSE s[i]
<1>1. CASE ix + 1 \in DOMAIN s
  <2>1. set_step(s, ix, m) = [s EXCEPT ![ix + 1] = m]
    BY <1>1 DEF set_step
  <2>. HIDE DEF Marks
  <2>2. [s EXCEPT ![ix + 1] = m] \in Seq(Marks) /\ Len([s EXCEPT ![ix + 1] = m]) = Len(s)
    BY <1>1, ExceptSeq
  <2>. QED
    BY <1>1, <2>1, <2>2
<1>2. CASE ix + 1 \notin DOMAIN s
  <2>1. set_step(s, ix, m) = s
    BY <1>2 DEF set_step
  <2>. QED
    BY <1>2, <2>1
<1>. QED
  BY <1>1, <1>2

\* One list is another with one step marked.
Marked(t, s, k, m) ==
  /\ t \in Seq(Marks) /\ Len(t) = Len(s) /\ DOMAIN t = DOMAIN s
  /\ \A i \in DOMAIN s : t[i] = IF i = k THEN m ELSE s[i]

\* What set_step does, in one word.
LEMMA SetStepMarks ==
  ASSUME NEW s \in Seq(Marks), NEW ix \in Nat, NEW m \in Marks
  PROVE  Marked(set_step(s, ix, m), s, ix + 1, m)
BY SetStep DEF Marked

\* Advancing from the active step leaves the next one active, if there is one.
LEMMA AdvanceStep ==
  ASSUME NEW s \in Seq(Marks), NEW k \in Nat
  PROVE  /\ advance_step(s, k, k + 1) \in Seq(Marks) /\ Len(advance_step(s, k, k + 1)) = Len(s)
         /\ Shows(s, k + 1, "active") /\ k + 2 \in DOMAIN s => Shows(advance_step(s, k, k + 1), k + 2, "active")
<1>. DEFINE one == set_step(s, k, "done")
            two == set_step(one, k + 1, "active")
<1>. "done" \in Marks /\ "active" \in Marks
  BY DEF Marks
<1>1. /\ one \in Seq(Marks) /\ Len(one) = Len(s) /\ DOMAIN one = DOMAIN s
      /\ \A i \in DOMAIN s : one[i] = IF i = k + 1 THEN "done" ELSE s[i]
  <2>1. PICK done : done = "done"
    OBVIOUS
  <2>2. done \in Marks
    BY <2>1
  <2>3. Marked(set_step(s, k, done), s, k + 1, done)
    BY <2>2, SetStepMarks
  <2>. QED
    BY <2>1, <2>3 DEF Marked
<1>. HIDE DEF one
<1>2. /\ two \in Seq(Marks) /\ Len(two) = Len(one) /\ DOMAIN two = DOMAIN one
      /\ \A i \in DOMAIN one : two[i] = IF i = k + 2 THEN "active" ELSE one[i]
  <2>1. k + 1 \in Nat /\ (k + 1) + 1 = k + 2
    OBVIOUS
  <2>2. PICK n, active : n = k + 1 /\ active = "active"
    OBVIOUS
  <2>3. n \in Nat /\ active \in Marks
    BY <2>1, <2>2
  <2>4. Marked(set_step(one, n, active), one, n + 1, active)
    BY <1>1, <2>3, SetStepMarks
  <2>. HIDE DEF set_step
  <2>. QED
    BY <2>1, <2>2, <2>4 DEF Marked
<1>3. advance_step(s, k, k + 1) = two
  BY DEF advance_step, one
<1>. HIDE DEF two
<1>4. ASSUME Shows(s, k + 1, "active"), k + 2 \in DOMAIN s PROVE Shows(two, k + 2, "active")
  <2>1. DOMAIN s = 1 .. Len(s) /\ Len(s) \in Nat
    OBVIOUS
  <2>2. two[k + 2] = "active"
    BY <1>1, <1>2, <1>4
  <2>3. ASSUME NEW i \in 1 .. k + 2 - 1 PROVE two[i] = "done"
    <3>1. i \in DOMAIN s /\ i # k + 2 /\ (i # k + 1 => i \in 1 .. k + 1 - 1)
      BY <1>4, <2>1
    <3>2. two[i] = one[i] /\ one[i] = IF i = k + 1 THEN "done" ELSE s[i]
      BY <1>1, <1>2, <3>1
    <3>. QED
      BY <1>4, <3>1, <3>2 DEF Shows
  <2>4. ASSUME NEW i \in k + 2 + 1 .. Len(two) PROVE two[i] = "pending"
    BY <1>1, <1>2, <1>4, <2>1 DEF Shows
  <2>. QED
    BY <1>1, <1>2, <1>4, <2>2, <2>3, <2>4 DEF Shows
<1>. QED
  BY <1>1, <1>2, <1>3, <1>4

\* A failure marks the step that was active, and no other.
LEMMA FailStep ==
  ASSUME NEW s \in Seq(Marks), NEW k \in Nat
  PROVE  /\ set_step(s, k, "failed") \in Seq(Marks)
         /\ Shows(s, k + 1, "active") => Shows(set_step(s, k, "failed"), k + 1, "failed")
<1>. "failed" \in Marks
  BY DEF Marks
<1>. DOMAIN s = 1 .. Len(s) /\ Len(s) \in Nat
  OBVIOUS
<1>1. /\ set_step(s, k, "failed") \in Seq(Marks)
      /\ Len(set_step(s, k, "failed")) = Len(s) /\ DOMAIN set_step(s, k, "failed") = DOMAIN s
      /\ \A i \in DOMAIN s : set_step(s, k, "failed")[i] = IF i = k + 1 THEN "failed" ELSE s[i]
  BY SetStep
<1>. HIDE DEF set_step
<1>. QED
  BY <1>1 DEF Shows

\* One tab's task and list change together.
LEMMA TabMoves ==
  ASSUME BootInv, NEW t \in AgentTabs, NEW b \in BootStates, NEW u \in SetupStates,
         boot' = [boot EXCEPT ![t] = b], setup' = [setup EXCEPT ![t] = u], TabSound(b, u),
         prompt' \in AgentTabs \cup {NoTab}, base' \in {NoBase, AllSteps}
  PROVE  BootInv'
<1>1. boot' \in [AgentTabs -> BootStates] /\ setup' \in [AgentTabs -> SetupStates]
  BY DEF BootInv
<1>2. ASSUME NEW q \in AgentTabs PROVE TabSound(boot'[q], setup'[q])
  <2>1. CASE q = t
    BY <2>1 DEF BootInv
  <2>2. CASE q # t
    BY <2>2 DEF BootInv
  <2>. QED
    BY <2>1, <2>2
<1>. QED
  BY <1>1, <1>2 DEF BootInv

\* No checkpoint misses a step, and every list shows how far its task is, for any tabs, any
\* number of install steps and of starts.
THEOREM BootStaysTrue == BootSpec => []BootIsTrue
<1>. InstallSteps \in Nat \ {0} /\ NoTab \notin AgentTabs
  BY InstallAssumption, AgentTabsAssumption
<1>1. BootInit => BootInv
  <2> SUFFICES ASSUME BootInit PROVE BootInv
    OBVIOUS
  <2>1. Closed \in BootStates /\ Closed.at = "closed" /\ ~Closed.short
    BY DEF Closed, BootStates
  <2>2. Blank \in SetupStates /\ Blank.steps = <<>>
    BY DEF Blank, SetupStates, Marks
  <2>3. TabSound(Closed, Blank)
    BY <2>1, <2>2 DEF TabSound, Busy, Installing
  <2>. QED
    BY <2>1, <2>2, <2>3 DEF BootInit, BootInv
<1>2. BootInv /\ [BootNext]_boot_vars => BootInv'
  <2> SUFFICES ASSUME BootInv, [BootNext]_boot_vars PROVE BootInv'
    OBVIOUS
  <2>0. /\ boot \in [AgentTabs -> BootStates] /\ setup \in [AgentTabs -> SetupStates]
        /\ prompt \in AgentTabs \cup {NoTab} /\ base \in {NoBase, AllSteps}
        /\ \A t \in AgentTabs : TabSound(boot[t], setup[t])
    BY DEF BootInv
  \* A boot is spawned, with the whole list or with that of one step.
  <2>1. ASSUME NEW t \in AgentTabs, NEW marked \in {SetupList, OneStep}, Boots(t, marked),
               prompt' \in AgentTabs \cup {NoTab}, base' = base
        PROVE  BootInv'
    <3>. DEFINE list == [steps |-> marked, error |-> FALSE]
                whole == [Closed EXCEPT !.at = "preparing", !.start = InstallSteps + 2, !.short = FALSE]
                short == [Closed EXCEPT !.at = "preparing", !.start = InstallSteps + 2, !.short = TRUE]
                straight == [Closed EXCEPT !.at = "booting", !.start = 0, !.short = FALSE]
    <3>1. FullSteps \in Seq(Marks) /\ Len(FullSteps) = InstallSteps + 3 /\ Shows(FullSteps, 1, "active")
      <4>1. FullSteps \in [1 .. InstallSteps + 3 -> Marks] /\ InstallSteps + 3 \in Nat
        BY DEF FullSteps, Marks
      <4>2. FullSteps \in Seq(Marks) /\ Len(FullSteps) = InstallSteps + 3
        BY <4>1
      <4>. QED
        BY <4>2 DEF FullSteps, Shows
    <3>2. OneStep \in Seq(Marks) /\ Len(OneStep) = 1 /\ Shows(OneStep, 1, "active")
      BY DEF OneStep, Marks, Shows
    <3>3. /\ whole \in BootStates /\ whole.at = "preparing" /\ whole.start = InstallSteps + 2 /\ whole.done = {}
          /\ short \in BootStates /\ short.at = "preparing" /\ short.done = {} /\ short.short
          /\ straight \in BootStates /\ straight.at = "booting" /\ straight.start = 0
      <4>1. Closed \in BootStates /\ Closed.done = {}
        BY DEF Closed, BootStates
      <4>2. ASSUME NEW b \in BootStates, NEW at \in {"preparing", "booting"}, NEW from \in 0 .. InstallSteps + 2
            PROVE  /\ [b EXCEPT !.at = at, !.start = from, !.short = FALSE] \in BootStates
                   /\ [b EXCEPT !.at = at, !.start = from, !.short = FALSE].at = at
                   /\ [b EXCEPT !.at = at, !.start = from, !.short = FALSE].start = from
                   /\ [b EXCEPT !.at = at, !.start = from, !.short = FALSE].done = b.done
        BY DEF BootStates, Busy, Installing
      <4>3. ASSUME NEW b \in BootStates, NEW at \in {"preparing", "booting"}, NEW from \in 0 .. InstallSteps + 2
            PROVE  /\ [b EXCEPT !.at = at, !.start = from, !.short = TRUE] \in BootStates
                   /\ [b EXCEPT !.at = at, !.start = from, !.short = TRUE].at = at
                   /\ [b EXCEPT !.at = at, !.start = from, !.short = TRUE].done = b.done
                   /\ [b EXCEPT !.at = at, !.start = from, !.short = TRUE].short
        BY DEF BootStates, Busy, Installing
      <4>4. InstallSteps + 2 \in 0 .. InstallSteps + 2 /\ 0 \in 0 .. InstallSteps + 2
        OBVIOUS
      <4>5. whole \in BootStates /\ whole.at = "preparing" /\ whole.start = InstallSteps + 2 /\ whole.done = {}
        <5>1. PICK from \in 0 .. InstallSteps + 2 : from = InstallSteps + 2
          BY <4>4
        <5>2. whole = [Closed EXCEPT !.at = "preparing", !.start = from, !.short = FALSE]
          BY <5>1
        <5>3. ASSUME NEW v \in BootStates
              PROVE  /\ [v EXCEPT !.at = "preparing", !.start = from, !.short = FALSE] \in BootStates
                     /\ [v EXCEPT !.at = "preparing", !.start = from, !.short = FALSE].at = "preparing"
                     /\ [v EXCEPT !.at = "preparing", !.start = from, !.short = FALSE].start = from
                     /\ [v EXCEPT !.at = "preparing", !.start = from, !.short = FALSE].done = v.done
          BY DEF BootStates, Busy, Installing
        <5>4. whole \in BootStates /\ whole.at = "preparing" /\ whole.start = from /\ whole.done = {}
          <6>. HIDE DEF whole
          <6>. QED
            BY <4>1, <5>2, <5>3
        <5>. QED
          BY <5>1, <5>4
      <4>7. straight \in BootStates /\ straight.at = "booting" /\ straight.start = 0
        BY <4>1, <4>2, <4>4
      <4>6. short \in BootStates /\ short.at = "preparing" /\ short.done = {} /\ short.short
        BY <4>1, <4>3, <4>4
      <4>. QED
        BY <4>5, <4>6, <4>7
    <3>4. marked \in Seq(Marks)
      BY <3>1, <3>2 DEF SetupList
    <3>5. list \in SetupStates /\ list.steps = marked /\ ~list.error
      BY <3>4 DEF SetupStates
    <3>6. CASE NeedsInstall
      <4>1. boot' = [boot EXCEPT ![t] = [Closed EXCEPT !.at = "preparing", !.start = InstallSteps + 2, !.short = (Len(marked) = 1)]]
            /\ setup' = [setup EXCEPT ![t] = list]
        BY <2>1, <3>6 DEF Boots, start_ws_step
      <4>2. CASE Len(marked) = 1
        <5>1. (Len(marked) = 1) = TRUE
          BY <4>2
        <5>2. boot' = [boot EXCEPT ![t] = short]
          BY <4>1, <5>1
        <5>. HIDE DEF list, short
        <5>3. TabSound(short, list)
          BY <3>3, <3>5 DEF TabSound, Busy, Installing
        <5>. QED
          BY <2>0, <2>1, <3>3, <3>5, <4>1, <5>2, <5>3, TabMoves
      <4>3. CASE Len(marked) # 1
        <5>1. (Len(marked) = 1) = FALSE
          BY <4>3
        <5>2. boot' = [boot EXCEPT ![t] = whole]
          BY <4>1, <5>1
        <5>3. marked = FullSteps
          BY <3>2, <3>6, <4>3 DEF SetupList
        <5>. HIDE DEF list, whole
        <5>4. FullAt(whole, list, 1)
          BY <3>1, <3>3, <3>5, <5>3 DEF FullAt
        <5>5. TabSound(whole, list)
          BY <3>3, <3>5, <5>4 DEF TabSound, Busy, Installing
        <5>. QED
          BY <2>0, <2>1, <3>3, <3>5, <4>1, <5>2, <5>5, TabMoves
      <4>. QED
        BY <4>2, <4>3
    <3>7. CASE ~NeedsInstall
      <4>1. (NeedsInstall /\ Len(marked) = 1) = FALSE
        BY <3>7
      <4>2. boot' = [boot EXCEPT ![t] = straight] /\ setup' = [setup EXCEPT ![t] = list]
        BY <2>1, <3>7, <4>1 DEF Boots, start_ws_step
      <4>. HIDE DEF list, straight
      <4>3. Shows(list.steps, straight.start + 1, "active")
        BY <3>2, <3>3, <3>5, <3>7 DEF SetupList
      <4>4. TabSound(straight, list)
        BY <3>3, <3>5, <4>3 DEF TabSound, Busy, Installing
      <4>. QED
        BY <2>0, <2>1, <3>3, <3>5, <4>2, <4>4, TabMoves
    <3>. QED
      BY <3>6, <3>7
  \* The task goes on, and its list with it.
  <2>2. ASSUME NEW t \in AgentTabs, NEW b \in BootStates, NEW ix \in Nat, Moves(t, b, ix),
               boot[t].at \in Busy, b.start = boot[t].start, b.short <=> boot[t].short, ~b.short => FullAt(boot[t], setup[t], ix + 1),
               ix + 1 <= InstallSteps + 2,
               \/ b.at = "step" /\ b.step = ix + 1 /\ ix + 1 <= InstallSteps /\ b.done = 1 .. ix
               \/ b.at = "saving" /\ ix = InstallSteps /\ b.done = AllSteps
               \/ b.at = "booting" /\ ix = InstallSteps + 1,
               prompt' \in AgentTabs \cup {NoTab}, base' \in {NoBase, AllSteps}
        PROVE  BootInv'
    <3>. DEFINE marked == advance_step(setup[t].steps, ix, ix + 1)
                u == [setup[t] EXCEPT !.steps = marked]
    <3>1. boot' = [boot EXCEPT ![t] = b] /\ setup' = [setup EXCEPT ![t] = u]
      BY <2>0, <2>2 DEF Moves
    <3>2. setup[t] \in SetupStates /\ setup[t].steps \in Seq(Marks) /\ ~setup[t].error
      BY <2>0, <2>2 DEF TabSound, SetupStates
    <3>3. marked \in Seq(Marks) /\ Len(marked) = Len(setup[t].steps)
      BY <3>2, AdvanceStep
    <3>4. ~b.short => Shows(marked, ix + 2, "active")
      <4>1. Len(setup[t].steps) = InstallSteps + 3 => ix + 2 \in DOMAIN setup[t].steps
        BY <2>2, <3>2
      <4>. QED
        BY <2>2, <3>2, <4>1, AdvanceStep DEF FullAt
    <3>. HIDE DEF marked
    <3>5. u \in SetupStates /\ u.steps = marked /\ ~u.error
      <4>1. ASSUME NEW v \in SetupStates, NEW x \in Seq(Marks)
            PROVE  [v EXCEPT !.steps = x] \in SetupStates /\ [v EXCEPT !.steps = x].steps = x /\ ([v EXCEPT !.steps = x].error <=> v.error)
        BY DEF SetupStates
      <4>. QED
        BY <3>2, <3>3, <4>1
    <3>. HIDE DEF u
    <3>6. ~b.short => /\ Len(u.steps) = InstallSteps + 3 /\ b.start = InstallSteps + 2 /\ Shows(u.steps, ix + 2, "active")
      BY <2>2, <3>3, <3>4, <3>5 DEF FullAt
    <3>7. CASE b.at = "step"
      <4>1. b.step = ix + 1 /\ b.step \in Step /\ b.done = 1 .. b.step - 1 /\ b.step + 1 = ix + 2
        BY <2>2, <3>7 DEF Step
      <4>2. ~b.short => FullAt(b, u, b.step + 1)
        BY <3>6, <4>1 DEF FullAt
      <4>. QED
        BY <2>2, <3>1, <3>5, <3>7, <4>1, <4>2, TabMoves DEF TabSound, Busy, Installing
    <3>8. CASE b.at = "saving"
      <4>1. ix = InstallSteps /\ b.done = AllSteps
        BY <2>2, <3>8
      <4>2. ~b.short => FullAt(b, u, InstallSteps + 2)
        BY <3>6, <4>1 DEF FullAt
      <4>. QED
        BY <2>2, <3>1, <3>5, <3>8, <4>1, <4>2, TabMoves DEF TabSound, Busy, Installing
    <3>9. CASE b.at = "booting"
      <4>1. ix + 2 = InstallSteps + 2 + 1
        BY <2>2, <3>9
      <4>2. ~b.short => Shows(u.steps, b.start + 1, "active")
        BY <3>6, <4>1
      <4>. QED
        BY <2>2, <3>1, <3>5, <3>9, <4>2, TabMoves DEF TabSound, Busy, Installing
    <3>. QED
      BY <2>2, <3>7, <3>8, <3>9
  \* The task fails, at the step its list is at.
  <2>3. ASSUME NEW t \in AgentTabs, NEW ix \in Nat, NEW why \in SUBSET {"save", "boot", "shell"}, Fails(t, ix, why),
               boot[t].at \in Busy, ~boot[t].short => Shows(setup[t].steps, ix + 1, "active"),
               prompt' \in AgentTabs \cup {NoTab}, base' = base
        PROVE  BootInv'
    <3>. DEFINE marked == set_step(setup[t].steps, ix, "failed")
                u == [steps |-> marked, error |-> TRUE]
                b == [boot[t] EXCEPT !.at = "failed", !.erred = boot[t].erred \cup why]
    <3>1. boot' = [boot EXCEPT ![t] = b] /\ setup' = [setup EXCEPT ![t] = u]
      BY <2>0, <2>3 DEF Fails, fail_setup
    <3>2. boot[t] \in BootStates /\ setup[t].steps \in Seq(Marks)
      BY <2>0 DEF SetupStates
    <3>3. marked \in Seq(Marks) /\ (Shows(setup[t].steps, ix + 1, "active") => Shows(marked, ix + 1, "failed"))
      BY <3>2, FailStep
    <3>. HIDE DEF marked
    <3>4. u \in SetupStates /\ u.steps = marked /\ u.error
      BY <3>3 DEF SetupStates
    <3>5. b \in BootStates /\ b.at = "failed" /\ (b.short <=> boot[t].short)
      BY <3>2 DEF BootStates
    <3>. HIDE DEF u, b
    <3>6. ~b.short => \E k \in DOMAIN u.steps : Shows(u.steps, k, "failed")
      BY <2>3, <3>3, <3>4, <3>5 DEF Shows
    <3>7. TabSound(b, u)
      BY <3>4, <3>5, <3>6 DEF TabSound, Busy, Installing
    <3>. QED
      BY <2>0, <2>3, <3>1, <3>4, <3>5, <3>7, TabMoves
  <2>4. ASSUME NEW t \in AgentTabs, OpenAgentTab(t) PROVE BootInv'
    <3>1. CASE Boots(t, SetupList) /\ UNCHANGED <<prompt, base>>
      BY <2>0, <2>1, <3>1
    <3>2. CASE /\ boot[t].at = "closed" /\ prompt' = t /\ base' = base
               /\ setup' = [setup EXCEPT ![t] = [steps |-> <<>>, error |-> TRUE]]
               /\ boot' = [boot EXCEPT ![t].at = "asking"]
      <4>. DEFINE b == [boot[t] EXCEPT !.at = "asking"]
                  u == [steps |-> <<>>, error |-> TRUE]
      <4>1. b \in BootStates /\ b.at = "asking"
        BY <2>0 DEF BootStates
      <4>2. u \in SetupStates /\ u.steps = <<>>
        BY DEF SetupStates, Marks
      <4>3. boot' = [boot EXCEPT ![t] = b] /\ setup' = [setup EXCEPT ![t] = u]
        BY <2>0, <3>2
      <4>. HIDE DEF b, u
      <4>4. Shows(u.steps, 1, "active") \in BOOLEAN
        BY DEF Shows
      <4>5. TabSound(b, u)
        BY <4>1, <4>2 DEF TabSound, Busy, Installing
      <4>. QED
        BY <2>0, <3>2, <4>1, <4>2, <4>3, <4>5, TabMoves
    <3>. QED
      BY <2>4, <3>1, <3>2 DEF OpenAgentTab
  <2>5. CASE SettingsClosed \/ DismissMissingSecrets
    BY <2>0, <2>1, <2>5 DEF SettingsClosed, DismissMissingSecrets
  <2>6. CASE SwitchWorkspace \/ SecretsChange
    <3>1. UNCHANGED <<base, boot, setup>> /\ prompt' \in AgentTabs \cup {NoTab}
      BY <2>0, <2>6 DEF SwitchWorkspace, SecretsChange
    <3>. QED
      BY <3>1 DEF BootInv
  <2>7. ASSUME NEW t \in AgentTabs, PrepareSandbox(t) PROVE BootInv'
    <3>. DEFINE b == [boot[t] EXCEPT !.at = "step", !.step = 1]
    <3>1. boot[t].at = "preparing" /\ boot[t].at \in Busy /\ base' = base /\ prompt' = prompt
      BY <2>7 DEF PrepareSandbox, Busy, Installing
    <3>2. boot[t].done = {} /\ (~boot[t].short => FullAt(boot[t], setup[t], 1))
      BY <2>0, <3>1 DEF TabSound
    <3>3. CASE Fails(t, 0, {})
      BY <2>0, <2>3, <3>1, <3>2, <3>3 DEF FullAt
    <3>4. CASE Moves(t, b, 0)
      <4>1. b \in BootStates /\ b.at = "step" /\ b.step = 1 /\ b.start = boot[t].start /\ b.done = boot[t].done /\ (b.short <=> boot[t].short)
        <5>1. PICK n \in 0 .. InstallSteps : n = 1
          OBVIOUS
        <5>3. b = [boot[t] EXCEPT !.at = "step", !.step = n] /\ boot[t] \in BootStates
          BY <2>0, <5>1
        <5>2. ASSUME NEW v \in BootStates
              PROVE  /\ [v EXCEPT !.at = "step", !.step = n] \in BootStates
                     /\ [v EXCEPT !.at = "step", !.step = n].at = "step"
                     /\ [v EXCEPT !.at = "step", !.step = n].step = n
                     /\ [v EXCEPT !.at = "step", !.step = n].start = v.start
                     /\ [v EXCEPT !.at = "step", !.step = n].done = v.done
                     /\ ([v EXCEPT !.at = "step", !.step = n].short <=> v.short)
          BY DEF BootStates, Busy, Installing
        <5>. HIDE DEF b
        <5>. QED
          BY <5>1, <5>2, <5>3
      <4>. HIDE DEF b
      <4>2. b.done = 1 .. 0 /\ b.step = 0 + 1 /\ 0 + 1 <= InstallSteps /\ 0 + 1 <= InstallSteps + 2
        BY <3>2, <4>1
      <4>3. ~b.short => FullAt(boot[t], setup[t], 0 + 1)
        BY <3>2, <4>1
      <4>. QED
        BY <2>0, <2>2, <3>1, <3>4, <4>1, <4>2, <4>3
    <3>. QED
      BY <2>7, <3>3, <3>4 DEF PrepareSandbox
  <2>8. ASSUME NEW t \in AgentTabs, RunStep(t) PROVE BootInv'
    <3>. DEFINE i == boot[t].step
                next == [boot[t] EXCEPT !.done = @ \cup {i}]
    <3>1. boot[t].at = "step" /\ boot[t].at \in Busy /\ base' = base /\ prompt' = prompt
      BY <2>8 DEF RunStep, Busy, Installing
    <3>2. i \in 1 .. InstallSteps /\ boot[t].done = 1 .. i - 1 /\ (~boot[t].short => FullAt(boot[t], setup[t], i + 1))
      BY <2>0, <3>1 DEF TabSound, Step
    <3>3. CASE StepFails(t)
      BY <2>0, <2>3, <3>1, <3>2, <3>3 DEF FullAt, StepFails
    <3>4. CASE StepDone(t)
      <4>0. boot[t].done \cup {i} = 1 .. i
        BY <3>2
      <4>1. CASE i < InstallSteps
        <5>. DEFINE b == [next EXCEPT !.step = i + 1]
        <5>1. Moves(t, b, i)
          BY <3>4, <4>1 DEF StepDone
        <5>2. PICK n \in 0 .. InstallSteps, d \in SUBSET Step : n = i + 1 /\ d = 1 .. i
          <6>1. i + 1 \in 0 .. InstallSteps /\ 1 .. i \in SUBSET Step
            BY <3>2, <4>1 DEF Step
          <6>. QED
            BY <6>1
        <5>3. ASSUME NEW v \in BootStates
              PROVE  /\ [[v EXCEPT !.done = d] EXCEPT !.step = n] \in BootStates
                     /\ [[v EXCEPT !.done = d] EXCEPT !.step = n].at = v.at
                     /\ [[v EXCEPT !.done = d] EXCEPT !.step = n].step = n
                     /\ [[v EXCEPT !.done = d] EXCEPT !.step = n].start = v.start
                     /\ [[v EXCEPT !.done = d] EXCEPT !.step = n].done = d
                     /\ ([[v EXCEPT !.done = d] EXCEPT !.step = n].short <=> v.short)
          BY DEF BootStates
        <5>4. b = [[boot[t] EXCEPT !.done = d] EXCEPT !.step = n] /\ boot[t] \in BootStates
          BY <2>0, <4>0, <5>2
        <5>. HIDE DEF b, i
        <5>5. b \in BootStates /\ b.at = "step" /\ b.step = n /\ b.start = boot[t].start /\ b.done = d /\ (b.short <=> boot[t].short)
          BY <3>1, <5>3, <5>4
        <5>6. b.step = i + 1 /\ b.done = 1 .. i
          BY <5>2, <5>5
        <5>. QED
          BY <2>0, <2>2, <3>1, <3>2, <4>1, <5>1, <5>5, <5>6
      <4>2. CASE i >= InstallSteps
        <5>. DEFINE b == [next EXCEPT !.at = "saving"]
        <5>1. Moves(t, b, i) /\ i = InstallSteps
          BY <3>2, <3>4, <4>2 DEF StepDone
        <5>2. PICK d \in SUBSET Step : d = AllSteps /\ d = 1 .. i
          BY <3>2, <5>1 DEF Step, AllSteps
        <5>3. ASSUME NEW v \in BootStates
              PROVE  /\ [[v EXCEPT !.done = d] EXCEPT !.at = "saving"] \in BootStates
                     /\ [[v EXCEPT !.done = d] EXCEPT !.at = "saving"].at = "saving"
                     /\ [[v EXCEPT !.done = d] EXCEPT !.at = "saving"].start = v.start
                     /\ [[v EXCEPT !.done = d] EXCEPT !.at = "saving"].done = d
                     /\ ([[v EXCEPT !.done = d] EXCEPT !.at = "saving"].short <=> v.short)
          BY DEF BootStates, Busy, Installing
        <5>4. b = [[boot[t] EXCEPT !.done = d] EXCEPT !.at = "saving"] /\ boot[t] \in BootStates
          BY <2>0, <4>0, <5>2
        <5>. HIDE DEF b, i
        <5>5. b \in BootStates /\ b.at = "saving" /\ b.start = boot[t].start /\ b.done = d /\ (b.short <=> boot[t].short)
          BY <5>3, <5>4
        <5>. QED
          BY <2>0, <2>2, <3>1, <3>2, <5>1, <5>2, <5>5
      <4>. QED
        BY <3>2, <4>1, <4>2
    <3>. QED
      BY <2>8, <3>3, <3>4 DEF RunStep
  <2>9. ASSUME NEW t \in AgentTabs, SaveCheckpoint(t) PROVE BootInv'
    <3>1. boot[t].at = "saving" /\ boot[t].at \in Busy /\ prompt' = prompt
      BY <2>9 DEF SaveCheckpoint, Busy, Installing
    <3>2. boot[t].done = AllSteps /\ (~boot[t].short => FullAt(boot[t], setup[t], InstallSteps + 1 + 1))
      BY <2>0, <3>1 DEF TabSound
    <3>3. PICK saved \in BOOLEAN : /\ base' = IF saved THEN boot[t].done ELSE base
                                   /\ Moves(t, [boot[t] EXCEPT !.at = "booting", !.erred = IF saved THEN {} ELSE {"save"}], InstallSteps + 1)
      BY <2>9 DEF SaveCheckpoint
    <3>. DEFINE erred == IF saved THEN {} ELSE {"save"}
                b == [boot[t] EXCEPT !.at = "booting", !.erred = erred]
    <3>4. base' \in {NoBase, AllSteps} /\ erred \in SUBSET {"save", "boot", "shell"} /\ Moves(t, b, InstallSteps + 1)
      BY <2>0, <3>2, <3>3
    <3>. HIDE DEF erred
    <3>5. ASSUME NEW v \in BootStates, NEW e \in SUBSET {"save", "boot", "shell"}
          PROVE  /\ [v EXCEPT !.at = "booting", !.erred = e] \in BootStates
                 /\ [v EXCEPT !.at = "booting", !.erred = e].at = "booting"
                 /\ [v EXCEPT !.at = "booting", !.erred = e].start = v.start
                 /\ ([v EXCEPT !.at = "booting", !.erred = e].short <=> v.short)
      BY DEF BootStates, Busy, Installing
    <3>6. b \in BootStates /\ b.at = "booting" /\ b.start = boot[t].start /\ (b.short <=> boot[t].short)
      BY <2>0, <3>4, <3>5
    <3>7. InstallSteps + 1 \in Nat /\ InstallSteps + 1 + 1 <= InstallSteps + 2
      OBVIOUS
    <3>. HIDE DEF b
    <3>. QED
      BY <2>0, <2>2, <3>1, <3>2, <3>4, <3>6, <3>7
  <2>10. ASSUME NEW t \in AgentTabs, NEW at \in {"opening", "waiting"}, boot[t].at \in {"booting", "opening"},
                boot' = [boot EXCEPT ![t].at = at], UNCHANGED <<base, prompt, setup>>
         PROVE  BootInv'
    <3>. DEFINE b == [boot[t] EXCEPT !.at = at]
    <3>1. b \in BootStates /\ b.at = at /\ b.start = boot[t].start /\ (b.short <=> boot[t].short)
      BY <2>0 DEF BootStates, Busy, Installing
    <3>2. boot' = [boot EXCEPT ![t] = b] /\ setup' = [setup EXCEPT ![t] = setup[t]] /\ setup[t] \in SetupStates
      BY <2>0, <2>10
    <3>. HIDE DEF b
    <3>3. TabSound(b, setup[t])
      BY <2>0, <2>10, <3>1 DEF TabSound, Busy, Installing
    <3>. QED
      BY <2>0, <2>10, <3>1, <3>2, <3>3, TabMoves
  <2>11. ASSUME NEW t \in AgentTabs, BootSandbox(t) \/ OpenShell(t) PROVE BootInv'
    <3>1. boot[t].at \in {"booting", "opening"} /\ boot[t].at \in Busy /\ UNCHANGED <<base, prompt>> /\ boot[t].start \in Nat
      BY <2>0, <2>11 DEF BootSandbox, OpenShell, Busy, Installing, BootStates
    <3>2. ~boot[t].short => Shows(setup[t].steps, boot[t].start + 1, "active")
      BY <2>0, <3>1 DEF TabSound
    <3>3. \/ \E at \in {"opening", "waiting"} : boot' = [boot EXCEPT ![t].at = at] /\ UNCHANGED setup
          \/ \E why \in SUBSET {"save", "boot", "shell"} : Fails(t, boot[t].start, why)
      BY <2>11 DEF BootSandbox, OpenShell
    <3>. QED
      BY <2>0, <2>3, <2>10, <3>1, <3>2, <3>3
  <2>12. ASSUME NEW t \in AgentTabs, ShowTerminal(t) PROVE BootInv'
    <3>. DEFINE b == [Closed EXCEPT !.at = "shown"]
    <3>1. b \in BootStates /\ b.at = "shown"
      <4>1. Closed \in BootStates
        BY DEF Closed, BootStates
      <4>2. ASSUME NEW v \in BootStates PROVE [v EXCEPT !.at = "shown"] \in BootStates /\ [v EXCEPT !.at = "shown"].at = "shown"
        BY DEF BootStates
      <4>. QED
        BY <4>1, <4>2
    <3>2. Blank \in SetupStates /\ Blank.steps = <<>>
      BY DEF Blank, SetupStates, Marks
    <3>3. boot' = [boot EXCEPT ![t] = b] /\ setup' = [setup EXCEPT ![t] = Blank] /\ UNCHANGED <<base, prompt>>
      BY <2>12 DEF ShowTerminal
    <3>. HIDE DEF b
    <3>4. TabSound(b, Blank)
      BY <3>1, <3>2 DEF TabSound, Busy, Installing
    <3>. QED
      BY <2>0, <3>1, <3>2, <3>3, <3>4, TabMoves
  <2>13. CASE AppRestarts
    <3>1. Closed \in BootStates /\ Closed.at = "closed"
      BY DEF Closed, BootStates
    <3>2. Blank \in SetupStates /\ Blank.steps = <<>>
      BY DEF Blank, SetupStates, Marks
    <3>3. TabSound(Closed, Blank)
      BY <3>1, <3>2 DEF TabSound, Busy, Installing
    <3>. QED
      BY <2>0, <2>13, <3>1, <3>2, <3>3 DEF AppRestarts, BootInv
  <2>14. CASE UNCHANGED boot_vars
    BY <2>14 DEF boot_vars, BootInv
  <2>. QED
    BY <2>4, <2>5, <2>6, <2>7, <2>8, <2>9, <2>11, <2>12, <2>13, <2>14 DEF BootNext, BootTask
<1>3. BootInv => BootIsTrue
  <2> SUFFICES ASSUME BootInv PROVE BootIsTrue
    OBVIOUS
  <2>1. CheckpointIsComplete
    BY DEF BootInv, CheckpointIsComplete
  <2>2. ASSUME NEW t \in AgentTabs, setup[t].steps # <<>>, ~boot[t].short
        PROVE  /\ \E k \in DOMAIN setup[t].steps :
                     /\ setup[t].steps[k] = (IF boot[t].at = "failed" THEN "failed" ELSE "active")
                     /\ \A i \in 1 .. k - 1 : setup[t].steps[i] = "done"
                     /\ \A i \in k + 1 .. Len(setup[t].steps) : setup[t].steps[i] = "pending"
               /\ setup[t].error <=> boot[t].at = "failed"
    <3>1. boot[t] \in BootStates /\ TabSound(boot[t], setup[t])
      BY DEF BootInv
    <3>2. boot[t].at \in Busy \/ boot[t].at = "failed"
      BY <2>2, <3>1 DEF TabSound, BootStates
    <3>3. CASE boot[t].at = "failed"
      BY <2>2, <3>1, <3>3 DEF TabSound, Shows
    <3>4. CASE boot[t].at \in Busy
      <4>1. \E k \in DOMAIN setup[t].steps : Shows(setup[t].steps, k, "active")
        BY <2>2, <3>1, <3>4 DEF TabSound, FullAt, Shows, Busy, Installing
      <4>2. boot[t].at # "failed" /\ ~setup[t].error
        BY <3>1, <3>4 DEF TabSound, Busy, Installing
      <4>. QED
        BY <4>1, <4>2 DEF Shows
    <3>. QED
      BY <3>2, <3>3, <3>4
  <2>. QED
    BY <2>1, <2>2 DEF BootIsTrue, StepsShowProgress
<1>. QED
  BY <1>1, <1>2, <1>3, PTL DEF BootSpec

-----------------------------------------------------------------------------
(* Gateway                                                                 *)

KeptRows == [method : {"none", "api_key", "oauth"}, login : Logins, serial : Serials, near : BOOLEAN]
Tasks == [at : {"none", "connect", "refused", "ended"} \cup Resolving \cup Streaming,
          is_oauth : BOOLEAN, login : Logins, serial : Serials, account : Logins,
          granted : Serials, crossed : BOOLEAN]
RelayStates == [Connections -> [Dirs ->
  [at : {"none", "reading", "sending", "closing", "ended"}, frames : 0..MaxFrames]]]

\* What a task has read so far fits the row, as long as nobody has edited it under the task.
TaskSound(t, row) ==
  ~t.crossed =>
    /\ t.at \in {"none", "method"} => t.granted = 0 /\ t.account = 0
    /\ t.at = "refresh" => t.is_oauth /\ row.method = "oauth" /\ t.granted = 0 /\ t.account = 0
    /\ t.at = "credential" => (t.is_oauth <=> row.method = "oauth") /\ t.granted <= row.serial /\ t.account = 0
    /\ t.at = "account" => t.is_oauth /\ row.method = "oauth" /\ t.login = row.login /\ t.granted <= t.serial
    /\ t.at \in {"connect"} \cup Streaming =>
          t.login # 0 /\ t.granted <= t.serial /\ t.account = IF t.is_oauth THEN t.login ELSE 0

GatewayInv ==
  /\ GatewayTypeOK
  /\ kept # NoRow => kept.login # 0
  /\ \A c \in Connections : TaskSound(task[c], kept)

\* A refresh, and a token that nears its end, leave every task as sound as it was.
LEMMA RowMoves ==
  ASSUME NEW t \in Tasks, NEW row \in KeptRows, NEW next \in KeptRows, TaskSound(t, row),
         next.method = row.method, next.login = row.login, row.serial <= next.serial
  PROVE  TaskSound(t, next)
<1>. MaxSerial \in Nat
  BY GatewayAssumption
<1>. t.granted \in Nat /\ row.serial \in Nat /\ next.serial \in Nat
  BY DEF Tasks, KeptRows, Serials
<1>. QED
  BY DEF TaskSound

\* A refresh keeps the login of the row it replaces and is one newer.
LEMMA RefreshedRow ==
  ASSUME GatewayTypeOK, Due
  PROVE  /\ Refreshed \in KeptRows /\ Refreshed.method = "oauth" /\ Refreshed.login = kept.login
         /\ Refreshed.serial = kept.serial + 1
<1>. MaxSerial \in Nat
  BY GatewayAssumption
<1>1. kept \in KeptRows /\ kept.method = "oauth" /\ kept.serial <= MaxSerial /\ kept.serial \in Serials
  BY DEF GatewayTypeOK, KeptRows, Due
<1>2. kept.serial + 1 \in Serials
  BY <1>1 DEF Serials
<1>3. ASSUME NEW row \in KeptRows, NEW n \in Serials
      PROVE  /\ [row EXCEPT !.serial = n, !.near = FALSE] \in KeptRows
             /\ [row EXCEPT !.serial = n, !.near = FALSE].method = row.method
             /\ [row EXCEPT !.serial = n, !.near = FALSE].login = row.login
             /\ [row EXCEPT !.serial = n, !.near = FALSE].serial = n
  BY DEF KeptRows
<1>4. Refreshed = [kept EXCEPT !.serial = kept.serial + 1, !.near = FALSE]
  BY DEF Refreshed
<1>. QED
  BY <1>1, <1>2, <1>3, <1>4

\* One task moves, the row stays or is refreshed: the others are as they were.
LEMMA OneTaskMoves ==
  ASSUME GatewayInv, NEW c \in Connections, NEW t \in Tasks, task' = [task EXCEPT ![c] = t],
         kept' = kept \/ (Due /\ kept' = Refreshed), TaskSound(t, kept'),
         UNCHANGED <<saves, listening>>,
         agent_side' \in [Connections -> Sides], upstream_side' \in [Connections -> Sides], relay' \in RelayStates
  PROVE  GatewayInv'
<1>1. task \in [Connections -> Tasks] /\ kept \in KeptRows
  BY DEF GatewayInv, GatewayTypeOK, Tasks, KeptRows
<1>2. kept' \in KeptRows /\ kept'.method = kept.method /\ kept'.login = kept.login /\ kept.serial <= kept'.serial
  <2>1. MaxSerial \in Nat /\ kept.serial \in Nat
    BY <1>1, GatewayAssumption DEF KeptRows, Serials
  <2>. QED
    BY <1>1, <2>1, RefreshedRow DEF GatewayInv, Due
<1>3. GatewayTypeOK'
  <2>1. task' \in [Connections -> Tasks]
    BY <1>1
  <2>. QED
    BY <1>2, <2>1 DEF GatewayInv, GatewayTypeOK, Tasks, KeptRows, RelayStates
<1>4. kept' # NoRow => kept'.login # 0
  BY <1>2 DEF GatewayInv, Due, NoRow
<1>5. ASSUME NEW d \in Connections PROVE TaskSound(task'[d], kept')
  <2>1. CASE d = c
    BY <1>1, <2>1
  <2>2. CASE d # c
    <3>1. task'[d] = task[d] /\ task[d] \in Tasks /\ TaskSound(task[d], kept)
      BY <1>1, <2>2 DEF GatewayInv
    <3>. QED
      BY <1>1, <1>2, <3>1, RowMoves
  <2>. QED
    BY <2>1, <2>2
<1>. QED
  BY <1>3, <1>4, <1>5 DEF GatewayInv

\* What goes upstream is of one login, for any connections, logins and refreshes.
THEOREM SentStaysAsOne == GatewaySpec => [](GatewayTypeOK /\ SentAsOne)
<1>. MaxSerial \in Nat /\ MaxSecretsKept \in Nat
  BY GatewayAssumption
<1>1. GatewayInit => GatewayInv
  <2> SUFFICES ASSUME GatewayInit PROVE GatewayInv
    OBVIOUS
  <2>1. NoRow \in KeptRows /\ NoTask \in Tasks
    BY DEF NoRow, NoTask, KeptRows, Tasks, Logins, Serials
  <2>2. GatewayTypeOK
    <3>1. NoRelay \in [Dirs -> [at : {"none", "reading", "sending", "closing", "ended"}, frames : 0..MaxFrames]]
      BY GatewayAssumption DEF NoRelay
    <3>. QED
      BY <2>1, <3>1 DEF GatewayInit, GatewayTypeOK, KeptRows, Tasks, Logins, Sides
  <2>3. TaskSound(NoTask, kept)
    BY DEF TaskSound, NoTask, Streaming
  <2>. QED
    BY <2>2, <2>3 DEF GatewayInit, GatewayInv
<1>2. GatewayInv /\ [GatewayNext]_gateway_vars => GatewayInv'
  <2> SUFFICES ASSUME GatewayInv, [GatewayNext]_gateway_vars PROVE GatewayInv'
    OBVIOUS
  <2>0. /\ task \in [Connections -> Tasks] /\ kept \in KeptRows /\ saves \in Logins /\ listening \in {"no", "yes", "stopped"}
        /\ agent_side \in [Connections -> Sides] /\ upstream_side \in [Connections -> Sides] /\ relay \in RelayStates
    BY DEF GatewayInv, GatewayTypeOK, Tasks, KeptRows, RelayStates
  <2>1. ASSUME NEW row \in KeptRows, Edited(row), row # NoRow => row.login # 0, saves' \in Logins
        PROVE  GatewayInv'
    <3>1. kept' = row /\ task' = Crossed /\ UNCHANGED <<listening, agent_side, upstream_side, relay>>
      BY <2>1 DEF Edited
    <3>2. ASSUME NEW c \in Connections PROVE task'[c] \in Tasks /\ TaskSound(task'[c], row)
      <4>1. task[c] \in Tasks /\ TaskSound(task[c], kept)
        BY <2>0 DEF GatewayInv
      <4>2. CASE task[c].at \in Resolving
        <5>1. task'[c] = [task[c] EXCEPT !.crossed = TRUE]
          BY <3>1, <4>2 DEF Crossed
        <5>2. ASSUME NEW t \in Tasks PROVE [t EXCEPT !.crossed = TRUE] \in Tasks /\ [t EXCEPT !.crossed = TRUE].crossed
          BY DEF Tasks
        <5>. QED
          BY <4>1, <5>1, <5>2 DEF TaskSound
      <4>3. CASE task[c].at \notin Resolving
        <5>1. task'[c] = task[c]
          BY <3>1, <4>3 DEF Crossed
        <5>. QED
          BY <4>1, <4>3, <5>1 DEF TaskSound, Resolving
      <4>. QED
        BY <4>2, <4>3
    <3>3. task' \in [Connections -> Tasks]
      BY <3>1, <3>2 DEF Crossed
    <3>4. GatewayTypeOK'
      BY <2>0, <2>1, <3>1, <3>3 DEF GatewayTypeOK, Tasks, KeptRows, RelayStates
    <3>. QED
      BY <2>1, <3>1, <3>2, <3>4 DEF GatewayInv
  <2>2. ASSUME NEW method \in {"api_key", "oauth"}, VaultSaves(method) PROVE GatewayInv'
    <3>. DEFINE row == [method |-> method, login |-> saves', serial |-> 1, near |-> FALSE]
    <3>1. saves' \in Logins /\ saves' # 0 /\ Edited(row)
      BY <2>0, <2>2 DEF VaultSaves, Logins
    <3>2. 1 \in Serials
      BY DEF Serials
    <3>3. row \in KeptRows /\ row.login = saves'
      BY <3>1, <3>2 DEF KeptRows
    <3>. HIDE DEF row
    <3>. QED
      BY <2>1, <3>1, <3>3
  <2>3. CASE VaultRemoves
    <3>1. NoRow \in KeptRows
      BY DEF NoRow, KeptRows, Logins, Serials
    <3>. QED
      BY <2>0, <2>1, <2>3, <3>1 DEF VaultRemoves
  <2>4. CASE TokenNearsExpiry \/ RefreshedByOthers
    <3>1. /\ kept' \in KeptRows /\ kept'.method = kept.method /\ kept'.login = kept.login /\ kept.serial <= kept'.serial
          /\ kept.method = "oauth"
      <4>1. kept.serial \in Nat
        BY <2>0 DEF KeptRows, Serials
      <4>2. CASE TokenNearsExpiry
        <5>1. ASSUME NEW r \in KeptRows
              PROVE  /\ [r EXCEPT !.near = TRUE] \in KeptRows /\ [r EXCEPT !.near = TRUE].method = r.method
                     /\ [r EXCEPT !.near = TRUE].login = r.login /\ [r EXCEPT !.near = TRUE].serial = r.serial
          BY DEF KeptRows
        <5>2. kept' = [kept EXCEPT !.near = TRUE] /\ kept.method = "oauth"
          BY <4>2 DEF TokenNearsExpiry
        <5>. QED
          BY <2>0, <4>1, <5>1, <5>2
      <4>3. CASE RefreshedByOthers
        BY <4>1, <4>3, RefreshedRow DEF RefreshedByOthers, GatewayInv, Due
      <4>. QED
        BY <2>4, <4>2, <4>3
    <3>2. UNCHANGED <<saves, listening, task, agent_side, upstream_side, relay>>
      BY <2>4 DEF TokenNearsExpiry, RefreshedByOthers
    <3>3. kept.login # 0
      BY <3>1 DEF GatewayInv, NoRow
    <3>4. \A c \in Connections : TaskSound(task[c], kept')
      BY <2>0, <3>1, RowMoves DEF GatewayInv
    <3>5. GatewayTypeOK'
      BY <2>0, <3>1, <3>2 DEF GatewayTypeOK, Tasks, KeptRows, RelayStates
    <3>. QED
      BY <3>1, <3>2, <3>3, <3>4, <3>5 DEF GatewayInv
  <2>5. CASE start \/ stop
    BY <2>0, <2>5 DEF start, stop, GatewayInv, GatewayTypeOK
  <2>6. ASSUME NEW c \in Connections, accept(c) PROVE GatewayInv'
    <3>1. task' = [task EXCEPT ![c] = [task[c] EXCEPT !.at = "method"]] /\ task[c].at = "none" /\ UNCHANGED <<kept, saves, listening>>
      BY <2>0, <2>6 DEF accept
    <3>2. ASSUME NEW t \in Tasks
          PROVE  /\ [t EXCEPT !.at = "method"] \in Tasks /\ [t EXCEPT !.at = "method"].at = "method"
                 /\ [t EXCEPT !.at = "method"].granted = t.granted /\ [t EXCEPT !.at = "method"].account = t.account
                 /\ ([t EXCEPT !.at = "method"].crossed <=> t.crossed)
      BY DEF Tasks, Resolving
    <3>3. TaskSound([task[c] EXCEPT !.at = "method"], kept)
      BY <2>0, <3>1, <3>2 DEF GatewayInv, TaskSound, Streaming
    <3>4. agent_side' \in [Connections -> Sides] /\ UNCHANGED <<upstream_side, relay>>
      BY <2>0, <2>6 DEF accept, Sides
    <3>. QED
      BY <2>0, <3>1, <3>2, <3>3, <3>4, OneTaskMoves
  <2>7. ASSUME NEW c \in Connections, ReadsMethod(c) PROVE GatewayInv'
    <3>. DEFINE oauth == kept.method = "oauth"
                to(t) == [t EXCEPT !.is_oauth = oauth, !.at = IF oauth THEN "refresh" ELSE "credential"]
    <3>1. task[c].at = "method" /\ task' = [task EXCEPT ![c] = to(task[c])] /\ UNCHANGED <<kept, saves, listening, agent_side, upstream_side, relay>>
      BY <2>7 DEF ReadsMethod, Continues
    <3>2. ASSUME NEW t \in Tasks
          PROVE  /\ to(t) \in Tasks /\ to(t).granted = t.granted /\ to(t).account = t.account
                 /\ (to(t).crossed <=> t.crossed) /\ (to(t).is_oauth <=> oauth)
                 /\ to(t).at = IF oauth THEN "refresh" ELSE "credential"
      BY DEF Tasks, Resolving
    <3>3. task[c] \in Tasks /\ TaskSound(task[c], kept) /\ kept.serial \in Nat
      BY <2>0 DEF GatewayInv, KeptRows, Serials
    <3>. HIDE DEF to
    <3>4. TaskSound(to(task[c]), kept)
      BY <3>1, <3>2, <3>3 DEF TaskSound, Streaming
    <3>. QED
      BY <2>0, <3>1, <3>2, <3>3, <3>4, OneTaskMoves
  <2>8. ASSUME NEW c \in Connections, Refreshes(c) PROVE GatewayInv'
    <3>. DEFINE to(t, n) == [t EXCEPT !.at = "credential", !.granted = n]
                on(t) == [t EXCEPT !.at = "credential"]
    <3>0. task[c] \in Tasks /\ TaskSound(task[c], kept) /\ kept.serial \in Nat
      BY <2>0 DEF GatewayInv, KeptRows, Serials
    <3>1. task[c].at = "refresh" /\ UNCHANGED <<saves, listening, agent_side, upstream_side, relay>>
      BY <2>8 DEF Refreshes, Continues
    <3>2. ASSUME NEW t \in Tasks, NEW n \in Serials
          PROVE  /\ to(t, n) \in Tasks /\ to(t, n).granted = n /\ to(t, n).account = t.account
                 /\ (to(t, n).crossed <=> t.crossed) /\ (to(t, n).is_oauth <=> t.is_oauth)
                 /\ to(t, n).at = "credential"
      BY DEF Tasks, Resolving
    <3>3. ASSUME NEW t \in Tasks
          PROVE  /\ on(t) \in Tasks /\ on(t).granted = t.granted /\ on(t).account = t.account
                 /\ (on(t).crossed <=> t.crossed) /\ (on(t).is_oauth <=> t.is_oauth)
                 /\ on(t).at = "credential"
      BY DEF Tasks, Resolving
    <3>4. CASE Due /\ kept' = Refreshed /\ task' = [task EXCEPT ![c] = to(task[c], kept'.serial)]
      <4>1. kept' \in KeptRows /\ kept'.method = "oauth" /\ kept'.serial \in Serials /\ kept'.serial \in Nat
        BY <3>4, RefreshedRow DEF GatewayInv, KeptRows, Serials
      <4>. HIDE DEF to
      <4>2. TaskSound(to(task[c], kept'.serial), kept')
        BY <3>0, <3>1, <3>2, <4>1 DEF TaskSound, Streaming
      <4>. QED
        BY <2>0, <3>0, <3>1, <3>2, <3>4, <4>1, <4>2, OneTaskMoves
    <3>5. CASE kept' = kept /\ task' = [task EXCEPT ![c] = on(task[c])]
      <4>. HIDE DEF on
      <4>1. TaskSound(on(task[c]), kept)
        BY <3>0, <3>1, <3>3 DEF TaskSound, Streaming
      <4>. QED
        BY <2>0, <3>0, <3>1, <3>3, <3>5, <4>1, OneTaskMoves
    <3>. QED
      BY <2>8, <3>4, <3>5 DEF Refreshes, Continues
  <2>9. ASSUME NEW c \in Connections, ReadsCredential(c) PROVE GatewayInv'
    <3>. DEFINE next == IF kept = NoRow THEN "refused" ELSE IF task[c].is_oauth THEN "account" ELSE "connect"
                to(t, at, login, serial) == [t EXCEPT !.at = at, !.login = login, !.serial = serial]
    <3>0. /\ task[c] \in Tasks /\ TaskSound(task[c], kept) /\ kept.login \in Logins /\ kept.serial \in Serials
          /\ (kept # NoRow => kept.login # 0)
      BY <2>0 DEF GatewayInv, KeptRows
    <3>1. /\ task[c].at = "credential" /\ task' = [task EXCEPT ![c] = to(task[c], next, kept.login, kept.serial)]
          /\ UNCHANGED <<kept, saves, listening, agent_side, upstream_side, relay>>
      BY <2>9 DEF ReadsCredential, Continues
    <3>2. ASSUME NEW t \in Tasks, NEW at \in {"refused", "account", "connect"}, NEW l \in Logins, NEW s \in Serials
          PROVE  /\ to(t, at, l, s) \in Tasks /\ to(t, at, l, s).granted = t.granted /\ to(t, at, l, s).account = t.account
                 /\ (to(t, at, l, s).crossed <=> t.crossed) /\ (to(t, at, l, s).is_oauth <=> t.is_oauth)
                 /\ to(t, at, l, s).at = at /\ to(t, at, l, s).login = l /\ to(t, at, l, s).serial = s
      BY DEF Tasks, Resolving
    <3>3. /\ next \in {"refused", "account", "connect"} /\ (next = "account" => task[c].is_oauth)
          /\ (next = "connect" => kept # NoRow /\ ~task[c].is_oauth)
      OBVIOUS
    <3>. HIDE DEF next, to
    <3>4. TaskSound(to(task[c], next, kept.login, kept.serial), kept)
      BY <3>0, <3>1, <3>2, <3>3 DEF TaskSound, Streaming
    <3>5. to(task[c], next, kept.login, kept.serial) \in Tasks
      BY <3>0, <3>2, <3>3
    <3>. QED
      BY <2>0, <3>1, <3>4, <3>5, OneTaskMoves
  <2>10. ASSUME NEW c \in Connections, ReadsAccount(c) PROVE GatewayInv'
    <3>. DEFINE account == IF kept.method = "oauth" THEN kept.login ELSE 0
                to(t, a) == [t EXCEPT !.at = "connect", !.account = a]
    <3>0. task[c] \in Tasks /\ TaskSound(task[c], kept) /\ account \in Logins /\ (kept.method = "oauth" => kept.login # 0)
      BY <2>0 DEF GatewayInv, KeptRows, Logins, NoRow
    <3>1. /\ task[c].at = "account" /\ task' = [task EXCEPT ![c] = to(task[c], account)]
          /\ UNCHANGED <<kept, saves, listening, agent_side, upstream_side, relay>>
      BY <2>10 DEF ReadsAccount, Continues
    <3>2. ASSUME NEW t \in Tasks, NEW a \in Logins
          PROVE  /\ to(t, a) \in Tasks /\ to(t, a).granted = t.granted /\ to(t, a).account = a
                 /\ (to(t, a).crossed <=> t.crossed) /\ (to(t, a).is_oauth <=> t.is_oauth)
                 /\ to(t, a).at = "connect" /\ to(t, a).login = t.login /\ to(t, a).serial = t.serial
      BY DEF Tasks
    <3>3. kept.method = "oauth" => account = kept.login
      OBVIOUS
    <3>. HIDE DEF account, to
    <3>4. TaskSound(to(task[c], account), kept)
      BY <3>0, <3>1, <3>2, <3>3 DEF TaskSound, Streaming
    <3>. QED
      BY <2>0, <3>0, <3>1, <3>2, <3>4, OneTaskMoves
  <2>11. ASSUME NEW c \in Connections, NEW at \in {"refused", "ended"} \cup Streaming, at \in Streaming => task[c].at = "connect",
                task' = [task EXCEPT ![c] = [task[c] EXCEPT !.at = at]], UNCHANGED <<kept, saves, listening>>,
                agent_side' \in [Connections -> Sides], upstream_side' \in [Connections -> Sides], relay' \in RelayStates
         PROVE  GatewayInv'
    <3>. DEFINE to(t) == [t EXCEPT !.at = at]
    <3>0. task[c] \in Tasks /\ TaskSound(task[c], kept)
      BY <2>0 DEF GatewayInv
    <3>1. ASSUME NEW t \in Tasks
          PROVE  /\ to(t) \in Tasks /\ to(t).granted = t.granted /\ to(t).account = t.account
                 /\ (to(t).crossed <=> t.crossed) /\ (to(t).is_oauth <=> t.is_oauth)
                 /\ to(t).at = at /\ to(t).login = t.login /\ to(t).serial = t.serial
      BY DEF Tasks
    <3>2. task' = [task EXCEPT ![c] = to(task[c])]
      BY <2>11
    <3>. HIDE DEF to
    <3>3. TaskSound(to(task[c]), kept)
      BY <2>11, <3>0, <3>1 DEF TaskSound, Streaming
    <3>. QED
      BY <2>11, <3>0, <3>1, <3>2, <3>3, OneTaskMoves
  <2>12. ASSUME NEW c \in Connections, NEW kind \in Streaming, ConnectsUpstream(c, kind) PROVE GatewayInv'
    <3>1. [d \in Dirs |-> [at |-> "reading", frames |-> 0]] \in
            [Dirs -> [at : {"none", "reading", "sending", "closing", "ended"}, frames : 0..MaxFrames]]
      BY GatewayAssumption
    <3>2. relay' \in RelayStates
      BY <2>0, <2>12, <3>1 DEF ConnectsUpstream, RelayStates
    <3>. QED
      BY <2>0, <2>11, <2>12, <3>2 DEF ConnectsUpstream, Continues, Sides
  <2>13. ASSUME NEW c \in Connections, ConnectFails(c) PROVE GatewayInv'
    BY <2>0, <2>11, <2>13 DEF ConnectFails, Continues, Streaming
  <2>14. ASSUME NEW c \in Connections, NEW how \in {"closed", "lost"}, AgentLeaves(c, how) \/ UpstreamLeaves(c, how)
         PROVE  GatewayInv'
    <3>1. /\ agent_side' \in [Connections -> Sides] /\ upstream_side' \in [Connections -> Sides]
          /\ UNCHANGED <<kept, saves, listening, task, relay>>
      BY <2>0, <2>14 DEF AgentLeaves, UpstreamLeaves, Sides
    <3>. QED
      BY <3>1 DEF GatewayInv, GatewayTypeOK
  <2>15. ASSUME NEW c \in Connections, HungUp(c) \/ ResponseEnds(c) \/ RelayEnds(c) PROVE GatewayInv'
    <3>1. Dropped(c)
      BY <2>15 DEF HungUp, ResponseEnds, RelayEnds
    <3>2. agent_side' \in [Connections -> Sides] /\ upstream_side' \in [Connections -> Sides]
      BY <2>0, <3>1 DEF Dropped, Sides
    <3>3. NoRelay \in [Dirs -> [at : {"none", "reading", "sending", "closing", "ended"}, frames : 0..MaxFrames]]
      BY GatewayAssumption DEF NoRelay
    <3>4. relay' \in RelayStates
      BY <2>0, <3>1, <3>3 DEF Dropped, RelayStates
    <3>. QED
      BY <2>0, <2>11, <3>1, <3>2, <3>4 DEF Dropped, Streaming
  <2>16. ASSUME NEW c \in Connections, NEW d \in Dirs, FrameSent(c, d) \/ Reads(c, d) \/ Taken(c, d) \/ SendFails(c, d)
         PROVE  GatewayInv'
    <3>. DEFINE Loops == [at : {"none", "reading", "sending", "closing", "ended"}, frames : 0..MaxFrames]
    <3>1. relay[c][d] \in Loops /\ MaxFrames \in Nat
      BY <2>0, GatewayAssumption DEF RelayStates
    <3>2. \E loop \in Loops : LoopMoves(c, d, loop)
      <4>1. CASE FrameSent(c, d)
        <5>1. [relay[c][d] EXCEPT !.frames = relay[c][d].frames + 1] \in Loops
          BY <3>1, <4>1 DEF FrameSent
        <5>. QED
          BY <4>1, <5>1 DEF FrameSent
      <4>2. ASSUME NEW to \in {"reading", "closing", "ended"}, LoopGoes(c, d, to)
            PROVE  \E loop \in Loops : LoopMoves(c, d, loop)
        <5>1. [relay[c][d] EXCEPT !.at = to] \in Loops
          BY <3>1
        <5>. QED
          BY <4>2, <5>1 DEF LoopGoes
      <4>3. CASE Reads(c, d)
        <5>1. CASE relay[c][d].frames > 0 /\ LoopMoves(c, d, [at |-> "sending", frames |-> relay[c][d].frames - 1])
          <6>1. [at |-> "sending", frames |-> relay[c][d].frames - 1] \in Loops
            BY <3>1, <5>1
          <6>. QED
            BY <5>1, <6>1
        <5>2. CASE LoopGoes(c, d, "closing") \/ LoopGoes(c, d, "ended")
          BY <4>2, <5>2
        <5>. QED
          BY <4>3, <5>1, <5>2 DEF Reads
      <4>4. CASE Taken(c, d) \/ SendFails(c, d)
        BY <4>2, <4>4 DEF Taken, SendFails
      <4>. QED
        BY <2>16, <4>1, <4>3, <4>4
    <3>3. PICK loop \in Loops : LoopMoves(c, d, loop)
      BY <3>2
    <3>4. relay' \in RelayStates /\ UNCHANGED <<kept, saves, listening, task, agent_side, upstream_side>>
      <4>1. relay' = [relay EXCEPT ![c][d] = loop] /\ UNCHANGED <<kept, saves, listening, task, agent_side, upstream_side>>
        BY <3>3 DEF LoopMoves
      <4>. QED
        BY <2>0, <4>1 DEF RelayStates
    <3>. QED
      BY <2>0, <3>4 DEF GatewayInv, GatewayTypeOK, RelayStates
  <2>17. CASE UNCHANGED gateway_vars
    BY <2>17 DEF gateway_vars, GatewayInv, GatewayTypeOK
  <2>. QED
    BY <2>2, <2>3, <2>4, <2>5, <2>6, <2>7, <2>8, <2>9, <2>10, <2>12, <2>13, <2>14, <2>15, <2>16, <2>17 DEF GatewayNext
<1>3. GatewayInv => GatewayTypeOK /\ SentAsOne
  BY DEF GatewayInv, TaskSound, SentAsOne
<1>. QED
  BY <1>1, <1>2, <1>3, PTL DEF GatewaySpec

-----------------------------------------------------------------------------
(* AgentEvents                                                             *)

\* The lines with a status among the first n of a text, the last of them last.
PickedOf(text, n, w) ==
  /\ w \in Seq(EventIx)
  /\ \A j \in 1 .. Len(w) : \E i \in 1 .. n : w[j] = text[i] /\ HasStatus(text[i])
  /\ \A i \in 1 .. n : HasStatus(text[i]) => \E j \in 1 .. Len(w) : w[j] = text[i]
  /\ w # <<>> => \E i \in 1 .. n : /\ w[Len(w)] = text[i] /\ HasStatus(text[i])
                                   /\ \A k \in i + 1 .. n : ~HasStatus(text[k])

\* Of no lines nothing is picked.
LEMMA PicksNone ==
  ASSUME NEW text
  PROVE  PickedOf(text, 0, <<>>)
<1>1. <<>> \in Seq(EventIx) /\ Len(<<>>) = 0
  OBVIOUS
<1>. QED
  BY <1>1 DEF PickedOf

\* One line more is picked when it holds a status, and else leaves the pick as it was.
LEMMA PicksNext ==
  ASSUME NEW text, NEW n \in Nat, NEW w, PickedOf(text, n, w), text[n + 1] \in EventIx
  PROVE  PickedOf(text, n + 1, IF HasStatus(text[n + 1]) THEN Append(w, text[n + 1]) ELSE w)
<1>1. /\ 1 .. n + 1 = 1 .. n \cup {n + 1} /\ n + 1 \in 1 .. n + 1
      /\ \A i \in 1 .. n : i + 1 .. n + 1 = (i + 1 .. n) \cup {n + 1}
  OBVIOUS
<1>2. CASE ~HasStatus(text[n + 1])
  <2>1. /\ w \in Seq(EventIx)
        /\ \A j \in 1 .. Len(w) : \E i \in 1 .. n + 1 : w[j] = text[i] /\ HasStatus(text[i])
    BY <1>1 DEF PickedOf
  <2>2. \A i \in 1 .. n + 1 : HasStatus(text[i]) => \E j \in 1 .. Len(w) : w[j] = text[i]
    BY <1>1, <1>2 DEF PickedOf
  <2>3. ASSUME w # <<>>
        PROVE  \E i \in 1 .. n + 1 : /\ w[Len(w)] = text[i] /\ HasStatus(text[i])
                                     /\ \A k \in i + 1 .. n + 1 : ~HasStatus(text[k])
    <3>1. PICK i \in 1 .. n : /\ w[Len(w)] = text[i] /\ HasStatus(text[i])
                              /\ \A k \in i + 1 .. n : ~HasStatus(text[k])
      BY <2>3 DEF PickedOf
    <3>. QED
      BY <1>1, <1>2, <3>1
  <2>4. PickedOf(text, n + 1, w)
    BY <2>1, <2>2, <2>3 DEF PickedOf
  <2>. QED
    BY <1>2, <2>4
<1>3. CASE HasStatus(text[n + 1])
  <2>1. w \in Seq(EventIx)
    BY DEF PickedOf
  <2>2. PICK v : v = Append(w, text[n + 1])
    OBVIOUS
  <2>3. /\ v \in Seq(EventIx) /\ Len(v) = Len(w) + 1 /\ Len(w) \in Nat
        /\ v[Len(w) + 1] = text[n + 1] /\ \A j \in 1 .. Len(w) : v[j] = w[j]
    BY <2>1, <2>2, AppendProperties
  <2>4. 1 .. Len(v) = 1 .. Len(w) \cup {Len(w) + 1}
    BY <2>3
  <2>5. \A j \in 1 .. Len(v) : \E i \in 1 .. n + 1 : v[j] = text[i] /\ HasStatus(text[i])
    <3>1. TAKE j \in 1 .. Len(v)
    <3>2. CASE j \in 1 .. Len(w)
      <4>1. PICK i \in 1 .. n : w[j] = text[i] /\ HasStatus(text[i])
        BY <3>2 DEF PickedOf
      <4>. QED
        BY <1>1, <2>3, <3>2, <4>1
    <3>3. CASE j = Len(w) + 1
      BY <1>1, <1>3, <2>3, <3>3
    <3>. QED
      BY <2>4, <3>2, <3>3
  <2>6. \A i \in 1 .. n + 1 : HasStatus(text[i]) => \E j \in 1 .. Len(v) : v[j] = text[i]
    <3>1. TAKE i \in 1 .. n + 1
    <3>2. CASE i \in 1 .. n
      BY <2>3, <2>4, <3>2 DEF PickedOf
    <3>3. CASE i = n + 1
      BY <2>3, <2>4, <3>3
    <3>. QED
      BY <1>1, <3>2, <3>3
  <2>7. /\ n + 1 \in 1 .. n + 1 /\ v[Len(v)] = text[n + 1]
        /\ \A k \in (n + 1) + 1 .. n + 1 : ~HasStatus(text[k])
    BY <2>3
  <2>8. PickedOf(text, n + 1, v)
    BY <1>3, <2>3, <2>5, <2>6, <2>7 DEF PickedOf
  <2>. QED
    BY <1>3, <2>2, <2>8
<1>. QED
  BY <1>2, <1>3

\* What the loop over the lines that were read makes of them.
LEMMA ParsedIs ==
  ASSUME NEW text \in Seq(EventIx)
  PROVE  PickedOf(text, Len(text), Parsed(text))
<1>. DEFINE V == Seq(EventIx)
            m == Len(text)
            Next(v, n) == IF HasStatus(text[n]) THEN Append(v, text[n]) ELSE v
            Body(f, n) == IF n = 0 THEN <<>>
                          ELSE IF HasStatus(text[n]) THEN Append(f[n - 1], text[n]) ELSE f[n - 1]
            F == CHOOSE f : f = [n \in 0 .. m |-> Body(f, n)]
            step == [n \in 1 .. m |-> [v \in V |-> Next(v, n)]]
<1>1. m \in Nat /\ <<>> \in V /\ \A n \in 1 .. m : text[n] \in EventIx
  OBVIOUS
<1>2. \A n \in 1 .. m : step[n] \in [V -> V] /\ \A v \in V : step[n][v] = Next(v, n)
  BY <1>1
<1>3. step \in [1 .. m -> [V -> V]]
  BY <1>2
<1>4. \E f \in [0 .. m -> V] : f[0] = <<>> /\ \A n \in 1 .. m : f[n] = step[n][f[n - 1]]
  <2>1. PICK none : none = <<>>
    OBVIOUS
  <2>. HIDE DEF step, V, m
  <2>2. Steps(m, V, none, step)
    BY <1>1, <1>3, <2>1 DEF Steps
  <2>3. \E f : Follows(f, m, V, none, step)
    BY <2>2, StepByStep
  <2>. QED
    BY <2>1, <2>3 DEF Follows
<1>5. PICK f \in [0 .. m -> V] : f[0] = <<>> /\ \A n \in 1 .. m : f[n] = step[n][f[n - 1]]
  BY <1>4
<1>6. \A n \in 0 .. m : f[n] = Body(f, n)
  <2>. HIDE DEF step, V
  <2>1. \A n \in 1 .. m : n - 1 \in 0 .. m /\ n # 0
    BY <1>1
  <2>2. \A n \in 1 .. m : f[n] = Next(f[n - 1], n)
    BY <1>2, <1>5, <2>1
  <2>3. 0 .. m = {0} \cup 1 .. m
    BY <1>1
  <2>. QED
    BY <1>5, <2>1, <2>2, <2>3
<1>7. f = [n \in 0 .. m |-> Body(f, n)]
  <2>. HIDE DEF Body, m, V
  <2>. QED
    BY <1>6
<1>8. F = [n \in 0 .. m |-> Body(F, n)]
  BY <1>7, Zenon
<1>9. Parsed(text) = F[m]
  BY Zenon DEF Parsed
<1>. HIDE DEF F, step
<1>10. F[0] = <<>> /\ \A n \in 0 .. m - 1 : n + 1 # 0 /\ F[n + 1] = Next(F[n], n + 1)
  <2>1. 0 \in 0 .. m /\ \A n \in 0 .. m - 1 : n + 1 # 0 /\ n + 1 \in 0 .. m /\ (n + 1) - 1 = n
    BY <1>1
  <2>2. \A n \in 0 .. m : F[n] = Body(F, n)
    BY <1>8
  <2>. QED
    BY <2>1, <2>2
<1>. DEFINE S == {n \in 0 .. m : PickedOf(text, n, F[n])}
<1>11. 0 \in S
  BY <1>1, <1>10, PicksNone
<1>12. ASSUME NEW n \in 0 .. m - 1, n \in S PROVE n + 1 \in S
  <2>1. PickedOf(text, n, F[n]) /\ n \in Nat /\ n + 1 \in 0 .. m /\ n + 1 \in 1 .. m
    BY <1>1, <1>12
  <2>2. PickedOf(text, n + 1, Next(F[n], n + 1))
    BY <1>1, <2>1, PicksNext
  <2>. QED
    BY <1>10, <2>1, <2>2
<1>13. \A n \in 0 .. m : n \in S
  <2>. HIDE DEF S
  <2>. QED
    BY <1>1, <1>11, <1>12, UpTo
<1>. QED
  BY <1>1, <1>9, <1>13

Reported == 1 .. Len(reported)
Arrived == delivered \cup ToSet(sent)

\* The file's lines are in the order they were appended, and what was read begins it.
LinesInv ==
  /\ \A k \in 1 .. Len(lines) : lines[k] \in Reported
  /\ \A j, k \in 1 .. Len(lines) : j < k => lines[j] < lines[k]
  /\ watcher.at = "read" =>
       /\ Len(watcher.text) <= Len(lines) /\ \A k \in 1 .. Len(watcher.text) : watcher.text[k] = lines[k]
       /\ \A k \in Len(watcher.text) + 1 .. Len(lines) : lines[k] \notin Arrived

\* What arrives has a status, was watched, and is in the file still or older than all in it.
ArrivedInv ==
  /\ \A i \in Arrived : i \in Reported /\ HasStatus(i) /\ i \notin unwatched
  /\ \A i \in Arrived : i \in ToSet(lines) \/ \A k \in 1 .. Len(lines) : i < lines[k]

\* An event that the watch is to bring is on its way: the thread will read it.
Awaited(i) ==
  \/ noticed \/ watcher.at \in {"settling", "ended"}
  \/ watcher.at = "read" /\ i \in ToSet(watcher.text)
SeenInv ==
  /\ watcher.at = "opening" => Reported \subseteq unwatched
  /\ \A i \in Reported : HasStatus(i) /\ i \notin unwatched => i \in Arrived \/ (i \in ToSet(lines) /\ Awaited(i))

\* The last status sent, or the tab's when none is on its way, is of the latest event.
LatestInv ==
  /\ sent # <<>> => \A i \in Arrived : i <= sent[Len(sent)]
  /\ sent = <<>> /\ event_service =>
       IF delivered = {} THEN status = "Unknown"
       ELSE \E d \in delivered : (\A i \in delivered : i <= d) /\ status = into_status(reported[d])

EventsInv == EventsTypeOK /\ LinesInv /\ ArrivedInv /\ SeenInv /\ LatestInv

\* It starts with an empty file and nothing on its way.
LEMMA EventsInvInit == EventsInit => EventsInv
<1>1. SUFFICES ASSUME EventsInit PROVE EventsInv
  OBVIOUS
<1>2. <<>> \in Seq(Reports) /\ <<>> \in Seq(EventIx) /\ Len(<<>>) = 0 /\ ToSet(<<>>) = {}
  BY DEF ToSet
<1>3. EventsTypeOK
  <2>3. reported \in Seq(Reports) /\ Len(reported) <= MaxEvents
    <3>1. 0 <= MaxEvents
      BY EventsAssumption
    <3>. QED
      BY <1>1, <1>2, <3>1 DEF EventsInit
  <2>1. /\ lines \in Seq(EventIx) /\ sent \in Seq(EventIx)
        /\ noticed \in BOOLEAN /\ event_service \in BOOLEAN
        /\ unwatched \in SUBSET EventIx /\ status \in Statuses /\ delivered \in SUBSET EventIx
    BY <1>1, <1>2 DEF EventsInit, Statuses
  <2>2. watcher \in [at : {"opening", "waiting", "settling", "read", "ended"}, text : Seq(EventIx)]
    BY <1>1, <1>2 DEF EventsInit
  <2>. QED
    BY <2>1, <2>2, <2>3 DEF EventsTypeOK
<1>4. Reported = {} /\ Arrived = {}
  BY <1>1, <1>2 DEF EventsInit, Reported, Arrived
<1>. QED
  BY <1>1, <1>2, <1>3, <1>4 DEF EventsInit, EventsInv, LinesInv, ArrivedInv, SeenInv, LatestInv

\* A sequence's elements, and those of one with another one after it.
LEMMA ToSetIs ==
  ASSUME NEW s \in Seq(EventIx)
  PROVE  /\ \A x : x \in ToSet(s) <=> \E k \in 1 .. Len(s) : x = s[k]
         /\ ToSet(s) \subseteq EventIx /\ Len(s) \in Nat
BY DEF ToSet

\* Taking the first of a queue leaves the others, and the last one last.
LEMMA ToSetTail ==
  ASSUME NEW s \in Seq(EventIx), s # <<>>
  PROVE  /\ Head(s) = s[1] /\ Tail(s) \in Seq(EventIx) /\ ToSet(s) = {Head(s)} \cup ToSet(Tail(s))
         /\ Tail(s) # <<>> => Tail(s)[Len(Tail(s))] = s[Len(s)]
         /\ Tail(s) = <<>> => Head(s) = s[Len(s)] /\ ToSet(s) = {Head(s)}
<1>0. PICK r : r = Tail(s)
  OBVIOUS
<1>1. /\ Head(s) = s[1] /\ r \in Seq(EventIx) /\ Len(s) \in Nat \ {0} /\ Len(r) = Len(s) - 1
      /\ \A k \in 1 .. Len(r) : r[k] = s[k + 1]
  BY <1>0, EmptySeq, HeadTailProperties
<1>2. \A x \in ToSet(s) : x = Head(s) \/ x \in ToSet(r)
  <2>1. TAKE x \in ToSet(s)
  <2>2. PICK k \in 1 .. Len(s) : x = s[k]
    BY ToSetIs
  <2>3. CASE k = 1
    BY <1>1, <2>2, <2>3
  <2>4. CASE k # 1
    <3>1. k - 1 \in 1 .. Len(r) /\ (k - 1) + 1 = k
      BY <1>1, <2>4
    <3>2. r[k - 1] = x
      BY <1>1, <2>2, <3>1
    <3>. QED
      BY <1>1, <3>1, <3>2, ToSetIs
  <2>. QED
    BY <2>3, <2>4
<1>3. Head(s) \in ToSet(s)
  BY <1>1, ToSetIs
<1>4. \A x \in ToSet(r) : x \in ToSet(s)
  <2>1. TAKE x \in ToSet(r)
  <2>2. PICK k \in 1 .. Len(r) : x = r[k]
    BY <1>1, ToSetIs
  <2>3. k + 1 \in 1 .. Len(s) /\ x = s[k + 1]
    BY <1>1, <2>2
  <2>. QED
    BY <2>3, ToSetIs
<1>5. r # <<>> => Len(r) \in 1 .. Len(r) /\ Len(r) + 1 = Len(s)
  BY <1>1, EmptySeq
<1>6. r = <<>> => Len(s) = 1 /\ ToSet(r) = {}
  <2>1. SUFFICES ASSUME r = <<>> PROVE Len(s) = 1 /\ ToSet(r) = {}
    OBVIOUS
  <2>2. Len(r) = 0
    BY <2>1
  <2>3. Len(s) = 1
    BY <1>1, <2>2
  <2>4. \A x : x \notin ToSet(r)
    <3>1. \A x : x \in ToSet(r) <=> \E k \in 1 .. Len(r) : x = r[k]
      BY <1>1, ToSetIs
    <3>. QED
      BY <2>2, <3>1
  <2>. QED
    BY <2>3, <2>4
<1>. QED
  BY <1>0, <1>1, <1>2, <1>3, <1>4, <1>5, <1>6

\* What is joined to a queue comes last.
LEMMA ToSetConcat ==
  ASSUME NEW s \in Seq(EventIx), NEW t \in Seq(EventIx)
  PROVE  /\ s \o t \in Seq(EventIx) /\ ToSet(s \o t) = ToSet(s) \cup ToSet(t)
         /\ t = <<>> => s \o t = s
         /\ t # <<>> => s \o t # <<>> /\ (s \o t)[Len(s \o t)] = t[Len(t)]
<1>1. /\ s \o t \in Seq(EventIx) /\ Len(s) \in Nat /\ Len(t) \in Nat /\ Len(s \o t) = Len(s) + Len(t)
      /\ \A k \in 1 .. Len(s) + Len(t) : (s \o t)[k] = IF k <= Len(s) THEN s[k] ELSE t[k - Len(s)]
  BY ConcatProperties
<1>2. PICK u : u = s \o t
  OBVIOUS
<1>3. \A x \in ToSet(u) : x \in ToSet(s) \cup ToSet(t)
  <2>1. TAKE x \in ToSet(u)
  <2>2. PICK k \in 1 .. Len(u) : x = u[k]
    <3>1. u \in Seq(EventIx)
      BY <1>1, <1>2
    <3>. QED
      BY <2>1, <3>1, ToSetIs
  <2>3. CASE k <= Len(s)
    <3>1. k \in 1 .. Len(s) /\ x = s[k]
      BY <1>1, <1>2, <2>2, <2>3
    <3>. QED
      BY <3>1, ToSetIs
  <2>4. CASE ~(k <= Len(s))
    <3>1. k - Len(s) \in 1 .. Len(t) /\ x = t[k - Len(s)]
      BY <1>1, <1>2, <2>2, <2>4
    <3>. QED
      BY <3>1, ToSetIs
  <2>. QED
    BY <2>3, <2>4
<1>4. \A x \in ToSet(s) : x \in ToSet(u)
  <2>1. TAKE x \in ToSet(s)
  <2>2. PICK k \in 1 .. Len(s) : x = s[k]
    BY ToSetIs
  <2>3. k \in 1 .. Len(u) /\ x = u[k]
    BY <1>1, <1>2, <2>2
  <2>. QED
    BY <1>1, <1>2, <2>3, ToSetIs
<1>5. \A x \in ToSet(t) : x \in ToSet(u)
  <2>1. TAKE x \in ToSet(t)
  <2>2. PICK k \in 1 .. Len(t) : x = t[k]
    BY ToSetIs
  <2>3. k + Len(s) \in 1 .. Len(u) /\ k + Len(s) \in 1 .. Len(s) + Len(t) /\ ~(k + Len(s) <= Len(s)) /\ (k + Len(s)) - Len(s) = k
    BY <1>1, <1>2
  <2>4. x = u[k + Len(s)]
    BY <1>1, <1>2, <2>2, <2>3
  <2>. QED
    BY <1>1, <1>2, <2>3, <2>4, ToSetIs
<1>6. t = <<>> => s \o t = s
  BY ConcatEmptySeq
<1>7. t # <<>> => u # <<>> /\ u[Len(u)] = t[Len(t)]
  <2>1. SUFFICES ASSUME t # <<>> PROVE u # <<>> /\ u[Len(u)] = t[Len(t)]
    OBVIOUS
  <2>2. Len(t) # 0
    BY <2>1, EmptySeq
  <2>3. Len(u) \in 1 .. Len(s) + Len(t) /\ ~(Len(u) <= Len(s)) /\ Len(u) - Len(s) = Len(t)
    BY <1>1, <1>2, <2>2
  <2>4. u # <<>>
    BY <1>1, <1>2, <2>2
  <2>. QED
    BY <1>1, <1>2, <2>3, <2>4
<1>. QED
  BY <1>1, <1>2, <1>3, <1>4, <1>5, <1>6, <1>7

\* What was reported and sent stays; only the thread and its notices move.
LEMMA WatchSteps ==
  ASSUME EventsInv, OpenWatch \/ Notice \/ WatchCloses \/ Stop \/ Drain
  PROVE  EventsInv'
<1>1. UNCHANGED <<reported, lines, unwatched, sent, status, delivered, event_service>>
  BY DEF OpenWatch, Notice, WatchCloses, Stop, Drain
<1>2. /\ watcher' \in [at : {"opening", "waiting", "settling", "read", "ended"}, text : Seq(EventIx)]
      /\ noticed' \in BOOLEAN
      /\ watcher'.at \notin {"opening", "read"} /\ watcher.at # "read"
  BY DEF EventsInv, EventsTypeOK, OpenWatch, Notice, WatchCloses, Stop, Drain
<1>3. /\ \A i : HasStatus(i)' = HasStatus(i)
      /\ Reported' = Reported /\ Arrived' = Arrived
  BY <1>1 DEF HasStatus, Reported, Arrived
<1>4. EventsTypeOK'
  BY <1>1, <1>2 DEF EventsInv, EventsTypeOK
<1>5. LinesInv'
  BY <1>1, <1>2, <1>3 DEF EventsInv, LinesInv
<1>6. ArrivedInv'
  BY <1>1, <1>3 DEF EventsInv, ArrivedInv
<1>7. LatestInv'
  BY <1>1, <1>3 DEF EventsInv, LatestInv
<1>8. SeenInv'
  <2>1. watcher.at = "opening" => \A i \in Reported : i \in unwatched
    BY DEF EventsInv, SeenInv
  <2>2. ASSUME NEW i, watcher.at # "opening", Awaited(i) PROVE Awaited(i)'
    BY <1>2, <2>2 DEF Awaited, OpenWatch, Notice, WatchCloses, Stop, Drain, EventsInv, EventsTypeOK
  <2>3. ASSUME NEW i \in Reported, HasStatus(i), i \notin unwatched
        PROVE  i \in Arrived \/ (i \in ToSet(lines) /\ Awaited(i)')
    BY <2>1, <2>2, <2>3 DEF EventsInv, SeenInv
  <2>. QED
    BY <1>1, <1>2, <1>3, <2>3 DEF SeenInv
<1>. QED
  BY <1>4, <1>5, <1>6, <1>7, <1>8 DEF EventsInv

\* A hook appends the last line so far, which the open watch announces.
LEMMA HookKeeps ==
  ASSUME EventsInv, NEW r \in HookReports, Hook(r)
  PROVE  EventsInv'
<1>. DEFINE n == Len(reported) + 1
<1>1. /\ reported \in Seq(Reports) /\ lines \in Seq(EventIx) /\ sent \in Seq(EventIx) /\ r \in Reports
      /\ noticed \in BOOLEAN /\ delivered \in SUBSET EventIx /\ unwatched \in SUBSET EventIx
      /\ watcher.at \in {"opening", "waiting", "settling", "read", "ended"} /\ watcher.text \in Seq(EventIx)
  BY EventsAssumption DEF EventsInv, EventsTypeOK
<1>2. /\ reported' \in Seq(Reports) /\ Len(reported') = n /\ n \in Nat \ {0} /\ Len(reported) \in Nat
      /\ \A i \in 1 .. Len(reported) : reported'[i] = reported[i]
  BY <1>1, AppendProperties DEF Hook
<1>3. n \in EventIx /\ n <= MaxEvents
  BY <1>1, <1>2, EventsAssumption DEF Hook, EventIx
<1>4. /\ lines' \in Seq(EventIx) /\ Len(lines') = Len(lines) + 1 /\ Len(lines) \in Nat
      /\ lines'[Len(lines) + 1] = n /\ \A k \in 1 .. Len(lines) : lines'[k] = lines[k]
  BY <1>1, <1>2, <1>3, AppendProperties DEF Hook
<1>5. ToSet(lines') = ToSet(lines) \cup {n} /\ 1 .. Len(lines') = 1 .. Len(lines) \cup {Len(lines) + 1}
  <2>1. 1 .. Len(lines') = 1 .. Len(lines) \cup {Len(lines) + 1}
    BY <1>4
  <2>2. \A x : x \in ToSet(lines) <=> \E k \in 1 .. Len(lines) : x = lines[k]
    BY <1>1, ToSetIs
  <2>3. \A x : x \in ToSet(lines') <=> \E k \in 1 .. Len(lines') : x = lines'[k]
    BY <1>4, ToSetIs
  <2>4. \A x : x \in ToSet(lines') <=> x \in ToSet(lines) \/ x = n
    BY <1>4, <2>1, <2>2, <2>3
  <2>. QED
    BY <2>1, <2>4
<1>6. UNCHANGED <<watcher, sent, status, delivered, event_service>> /\ Arrived' = Arrived
  BY DEF Hook, Arrived
<1>7. Reported' = Reported \cup {n} /\ n \notin Reported /\ \A i \in Reported : HasStatus(i)' = HasStatus(i) /\ i < n /\ i \in Nat
  BY <1>2 DEF Reported, HasStatus
<1>8. /\ noticed' \in BOOLEAN /\ (noticed => noticed') /\ (watcher.at # "opening" => noticed')
      /\ unwatched' = IF watcher.at = "opening" THEN unwatched \cup {n} ELSE unwatched
  BY <1>1, <1>2 DEF Hook
<1>. HIDE DEF n
<1>9. \A i \in Arrived : i \in Reported /\ HasStatus(i) /\ i \notin unwatched
  BY DEF EventsInv, ArrivedInv
<1>10. EventsTypeOK'
  BY <1>2, <1>3, <1>4, <1>6, <1>8 DEF EventsInv, EventsTypeOK
<1>11. LinesInv'
  <2>1. /\ \A k \in 1 .. Len(lines) : lines[k] \in Reported
        /\ \A j, k \in 1 .. Len(lines) : j < k => lines[j] < lines[k]
    BY DEF EventsInv, LinesInv
  <2>2. \A k \in 1 .. Len(lines') : lines'[k] \in Reported'
    BY <1>4, <1>5, <1>7, <2>1
  <2>3. \A j, k \in 1 .. Len(lines') : j < k => lines'[j] < lines'[k]
    <3>1. SUFFICES ASSUME NEW j \in 1 .. Len(lines'), NEW k \in 1 .. Len(lines'), j < k PROVE lines'[j] < lines'[k]
      OBVIOUS
    <3>2. j \in 1 .. Len(lines)
      BY <1>4, <1>5, <3>1
    <3>3. CASE k \in 1 .. Len(lines)
      BY <1>4, <2>1, <3>1, <3>2, <3>3
    <3>4. CASE k = Len(lines) + 1
      BY <1>4, <1>7, <2>1, <3>2, <3>4
    <3>. QED
      BY <1>5, <3>3, <3>4
  <2>4. ASSUME watcher.at = "read"
        PROVE  /\ Len(watcher.text) <= Len(lines') /\ \A k \in 1 .. Len(watcher.text) : watcher.text[k] = lines'[k]
               /\ \A k \in Len(watcher.text) + 1 .. Len(lines') : lines'[k] \notin Arrived
    <3>1. /\ Len(watcher.text) <= Len(lines) /\ \A k \in 1 .. Len(watcher.text) : watcher.text[k] = lines[k]
          /\ \A k \in Len(watcher.text) + 1 .. Len(lines) : lines[k] \notin Arrived
      BY <2>4 DEF EventsInv, LinesInv
    <3>2. Len(watcher.text) \in Nat
      BY <1>1
    <3>3. n \notin Arrived
      BY <1>7, <1>9
    <3>. QED
      BY <1>4, <3>1, <3>2, <3>3
  <2>. QED
    BY <1>6, <2>2, <2>3, <2>4 DEF LinesInv
<1>12. ArrivedInv'
  <2>1. \A i \in Arrived : i \in Reported' /\ HasStatus(i)' /\ i \notin unwatched'
    BY <1>7, <1>8, <1>9
  <2>2. \A i \in Arrived : i \in ToSet(lines') \/ \A k \in 1 .. Len(lines') : i < lines'[k]
    <3>1. \A i \in Arrived : i \in ToSet(lines) \/ \A k \in 1 .. Len(lines) : i < lines[k]
      BY DEF EventsInv, ArrivedInv
    <3>. QED
      BY <1>4, <1>5, <1>7, <1>9, <3>1
  <2>. QED
    BY <1>6, <2>1, <2>2 DEF ArrivedInv
<1>13. SeenInv'
  <2>1. watcher.at = "opening" => Reported' \subseteq unwatched'
    BY <1>7, <1>8 DEF EventsInv, SeenInv
  <2>2. ASSUME NEW i \in Reported', HasStatus(i)', i \notin unwatched'
        PROVE  i \in Arrived \/ (i \in ToSet(lines') /\ Awaited(i)')
    <3>1. CASE i = n
      BY <1>5, <1>8, <2>2, <3>1 DEF Awaited
    <3>2. CASE i \in Reported
      <4>1. i \in Arrived \/ (i \in ToSet(lines) /\ Awaited(i))
        BY <1>7, <1>8, <2>2, <3>2 DEF EventsInv, SeenInv
      <4>2. Awaited(i) => Awaited(i)'
        BY <1>6, <1>8 DEF Awaited
      <4>. QED
        BY <1>5, <4>1, <4>2
    <3>. QED
      BY <1>7, <3>1, <3>2
  <2>. QED
    BY <1>6, <2>1, <2>2 DEF SeenInv
<1>14. LatestInv'
  <2>1. \A d \in delivered : d \in Arrived /\ d \in 1 .. Len(reported)
    BY <1>9 DEF Arrived, Reported
  <2>2. \A d \in delivered : reported'[d] = reported[d]
    BY <1>2, <2>1
  <2>. QED
    BY <1>6, <2>2 DEF EventsInv, LatestInv
<1>. QED
  BY <1>10, <1>11, <1>12, <1>13, <1>14 DEF EventsInv

\* A read takes what the file holds; one that fails leaves its lines to no one.
LEMMA ReadKeeps ==
  ASSUME EventsInv, ReadFile \/ ReadFails
  PROVE  EventsInv'
<1>1. UNCHANGED <<reported, lines, noticed, sent, status, delivered, event_service>> /\ watcher.at = "settling" /\ ~noticed
  BY DEF ReadFile, ReadFails
<1>2. lines \in Seq(EventIx) /\ <<>> \in Seq(EventIx) /\ unwatched \in SUBSET EventIx
  BY DEF EventsInv, EventsTypeOK
<1>3. /\ \A i : HasStatus(i)' = HasStatus(i)
      /\ Reported' = Reported /\ Arrived' = Arrived
  BY <1>1 DEF HasStatus, Reported, Arrived
<1>4. /\ watcher' \in [at : {"opening", "waiting", "settling", "read", "ended"}, text : Seq(EventIx)]
      /\ watcher'.at # "opening" /\ (watcher'.at = "read" => watcher'.text = lines)
  <2>1. watcher' = [at |-> "waiting", text |-> <<>>] \/ watcher' = [at |-> "read", text |-> lines]
    BY DEF ReadFile, ReadFails
  <2>2. CASE watcher' = [at |-> "waiting", text |-> <<>>]
    BY <1>2, <2>2
  <2>3. CASE watcher' = [at |-> "read", text |-> lines]
    BY <1>2, <2>3
  <2>. QED
    BY <2>1, <2>2, <2>3
<1>5. unwatched' \in SUBSET EventIx /\ unwatched \subseteq unwatched' /\ unwatched' \cap Arrived = {}
  <2>1. ToSet(lines) \subseteq EventIx
    BY <1>2, ToSetIs
  <2>. QED
    BY <1>2, <2>1 DEF ReadFile, ReadFails, EventsInv, ArrivedInv, Arrived
<1>6. EventsTypeOK'
  BY <1>1, <1>4, <1>5 DEF EventsInv, EventsTypeOK
<1>7. LinesInv'
  <2>1. Len(lines) \in Nat
    BY <1>2
  <2>2. watcher'.at = "read" => /\ Len(watcher'.text) <= Len(lines) /\ \A k \in 1 .. Len(watcher'.text) : watcher'.text[k] = lines[k]
                                /\ \A k \in Len(watcher'.text) + 1 .. Len(lines) : lines[k] \notin Arrived
    BY <1>4, <2>1
  <2>. QED
    BY <1>1, <1>3, <2>2 DEF EventsInv, LinesInv
<1>8. ArrivedInv'
  BY <1>1, <1>3, <1>5 DEF EventsInv, ArrivedInv
<1>9. LatestInv'
  BY <1>1, <1>3 DEF EventsInv, LatestInv
<1>10. SeenInv'
  <2>1. ASSUME NEW i \in Reported, HasStatus(i), i \notin unwatched'
        PROVE  i \in Arrived \/ (i \in ToSet(lines) /\ Awaited(i)')
    <3>1. i \in Arrived \/ i \in ToSet(lines)
      BY <1>5, <2>1 DEF EventsInv, SeenInv
    <3>2. CASE ReadFails
      BY <2>1, <3>1, <3>2 DEF ReadFails, Arrived
    <3>3. CASE ReadFile /\ lines # <<>>
      BY <3>1, <3>3 DEF ReadFile, Awaited
    <3>4. CASE lines = <<>>
      <4>1. Len(lines) = 0
        BY <3>4
      <4>3. \A x : x \in ToSet(lines) <=> \E k \in 1 .. Len(lines) : x = lines[k]
        BY <1>2, ToSetIs
      <4>2. i \notin ToSet(lines)
        BY <4>1, <4>3
      <4>. QED
        BY <3>1, <4>2
    <3>. QED
      BY <3>2, <3>3, <3>4
  <2>. QED
    BY <1>1, <1>3, <1>4, <2>1 DEF SeenInv
<1>. QED
  BY <1>6, <1>7, <1>8, <1>9, <1>10 DEF EventsInv

\* The bridge takes the oldest status sent, and the last one taken is the tab's.
LEMMA BridgeKeeps ==
  ASSUME EventsInv, Bridge
  PROVE  EventsInv'
<1>1. /\ sent # <<>> /\ sent' = Tail(sent) /\ delivered' = delivered \cup {Head(sent)}
      /\ UNCHANGED <<reported, lines, noticed, watcher, unwatched, event_service>>
      /\ status' = IF event_service THEN into_status(reported[Head(sent)]) ELSE status
  BY DEF Bridge
<1>2. sent \in Seq(EventIx) /\ delivered \in SUBSET EventIx
  BY DEF EventsInv, EventsTypeOK
<1>3. /\ sent' \in Seq(EventIx) /\ ToSet(sent) = {Head(sent)} \cup ToSet(sent')
      /\ sent' # <<>> => sent'[Len(sent')] = sent[Len(sent)]
      /\ sent' = <<>> => Head(sent) = sent[Len(sent)] /\ ToSet(sent) = {Head(sent)}
  BY <1>1, <1>2, ToSetTail
<1>4. Head(sent) \in Arrived /\ Arrived \subseteq EventIx /\ Arrived' = Arrived
  <2>1. ToSet(sent) \subseteq EventIx
    BY <1>2, ToSetIs
  <2>. QED
    BY <1>1, <1>2, <1>3, <2>1 DEF Arrived
<1>5. /\ \A i : HasStatus(i)' = HasStatus(i)
      /\ Reported' = Reported
  BY <1>1 DEF HasStatus, Reported
<1>6. \A i : Awaited(i)' = Awaited(i)
  BY <1>1 DEF Awaited
<1>7. status' \in Statuses
  <2>1. HasStatus(Head(sent))
    BY <1>4 DEF EventsInv, ArrivedInv
  <2>. QED
    BY <1>1, <2>1 DEF HasStatus, into_status, Statuses, EventsInv, EventsTypeOK
<1>8. EventsTypeOK'
  BY <1>1, <1>2, <1>3, <1>4, <1>7 DEF EventsInv, EventsTypeOK
<1>9. LinesInv' /\ ArrivedInv' /\ SeenInv'
  BY <1>1, <1>4, <1>5, <1>6 DEF EventsInv, LinesInv, ArrivedInv, SeenInv
<1>10. \A i \in Arrived : i <= sent[Len(sent)]
  BY <1>1 DEF EventsInv, LatestInv
<1>11. LatestInv'
  <2>1. CASE sent' # <<>>
    BY <1>3, <1>4, <1>10, <2>1 DEF LatestInv
  <2>2. CASE sent' = <<>>
    <3>1. delivered' = Arrived /\ Head(sent) \in delivered' /\ \A i \in delivered' : i <= Head(sent)
      BY <1>1, <1>3, <1>4, <1>10, <2>2 DEF Arrived
    <3>. QED
      BY <1>1, <2>2, <3>1 DEF LatestInv
  <2>. QED
    BY <2>1, <2>2
<1>. QED
  BY <1>8, <1>9, <1>11 DEF EventsInv

\* A closed tab's status is no longer anyone's to keep.
LEMMA CloseTabKeeps ==
  ASSUME EventsInv, CloseTab
  PROVE  EventsInv'
<1>1. UNCHANGED <<reported, lines, noticed, watcher, unwatched, sent, status, delivered>> /\ event_service' = FALSE
  BY DEF CloseTab
<1>2. /\ \A i : HasStatus(i)' = HasStatus(i) /\ Awaited(i)' = Awaited(i)
      /\ Reported' = Reported /\ Arrived' = Arrived
  BY <1>1 DEF HasStatus, Reported, Arrived, Awaited
<1>. QED
  BY <1>1, <1>2 DEF EventsInv, EventsTypeOK, LinesInv, ArrivedInv, SeenInv, LatestInv

\* The statuses of what was read are sent in the order of the lines, whether or not the file is emptied.
LEMMA SendKeeps ==
  ASSUME EventsInv, NEW emptied \in BOOLEAN, SendStatuses(emptied)
  PROVE  EventsInv'
<1>1. PICK text, new : text = watcher.text /\ new = Parsed(watcher.text)
  OBVIOUS
<1>2. /\ watcher.at = "read" /\ watcher' = [at |-> "waiting", text |-> <<>>] /\ sent' = sent \o new
      /\ \/ emptied /\ lines' = <<>> /\ noticed' = TRUE /\ unwatched' = (unwatched \cup ToSet(lines)) \ ToSet(text)
         \/ ~emptied /\ unwatched' = unwatched \ ToSet(text) /\ UNCHANGED <<lines, noticed>>
      /\ UNCHANGED <<reported, status, delivered, event_service>>
  BY <1>1 DEF SendStatuses
<1>3. /\ lines \in Seq(EventIx) /\ text \in Seq(EventIx) /\ sent \in Seq(EventIx)
      /\ noticed \in BOOLEAN /\ unwatched \in SUBSET EventIx /\ delivered \in SUBSET EventIx
  BY <1>1 DEF EventsInv, EventsTypeOK
<1>4. PickedOf(text, Len(text), new)
  BY <1>1, <1>3, ParsedIs
<1>5. new \in Seq(EventIx)
  BY <1>4 DEF PickedOf
<1>6. /\ \A x : x \in ToSet(lines) <=> \E k \in 1 .. Len(lines) : x = lines[k]
      /\ \A x : x \in ToSet(text) <=> \E k \in 1 .. Len(text) : x = text[k]
      /\ ToSet(lines) \subseteq EventIx /\ Len(lines) \in Nat /\ Len(text) \in Nat
  BY <1>3, ToSetIs
<1>7. \A x : x \in ToSet(new) <=> \E k \in 1 .. Len(new) : x = new[k]
  BY <1>5, ToSetIs
<1>8. /\ Len(text) <= Len(lines) /\ \A k \in 1 .. Len(text) : text[k] = lines[k]
      /\ \A k \in Len(text) + 1 .. Len(lines) : lines[k] \notin Arrived
      /\ \A k \in 1 .. Len(lines) : lines[k] \in Reported
      /\ \A j, k \in 1 .. Len(lines) : j < k => lines[j] < lines[k]
  BY <1>1, <1>2 DEF EventsInv, LinesInv
<1>9. \A x : x \in ToSet(new) <=> x \in ToSet(text) /\ HasStatus(x)
  <2>1. \A j \in 1 .. Len(new) : \E i \in 1 .. Len(text) : new[j] = text[i] /\ HasStatus(text[i])
    BY <1>4 DEF PickedOf
  <2>2. \A i \in 1 .. Len(text) : HasStatus(text[i]) => \E j \in 1 .. Len(new) : new[j] = text[i]
    BY <1>4 DEF PickedOf
  <2>3. ASSUME NEW x \in ToSet(new) PROVE x \in ToSet(text) /\ HasStatus(x)
    BY <1>6, <1>7, <2>1
  <2>4. ASSUME NEW x \in ToSet(text), HasStatus(x) PROVE x \in ToSet(new)
    <3>1. PICK i \in 1 .. Len(text) : x = text[i]
      BY <1>6
    <3>2. PICK j \in 1 .. Len(new) : new[j] = text[i]
      BY <2>2, <2>4, <3>1
    <3>. QED
      BY <1>7, <3>1, <3>2
  <2>. QED
    BY <2>3, <2>4
<1>10. /\ sent' \in Seq(EventIx) /\ ToSet(sent') = ToSet(sent) \cup ToSet(new)
       /\ new = <<>> => sent' = sent
       /\ new # <<>> => sent' # <<>> /\ sent'[Len(sent')] = new[Len(new)]
  BY <1>2, <1>3, <1>5, ToSetConcat
<1>11. Arrived' = Arrived \cup ToSet(new)
  BY <1>2, <1>10 DEF Arrived
<1>12. /\ \A i : HasStatus(i)' = HasStatus(i)
       /\ Reported' = Reported
  BY <1>2 DEF HasStatus, Reported
<1>13. \A x \in ToSet(text) : x \in ToSet(lines)
  BY <1>6, <1>8
<1>14. \A x \in ToSet(lines) : x \in Arrived => x \in ToSet(text)
  <2>1. TAKE x \in ToSet(lines)
  <2>2. PICK k \in 1 .. Len(lines) : x = lines[k]
    BY <1>6
  <2>3. CASE k \in 1 .. Len(text)
    BY <1>6, <1>8, <2>2, <2>3
  <2>4. CASE k \notin 1 .. Len(text)
    BY <1>6, <1>8, <2>2, <2>4
  <2>. QED
    BY <2>3, <2>4
<1>15. /\ \A i \in Arrived : i \in Reported /\ HasStatus(i) /\ i \notin unwatched
       /\ \A i \in Arrived : i \in ToSet(lines) \/ \A k \in 1 .. Len(lines) : i < lines[k]
  BY DEF EventsInv, ArrivedInv
<1>16. <<>> \in Seq(EventIx) /\ Len(<<>>) = 0
  OBVIOUS
<1>17. EventsTypeOK'
  BY <1>2, <1>3, <1>6, <1>10, <1>16 DEF EventsInv, EventsTypeOK
<1>18. LinesInv'
  <2>1. CASE lines' = lines
    BY <1>2, <1>8, <1>12, <2>1 DEF LinesInv
  <2>2. CASE lines' = <<>>
    BY <1>2, <1>16, <2>2 DEF LinesInv
  <2>. QED
    BY <1>2, <2>1, <2>2
<1>19. \A i \in Arrived' : i \in Reported /\ HasStatus(i) /\ i \notin unwatched'
  <2>1. ASSUME NEW i \in Arrived PROVE i \notin unwatched'
    BY <1>2, <1>14, <1>15, <2>1
  <2>2. ASSUME NEW i \in ToSet(new) PROVE i \in Reported /\ HasStatus(i) /\ i \notin unwatched'
    <3>1. i \in ToSet(text) /\ HasStatus(i) /\ i \in ToSet(lines)
      BY <1>9, <1>13, <2>2
    <3>. QED
      BY <1>2, <1>6, <1>8, <3>1
  <2>. QED
    BY <1>11, <1>15, <2>1, <2>2
<1>20. ArrivedInv'
  <2>1. CASE lines' = lines
    BY <1>9, <1>11, <1>12, <1>13, <1>15, <1>19, <2>1 DEF ArrivedInv
  <2>2. CASE lines' = <<>>
    BY <1>12, <1>16, <1>19, <2>2 DEF ArrivedInv
  <2>. QED
    BY <1>2, <2>1, <2>2
<1>21. SeenInv'
  <2>1. ASSUME NEW i \in Reported, HasStatus(i), i \notin unwatched'
        PROVE  i \in Arrived' \/ (i \in ToSet(lines') /\ Awaited(i)')
    <3>1. CASE i \in ToSet(text)
      BY <1>9, <1>11, <2>1, <3>1
    <3>2. CASE i \notin ToSet(text)
      <4>1. i \notin unwatched
        BY <1>2, <2>1, <3>2
      <4>2. i \in Arrived \/ (i \in ToSet(lines) /\ Awaited(i))
        BY <2>1, <4>1 DEF EventsInv, SeenInv
      <4>3. CASE i \in Arrived
        BY <1>11, <4>3
      <4>4. CASE i \in ToSet(lines) /\ Awaited(i)
        <5>1. ~emptied
          BY <1>2, <2>1, <3>2, <4>4
        <5>2. noticed
          BY <1>1, <1>2, <3>2, <4>4 DEF Awaited
        <5>. QED
          BY <1>2, <4>4, <5>1, <5>2 DEF Awaited
      <4>. QED
        BY <4>2, <4>3, <4>4
    <3>. QED
      BY <3>1, <3>2
  <2>2. watcher'.at # "opening"
    BY <1>2
  <2>. QED
    BY <1>12, <2>1, <2>2 DEF SeenInv
<1>22. LatestInv'
  <2>1. CASE new = <<>>
    <3>1. Len(new) = 0
      BY <2>1
    <3>2. ToSet(new) = {}
      BY <1>7, <3>1
    <3>3. Arrived' = Arrived /\ sent' = sent
      BY <1>10, <1>11, <2>1, <3>2
    <3>. QED
      BY <1>2, <3>3 DEF EventsInv, LatestInv
  <2>2. CASE new # <<>>
    <3>1. PICK k \in 1 .. Len(text) : /\ new[Len(new)] = text[k] /\ HasStatus(text[k])
                                      /\ \A j \in k + 1 .. Len(text) : ~HasStatus(text[j])
      BY <1>4, <2>2 DEF PickedOf
    <3>2. k \in 1 .. Len(lines) /\ text[k] = lines[k] /\ text[k] \in Nat
      BY <1>3, <1>6, <1>8, <3>1 DEF EventIx
    <3>3. ASSUME NEW i \in ToSet(text), HasStatus(i) PROVE i <= text[k]
      <4>1. PICK j \in 1 .. Len(text) : i = text[j]
        BY <1>6, <3>3
      <4>2. j <= k
        BY <1>6, <3>1, <3>3, <4>1
      <4>3. j \in 1 .. Len(lines) /\ i = lines[j] /\ (j < k => i < lines[k])
        BY <1>6, <1>8, <3>2, <4>1
      <4>4. CASE j = k
        BY <3>2, <4>1, <4>4
      <4>5. CASE j # k
        <5>1. j < k
          BY <1>6, <4>2, <4>5
        <5>2. i < text[k] /\ i \in Nat
          BY <1>8, <3>2, <4>3, <5>1 DEF Reported
        <5>. QED
          BY <3>2, <5>2
      <4>. QED
        BY <4>4, <4>5
    <3>4. ASSUME NEW i \in Arrived PROVE i <= text[k]
      <4>1. CASE i \in ToSet(lines)
        BY <1>14, <1>15, <3>3, <4>1
      <4>2. CASE i \notin ToSet(lines)
        <5>1. i < lines[k] /\ i \in Nat
          BY <1>15, <3>2, <4>2 DEF Reported
        <5>. QED
          BY <3>2, <5>1
      <4>. QED
        BY <4>1, <4>2
    <3>5. \A i \in Arrived' : i <= text[k]
      BY <1>9, <1>11, <3>3, <3>4
    <3>. QED
      BY <1>10, <2>2, <3>1, <3>5 DEF LatestInv
  <2>. QED
    BY <2>1, <2>2
<1>. QED
  BY <1>17, <1>18, <1>20, <1>21, <1>22 DEF EventsInv

\* At rest every event that was not missed has arrived, and its status is the tab's.
LEMMA RestShowsLatest ==
  ASSUME EventsInv
  PROVE  StatusIsLatest
<1>1. SUFFICES ASSUME AtRest
               PROVE  status = IF Seen = {} THEN "Unknown" ELSE into_status(reported[Max(Seen)])
  BY DEF StatusIsLatest
<1>2. Arrived = delivered
  <2>1. ToSet(<<>>) = {}
    BY DEF ToSet
  <2>. QED
    BY <1>1, <2>1 DEF AtRest, Arrived
<1>3. Seen = delivered
  <2>1. \A i \in delivered : i \in Seen
    BY <1>2 DEF EventsInv, ArrivedInv, Seen, Reported
  <2>2. \A i : ~Awaited(i)
    BY <1>1 DEF AtRest, Awaited
  <2>3. \A i \in Seen : i \in delivered
    BY <1>2, <2>2 DEF EventsInv, SeenInv, Seen, Reported
  <2>. QED
    BY <2>1, <2>3
<1>4. IF delivered = {} THEN status = "Unknown"
      ELSE \E d \in delivered : (\A i \in delivered : i <= d) /\ status = into_status(reported[d])
  BY <1>1 DEF AtRest, EventsInv, LatestInv
<1>5. CASE delivered = {}
  BY <1>3, <1>4, <1>5
<1>6. CASE delivered # {}
  <2>1. PICK d \in delivered : (\A i \in delivered : i <= d) /\ status = into_status(reported[d])
    BY <1>4, <1>6
  <2>2. delivered \subseteq Nat
    BY DEF EventsInv, EventsTypeOK, EventIx
  <2>3. \A x \in delivered : (\A y \in delivered : x >= y) => x = d
    BY <2>1, <2>2
  <2>4. \A y \in delivered : d >= y
    BY <2>1, <2>2
  <2>5. Max(delivered) = d
    BY <2>1, <2>3, <2>4 DEF Max
  <2>. QED
    BY <1>3, <1>6, <2>1, <2>5
<1>. QED
  BY <1>5, <1>6

\* The status of an agent: between two bursts of events the tab shows the status of the last
\* one its hooks reported, for any number of events, batches that are read twice, lines that
\* are no JSON, and reads and truncations that fail (event_watcher.rs).
THEOREM StatusStaysLatest == EventsSpec => []StatusIsLatest
<1>1. EventsInv /\ [EventsNext]_event_vars => EventsInv'
  <2>1. SUFFICES ASSUME EventsInv, [EventsNext]_event_vars PROVE EventsInv'
    OBVIOUS
  <2>2. CASE \E r \in HookReports : Hook(r)
    BY <2>1, <2>2, HookKeeps
  <2>3. CASE OpenWatch \/ Notice \/ WatchCloses \/ Stop \/ Drain
    BY <2>1, <2>3, WatchSteps
  <2>4. CASE ReadFile \/ ReadFails
    BY <2>1, <2>4, ReadKeeps
  <2>5. CASE \E e \in BOOLEAN : SendStatuses(e)
    BY <2>1, <2>5, SendKeeps
  <2>6. CASE Bridge
    BY <2>1, <2>6, BridgeKeeps
  <2>7. CASE CloseTab
    BY <2>1, <2>7, CloseTabKeeps
  <2>8. CASE UNCHANGED event_vars
    <3>1. UNCHANGED <<reported, lines, noticed, watcher, unwatched, sent, status, delivered, event_service>>
      BY <2>8 DEF event_vars
    <3>2. /\ \A i : HasStatus(i)' = HasStatus(i) /\ Awaited(i)' = Awaited(i)
          /\ Reported' = Reported /\ Arrived' = Arrived
      BY <3>1 DEF HasStatus, Reported, Arrived, Awaited
    <3>. QED
      BY <2>1, <3>1, <3>2 DEF EventsInv, EventsTypeOK, LinesInv, ArrivedInv, SeenInv, LatestInv
  <2>. QED
    BY <2>1, <2>2, <2>3, <2>4, <2>5, <2>6, <2>7, <2>8 DEF EventsNext, WatcherStep
<1>. QED
  BY <1>1, EventsInvInit, RestShowsLatest, PTL DEF EventsSpec

-----------------------------------------------------------------------------
(* TerminalView                                                            *)

Terms == [top : Int, off : Int, kept : Int, sel : Int, mode : SUBSET Modes]
Events == [what : {"scroll", "set", "update"}, line : Int, meant : Int]

\* A point in the queue is on the line it was meant for, but for the lines printed since the frame.
Near(e) == e.what # "scroll" /\ e.meant # NoLine => term.top + e.line - e.meant \in 0 .. term.top - drawn.top
PointsInv == \A n \in 1 .. Len(state.events) : Near(state.events[n])

WheelInv == wheel \in [owed : Int, cut : Int, over : BOOLEAN] /\ WheelIsConserved

TerminalInv ==
  /\ term \in Terms
  /\ state \in [events : Seq(Events), content_mode : SUBSET Modes, phase : {"None", "Selecting", "Selected"}, scroll_px : Int]
  /\ drawn \in [top : Int, off : Int]
  /\ PointsInv /\ WheelInv

\* A number kept between two others is a number.
LEMMA BetweenIs ==
  ASSUME NEW low \in Int, NEW n \in Int, NEW high \in Int
  PROVE  Between(low, n, high) \in Int
BY DEF Between

\* An event leaves the screen where it is; only a selection moves the selection.
LEMMA AppliedIs ==
  ASSUME NEW t \in Terms, NEW e \in Events
  PROVE  /\ Applied(t, e) \in Terms /\ Applied(t, e).top = t.top
         /\ e.what = "scroll" => Applied(t, e).sel = t.sel
         /\ e.what # "scroll" => Applied(t, e).sel = t.top + e.line \/ (Applied(t, e).sel = t.sel /\ t.sel = NoLine)
<1>1. CASE e.what = "scroll"
  <2>1. PICK off : off = Between(0, t.off + e.line, IF "alt" \in t.mode THEN 0 ELSE t.top)
    OBVIOUS
  <2>2. off \in Int
    <3>1. PICK high : high = IF "alt" \in t.mode THEN 0 ELSE t.top
      OBVIOUS
    <3>2. high \in Int /\ t.off + e.line \in Int
      BY <3>1 DEF Terms, Events
    <3>3. off = Between(0, t.off + e.line, high)
      BY <2>1, <3>1
    <3>. QED
      BY <3>2, <3>3 DEF Between
  <2>3. Applied(t, e) = [t EXCEPT !.off = off]
    BY <1>1, <2>1 DEF Applied, ScrollDisplay
  <2>. QED
    BY <1>1, <2>2, <2>3 DEF Terms
<1>2. CASE e.what # "scroll"
  <2>1. t.top + e.line \in Int
    BY DEF Terms, Events
  <2>2. e.what \in {"set", "update"}
    BY <1>2 DEF Events
  <2>3. CASE e.what = "set" \/ t.sel # NoLine
    <3>1. Applied(t, e) = [t EXCEPT !.sel = t.top + e.line]
      BY <1>2, <2>2, <2>3 DEF Applied
    <3>. QED
      BY <1>2, <2>1, <3>1 DEF Terms
  <2>4. CASE e.what # "set" /\ t.sel = NoLine
    <3>1. Applied(t, e) = t
      BY <1>2, <2>2, <2>4 DEF Applied
    <3>. QED
      BY <1>2, <2>4, <3>1
  <2>. QED
    BY <2>3, <2>4
<1>. QED
  BY <1>1, <1>2

\* What the loop of sync() has made of the terminal after each event.
LEMMA SyncIs ==
  ASSUME TerminalInv
  PROVE  /\ \A n \in 0 .. Len(state.events) : sync[n] \in Terms
         /\ sync[0] = term
         /\ \A n \in 1 .. Len(state.events) : sync[n] = Applied(sync[n - 1], state.events[n])
<1>. DEFINE m == Len(state.events)
            Body(f, n) == IF n = 0 THEN term ELSE Applied(f[n - 1], state.events[n])
            step == [n \in 1 .. m |-> [v \in Terms |-> Applied(v, state.events[n])]]
<1>1. m \in Nat /\ term \in Terms /\ \A n \in 1 .. m : state.events[n] \in Events
  BY DEF TerminalInv
<1>2. \A n \in 1 .. m : step[n] \in [Terms -> Terms] /\ \A v \in Terms : step[n][v] = Applied(v, state.events[n])
  BY <1>1, AppliedIs
<1>3. step \in [1 .. m -> [Terms -> Terms]]
  BY <1>2
<1>4. \E f : Follows(f, m, Terms, term, step)
  <2>. HIDE DEF m, step
  <2>1. Steps(m, Terms, term, step)
    BY <1>1, <1>3 DEF Steps
  <2>. QED
    BY <2>1, StepByStep
<1>5. PICK f \in [0 .. m -> Terms] : f[0] = term /\ \A n \in 1 .. m : f[n] = step[n][f[n - 1]]
  BY <1>4 DEF Follows
<1>6. \A n \in 0 .. m : f[n] = Body(f, n)
  <2>. HIDE DEF step, m
  <2>1. \A n \in 1 .. m : n - 1 \in 0 .. m /\ n # 0
    BY <1>1
  <2>2. \A n \in 1 .. m : f[n] = Applied(f[n - 1], state.events[n])
    BY <1>2, <1>5, <2>1
  <2>3. 0 .. m = {0} \cup 1 .. m
    BY <1>1
  <2>. QED
    BY <1>5, <2>1, <2>2, <2>3
<1>7. f = [n \in 0 .. m |-> Body(f, n)]
  <2>. HIDE DEF Body, m
  <2>. QED
    BY <1>6
<1>8. sync = [n \in 0 .. m |-> Body(sync, n)]
  BY <1>7, Zenon DEF sync
<1>. HIDE DEF step
<1>9. sync[0] = term /\ \A n \in 1 .. m : sync[n] = Applied(sync[n - 1], state.events[n])
  <2>1. 0 \in 0 .. m /\ \A n \in 1 .. m : n # 0 /\ n \in 0 .. m
    BY <1>1
  <2>2. \A n \in 0 .. m : sync[n] = Body(sync, n)
    BY <1>8
  <2>. QED
    BY <2>1, <2>2
<1>. HIDE DEF m
<1>. DEFINE S == {n \in 0 .. m : sync[n] \in Terms}
<1>10. 0 \in S
  BY <1>1, <1>9
<1>11. ASSUME NEW n \in 0 .. m - 1, n \in S PROVE n + 1 \in S
  <2>1. n + 1 \in 1 .. m /\ n + 1 \in 0 .. m /\ (n + 1) - 1 = n /\ sync[n] \in Terms
    BY <1>1, <1>11
  <2>2. sync[n + 1] = Applied(sync[n], state.events[n + 1])
    BY <1>9, <2>1
  <2>. QED
    BY <1>1, <2>1, <2>2, AppliedIs
<1>12. \A n \in 0 .. m : n \in S
  <2>. HIDE DEF S
  <2>. QED
    BY <1>1, <1>10, <1>11, UpTo
<1>. QED
  BY <1>9, <1>12 DEF m

\* The loop leaves the top line where it is, and wheel events after a point leave the selection.
LEMMA SyncKeepsTop ==
  ASSUME TerminalInv
  PROVE  \A n \in 0 .. Len(state.events) : sync[n].top = term.top
<1>. DEFINE m == Len(state.events)
            S == {n \in 0 .. m : sync[n].top = term.top}
<1>1. m \in Nat /\ \A n \in 1 .. m : state.events[n] \in Events
  BY DEF TerminalInv
<1>2. 0 \in S
  BY <1>1, SyncIs
<1>3. ASSUME NEW n \in 0 .. m - 1, n \in S PROVE n + 1 \in S
  <2>1. n + 1 \in 1 .. m /\ n + 1 \in 0 .. m /\ n \in 0 .. m /\ (n + 1) - 1 = n /\ sync[n].top = term.top
    BY <1>1, <1>3
  <2>2. sync[n + 1] = Applied(sync[n], state.events[n + 1]) /\ sync[n] \in Terms
    BY <2>1, SyncIs
  <2>. QED
    BY <1>1, <2>1, <2>2, AppliedIs
<1>4. \A n \in 0 .. m : n \in S
  <2>. HIDE DEF S, m
  <2>. QED
    BY <1>1, <1>2, <1>3, UpTo
<1>. QED
  BY <1>4

\* The events after the last point of a selection turn the wheel, which leaves the selection.
LEMMA WheelKeepsSelection ==
  ASSUME TerminalInv, NEW n \in LastPoint
  PROVE  sync[Len(state.events)].sel = sync[n].sel
<1>. DEFINE m == Len(state.events)
            S == {j \in 0 .. m - n : sync[n + j].sel = sync[n].sel}
<1>1. m \in Nat /\ n \in 1 .. m /\ \A k \in 1 .. m : state.events[k] \in Events
  BY DEF TerminalInv, LastPoint
<1>2. \A k \in n + 1 .. m : state.events[k].what = "scroll"
  BY DEF LastPoint
<1>. HIDE DEF m
<1>3. 0 \in S
  <2>1. n + 0 = n
    BY <1>1
  <2>. QED
    BY <1>1, <2>1
<1>4. ASSUME NEW j \in 0 .. (m - n) - 1, j \in S PROVE j + 1 \in S
  <2>1. PICK k : k = n + j
    OBVIOUS
  <2>2. k + 1 \in 1 .. m /\ k \in 0 .. m /\ (k + 1) - 1 = k /\ k + 1 \in n + 1 .. m /\ k + 1 = n + (j + 1) /\ j + 1 \in 0 .. m - n
    BY <1>1, <1>4, <2>1
  <2>3. sync[k].sel = sync[n].sel
    BY <1>4, <2>1
  <2>4. sync[k + 1] = Applied(sync[k], state.events[k + 1]) /\ sync[k] \in Terms
    BY <2>2, SyncIs DEF m
  <2>5. sync[k + 1].sel = sync[n].sel
    BY <1>1, <1>2, <2>2, <2>3, <2>4, AppliedIs
  <2>. QED
    BY <2>2, <2>5
<1>5. \A j \in 0 .. m - n : j \in S
  <2>1. m - n \in Nat
    BY <1>1
  <2>. HIDE DEF S
  <2>. QED
    BY <1>3, <1>4, <2>1, UpTo
<1>6. m - n \in 0 .. m - n /\ n + (m - n) = m
  BY <1>1
<1>. QED
  BY <1>5, <1>6 DEF m

\* What is selected is what the pointer was over, or as far below as the program has printed.
LEMMA PointsAreDrawn ==
  ASSUME TerminalInv
  PROVE  SelectionEndsUnderPointer
<1>1. SUFFICES ASSUME sync[Len(state.events)].sel # NoLine, NEW n \in LastPoint, state.events[n].meant # NoLine
               PROVE  sync[Len(state.events)].sel - state.events[n].meant \in 0 .. term.top - drawn.top
  BY DEF SelectionEndsUnderPointer
<1>2. n \in 1 .. Len(state.events) /\ state.events[n] \in Events /\ state.events[n].what # "scroll" /\ Len(state.events) \in Nat
  BY DEF LastPoint, TerminalInv
<1>3. n - 1 \in 0 .. Len(state.events)
  BY <1>2
<1>4. sync[n] = Applied(sync[n - 1], state.events[n]) /\ sync[n - 1] \in Terms /\ sync[n - 1].top = term.top
  BY <1>2, <1>3, SyncIs, SyncKeepsTop
<1>5. sync[n].sel = sync[Len(state.events)].sel
  BY WheelKeepsSelection
<1>6. sync[n].sel = term.top + state.events[n].line
  BY <1>1, <1>2, <1>4, <1>5, AppliedIs
<1>7. Near(state.events[n])
  BY <1>2 DEF TerminalInv, PointsInv
<1>8. term.top + state.events[n].line - state.events[n].meant \in 0 .. term.top - drawn.top
  BY <1>1, <1>2, <1>7 DEF Near
<1>9. PICK sel, line, meant, top, seen : /\ sel = sync[Len(state.events)].sel /\ line = state.events[n].line
                                         /\ meant = state.events[n].meant /\ top = term.top /\ seen = drawn.top
  OBVIOUS
<1>10. sel = top + line /\ top + line - meant \in 0 .. top - seen /\ {line, meant, top, seen} \subseteq Int
  BY <1>2, <1>5, <1>6, <1>8, <1>9 DEF TerminalInv, Terms, Events
<1>11. sel - meant \in 0 .. top - seen
  BY <1>10
<1>. QED
  BY <1>9, <1>11

-----------------------------------------------------------------------------
(* The wheel *)

\* A quotient and its remainder, towards zero: the remainder is less than the divisor.
LEMMA QuotIs ==
  ASSUME NEW a \in Int, NEW b \in Nat \ {0}
  PROVE  /\ Quot(a, b) \in Int /\ a - Quot(a, b) * b \in 1 - b .. b - 1
         /\ a \in 1 - b .. b - 1 => Quot(a, b) = 0
<1>1. ASSUME NEW n \in Nat PROVE /\ n \div b \in Nat /\ n - (n \div b) * b \in 0 .. b - 1 /\ (n < b => n \div b = 0)
  <2>1. n \div b \in Nat /\ n % b \in 0 .. b - 1 /\ n = b * (n \div b) + (n % b)
    OBVIOUS
  <2>2. n < b => n \div b = 0
    OBVIOUS
  <2>. QED
    BY <2>1, <2>2
<1>2. CASE a < 0
  <2>1. PICK q : q = (-a) \div b
    OBVIOUS
  <2>2. q \in Nat /\ (-a) - q * b \in 0 .. b - 1 /\ (-a < b => q = 0)
    BY <1>1, <1>2, <2>1
  <2>3. Quot(a, b) = -q
    BY <1>2, <2>1 DEF Quot
  <2>4. (-q) * b = -(q * b)
    BY <2>2
  <2>. QED
    BY <1>2, <2>2, <2>3, <2>4
<1>3. CASE ~(a < 0)
  <2>1. Quot(a, b) = a \div b
    BY <1>3 DEF Quot
  <2>2. a \in Nat
    BY <1>3
  <2>. QED
    BY <1>1, <2>1, <2>2
<1>. QED
  BY <1>2, <1>3

\* One wheel event turns whole lines and keeps the rest, less the view heights of the modulo; while
\* it takes none, the rest is less than a line.
LEMMA ScrollsIs ==
  ASSUME NEW d \in Int, state.scroll_px \in Int
  PROVE  /\ Scrolls(d).lines \in Int /\ Scrolls(d).px \in Int /\ Scrolls(d).heights \in Int
         /\ Scrolls(d).px = state.scroll_px + d - Scrolls(d).heights * ViewHeight - Scrolls(d).lines * CellHeight
         /\ Scrolls(d).heights = 0 /\ state.scroll_px \in 1 - CellHeight .. CellHeight - 1
              => Scrolls(d).px \in 1 - CellHeight .. CellHeight - 1
<1>1. CellHeight \in Nat \ {0} /\ ViewHeight \in Nat \ {0}
  <2>1. PICK h, r, v : h = CellHeight /\ r = TermRows /\ v = ViewHeight
    OBVIOUS
  <2>2. r \in Nat \ {0} /\ h \in Nat \ {0} /\ v \in Nat /\ v >= r * h
    BY <2>1, WheelAssumption
  <2>3. r * h \in Nat \ {0}
    BY <2>2
  <2>. QED
    BY <2>1, <2>2, <2>3
<1>2. PICK px, new, old, heights : /\ px = state.scroll_px + d /\ new = Quot(px, CellHeight)
                                  /\ old = Quot(state.scroll_px, CellHeight) /\ heights = Quot(px, ViewHeight)
  OBVIOUS
<1>3. px \in Int /\ new \in Int /\ old \in Int /\ heights \in Int
  <2>1. px \in Int /\ state.scroll_px \in Int
    BY <1>2
  <2>2. Quot(px, CellHeight) \in Int /\ Quot(state.scroll_px, CellHeight) \in Int /\ Quot(px, ViewHeight) \in Int
    BY <1>1, <2>1, QuotIs
  <2>. QED
    BY <1>2, <2>1, <2>2
<1>4. Scrolls(d) = [lines |-> new - old, px |-> Rem(px, ViewHeight) - (new - old) * CellHeight, heights |-> heights]
  BY <1>2 DEF Scrolls
<1>5. PICK cut, turned : cut = heights * ViewHeight /\ turned = (new - old) * CellHeight
  OBVIOUS
<1>6. cut \in Int /\ turned \in Int
  BY <1>1, <1>3, <1>5
<1>7. Rem(px, ViewHeight) = px - cut
  <2>1. ViewHeight * heights = heights * ViewHeight
    BY <1>1, <1>3
  <2>. QED
    BY <1>2, <1>5, <2>1 DEF Rem
<1>8. Scrolls(d).px = px - cut - turned /\ Scrolls(d).lines = new - old /\ Scrolls(d).heights = heights
  BY <1>4, <1>5, <1>7
<1>9. Scrolls(d).px = state.scroll_px + d - Scrolls(d).heights * ViewHeight - Scrolls(d).lines * CellHeight
  BY <1>2, <1>5, <1>8
<1>10. ASSUME heights = 0, state.scroll_px \in 1 - CellHeight .. CellHeight - 1
       PROVE  Scrolls(d).px \in 1 - CellHeight .. CellHeight - 1
  <2>1. old = 0
    <3>1. Quot(state.scroll_px, CellHeight) = 0
      BY <1>1, <1>10, QuotIs
    <3>. QED
      BY <1>2, <3>1
  <2>5. cut = 0
    <3>1. 0 * ViewHeight = 0
      BY <1>1
    <3>. QED
      BY <1>5, <1>10, <3>1
  <2>2. px - new * CellHeight \in 1 - CellHeight .. CellHeight - 1
    BY <1>1, <1>2, <1>3, QuotIs
  <2>3. new - old = new
    BY <1>3, <2>1
  <2>4. turned = new * CellHeight
    BY <1>5, <2>3
  <2>. QED
    BY <1>3, <1>6, <1>8, <2>2, <2>4, <2>5
<1>. QED
  BY <1>3, <1>6, <1>8, <1>9, <1>10

-----------------------------------------------------------------------------
(* The events of the terminal *)

\* It starts with nothing queued and nothing selected.
LEMMA TerminalInvInit == TerminalInit => TerminalInv
<1>1. SUFFICES ASSUME TerminalInit PROVE TerminalInv
  OBVIOUS
<1>2. <<>> \in Seq(Events) /\ Len(<<>>) = 0 /\ NoLine \in Int /\ CellHeight \in Nat \ {0} /\ ViewHeight \in Nat
  BY WheelAssumption DEF NoLine
<1>3. term \in Terms /\ drawn \in [top : Int, off : Int]
  BY <1>1, <1>2 DEF TerminalInit, Terms
<1>4. state \in [events : Seq(Events), content_mode : SUBSET Modes, phase : {"None", "Selecting", "Selected"}, scroll_px : Int]
  BY <1>1, <1>2 DEF TerminalInit
<1>5. PointsInv
  BY <1>1, <1>2 DEF TerminalInit, PointsInv
<1>6. WheelInv
  <2>1. 0 * ViewHeight = 0
    BY <1>2
  <2>. QED
    BY <1>1, <1>2, <2>1 DEF TerminalInit, WheelInv, WheelIsConserved
<1>. QED
  BY <1>3, <1>4, <1>5, <1>6 DEF TerminalInv

\* What moves neither scroll_px nor the wheel keeps them together.
LEMMA WheelStays ==
  ASSUME TerminalInv, wheel' = wheel, state'.scroll_px = state.scroll_px
  PROVE  WheelInv'
BY DEF TerminalInv, WheelInv, WheelIsConserved

\* What only moves the emulator, and prints one line at most.
LEMMA TermOnly ==
  ASSUME TerminalInv, term' \in Terms, term'.top \in {term.top, term.top + 1}, UNCHANGED <<state, drawn, wheel>>
  PROVE  TerminalInv'
<1>1. WheelInv'
  BY WheelStays
<1>2. PointsInv'
  <2>1. term.top \in Int /\ drawn.top \in Int /\ drawn'.top = drawn.top
    BY DEF TerminalInv, Terms
  <2>2. ASSUME NEW n \in 1 .. Len(state.events) PROVE Near(state.events[n])'
    <3>1. PICK e : e = state.events[n]
      OBVIOUS
    <3>2. e \in Events /\ Near(e) /\ state'.events[n] = e
      BY <3>1 DEF TerminalInv, PointsInv
    <3>3. e.line \in Int /\ e.meant \in Int /\ NoLine' = NoLine
      BY <3>2 DEF Events, NoLine
    <3>4. e.what # "scroll" /\ e.meant # NoLine => term'.top + e.line - e.meant \in 0 .. term'.top - drawn'.top
      <4>1. SUFFICES ASSUME e.what # "scroll", e.meant # NoLine
                     PROVE  term'.top + e.line - e.meant \in 0 .. term'.top - drawn'.top
        OBVIOUS
      <4>2. PICK old, new, line, meant, top : old = term.top /\ new = term'.top /\ line = e.line /\ meant = e.meant /\ top = drawn.top
        OBVIOUS
      <4>3. old + line - meant \in 0 .. old - top
        BY <3>2, <4>1, <4>2 DEF Near
      <4>4. old \in Int /\ line \in Int /\ meant \in Int /\ top \in Int /\ new \in {old, old + 1}
        BY <2>1, <3>3, <4>2
      <4>5. new + line - meant \in 0 .. new - top
        BY <4>3, <4>4
      <4>. QED
        BY <2>1, <4>2, <4>5
    <3>. QED
      BY <3>1, <3>2, <3>3, <3>4 DEF Near
  <2>. QED
    BY <2>2 DEF PointsInv
<1>. QED
  BY <1>1, <1>2 DEF TerminalInv

\* Output, a key, the scrollbar and the end of the setup leave the queue and what is owed to the wheel.
LEMMA OutputKeeps ==
  ASSUME TerminalInv, ProcessBytes \/ OnKeyDown \/ ScrollbarMoves \/ TuiOrDeadline
  PROVE  TerminalInv'
<1>1. UNCHANGED <<state, drawn, wheel>>
  BY DEF ProcessBytes, OnKeyDown, ScrollbarMoves, TuiOrDeadline, SetupGivesWay
<1>2. term \in Terms
  BY DEF TerminalInv
<1>3. ASSUME NEW off \in Int PROVE [term EXCEPT !.off = off] \in Terms /\ [term EXCEPT !.off = off].top = term.top
  BY <1>2 DEF Terms
<1>4. CASE ProcessBytes
  <2>1. PrintsLine(term) \in Terms /\ PrintsLine(term).top = term.top + 1
    <3>1. PICK top, off : top = term.top + 1 /\ off = IF term.off = 0 THEN 0 ELSE term.off + 1
      OBVIOUS
    <3>2. top \in Int /\ off \in Int
      BY <1>2, <3>1 DEF Terms
    <3>3. PrintsLine(term) = [term EXCEPT !.top = top, !.off = off]
      BY <1>2, <3>1 DEF PrintsLine, Terms
    <3>. QED
      BY <1>2, <3>1, <3>2, <3>3 DEF Terms
  <2>2. ASSUME NEW m \in Modes PROVE Switches(term, m) \in Terms /\ Switches(term, m).top = term.top
    <3>1. NoLine \in Int
      BY WheelAssumption DEF NoLine
    <3>2. PICK mode : mode = IF m \in term.mode THEN term.mode \ {m} ELSE term.mode \cup {m}
      OBVIOUS
    <3>3. mode \in SUBSET Modes
      BY <1>2, <3>2 DEF Terms
    <3>4. Switches(term, m) = IF m = "alt" THEN [term EXCEPT !.mode = mode, !.off = term.kept, !.kept = term.off, !.sel = NoLine] ELSE [term EXCEPT !.mode = mode]
      BY <3>2 DEF Switches
    <3>5. PICK off, other, none : off = term.kept /\ other = term.off /\ none = NoLine
      OBVIOUS
    <3>7. off \in Int /\ other \in Int /\ none \in Int
      BY <1>2, <3>1, <3>5 DEF Terms
    <3>8. /\ [term EXCEPT !.mode = mode, !.off = off, !.kept = other, !.sel = none] \in Terms
          /\ [term EXCEPT !.mode = mode, !.off = off, !.kept = other, !.sel = none].top = term.top
      <4>1. PICK t : t = [term EXCEPT !.mode = mode]
        OBVIOUS
      <4>2. t \in Terms /\ t.top = term.top
        BY <1>2, <3>3, <4>1 DEF Terms
      <4>3. PICK u : u = [t EXCEPT !.off = off]
        OBVIOUS
      <4>4. u \in Terms /\ u.top = t.top
        BY <3>7, <4>2, <4>3 DEF Terms
      <4>5. PICK v : v = [u EXCEPT !.kept = other]
        OBVIOUS
      <4>6. v \in Terms /\ v.top = u.top
        BY <3>7, <4>4, <4>5 DEF Terms
      <4>7. PICK w : w = [v EXCEPT !.sel = none]
        OBVIOUS
      <4>8. w \in Terms /\ w.top = v.top
        BY <3>7, <4>6, <4>7 DEF Terms
      <4>9. w = [term EXCEPT !.mode = mode, !.off = off, !.kept = other, !.sel = none]
        BY <4>1, <4>3, <4>5, <4>7, Zenon
      <4>. QED
        BY <4>2, <4>4, <4>6, <4>8, <4>9, Zenon
    <3>6. [term EXCEPT !.mode = mode] \in Terms /\ [term EXCEPT !.mode = mode].top = term.top
      BY <1>2, <3>3 DEF Terms
    <3>. QED
      BY <3>4, <3>5, <3>6, <3>8
  <2>3. term' \in Terms /\ term'.top \in {term.top, term.top + 1}
    BY <1>2, <1>4, <2>1, <2>2 DEF ProcessBytes, SwitchesMode
  <2>. QED
    BY <1>1, <2>3, TermOnly
<1>5. CASE OnKeyDown \/ ScrollbarMoves
  <2>1. \E off \in Int : term' = [term EXCEPT !.off = off]
    BY <1>2, <1>5 DEF OnKeyDown, ScrollbarMoves, Terms
  <2>. QED
    BY <1>1, <1>3, <2>1, TermOnly
<1>6. CASE TuiOrDeadline
  BY <1>1, <1>2, <1>6, TermOnly DEF TuiOrDeadline, SetupGivesWay
<1>. QED
  BY <1>4, <1>5, <1>6

\* A frame empties the queue.
LEMMA FrameKeeps ==
  ASSUME TerminalInv, RenderFrame
  PROVE  TerminalInv'
<1>1. PICK synced : synced = sync[Len(state.events)]
  OBVIOUS
<1>2. synced \in Terms
  <2>1. Len(state.events) \in 0 .. Len(state.events)
    BY DEF TerminalInv
  <2>. QED
    BY <1>1, <2>1, SyncIs
<1>3. /\ term' = [synced EXCEPT !.sel = IF @ = NoLine THEN NoLine ELSE 0]
      /\ state' = [state EXCEPT !.events = <<>>, !.content_mode = synced.mode]
      /\ drawn' = [top |-> synced.top, off |-> synced.off] /\ wheel' = wheel
  BY <1>1 DEF RenderFrame
<1>4. NoLine \in Int /\ <<>> \in Seq(Events) /\ Len(<<>>) = 0
  BY WheelAssumption DEF NoLine
<1>5. term' \in Terms /\ drawn' \in [top : Int, off : Int]
  BY <1>2, <1>3, <1>4 DEF Terms
<1>6. /\ state' \in [events : Seq(Events), content_mode : SUBSET Modes, phase : {"None", "Selecting", "Selected"}, scroll_px : Int]
      /\ state'.scroll_px = state.scroll_px /\ state'.events = <<>>
  BY <1>2, <1>3, <1>4 DEF Terms, TerminalInv
<1>7. PointsInv' /\ WheelInv'
  BY <1>3, <1>4, <1>6, WheelStays DEF PointsInv
<1>. QED
  BY <1>5, <1>6, <1>7 DEF TerminalInv

\* A point is where the emulator has it, near the line it means.
Sound(e) == e \in Events /\ Near(e)

\* A point of a selection is an event that says where the pointer was.
LEMMA PointIsSound ==
  ASSUME TerminalInv, NEW y \in Int, NEW what \in {"set", "update"}
  PROVE  Sound(PointAt(what, y))
<1>1. PICK row : row = Between(0, y, TermRows - 1)
  OBVIOUS
<1>2. row \in Int /\ NoLine \in Int
  BY <1>1, WheelAssumption DEF Between, NoLine
<1>3. term \in Terms /\ drawn \in [top : Int, off : Int]
  BY DEF TerminalInv
<1>4. PointAt(what, y) = [what |-> what, line |-> row - term.off, meant |-> IF Steady THEN drawn.top + row - drawn.off ELSE NoLine]
  BY <1>1 DEF PointAt, pixel_to_grid, SeenLine
<1>5. Steady => term.top + (row - term.off) - (drawn.top + row - drawn.off) \in 0 .. term.top - drawn.top
  BY <1>2, <1>3 DEF Steady, Terms
<1>. QED
  BY <1>2, <1>3, <1>4, <1>5 DEF Sound, Near, Events, Terms

\* A turn of the wheel is an event without a point.
LEMMA ScrollIsSound ==
  ASSUME TerminalInv, NEW count \in Int
  PROVE  Sound(Scrolled(count))
BY WheelAssumption DEF Sound, Near, Scrolled, Events, NoLine

\* Sound events that are queued keep the queue sound.
LEMMA QueueingKeeps ==
  ASSUME TerminalInv, NEW new \in Seq(Events), \A n \in 1 .. Len(new) : Sound(new[n]),
         NEW px \in Int, NEW phase \in {"None", "Selecting", "Selected"},
         state' = [state EXCEPT !.events = @ \o new, !.phase = phase, !.scroll_px = px],
         WheelInv', UNCHANGED <<term, drawn>>
  PROVE  TerminalInv'
<1>1. PICK old, longer : old = state.events /\ longer = old \o new
  OBVIOUS
<1>2. old \in Seq(Events)
  BY <1>1 DEF TerminalInv
<1>3. /\ longer \in Seq(Events) /\ Len(longer) = Len(old) + Len(new) /\ Len(old) \in Nat /\ Len(new) \in Nat
      /\ \A n \in 1 .. Len(old) + Len(new) : longer[n] = IF n <= Len(old) THEN old[n] ELSE new[n - Len(old)]
  BY <1>1, <1>2, ConcatProperties
<1>4. /\ state' \in [events : Seq(Events), content_mode : SUBSET Modes, phase : {"None", "Selecting", "Selected"}, scroll_px : Int]
      /\ state'.events = longer /\ state'.scroll_px = px
  BY <1>1, <1>3 DEF TerminalInv
<1>5. ASSUME NEW n \in 1 .. Len(longer)
      PROVE  Near(longer[n])
  <2>1. CASE n <= Len(old)
    <3>1. n \in 1 .. Len(old) /\ longer[n] = old[n]
      BY <1>3, <2>1
    <3>. QED
      BY <1>1, <3>1 DEF TerminalInv, PointsInv
  <2>2. CASE ~(n <= Len(old))
    <3>1. PICK k : k = n - Len(old)
      OBVIOUS
    <3>2. k \in 1 .. Len(new) /\ longer[n] = new[k]
      BY <1>3, <2>2, <3>1
    <3>3. Sound(new[k])
      BY <3>2
    <3>. QED
      BY <3>2, <3>3 DEF Sound
  <2>. QED
    BY <2>1, <2>2
<1>6. PointsInv'
  <2>1. state'.events = longer
    BY <1>4
  <2>. QED
    BY <1>5, <2>1 DEF PointsInv, Near
<1>. QED
  BY <1>4, <1>6 DEF TerminalInv

\* One event is a queue of one.
LEMMA OneIsSeq ==
  ASSUME NEW e \in Events
  PROVE  <<e>> \in Seq(Events) /\ Len(<<e>>) = 1 /\ <<e>>[1] = e
OBVIOUS

\* Two events are a queue of two.
LEMMA TwoAreSeq ==
  ASSUME NEW e \in Events, NEW f \in Events
  PROVE  <<e>> \o <<f>> \in Seq(Events) /\ Len(<<e>> \o <<f>>) = 2 /\ (<<e>> \o <<f>>)[1] = e /\ (<<e>> \o <<f>>)[2] = f
OBVIOUS

\* What the handlers keep in the state.
LEMMA StateIs ==
  ASSUME TerminalInv
  PROVE  state.events \in Seq(Events) /\ state.phase \in {"None", "Selecting", "Selected"} /\ state.scroll_px \in Int
BY DEF TerminalInv

\* The state with more events, as handlers write it that queue and change nothing else.
LEMMA QueueIs ==
  ASSUME TerminalInv, NEW new \in Seq(Events)
  PROVE  [state EXCEPT !.events = @ \o new] = [state EXCEPT !.events = @ \o new, !.phase = state.phase, !.scroll_px = state.scroll_px]
BY DEF TerminalInv

\* One event more at the end.
LEMMA AppendIs ==
  ASSUME TerminalInv, NEW e \in Events
  PROVE  Append(state.events, e) = state.events \o <<e>>
BY StateIs, AppendIsConcat

\* A press starts a selection at the line under the pointer, or reports to the program.
LEMMA MouseDownKeeps ==
  ASSUME TerminalInv, NEW y \in Int, NEW shift \in BOOLEAN, MouseDownAt(y, shift)
  PROVE  TerminalInv'
<1>1. UNCHANGED <<term, drawn, wheel>>
  BY DEF MouseDownAt
<1>2. CASE mouse_mode(shift)
  <2>1. UNCHANGED state
    BY <1>2 DEF MouseDownAt
  <2>. QED
    BY <1>1, <2>1, WheelStays DEF TerminalInv, PointsInv, Near
<1>3. CASE ~mouse_mode(shift)
  <2>1. PICK e : e = PointAt("set", y)
    OBVIOUS
  <2>2. state' = [state EXCEPT !.events = Append(@, e), !.phase = "Selecting"]
    BY <1>3, <2>1 DEF MouseDownAt
  <2>3. Sound(e) /\ e \in Events
    BY <2>1, PointIsSound DEF Sound
  <2>4. state' = [state EXCEPT !.events = @ \o <<e>>, !.phase = "Selecting", !.scroll_px = state.scroll_px]
    <3>1. Append(state.events, e) = state.events \o <<e>>
      BY <2>3, AppendIs
    <3>. QED
      BY <2>2, <3>1 DEF TerminalInv
  <2>5. PICK new : new = <<e>>
    OBVIOUS
  <2>6. new \in Seq(Events) /\ \A n \in 1 .. Len(new) : Sound(new[n])
    BY <2>3, <2>5, OneIsSeq
  <2>7. WheelInv'
    <3>1. state'.scroll_px = state.scroll_px
      BY <2>2 DEF TerminalInv
    <3>. QED
      BY <1>1, <3>1, WheelStays
  <2>8. "Selecting" \in {"None", "Selecting", "Selected"} /\ state.scroll_px \in Int
    BY StateIs
  <2>. QED
    BY <1>1, <2>4, <2>5, <2>6, <2>7, <2>8, QueueingKeeps, Zenon
<1>. QED
  BY <1>2, <1>3

\* A release ends the selection where it is.
LEMMA ReleaseKeeps ==
  ASSUME TerminalInv, NEW over \in BOOLEAN, NEW shift \in BOOLEAN, MouseReleased(over, shift)
  PROVE  TerminalInv'
<1>1. /\ UNCHANGED <<term, drawn, wheel>>
      /\ state' = state \/ state' = [state EXCEPT !.phase = "Selected"]
  BY DEF MouseReleased
<1>2. /\ state' \in [events : Seq(Events), content_mode : SUBSET Modes, phase : {"None", "Selecting", "Selected"}, scroll_px : Int]
      /\ state'.events = state.events /\ state'.scroll_px = state.scroll_px
  BY <1>1 DEF TerminalInv
<1>3. WheelInv'
  BY <1>1, <1>2, WheelStays
<1>. QED
  BY <1>1, <1>2, <1>3 DEF TerminalInv, PointsInv, Near

\* A drag moves the end of the selection under the pointer, and one out of the view scrolls as well.
LEMMA DragKeeps ==
  ASSUME TerminalInv, NEW y \in Int, DragTo(y) \/ \E shift \in BOOLEAN : MoveOver(y, shift)
  PROVE  TerminalInv'
<1>1. UNCHANGED <<term, drawn, wheel>>
  BY DEF DragTo, MoveOver
<1>2. PICK e, up, down : e = PointAt("update", y) /\ up = Scrolled(1) /\ down = Scrolled(-1)
  OBVIOUS
<1>3. /\ Sound(e) /\ Sound(up) /\ Sound(down) /\ {e, up, down} \subseteq Events
  BY <1>2, PointIsSound, ScrollIsSound DEF Sound
<1>4. \E new \in {<<e>>, <<e>> \o <<up>>, <<e>> \o <<down>>, <<e>> \o <<>>} : state' = [state EXCEPT !.events = @ \o new]
  <2>1. CASE DragTo(y)
    <3>1. PICK more : more = (CASE y < 0 -> <<up>> [] y = TermRows -> <<down>> [] OTHER -> <<>>)
      OBVIOUS
    <3>2. more \in {<<up>>, <<down>>, <<>>}
      BY <3>1
    <3>3. state' = [state EXCEPT !.events = @ \o (<<e>> \o more)]
      BY <1>2, <2>1, <3>1, Zenon DEF DragTo, PushEvents
    <3>. QED
      BY <3>2, <3>3
  <2>2. CASE \E shift \in BOOLEAN : MoveOver(y, shift)
    BY <1>2, <2>2 DEF MoveOver, PushEvents
  <2>. QED
    BY <2>1, <2>2
<1>5. PICK new \in {<<e>>, <<e>> \o <<up>>, <<e>> \o <<down>>, <<e>> \o <<>>} : state' = [state EXCEPT !.events = @ \o new]
  BY <1>4
<1>6. new \in Seq(Events) /\ \A n \in 1 .. Len(new) : Sound(new[n])
  <2>1. CASE new = <<e>> \/ new = <<e>> \o <<>>
    <3>1. new = <<e>>
      BY <1>3, <2>1, OneIsSeq, ConcatEmptySeq
    <3>. QED
      BY <1>3, <3>1, OneIsSeq
  <2>2. CASE new = <<e>> \o <<up>>
    <3>1. new \in Seq(Events) /\ Len(new) = 2 /\ new[1] = e /\ new[2] = up
      BY <1>3, <2>2, TwoAreSeq
    <3>. QED
      BY <1>3, <3>1
  <2>3. CASE new = <<e>> \o <<down>>
    <3>1. new \in Seq(Events) /\ Len(new) = 2 /\ new[1] = e /\ new[2] = down
      BY <1>3, <2>3, TwoAreSeq
    <3>. QED
      BY <1>3, <3>1
  <2>. QED
    BY <1>5, <2>1, <2>2, <2>3
<1>7. state' = [state EXCEPT !.events = @ \o new, !.phase = state.phase, !.scroll_px = state.scroll_px]
  BY <1>5, <1>6, QueueIs, Zenon
<1>8. WheelInv'
  <2>1. state'.scroll_px = state.scroll_px
    BY <1>5 DEF TerminalInv
  <2>. QED
    BY <1>1, <2>1, WheelStays
<1>. QED
  BY <1>1, <1>6, <1>7, <1>8, StateIs, QueueingKeeps, Zenon

\* The wheel scrolls by whole lines and owes the rest and what the modulo took.
LEMMA WheelKeeps ==
  ASSUME TerminalInv, NEW d \in Int, NEW shift \in BOOLEAN, WheelScrolls(d, shift)
  PROVE  TerminalInv'
<1>1. PICK count, px, heights : count = Scrolls(d).lines /\ px = Scrolls(d).px /\ heights = Scrolls(d).heights
  OBVIOUS
<1>2. /\ UNCHANGED <<term, drawn>>
      /\ wheel' = [owed |-> wheel.owed + d - count * CellHeight, cut |-> wheel.cut + heights, over |-> wheel.over \/ heights # 0]
      /\ \/ count = 0 /\ state' = [state EXCEPT !.scroll_px = px]
         \/ state' = [state EXCEPT !.scroll_px = px, !.events = Append(@, Scrolled(count))]
  BY <1>1 DEF WheelScrolls
<1>3. /\ count \in Int /\ px \in Int /\ heights \in Int /\ px = state.scroll_px + d - heights * ViewHeight - count * CellHeight
      /\ heights = 0 /\ state.scroll_px \in 1 - CellHeight .. CellHeight - 1 => px \in 1 - CellHeight .. CellHeight - 1
  <2>1. state.scroll_px \in Int
    BY StateIs
  <2>. QED
    BY <1>1, <2>1, ScrollsIs
<1>4. state'.scroll_px = px
  BY <1>2 DEF TerminalInv
<1>5. WheelInv'
  <2>1. CellHeight \in Nat /\ ViewHeight \in Nat
    BY WheelAssumption
  <2>2. /\ wheel \in [owed : Int, cut : Int, over : BOOLEAN]
        /\ wheel.owed = state.scroll_px + wheel.cut * ViewHeight /\ state.scroll_px \in Int
        /\ ~wheel.over => wheel.cut = 0 /\ state.scroll_px \in 1 - CellHeight .. CellHeight - 1
    BY DEF TerminalInv, WheelInv, WheelIsConserved
  <2>3. PICK turned, before, now : turned = count * CellHeight /\ before = wheel.cut * ViewHeight /\ now = heights * ViewHeight
    OBVIOUS
  <2>4. turned \in Int /\ before \in Int /\ now \in Int
    BY <1>3, <2>1, <2>2, <2>3
  <2>5. wheel' = [owed |-> wheel.owed + d - turned, cut |-> wheel.cut + heights, over |-> wheel.over \/ heights # 0]
    BY <1>2, <2>3
  <2>6. wheel' \in [owed : Int, cut : Int, over : BOOLEAN]
    BY <1>3, <2>2, <2>4, <2>5
  <2>7. wheel'.cut * ViewHeight = before + now
    <3>1. PICK a, b, v : a = wheel.cut /\ b = heights /\ v = ViewHeight
      OBVIOUS
    <3>2. a \in Int /\ b \in Int /\ v \in Int /\ wheel'.cut = a + b
      BY <1>3, <2>1, <2>2, <2>5, <3>1
    <3>3. (a + b) * v = a * v + b * v
      BY <3>2
    <3>. QED
      BY <2>3, <3>1, <3>2, <3>3
  <2>8. wheel'.owed = px + wheel'.cut * ViewHeight
    <3>1. px = state.scroll_px + d - now - turned /\ wheel.owed = state.scroll_px + before
      BY <1>3, <2>2, <2>3
    <3>2. wheel'.owed = wheel.owed + d - turned /\ wheel.owed \in Int
      BY <2>2, <2>5
    <3>3. PICK old, new, rest, all : old = wheel.owed /\ new = wheel'.owed /\ rest = state.scroll_px /\ all = wheel'.cut * ViewHeight
      OBVIOUS
    <3>4. /\ px = rest + d - now - turned /\ old = rest + before /\ new = old + d - turned /\ all = before + now
          /\ rest \in Int /\ old \in Int
      BY <2>2, <2>7, <3>1, <3>2, <3>3
    <3>5. new = px + all
      BY <1>3, <2>4, <3>4
    <3>. QED
      BY <3>3, <3>5
  <2>9. ~wheel'.over => wheel'.cut = 0 /\ px \in 1 - CellHeight .. CellHeight - 1
    <3>1. wheel'.over <=> wheel.over \/ heights # 0
      BY <2>5, Zenon
    <3>2. wheel'.cut = wheel.cut + heights
      BY <2>5
    <3>3. ASSUME ~wheel'.over PROVE wheel.cut = 0 /\ heights = 0 /\ px \in 1 - CellHeight .. CellHeight - 1
      BY <1>3, <2>2, <3>1, <3>3, Zenon
    <3>. QED
      BY <3>2, <3>3
  <2>. QED
    BY <1>4, <2>6, <2>8, <2>9 DEF WheelInv, WheelIsConserved
<1>7. CASE state' = [state EXCEPT !.scroll_px = px]
  <2>1. /\ state' \in [events : Seq(Events), content_mode : SUBSET Modes, phase : {"None", "Selecting", "Selected"}, scroll_px : Int]
        /\ state'.events = state.events
    BY <1>3, <1>7 DEF TerminalInv
  <2>. QED
    BY <1>2, <1>5, <2>1 DEF TerminalInv, PointsInv, Near
<1>6. CASE state' = [state EXCEPT !.scroll_px = px, !.events = Append(@, Scrolled(count))]
  <2>1. PICK e : e = Scrolled(count)
    OBVIOUS
  <2>2. Sound(e) /\ e \in Events
    BY <1>3, <2>1, ScrollIsSound DEF Sound
  <2>3. state' = [state EXCEPT !.events = @ \o <<e>>, !.phase = state.phase, !.scroll_px = px]
    <3>1. Append(state.events, e) = state.events \o <<e>>
      BY <2>2, AppendIs
    <3>. QED
      BY <1>6, <2>1, <3>1 DEF TerminalInv
  <2>4. PICK new : new = <<e>>
    OBVIOUS
  <2>5. new \in Seq(Events) /\ \A n \in 1 .. Len(new) : Sound(new[n])
    BY <2>2, <2>4, OneIsSeq
  <2>. QED
    BY <1>2, <1>3, <1>5, <2>3, <2>4, <2>5, StateIs, QueueingKeeps, Zenon
<1>. QED
  BY <1>2, <1>6, <1>7

\* The screen follows the hand: a frame ends a selection on the line the frame before showed under
\* the pointer, or at most as many lines below as the program has printed since; the wheel scrolls
\* what it turned but for less than a line until the modulo takes view heights off, and these are
\* what is lost then.  For any screen, line and view height, wheel steps and number of events
\* between two frames (view.rs, terminal.rs).
THEOREM ScreenStaysTrue == TerminalSpec => []ScreenFollowsHand
<1>1. TerminalInv /\ [TerminalNext]_terminal_vars => TerminalInv'
  <2>1. SUFFICES ASSUME TerminalInv, [TerminalNext]_terminal_vars PROVE TerminalInv'
    OBVIOUS
  <2>2. TermRows \in Nat /\ WheelSteps \subseteq Int
    BY WheelAssumption
  <2>3. CASE ProcessBytes \/ OnKeyDown \/ ScrollbarMoves \/ TuiOrDeadline
    BY <2>1, <2>3, OutputKeeps
  <2>4. CASE RenderFrame
    BY <2>1, <2>4, FrameKeeps
  <2>5. CASE \E y \in -1 .. TermRows : DragTo(y)
    BY <2>1, <2>2, <2>5, DragKeeps
  <2>6. CASE \E y \in 0 .. TermRows - 1, shift \in BOOLEAN : MouseDownAt(y, shift) \/ MoveOver(y, shift)
    <3>1. PICK y \in 0 .. TermRows - 1, shift \in BOOLEAN : MouseDownAt(y, shift) \/ MoveOver(y, shift)
      BY <2>6
    <3>. QED
      BY <2>1, <2>2, <3>1, MouseDownKeeps, DragKeeps
  <2>7. CASE \E over, shift \in BOOLEAN : MouseReleased(over, shift)
    BY <2>1, <2>7, ReleaseKeeps
  <2>8. CASE \E d \in WheelSteps, shift \in BOOLEAN : WheelScrolls(d, shift) \/ WheelScrolls(-d, shift)
    <3>1. PICK d \in WheelSteps, shift \in BOOLEAN : WheelScrolls(d, shift) \/ WheelScrolls(-d, shift)
      BY <2>8
    <3>2. d \in Int /\ -d \in Int
      BY <2>2
    <3>. QED
      BY <2>1, <3>1, <3>2, WheelKeeps
  <2>9. CASE UNCHANGED terminal_vars
    BY <2>1, <2>9 DEF terminal_vars, TerminalInv, PointsInv, Near, WheelInv, WheelIsConserved
  <2>. QED
    BY <2>1, <2>3, <2>4, <2>5, <2>6, <2>7, <2>8, <2>9 DEF TerminalNext
<1>2. TerminalInv => ScreenFollowsHand
  BY PointsAreDrawn DEF ScreenFollowsHand, TerminalInv, WheelInv
<1>. QED
  BY <1>1, <1>2, TerminalInvInit, PTL DEF TerminalSpec
================================================================================

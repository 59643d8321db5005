------------------------------ MODULE AuditLog ------------------------------
(***************************************************************************)
(* The audit log: lines appended to an active file, which becomes a backup *)
(* when it is full; MaxFiles backups are kept.  Any of the renames, the    *)
(* write and the reopening may fail on its own, and the program may end    *)
(* and open the log again at any moment, also between two renames.         *)
(*                                                                         *)
(* A line is its number, a file the sequence of its lines and its size     *)
(* their number.                                                           *)
(***************************************************************************)
EXTENDS Naturals, Sequences

CONSTANTS MaxFiles,     \* MAX_FILES
          RotateLines,  \* ROTATE_BYTES, in lines
          MaxLines      \* bound: lines ever logged

ASSUME FilesAssumption == {MaxFiles, RotateLines} \subseteq Nat \ {0} /\ MaxLines \in Nat

VARIABLES active,   \* remote-audit.log
          backup,   \* remote-audit.log.1 and so on; an empty one does not exist
          exists,   \* whether the active file exists
          file,     \* Inner.file is Some
          bytes_written,
          rotating, \* the backup moved up next, 0 for the active file
          lines,    \* how many were logged
          fault     \* the worst so far: a rotation cut off, an operation failed

files == <<active, backup, exists>>
audit_vars == <<files, file, bytes_written, rotating, lines, fault>>

NotRotating == MaxFiles + 1
Reopening == MaxFiles

AuditTypeOK ==
  /\ active \in Seq(1 .. MaxLines) /\ backup \in [1 .. MaxFiles -> Seq(1 .. MaxLines)]
  /\ exists \in BOOLEAN /\ file \in BOOLEAN /\ fault \in {"none", "cut off", "failed"}
  /\ bytes_written \in 0 .. MaxLines /\ lines \in 0 .. MaxLines /\ rotating \in 0 .. NotRotating

AuditInit ==
  /\ active = <<>> /\ backup = [i \in 1 .. MaxFiles |-> <<>>]
  /\ exists = TRUE /\ file = TRUE
  /\ bytes_written = 0 /\ lines = 0 /\ rotating = NotRotating /\ fault = "none"

-----------------------------------------------------------------------------
LogLine ==
  /\ rotating = NotRotating /\ file /\ lines < MaxLines
  /\ lines' = lines + 1
  /\ active' = Append(active, lines')
  /\ bytes_written' = bytes_written + 1
  /\ IF bytes_written' >= RotateLines
     THEN rotating' = MaxFiles - 1 /\ file' = FALSE
     ELSE UNCHANGED <<rotating, file>>
  /\ UNCHANGED <<backup, exists, fault>>

\* Nothing is written: the disk is full, or the log could not be opened.
LogFails ==
  /\ rotating = NotRotating /\ lines < MaxLines
  /\ lines' = lines + 1 /\ fault' = "failed"
  /\ UNCHANGED <<files, file, bytes_written, rotating>>

Fails == fault' = "failed" /\ UNCHANGED files

\* Mistaken: the backups move up from the newest to the oldest.
ShiftsUpwards ==
  /\ rotating \in 1 .. MaxFiles - 1
  /\ rotating' = rotating - 1
  /\ LET i == MaxFiles - rotating IN
     backup' = IF backup[i] = <<>> THEN backup ELSE [backup EXCEPT ![i + 1] = backup[i], ![i] = <<>>]
  /\ UNCHANGED <<active, exists, file, bytes_written, lines, fault>>

ShiftBackup ==
  /\ rotating \in 1 .. MaxFiles - 1
  /\ rotating' = rotating - 1
  /\ \/ /\ backup' = IF backup[rotating] = <<>> THEN backup
                     ELSE [backup EXCEPT ![rotating + 1] = backup[rotating], ![rotating] = <<>>]
        /\ UNCHANGED <<active, exists, fault>>
     \/ backup[rotating] # <<>> /\ Fails
  /\ UNCHANGED <<file, bytes_written, lines>>

MoveActive ==
  /\ rotating = 0
  /\ rotating' = Reopening
  /\ \/ /\ exists
        /\ backup' = [backup EXCEPT ![1] = active]
        /\ active' = <<>> /\ exists' = FALSE
        /\ UNCHANGED fault
     \/ Fails
  /\ UNCHANGED <<file, bytes_written, lines>>

\* open_file creates the file when it is not there, and appends to it.
OpensLog ==
  \/ /\ file' = TRUE /\ exists' = TRUE /\ bytes_written' = Len(active)
     /\ fault' = IF rotating \in 0 .. Reopening - 1 /\ fault = "none" THEN "cut off" ELSE fault
  \/ /\ file' = FALSE /\ fault' = "failed"
     /\ UNCHANGED <<exists, bytes_written>>

Reopen ==
  /\ rotating = Reopening
  /\ rotating' = NotRotating
  /\ OpensLog
  /\ UNCHANGED <<active, backup, lines>>

\* The program ends at any moment and the log is opened anew.
AuditRestart ==
  /\ rotating' = NotRotating
  /\ OpensLog
  /\ UNCHANGED <<active, backup, lines>>

AuditNext == LogLine \/ LogFails \/ ShiftBackup \/ MoveActive \/ Reopen \/ AuditRestart
AuditSpec == AuditInit /\ [][AuditNext]_audit_vars

-----------------------------------------------------------------------------
\* The files as one log, the active one last.
Log == [i \in 0 .. MaxFiles |-> IF i = 0 THEN active ELSE backup[i]]

Holds(f, n) == \E k \in DOMAIN f : f[k] = n
Kept(F, n) == \E i \in DOMAIN F : Holds(F[i], n)

InOrder(F) ==
  /\ \A i \in DOMAIN F : \A k, l \in DOMAIN F[i] : k < l => F[i][k] < F[i][l]
  /\ \A i, j \in DOMAIN F : i > j => \A m, n \in 1 .. MaxLines : Holds(F[i], m) /\ Holds(F[j], n) => m < n

\* A line is kept when it is the last or the one before it is kept.
NoneMissing(F, last) == \A n \in 1 .. last : n = last \/ Kept(F, n - 1) => Kept(F, n)

AllButOneFull(F) == \E h \in DOMAIN F : \A i \in DOMAIN F \ {h} : Len(F[i]) >= RotateLines

\* The files, oldest backup first, read as one log: its lines stay in order
\* whatever fails; as long as nothing failed it ends with the last line and has
\* none missing in between, also when the program ended in a rotation; and it
\* only loses lines when all the backups are full (audit.rs, rotate).
AuditInOrder ==
  /\ InOrder(Log)
  /\ fault # "failed" => NoneMissing(Log, lines)
  /\ fault = "none" /\ lines > 0 /\ ~Kept(Log, 1) => AllButOneFull(Log)
=============================================================================

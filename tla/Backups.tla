------------------------------- MODULE Backups -------------------------------
(***************************************************************************)
(* The copies of the database (scripts/backup_db.py): a run makes a file   *)
(* named after the second it started in, copies the database into it and   *)
(* deletes the oldest names beyond those to keep.  The timer's run and a   *)
(* manual one before a migration may overlap, and each may end at any      *)
(* point, with an error or the power.                                      *)
(***************************************************************************)
EXTENDS Integers, FiniteSetsExt

CONSTANTS
  Runner,      \* runs at the same time
  Keep,        \* generations to keep (30)
  LastSecond   \* bound for TLC on the clock

ASSUME BackupAssumption == Keep \in Nat \ {0} /\ LastSecond \in Nat

VARIABLES
  second,      \* of the system clock
  files,       \* files[n]: the file named after second n: absent, partial or intact
  runs,        \* runs[r]: the step of run r, its name and the files it is to delete
  copied       \* history: names of the copies completed

backupVars == <<second, files, runs, copied>>

Name == 0 .. LastSecond
NoName == -1
NoRun == [at |-> "none", name |-> NoName, old |-> {}]

\* _list_backups goes by the name: a file left by a failed copy counts.
Listed(fs) == {n \in Name : fs[n] # "absent"}

BackupInit ==
  /\ second = 0
  /\ files = [n \in Name |-> "absent"]
  /\ runs = [r \in Runner |-> NoRun]
  /\ copied = {}

\* Plausible bug: the names are sorted the other way round.
PruneNewest(names) == {n \in names : Cardinality({m \in names : m < n}) >= Keep}

\* _prune_targets
Prune(names) == {n \in names : Cardinality({m \in names : m > n}) >= Keep}
-----------------------------------------------------------------------------
\* The name is taken, and must not be there; a second run may take the same one.
BeginCopy(r) ==
  /\ runs[r] = NoRun /\ files[second] = "absent"
  /\ runs' = [runs EXCEPT ![r] = [NoRun EXCEPT !.at = "named", !.name = second]]
  /\ UNCHANGED <<second, files, copied>>

\* _copy_sqlite_db: the file is there before it has anything in it.
Connect(r) ==
  /\ runs[r].at = "named"
  /\ files' = [files EXCEPT ![runs[r].name] = IF @ = "absent" THEN "partial" ELSE @]
  /\ runs' = [runs EXCEPT ![r].at = "copying"]
  /\ UNCHANGED <<second, copied>>

\* A run whose file another one has deleted meanwhile fails (Stop).
Copy(r) ==
  LET n == runs[r].name
  IN /\ runs[r].at = "copying" /\ files[n] # "absent"
     /\ files' = [files EXCEPT ![n] = "intact"]
     /\ copied' = copied \cup {n}
     /\ runs' = [runs EXCEPT ![r].at = "copied"]
     /\ UNCHANGED second

List(r) ==
  /\ runs[r].at = "copied"
  /\ runs' = [runs EXCEPT ![r].at = "pruning", ![r].old = Prune(Listed(files))]
  /\ UNCHANGED <<second, files, copied>>

\* The oldest goes first; a file that another run has deleted ends this one.
Unlink(r) ==
  LET n == Min(runs[r].old)
  IN /\ runs[r].at = "pruning" /\ runs[r].old # {}
     /\ files' = [files EXCEPT ![n] = "absent"]
     /\ \/ files[n] = "absent" /\ runs' = [runs EXCEPT ![r] = NoRun]
        \/ files[n] # "absent" /\ runs' = [runs EXCEPT ![r] = [runs[r] EXCEPT !.old = @ \ {n}]]
     /\ UNCHANGED <<second, copied>>

\* The run is over, or fails where it is; nothing is taken back.
Stop(r) ==
  /\ runs[r] # NoRun
  /\ runs' = [runs EXCEPT ![r] = NoRun]
  /\ UNCHANGED <<second, files, copied>>

\* Time goes by, or the clock is set back.
SetClock(t) == t # second /\ second' = t /\ UNCHANGED <<files, runs, copied>>

BackupNext ==
  \/ \E r \in Runner : BeginCopy(r) \/ Connect(r) \/ Copy(r) \/ List(r) \/ Unlink(r) \/ Stop(r)
  \/ \E t \in Name : SetClock(t)

BackupSpec == BackupInit /\ [][BackupNext]_backupVars
-----------------------------------------------------------------------------
\* A copy that was deleted gave way to Keep files of later names, even when runs
\* overlap and the clock was set back; so the generations kept are intact but for
\* files of copies that failed, each of which takes the place of one (run_backup).
BackupsKept ==
  /\ \A n \in copied : files[n] # "intact" => Cardinality({m \in Listed(files) : m > n}) >= Keep
  /\ Cardinality({n \in Name : files[n] = "intact"})
       >= Min({Keep, Cardinality(copied)}) - Cardinality({n \in Name : files[n] = "partial"})
=============================================================================

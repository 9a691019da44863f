--------------------------- MODULE CheckpointFile ---------------------------
(***************************************************************************)
(* FileCheckpointWriter::Write and ReadCheckpointFromFile                  *)
(* (agentflow/persist).  A file's content is how many of the Size blocks   *)
(* of which checkpoint it holds.  The process may be killed between any    *)
(* two system calls; the files survive.                                    *)
(***************************************************************************)
EXTENDS Naturals

CONSTANTS MaxVersion,   \* bound: checkpoints written
          Size,         \* blocks of a serialized checkpoint
          DiskMayFill   \* TRUE: a flush may find the disk full

ASSUME FileAssumption == MaxVersion \in Nat /\ Size \in Nat \ {0} /\ DiskMayFill \in BOOLEAN

VARIABLES
  path, tmp,   \* contents of path_ and path_ + ".tmp"
  step,        \* the Write in progress: "idle", "open", "written", "closed"
  current,     \* the version being written
  acked,       \* the last version Write returned Ok for
  seen         \* what the last ReadCheckpointFromFile returned

fvars == <<path, tmp, step, current, acked, seen>>

Absent == [version |-> 0, blocks |-> 0]
Whole(f) == f.version # 0 /\ f.blocks = Size

FTypeOK ==
  /\ path \in [version : 0 .. MaxVersion, blocks : 0 .. Size]
  /\ tmp \in [version : 0 .. MaxVersion, blocks : 0 .. Size]
  /\ step \in {"idle", "open", "written", "closed"}
  /\ current \in 0 .. MaxVersion
  /\ acked \in 0 .. current
  /\ seen \in [code : {"none", "NotFound", "DataLoss", "Ok"}, version : 0 .. MaxVersion]

FInit ==
  /\ path = Absent /\ tmp = Absent
  /\ step = "idle" /\ current = 0 /\ acked = 0
  /\ seen = [code |-> "none", version |-> 0]

\* The ofstream is opened with trunc, or cannot be opened.
Open ==
  /\ step = "idle" /\ current < MaxVersion
  /\ current' = current + 1
  /\ \/ step' = "open" /\ tmp' = [version |-> current', blocks |-> 0]
     \/ step' = "idle" /\ UNCHANGED tmp
  /\ UNCHANGED <<path, acked, seen>>

\* out.write: some of the bytes reach the file, the rest stays in the stream's
\* buffer.  An error it notices ends the Write.
WriteBytes ==
  /\ step = "open"
  /\ \E k \in 0 .. Size : tmp' = [tmp EXCEPT !.blocks = @ + k]
  /\ step' \in {"written", "idle"}
  /\ UNCHANGED <<path, current, acked, seen>>

\* The ofstream's destructor flushes the buffer; its failure is not noticed.
Close ==
  /\ step = "written"
  /\ \/ tmp' = [tmp EXCEPT !.blocks = Size]
     \/ DiskMayFill /\ UNCHANGED tmp
  /\ step' = "closed"
  /\ UNCHANGED <<path, current, acked, seen>>

Rename_BeforeClose ==
  /\ step \in {"written", "closed"}
  /\ path' = tmp /\ tmp' = Absent /\ acked' = current
  /\ step' = "idle"
  /\ UNCHANGED <<current, seen>>

Rename_AckAnyway ==
  /\ step = "closed"
  /\ \/ path' = tmp /\ tmp' = Absent
     \/ UNCHANGED <<path, tmp>>
  /\ acked' = current
  /\ step' = "idle"
  /\ UNCHANGED <<current, seen>>

\* rename replaces path_ atomically, or fails.
Rename ==
  /\ step = "closed"
  /\ \/ path' = tmp /\ tmp' = Absent /\ acked' = current
     \/ UNCHANGED <<path, tmp, acked>>
  /\ step' = "idle"
  /\ UNCHANGED <<current, seen>>

\* kill -9, then a new process with a writer on the same path.
Kill ==
  /\ step # "idle"
  /\ step' = "idle"
  /\ UNCHANGED <<path, tmp, current, acked, seen>>

\* ReadCheckpointFromFile.  An empty file parses as an empty message; another
\* truncated one may fail to parse or parse as a prefix.  (The schema_version
\* this build writes is the one it accepts.)
Read ==
  /\ seen' \in IF path = Absent THEN {[code |-> "NotFound", version |-> 0]}
               ELSE IF Whole(path) THEN {[code |-> "Ok", version |-> path.version]}
               ELSE {[code |-> "DataLoss", version |-> 0], [code |-> "Ok", version |-> 0]}
  /\ UNCHANGED <<path, tmp, step, current, acked>>

FNext == Open \/ WriteBytes \/ Close \/ Rename \/ Kill \/ Read

FSpec == FInit /\ [][FNext]_fvars
-----------------------------------------------------------------------------
\* A file that holds part of a checkpoint is mapped outside the abstract values.
Atomic == INSTANCE AtomicFile WITH
            version <- IF path = Absent \/ Whole(path) THEN path.version
                       ELSE MaxVersion + 1

\* A kill at any point of Write leaves the prior checkpoint, the new one or no
\* file, never a half-written one: the writer implements an atomic file.
ImplementsAtomicFile == Atomic!Spec

\* Write returns Ok only for a checkpoint that is in the file, and no later crash,
\* failed write or half-done retry makes the file fall behind it.
OkMeansStored == acked > 0 => Whole(path) /\ path.version >= acked

\* What ReadCheckpointFromFile hands to Resume is always a checkpoint that Write
\* was given, whole, whatever the moment of the read.
ReaderSeesWhole == seen.code # "DataLoss" /\ (seen.code = "Ok" => seen.version > 0)
=============================================================================

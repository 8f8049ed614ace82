----------------------------- MODULE CleanTask -----------------------------
(***************************************************************************)
(* Temporary files of sent messages: CleanupQueue                          *)
(* (napcat-common/src/clean-task.ts), used through addFiles by             *)
(* sendMsgWithOb11UniqueId (napcat-onebot/api/msg.ts).  A file is removed  *)
(* when its delay is over, with two more tries if the removal fails; every *)
(* operation goes through a queue served one per turn of the event loop,   *)
(* so a timer that fired is only acted on later.                           *)
(***************************************************************************)
EXTENDS Integers, Sequences, FiniteSets

CONSTANTS
  File,
  MAX_RETRIES,
  MaxRecord      \* bound: file records made

Unused == "none"
ASSUME CleanTaskAssumption == MAX_RETRIES \in Nat \ {0} /\ MaxRecord \in Nat /\ Unused \notin File

VARIABLES
  exists,              \* files on the disk
  tasks,               \* the record this.tasks holds for a file, 0 for none
  recordOf,            \* the file of each record made
  retries,
  pendingTimers,       \* records whose timer is pending
  pendingOperations,
  isProcessing,
  uses,                \* addFiles that will still be asked for
  gaveUp               \* history: files whose last record ended without their removal

cleanvars == <<exists, tasks, recordOf, retries, pendingTimers, pendingOperations, isProcessing, uses, gaveUp>>

Record == 1..MaxRecord
MadeRecords == {r \in Record : recordOf[r] # Unused}
Operation == [do : {"add"}, file : File] \cup [do : {"clean"}, record : Record]
Queued(op) == \E k \in 1..Len(pendingOperations) : pendingOperations[k] = op
Cleaning(r) == [do |-> "clean", record |-> r]

(* Shapes; an operation that waits is served: the queue is processing.     *)
CleanTaskTypeOK ==
  /\ exists \subseteq File /\ gaveUp \subseteq File
  /\ tasks \in [File -> 0..MaxRecord]
  /\ recordOf \in [Record -> File \cup {Unused}]
  /\ retries \in [Record -> 0..(MAX_RETRIES - 1)]
  /\ pendingTimers \subseteq MadeRecords
  /\ \A k \in 1..Len(pendingOperations) : pendingOperations[k] \in Operation
  /\ isProcessing \in BOOLEAN /\ (pendingOperations # <<>> => isProcessing)
  /\ uses \in 0..MaxRecord

CleanTaskInit ==
  /\ exists = {} /\ gaveUp = {}
  /\ tasks = [f \in File |-> 0]
  /\ recordOf = [r \in Record |-> Unused] /\ retries = [r \in Record |-> 0]
  /\ pendingTimers = {}
  /\ pendingOperations = <<>> /\ isProcessing = FALSE
  /\ uses = MaxRecord

----------------------------------------------------------------------------
(* The operation of addFiles, for one file of its list: the timer of a     *)
(* file that has a task is stopped, and a new record takes its place.      *)
Cancelled(f, timers) == timers \ {tasks[f]}
NextRecord == CHOOSE r \in Record : recordOf[r] = Unused

Added(f, timers) ==
  /\ recordOf' = [recordOf EXCEPT ![NextRecord] = f]
  /\ tasks' = [tasks EXCEPT ![f] = NextRecord]
  /\ pendingTimers' = Cancelled(f, timers) \cup {NextRecord}
  /\ UNCHANGED <<retries, gaveUp>>

(* The operation of cleanupFile: the file is gone or is removed, or it     *)
(* cannot be removed; then the record gets another timer, MAX_RETRIES      *)
(* tries in all.  Its task ends whichever record the file has by then.     *)
TaskLeft(f) == UNCHANGED tasks             \* defect: the task outlives its timer
TaskGone(f) == tasks' = [tasks EXCEPT ![f] = 0]

Removed(r, timers, files) ==
  /\ exists' = files \ {recordOf[r]}
  /\ TaskGone(recordOf[r])
  /\ pendingTimers' = timers
  /\ UNCHANGED <<recordOf, retries, gaveUp>>

TriesAgain(r) == retries[r] < MAX_RETRIES - 1

NotRearmed(r, timers) == timers            \* defect: a failure is only counted
Rearmed(r, timers) == timers \cup {r}

NotRemoved(r, timers, files) ==
  /\ recordOf[r] \in files /\ exists' = files
  /\ IF TriesAgain(r)
     THEN /\ retries' = [retries EXCEPT ![r] = @ + 1]
          /\ pendingTimers' = Rearmed(r, timers)
          /\ tasks' = [tasks EXCEPT ![recordOf[r]] = r]
          /\ UNCHANGED gaveUp
     ELSE /\ TaskGone(recordOf[r])
          /\ gaveUp' = gaveUp \cup {recordOf[r]}
          /\ pendingTimers' = timers /\ UNCHANGED retries
  /\ UNCHANGED recordOf

Execute(op, timers, files) ==
  \/ op.do = "add" /\ Added(op.file, timers) /\ exists' = files
  \/ op.do = "clean" /\ (Removed(op.record, timers, files) \/ NotRemoved(op.record, timers, files))

(* safeExecute: an idle queue runs the operation at once, and looks at     *)
(* what came meanwhile in the next turn of the loop.                       *)
SafeExecute(op, timers, files) ==
  IF isProcessing
  THEN /\ pendingOperations' = Append(pendingOperations, op)
       /\ pendingTimers' = timers /\ exists' = files
       /\ UNCHANGED <<tasks, recordOf, retries, gaveUp, isProcessing>>
  ELSE Execute(op, timers, files) /\ isProcessing' = TRUE /\ UNCHANGED pendingOperations

AddFiles(f) ==
  /\ uses > 0 /\ uses' = uses - 1
  /\ SafeExecute([do |-> "add", file |-> f], pendingTimers, exists \cup {f})

TimerFires(r) ==
  /\ r \in pendingTimers
  /\ SafeExecute(Cleaning(r), pendingTimers \ {r}, exists)
  /\ UNCHANGED uses

ExecuteNextOperation ==
  /\ isProcessing
  /\ IF pendingOperations = <<>>
     THEN /\ isProcessing' = FALSE
          /\ UNCHANGED <<exists, tasks, recordOf, retries, pendingTimers, pendingOperations, gaveUp>>
     ELSE /\ Execute(Head(pendingOperations), pendingTimers, exists)
          /\ pendingOperations' = Tail(pendingOperations) /\ UNCHANGED isProcessing
  /\ UNCHANGED uses

CleanTaskNext ==
  \/ \E f \in File : AddFiles(f)
  \/ \E r \in Record : TimerFires(r)
  \/ ExecuteNextOperation

CleanTaskFair == WF_cleanvars(ExecuteNextOperation) /\ \A r \in Record : WF_cleanvars(TimerFires(r))
CleanTaskSpec == CleanTaskInit /\ [][CleanTaskNext]_cleanvars
CleanTaskFairSpec == CleanTaskSpec /\ CleanTaskFair

----------------------------------------------------------------------------
(* A task always has a clean-up coming: its record's timer is pending, or  *)
(* the operation it became waits in the queue.                             *)
TaskIsComing == \A f \in File : tasks[f] # 0 => tasks[f] \in pendingTimers \/ Queued(Cleaning(tasks[f]))

(* A file handed over is removed in the end, unless a record of it used up *)
(* its tries, however additions, timers and the queue interleave.          *)
FilesGo == \A f \in File : f \in exists ~> f \notin exists \/ f \in gaveUp

(* Every file that is still to be removed has a timer or an operation that *)
(* will try, within its retries.                                           *)
CleanTaskSafe == CleanTaskTypeOK /\ TaskIsComing
============================================================================
